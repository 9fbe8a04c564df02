---------------------------- MODULE ApiServerProofs ----------------------------
(***************************************************************************)
(* Proofs about ApiServer for every set of requests and threads, and any   *)
(* numbers of permits, pieces and failures.                                *)
(***************************************************************************)
EXTENDS ApiServer, FiniteSetTheorems, SequenceTheorems, TLAPS

USE ApiAssumption

-----------------------------------------------------------------------------
(* The inductive invariant                                                 *)

Before == {"new", "refused", "wait", "wait to stream"}
Admitted == {"next", "poll", "await stream", "await"}
PcStates == Before \cup Admitted \cup {"done", "gone"}

Names == {"piece", "empty", "end", "error", "stop", "[DONE]", "text"}
Items == Names \X Nat
QueuedJobs == {"generate", "poll"} \X Requests
Jobs == {"generate", "poll", "close"} \X Requests

Types ==
    /\ pc \in [Requests -> PcStates]
    /\ tasks \in Seq(QueuedJobs)
    /\ task \in [Workers -> Jobs \cup {Idle}]
    /\ session \in [Workers -> Requests \cup {None}]
    /\ uses \in [Requests -> Requests \cup {None}]
    /\ streamer \in [Requests -> Seq(Items)]
    /\ polled \in [Requests -> {<<>>} \cup {<<x>> : x \in Items}]
    /\ future \in [Requests -> {"pending", "ok", "failed"}]
    /\ made \in [Requests -> 0..Pieces]
    /\ sent \in [Requests -> Seq(Items)]
    /\ hasty \subseteq Requests

(* A thread has an active session while it generates, and its own.         *)
SessionInv ==
    /\ \A w \in Workers : session[w] # None => task[w][1] \in {"generate", "close"}
    /\ SessionsSeparate

(* Permits are with the requests that have been admitted.                  *)
Holders == {r \in Requests : pc[r] \in Admitted}

PermitInv ==
    /\ IsFiniteSet(Holders) /\ permits \in Nat
    /\ permits + Cardinality(Holders) = MaxConcurrent

(* Of some jobs there is one at most, in the queue or at a thread.         *)
Once(js) ==
    /\ \A i, j \in 1..Len(tasks) : tasks[i] \in js /\ tasks[j] \in js => i = j
    /\ \A v, w \in Workers : task[v] \in js /\ task[w] \in js => v = w
    /\ \A i \in 1..Len(tasks), w \in Workers : ~(tasks[i] \in js /\ task[w] \in js)

Nowhere(js) ==
    /\ \A i \in 1..Len(tasks) : tasks[i] \notin js
    /\ \A w \in Workers : task[w] \notin js

Generation(r) == {Generate(r), <<"close", r>>}

(* A request generates once, and has one poll under way while it waits for *)
(* the outcome.                                                            *)
JobsOK(r) ==
    /\ Once(Generation(r))
    /\ pc[r] \in Before \/ future[r] # "pending" => Nowhere(Generation(r))
    /\ pc[r] = "poll" => Once({Poll(r)})
    /\ pc[r] \notin {"poll", "gone"} => Nowhere({Poll(r)})
    /\ polled[r] # <<>> => pc[r] = "poll" /\ Nowhere({Poll(r)})

(* The streamer holds what was made after the first n pieces, and perhaps  *)
(* the stop signal, after which nothing more is made.                      *)
Rest(r, n) ==
    /\ n \in 0..made[r]
    /\ Len(streamer[r]) \in {made[r] - n, made[r] - n + 1}
    /\ \A i \in 1..(made[r] - n) : streamer[r][i] = Piece(n + i)
    /\ Len(streamer[r]) = made[r] - n + 1 =>
         streamer[r][made[r] - n + 1] = Mark("end") /\ Nowhere({Generate(r)})

(* What a poll may bring besides a piece.                                  *)
Outcome(name) == <<Mark(name)>>

(* What is sent, polled and in the streamer is what was made, in order.    *)
StreamOK(r) ==
    /\ pc[r] \in Before =>
         /\ sent[r] = <<>> /\ streamer[r] = <<>> /\ made[r] = 0 /\ future[r] = "pending"
    /\ pc[r] = "await" => sent[r] = <<>>
    /\ pc[r] \in {"next", "poll", "await stream", "gone"} =>
         \A i \in 1..Len(sent[r]) : sent[r][i] = Piece(i)
    /\ pc[r] \in {"next", "poll"} /\ polled[r] \in {<<>>, Outcome("empty")} => Rest(r, Len(sent[r]))
    /\ polled[r] = Outcome("end") => made[r] = Len(sent[r]) /\ Nowhere({Generate(r)})
    /\ polled[r] \notin {<<>>, Outcome("empty"), Outcome("end")} =>
         polled[r] = <<Piece(Len(sent[r]) + 1)>> /\ Rest(r, Len(sent[r]) + 1)
    /\ pc[r] = "await stream" /\ r \notin hasty => made[r] = Len(sent[r]) /\ Nowhere({Generate(r)})
    /\ pc[r] = "done" => future[r] # "pending" /\ StreamRight(r)

Inv ==
    /\ Types /\ SessionInv /\ PermitInv
    /\ \A r \in Requests : JobsOK(r) /\ StreamOK(r)

-----------------------------------------------------------------------------
(* Jobs                                                                    *)

(* A poll that brings something has an outcome.                            *)
LEMMA OutcomeIsSome == \A name : <<>> # Outcome(name)
BY DEF Outcome

(* The numbers up to the next one.                                         *)
LEMMA UpToNext ==
    ASSUME NEW n \in Nat
    PROVE  \A i \in 1..(n + 1) : i \in 1..n \/ i = n + 1
OBVIOUS

(* A sequence after an element is appended,                                *)
LEMMA AppendFacts ==
    ASSUME NEW S, NEW q \in Seq(S), NEW e \in S
    PROVE  /\ Append(q, e) \in Seq(S) /\ Len(q) \in Nat
           /\ Len(Append(q, e)) = Len(q) + 1
           /\ \A i \in 1..Len(q) : Append(q, e)[i] = q[i]
           /\ Append(q, e)[Len(q) + 1] = e
BY AppendProperties, LenProperties

(* after its first element is taken,                                       *)
LEMMA TailFacts ==
    ASSUME NEW S, NEW q \in Seq(S), q # <<>>
    PROVE  /\ Head(q) \in S /\ Head(q) = q[1] /\ Len(q) \in Nat /\ Len(q) >= 1
           /\ Tail(q) \in Seq(S)
           /\ Len(Tail(q)) = Len(q) - 1
           /\ \A i \in 1..(Len(q) - 1) : Tail(q)[i] = q[i + 1]
BY HeadTailProperties, EmptySeq, LenProperties, ElementOfSeq

(* after others are added,                                                 *)
LEMMA ConcatFacts ==
    ASSUME NEW S, NEW q \in Seq(S), NEW t \in Seq(S)
    PROVE  /\ q \o t \in Seq(S) /\ Len(q) \in Nat
           /\ Len(q \o t) = Len(q) + Len(t)
           /\ \A i \in 1..Len(q) : (q \o t)[i] = q[i]
           /\ \A i \in 1..Len(t) : (q \o t)[Len(q) + i] = t[i]
<1>0. PICK n \in Nat : n = Len(t)
    BY LenProperties
<1>1. Len(q) \in Nat
    BY LenProperties
<1>2. /\ q \o t \in Seq(S) /\ Len(q \o t) = Len(q) + n
      /\ \A i \in 1..(Len(q) + n) : (q \o t)[i] = IF i <= Len(q) THEN q[i] ELSE t[i - Len(q)]
    BY <1>0, ConcatProperties
<1>3. \A i \in 1..Len(q) : i \in 1..(Len(q) + n) /\ i <= Len(q)
    BY <1>1
<1>4. \A i \in 1..n : /\ Len(q) + i \in 1..(Len(q) + n) /\ ~(Len(q) + i <= Len(q))
                      /\ (Len(q) + i) - Len(q) = i
    BY <1>1
<1>5. QED  BY <1>0, <1>1, <1>2, <1>3, <1>4

(* after one is added,                                                     *)
LEMMA OneMore ==
    ASSUME NEW S, NEW q \in Seq(S), NEW x \in S
    PROVE  /\ q \o <<x>> \in Seq(S) /\ Len(q) \in Nat
           /\ Len(q \o <<x>>) = Len(q) + 1
           /\ \A i \in 1..Len(q) : (q \o <<x>>)[i] = q[i]
           /\ (q \o <<x>>)[Len(q) + 1] = x
<1>1. <<x>> \in Seq(S) /\ Len(<<x>>) = 1 /\ <<x>>[1] = x /\ 1 \in 1..1
    OBVIOUS
<1>2. QED  BY <1>1, ConcatFacts

(* and after any is taken out of it.                                       *)
LEMMA RemoveAtFacts ==
    ASSUME NEW S, NEW q \in Seq(S), NEW k \in 1..Len(q)
    PROVE  /\ RemoveAt(q, k) \in Seq(S) /\ Len(q) \in Nat
           /\ Len(RemoveAt(q, k)) = Len(q) - 1
           /\ \A i \in 1..(Len(q) - 1) : RemoveAt(q, k)[i] = IF i < k THEN q[i] ELSE q[i + 1]
<1> DEFINE left == SubSeq(q, 1, k - 1)
           right == SubSeq(q, k + 1, Len(q))
<1>1. Len(q) \in Nat /\ k \in Nat /\ k >= 1 /\ k <= Len(q)
    BY LenProperties
<1>2. /\ left \in Seq(S) /\ Len(left) = k - 1
      /\ \A i \in 1..(k - 1) : left[i] = q[i]
    BY <1>1, SubSeqProperties
<1>3. /\ right \in Seq(S) /\ Len(right) = Len(q) - k
      /\ \A i \in 1..(Len(q) - k) : right[i] = q[k + i]
    BY <1>1, SubSeqProperties
<1>4. RemoveAt(q, k) = left \o right
    BY DEF RemoveAt
<1> HIDE DEF left, right
<1>5. /\ left \o right \in Seq(S) /\ Len(left \o right) = Len(left) + Len(right)
      /\ \A i \in 1..(Len(left) + Len(right)) :
           (left \o right)[i] = IF i <= Len(left) THEN left[i] ELSE right[i - Len(left)]
    BY <1>2, <1>3, ConcatProperties
<1>6. Len(left) + Len(right) = Len(q) - 1
    BY <1>1, <1>2, <1>3
<1>7. ASSUME NEW i \in 1..(Len(q) - 1)
      PROVE  RemoveAt(q, k)[i] = IF i < k THEN q[i] ELSE q[i + 1]
    <2>1. CASE i < k
        <3>1. i \in 1..(k - 1) /\ i <= Len(left) /\ i \in 1..(Len(left) + Len(right))
            BY <1>1, <1>2, <1>6, <2>1
        <3>2. QED  BY <1>2, <1>4, <1>5, <2>1, <3>1
    <2>2. CASE ~(i < k)
        <3>1. /\ ~(i <= Len(left)) /\ i \in 1..(Len(left) + Len(right))
              /\ i - Len(left) \in 1..(Len(q) - k) /\ k + (i - Len(left)) = i + 1
            BY <1>1, <1>2, <1>6, <2>2
        <3>2. (left \o right)[i] = right[i - Len(left)]
            BY <1>5, <3>1
        <3>3. QED  BY <1>3, <1>4, <2>2, <3>1, <3>2
    <2>3. QED  BY <2>1, <2>2
<1>8. QED  BY <1>1, <1>4, <1>5, <1>6, <1>7

(* A job is put into the executor's queue.                                 *)
LEMMA JobQueued ==
    ASSUME Types, NEW j \in QueuedJobs, tasks' = Append(tasks, j), UNCHANGED task, NEW js
    PROVE  /\ tasks' \in Seq(QueuedJobs)
           /\ Nowhere(js) => Once(js)'
           /\ j \notin js => (Once(js) => Once(js)') /\ (Nowhere(js) => Nowhere(js)')
<1>1. /\ tasks' \in Seq(QueuedJobs) /\ Len(tasks) \in Nat
      /\ Len(tasks') = Len(tasks) + 1
      /\ \A i \in 1..Len(tasks) : tasks'[i] = tasks[i]
      /\ tasks'[Len(tasks) + 1] = j
    BY AppendFacts DEF Types
<1>2. \A i \in 1..Len(tasks') : i \in 1..Len(tasks) \/ i = Len(tasks) + 1
    BY <1>1
<1>3. QED  BY <1>1, <1>2 DEF Once, Nowhere

(* A thread takes the first job.                                           *)
LEMMA JobTaken ==
    ASSUME Types, NEW w \in Workers, task[w] = Idle, tasks # <<>>,
           tasks' = Tail(tasks), task' = [task EXCEPT ![w] = Head(tasks)],
           NEW js, Idle \notin js
    PROVE  (Once(js) => Once(js)') /\ (Nowhere(js) => Nowhere(js)')
<1>1. /\ Len(tasks) \in Nat /\ Len(tasks) >= 1 /\ Head(tasks) = tasks[1]
      /\ Len(tasks') = Len(tasks) - 1
      /\ \A i \in 1..(Len(tasks) - 1) : tasks'[i] = tasks[i + 1]
    BY TailFacts DEF Types
<1>2. /\ 1 \in 1..Len(tasks)
      /\ \A i \in 1..Len(tasks') : i + 1 \in 1..Len(tasks) /\ tasks'[i] = tasks[i + 1] /\ i + 1 # 1
    BY <1>1
<1>3. \A v \in Workers : task'[v] = IF v = w THEN tasks[1] ELSE task[v]
    BY <1>1 DEF Types
<1>4. ASSUME Once(js) PROVE Once(js)'
    <2>1. ASSUME NEW i \in 1..Len(tasks'), NEW j \in 1..Len(tasks'), tasks'[i] \in js, tasks'[j] \in js
          PROVE  i = j
        <3>1. i + 1 = j + 1
            BY <1>2, <1>4, <2>1 DEF Once
        <3>2. QED  BY <3>1
    <2>2. ASSUME NEW i \in 1..Len(tasks'), NEW v \in Workers
          PROVE  ~(tasks'[i] \in js /\ task'[v] \in js)
        BY <1>2, <1>3, <1>4 DEF Once
    <2>3. ASSUME NEW u \in Workers, NEW v \in Workers, task'[u] \in js, task'[v] \in js
          PROVE  u = v
        BY <1>2, <1>3, <1>4, <2>3 DEF Once
    <2>4. QED  BY <2>1, <2>2, <2>3 DEF Once
<1>5. ASSUME Nowhere(js) PROVE Nowhere(js)'
    BY <1>2, <1>3, <1>5 DEF Nowhere
<1>6. QED  BY <1>4, <1>5

(* A job is withdrawn from the queue.                                      *)
LEMMA JobWithdrawn ==
    ASSUME Types, NEW x, tasks' = Withdraw(tasks, x), UNCHANGED task
    PROVE  /\ tasks' \in Seq(QueuedJobs)
           /\ \A js : (Once(js) => Once(js)') /\ (Nowhere(js) => Nowhere(js)')
<1>1. CASE \A i \in 1..Len(tasks) : tasks[i] # x
    <2>1. tasks' = tasks
        BY <1>1 DEF Withdraw
    <2>2. QED  BY <2>1 DEF Types, Once, Nowhere
<1>2. CASE \E i \in 1..Len(tasks) : tasks[i] = x
    <2>1. PICK k \in 1..Len(tasks) : tasks' = RemoveAt(tasks, k)
        BY <1>2 DEF Withdraw
    <2>2. /\ tasks' \in Seq(QueuedJobs) /\ Len(tasks) \in Nat /\ Len(tasks') = Len(tasks) - 1
          /\ \A i \in 1..(Len(tasks) - 1) : tasks'[i] = IF i < k THEN tasks[i] ELSE tasks[i + 1]
        BY <2>1, RemoveAtFacts, SMTT(30) DEF Types
    <2>3. \A i \in 1..Len(tasks') : /\ i \in 1..Len(tasks) /\ i + 1 \in 1..Len(tasks)
                                    /\ tasks'[i] = IF i < k THEN tasks[i] ELSE tasks[i + 1]
        BY <2>2
    <2>4. ASSUME NEW js, Once(js) PROVE Once(js)'
        <3>1. ASSUME NEW i \in 1..Len(tasks'), NEW j \in 1..Len(tasks'),
                     tasks'[i] \in js, tasks'[j] \in js
              PROVE  i = j
            <4>1. PICK m, n \in 1..Len(tasks) :
                     /\ m = (IF i < k THEN i ELSE i + 1) /\ n = (IF j < k THEN j ELSE j + 1)
                     /\ tasks[m] \in js /\ tasks[n] \in js
                BY <2>3, <3>1
            <4>2. m = n
                BY <2>4, <4>1 DEF Once
            <4>3. QED  BY <4>1, <4>2
        <3>2. \A i \in 1..Len(tasks'), w \in Workers : ~(tasks'[i] \in js /\ task'[w] \in js)
            BY <2>3, <2>4 DEF Once
        <3>3. QED  BY <2>4, <3>1, <3>2 DEF Once
    <2>5. ASSUME NEW js, Nowhere(js) PROVE Nowhere(js)'
        BY <2>3, <2>5 DEF Nowhere
    <2>6. QED  BY <2>2, <2>4, <2>5
<1>3. QED  BY <1>1, <1>2

(* A thread goes on with its job, or ends it.                              *)
LEMMA JobDone ==
    ASSUME Types, UNCHANGED tasks, NEW w \in Workers, NEW job, task' = [task EXCEPT ![w] = job],
           NEW js
    PROVE  /\ (job \in js => task[w] \in js) => (Once(js) => Once(js)') /\ (Nowhere(js) => Nowhere(js)')
           /\ task[w] \in js /\ job \notin js /\ Once(js) => Nowhere(js)'
<1>1. \A v \in Workers : task'[v] = IF v = w THEN job ELSE task[v]
    BY DEF Types
<1>2. QED  BY <1>1 DEF Once, Nowhere

(* Nothing happens to the jobs.                                            *)
LEMMA JobsSame ==
    ASSUME UNCHANGED <<tasks, task>>
    PROVE  \A js : Once(js)' = Once(js) /\ Nowhere(js)' = Nowhere(js)
BY DEF Once, Nowhere


(* Whatever the jobs of a request were, where they are counted they still  *)
(* count the same.                                                         *)
JobsKept(q) ==
    \A js \in {Generation(q), {Generate(q)}, {Poll(q)}} :
        (Once(js) => Once(js)') /\ (Nowhere(js) => Nowhere(js)')

(* A job of one request does not touch the jobs of another.                *)
LEMMA QueuedElsewhere ==
    ASSUME Types, NEW j \in QueuedJobs, tasks' = Append(tasks, j), UNCHANGED task,
           NEW q \in Requests, j[2] # q
    PROVE  JobsKept(q)
<1>1. ASSUME NEW js \in {Generation(q), {Generate(q)}, {Poll(q)}}
      PROVE  j \notin js
    BY DEF Generation, Generate, Poll, QueuedJobs
<1>2. QED  BY <1>1, JobQueued DEF JobsKept

(* A request of which nothing else changes keeps its invariants.           *)
LEMMA OtherKeeps ==
    ASSUME NEW q \in Requests, JobsOK(q), StreamOK(q), JobsKept(q),
           pc'[q] = pc[q], polled'[q] = polled[q], sent'[q] = sent[q],
           streamer'[q] = streamer[q], made'[q] = made[q], future'[q] = future[q],
           q \in hasty' <=> q \in hasty
    PROVE  JobsOK(q)' /\ StreamOK(q)'
<1>1. JobsOK(q)'
    BY DEF JobsOK, JobsKept
<1>2. \A n : Rest(q, n) => Rest(q, n)'
    BY DEF Rest, JobsKept
<1>3. StreamRight(q)' <=> StreamRight(q)
    BY DEF StreamRight, Streamed
<1>4. Nowhere({Generate(q)}) => Nowhere({Generate(q)})'
    BY DEF JobsKept
<1>5. QED  BY <1>1, <1>2, <1>3, <1>4 DEF StreamOK

-----------------------------------------------------------------------------
(* Permits                                                                 *)

(* A permit is taken and given back with the step of the request.          *)
LEMMA PermitMoves ==
    ASSUME Types, PermitInv, NEW r \in Requests, NEW step, pc' = [pc EXCEPT ![r] = step],
           \/ (pc[r] \in Admitted <=> step \in Admitted) /\ permits' = permits
           \/ pc[r] \notin Admitted /\ step \in Admitted /\ permits > 0 /\ permits' = permits - 1
           \/ pc[r] \in Admitted /\ step \notin Admitted /\ permits' = permits + 1
    PROVE  PermitInv'
<1>1. \A q \in Requests : pc'[q] = IF q = r THEN step ELSE pc[q]
    BY DEF Types
<1>2. /\ Holders' = IF step \in Admitted THEN Holders \cup {r} ELSE Holders \ {r}
      /\ r \in Holders <=> pc[r] \in Admitted
    BY <1>1 DEF Holders
<1>3. /\ IsFiniteSet(Holders) /\ Cardinality(Holders) \in Nat
      /\ IsFiniteSet(Holders \cup {r}) /\ IsFiniteSet(Holders \ {r})
      /\ Cardinality(Holders \cup {r}) = IF r \in Holders THEN Cardinality(Holders)
                                         ELSE Cardinality(Holders) + 1
      /\ Cardinality(Holders \ {r}) = IF r \in Holders THEN Cardinality(Holders) - 1
                                      ELSE Cardinality(Holders)
    BY FS_AddElement, FS_RemoveElement, FS_CardinalityType DEF PermitInv
<1>4. CASE step \in Admitted
    <2>1. Holders' = Holders \cup {r}
        BY <1>2, <1>4
    <2>2. Cardinality(Holders') = Cardinality(Holders \cup {r}) /\ IsFiniteSet(Holders')
        BY <1>3, <2>1
    <2>3. QED  BY <1>2, <1>3, <1>4, <2>2 DEF PermitInv
<1>5. CASE step \notin Admitted
    <2>1. Holders' = Holders \ {r}
        BY <1>2, <1>5
    <2>2. Cardinality(Holders') = Cardinality(Holders \ {r}) /\ IsFiniteSet(Holders')
        BY <1>3, <2>1
    <2>3. QED  BY <1>2, <1>3, <1>5, <2>2 DEF PermitInv
<1>6. QED  BY <1>4, <1>5

-----------------------------------------------------------------------------
(* The initial states and the coroutines                                   *)

(* Nobody has asked for anything.                                          *)
LEMMA InitInv == Init => Inv
<1> SUFFICES ASSUME Init PROVE Inv
    OBVIOUS
<1>1. Types
    BY DEF Init, Types, PcStates, Before
<1>2. SessionInv
    BY DEF Init, SessionInv, SessionsSeparate
<1>3. PermitInv
    <2>1. Holders = {}
        BY DEF Init, Holders, Admitted
    <2>2. IsFiniteSet({}) /\ Cardinality({}) = 0
        BY FS_EmptySet
    <2>3. QED  BY <2>1, <2>2 DEF Init, PermitInv
<1>4. ASSUME NEW r \in Requests PROVE JobsOK(r) /\ StreamOK(r)
    <2>1. tasks = <<>> /\ Len(tasks) = 0 /\ \A w \in Workers : task[w] = Idle
        BY DEF Init
    <2>2. Nowhere(Generation(r)) /\ Nowhere({Poll(r)}) /\ Once(Generation(r))
        BY <2>1 DEF Nowhere, Once, Generation, Generate, Poll, Idle
    <2>3. /\ pc[r] = "new" /\ polled[r] = <<>> /\ sent[r] = <<>> /\ streamer[r] = <<>>
          /\ made[r] = 0 /\ future[r] = "pending"
        BY DEF Init
    <2>4. QED  BY <2>2, <2>3, OutcomeIsSome DEF JobsOK, StreamOK, Before
<1>5. QED  BY <1>1, <1>2, <1>3, <1>4 DEF Inv

(* A step of a coroutine is a matter of its request.                       *)
LEMMA CoroutineStep ==
    ASSUME Inv, NEW r \in Requests, UNCHANGED threadVars, Types', PermitInv',
           \A q \in Requests \ {r} :
              /\ pc'[q] = pc[q] /\ polled'[q] = polled[q] /\ sent'[q] = sent[q]
              /\ q \in hasty' <=> q \in hasty
              /\ JobsKept(q),
           JobsOK(r)', StreamOK(r)'
    PROVE  Inv'
<1>1. SessionInv'
    BY DEF Inv, SessionInv, SessionsSeparate, threadVars
<1>2. ASSUME NEW q \in Requests, q # r PROVE JobsOK(q)' /\ StreamOK(q)'
    BY <1>2, OtherKeeps DEF Inv, threadVars
<1>3. QED  BY <1>1, <1>2 DEF Inv

(* Where neither queue nor threads change, all jobs are kept.              *)
LEMMA SameJobsKept ==
    ASSUME UNCHANGED <<tasks, task>>
    PROVE  \A q : JobsKept(q)
BY JobsSame DEF JobsKept

(* A request that has not been admitted has nothing to stream.             *)
LEMMA NothingToStream ==
    ASSUME NEW r \in Requests, pc'[r] \in Before, polled'[r] = <<>>,
           sent'[r] = <<>>, streamer'[r] = <<>>, made'[r] = 0, future'[r] = "pending"
    PROVE  StreamOK(r)'
<1>1. <<>> # Outcome("end")
    BY OutcomeIsSome
<1>2. pc'[r] \notin {"await", "next", "poll", "await stream", "gone", "done"}
    BY DEF Before
<1>3. QED  BY <1>1, <1>2 DEF StreamOK

\* A request that finds no permit ends refused, and owns nothing.
LEMMA RefuseKeeps == ASSUME Inv, NEW r \in Requests, Refuse(r) PROVE Inv'
<1>1. pc' = [pc EXCEPT ![r] = "refused"] /\ pc[r] = "new" /\ Types
    BY DEF Refuse, Goto, Inv
<1>2. Types'
    BY <1>1 DEF Refuse, Types, threadVars, PcStates, Before
<1>3. PermitInv'
    BY <1>1, PermitMoves DEF Inv, Refuse, Admitted
<1>4. \A q : JobsKept(q)
    BY SameJobsKept DEF Refuse, threadVars
<1>5. pc'[r] = "refused"
    BY <1>1 DEF Types
<1>6. JobsOK(r)'
    BY <1>1, <1>4, <1>5 DEF Inv, JobsOK, JobsKept, Before, Refuse, threadVars
<1>7. StreamOK(r)'
    <2>1. pc[r] \in Before /\ pc'[r] \in Before
        BY <1>1, <1>1, <1>5 DEF Before
    <2>2. /\ polled[r] = <<>> /\ sent[r] = <<>> /\ streamer[r] = <<>>
          /\ made[r] = 0 /\ future[r] = "pending"
        BY <1>1, <2>1 DEF Inv, StreamOK, JobsOK
    <2>3. QED  BY <2>1, <2>2, NothingToStream DEF Refuse, threadVars
<1>8. QED  BY <1>1, <1>2, <1>3, <1>4, <1>6, <1>7, CoroutineStep DEF Refuse, Types

\* An admitted request takes a permit and puts its job in the queue.
LEMMA AcceptKeeps == ASSUME Inv, NEW r \in Requests, Accept(r) PROVE Inv'
<1>1. PICK step \in {"wait to stream", "wait"} : pc' = [pc EXCEPT ![r] = step]
    BY DEF Accept, Goto
<1>2. Types /\ pc[r] = "new"
    BY DEF Inv, Accept
<1>3. Types'
    BY <1>1, <1>2 DEF Accept, Types, threadVars, PcStates, Before
<1>4. PermitInv'
    BY <1>1, <1>2, PermitMoves DEF Inv, Accept, Admitted
<1>5. \A q : JobsKept(q)
    BY SameJobsKept DEF Accept, threadVars
<1>6. pc'[r] = step /\ \A q \in Requests \ {r} : pc'[q] = pc[q]
    BY <1>1, <1>2 DEF Types
<1>7. JobsOK(r)'
    BY <1>2, <1>5, <1>6 DEF Inv, JobsOK, JobsKept, Before, Accept, threadVars
<1>8. StreamOK(r)'
    <2>1. pc[r] \in Before /\ pc'[r] \in Before
        BY <1>1, <1>2, <1>6 DEF Before
    <2>2. /\ polled[r] = <<>> /\ sent[r] = <<>> /\ streamer[r] = <<>>
          /\ made[r] = 0 /\ future[r] = "pending"
        BY <1>2, <2>1 DEF Inv, StreamOK, JobsOK
    <2>3. QED  BY <2>1, <2>2, NothingToStream DEF Accept, threadVars
<1>9. QED  BY <1>3, <1>4, <1>5, <1>6, <1>7, <1>8, CoroutineStep DEF Accept

(* The request at the head of the queue is admitted and generate() waits   *)
(* for a thread.                                                           *)
LEMMA EnterKeeps == ASSUME Inv, NEW r \in Requests, Enter(r) PROVE Inv'
<1>1. PICK step \in {"next", "await"} : pc' = [pc EXCEPT ![r] = step]
    BY DEF Enter, Goto
<1>2. Types /\ pc[r] \in Before /\ permits > 0 /\ permits' = permits - 1
    BY DEF Inv, Enter, Before
<1>3. tasks' = Append(tasks, Generate(r)) /\ UNCHANGED <<polled, sent, hasty, threadVars>>
    BY DEF Enter
<1>4. Generate(r) \in QueuedJobs /\ Generate(r)[2] = r
    BY DEF Generate, QueuedJobs
<1>5. /\ tasks' \in Seq(QueuedJobs)
      /\ Nowhere(Generation(r)) => Once(Generation(r))'
      /\ Nowhere({Poll(r)}) => Nowhere({Poll(r)})'
    <2>1. Generate(r) \notin {Poll(r)}
        BY DEF Generate, Poll
    <2>2. UNCHANGED task
        BY <1>3 DEF threadVars
    <2>3. QED  BY <1>2, <1>3, <1>4, <2>1, <2>2, JobQueued
<1>6. Types'
    BY <1>1, <1>2, <1>3, <1>5 DEF Types, threadVars, PcStates, Admitted
<1>7. PermitInv'
    <2>1. pc[r] \notin Admitted /\ step \in Admitted
        BY <1>2 DEF Before, Admitted
    <2>2. QED  BY <1>1, <1>2, <2>1, PermitMoves DEF Inv
<1>8. pc'[r] = step /\ \A q \in Requests \ {r} : pc'[q] = pc[q]
    BY <1>1, <1>2 DEF Types
<1>9. ASSUME NEW q \in Requests \ {r} PROVE JobsKept(q)
    BY <1>2, <1>3, <1>4, QueuedElsewhere DEF threadVars
<1>10. /\ sent[r] = <<>> /\ streamer[r] = <<>> /\ made[r] = 0 /\ future[r] = "pending"
       /\ Nowhere(Generation(r)) /\ Nowhere({Poll(r)}) /\ polled[r] = <<>>
    BY <1>2 DEF Inv, JobsOK, StreamOK, Before
<1>11. JobsOK(r)'
    BY <1>3, <1>5, <1>8, <1>10 DEF JobsOK, threadVars, Before
<1>12. StreamOK(r)'
    <2>1. sent'[r] = <<>> /\ streamer'[r] = <<>> /\ made'[r] = 0 /\ polled'[r] = <<>>
        BY <1>3, <1>10 DEF threadVars
    <2>2. Len(sent'[r]) = 0 /\ Len(streamer'[r]) = 0 /\ <<>> # Outcome("end")
        BY <2>1, OutcomeIsSome
    <2>3. Rest(r, Len(sent[r]))'
        <3>1. \A i \in 1..0 : FALSE
            OBVIOUS
        <3>2. made'[r] - Len(sent'[r]) = 0 /\ Len(sent'[r]) \in 0..made'[r]
            <4>1. made'[r] = 0 /\ Len(sent'[r]) = 0
                BY <2>1, <2>2
            <4>2. QED  BY <4>1
        <3>3. Len(streamer'[r]) \in {0, 1} /\ Len(streamer'[r]) # 0 + 1
            BY <2>2
        <3>4. QED  BY <3>1, <3>2, <3>3 DEF Rest
    <2>4. \A i \in 1..Len(sent'[r]) : sent'[r][i] = Piece(i)
        BY <2>2
    <2>5. QED  BY <1>8, <2>1, <2>2, <2>3, <2>4 DEF StreamOK, Before
<1>13. QED  BY <1>3, <1>6, <1>7, <1>8, <1>9, <1>11, <1>12, CoroutineStep DEF Enter

(* A poll is submitted when none is under way.                             *)
LEMMA SubmitPollKeeps == ASSUME Inv, NEW r \in Requests, SubmitPoll(r) PROVE Inv'
<1>1. /\ pc' = [pc EXCEPT ![r] = "poll"] /\ pc[r] = "next" /\ Types
      /\ tasks' = Append(tasks, Poll(r)) /\ UNCHANGED <<permits, polled, sent, hasty, threadVars>>
    BY DEF SubmitPoll, Goto, Inv
<1>2. Poll(r) \in QueuedJobs /\ Poll(r)[2] = r
    BY DEF Poll, QueuedJobs
<1>3. /\ tasks' \in Seq(QueuedJobs)
      /\ Nowhere({Poll(r)}) => Once({Poll(r)})'
      /\ Once(Generation(r)) => Once(Generation(r))'
      /\ Nowhere(Generation(r)) => Nowhere(Generation(r))'
      /\ Nowhere({Generate(r)}) => Nowhere({Generate(r)})'
    <2>1. Poll(r) \notin Generation(r) /\ Poll(r) \notin {Generate(r)}
        BY DEF Generate, Poll, Generation
    <2>2. UNCHANGED task
        BY <1>1 DEF threadVars
    <2>3. QED  BY <1>1, <1>2, <2>1, <2>2, JobQueued
<1>4. Types'
    BY <1>1, <1>3 DEF Types, threadVars, PcStates, Admitted
<1>5. PermitInv'
    <2>1. pc[r] \in Admitted /\ "poll" \in Admitted
        BY <1>1 DEF Admitted
    <2>2. QED  BY <1>1, <2>1, PermitMoves DEF Inv
<1>6. pc'[r] = "poll" /\ \A q \in Requests \ {r} : pc'[q] = pc[q]
    BY <1>1 DEF Types
<1>7. ASSUME NEW q \in Requests \ {r} PROVE JobsKept(q)
    BY <1>1, <1>2, QueuedElsewhere DEF threadVars
<1>8. /\ JobsOK(r) /\ StreamOK(r) /\ Nowhere({Poll(r)}) /\ polled[r] = <<>> /\ Rest(r, Len(sent[r]))
      /\ \A i \in 1..Len(sent[r]) : sent[r][i] = Piece(i)
    BY <1>1 DEF Inv, JobsOK, StreamOK
<1>9. JobsOK(r)'
    BY <1>1, <1>3, <1>6, <1>8 DEF JobsOK, threadVars, Before
<1>10. StreamOK(r)'
    <2>1. Rest(r, Len(sent[r]))'
        BY <1>1, <1>3, <1>8 DEF Rest, threadVars
    <2>2. sent'[r] = sent[r] /\ polled'[r] = <<>> /\ <<>> # Outcome("end")
        BY <1>1, <1>8, OutcomeIsSome
    <2>3. QED  BY <1>6, <1>8, <2>1, <2>2 DEF StreamOK, Before
<1>11. QED  BY <1>1, <1>4, <1>5, <1>6, <1>7, <1>9, <1>10, CoroutineStep

(* The outcome of a poll is handled: what comes next in the streamer is    *)
(* what was made next.                                                     *)
LEMMA HandlePollKeeps == ASSUME Inv, NEW r \in Requests, HandlePoll(r) PROVE Inv'
<1>1. /\ Types /\ JobsOK(r) /\ StreamOK(r) /\ pc[r] = "poll" /\ polled[r] # <<>>
      /\ polled' = [polled EXCEPT ![r] = <<>>]
      /\ UNCHANGED <<waiters, permits, tasks, threadVars>>
    BY DEF HandlePoll, Inv
<1>2. PICK step \in {"next", "await stream"} : pc' = [pc EXCEPT ![r] = step]
    BY DEF HandlePoll, Goto
<1>3. polled'[r] = <<>> /\ pc'[r] = step /\ <<>> # Outcome("end")
    BY <1>1, <1>2, OutcomeIsSome DEF Types
<1>4. Nowhere({Poll(r)}) /\ \A i \in 1..Len(sent[r]) : sent[r][i] = Piece(i)
    BY <1>1 DEF JobsOK, StreamOK
<1>5. \A q : JobsKept(q)
    BY <1>1, SameJobsKept DEF threadVars
<1>6. PermitInv'
    <2>1. pc[r] \in Admitted /\ step \in Admitted
        BY <1>1 DEF Admitted
    <2>2. QED  BY <1>1, <1>2, <2>1, PermitMoves DEF Inv
<1>7. JobsOK(r)'
    BY <1>1, <1>3, <1>4, <1>5 DEF JobsOK, JobsKept, threadVars, Before
<1>8. /\ UNCHANGED <<made, streamer>>
      /\ Nowhere({Generate(r)})' <=> Nowhere({Generate(r)})
      /\ sent'[r] = sent[r] => \A n : Rest(r, n)' <=> Rest(r, n)
    <2>1. Nowhere({Generate(r)})' <=> Nowhere({Generate(r)})
        BY <1>1, JobsSame DEF threadVars
    <2>2. QED  BY <1>1, <2>1 DEF Rest, threadVars
<1>9. CASE polled[r] = Outcome("empty") /\ step = "next" /\ UNCHANGED <<sent, hasty>>
    <2>1. Rest(r, Len(sent[r]))
        BY <1>1, <1>9 DEF StreamOK
    <2>2. StreamOK(r)'
        BY <1>3, <1>4, <1>8, <1>9, <2>1 DEF StreamOK, Before
    <2>3. Types'
        BY <1>1, <1>2, <1>9 DEF Types, threadVars, PcStates, Admitted
    <2>4. QED  BY <1>1, <1>2, <1>5, <1>6, <1>7, <1>9, <2>2, <2>3, CoroutineStep DEF Types
<1>10. CASE step = "await stream" /\ hasty' = hasty \cup {r} /\ UNCHANGED sent
    <2>1. StreamOK(r)'
        BY <1>3, <1>4, <1>10 DEF StreamOK, Before
    <2>2. Types'
        BY <1>1, <1>2, <1>10 DEF Types, threadVars, PcStates, Admitted
    <2>3. QED  BY <1>1, <1>2, <1>5, <1>6, <1>7, <1>10, <2>1, <2>2, CoroutineStep DEF Types
<1>11. CASE polled[r] = Outcome("end") /\ step = "await stream" /\ UNCHANGED <<sent, hasty>>
    <2>1. made[r] = Len(sent[r]) /\ Nowhere({Generate(r)})
        BY <1>1, <1>11 DEF StreamOK
    <2>2. StreamOK(r)'
        BY <1>3, <1>4, <1>8, <1>11, <2>1 DEF StreamOK, Before
    <2>3. Types'
        BY <1>1, <1>2, <1>11 DEF Types, threadVars, PcStates, Admitted
    <2>4. QED  BY <1>1, <1>2, <1>5, <1>6, <1>7, <1>11, <2>2, <2>3, CoroutineStep DEF Types
<1>12. CASE /\ polled[r][1][1] = "piece" /\ step = "next" /\ UNCHANGED hasty
            /\ sent' = [sent EXCEPT ![r] = @ \o polled[r]]
    <2>1. polled[r] = <<Piece(Len(sent[r]) + 1)>> /\ Rest(r, Len(sent[r]) + 1)
        <3>1. polled[r] # Outcome("empty") /\ polled[r] # Outcome("end")
            BY <1>12 DEF Mark, Outcome
        <3>2. QED  BY <1>1, <3>1 DEF StreamOK
    <2>2. PICK x \in Items : polled[r] = <<x>> /\ x = Piece(Len(sent[r]) + 1)
        <3>1. polled[r] \in {<<>>} \cup {<<x>> : x \in Items}
            BY <1>1 DEF Types
        <3>2. PICK x \in Items : polled[r] = <<x>>
            BY <1>1, <3>1
        <3>3. <<x>>[1] = <<Piece(Len(sent[r]) + 1)>>[1]
            BY <2>1, <3>2
        <3>4. QED  BY <3>2, <3>3
    <2>3. /\ sent[r] \in Seq(Items) /\ <<x>> \in Seq(Items) /\ Len(<<x>>) = 1 /\ <<x>>[1] = x
          /\ Len(sent[r]) \in Nat /\ sent'[r] = sent[r] \o <<x>>
        BY <1>1, <1>12, <2>2, LenProperties DEF Types
    <2>4. /\ sent'[r] \in Seq(Items) /\ Len(sent'[r]) = Len(sent[r]) + 1
          /\ \A i \in 1..Len(sent[r]) : sent'[r][i] = sent[r][i]
          /\ sent'[r][Len(sent[r]) + 1] = x
        <3>1. sent[r] \in Seq(Items) /\ sent'[r] = sent[r] \o <<x>>
            BY <2>3
        <3>2. /\ sent[r] \o <<x>> \in Seq(Items) /\ Len(sent[r]) \in Nat
              /\ Len(sent[r] \o <<x>>) = Len(sent[r]) + 1
              /\ \A i \in 1..Len(sent[r]) : (sent[r] \o <<x>>)[i] = sent[r][i]
              /\ (sent[r] \o <<x>>)[Len(sent[r]) + 1] = x
            BY <3>1, OneMore, ZenonT(30)
        <3>3. QED  BY <3>1, <3>2, Zenon
    <2>5. \A i \in 1..Len(sent'[r]) : sent'[r][i] = Piece(i)
        <3>1. \A i \in 1..Len(sent'[r]) : i \in 1..Len(sent[r]) \/ i = Len(sent[r]) + 1
            <4>1. PICK n \in Nat : n = Len(sent[r])
                BY <2>3
            <4>2. Len(sent'[r]) = n + 1
                BY <2>4, <4>1
            <4>3. \A i \in 1..(n + 1) : i \in 1..n \/ i = n + 1
                BY UpToNext
            <4>4. QED  BY <4>1, <4>2, <4>3
        <3>2. QED  BY <1>4, <2>2, <2>4, <3>1
    <2>6. Rest(r, Len(sent[r]))'
        <3>1. PICK n : n = Len(sent[r]) + 1
            OBVIOUS
        <3>2. Rest(r, n)
            BY <2>1, <3>1
        <3>3. Rest(r, n)'
            BY <1>8, <3>2 DEF Rest
        <3>4. Len(sent'[r]) = n
            BY <2>4, <3>1
        <3>5. QED  BY <3>3, <3>4 DEF Rest
    <2>7. StreamOK(r)'
        BY <1>3, <1>12, <2>4, <2>5, <2>6 DEF StreamOK, Before, Rest
    <2>8. Types'
        <3>1. sent' \in [Requests -> Seq(Items)]
            BY <1>1, <1>12, <2>3, <2>4 DEF Types
        <3>2. QED  BY <1>1, <1>2, <1>12, <3>1 DEF Types, threadVars, PcStates, Admitted
    <2>9. QED  BY <1>1, <1>2, <1>5, <1>6, <1>7, <1>12, <2>7, <2>8, CoroutineStep DEF Types
<1>13. \/ polled[r] = Outcome("empty") /\ step = "next" /\ UNCHANGED <<sent, hasty>>
       \/ step = "await stream" /\ hasty' = hasty \cup {r} /\ UNCHANGED sent
       \/ polled[r] = Outcome("end") /\ step = "await stream" /\ UNCHANGED <<sent, hasty>>
       \/ /\ polled[r][1][1] = "piece" /\ step = "next" /\ UNCHANGED hasty
          /\ sent' = [sent EXCEPT ![r] = @ \o polled[r]]
    BY <1>1, <1>2, <1>3 DEF HandlePoll, Goto, Send, Types, Outcome
<1>14. QED  BY <1>9, <1>10, <1>11, <1>12, <1>13

(* The end of an answer: nothing is under way for the request any more,    *)
(* and what was sent counts.                                               *)
LEMMA AnswerEnds ==
    ASSUME Inv, NEW r \in Requests, pc[r] \in {"await stream", "await"}, future[r] # "pending",
           pc' = [pc EXCEPT ![r] = "done"], permits' = permits + 1,
           UNCHANGED <<waiters, polled, hasty, tasks, threadVars>>,
           NEW end \in Seq(Items), sent' = [sent EXCEPT ![r] = @ \o end], StreamRight(r)'
    PROVE  Inv'
<1>1. Types /\ JobsOK(r) /\ StreamOK(r)
    BY DEF Inv
<1>2. /\ \A q \in Requests \ {r} : sent'[q] = sent[q] /\ pc'[q] = pc[q]
      /\ pc'[r] = "done"
    BY <1>1 DEF Types
<1>3. Types'
    <2>1. sent[r] \in Seq(Items)
        BY <1>1 DEF Types
    <2>2. sent[r] \o end \in Seq(Items)
        BY <2>1, ConcatProperties
    <2>3. sent' \in [Requests -> Seq(Items)]
        BY <1>1, <2>2 DEF Types
    <2>4. QED  BY <1>1, <2>3 DEF Types, threadVars, PcStates
<1>4. PermitInv'
    <2>1. pc[r] \in Admitted /\ "done" \notin Admitted
        BY DEF Admitted
    <2>2. QED  BY <1>1, <2>1, PermitMoves DEF Inv
<1>5. \A q : JobsKept(q)
    BY SameJobsKept DEF threadVars
<1>6. polled[r] = <<>> /\ Nowhere({Poll(r)}) /\ Nowhere(Generation(r))
    BY <1>1 DEF JobsOK
<1>7. JobsOK(r)'
    BY <1>1, <1>2, <1>5, <1>6 DEF JobsOK, JobsKept, threadVars
<1>8. StreamOK(r)'
    <2>1. polled'[r] = <<>> /\ <<>> # Outcome("end")
        BY <1>6, OutcomeIsSome
    <2>2. future'[r] # "pending"
        BY DEF threadVars
    <2>3. QED  BY <1>2, <2>1, <2>2 DEF StreamOK, Before
<1>9. QED  BY <1>2, <1>3, <1>4, <1>5, <1>7, <1>8, CoroutineStep

(* What a stream holds besides text.                                       *)
LEMMA MarkIsItem == ASSUME NEW name \in Names PROVE Mark(name) \in Items
BY DEF Mark, Items

(* The pieces, then the closing marks; all pieces unless the loop was      *)
(* hasty.                                                                  *)
LEMMA FinishStreamKeeps == ASSUME Inv, NEW r \in Requests, FinishStream(r) PROVE Inv'
<1> DEFINE end == IF future[r] = "ok" THEN <<Mark("stop"), Mark("[DONE]")>>
                  ELSE <<Mark("error"), Mark("stop"), Mark("[DONE]")>>
<1>1. /\ pc[r] = "await stream" /\ future[r] # "pending" /\ Types /\ StreamOK(r)
      /\ sent' = [sent EXCEPT ![r] = @ \o end]
      /\ pc' = [pc EXCEPT ![r] = "done"] /\ permits' = permits + 1
      /\ UNCHANGED <<waiters, polled, hasty, tasks, threadVars>>
    BY DEF FinishStream, Goto, Send, Inv
<1>2. PICK k \in {2, 3} :
         /\ end \in Seq(Items) /\ Len(end) = k /\ \A i \in 1..k : end[i][1] # "piece"
         /\ k = IF future[r] = "ok" THEN 2 ELSE 3
    <2>1. Mark("error") \in Items /\ Mark("stop") \in Items /\ Mark("[DONE]") \in Items
        BY MarkIsItem DEF Names
    <2>2. CASE future[r] = "ok"
        <3>1. end = <<Mark("stop"), Mark("[DONE]")>>
            BY <2>2
        <3>2. end \in Seq(Items) /\ Len(end) = 2
            BY <2>1, <3>1
        <3>3. \A i \in 1..2 : i = 1 \/ i = 2
            OBVIOUS
        <3>4. end[1][1] = "stop" /\ end[2][1] = "[DONE]"
            BY <3>1 DEF Mark
        <3>5. QED  BY <2>2, <3>2, <3>3, <3>4
    <2>3. CASE future[r] # "ok"
        <3>1. end = <<Mark("error"), Mark("stop"), Mark("[DONE]")>>
            BY <2>3
        <3>2. end \in Seq(Items) /\ Len(end) = 3
            BY <2>1, <3>1
        <3>3. \A i \in 1..3 : i = 1 \/ i = 2 \/ i = 3
            OBVIOUS
        <3>4. end[1][1] = "error" /\ end[2][1] = "stop" /\ end[3][1] = "[DONE]"
            BY <3>1 DEF Mark
        <3>5. QED  BY <2>3, <3>2, <3>3, <3>4
    <2>4. QED  BY <2>2, <2>3
<1> HIDE DEF end
<1>3. PICK n \in Nat : n = Len(sent[r])
    BY <1>1, LenProperties DEF Types
<1>4. sent[r] \in Seq(Items) /\ sent'[r] = sent[r] \o end
    BY <1>1 DEF Types
<1>5. /\ Len(sent'[r]) = n + k
      /\ \A i \in 1..n : sent'[r][i] = sent[r][i]
      /\ \A i \in 1..k : sent'[r][n + i] = end[i]
    <2>1. k \in Nat
        OBVIOUS
    <2>2. /\ Len(sent[r] \o end) = Len(sent[r]) + k
          /\ \A i \in 1..Len(sent[r]) : (sent[r] \o end)[i] = sent[r][i]
          /\ \A i \in 1..k : (sent[r] \o end)[Len(sent[r]) + i] = end[i]
        <3>1. PICK q \in Seq(Items), t \in Seq(Items) : q = sent[r] /\ t = end /\ Len(t) = k
            BY <1>2, <1>4
        <3>2. /\ q \o t \in Seq(Items) /\ Len(q) \in Nat
              /\ Len(q \o t) = Len(q) + Len(t)
              /\ \A i \in 1..Len(q) : (q \o t)[i] = q[i]
              /\ \A i \in 1..Len(t) : (q \o t)[Len(q) + i] = t[i]
            BY ConcatFacts
        <3>3. QED  BY <3>1, <3>2, Zenon
    <2>3. QED  BY <1>3, <1>4, <2>2
<1>6. StreamRight(r)'
    <2>1. /\ \A i \in 1..n : sent'[r][i] = Piece(i)
          /\ r \notin hasty => n = made[r]
        BY <1>1, <1>3, <1>5 DEF StreamOK
    <2>2. ASSUME NEW i \in n + 1..n + k PROVE sent'[r][i][1] # "piece"
        <3>1. PICK j \in 1..k : i = n + j
            <4>1. i - n \in 1..k /\ i = n + (i - n)
                OBVIOUS
            <4>2. QED  BY <4>1
        <3>2. QED  BY <1>2, <1>5, <3>1
    <2>3. n \in 0..Len(sent'[r])
        BY <1>5
    <2>4. future'[r] = future[r] /\ hasty' = hasty /\ made' = made
        BY <1>1 DEF threadVars
    <2>5. Len(sent'[r]) = n + (IF future'[r] = "ok" THEN 2 ELSE 3)
        BY <1>2, <1>5, <2>4
    <2>6. QED  BY <1>5, <2>1, <2>2, <2>3, <2>4, <2>5 DEF StreamRight
<1>7. QED  BY <1>1, <1>2, <1>6, AnswerEnds

(* An answer in one piece is no stream.                                    *)
LEMMA RespondKeeps == ASSUME Inv, NEW r \in Requests, Respond(r) PROVE Inv'
<1>1. PICK x \in {Mark("text"), Mark("error")} :
         /\ pc[r] = "await" /\ future[r] # "pending" /\ Types /\ StreamOK(r)
         /\ sent' = [sent EXCEPT ![r] = @ \o <<x>>]
         /\ pc' = [pc EXCEPT ![r] = "done"] /\ permits' = permits + 1
         /\ UNCHANGED <<waiters, polled, hasty, tasks, threadVars>>
    BY DEF Respond, Goto, Send, Inv
<1>2. x \in Items /\ x[1] # "piece" /\ x[1] # "[DONE]"
    <2>1. Mark("text") \in Items /\ Mark("error") \in Items
        BY MarkIsItem DEF Names
    <2>2. QED  BY <2>1 DEF Mark
<1>3. <<x>> \in Seq(Items)
    BY <1>2
<1>4. sent[r] = <<>> /\ sent[r] \in Seq(Items) /\ sent'[r] = sent[r] \o <<x>> /\ Len(sent[r]) = 0
    BY <1>1 DEF StreamOK, Types
<1>5. Len(sent'[r]) = 1 /\ sent'[r][1] = x
    <2>1. /\ Len(sent[r] \o <<x>>) = Len(sent[r]) + 1
          /\ (sent[r] \o <<x>>)[Len(sent[r]) + 1] = x
        <3>1. PICK y \in Items, q \in Seq(Items) : y = x /\ q = sent[r]
            BY <1>2, <1>4
        <3>2. /\ q \o <<y>> \in Seq(Items) /\ Len(q) \in Nat
              /\ Len(q \o <<y>>) = Len(q) + 1
              /\ \A i \in 1..Len(q) : (q \o <<y>>)[i] = q[i]
              /\ (q \o <<y>>)[Len(q) + 1] = y
            BY OneMore, Zenon
        <3>3. QED  BY <3>1, <3>2, Zenon
    <2>2. QED  BY <1>4, <2>1
<1>6. StreamRight(r)'
    <2>1. 0 \in 0..1 /\ 0 + 1 = 1 /\ (\A i \in 1..0 : FALSE) /\ \A i \in 1..1 : i = 1
        OBVIOUS
    <2>2. sent'[r][Len(sent'[r])] # Mark("[DONE]")
        BY <1>2, <1>5 DEF Mark
    <2>3. QED  BY <1>2, <1>5, <2>1, <2>2 DEF StreamRight, Streamed, Last
<1>7. QED  BY <1>1, <1>3, <1>6, AnswerEnds

(* A client that leaves has received some first pieces.                    *)
LEMMA DisconnectKeeps == ASSUME Inv, NEW r \in Requests, Disconnect(r) PROVE Inv'
<1>1. /\ pc[r] \in {"wait to stream", "next", "poll", "await stream"}
      /\ pc' = [pc EXCEPT ![r] = "gone"] /\ Types /\ JobsOK(r) /\ StreamOK(r)
      /\ permits' = IF pc[r] = "wait to stream" THEN permits ELSE permits + 1
      /\ tasks' = Withdraw(tasks, Poll(r)) /\ polled' = [polled EXCEPT ![r] = <<>>]
      /\ UNCHANGED <<sent, hasty, threadVars>>
    BY DEF Disconnect, Goto, Inv
<1>2. /\ \A q \in Requests \ {r} : polled'[q] = polled[q] /\ pc'[q] = pc[q]
      /\ pc'[r] = "gone" /\ polled'[r] = <<>> /\ <<>> # Outcome("end")
    BY <1>1, OutcomeIsSome DEF Types
<1>3. tasks' \in Seq(QueuedJobs) /\ \A q : JobsKept(q)
    <2>1. UNCHANGED task
        BY <1>1 DEF threadVars
    <2>2. /\ tasks' \in Seq(QueuedJobs)
          /\ \A js : (Once(js) => Once(js)') /\ (Nowhere(js) => Nowhere(js)')
        BY <1>1, <2>1, JobWithdrawn
    <2>3. QED  BY <2>2 DEF JobsKept
<1>4. Types'
    BY <1>1, <1>3 DEF Types, threadVars, PcStates
<1>5. PermitInv'
    <2>1. "gone" \notin Admitted /\ (pc[r] \in Admitted <=> pc[r] # "wait to stream")
        BY <1>1 DEF Admitted
    <2>2. QED  BY <1>1, <2>1, PermitMoves DEF Inv
<1>6. JobsOK(r)'
    BY <1>1, <1>2, <1>3 DEF JobsOK, JobsKept, threadVars, Before
<1>7. \A i \in 1..Len(sent[r]) : sent[r][i] = Piece(i)
    <2>1. CASE pc[r] = "wait to stream"
        <3>1. sent[r] = <<>>
            BY <1>1, <2>1 DEF StreamOK, Before
        <3>2. Len(sent[r]) = 0 /\ \A i \in 1..0 : FALSE
            BY <3>1
        <3>3. QED  BY <3>2
    <2>2. QED  BY <1>1, <2>1 DEF StreamOK
<1>8. StreamOK(r)'
    BY <1>1, <1>2, <1>7 DEF StreamOK, Before
<1>9. QED  BY <1>1, <1>2, <1>3, <1>4, <1>5, <1>6, <1>8, CoroutineStep

-----------------------------------------------------------------------------
(* The threads                                                             *)

(* A step of a thread is a matter of the request of its job.               *)
LEMMA ThreadStep ==
    ASSUME Inv, NEW r \in Requests, UNCHANGED <<pc, permits, sent, hasty>>, Types', SessionInv',
           \A q \in Requests \ {r} :
              /\ polled'[q] = polled[q] /\ streamer'[q] = streamer[q]
              /\ made'[q] = made[q] /\ future'[q] = future[q]
              /\ JobsKept(q),
           JobsOK(r)', StreamOK(r)'
    PROVE  Inv'
<1>1. PermitInv'
    BY DEF Inv, PermitInv, Holders
<1>2. ASSUME NEW q \in Requests, q # r PROVE JobsOK(q)' /\ StreamOK(q)'
    BY <1>2, OtherKeeps DEF Inv
<1>3. QED  BY <1>1, <1>2 DEF Inv

(* A thread goes on with a job of one request.                             *)
LEMMA DoneElsewhere ==
    ASSUME Types, UNCHANGED tasks, NEW w \in Workers, NEW r \in Requests, NEW q \in Requests, q # r,
           NEW job \in {Idle, <<"close", r>>}, task' = [task EXCEPT ![w] = job]
    PROVE  JobsKept(q)
<1>1. ASSUME NEW js \in {Generation(q), {Generate(q)}, {Poll(q)}}
      PROVE  job \notin js
    BY DEF Generation, Generate, Poll, Idle
<1>2. QED  BY <1>1, JobDone DEF JobsKept

(* The thread that takes a generation had no active session, so that it    *)
(* opens one.                                                              *)
LEMMA TakeKeeps == ASSUME Inv, NEW w \in Workers, Take(w) PROVE Inv'
<1>1. /\ Types /\ SessionInv /\ task[w] = Idle /\ tasks # <<>>
      /\ tasks' = Tail(tasks) /\ task' = [task EXCEPT ![w] = Head(tasks)]
      /\ UNCHANGED <<coroutineVars, streamer, future, made, failures>>
    BY DEF Take, Inv
<1>2. tasks' \in Seq(QueuedJobs) /\ Head(tasks) \in QueuedJobs
    BY <1>1, TailFacts DEF Types
<1>3. PICK r \in Requests :
         /\ r = Head(tasks)[2]
         /\ IF Head(tasks) = Generate(r)
            THEN /\ session' = [session EXCEPT ![w] = IF @ = None THEN r ELSE @]
                 /\ uses' = [uses EXCEPT ![r] = session'[w]]
            ELSE UNCHANGED <<session, uses>>
    BY <1>2 DEF Take, QueuedJobs
<1>4. session[w] = None
    BY <1>1 DEF SessionInv, Idle
<1>5. \A v \in Workers : task'[v] = IF v = w THEN Head(tasks) ELSE task[v]
    BY <1>1 DEF Types
<1>6. Types' /\ SessionInv'
    <2>1. task' \in [Workers -> Jobs \cup {Idle}]
        BY <1>1, <1>2 DEF Types, Jobs, QueuedJobs
    <2>2. CASE Head(tasks) = Generate(r)
        <3>1. session' = [session EXCEPT ![w] = r] /\ uses' = [uses EXCEPT ![r] = r]
            BY <1>1, <1>3, <1>4, <2>2 DEF Types
        <3>2. Types'
            BY <1>1, <1>2, <2>1, <3>1 DEF Types, coroutineVars
        <3>3. SessionInv'
            BY <1>1, <1>5, <2>2, <3>1 DEF Types, SessionInv, SessionsSeparate, Generate
        <3>4. QED  BY <3>2, <3>3
    <2>3. CASE Head(tasks) # Generate(r)
        <3>1. UNCHANGED <<session, uses>>
            BY <1>3, <2>3
        <3>2. Types'
            BY <1>1, <1>2, <2>1, <3>1 DEF Types, coroutineVars
        <3>3. SessionInv'
            BY <1>1, <1>4, <1>5, <3>1 DEF Types, SessionInv, SessionsSeparate
        <3>4. QED  BY <3>2, <3>3
    <2>4. QED  BY <2>2, <2>3
<1>7. ASSUME NEW q \in Requests PROVE JobsKept(q)
    <2>1. ASSUME NEW js \in {Generation(q), {Generate(q)}, {Poll(q)}} PROVE Idle \notin js
        BY DEF Generation, Generate, Poll, Idle
    <2>2. QED  BY <1>1, <2>1, JobTaken DEF JobsKept
<1>8. JobsOK(r)' /\ StreamOK(r)'
    BY <1>1, <1>7, OtherKeeps DEF Inv, coroutineVars
<1>9. QED  BY <1>1, <1>6, <1>7, <1>8, ThreadStep DEF coroutineVars

(* One piece more in the streamer.                                         *)
LEMMA NextPieceIsRight ==
    ASSUME NEW s \in Seq(Items), NEW m \in Nat, NEW n \in 0..m,
           Len(s) = m - n, \A i \in 1..(m - n) : s[i] = Piece(n + i)
    PROVE  /\ Append(s, Piece(m + 1)) \in Seq(Items)
           /\ Len(Append(s, Piece(m + 1))) = (m + 1) - n
           /\ \A i \in 1..((m + 1) - n) : Append(s, Piece(m + 1))[i] = Piece(n + i)
<1>1. Piece(m + 1) \in Items
    BY DEF Piece, Items, Names
<1>2. PICK k \in Nat : k = m - n /\ n + (k + 1) = m + 1 /\ (m + 1) - n = k + 1
    OBVIOUS
<1>3. /\ Append(s, Piece(m + 1)) \in Seq(Items)
      /\ Len(Append(s, Piece(m + 1))) = k + 1
      /\ \A i \in 1..k : Append(s, Piece(m + 1))[i] = s[i]
      /\ Append(s, Piece(m + 1))[k + 1] = Piece(m + 1)
    BY <1>1, <1>2, AppendFacts
<1>4. QED  BY <1>2, <1>3, UpToNext

(* While a generation runs, nothing of it has ended.                       *)
LEMMA WhileGenerating ==
    ASSUME Inv, NEW r \in Requests, ~Nowhere({Generate(r)})
    PROVE  /\ pc[r] \in {"next", "poll", "await stream", "await", "gone"} /\ future[r] = "pending"
           /\ polled[r] # Outcome("end")
           /\ pc[r] = "await stream" => r \in hasty
           /\ \A n : Rest(r, n) =>
                /\ Len(streamer[r]) = made[r] - n /\ n \in 0..made[r] /\ made[r] \in Nat
                /\ streamer[r] \in Seq(Items)
<1>1. Types /\ JobsOK(r) /\ StreamOK(r)
    BY DEF Inv
<1>2. ~Nowhere(Generation(r))
    BY DEF Nowhere, Generation
<1>3. pc[r] \notin Before /\ future[r] = "pending"
    BY <1>1, <1>2 DEF JobsOK
<1>4. pc[r] \in {"next", "poll", "await stream", "await", "gone"}
    BY <1>1, <1>3 DEF Types, PcStates, Admitted, StreamOK
<1>5. made[r] \in Nat /\ streamer[r] \in Seq(Items)
    BY <1>1 DEF Types
<1>6. QED  BY <1>1, <1>3, <1>4, <1>5 DEF StreamOK, Rest

\* A piece goes from the thread that generates to the streamer of its request.
LEMMA MakePieceKeeps == ASSUME Inv, NEW w \in Workers, MakePiece(w) PROVE Inv'
<1>1. PICK r \in Requests :
         /\ Types /\ JobsOK(r) /\ StreamOK(r) /\ SessionInv
         /\ task[w] = Generate(r) /\ made[r] < Pieces
         /\ made' = [made EXCEPT ![r] = @ + 1]
         /\ streamer' = IF Streaming(r) THEN [streamer EXCEPT ![r] = Append(@, Piece(made'[r]))]
                                        ELSE streamer
         /\ UNCHANGED <<coroutineVars, tasks, task, session, uses, future, failures>>
    BY DEF MakePiece, Inv
<1>2. ~Nowhere({Generate(r)})
    BY <1>1 DEF Nowhere
<1>3. PICK m \in Nat, s \in Seq(Items) :
         /\ m = made[r] /\ s = streamer[r] /\ m + 1 \in 0..Pieces /\ made'[r] = m + 1
         /\ Piece(m + 1) \in Items /\ Append(s, Piece(m + 1)) \in Seq(Items)
    <2>1. made[r] \in Nat /\ streamer[r] \in Seq(Items) /\ made[r] + 1 \in 0..Pieces
        BY <1>1 DEF Types
    <2>2. Piece(made[r] + 1) \in Items
        BY <2>1 DEF Piece, Items, Names
    <2>3. Append(streamer[r], Piece(made[r] + 1)) \in Seq(Items)
        BY <2>1, <2>2, AppendFacts
    <2>4. made'[r] = made[r] + 1
        BY <1>1 DEF Types
    <2>5. QED  BY <2>1, <2>2, <2>3, <2>4
<1>4. streamer'[r] = (IF Streaming(r) THEN Append(s, Piece(m + 1)) ELSE s)
    BY <1>1, <1>3 DEF Types
<1>5. \A q \in Requests \ {r} : streamer'[q] = streamer[q] /\ made'[q] = made[q]
    BY <1>1 DEF Types
<1>6. Types'
    <2>1. streamer' \in [Requests -> Seq(Items)]
        BY <1>1, <1>3 DEF Types
    <2>2. made' \in [Requests -> 0..Pieces]
        BY <1>1, <1>3 DEF Types
    <2>3. QED  BY <1>1, <2>1, <2>2 DEF Types, coroutineVars
<1>7. SessionInv' /\ \A q : JobsKept(q)
    BY <1>1, SameJobsKept DEF SessionInv, SessionsSeparate
<1>8. JobsOK(r)'
    BY <1>1, <1>7 DEF JobsOK, JobsKept, coroutineVars
<1>9. ASSUME NEW n, Rest(r, n), Streaming(r) PROVE Rest(r, n)'
    <2>1. Len(s) = m - n /\ n \in 0..m /\ \A i \in 1..(m - n) : s[i] = Piece(n + i)
        BY <1>2, <1>3, <1>9, WhileGenerating DEF Rest
    <2>2. streamer'[r] = Append(s, Piece(m + 1))
        BY <1>4, <1>9
    <2>3. /\ Len(streamer'[r]) = (m + 1) - n
          /\ \A i \in 1..((m + 1) - n) : streamer'[r][i] = Piece(n + i)
        <3>1. PICK k \in 0..m : k = n
            BY <2>1
        <3>2. Len(s) = m - k /\ \A i \in 1..(m - k) : s[i] = Piece(k + i)
            BY <2>1, <3>1
        <3>3. /\ Len(Append(s, Piece(m + 1))) = (m + 1) - k
              /\ \A i \in 1..((m + 1) - k) : Append(s, Piece(m + 1))[i] = Piece(k + i)
            BY <3>2, NextPieceIsRight
        <3>4. QED  BY <2>2, <3>1, <3>3
    <2>4. n \in 0..(m + 1) /\ (m + 1) - n # ((m + 1) - n) + 1
        BY <2>1
    <2>5. QED  BY <1>3, <2>3, <2>4 DEF Rest
<1>10. StreamOK(r)'
    <2>1. /\ pc[r] \in {"next", "poll", "await stream", "await", "gone"}
          /\ polled[r] # Outcome("end")
          /\ pc[r] = "await stream" => r \in hasty
        BY <1>2, WhileGenerating
    <2>2. polled[r] # <<>> => pc[r] = "poll"
        BY <1>1 DEF JobsOK
    <2>3. UNCHANGED <<pc, polled, sent, hasty>>
        BY <1>1 DEF coroutineVars
    <2>4. pc[r] \in {"next", "poll"} => Streaming(r)
        BY DEF Streaming
    <2>5. \A n : pc[r] \in {"next", "poll"} /\ Rest(r, n) => Rest(r, n)'
        BY <1>9, <2>4
    <2>6. /\ pc[r] \in {"next", "poll"} /\ Rest(r, Len(sent[r])) => Rest(r, Len(sent[r]))'
          /\ pc[r] \in {"next", "poll"} /\ Rest(r, Len(sent[r]) + 1) => Rest(r, Len(sent[r]) + 1)'
        BY <2>3, <2>5 DEF Rest
    <2>7. CASE pc[r] \in {"next", "poll"}
        <3>1. \A i \in 1..Len(sent'[r]) : sent'[r][i] = Piece(i)
            BY <1>1, <2>3, <2>7 DEF StreamOK
        <3>2. polled'[r] \in {<<>>, Outcome("empty")} => Rest(r, Len(sent[r]))'
            BY <1>1, <2>3, <2>6, <2>7 DEF StreamOK
        <3>3. polled'[r] # Outcome("end")
            BY <2>1, <2>3
        <3>4. polled'[r] \notin {<<>>, Outcome("empty")} =>
                 polled'[r] = <<Piece(Len(sent'[r]) + 1)>> /\ Rest(r, Len(sent[r]) + 1)'
            <4>1. polled[r] \notin {<<>>, Outcome("empty")} =>
                    polled[r] = <<Piece(Len(sent[r]) + 1)>> /\ Rest(r, Len(sent[r]) + 1)
                BY <1>1, <2>1 DEF StreamOK
            <4>2. polled'[r] = polled[r] /\ sent'[r] = sent[r]
                BY <2>3
            <4>3. QED  BY <2>6, <2>7, <4>1, <4>2, Zenon
        <3>5. pc'[r] \in {"next", "poll"}
            BY <2>3, <2>7
        <3>6. QED  BY <3>1, <3>2, <3>3, <3>4, <3>5 DEF StreamOK, Before
    <2>8. CASE pc[r] \in {"await stream", "await", "gone"}
        <3>1. polled'[r] = <<>> /\ <<>> # Outcome("end")
            BY <2>2, <2>3, <2>8, OutcomeIsSome
        <3>2. QED  BY <1>1, <2>1, <2>3, <2>8, <3>1 DEF StreamOK, Before
    <2>9. QED  BY <2>1, <2>7, <2>8
<1>11. QED  BY <1>1, <1>5, <1>6, <1>7, <1>8, <1>10, ThreadStep DEF coroutineVars

(* The stop signal comes after all pieces.                                 *)
LEMMA EndTextKeeps == ASSUME Inv, NEW w \in Workers, EndText(w) PROVE Inv'
<1>1. PICK r \in Requests :
         /\ Types /\ JobsOK(r) /\ StreamOK(r) /\ SessionInv
         /\ task[w] = Generate(r) /\ task' = [task EXCEPT ![w] = <<"close", r>>]
         /\ streamer' = IF Streaming(r) THEN [streamer EXCEPT ![r] = Append(@, Mark("end"))]
                        ELSE streamer
         /\ UNCHANGED <<coroutineVars, tasks, session, uses, future, made, failures>>
    BY DEF EndText, Inv
<1>2. ~Nowhere({Generate(r)})
    BY <1>1 DEF Nowhere
<1>3. PICK s \in Seq(Items) :
         s = streamer[r] /\ Mark("end") \in Items /\ Append(s, Mark("end")) \in Seq(Items)
    <2>1. Mark("end") \in Items /\ streamer[r] \in Seq(Items)
        BY <1>1, MarkIsItem DEF Types, Names
    <2>2. QED  BY <2>1, AppendFacts
<1>4. streamer'[r] = (IF Streaming(r) THEN Append(s, Mark("end")) ELSE s)
    BY <1>1, <1>3 DEF Types
<1>5. \A q \in Requests \ {r} : streamer'[q] = streamer[q]
    BY <1>1 DEF Types
<1>6. Types'
    <2>1. streamer' \in [Requests -> Seq(Items)]
        BY <1>1, <1>3 DEF Types
    <2>2. task' \in [Workers -> Jobs \cup {Idle}]
        BY <1>1 DEF Types, Jobs
    <2>3. QED  BY <1>1, <2>1, <2>2 DEF Types, coroutineVars
<1>7. SessionInv'
    <2>1. \A v \in Workers : task'[v] = IF v = w THEN <<"close", r>> ELSE task[v]
        BY <1>1 DEF Types
    <2>2. QED  BY <1>1, <2>1 DEF SessionInv, SessionsSeparate
<1>8. /\ JobsKept(r) /\ Nowhere({Generate(r)})'
      /\ \A q \in Requests \ {r} : JobsKept(q)
    <2>1. /\ <<"close", r>> \in Generation(r) /\ task[w] \in Generation(r)
          /\ <<"close", r>> \notin {Generate(r)} /\ <<"close", r>> \notin {Poll(r)}
        BY <1>1 DEF Generation, Generate, Poll
    <2>2. JobsKept(r)
        BY <1>1, <2>1, JobDone DEF JobsKept
    <2>3. Once({Generate(r)})
        BY <1>1 DEF JobsOK, Once, Generation
    <2>4. Nowhere({Generate(r)})'
        BY <1>1, <2>1, <2>3, JobDone
    <2>5. QED  BY <1>1, <2>2, <2>4, DoneElsewhere
<1>9. JobsOK(r)'
    BY <1>1, <1>8 DEF JobsOK, JobsKept, coroutineVars
<1>10. ASSUME NEW n, Rest(r, n), Streaming(r) PROVE Rest(r, n)'
    <2>1. /\ Len(s) = made[r] - n /\ n \in 0..made[r] /\ made[r] \in Nat
          /\ \A i \in 1..(made[r] - n) : s[i] = Piece(n + i)
        BY <1>2, <1>3, <1>10, WhileGenerating DEF Rest
    <2>2. PICK k \in Nat : k = made[r] - n
        BY <2>1
    <2>3. streamer'[r] = Append(s, Mark("end")) /\ made'[r] = made[r]
        BY <1>1, <1>4, <1>10
    <2>4. /\ Len(Append(s, Mark("end"))) = k + 1
          /\ \A i \in 1..k : Append(s, Mark("end"))[i] = s[i]
          /\ Append(s, Mark("end"))[k + 1] = Mark("end")
        BY <1>3, <2>1, <2>2, AppendFacts
    <2>5. QED  BY <1>8, <2>1, <2>2, <2>3, <2>4 DEF Rest
<1>11. StreamOK(r)'
    <2>1. /\ pc[r] \in {"next", "poll", "await stream", "await", "gone"}
          /\ polled[r] # Outcome("end")
          /\ pc[r] = "await stream" => r \in hasty
        BY <1>2, WhileGenerating
    <2>2. polled[r] # <<>> => pc[r] = "poll"
        BY <1>1 DEF JobsOK
    <2>3. UNCHANGED <<pc, polled, sent, hasty>>
        BY <1>1 DEF coroutineVars
    <2>4. pc[r] \in {"next", "poll"} => Streaming(r)
        BY DEF Streaming
    <2>5. /\ pc[r] \in {"next", "poll"} /\ Rest(r, Len(sent[r])) => Rest(r, Len(sent[r]))'
          /\ pc[r] \in {"next", "poll"} /\ Rest(r, Len(sent[r]) + 1) => Rest(r, Len(sent[r]) + 1)'
        BY <1>10, <2>3, <2>4 DEF Rest
    <2>6. QED  BY <1>1, <2>1, <2>2, <2>3, <2>5 DEF StreamOK, Before
<1>12. QED  BY <1>1, <1>5, <1>6, <1>7, <1>8, <1>9, <1>11, ThreadStep DEF coroutineVars

(* However a generation ends, its thread is left without a session.        *)
LEMMA GenerationEnds ==
    ASSUME Inv, NEW w \in Workers, NEW r \in Requests, NEW outcome \in {"ok", "failed"},
           task[w] \in Generation(r), task' = [task EXCEPT ![w] = Idle],
           future' = [future EXCEPT ![r] = outcome], session' = [session EXCEPT ![w] = None],
           UNCHANGED <<coroutineVars, tasks, uses, streamer, made>>
    PROVE  Inv'
<1>1. Types /\ JobsOK(r) /\ StreamOK(r) /\ SessionInv
    BY DEF Inv
<1>2. ~Nowhere(Generation(r)) /\ pc[r] \notin Before /\ pc[r] # "done"
    <2>1. ~Nowhere(Generation(r))
        BY DEF Nowhere
    <2>2. QED  BY <1>1, <2>1 DEF JobsOK, StreamOK
<1>3. Types'
    BY <1>1 DEF Types, coroutineVars
<1>4. /\ \A v \in Workers : task'[v] = (IF v = w THEN Idle ELSE task[v])
      /\ \A v \in Workers : session'[v] = (IF v = w THEN None ELSE session[v])
      /\ \A q \in Requests \ {r} : future'[q] = future[q]
      /\ future'[r] = outcome
    BY <1>1 DEF Types
<1>5. SessionInv'
    BY <1>1, <1>4 DEF SessionInv, SessionsSeparate
<1>6. /\ JobsKept(r) /\ Nowhere(Generation(r))'
      /\ \A q \in Requests \ {r} : JobsKept(q)
    <2>1. Idle \notin Generation(r) /\ Idle \notin {Generate(r)} /\ Idle \notin {Poll(r)}
        BY DEF Generation, Generate, Poll, Idle
    <2>2. JobsKept(r)
        BY <1>1, <2>1, JobDone DEF JobsKept
    <2>3. Nowhere(Generation(r))'
        BY <1>1, <2>1, JobDone DEF JobsOK
    <2>4. QED  BY <1>1, <2>2, <2>3, DoneElsewhere
<1>7. JobsOK(r)'
    BY <1>1, <1>6 DEF JobsOK, JobsKept, coroutineVars
<1>8. StreamOK(r)'
    <2>1. \A n : Rest(r, n) => Rest(r, n)'
        BY <1>6 DEF Rest, JobsKept
    <2>2. Nowhere({Generate(r)}) => Nowhere({Generate(r)})'
        BY <1>6 DEF JobsKept
    <2>3. UNCHANGED <<pc, polled, sent, hasty, made>>
        BY DEF coroutineVars
    <2>4. QED  BY <1>1, <1>2, <2>1, <2>2, <2>3 DEF StreamOK
<1>9. QED  BY <1>3, <1>4, <1>5, <1>6, <1>7, <1>8, ThreadStep DEF coroutineVars

\* Closing the session at the end of a generation ends it.
LEMMA CloseKeeps == ASSUME Inv, NEW w \in Workers, Close(w) PROVE Inv'
BY GenerationEnds DEF Close, LeaveSession, Generation

\* So does a failure, which the streamer is told of.
LEMMA FailKeeps == ASSUME Inv, NEW w \in Workers, Fail(w) PROVE Inv'
BY GenerationEnds DEF Fail, LeaveSession, Generation

(* The first of what is in the streamer is taken.                          *)
LEMMA RestTaken ==
    ASSUME Inv, NEW r \in Requests, NEW n, Rest(r, n), streamer[r] # <<>>,
           streamer'[r] = Tail(streamer[r]), made'[r] = made[r],
           Nowhere({Generate(r)}) => Nowhere({Generate(r)})'
    PROVE  \/ Head(streamer[r]) = Piece(n + 1) /\ Rest(r, n + 1)'
           \/ Head(streamer[r]) = Mark("end") /\ made[r] = n /\ Nowhere({Generate(r)})
<1>1. PICK m \in Nat, k \in Nat, s \in Seq(Items) :
         m = made[r] /\ k = n /\ s = streamer[r] /\ k <= m /\ s # <<>>
    BY DEF Inv, Types, Rest
<1>2. /\ Head(s) = s[1] /\ Len(Tail(s)) = Len(s) - 1
      /\ \A i \in 1..(Len(s) - 1) : Tail(s)[i] = s[i + 1]
    BY <1>1, TailFacts
<1>3. /\ Len(s) \in {m - k, m - k + 1} /\ \A i \in 1..(m - k) : s[i] = Piece(k + i)
      /\ Len(s) = m - k + 1 => s[m - k + 1] = Mark("end") /\ Nowhere({Generate(r)})
    BY <1>1 DEF Rest
<1>4. CASE m = k
    <2>1. Len(s) = 1
        BY <1>1, <1>3, <1>4, TailFacts
    <2>2. QED  BY <1>1, <1>2, <1>3, <1>4, <2>1
<1>5. CASE m # k
    <2>1. PICK j \in Nat : /\ m - k = j + 1 /\ m - (k + 1) = j /\ j + 1 >= 1 /\ k + 1 \in 0..m
                           /\ \A i \in 1..j : (k + 1) + i = k + (i + 1)
        <3>1. /\ m - (k + 1) \in Nat /\ m - k = (m - (k + 1)) + 1 /\ k + 1 \in 0..m
              /\ \A i \in 1..(m - (k + 1)) : (k + 1) + i = k + (i + 1)
            BY <1>1, <1>5
        <3>2. QED  BY <3>1
    <2>2. s[1] = Piece(k + 1)
        BY <1>3, <2>1, SMTT(30)
    <2>3. Len(s) = j + 1 \/ Len(s) = (j + 1) + 1
        BY <1>3, <2>1
    <2>4. /\ Len(Tail(s)) = j \/ Len(Tail(s)) = j + 1
          /\ Len(Tail(s)) = j + 1 <=> Len(s) = (j + 1) + 1
          /\ \A i \in 1..j : i + 1 \in 1..(j + 1) /\ i \in 1..(Len(s) - 1)
        BY <1>2, <2>3
    <2>5. \A i \in 1..j : Tail(s)[i] = Piece((k + 1) + i)
        BY <1>2, <1>3, <2>1, <2>4
    <2>6. Len(Tail(s)) = j + 1 => Tail(s)[j + 1] = Mark("end") /\ Nowhere({Generate(r)})
        BY <1>2, <1>3, <2>1, <2>4
    <2>7. Rest(r, k + 1)'
        BY <1>1, <2>1, <2>4, <2>5, <2>6 DEF Rest
    <2>8. QED  BY <1>1, <1>2, <2>2, <2>7
<1>6. QED  BY <1>4, <1>5

(* A poll takes what comes next, and finds a coroutine that waits for it   *)
(* or none.                                                                *)
LEMMA ServePollKeeps == ASSUME Inv, NEW w \in Workers, ServePoll(w) PROVE Inv'
<1>1. PICK r, outcome :
         /\ r \in Requests /\ Types /\ JobsOK(r) /\ StreamOK(r) /\ SessionInv
         /\ task[w] = Poll(r) /\ task' = [task EXCEPT ![w] = Idle]
         /\ outcome = IF streamer[r] = <<>> THEN Mark("empty") ELSE Head(streamer[r])
         /\ polled' = IF pc[r] = "poll" THEN [polled EXCEPT ![r] = <<outcome>>] ELSE polled
         /\ streamer' = [streamer EXCEPT ![r] = IF @ = <<>> THEN @ ELSE Tail(@)]
         /\ UNCHANGED <<pc, waiters, permits, sent, hasty, tasks, session, uses, future, made, failures>>
    BY DEF ServePoll, Inv
<1>2. pc[r] \in {"poll", "gone"} /\ polled[r] = <<>>
    <2>1. ~Nowhere({Poll(r)})
        BY <1>1 DEF Nowhere
    <2>2. QED  BY <1>1, <2>1 DEF JobsOK
<1>3. /\ outcome \in Items /\ streamer[r] \in Seq(Items)
      /\ streamer[r] # <<>> => Tail(streamer[r]) \in Seq(Items)
    <2>1. Mark("empty") \in Items
        BY MarkIsItem DEF Names
    <2>2. streamer[r] \in Seq(Items)
        BY <1>1 DEF Types
    <2>3. QED  BY <1>1, <2>1, <2>2, TailFacts
<1>4. /\ streamer'[r] = (IF streamer[r] = <<>> THEN <<>> ELSE Tail(streamer[r]))
      /\ pc[r] = "poll" => polled'[r] = <<outcome>>
      /\ pc[r] # "poll" => polled'[r] = <<>>
      /\ \A q \in Requests \ {r} : polled'[q] = polled[q] /\ streamer'[q] = streamer[q]
    BY <1>1, <1>2 DEF Types
<1>5. Types'
    <2>1. streamer' \in [Requests -> Seq(Items)]
        BY <1>1, <1>3 DEF Types
    <2>2. task' \in [Workers -> Jobs \cup {Idle}]
        BY <1>1 DEF Types
    <2>3. polled' \in [Requests -> {<<>>} \cup {<<x>> : x \in Items}]
        BY <1>1, <1>3 DEF Types
    <2>4. QED  BY <1>1, <2>1, <2>2, <2>3 DEF Types
<1>6. SessionInv'
    <2>1. \A v \in Workers : task'[v] = IF v = w THEN Idle ELSE task[v]
        BY <1>1 DEF Types
    <2>2. session[w] = None
        BY <1>1 DEF SessionInv, Poll
    <2>3. QED  BY <1>1, <2>1, <2>2 DEF SessionInv, SessionsSeparate
<1>7. /\ JobsKept(r)
      /\ pc[r] = "poll" => Nowhere({Poll(r)})'
      /\ \A q \in Requests \ {r} : JobsKept(q)
    <2>1. Idle \notin Generation(r) /\ Idle \notin {Generate(r)} /\ Idle \notin {Poll(r)}
        BY DEF Generation, Generate, Poll, Idle
    <2>2. JobsKept(r)
        BY <1>1, <2>1, JobDone DEF JobsKept
    <2>3. pc[r] = "poll" => Nowhere({Poll(r)})'
        BY <1>1, <2>1, JobDone DEF JobsOK
    <2>4. QED  BY <1>1, <2>2, <2>3, DoneElsewhere
<1>8. JobsKept(r) /\ (Nowhere({Generate(r)}) => Nowhere({Generate(r)})')
    BY <1>7 DEF JobsKept
<1>9. JobsOK(r)'
    BY <1>1, <1>2, <1>4, <1>7, <1>8 DEF JobsOK, JobsKept, Before
<1>10. StreamOK(r)'
    <2>1. \A i \in 1..Len(sent'[r]) : sent'[r][i] = Piece(i)
        BY <1>1, <1>2 DEF StreamOK
    <2>2. CASE pc[r] = "gone"
        <3>1. pc'[r] = "gone" /\ polled'[r] = <<>>
            BY <1>1, <1>4, <2>2
        <3>2. QED  BY <2>1, <3>1, OutcomeIsSome DEF StreamOK, Before
    <2>3. CASE pc[r] = "poll"
        <3>1. PICK n : n = Len(sent[r]) /\ Rest(r, n)
            BY <1>1, <1>2, <2>3 DEF StreamOK
        <3>2. pc'[r] = "poll" /\ polled'[r] = <<outcome>> /\ made'[r] = made[r] /\ Len(sent'[r]) = n
            BY <1>1, <1>4, <2>3, <3>1
        <3>3. CASE polled'[r] = Outcome("empty") /\ streamer[r] = <<>>
            <4>1. streamer'[r] = streamer[r]
                BY <1>4, <3>3
            <4>2. Rest(r, n)'
                BY <1>8, <3>1, <3>2, <4>1 DEF Rest
            <4>3. Rest(r, Len(sent[r]))'
                BY <3>2, <4>2 DEF Rest
            <4>4. Outcome("empty") # Outcome("end")
                BY DEF Outcome, Mark
            <4>5. QED  BY <2>1, <3>2, <3>3, <4>3, <4>4 DEF StreamOK, Before
        <3>4. CASE streamer[r] # <<>>
            <4>1. outcome = Head(streamer[r]) /\ streamer'[r] = Tail(streamer[r])
                BY <1>1, <1>4, <3>4
            <4>2. CASE outcome = Piece(n + 1) /\ Rest(r, n + 1)'
                <5>1. Rest(r, Len(sent[r]) + 1)' /\ polled'[r] = <<Piece(Len(sent'[r]) + 1)>>
                    BY <3>2, <4>2 DEF Rest
                <5>2. <<outcome>> \notin {<<>>, Outcome("empty"), Outcome("end")}
                    BY <4>2 DEF Outcome, Mark, Piece
                <5>3. QED  BY <2>1, <3>2, <5>1, <5>2 DEF StreamOK, Before
            <4>3. CASE outcome = Mark("end") /\ made[r] = n /\ Nowhere({Generate(r)})
                <5>1. polled'[r] = Outcome("end") /\ Outcome("end") \notin {<<>>, Outcome("empty")}
                    BY <3>2, <4>3 DEF Outcome, Mark
                <5>2. Nowhere({Generate(r)})' /\ made'[r] = Len(sent'[r])
                    BY <1>8, <3>2, <4>3
                <5>3. QED  BY <2>1, <3>2, <5>1, <5>2 DEF StreamOK, Before
            <4>4. QED  BY <1>1, <1>8, <3>1, <3>2, <3>4, <4>1, <4>2, <4>3, RestTaken
        <3>5. CASE streamer[r] = <<>>
            BY <1>1, <3>2, <3>3, <3>5 DEF Outcome
        <3>6. QED  BY <3>4, <3>5
    <2>4. QED  BY <1>2, <2>2, <2>3
<1>11. QED  BY <1>1, <1>4, <1>5, <1>6, <1>7, <1>9, <1>10, ThreadStep

-----------------------------------------------------------------------------
(* The theorems                                                            *)

(* Every step keeps the invariant.                                         *)
LEMMA NextKeepsInv == Inv /\ [Next]_vars => Inv'
<1> SUFFICES ASSUME Inv, [Next]_vars PROVE Inv'
    OBVIOUS
<1>1. ASSUME NEW r \in Requests, Refuse(r) \/ Accept(r) \/ Disconnect(r) \/ Run(r)
      PROVE  Inv'
    BY <1>1, RefuseKeeps, AcceptKeeps, DisconnectKeeps, EnterKeeps, SubmitPollKeeps,
       HandlePollKeeps, FinishStreamKeeps, RespondKeeps DEF Run
<1>2. ASSUME NEW w \in Workers, Work(w) \/ Fail(w)
      PROVE  Inv'
    BY <1>2, TakeKeeps, MakePieceKeeps, EndTextKeeps, CloseKeeps, ServePollKeeps, FailKeeps DEF Work
<1>3. CASE UNCHANGED vars
    <2>1. Types' /\ SessionInv' /\ PermitInv'
        BY <1>3 DEF Inv, vars, Types, SessionInv, SessionsSeparate, PermitInv, Holders
    <2>2. \A q : JobsKept(q)
        BY <1>3, SameJobsKept DEF vars
    <2>3. ASSUME NEW q \in Requests PROVE JobsOK(q)' /\ StreamOK(q)'
        BY <1>3, <2>2, OtherKeeps DEF Inv, vars
    <2>4. QED  BY <2>1, <2>3 DEF Inv
<1>4. QED  BY <1>1, <1>2, <1>3 DEF Next

(* The invariant holds in every state of every behaviour: of each request  *)
(* there is one generation and one poll under way at most, and what was    *)
(* sent, polled and left in the streamer is what was made.                 *)
THEOREM InvariantHolds == Spec => []Inv
<1>1. QED  BY InitInv, NextKeepsInv, PTL DEF Spec

(* The state keeps its types: the permits of the semaphore stay between 0  *)
(* and max_concurrent, so that a stream that is left gives back what it    *)
(* took, once.                                                             *)
THEOREM TypeCorrect == Spec => []TypeOK
<1>1. Inv => TypeOK
    <2> SUFFICES ASSUME Inv PROVE TypeOK
        OBVIOUS
    <2>1. permits \in 0..MaxConcurrent
        <3>1. PICK h \in Nat : h = Cardinality(Holders)
            BY FS_CardinalityType DEF Inv, PermitInv
        <3>2. permits + h = MaxConcurrent /\ permits \in Nat
            BY <3>1 DEF Inv, PermitInv
        <3>3. QED  BY <3>2
    <2>2. ASSUME NEW r \in Requests PROVE Len(polled[r]) <= 1
        <3>1. polled[r] \in {<<>>} \cup {<<x>> : x \in Items}
            BY DEF Inv, Types
        <3>2. CASE polled[r] = <<>>
            BY <3>2
        <3>3. ASSUME NEW x \in Items, polled[r] = <<x>> PROVE Len(polled[r]) <= 1
            BY <3>3
        <3>4. QED  BY <3>1, <3>2, <3>3
    <2>3. QED  BY <2>1, <2>2 DEF Inv, Types, TypeOK
<1>2. QED  BY <1>1, InvariantHolds, PTL

(* Every stream is the pieces of its own generation in order, then the     *)
(* closing marks, once, and complete unless sse_stream stopped at an empty *)
(* poll.                                                                   *)
THEOREM StreamsAreRight == Spec => []StreamsRight
<1>1. Inv => StreamsRight
    <2> SUFFICES ASSUME Inv, NEW r \in Requests PROVE StreamRight(r)
        BY DEF StreamsRight
    <2>1. Types /\ StreamOK(r)
        BY DEF Inv
    <2>2. CASE pc[r] = "done"
        BY <2>1, <2>2 DEF StreamOK
    <2>3. CASE pc[r] # "done"
        <3>1. PICK n \in Nat : n = Len(sent[r])
            BY <2>1, LenProperties DEF Types
        <3>2. \A i \in 1..n : sent[r][i] = Piece(i)
            <4>1. CASE sent[r] = <<>>
                <5>1. n = 0 /\ \A i \in 1..0 : FALSE
                    BY <3>1, <4>1
                <5>2. QED  BY <5>1
            <4>2. CASE pc[r] \in {"next", "poll", "await stream", "gone"}
                BY <2>1, <3>1, <4>2 DEF StreamOK
            <4>3. pc[r] \in Before \/ pc[r] = "await" => sent[r] = <<>>
                BY <2>1 DEF StreamOK
            <4>4. QED  BY <2>1, <2>3, <4>1, <4>2, <4>3 DEF Types, PcStates, Admitted
        <3>3. ~Streamed(r)
            <4>1. ASSUME sent[r] # <<>> PROVE sent[r][Len(sent[r])] # Mark("[DONE]")
                <5>1. n # 0
                    BY <2>1, <3>1, <4>1, EmptySeq DEF Types
                <5>2. sent[r][n] = Piece(n)
                    BY <3>2, <5>1
                <5>3. QED  BY <3>1, <5>2 DEF Piece, Mark
            <4>2. QED  BY <4>1 DEF Streamed, Last
        <3>4. n \in 0..n /\ \A i \in n + 1..n : FALSE
            OBVIOUS
        <3>5. QED  BY <3>1, <3>2, <3>3, <3>4 DEF StreamRight
    <2>4. QED  BY <2>2, <2>3
<1>2. QED  BY <1>1, InvariantHolds, PTL

(* Every generate() runs in a session of its own, whatever the thread that *)
(* takes it has run before and however that ended.                         *)
THEOREM SessionsStaySeparate == Spec => []SessionsSeparate
<1>1. Inv => SessionsSeparate
    BY DEF Inv, SessionInv
<1>2. QED  BY <1>1, InvariantHolds, PTL

=============================================================================
