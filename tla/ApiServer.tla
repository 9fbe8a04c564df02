----------------------------- MODULE ApiServer -----------------------------
(***************************************************************************)
(* drift api: the OpenAI-compatible front end of a swarm.  Requests are    *)
(* coroutines of one event loop; generate() and every poll of a streamer   *)
(* run on the threads of the loop's default executor, which takes tasks in *)
(* order.  A semaphore admits max_concurrent requests.  A client may leave *)
(* its stream at any time: the coroutine is cancelled, its generate() goes *)
(* on.  A thread keeps its context variables from task to task, so the     *)
(* active session of a thread is part of the state.                        *)
(*                                                                         *)
(* A text is the number of pieces delivered: piece i is the i-th one that  *)
(* generate() put into the streamer.                                       *)
(***************************************************************************)
EXTENDS Integers, Sequences, SequencesExt, FiniteSets

CONSTANTS
    Requests,       \* the requests that may come
    Workers,        \* threads of the executor
    MaxConcurrent,  \* --max_concurrent
    Pieces,         \* BOUND: pieces of text of one generation
    MaxFailures,    \* BOUND: generations that raise
    None

ASSUME ApiAssumption ==
    /\ MaxConcurrent \in Nat \ {0} /\ Pieces \in Nat /\ MaxFailures \in Nat
    /\ Workers # {} /\ None \notin Requests

VARIABLES
    pc,        \* of a request's coroutine
    waiters,   \* the semaphore's queue
    permits,   \* the semaphore's value
    tasks,     \* the executor's queue of <<"generate" or "poll", request>>
    task,      \* what a worker runs
    session,   \* the active session of a worker's context, named by its request
    uses,      \* the session in which a request's generate() runs
    streamer,  \* a request's TextIteratorStreamer: pieces and the stop signal
    polled,    \* the result of the last poll, not handled yet
    future,    \* generate()'s future: pending, ok or failed
    made,      \* pieces made so far
    sent,      \* what the client received
    failures,
    hasty      \* HISTORY: requests whose stream stopped at an empty poll

vars == <<pc, waiters, permits, tasks, task, session, uses, streamer, polled, future, made, sent,
          failures, hasty>>
coroutineVars == <<pc, waiters, permits, polled, sent, hasty>>
threadVars == <<task, session, uses, streamer, future, made, failures>>

Generate(r) == <<"generate", r>>
Poll(r) == <<"poll", r>>
Idle == <<"idle", None>>
Piece(i) == <<"piece", i>>
Mark(name) == <<name, 0>>    \* anything a stream holds that is not text

Init ==
    /\ pc = [r \in Requests |-> "new"]
    /\ waiters = <<>> /\ permits = MaxConcurrent
    /\ tasks = <<>> /\ task = [w \in Workers |-> Idle]
    /\ session = [w \in Workers |-> None] /\ uses = [r \in Requests |-> None]
    /\ streamer = [r \in Requests |-> <<>>]
    /\ polled = [r \in Requests |-> <<>>]
    /\ future = [r \in Requests |-> "pending"]
    /\ made = [r \in Requests |-> 0]
    /\ sent = [r \in Requests |-> <<>>]
    /\ failures = 0 /\ hasty = {}

(* A queue from which a waiter or a task, which is there once at most, is  *)
(* withdrawn.                                                              *)
Withdraw(queue, x) ==
    IF \E i \in 1..Len(queue) : queue[i] = x
    THEN RemoveAt(queue, CHOOSE i \in 1..Len(queue) : queue[i] = x)
    ELSE queue

Goto(r, step) == pc' = [pc EXCEPT ![r] = step]
Send(r, what) == sent' = [sent EXCEPT ![r] = @ \o what]

-----------------------------------------------------------------------------
(* The handlers of /v1/chat/completions and /v1/completions.               *)

(* check_auth, n and the prompt are looked at before anything is started.  *)
Refuse(r) ==
    /\ pc[r] = "new"
    /\ Goto(r, "refused")
    /\ UNCHANGED <<waiters, permits, polled, sent, hasty, tasks, threadVars>>

(* An accepted request, streaming or not, queues at the semaphore.         *)
Accept(r) ==
    /\ pc[r] = "new"
    /\ \/ Goto(r, "wait to stream")
       \/ Goto(r, "wait")
    /\ waiters' = Append(waiters, r)
    /\ UNCHANGED <<permits, polled, sent, hasty, tasks, threadVars>>

(* async with semaphore: generate() goes to the executor.                  *)
Enter(r) ==
    /\ waiters # <<>> /\ Head(waiters) = r /\ permits > 0
    /\ waiters' = Tail(waiters) /\ permits' = permits - 1
    /\ tasks' = Append(tasks, Generate(r))
    /\ \/ pc[r] = "wait to stream" /\ Goto(r, "next")
       \/ pc[r] = "wait" /\ Goto(r, "await")
    /\ UNCHANGED <<polled, sent, hasty, threadVars>>

SubmitPoll(r) ==
    /\ pc[r] = "next"
    /\ Goto(r, "poll")
    /\ tasks' = Append(tasks, Poll(r))
    /\ UNCHANGED <<waiters, permits, polled, sent, hasty, threadVars>>

HandlePollPatiently(r) ==
    /\ pc[r] = "poll" /\ polled[r] # <<>>
    /\ polled' = [polled EXCEPT ![r] = <<>>]
    /\ \/ polled[r] = <<Mark("empty")>> /\ Goto(r, "next") /\ UNCHANGED <<sent, hasty>>
       \/ polled[r] = <<Mark("end")>> /\ Goto(r, "await stream") /\ UNCHANGED <<sent, hasty>>
       \/ /\ polled[r][1][1] = "piece"
          /\ Send(r, polled[r]) /\ Goto(r, "next") /\ UNCHANGED hasty
    /\ UNCHANGED <<waiters, permits, tasks, threadVars>>

HandlePollEagerly(r) ==
    /\ pc[r] = "poll" /\ polled[r] # <<>>
    /\ polled' = [polled EXCEPT ![r] = <<>>]
    /\ Goto(r, IF future[r] # "pending" THEN "await stream" ELSE "next")
    /\ Send(r, IF polled[r][1][1] = "piece" THEN polled[r] ELSE <<>>)
    /\ UNCHANGED <<hasty, waiters, permits, tasks, threadVars>>

(* What the loop of sse_stream does with the outcome of a poll.            *)
HandlePoll(r) ==
    /\ pc[r] = "poll" /\ polled[r] # <<>>
    /\ polled' = [polled EXCEPT ![r] = <<>>]
    /\ \/ /\ polled[r] = <<Mark("empty")>> /\ future[r] = "pending"
          /\ Goto(r, "next") /\ UNCHANGED <<sent, hasty>>
       \/ /\ polled[r] = <<Mark("empty")>> /\ future[r] # "pending"
          /\ Goto(r, "await stream") /\ hasty' = hasty \cup {r} /\ UNCHANGED sent
       \/ polled[r] = <<Mark("end")>> /\ Goto(r, "await stream") /\ UNCHANGED <<sent, hasty>>
       \/ /\ polled[r][1][1] = "piece"
          /\ Send(r, polled[r]) /\ Goto(r, "next") /\ UNCHANGED hasty
    /\ UNCHANGED <<waiters, permits, tasks, threadVars>>

(* await future, the last chunks, and the end of the semaphore's block.    *)
FinishStream(r) ==
    /\ pc[r] = "await stream" /\ future[r] # "pending"
    /\ Send(r, IF future[r] = "ok" THEN <<Mark("stop"), Mark("[DONE]")>>
               ELSE <<Mark("error"), Mark("stop"), Mark("[DONE]")>>)
    /\ Goto(r, "done") /\ permits' = permits + 1
    /\ UNCHANGED <<waiters, polled, hasty, tasks, threadVars>>

(* The response without streaming; an exception becomes a server error.    *)
Respond(r) ==
    /\ pc[r] = "await" /\ future[r] # "pending"
    /\ Send(r, IF future[r] = "ok" THEN <<Mark("text")>> ELSE <<Mark("error")>>)
    /\ Goto(r, "done") /\ permits' = permits + 1
    /\ UNCHANGED <<waiters, polled, hasty, tasks, threadVars>>

(* The client of a stream leaves: the coroutine is cancelled where it      *)
(* waits, a poll that no thread has begun is withdrawn, the permit goes    *)
(* back.  Nothing stops generate().                                        *)
Disconnect(r) ==
    /\ pc[r] \in {"wait to stream", "next", "poll", "await stream"}
    /\ Goto(r, "gone")
    /\ waiters' = Withdraw(waiters, r)
    /\ permits' = IF pc[r] = "wait to stream" THEN permits ELSE permits + 1
    /\ tasks' = Withdraw(tasks, Poll(r))
    /\ polled' = [polled EXCEPT ![r] = <<>>]
    /\ UNCHANGED <<sent, hasty, threadVars>>

-----------------------------------------------------------------------------
(* The threads of the executor (external) and generate().                  *)

(* A thread takes a task.  generate() joins the active session of its      *)
(* context if there is one and opens a session otherwise.                  *)
Take(w) ==
    /\ task[w] = Idle /\ tasks # <<>>
    /\ tasks' = Tail(tasks)
    /\ task' = [task EXCEPT ![w] = Head(tasks)]
    /\ \E r \in {Head(tasks)[2]} :
         IF Head(tasks) = Generate(r)
         THEN /\ session' = [session EXCEPT ![w] = IF @ = None THEN r ELSE @]
              /\ uses' = [uses EXCEPT ![r] = session'[w]]
         ELSE UNCHANGED <<session, uses>>
    /\ UNCHANGED <<coroutineVars, streamer, future, made, failures>>

Streaming(r) == pc[r] \notin {"wait", "await"}

(* A step of the remote model; the streamer hands out whole pieces.        *)
MakePiece(w) ==
    \E r \in Requests :
        /\ task[w] = Generate(r) /\ made[r] < Pieces
        /\ made' = [made EXCEPT ![r] = @ + 1]
        /\ streamer' = IF Streaming(r) THEN [streamer EXCEPT ![r] = Append(@, Piece(made'[r]))]
                                       ELSE streamer
        /\ UNCHANGED <<coroutineVars, tasks, task, session, uses, future, failures>>

(* streamer.end(), while the session is still open.                        *)
EndText(w) ==
    \E r \in Requests :
        /\ task[w] = Generate(r) /\ made[r] > 0
        /\ task' = [task EXCEPT ![w] = <<"close", r>>]
        /\ streamer' = IF Streaming(r) THEN [streamer EXCEPT ![r] = Append(@, Mark("end"))] ELSE streamer
        /\ UNCHANGED <<coroutineVars, tasks, session, uses, future, made, failures>>

(* The context managers of inference_session and use_session end, whatever *)
(* happened inside, and the thread is free.                                *)
LeaveSessionIfWell(w, ok) ==
    session' = [session EXCEPT ![w] = IF ok THEN None ELSE @]

LeaveSession(w, ok) ==
    session' = [session EXCEPT ![w] = None]

Close(w) ==
    \E r \in Requests :
        /\ task[w] = <<"close", r>>
        /\ future' = [future EXCEPT ![r] = "ok"]
        /\ LeaveSession(w, TRUE)
        /\ task' = [task EXCEPT ![w] = Idle]
        /\ UNCHANGED <<coroutineVars, tasks, uses, streamer, made, failures>>

(* generate() raises at any point, without a word to the streamer.         *)
Fail(w) ==
    \E r \in Requests :
        /\ task[w] = Generate(r) /\ failures < MaxFailures
        /\ failures' = failures + 1
        /\ future' = [future EXCEPT ![r] = "failed"]
        /\ LeaveSession(w, FALSE)
        /\ task' = [task EXCEPT ![w] = Idle]
        /\ UNCHANGED <<coroutineVars, tasks, uses, streamer, made>>

(* _next_piece: StopIteration becomes a value, the poll's timeout the      *)
(* exception Empty.  Nobody is left to see the result of a poll whose      *)
(* request is gone.                                                        *)
ServePoll(w) ==
    \E r \in Requests :
        /\ task[w] = Poll(r)
        /\ task' = [task EXCEPT ![w] = Idle]
        /\ \E outcome \in {IF streamer[r] = <<>> THEN Mark("empty") ELSE Head(streamer[r])} :
             polled' = IF pc[r] = "poll" THEN [polled EXCEPT ![r] = <<outcome>>] ELSE polled
        /\ streamer' = [streamer EXCEPT ![r] = IF @ = <<>> THEN @ ELSE Tail(@)]
        /\ UNCHANGED <<pc, waiters, permits, sent, hasty, tasks, session, uses, future, made, failures>>

-----------------------------------------------------------------------------
Work(w) == Take(w) \/ MakePiece(w) \/ EndText(w) \/ Close(w) \/ ServePoll(w)

Run(r) == Enter(r) \/ SubmitPoll(r) \/ HandlePoll(r) \/ FinishStream(r) \/ Respond(r)

Next ==
    \/ \E r \in Requests : Refuse(r) \/ Accept(r) \/ Disconnect(r) \/ Run(r)
    \/ \E w \in Workers : Work(w) \/ Fail(w)

(* The event loop runs what is ready and the threads of the pool go on;    *)
(* nobody has to send a request, leave, or fail.                           *)
Fairness ==
    /\ \A r \in Requests : WF_vars(Run(r))
    /\ \A w \in Workers : WF_vars(Work(w))

Spec == Init /\ [][Next]_vars /\ Fairness

-----------------------------------------------------------------------------
TypeOK ==
    /\ permits \in 0..MaxConcurrent
    /\ \A w \in Workers : session[w] \in Requests \cup {None}
    /\ \A r \in Requests :
         /\ future[r] \in {"pending", "ok", "failed"}
         /\ made[r] \in 0..Pieces /\ Len(polled[r]) <= 1

Streamed(r) == sent[r] # <<>> /\ Last(sent[r]) = Mark("[DONE]")

(* A stream is the pieces of its own generation in order, then the error   *)
(* if there was one, then stop and [DONE], once; it is complete unless it  *)
(* stopped at an empty poll, although polls run on other threads than      *)
(* generate() and may outlive their request.                               *)
StreamRight(r) ==
    \E n \in 0..Len(sent[r]) :
        /\ \A i \in 1..n : sent[r][i] = Piece(i)
        /\ \A i \in n + 1..Len(sent[r]) : sent[r][i][1] # "piece"
        /\ Streamed(r) =>
             /\ Len(sent[r]) = n + (IF future[r] = "ok" THEN 2 ELSE 3)
             /\ r \notin hasty => n = made[r]

StreamsRight == \A r \in Requests : StreamRight(r)

(* Every generate() runs in a session of its own: a thread that is reused  *)
(* carries no session over from a request it served before, even if that   *)
(* one failed.                                                             *)
SessionsSeparate ==
    \A r \in Requests : uses[r] \in {None, r}

(* Every accepted request is answered unless its client leaves: a          *)
(* generate() that dies without ending the streamer does not hang the      *)
(* response, and no permit is lost.                                        *)
RequestsAnswered ==
    \A r \in Requests :
        pc[r] \in {"wait", "wait to stream"} ~> pc[r] \in {"done", "gone"}

(* "Generation is gated by a semaphore ... because every in-flight request *)
(* holds an inference session": no more than max_concurrent generations    *)
(* hold a session.                                                         *)
GenerationsGated ==
    Cardinality({w \in Workers : session[w] # None}) <= MaxConcurrent

(* "generate() died before calling streamer.end()": a stream stops at an   *)
(* empty poll only if its generation failed.                               *)
StopsEarlyOnlyOnFailure ==
    \A r \in hasty : future[r] = "failed"
=============================================================================
