----------------------------- MODULE HandlerSessions -----------------------------
(***************************************************************************)
(* Inference sessions in the connection handlers of one server             *)
(* (server/handler.py).  Each handler is a process; the p2p daemon gives   *)
(* the stream of a session to one of them, and an rpc_push for it to any.  *)
(* Handlers tell each other who owns a session through event queues        *)
(* (mp.Queue: messages of one producer stay in order, those of two may     *)
(* not), and forward pushes to the owner.  A step may come twice, from the *)
(* client and as a push from the server before; step ids tell.             *)
(*                                                                         *)
(* A request is abstracted to its step and to the step its further tensors *)
(* (prompts, hypo_ids) belong to.                                          *)
(***************************************************************************)
EXTENDS Integers, Sequences, FiniteSets

CONSTANTS
  Handlers,   \* connection handlers of the server
  Sessions,   \* inference sessions that clients open
  Anonymous,  \* those opened without a session_id
  NumSteps,   \* a client takes at most this many steps
  None        \* nothing

RequestSet == [step : 0 .. NumSteps, extra : 0 .. NumSteps, tensors : BOOLEAN]

ASSUME HandlerSessionsAssumption ==
  /\ IsFiniteSet(Handlers) /\ Handlers # {}
  /\ IsFiniteSet(Sessions) /\ Anonymous \subseteq Sessions
  /\ NumSteps \in Nat \ {0}
  /\ None \notin Handlers /\ None \notin Seq(RequestSet)

VARIABLES
  pc,        \* where _iterate_inference_steps of each session is
  owner,     \* the handler that serves the session
  current,   \* the request that it processes
  requests,  \* requests of the client the session has not read
  queue,     \* _session_queues: pushes for the session, None when there is no queue
  processed, \* processed_step_ids
  responses, \* the requests answered, in order
  handlers,  \* _session_handlers of each handler
  events,    \* events[from][to]: what from has put into the queue of to
  sent,      \* how many steps the client has sent
  pushed,    \* steps the previous server has pushed
  alive      \* handlers that have not been shut down

sessionVars == <<pc, owner, current, requests, processed, responses>>
vars == <<sessionVars, queue, handlers, events, sent, pushed, alive>>

Steps == 1 .. NumSteps
Request(step) == [step |-> step, extra |-> step, tensors |-> TRUE]
Close == [step |-> 0, extra |-> 0, tensors |-> FALSE]

\* _push_outputs: hidden states of the step, every other tensor from the first
\* request of the session (`request` of rpc_inference).
PushOf(step) == [step |-> step, extra |-> 1, tensors |-> TRUE]

--------------------------------------------------------------------------------
(* Sessions *)

\* other_queue.put_nowait(...) for every other handler
Broadcast(h, event) ==
  events' = [events EXCEPT ![h] =
    [to \in Handlers |-> IF to = h THEN @[to] ELSE Append(@[to], event)]]

Goto(s, from, to) == pc[s] \in from /\ pc' = [pc EXCEPT ![s] = to]

\* rpc_inference has its cache and enters _managed_session with the first request.
Open(s, h) ==
  /\ h \in alive
  /\ Goto(s, {"unopened"}, "processing")
  /\ owner' = [owner EXCEPT ![s] = h]
  /\ current' = [current EXCEPT ![s] = Request(1)]
  /\ sent' = [sent EXCEPT ![s] = 1]
  /\ IF s \in Anonymous
     THEN UNCHANGED <<queue, handlers, events>>
     ELSE /\ queue' = [queue EXCEPT ![s] = << >>]
          /\ handlers' = [handlers EXCEPT ![h][s] = h]
          /\ Broadcast(h, [type |-> "NEW_SESSION", session |-> s, payload |-> h])
  /\ UNCHANGED <<requests, processed, responses, pushed, alive>>

\* Mutant of FinishStep: the step is not recorded.
FinishStepForgets(s) ==
  /\ Goto(s, {"processing"}, "waiting")
  /\ responses' = [responses EXCEPT ![s] = Append(@, current[s])]
  /\ current' = [current EXCEPT ![s] = None]
  /\ UNCHANGED <<owner, requests, processed, queue, handlers, events, sent, pushed, alive>>

\* The step has run and its response is yielded; then its id is recorded.
FinishStep(s) ==
  /\ Goto(s, {"processing"}, "waiting")
  /\ responses' = [responses EXCEPT ![s] = Append(@, current[s])]
  /\ processed' = [processed EXCEPT ![s] = @ \cup {current[s].step}]
  /\ current' = [current EXCEPT ![s] = None]
  /\ UNCHANGED <<owner, requests, queue, handlers, events, sent, pushed, alive>>

\* The end of _managed_session: the queue goes, this handler forgets the session
\* and tells the others.
Unregister(s) ==
  IF s \in Anonymous
  THEN UNCHANGED <<queue, handlers, events>>
  ELSE /\ queue' = [queue EXCEPT ![s] = None]
       /\ handlers' = [handlers EXCEPT ![owner[s]][s] = None]
       /\ Broadcast(owner[s], [type |-> "END_SESSION", session |-> s, payload |-> owner[s]])

\* A request whose step is done is skipped; one without tensors ends the loop.
Take(s, request) ==
  /\ IF ~request.tensors
     THEN pc' = [pc EXCEPT ![s] = "ended"] /\ Unregister(s) /\ UNCHANGED current
     ELSE IF request.step \in processed[s]
     THEN UNCHANGED <<pc, current, handlers, events>>
     ELSE /\ pc' = [pc EXCEPT ![s] = "processing"]
          /\ current' = [current EXCEPT ![s] = request]
          /\ UNCHANGED <<handlers, events>>
  /\ UNCHANGED <<owner, processed, responses, sent, pushed, alive>>

\* anext_task is done.
TakeRequest(s) ==
  /\ pc[s] = "waiting" /\ requests[s] # << >>
  /\ requests' = [requests EXCEPT ![s] = Tail(@)]
  /\ Head(requests[s]).tensors => UNCHANGED queue
  /\ Take(s, Head(requests[s]))

\* Mutant of TakePush: both tasks are made anew, so what anext_task has read is lost.
TakePushDropsRequest(s) ==
  /\ pc[s] = "waiting" /\ queue[s] \notin {None, << >>}
  /\ queue' = [queue EXCEPT ![s] = Tail(@)]
  /\ Take(s, Head(queue[s]))
  /\ requests' = [requests EXCEPT ![s] = IF @ = << >> THEN @ ELSE Tail(@)]

\* get_push_task is done; anext_task goes on.
TakePush(s) ==
  /\ pc[s] = "waiting" /\ queue[s] \notin {None, << >>}
  /\ queue' = [queue EXCEPT ![s] = Tail(@)]
  /\ Take(s, Head(queue[s]))
  /\ UNCHANGED requests

\* Mutant of End: the other handlers are not told.
EndSilently(s) ==
  /\ Goto(s, {"processing", "waiting"}, "ended")
  /\ queue' = [queue EXCEPT ![s] = None]
  /\ handlers' = [handlers EXCEPT ![owner[s]][s] = None]
  /\ UNCHANGED <<owner, current, requests, processed, responses, events, sent, pushed, alive>>

\* The step times out, the session times out, the client is gone or a step raises.
End(s) ==
  /\ Goto(s, {"processing", "waiting"}, "ended")
  /\ Unregister(s)
  /\ UNCHANGED <<owner, current, requests, processed, responses, sent, pushed, alive>>

--------------------------------------------------------------------------------
(* Handlers *)

\* _put_into_session_queue
PutIntoSessionQueue(h, s, request) ==
  CASE handlers[h][s] = None -> UNCHANGED <<queue, events>>
    [] handlers[h][s] = h    -> /\ queue' = [queue EXCEPT ![s] = Append(@, request)]
                                /\ UNCHANGED events
    [] OTHER                 -> /\ events' = [events EXCEPT ![h][handlers[h][s]] =
                                     Append(@, [type |-> "PUSH", session |-> s, payload |-> request])]
                                /\ UNCHANGED queue

\* rpc_push of a step reaches handler h: the previous server has run the step, so
\* the client has sent, and got answers to, the steps before it.  It may come late,
\* or never.
RpcPush(h, s, step) ==
  /\ h \in alive
  /\ step \in Steps \ pushed[s] /\ step <= sent[s] + 1 /\ step <= Len(responses[s]) + 1
  /\ pushed' = [pushed EXCEPT ![s] = @ \cup {step}]
  /\ PutIntoSessionQueue(h, s, PushOf(step))
  /\ UNCHANGED <<sessionVars, handlers, sent, alive>>

\* What _listen_to_event_queue does with an event
Apply(h, event) ==
  LET s == event.session
  IN  CASE event.type = "NEW_SESSION" -> /\ handlers' = [handlers EXCEPT ![h][s] = event.payload]
                                         /\ UNCHANGED queue
        [] event.type = "END_SESSION" -> /\ handlers' = [handlers EXCEPT ![h][s] = None]
                                         /\ UNCHANGED queue
        [] event.type = "PUSH"        -> /\ queue' = [queue EXCEPT ![s] =
                                              IF @ = None THEN @ ELSE Append(@, event.payload)]
                                         /\ UNCHANGED handlers

\* One round of _listen_to_event_queue
Listen(h, from) ==
  /\ h \in alive /\ events[from][h] # << >>
  /\ events' = [events EXCEPT ![from][h] = Tail(@)]
  /\ Apply(h, Head(events[from][h]))
  /\ UNCHANGED <<sessionVars, sent, pushed, alive>>

\* shutdown(): the process stops listening and ends, its sessions with it; nothing
\* more is sent, what is under way from it may still be read.
Shutdown(h) ==
  /\ h \in alive
  /\ alive' = alive \ {h}
  /\ LET own == {s \in Sessions : owner[s] = h /\ pc[s] # "ended"}
     IN  /\ pc' = [s \in Sessions |-> IF s \in own THEN "ended" ELSE pc[s]]
         /\ queue' = [s \in Sessions |-> IF s \in own THEN None ELSE queue[s]]
  /\ handlers' = [handlers EXCEPT ![h] = [s \in Sessions |-> None]]
  /\ UNCHANGED <<owner, current, requests, processed, responses, events, sent, pushed>>

--------------------------------------------------------------------------------
(* The client *)

\* It sends a step, on the stream of the session, when it has the answer of the one
\* before; the answer of a step may come before the step is sent (from a push).
SendStep(s) ==
  /\ pc[s] \in {"processing", "waiting"}
  /\ sent[s] < NumSteps /\ sent[s] <= Len(responses[s])
  /\ sent' = [sent EXCEPT ![s] = @ + 1]
  /\ requests' = [requests EXCEPT ![s] = Append(@, Request(sent[s] + 1))]
  /\ UNCHANGED <<pc, owner, current, queue, processed, responses, handlers, events, pushed, alive>>

\* It closes the session with a request without tensors, and sends nothing more.
SendClose(s) ==
  /\ pc[s] = "waiting" /\ sent[s] <= Len(responses[s])
  /\ sent' = [sent EXCEPT ![s] = NumSteps + 1]
  /\ requests' = [requests EXCEPT ![s] = Append(@, Close)]
  /\ UNCHANGED <<pc, owner, current, queue, processed, responses, handlers, events, pushed, alive>>

--------------------------------------------------------------------------------
Init ==
  /\ pc = [s \in Sessions |-> "unopened"]
  /\ owner = [s \in Sessions |-> None]
  /\ current = [s \in Sessions |-> None]
  /\ requests = [s \in Sessions |-> << >>]
  /\ queue = [s \in Sessions |-> None]
  /\ processed = [s \in Sessions |-> {}]
  /\ responses = [s \in Sessions |-> << >>]
  /\ handlers = [h \in Handlers |-> [s \in Sessions |-> None]]
  /\ events = [from \in Handlers |-> [to \in Handlers |-> << >>]]
  /\ sent = [s \in Sessions |-> 0]
  /\ pushed = [s \in Sessions |-> {}]
  /\ alive = Handlers

Next ==
  \/ \E s \in Sessions :
       \/ \E h \in Handlers : Open(s, h)
       \/ FinishStep(s) \/ TakeRequest(s) \/ TakePush(s) \/ End(s)
       \/ SendStep(s) \/ SendClose(s)
  \/ \E h \in Handlers :
       \/ \E s \in Sessions \ Anonymous, step \in Steps : RpcPush(h, s, step)
       \/ \E from \in Handlers : Listen(h, from)
       \/ Shutdown(h)

\* Event loops and listeners run; clients, peers and timeouts need not act.
Fairness ==
  /\ \A s \in Sessions : WF_vars(FinishStep(s)) /\ WF_vars(TakeRequest(s)) /\ WF_vars(TakePush(s))
  /\ \A h, from \in Handlers : WF_vars(Listen(h, from))

Spec == Init /\ [][Next]_vars /\ Fairness

--------------------------------------------------------------------------------
(* Properties *)

Event ==
  [type : {"NEW_SESSION", "END_SESSION"}, session : Sessions, payload : Handlers]
    \cup [type : {"PUSH"}, session : Sessions, payload : RequestSet]

\* The type invariant
TypeOK ==
  /\ pc \in [Sessions -> {"unopened", "processing", "waiting", "ended"}]
  /\ owner \in [Sessions -> Handlers \cup {None}]
  /\ current \in [Sessions -> RequestSet \cup {None}]
  /\ requests \in [Sessions -> Seq(RequestSet)]
  /\ \A s \in Sessions : queue[s] # None => queue[s] \in Seq(RequestSet)
  /\ processed \in [Sessions -> SUBSET Steps]
  /\ responses \in [Sessions -> Seq(RequestSet)]
  /\ handlers \in [Handlers -> [Sessions -> Handlers \cup {None}]]
  /\ events \in [Handlers -> [Handlers -> Seq(Event)]]
  /\ sent \in [Sessions -> 0 .. NumSteps + 1]
  /\ pushed \in [Sessions -> SUBSET Steps]
  /\ alive \subseteq Handlers

\* However client requests, pushes and late copies of both are mixed, the i-th
\* response of a session (lines 271-274) is that of step i: the client, which pairs
\* responses with steps by their order, never gets the answer of another step.
StepsOnceInOrder ==
  \A s \in Sessions : \A i \in DOMAIN responses[s] : responses[s][i].step = i

\* When a session has ended, every handler that runs in the end forgets it, so that
\* _session_handlers does not grow with the sessions served: the END_SESSION of
\* its owner (lines 211-213) comes after its NEW_SESSION in every queue.
EndedSessionsForgotten ==
  \A s \in Sessions : \A h \in Handlers :
    (owner[s] \in alive /\ pc[s] = "ended") ~> (handlers[h][s] = None \/ owner[s] \notin alive)

\* Every request of a client is in the end answered, unless its session ends: late
\* pushes do not take its place, and a step answered to a push is not awaited again.
RequestsAnswered ==
  \A s \in Sessions : \A k \in Steps :
    (\E i \in DOMAIN requests[s] : requests[s][i].step = k)
      ~> (Len(responses[s]) >= k \/ pc[s] = "ended")

\* What the code does not give: a step that is answered from a push runs with the
\* prompts and hypo_ids of the first step (lines 181, 334).
InputsRight ==
  \A s \in Sessions : \A i \in DOMAIN responses[s] : responses[s][i].extra = i
================================================================================
