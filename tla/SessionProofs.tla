------------------------------- MODULE SessionProofs -------------------------------
(***************************************************************************)
(* Proofs about the two ends of inference sessions.  HandlerSessions: for  *)
(* every set of handlers and sessions and every number of steps.           *)
(* InferenceSession: for every model, placement of its blocks and number   *)
(* of tokens and failures.  The names of the two modules differ, so that   *)
(* both can be extended.                                                   *)
(***************************************************************************)
EXTENDS HandlerSessions, InferenceSession, FiniteSetTheorems, SequenceTheorems,
        WellFoundedInduction, TLAPS

(***************************************************************************)
(*                             HandlerSessions                             *)
(***************************************************************************)

USE HandlerSessionsAssumption

--------------------------------------------------------------------------------
(* The inductive invariant *)

\* A request comes too early if its step is past the next one.
Timely(s, r) == r.tensors => r.step \in 1 .. (Len(responses[s]) + 1)

AllTimely(s, q) == \A i \in 1 .. Len(q) : Timely(s, q[i])

\* What a session has answered: its steps up to some step, in order; it works at the
\* next one, and what waits for it is at most the next one.
SessionOK(s) ==
  /\ processed[s] = 1 .. Len(responses[s])
  /\ \A i \in 1 .. Len(responses[s]) : responses[s][i].step = i
  /\ pc[s] = "unopened" <=> owner[s] = None
  /\ pc[s] = "unopened" => responses[s] = << >>
  /\ pc[s] = "processing" => current[s] \in RequestSet /\ current[s].step = Len(responses[s]) + 1
  /\ AllTimely(s, requests[s])
  /\ queue[s] # None => AllTimely(s, queue[s])

SessionInv == \A s \in Sessions : SessionOK(s)

\* Nobody sends events to itself; a handler only claims sessions for itself; pushes
\* under way come from steps that the session has got to.
EventInv ==
  \A from, to \in Handlers :
    /\ from = to => events[from][to] = << >>
    /\ \A i \in 1 .. Len(events[from][to]) :
         /\ events[from][to][i].type = "NEW_SESSION" => events[from][to][i].payload = from
         /\ events[from][to][i].type = "PUSH" =>
              Timely(events[from][to][i].session, events[from][to][i].payload)

\* A handler that takes a session for its own serves it, and has a queue for it.
OwnerInv ==
  \A h \in Handlers, s \in Sessions :
    handlers[h][s] = h => owner[s] = h /\ queue[s] \in Seq(RequestSet)

\* The queues are a function, which TypeOK leaves open.
QueueDomain == queue = [s \in Sessions |-> queue[s]]

Inv == TypeOK /\ QueueDomain /\ SessionInv /\ EventInv /\ OwnerInv

--------------------------------------------------------------------------------
(* Queues *)

\* What a queue holds after a request, or an event, is put into it.
LEMMA PutFacts ==
  ASSUME NEW S, NEW q \in Seq(S), NEW e \in S
  PROVE  /\ Append(q, e) \in Seq(S)
         /\ Len(Append(q, e)) = Len(q) + 1
         /\ \A i \in 1 .. Len(q) + 1 : Append(q, e)[i] = IF i = Len(q) + 1 THEN e ELSE q[i]
  BY AppendProperties, LenProperties

\* What it holds after one is taken.
LEMMA TakeFacts ==
  ASSUME NEW S, NEW q \in Seq(S), q # << >>
  PROVE  /\ Head(q) \in S /\ Head(q) = q[1] /\ Len(q) >= 1
         /\ Tail(q) \in Seq(S)
         /\ Len(Tail(q)) = Len(q) - 1
         /\ \A i \in 1 .. Len(q) - 1 : Tail(q)[i] = q[i + 1]
  BY HeadTailProperties, EmptySeq, LenProperties, ElementOfSeq

\* One entry of a table (_session_handlers, the event queues) changes.
LEMMA TableFacts ==
  ASSUME NEW A, NEW B, NEW C, NEW f \in [A -> [B -> C]], NEW a \in A, NEW b \in B, NEW c \in C,
         NEW g, g = [f EXCEPT ![a][b] = c]
  PROVE  /\ g \in [A -> [B -> C]]
         /\ \A x \in A, y \in B : g[x][y] = IF x = a /\ y = b THEN c ELSE f[x][y]
<1>1. [f[a] EXCEPT ![b] = c] \in [B -> C]
  OBVIOUS
<1>2. g \in [A -> [B -> C]]
  BY <1>1
<1>3. ASSUME NEW x \in A, NEW y \in B
      PROVE  g[x][y] = IF x = a /\ y = b THEN c ELSE f[x][y]
  <2>1. f[x] \in [B -> C]
    OBVIOUS
  <2>2. g[x] = IF x = a THEN [f[a] EXCEPT ![b] = c] ELSE f[x]
    OBVIOUS
  <2>3. QED  BY <2>1, <2>2
<1>4. QED  BY <1>2, <1>3

\* Requests of the client and pushes are requests.
LEMMA RequestFacts ==
  /\ \A k \in Steps : /\ Request(k) \in RequestSet /\ Request(k).step = k
                      /\ PushOf(k) \in RequestSet /\ PushOf(k).step = k
  /\ Close \in RequestSet /\ ~Close.tensors
  BY DEF Request, PushOf, Close, RequestSet, Steps

\* A session only answers more: what was timely stays timely.
LEMMA TimelyStays ==
  ASSUME TypeOK, NEW s \in Sessions, responses'[s] \in Seq(RequestSet),
         Len(responses'[s]) >= Len(responses[s])
  PROVE  /\ \A r : Timely(s, r) => Timely(s, r)'
         /\ \A q : AllTimely(s, q) => AllTimely(s, q)'
<1>1. Len(responses[s]) \in Nat /\ Len(responses'[s]) \in Nat
  BY LenProperties DEF TypeOK
<1>2. \A r : Timely(s, r) => Timely(s, r)'
  BY <1>1 DEF Timely
<1>3. QED  BY <1>2 DEF AllTimely

\* A queue of timely requests stays one when a timely request is put into it,
LEMMA AllTimelyAfterPut ==
  ASSUME NEW s \in Sessions, NEW q \in Seq(RequestSet), NEW r \in RequestSet,
         AllTimely(s, q), Timely(s, r)
  PROVE  AllTimely(s, Append(q, r))
  BY PutFacts, LenProperties DEF AllTimely

\* and when one is taken.
LEMMA AllTimelyAfterTake ==
  ASSUME NEW s \in Sessions, NEW q \in Seq(RequestSet), q # << >>, AllTimely(s, q)
  PROVE  AllTimely(s, Tail(q)) /\ Timely(s, Head(q))
  BY TakeFacts, LenProperties DEF AllTimely

--------------------------------------------------------------------------------
(* Events *)

\* A handler tells all others of a session of its own.
LEMMA BroadcastKeepsEvents ==
  ASSUME TypeOK, EventInv, NEW h \in Handlers, NEW event \in Event,
         event.type # "PUSH", event.payload = h,
         Broadcast(h, event), UNCHANGED responses
  PROVE  events' \in [Handlers -> [Handlers -> Seq(Event)]] /\ EventInv'
<1>1. \A to \in Handlers : events[h][to] \in Seq(Event)
  BY DEF TypeOK
<1>2. \A from, to \in Handlers :
        events'[from][to] = IF from = h /\ to # h THEN Append(events[from][to], event)
                                                  ELSE events[from][to]
  BY DEF TypeOK, Broadcast
<1>3. events' \in [Handlers -> [Handlers -> Seq(Event)]]
  BY <1>1, PutFacts DEF TypeOK, Broadcast
<1>4. ASSUME NEW from \in Handlers, NEW to \in Handlers
      PROVE  /\ from = to => events'[from][to] = << >>
             /\ \A i \in 1 .. Len(events'[from][to]) :
                  /\ events'[from][to][i].type = "NEW_SESSION" => events'[from][to][i].payload = from
                  /\ events'[from][to][i].type = "PUSH" =>
                       Timely(events'[from][to][i].session, events'[from][to][i].payload)
  <2>1. CASE from = h /\ to # h
    <3>1. events'[from][to] = Append(events[from][to], event) /\ events[from][to] \in Seq(Event)
      BY <1>1, <1>2, <2>1
    <3>2. /\ Len(events'[from][to]) = Len(events[from][to]) + 1
          /\ Len(events[from][to]) \in Nat
          /\ \A i \in 1 .. Len(events[from][to]) + 1 :
               events'[from][to][i] = IF i = Len(events[from][to]) + 1 THEN event ELSE events[from][to][i]
      BY <3>1, PutFacts, LenProperties
    <3>3. ASSUME NEW i \in 1 .. Len(events'[from][to])
          PROVE  /\ events'[from][to][i].type = "NEW_SESSION" => events'[from][to][i].payload = from
                 /\ events'[from][to][i].type = "PUSH" =>
                      Timely(events'[from][to][i].session, events'[from][to][i].payload)
      <4>1. CASE i = Len(events[from][to]) + 1
        BY <2>1, <3>2, <4>1
      <4>2. CASE i \in 1 .. Len(events[from][to])
        <5>1. events'[from][to][i] = events[from][to][i]
          BY <3>2, <4>2, SMTT(30)
        <5>2. /\ events[from][to][i].type = "NEW_SESSION" => events[from][to][i].payload = from
              /\ events[from][to][i].type = "PUSH" =>
                   Timely(events[from][to][i].session, events[from][to][i].payload)
          BY <4>2 DEF EventInv
        <5>3. QED  BY <5>1, <5>2
      <4>3. QED  BY <3>2, <3>3, <4>1, <4>2
    <3>4. QED  BY <2>1, <3>3
  <2>2. CASE ~(from = h /\ to # h)
    BY <1>2, <2>2, SMTT(30) DEF EventInv
  <2>3. QED  BY <2>1, <2>2
<1>5. QED  BY <1>3, <1>4 DEF EventInv, Timely

\* The queue of events, or of one session, when nothing is put into it
LEMMA EventsStay ==
  ASSUME TypeOK, EventInv, UNCHANGED events, responses' \in [Sessions -> Seq(RequestSet)],
         \A s \in Sessions : Len(responses'[s]) >= Len(responses[s])
  PROVE  EventInv'
<1>1. ASSUME NEW from \in Handlers, NEW to \in Handlers, NEW i \in 1 .. Len(events[from][to]),
             events[from][to][i].type = "PUSH"
      PROVE  Timely(events[from][to][i].session, events[from][to][i].payload)'
  <2>1. events[from][to] \in Seq(Event)
    BY DEF TypeOK
  <2>2. events[from][to][i] \in Event
    BY <2>1, ElementOfSeq
  <2>3. events[from][to][i].session \in Sessions
    BY <1>1, <2>2 DEF Event
  <2>4. Timely(events[from][to][i].session, events[from][to][i].payload)
    BY <1>1 DEF EventInv
  <2>5. \A s \in Sessions : \A r : Timely(s, r) => Timely(s, r)'
    BY TimelyStays
  <2>6. QED  BY <2>3, <2>4, <2>5
<1>2. QED  BY <1>1 DEF EventInv

\* A session that an action leaves alone
LEMMA OtherSession ==
  ASSUME NEW s \in Sessions, SessionOK(s),
         pc'[s] = pc[s], owner'[s] = owner[s], current'[s] = current[s],
         requests'[s] = requests[s], queue'[s] = queue[s],
         processed'[s] = processed[s], responses'[s] = responses[s]
  PROVE  SessionOK(s)'
  BY DEF SessionOK, AllTimely, Timely

\* The events are as right as before when no response is added.
LEMMA ResponsesSame ==
  ASSUME TypeOK, EventInv, UNCHANGED <<events, responses>>
  PROVE  EventInv'
<1>1. responses' \in [Sessions -> Seq(RequestSet)]
  BY DEF TypeOK
<1>2. \A s \in Sessions : Len(responses[s]) \in Nat
  BY LenProperties DEF TypeOK
<1>3. \A s \in Sessions : Len(responses'[s]) >= Len(responses[s])
  BY <1>2
<1>4. QED  BY <1>1, <1>3, EventsStay

--------------------------------------------------------------------------------
(* Sessions *)

\* Nothing is open at first.
LEMMA InitInv == Init => Inv
<1> SUFFICES ASSUME Init PROVE Inv
  OBVIOUS
<1>1. TypeOK
  <2>1. events \in [Handlers -> [Handlers -> Seq(Event)]]
    BY EmptySeq DEF Init
  <2>2. handlers \in [Handlers -> [Sessions -> Handlers \cup {None}]]
    BY DEF Init
  <2>3. QED  BY <2>1, <2>2, EmptySeq DEF Init, TypeOK, Steps
<1>2. QueueDomain
  BY DEF Init, QueueDomain
<1>3. SessionInv
  <2>1. \A s \in Sessions : responses[s] = << >> /\ requests[s] = << >> /\ queue[s] = None
    BY DEF Init
  <2>2. 1 .. Len(<< >>) = {}
    BY EmptySeq
  <2>3. QED  BY <2>1, <2>2 DEF Init, SessionInv, SessionOK, AllTimely
<1>4. EventInv
  <2>1. \A from, to \in Handlers : events[from][to] = << >>
    BY DEF Init
  <2>2. QED  BY <2>1, EmptySeq DEF EventInv
<1>5. OwnerInv
  BY DEF Init, OwnerInv
<1>6. QED  BY <1>1, <1>2, <1>3, <1>4, <1>5 DEF Inv

\* Open: the first request is the first step; nobody has claimed the session before.
LEMMA OpenKeeps ==
  ASSUME Inv, NEW s \in Sessions, NEW h \in Handlers, Open(s, h)
  PROVE  Inv'
<1> DEFINE event == [type |-> "NEW_SESSION", session |-> s, payload |-> h]
<1>1. TypeOK /\ QueueDomain /\ SessionInv /\ EventInv /\ OwnerInv
  BY DEF Inv
<1>2. 1 \in Steps /\ Request(1) \in RequestSet /\ Request(1).step = 1
  BY RequestFacts DEF Steps
<1>3. event \in Event /\ event.type # "PUSH" /\ event.payload = h
  BY DEF Event
<1>4. events' \in [Handlers -> [Handlers -> Seq(Event)]] /\ EventInv'
  <2>1. CASE s \in Anonymous
    BY <1>1, <2>1, ResponsesSame DEF Open, TypeOK
  <2>2. CASE s \notin Anonymous
    BY <1>1, <1>3, <2>2, BroadcastKeepsEvents DEF Open
  <2>3. QED  BY <2>1, <2>2
<1>5. \A r \in Sessions : queue'[r] = queue[r] \/ queue'[r] = << >>
  BY <1>1 DEF Open, QueueDomain
<1>0. handlers' = handlers \/ handlers' = [handlers EXCEPT ![h][s] = h]
  BY DEF Open
<1>6. TypeOK'
  <2>1. pc' \in [Sessions -> {"unopened", "processing", "waiting", "ended"}]
    BY <1>1 DEF Open, Goto, TypeOK
  <2>2. owner' \in [Sessions -> Handlers \cup {None}]
    BY <1>1 DEF Open, TypeOK
  <2>3. current' \in [Sessions -> RequestSet \cup {None}]
    BY <1>1, <1>2 DEF Open, TypeOK
  <2>4. sent' \in [Sessions -> 0 .. NumSteps + 1]
    BY <1>1 DEF Open, TypeOK
  <2>5. \A r \in Sessions : queue'[r] # None => queue'[r] \in Seq(RequestSet)
    <3>1. << >> \in Seq(RequestSet)
      BY EmptySeq
    <3>2. QED  BY <1>1, <1>5, <3>1, Zenon DEF TypeOK
  <2>6. handlers' \in [Handlers -> [Sessions -> Handlers \cup {None}]]
    <3>1. handlers \in [Handlers -> [Sessions -> Handlers \cup {None}]] /\ h \in Handlers \cup {None}
      BY <1>1 DEF TypeOK
    <3>2. CASE handlers' = [handlers EXCEPT ![h][s] = h]
      BY <3>1, <3>2, TableFacts
    <3>3. QED  BY <1>0, <3>1, <3>2
  <2>7. UNCHANGED <<requests, processed, responses, pushed, alive>>
    BY DEF Open
  <2>8. QED  BY <1>1, <1>4, <2>1, <2>2, <2>3, <2>4, <2>5, <2>6, <2>7 DEF TypeOK
<1>7. QueueDomain'
  BY <1>1 DEF Open, QueueDomain
<1>8. SessionInv'
  <2>1. ASSUME NEW r \in Sessions, r # s PROVE SessionOK(r)'
    <3>1. pc'[r] = pc[r] /\ owner'[r] = owner[r] /\ current'[r] = current[r] /\ queue'[r] = queue[r]
      BY <1>1, <2>1 DEF Open, Goto, TypeOK, QueueDomain
    <3>2. UNCHANGED <<requests, processed, responses>>
      BY DEF Open
    <3>3. QED  BY <1>1, <3>1, <3>2, OtherSession DEF SessionInv
  <2>2. SessionOK(s)'
    <3>1. SessionOK(s) /\ pc[s] = "unopened"
      BY <1>1 DEF SessionInv, Open, Goto
    <3>2. pc'[s] = "processing" /\ owner'[s] = h /\ current'[s] = Request(1)
      BY <1>1 DEF Open, Goto, TypeOK
    <3>3. UNCHANGED <<requests, processed, responses>>
      BY DEF Open
    <3>4. responses[s] = << >> /\ Len(responses[s]) = 0
      BY <3>1, EmptySeq DEF SessionOK
    <3>5. AllTimely(s, requests[s])'
      BY <3>1, <3>3 DEF SessionOK, AllTimely, Timely
    <3>6. AllTimely(s, queue[s])' \/ queue'[s] = None
      <4>1. CASE queue'[s] = queue[s]
        BY <3>1, <3>3, <4>1 DEF SessionOK, AllTimely, Timely
      <4>2. CASE queue'[s] = << >>
        BY <4>2, EmptySeq DEF AllTimely
      <4>3. QED  BY <1>5, <4>1, <4>2
    <3>7. h # None
      OBVIOUS
    <3>8. QED  BY <1>2, <3>1, <3>2, <3>3, <3>4, <3>5, <3>6, <3>7 DEF SessionOK
  <2>3. QED  BY <2>1, <2>2 DEF SessionInv
<1>9. OwnerInv'
  <2> SUFFICES ASSUME NEW g \in Handlers, NEW r \in Sessions, handlers'[g][r] = g
               PROVE  owner'[r] = g /\ queue'[r] \in Seq(RequestSet)
    BY DEF OwnerInv
  <2>1. CASE r # s
    <3>1. handlers'[g][r] = handlers[g][r]
      <4>1. CASE handlers' = [handlers EXCEPT ![h][s] = h]
        <5>1. handlers \in [Handlers -> [Sessions -> Handlers \cup {None}]]
          BY <1>1 DEF TypeOK
        <5>2. QED  BY <2>1, <4>1, <5>1, TableFacts
      <4>2. QED  BY <1>0, <4>1
    <3>2. owner'[r] = owner[r]
      BY <1>1, <2>1 DEF Open, TypeOK
    <3>3. queue'[r] = queue[r]
      BY <1>1, <2>1 DEF Open, QueueDomain
    <3>4. QED  BY <1>1, <3>1, <3>2, <3>3 DEF OwnerInv
  <2>2. CASE r = s
    <3>1. owner[s] = None
      BY <1>1 DEF SessionInv, SessionOK, Open, Goto
    <3>2. handlers[g][s] # g
      BY <1>1, <3>1 DEF OwnerInv
    <3>3. s \notin Anonymous /\ g = h
      BY <1>1, <2>2, <3>2 DEF Open, TypeOK
    <3>4. owner'[s] = h /\ queue'[s] = << >>
      BY <1>1, <3>3 DEF Open, TypeOK, QueueDomain
    <3>5. QED  BY <2>2, <3>3, <3>4, EmptySeq
  <2>3. QED  BY <2>1, <2>2
<1>10. QED  BY <1>6, <1>7, <1>8, <1>4, <1>9 DEF Inv

\* A step of one session that no handler hears of
LEMMA SessionStep ==
  ASSUME Inv, NEW s \in Sessions, UNCHANGED <<owner, handlers, events>>,
         TypeOK', QueueDomain', SessionOK(s)',
         queue[s] \in Seq(RequestSet) => queue'[s] \in Seq(RequestSet),
         Len(responses'[s]) >= Len(responses[s]),
         \A r \in Sessions : r # s =>
           /\ pc'[r] = pc[r] /\ current'[r] = current[r] /\ requests'[r] = requests[r]
           /\ queue'[r] = queue[r] /\ processed'[r] = processed[r] /\ responses'[r] = responses[r]
  PROVE  Inv'
<1>1. SessionInv'
  <2>1. ASSUME NEW r \in Sessions, r # s PROVE SessionOK(r)'
    BY <2>1, OtherSession DEF Inv, SessionInv
  <2>2. QED  BY <2>1 DEF SessionInv
<1>2. EventInv'
  <2>1. \A r \in Sessions : Len(responses'[r]) \in Nat
    BY LenProperties DEF TypeOK
  <2>2. \A r \in Sessions : Len(responses'[r]) >= Len(responses[r])
    BY <2>1
  <2>3. QED  BY <2>2, EventsStay DEF Inv, TypeOK
<1>3. OwnerInv'
  BY DEF Inv, OwnerInv
<1>4. QED  BY <1>1, <1>2, <1>3 DEF Inv

\* FinishStep: the next step is answered, and recorded.
LEMMA FinishStepKeeps ==
  ASSUME Inv, NEW s \in Sessions, FinishStep(s)
  PROVE  Inv'
<1>1. TypeOK /\ QueueDomain /\ SessionOK(s)
  BY DEF Inv, SessionInv
<1> DEFINE n == Len(responses[s])
<1>2. responses[s] \in Seq(RequestSet) /\ n \in Nat
  BY <1>1, LenProperties DEF TypeOK
<1>3. current[s] \in RequestSet /\ current[s].step = n + 1
  BY <1>1 DEF SessionOK, FinishStep, Goto
<1>4. current[s].step \in Steps
  BY <1>2, <1>3 DEF RequestSet, Steps
<1>5. /\ pc'[s] = "waiting"
      /\ responses'[s] = Append(responses[s], current[s])
      /\ processed'[s] = processed[s] \cup {n + 1}
  BY <1>1, <1>3 DEF FinishStep, Goto, TypeOK
<1>6. /\ responses'[s] \in Seq(RequestSet)
      /\ Len(responses'[s]) = n + 1
      /\ \A i \in 1 .. n + 1 : responses'[s][i] = IF i = n + 1 THEN current[s] ELSE responses[s][i]
  BY <1>2, <1>3, <1>5, PutFacts
<1>7. TypeOK'
  <2>1. pc' \in [Sessions -> {"unopened", "processing", "waiting", "ended"}]
    BY <1>1 DEF FinishStep, Goto, TypeOK
  <2>2. current' \in [Sessions -> RequestSet \cup {None}]
    BY <1>1 DEF FinishStep, TypeOK
  <2>3. processed' \in [Sessions -> SUBSET Steps]
    BY <1>1, <1>4 DEF FinishStep, TypeOK
  <2>4. responses' \in [Sessions -> Seq(RequestSet)]
    BY <1>1, <1>5, <1>6 DEF FinishStep, TypeOK
  <2>5. UNCHANGED <<owner, requests, queue, handlers, events, sent, pushed, alive>>
    BY DEF FinishStep
  <2>6. QED  BY <1>1, <2>1, <2>2, <2>3, <2>4, <2>5 DEF TypeOK
<1>8. SessionOK(s)'
  <2>1. processed'[s] = 1 .. n + 1
    BY <1>1, <1>2, <1>5 DEF SessionOK
  <2>2. \A i \in 1 .. n + 1 : responses'[s][i].step = i
    BY <1>1, <1>2, <1>3, <1>6, SMTT(30) DEF SessionOK
  <2>3. UNCHANGED <<owner, requests, queue>> /\ pc[s] = "processing"
    BY DEF FinishStep, Goto
  <2>4. \A q : AllTimely(s, q) => AllTimely(s, q)'
    BY <1>1, <1>2, <1>6, TimelyStays
  <2>5. AllTimely(s, requests[s])' /\ (queue[s] # None => AllTimely(s, queue[s])')
    BY <1>1, <2>3, <2>4 DEF SessionOK, AllTimely
  <2>6. QED  BY <1>1, <1>5, <1>6, <2>1, <2>2, <2>3, <2>5 DEF SessionOK
<1>9. \A r \in Sessions : r # s =>
           /\ pc'[r] = pc[r] /\ current'[r] = current[r] /\ requests'[r] = requests[r]
           /\ queue'[r] = queue[r] /\ processed'[r] = processed[r] /\ responses'[r] = responses[r]
  BY <1>1 DEF FinishStep, Goto, TypeOK
<1>10. UNCHANGED <<owner, handlers, events, queue>> /\ Len(responses'[s]) >= Len(responses[s])
  BY <1>2, <1>6 DEF FinishStep
<1>11. QED  BY <1>1, <1>7, <1>8, <1>9, <1>10, SessionStep DEF QueueDomain

\* The end of a session: its owner forgets it and tells the others.
LEMMA EndingKeeps ==
  ASSUME Inv, NEW s \in Sessions, pc[s] # "unopened", pc' = [pc EXCEPT ![s] = "ended"],
         Unregister(s), requests' \in [Sessions -> Seq(RequestSet)], AllTimely(s, requests'[s]),
         \A r \in Sessions : r # s => requests'[r] = requests[r],
         UNCHANGED <<owner, current, processed, responses, sent, pushed, alive>>
  PROVE  Inv'
<1> DEFINE event == [type |-> "END_SESSION", session |-> s, payload |-> owner[s]]
<1>1. TypeOK /\ QueueDomain /\ SessionInv /\ EventInv /\ OwnerInv
  BY DEF Inv
<1>2. owner[s] \in Handlers
  BY <1>1 DEF SessionInv, SessionOK, TypeOK
<1>3. event \in Event /\ event.type # "PUSH" /\ event.payload = owner[s]
  BY <1>2 DEF Event
<1>4. events' \in [Handlers -> [Handlers -> Seq(Event)]] /\ EventInv'
  <2>1. CASE s \in Anonymous
    BY <1>1, <2>1, ResponsesSame DEF Unregister, TypeOK
  <2>2. CASE s \notin Anonymous
    BY <1>1, <1>2, <1>3, <2>2, BroadcastKeepsEvents DEF Unregister
  <2>3. QED  BY <2>1, <2>2
<1>5. handlers' = handlers \/ handlers' = [handlers EXCEPT ![owner[s]][s] = None]
  BY DEF Unregister
<1>6. /\ handlers' \in [Handlers -> [Sessions -> Handlers \cup {None}]]
      /\ \A g \in Handlers, r \in Sessions : r # s => handlers'[g][r] = handlers[g][r]
  <2>1. handlers \in [Handlers -> [Sessions -> Handlers \cup {None}]] /\ None \in Handlers \cup {None}
    BY <1>1 DEF TypeOK
  <2>2. CASE handlers' = [handlers EXCEPT ![owner[s]][s] = None]
    BY <1>2, <2>1, <2>2, TableFacts
  <2>3. QED  BY <1>5, <2>1, <2>2
<1>7. /\ QueueDomain'
      /\ \A r \in Sessions : r # s => queue'[r] = queue[r]
      /\ queue'[s] \in {queue[s], None}
  BY <1>1 DEF Unregister, QueueDomain
<1>8. pc' \in [Sessions -> {"unopened", "processing", "waiting", "ended"}]
  BY <1>1 DEF TypeOK
<1>9. TypeOK'
  <2>1. \A r \in Sessions : queue'[r] # None => queue'[r] \in Seq(RequestSet)
    BY <1>1, <1>7 DEF TypeOK
  <2>2. QED  BY <1>1, <1>4, <1>6, <1>8, <2>1 DEF TypeOK
<1>10. SessionInv'
  <2>1. ASSUME NEW r \in Sessions, r # s PROVE SessionOK(r)'
    <3>1. pc'[r] = pc[r]
      BY <1>1, <2>1 DEF TypeOK
    <3>2. QED  BY <1>1, <1>7, <2>1, <3>1, OtherSession DEF SessionInv
  <2>2. SessionOK(s)'
    <3>1. SessionOK(s) /\ pc'[s] = "ended"
      BY <1>1 DEF SessionInv, TypeOK
    <3>2. AllTimely(s, requests[s])' /\ (queue'[s] # None => AllTimely(s, queue[s])')
      BY <1>7, <3>1 DEF SessionOK, AllTimely, Timely
    <3>3. QED  BY <3>1, <3>2 DEF SessionOK
  <2>3. QED  BY <2>1, <2>2 DEF SessionInv
<1>11. OwnerInv'
  <2> SUFFICES ASSUME NEW g \in Handlers, NEW r \in Sessions, handlers'[g][r] = g
               PROVE  owner'[r] = g /\ queue'[r] \in Seq(RequestSet)
    BY DEF OwnerInv
  <2>1. CASE r # s
    BY <1>1, <1>6, <1>7, <2>1 DEF OwnerInv
  <2>2. CASE r = s /\ s \in Anonymous
    BY <1>1, <2>2 DEF OwnerInv, Unregister
  <2>3. CASE r = s /\ s \notin Anonymous
    <3>1. handlers \in [Handlers -> [Sessions -> Handlers \cup {None}]] /\ None \in Handlers \cup {None}
      BY <1>1 DEF TypeOK
    <3>2. handlers' = [handlers EXCEPT ![owner[s]][s] = None]
      BY <2>3 DEF Unregister
    <3>3. handlers'[g][s] = IF g = owner[s] THEN None ELSE handlers[g][s]
      BY <1>2, <3>1, <3>2, TableFacts
    <3>4. QED  BY <1>1, <2>3, <3>3 DEF OwnerInv
  <2>4. QED  BY <2>1, <2>2, <2>3
<1>12. QED  BY <1>4, <1>7, <1>9, <1>10, <1>11 DEF Inv

\* End is such an end.
LEMMA EndKeeps ==
  ASSUME Inv, NEW s \in Sessions, End(s)
  PROVE  Inv'
<1>1. TypeOK /\ SessionOK(s)
  BY DEF Inv, SessionInv
<1>2. UNCHANGED <<owner, current, requests, processed, responses, sent, pushed, alive>>
  BY DEF End
<1>3. pc[s] # "unopened" /\ pc' = [pc EXCEPT ![s] = "ended"] /\ Unregister(s)
  BY DEF End, Goto
<1>4. AllTimely(s, requests'[s]) /\ requests' \in [Sessions -> Seq(RequestSet)]
  BY <1>1, <1>2 DEF SessionOK, TypeOK
<1>5. QED  BY <1>2, <1>3, <1>4, EndingKeeps

\* A request read from the stream or from the queue: it ends the session, is skipped,
\* or is the next step.
LEMMA TakeKeeps ==
  ASSUME Inv, NEW s \in Sessions, NEW request \in RequestSet, Timely(s, request),
         pc[s] = "waiting", Take(s, request),
         requests' \in [Sessions -> Seq(RequestSet)], AllTimely(s, requests'[s]),
         \A r \in Sessions : r # s => requests'[r] = requests[r],
         request.tensors =>
           /\ queue' = [queue EXCEPT ![s] = queue'[s]]
           /\ queue'[s] # None => queue'[s] \in Seq(RequestSet) /\ AllTimely(s, queue'[s])
           /\ queue[s] \in Seq(RequestSet) => queue'[s] \in Seq(RequestSet)
  PROVE  Inv'
<1>1. TypeOK /\ QueueDomain /\ SessionOK(s)
  BY DEF Inv, SessionInv
<1>2. UNCHANGED <<owner, processed, responses, sent, pushed, alive>>
  BY DEF Take
<1>3. CASE ~request.tensors
  <2>1. pc' = [pc EXCEPT ![s] = "ended"] /\ Unregister(s) /\ UNCHANGED current
    BY <1>3 DEF Take
  <2>2. QED  BY <1>2, <2>1, EndingKeeps
<1>4. CASE request.tensors
  <2>1. UNCHANGED <<handlers, events>>
    BY <1>4 DEF Take
  <2>2. \/ UNCHANGED <<pc, current>>
        \/ /\ pc' = [pc EXCEPT ![s] = "processing"]
           /\ current' = [current EXCEPT ![s] = request]
           /\ request.step \notin processed[s]
    BY <1>4 DEF Take
  <2>3. pc' \in [Sessions -> {"unopened", "processing", "waiting", "ended"}]
    BY <1>1, <2>2 DEF TypeOK
  <2>4. current' \in [Sessions -> RequestSet \cup {None}]
    BY <1>1, <2>2 DEF TypeOK
  <2>5. /\ QueueDomain'
        /\ \A r \in Sessions : r # s => queue'[r] = queue[r]
    BY <1>1, <1>4 DEF QueueDomain
  <2>6. TypeOK'
    <3>1. \A r \in Sessions : queue'[r] # None => queue'[r] \in Seq(RequestSet)
      BY <1>1, <1>4, <2>5 DEF TypeOK
    <3>2. QED  BY <1>1, <1>2, <2>1, <2>3, <2>4, <3>1 DEF TypeOK
  <2>7. SessionOK(s)'
    <3>1. responses[s] \in Seq(RequestSet) /\ Len(responses[s]) \in Nat
      BY <1>1, LenProperties DEF TypeOK
    <3>2. AllTimely(s, requests[s])' /\ (queue'[s] # None => AllTimely(s, queue[s])')
      BY <1>2, <1>4 DEF AllTimely, Timely
    <3>3. \/ pc'[s] = "waiting"
          \/ /\ pc'[s] = "processing" /\ current'[s] = request
             /\ request.step = Len(responses[s]) + 1
      <4>1. CASE UNCHANGED <<pc, current>>
        BY <4>1
      <4>2. CASE /\ pc' = [pc EXCEPT ![s] = "processing"]
                 /\ current' = [current EXCEPT ![s] = request]
                 /\ request.step \notin processed[s]
        <5>1. request.step \in 1 .. Len(responses[s]) + 1 /\ request.step \notin 1 .. Len(responses[s])
          BY <1>1, <1>4, <4>2 DEF SessionOK, Timely
        <5>2. request.step = Len(responses[s]) + 1
          BY <3>1, <5>1
        <5>3. QED  BY <1>1, <4>2, <5>2 DEF TypeOK
      <4>3. QED  BY <2>2, <4>1, <4>2
    <3>4. QED  BY <1>1, <1>2, <3>2, <3>3 DEF SessionOK
  <2>8. \A r \in Sessions : r # s => pc'[r] = pc[r] /\ current'[r] = current[r]
    BY <1>1, <2>2 DEF TypeOK
  <2>9. Len(responses'[s]) >= Len(responses[s])
    BY <1>1, <1>2, LenProperties DEF TypeOK
  <2>10. QED  BY <1>2, <1>4, <2>1, <2>5, <2>6, <2>7, <2>8, <2>9, SessionStep
<1>5. QED  BY <1>3, <1>4

\* TakeRequest reads the oldest request of the client.
LEMMA TakeRequestKeeps ==
  ASSUME Inv, NEW s \in Sessions, TakeRequest(s)
  PROVE  Inv'
<1>1. TypeOK /\ QueueDomain /\ SessionOK(s)
  BY DEF Inv, SessionInv
<1>2. requests[s] \in Seq(RequestSet) /\ requests[s] # << >> /\ AllTimely(s, requests[s])
  BY <1>1 DEF TypeOK, SessionOK, TakeRequest
<1>3. /\ Head(requests[s]) \in RequestSet /\ Tail(requests[s]) \in Seq(RequestSet)
      /\ Timely(s, Head(requests[s])) /\ AllTimely(s, Tail(requests[s]))
  BY <1>2, TakeFacts, AllTimelyAfterTake
<1>4. requests' = [requests EXCEPT ![s] = Tail(requests[s])]
  BY DEF TakeRequest
<1>5. requests' \in [Sessions -> Seq(RequestSet)] /\ requests'[s] = Tail(requests[s])
  BY <1>1, <1>3, <1>4 DEF TypeOK
<1>6. \A r \in Sessions : r # s => requests'[r] = requests[r]
  BY <1>1, <1>4 DEF TypeOK
<1>7. Head(requests[s]).tensors =>
           /\ queue' = [queue EXCEPT ![s] = queue'[s]]
           /\ queue'[s] # None => queue'[s] \in Seq(RequestSet) /\ AllTimely(s, queue'[s])
           /\ queue[s] \in Seq(RequestSet) => queue'[s] \in Seq(RequestSet)
  BY <1>1 DEF TakeRequest, TypeOK, SessionOK, QueueDomain
<1>8. pc[s] = "waiting" /\ Take(s, Head(requests[s]))
  BY DEF TakeRequest
<1>9. QED  BY <1>3, <1>5, <1>6, <1>7, <1>8, TakeKeeps

\* TakePush reads the oldest push.
LEMMA TakePushKeeps ==
  ASSUME Inv, NEW s \in Sessions, TakePush(s)
  PROVE  Inv'
<1>1. TypeOK /\ QueueDomain /\ SessionOK(s)
  BY DEF Inv, SessionInv
<1>2. queue[s] \in Seq(RequestSet) /\ queue[s] # << >> /\ AllTimely(s, queue[s])
  BY <1>1 DEF TypeOK, SessionOK, TakePush
<1>3. /\ Head(queue[s]) \in RequestSet /\ Tail(queue[s]) \in Seq(RequestSet)
      /\ Timely(s, Head(queue[s])) /\ AllTimely(s, Tail(queue[s]))
  BY <1>2, TakeFacts, AllTimelyAfterTake
<1>4. queue' = [queue EXCEPT ![s] = Tail(queue[s])] /\ queue'[s] = Tail(queue[s])
  BY <1>1 DEF TakePush, QueueDomain
<1>5. /\ requests' \in [Sessions -> Seq(RequestSet)] /\ AllTimely(s, requests'[s])
      /\ \A r \in Sessions : r # s => requests'[r] = requests[r]
  BY <1>1 DEF TypeOK, SessionOK, TakePush
<1>6. pc[s] = "waiting" /\ Take(s, Head(queue[s]))
  BY DEF TakePush
<1>7. QED  BY <1>3, <1>4, <1>5, <1>6, TakeKeeps

\* A client sends a step, or the end, when it has the answer of the step before.
LEMMA SendKeeps ==
  ASSUME Inv, NEW s \in Sessions, NEW request \in RequestSet, Timely(s, request),
         sent' \in [Sessions -> 0 .. NumSteps + 1],
         requests' = [requests EXCEPT ![s] = Append(requests[s], request)],
         UNCHANGED <<pc, owner, current, queue, processed, responses, handlers, events, pushed, alive>>
  PROVE  Inv'
<1>1. TypeOK /\ QueueDomain /\ SessionOK(s)
  BY DEF Inv, SessionInv
<1>2. requests[s] \in Seq(RequestSet) /\ AllTimely(s, requests[s])
  BY <1>1 DEF TypeOK, SessionOK
<1>3. Append(requests[s], request) \in Seq(RequestSet) /\ AllTimely(s, Append(requests[s], request))
  BY <1>2, PutFacts, AllTimelyAfterPut
<1>4. requests' \in [Sessions -> Seq(RequestSet)] /\ requests'[s] = Append(requests[s], request)
  BY <1>1, <1>3 DEF TypeOK
<1>5. TypeOK'
  BY <1>1, <1>4 DEF TypeOK
<1>6. SessionOK(s)'
  <2>1. AllTimely(s, requests[s])' /\ (queue[s] # None => AllTimely(s, queue[s])')
    BY <1>1, <1>3, <1>4 DEF SessionOK, AllTimely, Timely
  <2>2. QED  BY <1>1, <2>1 DEF SessionOK
<1>7. \A r \in Sessions : r # s => requests'[r] = requests[r]
  BY <1>1 DEF TypeOK
<1>8. Len(responses'[s]) >= Len(responses[s])
  BY <1>1, LenProperties DEF TypeOK
<1>9. QueueDomain'
  BY <1>1 DEF QueueDomain
<1>10. QED  BY <1>5, <1>6, <1>7, <1>8, <1>9, SessionStep

\* SendStep: the step is at most the one after the last answer.
LEMMA SendStepKeeps ==
  ASSUME Inv, NEW s \in Sessions, SendStep(s)
  PROVE  Inv'
<1>1. TypeOK
  BY DEF Inv
<1>2. Len(responses[s]) \in Nat /\ sent[s] \in Nat /\ sent[s] < NumSteps /\ sent[s] <= Len(responses[s])
  BY <1>1, LenProperties DEF TypeOK, SendStep
<1>3. sent[s] + 1 \in Steps
  BY <1>2 DEF Steps
<1>4. Request(sent[s] + 1) \in RequestSet /\ Request(sent[s] + 1).step = sent[s] + 1
  BY <1>3, RequestFacts
<1>5. Timely(s, Request(sent[s] + 1))
  BY <1>2, <1>4 DEF Timely
<1>6. sent' \in [Sessions -> 0 .. NumSteps + 1]
  BY <1>1, <1>2 DEF SendStep, TypeOK
<1>7. QED  BY <1>4, <1>5, <1>6, SendKeeps DEF SendStep

\* SendClose: it has no tensors.
LEMMA SendCloseKeeps ==
  ASSUME Inv, NEW s \in Sessions, SendClose(s)
  PROVE  Inv'
<1>1. TypeOK
  BY DEF Inv
<1>2. Close \in RequestSet /\ Timely(s, Close)
  BY RequestFacts DEF Timely
<1>3. sent' \in [Sessions -> 0 .. NumSteps + 1]
  BY <1>1 DEF SendClose, TypeOK
<1>4. QED  BY <1>2, <1>3, SendKeeps DEF SendClose

--------------------------------------------------------------------------------
(* Handlers *)

\* A push is put into the queue of a session.
LEMMA PushKeeps ==
  ASSUME Inv, NEW s \in Sessions, NEW request \in RequestSet, Timely(s, request),
         queue[s] # None, queue' = [queue EXCEPT ![s] = Append(queue[s], request)],
         events' \in [Handlers -> [Handlers -> Seq(Event)]], EventInv',
         pushed' \in [Sessions -> SUBSET Steps],
         UNCHANGED <<sessionVars, handlers, sent, alive>>
  PROVE  Inv'
<1>1. TypeOK /\ QueueDomain /\ SessionInv /\ OwnerInv
  BY DEF Inv
<1>2. queue[s] \in Seq(RequestSet) /\ AllTimely(s, queue[s])
  BY <1>1 DEF TypeOK, SessionInv, SessionOK
<1>3. Append(queue[s], request) \in Seq(RequestSet) /\ AllTimely(s, Append(queue[s], request))
  BY <1>2, PutFacts, AllTimelyAfterPut
<1>4. /\ QueueDomain' /\ queue'[s] = Append(queue[s], request)
      /\ \A r \in Sessions : r # s => queue'[r] = queue[r]
  BY <1>1 DEF QueueDomain
<1>5. UNCHANGED <<pc, owner, current, requests, processed, responses>>
  BY DEF sessionVars
<1>6. TypeOK'
  <2>1. \A r \in Sessions : queue'[r] # None => queue'[r] \in Seq(RequestSet)
    BY <1>1, <1>3, <1>4 DEF TypeOK
  <2>2. QED  BY <1>1, <1>5, <2>1 DEF TypeOK
<1>7. SessionInv'
  <2>1. ASSUME NEW r \in Sessions, r # s PROVE SessionOK(r)'
    BY <1>1, <1>4, <1>5, <2>1, OtherSession DEF SessionInv
  <2>2. SessionOK(s)'
    <3>1. SessionOK(s) /\ AllTimely(s, requests[s])' /\ AllTimely(s, queue[s])'
      BY <1>1, <1>3, <1>4, <1>5 DEF SessionInv, SessionOK, AllTimely, Timely
    <3>2. QED  BY <1>5, <3>1 DEF SessionOK
  <2>3. QED  BY <2>1, <2>2 DEF SessionInv
<1>8. OwnerInv'
  BY <1>1, <1>3, <1>4, <1>5 DEF OwnerInv
<1>9. QED  BY <1>4, <1>6, <1>7, <1>8 DEF Inv

\* Events change, and nothing else that the invariant is about.
LEMMA EventsKeep ==
  ASSUME Inv, events' \in [Handlers -> [Handlers -> Seq(Event)]], EventInv',
         pushed' \in [Sessions -> SUBSET Steps],
         handlers' \in [Handlers -> [Sessions -> Handlers \cup {None}]], OwnerInv',
         UNCHANGED <<sessionVars, queue, sent, alive>>
  PROVE  Inv'
<1>1. TypeOK /\ QueueDomain /\ SessionInv
  BY DEF Inv
<1>2. UNCHANGED <<pc, owner, current, requests, processed, responses>>
  BY DEF sessionVars
<1>3. TypeOK'
  BY <1>1, <1>2 DEF TypeOK
<1>4. SessionInv'
  BY <1>1, <1>2, OtherSession DEF SessionInv
<1>5. QueueDomain'
  BY <1>1 DEF QueueDomain
<1>6. QED  BY <1>3, <1>4, <1>5 DEF Inv

\* An event is put into one queue, or taken from it: the others stay as they are.
LEMMA EventInvByQueue ==
  ASSUME TypeOK, EventInv, UNCHANGED responses, NEW from \in Handlers, NEW to \in Handlers,
         NEW q \in Seq(Event), events' = [events EXCEPT ![from][to] = q],
         from = to => q = << >>,
         \A i \in 1 .. Len(q) :
           /\ q[i].type = "NEW_SESSION" => q[i].payload = from
           /\ q[i].type = "PUSH" => Timely(q[i].session, q[i].payload)
  PROVE  events' \in [Handlers -> [Handlers -> Seq(Event)]] /\ EventInv'
<1>1. events \in [Handlers -> [Handlers -> Seq(Event)]]
  BY DEF TypeOK
<1>2. /\ events' \in [Handlers -> [Handlers -> Seq(Event)]]
      /\ \A x, y \in Handlers : events'[x][y] = IF x = from /\ y = to THEN q ELSE events[x][y]
  <2> DEFINE g == events'
             C == Seq(Event)
  <2>1. events \in [Handlers -> [Handlers -> C]] /\ q \in C /\ g = [events EXCEPT ![from][to] = q]
    BY <1>1
  <2> HIDE DEF g, C
  <2>2. \A z : z = [events EXCEPT ![from][to] = q] =>
               /\ z \in [Handlers -> [Handlers -> C]]
               /\ \A x \in Handlers, y \in Handlers :
                    z[x][y] = IF x = from /\ y = to THEN q ELSE events[x][y]
    <3>1. TAKE z
    <3>2. HAVE z = [events EXCEPT ![from][to] = q]
    <3>3. QED  BY <2>1, <3>2, TableFacts
  <2>3. /\ g \in [Handlers -> [Handlers -> C]]
        /\ \A x \in Handlers, y \in Handlers :
             g[x][y] = IF x = from /\ y = to THEN q ELSE events[x][y]
    BY <2>1, <2>2
  <2>4. QED  BY <2>3 DEF g, C
<1>3. ASSUME NEW x \in Handlers, NEW y \in Handlers
      PROVE  /\ x = y => events'[x][y] = << >>
             /\ \A i \in 1 .. Len(events'[x][y]) :
                  /\ events'[x][y][i].type = "NEW_SESSION" => events'[x][y][i].payload = x
                  /\ events'[x][y][i].type = "PUSH" =>
                       Timely(events'[x][y][i].session, events'[x][y][i].payload)
  <2>1. CASE x = from /\ y = to
    <3>1. events'[x][y] = q
      BY <1>2, <2>1
    <3>2. QED  BY <2>1, <3>1
  <2>2. CASE ~(x = from /\ y = to)
    <3>1. events'[x][y] = events[x][y]
      BY <1>2, <2>2
    <3>2. QED  BY <3>1 DEF EventInv
  <2>3. QED  BY <2>1, <2>2
<1>4. EventInv'
  <2> SUFFICES ASSUME NEW x \in Handlers, NEW y \in Handlers
               PROVE  (/\ x = y => events[x][y] = << >>
                       /\ \A i \in 1 .. Len(events[x][y]) :
                            /\ events[x][y][i].type = "NEW_SESSION" => events[x][y][i].payload = x
                            /\ events[x][y][i].type = "PUSH" =>
                                 Timely(events[x][y][i].session, events[x][y][i].payload))'
    BY DEF EventInv
  <2>1. x = y => events'[x][y] = << >>
    BY ONLY <1>3, x \in Handlers, y \in Handlers
  <2>2. ASSUME NEW i \in 1 .. Len(events'[x][y])
        PROVE  /\ events'[x][y][i].type = "NEW_SESSION" => events'[x][y][i].payload = x
               /\ events'[x][y][i].type = "PUSH" =>
                    Timely(events'[x][y][i].session, events'[x][y][i].payload)
    BY ONLY <1>3, x \in Handlers, y \in Handlers
  <2>3. ASSUME NEW i \in 1 .. Len(events'[x][y]), events'[x][y][i].type = "PUSH"
        PROVE  Timely(events[x][y][i].session, events[x][y][i].payload)'
    BY <2>2, <2>3 DEF Timely
  <2>4. QED  BY <2>1, <2>2, <2>3
<1>5. QED  BY <1>2, <1>4

\* RpcPush: the step is at most the one after the last answer.
LEMMA RpcPushKeeps ==
  ASSUME Inv, NEW h \in Handlers, NEW s \in Sessions, NEW step \in Steps, RpcPush(h, s, step)
  PROVE  Inv'
<1> DEFINE to == handlers[h][s]
           event == [type |-> "PUSH", session |-> s, payload |-> PushOf(step)]
           q == Append(events[h][to], event)
<1>1. TypeOK /\ EventInv /\ OwnerInv /\ SessionOK(s)
  BY DEF Inv, SessionInv
<1>2. PushOf(step) \in RequestSet /\ PushOf(step).step = step
  BY RequestFacts
<1>3. Timely(s, PushOf(step))
  BY <1>2 DEF Timely, RpcPush, Steps
<1>4. UNCHANGED <<sessionVars, handlers, sent, alive>> /\ PutIntoSessionQueue(h, s, PushOf(step))
  BY DEF RpcPush
<1>5. pushed' \in [Sessions -> SUBSET Steps]
  BY <1>1 DEF RpcPush, TypeOK
<1>6. UNCHANGED responses
  BY <1>4 DEF sessionVars
<1>7. handlers' \in [Handlers -> [Sessions -> Handlers \cup {None}]]
  BY <1>1, <1>4 DEF TypeOK
<1>8. CASE UNCHANGED <<queue, events>>
  <2>1. events' \in [Handlers -> [Handlers -> Seq(Event)]] /\ EventInv'
    BY <1>1, <1>6, <1>8, ResponsesSame DEF TypeOK
  <2>2. OwnerInv'
    BY <1>1, <1>4, <1>8 DEF OwnerInv, sessionVars
  <2>3. QED  BY <1>4, <1>5, <1>7, <1>8, <2>1, <2>2, EventsKeep
<1>9. CASE handlers[h][s] # None /\ handlers[h][s] = h
  <2>1. queue' = [queue EXCEPT ![s] = Append(queue[s], PushOf(step))] /\ UNCHANGED events
    BY <1>4, <1>9 DEF PutIntoSessionQueue
  <2>2. events' \in [Handlers -> [Handlers -> Seq(Event)]] /\ EventInv'
    BY <1>1, <1>6, <2>1, ResponsesSame DEF TypeOK
  <2>3. CASE queue[s] = None
    BY <1>1, <1>9, <2>3 DEF OwnerInv
  <2>4. QED  BY <1>2, <1>3, <1>4, <1>5, <2>1, <2>2, <2>3, PushKeeps
<1>10. CASE handlers[h][s] \notin {None, h}
  <2>1. UNCHANGED queue /\ events' = [events EXCEPT ![h][to] = q]
    BY <1>4, <1>10 DEF PutIntoSessionQueue
  <2>2. to \in Handlers /\ event \in Event /\ events[h][to] \in Seq(Event)
    <3>1. handlers[h][s] \in Handlers \cup {None} /\ handlers[h][s] # None
      BY <1>1, <1>10 DEF TypeOK
    <3>2. to \in Handlers
      BY <3>1
    <3> HIDE DEF to
    <3>3. event \in Event
      BY <1>2 DEF Event
    <3>4. events[h][to] \in Seq(Event)
      BY <1>1, <3>2 DEF TypeOK
    <3>5. QED  BY <3>2, <3>3, <3>4
  <2>3. /\ q \in Seq(Event) /\ Len(q) = Len(events[h][to]) + 1 /\ Len(events[h][to]) \in Nat
        /\ \A i \in 1 .. Len(events[h][to]) + 1 :
             q[i] = IF i = Len(events[h][to]) + 1 THEN event ELSE events[h][to][i]
    <3>1. Len(events[h][to]) \in Nat
      BY <2>2, LenProperties
    <3> HIDE DEF to, event
    <3>2. QED  BY <2>2, <3>1, PutFacts
  <2>4. ASSUME NEW i \in 1 .. Len(q)
        PROVE  /\ q[i].type = "NEW_SESSION" => q[i].payload = h
               /\ q[i].type = "PUSH" => Timely(q[i].session, q[i].payload)
    <3>1. CASE q[i] = event
      BY <1>3, <3>1
    <3>2. CASE i \in 1 .. Len(events[h][to]) /\ q[i] = events[h][to][i]
      BY <1>1, <2>2, <3>2 DEF EventInv
    <3>3. QED
      <4> HIDE DEF to, event, q
      <4>1. i \in 1 .. Len(events[h][to]) + 1
        BY <2>3
      <4>2. i = Len(events[h][to]) + 1 \/ (i \in 1 .. Len(events[h][to]) /\ i # Len(events[h][to]) + 1)
        BY <2>3, <4>1
      <4>3. q[i] = event \/ (i \in 1 .. Len(events[h][to]) /\ q[i] = events[h][to][i])
        BY <2>3, <4>1, <4>2
      <4>4. QED  BY <3>1, <3>2, <4>3
  <2>5. events' \in [Handlers -> [Handlers -> Seq(Event)]] /\ EventInv'
    <3>1. to # h
      BY <1>10
    <3> HIDE DEF to, event, q
    <3>2. (h = to => q = << >>) /\ q \in Seq(Event)
      BY <2>3, <3>1
    <3>3. QED  BY <1>1, <1>6, <2>1, <2>2, <2>4, <3>2, EventInvByQueue, ZenonT(30)
  <2>6. OwnerInv'
    BY <1>1, <1>4, <2>1 DEF OwnerInv, sessionVars
  <2>7. QED  BY <1>4, <1>5, <1>7, <2>1, <2>5, <2>6, EventsKeep
<1>11. QED  BY <1>4, <1>8, <1>9, <1>10 DEF PutIntoSessionQueue

\* Listen: what an event says is applied, and it is gone from its queue.
LEMMA ListenKeeps ==
  ASSUME Inv, NEW h \in Handlers, NEW from \in Handlers, Listen(h, from)
  PROVE  Inv'
<1> DEFINE q == events[from][h]
           event == Head(q)
           s == event.session
<1>1. TypeOK /\ EventInv /\ OwnerInv /\ SessionInv /\ QueueDomain
  BY DEF Inv
<1>2. q \in Seq(Event) /\ q # << >>
  BY <1>1 DEF TypeOK, Listen
<1>3. /\ event \in Event /\ event = q[1] /\ Len(q) >= 1 /\ Len(q) \in Nat
      /\ Tail(q) \in Seq(Event) /\ Len(Tail(q)) = Len(q) - 1
      /\ \A i \in 1 .. Len(q) - 1 : Tail(q)[i] = q[i + 1]
  BY <1>2, TakeFacts, LenProperties
<1>4. h # from
  BY <1>1, <1>2 DEF EventInv
<1>5. UNCHANGED <<sessionVars, sent, pushed, alive>> /\ Apply(h, event)
  BY DEF Listen
<1>6. UNCHANGED responses
  BY <1>5 DEF sessionVars
<1>7. \A i \in 1 .. Len(q) :
         /\ q[i].type = "NEW_SESSION" => q[i].payload = from
         /\ q[i].type = "PUSH" => Timely(q[i].session, q[i].payload)
  BY <1>1 DEF EventInv
<1>8. events' \in [Handlers -> [Handlers -> Seq(Event)]] /\ EventInv'
  <2>1. events' = [events EXCEPT ![from][h] = Tail(q)]
    BY DEF Listen
  <2>2. \A i \in 1 .. Len(Tail(q)) :
           /\ Tail(q)[i].type = "NEW_SESSION" => Tail(q)[i].payload = from
           /\ Tail(q)[i].type = "PUSH" => Timely(Tail(q)[i].session, Tail(q)[i].payload)
    <3> HIDE DEF q
    <3> TAKE i \in 1 .. Len(Tail(q))
    <3>1. i + 1 \in 1 .. Len(q) /\ Tail(q)[i] = q[i + 1]
      BY <1>3
    <3>2. QED  BY <1>7, <3>1
  <2> HIDE DEF q
  <2>3. (from = h => Tail(q) = << >>) /\ Tail(q) \in Seq(Event)
    BY <1>3, <1>4
  <2>4. QED  BY <1>1, <1>6, <2>1, <2>2, <2>3, EventInvByQueue, ZenonT(30)
<1>9. s \in Sessions /\ pushed' \in [Sessions -> SUBSET Steps]
  BY <1>1, <1>3, <1>5 DEF Event, TypeOK
<1>10. CASE event.type \in {"NEW_SESSION", "END_SESSION"}
  <2>1. UNCHANGED queue
    BY <1>5, <1>10 DEF Apply
  <2>2. PICK owned \in Handlers \cup {None} :
           owned # h /\ handlers' = [handlers EXCEPT ![h][s] = owned]
    <3>1. CASE event.type = "NEW_SESSION"
      <4>1. 1 \in 1 .. Len(q)
        BY <1>3
      <4>2. event.payload = from
        BY <1>3, <1>7, <3>1, <4>1
      <4>3. handlers' = [handlers EXCEPT ![h][s] = from]
        BY <1>5, <3>1, <4>2 DEF Apply
      <4>4. QED  BY <1>4, <4>3
    <3>2. CASE event.type = "END_SESSION"
      <4>1. handlers' = [handlers EXCEPT ![h][s] = None]
        BY <1>5, <3>2 DEF Apply
      <4>2. QED  BY <4>1
    <3>3. QED  BY <1>10, <3>1, <3>2
  <2>3. handlers \in [Handlers -> [Sessions -> Handlers \cup {None}]]
    BY <1>1 DEF TypeOK
  <2> HIDE DEF s
  <2>4. /\ handlers' \in [Handlers -> [Sessions -> Handlers \cup {None}]]
        /\ \A g \in Handlers, r \in Sessions :
             handlers'[g][r] = IF g = h /\ r = s THEN owned ELSE handlers[g][r]
    BY <1>9, <2>2, <2>3, TableFacts
  <2>5. OwnerInv'
    <3>1. owner' = owner
      BY <1>5 DEF sessionVars
    <3>2. QED  BY <1>1, <2>1, <2>2, <2>4, <3>1 DEF OwnerInv
  <2>6. QED  BY <1>5, <1>8, <1>9, <2>1, <2>4, <2>5, EventsKeep
<1>11. CASE event.type = "PUSH"
  <2>1. event.payload \in RequestSet /\ Timely(s, event.payload)
    <3>1. 1 \in 1 .. Len(q)
      BY <1>3
    <3>2. QED  BY <1>3, <1>7, <1>11, <3>1 DEF Event
  <2>2. UNCHANGED handlers
    BY <1>5, <1>11 DEF Apply
  <2>3. CASE queue[s] = None
    <3>1. queue' = queue
      <4>1. queue' = [queue EXCEPT ![s] = queue[s]]
        BY <1>5, <1>11, <2>3 DEF Apply
      <4>2. QED  BY <1>1, <4>1 DEF QueueDomain
    <3>2. OwnerInv' /\ handlers' \in [Handlers -> [Sessions -> Handlers \cup {None}]]
      BY <1>1, <1>5, <2>2, <3>1 DEF OwnerInv, sessionVars, TypeOK
    <3>3. QED  BY <1>5, <1>8, <1>9, <3>1, <3>2, EventsKeep
  <2>4. CASE queue[s] # None
    <3>1. queue' = [queue EXCEPT ![s] = Append(queue[s], event.payload)]
      BY <1>5, <1>11, <2>4 DEF Apply
    <3> HIDE DEF s, event
    <3>2. QED  BY <1>5, <1>8, <1>9, <2>1, <2>2, <2>4, <3>1, PushKeeps
  <2>5. QED  BY <2>3, <2>4
<1>12. QED  BY <1>3, <1>10, <1>11 DEF Event

\* Shutdown: the sessions of the handler end with it; no other handler serves them.
LEMMA ShutdownKeeps ==
  ASSUME Inv, NEW h \in Handlers, Shutdown(h)
  PROVE  Inv'
<1> DEFINE own == {s \in Sessions : owner[s] = h /\ pc[s] # "ended"}
<1>1. TypeOK /\ EventInv /\ OwnerInv /\ SessionInv /\ QueueDomain
  BY DEF Inv
<1>2. /\ pc' = [s \in Sessions |-> IF s \in own THEN "ended" ELSE pc[s]]
      /\ queue' = [s \in Sessions |-> IF s \in own THEN None ELSE queue[s]]
      /\ handlers' = [handlers EXCEPT ![h] = [s \in Sessions |-> None]]
      /\ alive' = alive \ {h}
      /\ UNCHANGED <<owner, current, requests, processed, responses, events, sent, pushed>>
  BY DEF Shutdown
<1>3. handlers' \in [Handlers -> [Sessions -> Handlers \cup {None}]]
  BY <1>1, <1>2 DEF TypeOK
<1>4. TypeOK'
  <2>1. pc' \in [Sessions -> {"unopened", "processing", "waiting", "ended"}]
    BY <1>1, <1>2 DEF TypeOK
  <2>2. \A s \in Sessions : queue'[s] # None => queue'[s] \in Seq(RequestSet)
    BY <1>1, <1>2 DEF TypeOK
  <2>3. QED  BY <1>1, <1>2, <1>3, <2>1, <2>2 DEF TypeOK
<1>5. QueueDomain'
  BY <1>2 DEF QueueDomain
<1>6. EventInv'
  BY <1>1, <1>2, ResponsesSame
<1>7. SessionInv'
  <2>1. ASSUME NEW s \in Sessions PROVE SessionOK(s)'
    <3>1. SessionOK(s)
      BY <1>1 DEF SessionInv
    <3>2. CASE s \notin own
      BY <1>2, <3>1, <3>2, OtherSession
    <3>3. CASE s \in own
      <4>1. pc'[s] = "ended" /\ queue'[s] = None /\ owner[s] # None
        BY <1>2, <3>3
      <4>2. AllTimely(s, requests[s])'
        BY <1>2, <3>1 DEF SessionOK, AllTimely, Timely
      <4>3. QED  BY <1>2, <3>1, <4>1, <4>2 DEF SessionOK
    <3>4. QED  BY <3>2, <3>3
  <2>2. QED  BY <2>1 DEF SessionInv
<1>8. OwnerInv'
  <2> SUFFICES ASSUME NEW g \in Handlers, NEW r \in Sessions, handlers'[g][r] = g
               PROVE  owner'[r] = g /\ queue'[r] \in Seq(RequestSet)
    BY DEF OwnerInv
  <2>1. g # h
    BY <1>1, <1>2 DEF TypeOK
  <2>2. handlers[g][r] = g
    BY <1>1, <1>2, <2>1 DEF TypeOK
  <2>3. QED  BY <1>1, <1>2, <2>1, <2>2 DEF OwnerInv
<1>9. QED  BY <1>4, <1>5, <1>6, <1>7, <1>8 DEF Inv

--------------------------------------------------------------------------------
(* Theorems *)

\* Every action keeps the invariant.
LEMMA NextKeepsInv == Inv /\ [Next]_vars => Inv'
<1> SUFFICES ASSUME Inv, [Next]_vars PROVE Inv'
  OBVIOUS
<1>1. ASSUME NEW s \in Sessions,
             \/ \E h \in Handlers : Open(s, h)
             \/ FinishStep(s) \/ TakeRequest(s) \/ TakePush(s) \/ End(s)
             \/ SendStep(s) \/ SendClose(s)
      PROVE  Inv'
  BY <1>1, OpenKeeps, FinishStepKeeps, TakeRequestKeeps, TakePushKeeps, EndKeeps,
     SendStepKeeps, SendCloseKeeps
<1>2. ASSUME NEW h \in Handlers,
             \/ \E s \in Sessions \ Anonymous, step \in Steps : RpcPush(h, s, step)
             \/ \E from \in Handlers : Listen(h, from)
             \/ Shutdown(h)
      PROVE  Inv'
  BY <1>2, RpcPushKeeps, ListenKeeps, ShutdownKeeps
<1>3. CASE UNCHANGED vars
  <2>1. /\ UNCHANGED <<pc, owner, current, requests, processed, responses>>
        /\ UNCHANGED <<queue, handlers, events, sent, pushed, alive>>
    BY <1>3 DEF vars, sessionVars
  <2>2. TypeOK /\ EventInv /\ OwnerInv /\ SessionInv /\ QueueDomain
    BY DEF Inv
  <2>3. TypeOK'
    BY <2>1, <2>2 DEF TypeOK
  <2>4. EventInv' /\ SessionInv'
    BY <2>1, <2>2, ResponsesSame, OtherSession DEF SessionInv
  <2>5. OwnerInv' /\ QueueDomain'
    BY <2>1, <2>2 DEF OwnerInv, QueueDomain
  <2>6. QED  BY <2>3, <2>4, <2>5 DEF Inv
<1>4. QED  BY <1>1, <1>2, <1>3 DEF Next

\* The inductive invariant holds in every state.
THEOREM InvariantHolds == Spec => []Inv
BY InitInv, NextKeepsInv, PTL DEF Spec

\* Every variable keeps its type: no session, queue or event of a handler is ever
\* anything else.
THEOREM TypeCorrect == Spec => []TypeOK
<1>1. Inv => TypeOK
  BY DEF Inv
<1>2. QED  BY <1>1, InvariantHolds, PTL

\* However many handlers and sessions there are, and however requests and pushes are
\* mixed, the responses of a session are those of its steps 1, 2, ... in this order.
THEOREM AnswersInOrder == Spec => []StepsOnceInOrder
<1>1. Inv => StepsOnceInOrder
  <2> SUFFICES ASSUME Inv, NEW s \in Sessions, NEW i \in DOMAIN responses[s]
               PROVE  responses[s][i].step = i
    BY DEF StepsOnceInOrder
  <2>1. responses[s] \in Seq(RequestSet) /\ SessionOK(s)
    BY DEF Inv, TypeOK, SessionInv
  <2>2. i \in 1 .. Len(responses[s])
    BY <2>1, LenProperties
  <2>3. QED  BY <2>1, <2>2 DEF SessionOK
<1>2. QED  BY <1>1, InvariantHolds, PTL

(***************************************************************************)
(*                            InferenceSession                             *)
(***************************************************************************)

HIDE HandlerSessionsAssumption
USE InferenceSessionAssumption

--------------------------------------------------------------------------------
(* The inductive invariant of the inference session *)

\* The hidden states of a step at a block, where N follows the tokens T.
StepAt(T, N, block) == LastOf(Through(T \o N, block), Len(N))

Hidden == {Through(x, b)[p] : x \in Seq(Tokens), b \in 0 .. NumBlocks, p \in Nat}

Requests == [start_from_position : Nat, inputs : Seq(Hidden)]

ServerSessions ==
  [server : Servers, start : Blocks, end : 1 .. NumBlocks, position : Nat,
   history : Seq(Hidden), stepped : BOOLEAN, up : BOOLEAN, kv : Seq(Hidden),
   request : Requests \cup {NoMessage}, reply : Seq(Hidden) \cup {NoMessage}]

InferenceTypes ==
  /\ phase \in {"idle", "routing", "stepping", "awaiting", "closed"}
  /\ tokens \in Seq(Tokens) /\ new \in Seq(Tokens)
  /\ inputs \in Seq(Hidden) /\ outputs \in Seq(Hidden)
  /\ server_idx \in Nat \ {0}
  /\ sessions \in Seq(ServerSessions)

\* The spans of a list follow each other from one block to another.
Chain(list, from, to) ==
  /\ list # << >>
  /\ list[1].start = from /\ list[Len(list)].end = to
  /\ \A i \in 1 .. Len(list) : list[i].start < list[i].end
  /\ \A i \in 1 .. (Len(list) - 1) : list[i].end = list[i + 1].start

\* Nothing is asked of the server, or it is down, and nothing is on its way back.
Silent(s) == (s.up => s.request = NoMessage) /\ s.reply = NoMessage

\* The server, if it is up, has cached these states and maybe more.
Holds(s, states) == s.up => SubSeq(s.kv, 1, Len(states)) = states

\* The session is where the client is, as it is between steps.
Resting(s, T) ==
  /\ s.position = Len(T)
  /\ s.history = Through(T, s.start)
  /\ Holds(s, s.history)
  /\ Len(T) > 0 => s.stepped
  /\ Silent(s)

\* The session has taken part in the step.
Passed(s, T, N) ==
  /\ s.position = Len(T) + Len(N)
  /\ s.history = Through(T \o N, s.start)
  /\ Holds(s, s.history)
  /\ s.stepped
  /\ Silent(s)

\* It is the session's turn, and the client is at this point.
InTurn(s, T, N, at) ==
  /\ s.position = Len(T)
  /\ s.history \in {Through(T, s.start), Through(T \o N, s.start)}
  /\ Holds(s, Through(T, s.start))
  /\ Len(T) > 0 => s.stepped
  /\ at = "awaiting" => s.stepped /\ s.history = Through(T \o N, s.start)
  /\ s.up /\ s.request # NoMessage =>
       /\ at = "awaiting"
       /\ s.request = [start_from_position |-> Len(T), inputs |-> StepAt(T, N, s.start)]
  /\ s.reply # NoMessage =>
       /\ at = "awaiting" /\ s.up /\ s.request = NoMessage
       /\ s.reply = StepAt(T, N, s.end)
       /\ Holds(s, s.history)

\* Between steps.
AtRest(T, list) ==
  /\ \A i \in 1 .. Len(list) : Resting(list[i], T)
  /\ list = << >> => T = << >>

\* A session that replaced one at a later position than the first is at position 0,
\* and so will be those that replace it.
Stuck(at, T, k, list) ==
  /\ Len(T) > 0
  /\ k \in 1 .. Len(list)
  /\ list[k].position = 0
  /\ at \in {"routing", "stepping"}
  /\ \A i \in 1 .. Len(list) : Silent(list[i])

\* The sessions before the k-th have done the step, the others have not.
BlockBefore(k, list) == IF k = 1 THEN 0 ELSE list[k - 1].end

Working(at, T, N, in, k, list) ==
  /\ in = StepAt(T, N, BlockBefore(k, list))
  /\ list = << >> => at = "routing" /\ k = 1 /\ T = << >>
  /\ list # << >> =>
       /\ k \in 1 .. Len(list)
       /\ \A i \in 1 .. (k - 1) : Passed(list[i], T, N)
       /\ InTurn(list[k], T, N, at)
       /\ \A i \in (k + 1) .. Len(list) : Resting(list[i], T)

Progress ==
  /\ sessions # << >> => Chain(sessions, 0, NumBlocks)
  /\ phase = "idle" => AtRest(tokens, sessions)
  /\ phase = "closed" => sessions = << >>
  /\ Busy => /\ outputs = << >> /\ new # << >>
             /\ \/ Stuck(phase, tokens, server_idx, sessions)
                \/ Working(phase, tokens, new, inputs, server_idx, sessions)

InferenceInv == InferenceTypes /\ Progress /\ OutputsRight

--------------------------------------------------------------------------------
(* Numbers and sequences *)

\* A set of numbers that is not empty has a least element.
LEMMA LeastNumber ==
  ASSUME NEW T \in SUBSET Nat, T # {}
  PROVE  \E m \in T : \A n \in T : m <= n
<1> DEFINE R == OpToRel(<, Nat)
<1>1. \A x, y \in Nat : <<x, y>> \in R <=> x < y
  BY DEF OpToRel
<1>2. IsWellFoundedOn(R, Nat)
  BY NatLessThanWellFounded
<1> HIDE DEF R
<1>3. PICK m \in T : \A n \in T : ~(<<n, m>> \in R)
  BY <1>2, WFMin
<1>4. ASSUME NEW n \in T
      PROVE  m <= n
  <2>1. m \in Nat /\ n \in Nat
    OBVIOUS
  <2>2. ~(n < m)
    BY <1>1, <1>3, <2>1
  <2>3. QED  BY <2>1, <2>2
<1>5. QED  BY <1>4

\* A set that has 0 and, with each number below a bound, the next one has every
\* number up to the bound.
LEMMA NumbersByInduction ==
  ASSUME NEW N \in Nat, NEW T, 0 \in T, \A n \in 0 .. (N - 1) : n \in T => n + 1 \in T
  PROVE  0 .. N \subseteq T
<1> DEFINE U == {n \in 0 .. N : n \notin T}
<1>1. SUFFICES ASSUME U # {}  PROVE  FALSE
  OBVIOUS
<1>2. U \in SUBSET Nat
  OBVIOUS
<1>3. PICK m \in U : \A n \in U : m <= n
  <2> HIDE DEF U
  <2>1. QED  BY <1>1, <1>2, LeastNumber
<1>4. m \in 1 .. N /\ m - 1 \in 0 .. (N - 1) /\ (m - 1) + 1 = m
  OBVIOUS
<1>5. m - 1 \in T
  BY <1>3, <1>4
<1>6. m \in T
  BY <1>4, <1>5
<1>7. QED  BY <1>6

\* A sequence of length n, whatever its elements.
IsList(s, n) == s = [i \in 1 .. n |-> s[i]]

\* The same upper bound gives the same interval, and no other.
LEMMA SameLength ==
  ASSUME NEW m \in Nat, NEW n \in Nat, 1 .. m = 1 .. n
  PROVE  m = n
<1>1. m >= 1 => m \in 1 .. n
  OBVIOUS
<1>2. n >= 1 => n \in 1 .. m
  OBVIOUS
<1>3. QED  BY <1>1, <1>2

\* Functions over an initial interval are sequences.
LEMMA FunctionIsSeq ==
  ASSUME NEW S, NEW n \in Nat, NEW f \in [1 .. n -> S]
  PROVE  f \in Seq(S)
BY SeqDef

\* Lists are sequences over their elements.
LEMMA ListIsSeq ==
  ASSUME NEW n \in Nat, NEW s, IsList(s, n)
  PROVE  s \in Seq({s[i] : i \in 1 .. n}) /\ Len(s) = n
<1> DEFINE S == {s[i] : i \in 1 .. n}
<1>1. s \in [1 .. n -> S]
  BY DEF IsList
<1> HIDE DEF S
<1>2. s \in Seq(S)
  BY <1>1, SeqDef
<1>3. Len(s) \in Nat /\ 1 .. Len(s) = 1 .. n
  BY <1>1, <1>2, LenProperties
<1>4. Len(s) = n
  BY <1>3, SameLength
<1>5. QED  BY <1>2, <1>4 DEF S

\* Sequences are lists.
LEMMA SeqIsList ==
  ASSUME NEW S, NEW s \in Seq(S)
  PROVE  IsList(s, Len(s)) /\ Len(s) \in Nat
<1>1. s \in [1 .. Len(s) -> S] /\ Len(s) \in Nat
  BY LenProperties
<1>2. QED  BY <1>1 DEF IsList

\* Lists with the same elements are the same.
LEMMA ListsEqual ==
  ASSUME NEW n \in Nat, NEW s, NEW t, IsList(s, n), IsList(t, n),
         \A i \in 1 .. n : s[i] = t[i]
  PROVE  s = t
<1>1. s = [i \in 1 .. n |-> s[i]] /\ t = [i \in 1 .. n |-> t[i]]
  BY DEF IsList
<1>2. [i \in 1 .. n |-> s[i]] = [i \in 1 .. n |-> t[i]]
  OBVIOUS
<1>3. QED  BY <1>1, <1>2

\* The first elements of a sequence.
LEMMA ListPrefix ==
  ASSUME NEW s, NEW p \in Nat
  PROVE  IsList(SubSeq(s, 1, p), p) /\ \A i \in 1 .. p : SubSeq(s, 1, p)[i] = s[i]
<1> DEFINE S == {s[i] : i \in 1 .. p}
<1>1. \A i \in 1 .. p : s[i] \in S
  OBVIOUS
<1> HIDE DEF S
<1>2. p \in Int /\ 1 \in Int /\ p - 1 + 1 = p /\ (~(1 <= p) => p = 0)
  OBVIOUS
<1>3. /\ SubSeq(s, 1, p) \in Seq(S)
      /\ Len(SubSeq(s, 1, p)) = IF 1 <= p THEN p - 1 + 1 ELSE 0
      /\ \A i \in 1 .. p - 1 + 1 : SubSeq(s, 1, p)[i] = s[1 + i - 1]
  BY <1>1, <1>2, SubSeqProperties
<1>4. Len(SubSeq(s, 1, p)) = p
  BY <1>2, <1>3
<1>5. \A i \in 1 .. p : SubSeq(s, 1, p)[i] = s[i]
  <2>1. \A i \in 1 .. p : 1 + i - 1 = i
    OBVIOUS
  <2>2. QED  BY <1>2, <1>3, <2>1
<1>6. QED  BY <1>3, <1>4, <1>5, SeqIsList

\* The first elements of the first elements.
LEMMA PrefixOfPrefix ==
  ASSUME NEW s, NEW p \in Nat, NEW q \in 0 .. p
  PROVE  SubSeq(SubSeq(s, 1, p), 1, q) = SubSeq(s, 1, q)
<1> DEFINE t == SubSeq(s, 1, p)
<1>1. IsList(t, p) /\ \A i \in 1 .. p : t[i] = s[i]
  BY ListPrefix
<1> HIDE DEF t
<1>2. q \in Nat /\ \A i \in 1 .. q : i \in 1 .. p
  OBVIOUS
<1>3. IsList(SubSeq(t, 1, q), q) /\ \A i \in 1 .. q : SubSeq(t, 1, q)[i] = t[i]
  BY <1>2, ListPrefix
<1>4. IsList(SubSeq(s, 1, q), q) /\ \A i \in 1 .. q : SubSeq(s, 1, q)[i] = s[i]
  BY <1>2, ListPrefix
<1>5. \A i \in 1 .. q : SubSeq(t, 1, q)[i] = SubSeq(s, 1, q)[i]
  BY <1>1, <1>2, <1>3, <1>4
<1>6. SubSeq(t, 1, q) = SubSeq(s, 1, q)
  BY <1>2, <1>3, <1>4, <1>5, ListsEqual
<1>7. QED  BY <1>6 DEF t

--------------------------------------------------------------------------------
(* Through *)

\* The recursive function of Through.
Applies(f, s, n) == f = [b \in 0 .. n |-> IF b = 0 THEN s ELSE PrefixesOf(f[b - 1])]

\* It exists.
LEMMA AppliesExists ==
  ASSUME NEW s, NEW n \in Nat
  PROVE  \E f : Applies(f, s, n)
<1> DEFINE T == {m \in 0 .. n : \E f : Applies(f, s, m)}
<1>1. 0 \in T
  <2> DEFINE f == [b \in 0 .. 0 |-> s]
  <2>1. f = [b \in 0 .. 0 |-> IF b = 0 THEN s ELSE PrefixesOf(f[b - 1])]
    <3>1. \A b \in 0 .. 0 : b = 0
      OBVIOUS
    <3>2. QED  BY <3>1
  <2> HIDE DEF f
  <2>2. Applies(f, s, 0)
    BY <2>1 DEF Applies
  <2>3. QED  BY <2>2
<1>2. ASSUME NEW m \in 0 .. (n - 1), m \in T
      PROVE  m + 1 \in T
  <2>1. PICK f : Applies(f, s, m)
    BY <1>2
  <2>2. \A b \in 0 .. m : f[b] = IF b = 0 THEN s ELSE PrefixesOf(f[b - 1])
    BY <2>1 DEF Applies
  <2> DEFINE g == [b \in 0 .. (m + 1) |-> IF b = m + 1 THEN PrefixesOf(f[m]) ELSE f[b]]
  <2>3. \A b \in 0 .. (m + 1) : b # m + 1 => b \in 0 .. m
    OBVIOUS
  <2>4. g[m + 1] = PrefixesOf(f[m]) /\ \A b \in 0 .. m : g[b] = f[b]
    <3>1. \A b \in 0 .. m : b # m + 1 /\ b \in 0 .. (m + 1)
      OBVIOUS
    <3>2. QED  BY <3>1
  <2>5. g = [b \in 0 .. (m + 1) |-> g[b]]
    OBVIOUS
  <2> HIDE DEF g
  <2>6. \A b \in 0 .. (m + 1) : g[b] = IF b = 0 THEN s ELSE PrefixesOf(g[b - 1])
    <3> TAKE b \in 0 .. (m + 1)
    <3>1. CASE b = m + 1
      <4>1. b - 1 = m /\ m \in 0 .. m /\ b # 0
        BY <3>1
      <4>2. QED  BY <2>4, <3>1, <4>1
    <3>2. CASE b # m + 1
      <4>1. b \in 0 .. m /\ (b # 0 => b - 1 \in 0 .. m)
        BY <3>2
      <4>2. QED  BY <2>2, <2>4, <4>1
    <3>3. QED  BY <3>1, <3>2
  <2>7. Applies(g, s, m + 1)
    BY <2>5, <2>6 DEF Applies
  <2>8. m + 1 \in 0 .. n
    OBVIOUS
  <2>9. QED  BY <2>7, <2>8
<1>3. 0 .. n \subseteq T
  <2> HIDE DEF T
  <2>1. QED  BY <1>1, <1>2, NumbersByInduction
<1>4. n \in 0 .. n
  OBVIOUS
<1>5. QED  BY <1>3, <1>4

\* It is the same function for fewer blocks, as far as that goes.
LEMMA AppliesAgree ==
  ASSUME NEW s, NEW f, NEW g, NEW n \in Nat, NEW m \in Nat, n <= m,
         Applies(f, s, n), Applies(g, s, m)
  PROVE  \A b \in 0 .. n : f[b] = g[b]
<1>1. \A b \in 0 .. n : f[b] = IF b = 0 THEN s ELSE PrefixesOf(f[b - 1])
  BY DEF Applies
<1>2. \A b \in 0 .. m : g[b] = IF b = 0 THEN s ELSE PrefixesOf(g[b - 1])
  BY DEF Applies
<1> DEFINE T == {b \in 0 .. n : f[b] = g[b]}
<1>3. 0 \in T
  <2>1. 0 \in 0 .. n /\ 0 \in 0 .. m
    OBVIOUS
  <2>2. QED  BY <1>1, <1>2, <2>1
<1>4. ASSUME NEW b \in 0 .. (n - 1), b \in T
      PROVE  b + 1 \in T
  <2> DEFINE c == b + 1
  <2>1. c \in 0 .. n /\ c \in 0 .. m /\ c # 0 /\ c - 1 = b
    OBVIOUS
  <2> HIDE DEF c
  <2>2. f[c] = PrefixesOf(f[b]) /\ g[c] = PrefixesOf(g[b])
    BY <1>1, <1>2, <2>1
  <2>3. f[c] = g[c]
    BY <1>4, <2>2
  <2>4. QED  BY <2>1, <2>3 DEF c
<1>5. 0 .. n \subseteq T
  <2> HIDE DEF T
  <2>1. QED  BY <1>3, <1>4, NumbersByInduction
<1>6. QED  BY <1>5

\* What Through is.
LEMMA ThroughApplies ==
  ASSUME NEW s, NEW n \in Nat
  PROVE  \E f : Applies(f, s, n) /\ Through(s, n) = f[n]
<1> DEFINE body(f) == [b \in 0 .. n |-> IF b = 0 THEN s ELSE PrefixesOf(f[b - 1])]
           g == CHOOSE f : f = body(f)
<1>1. Through(s, n) = g[n]
  BY DEF Through
<1>2. PICK f : f = body(f)
  <2>1. PICK f : Applies(f, s, n)
    BY AppliesExists
  <2>2. f = body(f)
    BY <2>1 DEF Applies
  <2>3. QED  BY <2>2
<1>3. g = body(g)
  <2> HIDE DEF body
  <2>1. QED  BY <1>2
<1>4. Applies(g, s, n)
  <2> HIDE DEF g
  <2>1. QED  BY <1>3 DEF Applies
<1>5. QED
  <2> HIDE DEF g
  <2>1. QED  BY <1>1, <1>4

\* No block changes nothing; one block more makes the prefixes.
LEMMA ThroughBlocks ==
  ASSUME NEW s, NEW n \in Nat
  PROVE  Through(s, 0) = s /\ Through(s, n + 1) = PrefixesOf(Through(s, n))
<1>1. PICK f : Applies(f, s, n) /\ Through(s, n) = f[n]
  BY ThroughApplies
<1>2. n + 1 \in Nat /\ n <= n + 1 /\ n \in 0 .. n /\ 0 \in 0 .. 0
  OBVIOUS
<1>3. PICK g : Applies(g, s, n + 1) /\ Through(s, n + 1) = g[n + 1]
  BY <1>2, ThroughApplies
<1>4. PICK h : Applies(h, s, 0) /\ Through(s, 0) = h[0]
  BY ThroughApplies
<1>5. h[0] = s
  BY <1>2, <1>4 DEF Applies
<1>6. f[n] = g[n]
  BY <1>1, <1>2, <1>3, AppliesAgree
<1>7. g[n + 1] = PrefixesOf(g[n])
  <2> DEFINE c == n + 1
  <2>1. c \in 0 .. (n + 1) /\ c # 0 /\ c - 1 = n
    OBVIOUS
  <2>2. \A b \in 0 .. (n + 1) : g[b] = IF b = 0 THEN s ELSE PrefixesOf(g[b - 1])
    BY <1>3 DEF Applies
  <2> HIDE DEF c
  <2>3. g[c] = PrefixesOf(g[n])
    BY <2>1, <2>2
  <2>4. QED  BY <2>3 DEF c
<1>8. QED  BY <1>1, <1>3, <1>4, <1>5, <1>6, <1>7

\* The prefixes of a list.
LEMMA PrefixesList ==
  ASSUME NEW n \in Nat, NEW t, IsList(t, n)
  PROVE  IsList(PrefixesOf(t), n) /\ \A p \in 1 .. n : PrefixesOf(t)[p] = SubSeq(t, 1, p)
<1>1. Len(t) = n
  BY ListIsSeq
<1>2. PrefixesOf(t) = [p \in 1 .. n |-> SubSeq(t, 1, p)]
  BY <1>1 DEF PrefixesOf
<1>3. QED  BY <1>2 DEF IsList

\* Blocks keep the length.
LEMMA ThroughList ==
  ASSUME NEW n \in Nat, NEW s, IsList(s, n), NEW m \in Nat
  PROVE  IsList(Through(s, m), n)
<1> DEFINE T == {b \in 0 .. m : IsList(Through(s, b), n)}
<1>1. 0 \in T
  BY ThroughBlocks
<1>2. ASSUME NEW b \in 0 .. (m - 1), b \in T
      PROVE  b + 1 \in T
  <2>1. b \in Nat /\ b + 1 \in 0 .. m
    OBVIOUS
  <2>2. IsList(Through(s, b), n) /\ Through(s, b + 1) = PrefixesOf(Through(s, b))
    BY <1>2, <2>1, ThroughBlocks
  <2>3. IsList(Through(s, b + 1), n)
    BY <2>2, PrefixesList
  <2>4. QED  BY <2>1, <2>3
<1>3. 0 .. m \subseteq T
  <2> HIDE DEF T
  <2>1. QED  BY <1>1, <1>2, NumbersByInduction
<1>4. m \in 0 .. m
  OBVIOUS
<1>5. QED  BY <1>3, <1>4

\* The first hidden states are those of the first tokens.
LEMMA ThroughPrefix ==
  ASSUME NEW n \in Nat, NEW s, IsList(s, n), NEW p \in 0 .. n, NEW m \in Nat
  PROVE  SubSeq(Through(s, m), 1, p) = Through(SubSeq(s, 1, p), m)
<1> DEFINE r == SubSeq(s, 1, p)
           T == {b \in 0 .. m : SubSeq(Through(s, b), 1, p) = Through(r, b)}
<1>1. IsList(r, p) /\ p \in Nat
  BY ListPrefix
<1>2. 0 \in T
  <2>1. Through(s, 0) = s /\ Through(r, 0) = r
    BY 0 \in Nat, ThroughBlocks
  <2>2. QED  BY <2>1, 0 \in 0 .. m
<1>3. ASSUME NEW b \in 0 .. (m - 1), b \in T
      PROVE  b + 1 \in T
  <2> DEFINE t == Through(s, b)
             u == Through(r, b)
  <2>1. b \in Nat /\ b + 1 \in 0 .. m
    OBVIOUS
  <2>2. SubSeq(t, 1, p) = u
    BY <1>3
  <2>3. IsList(t, n)
    BY <2>1, ThroughList
  <2>4. IsList(u, p)
    BY <1>1, <2>1, ThroughList
  <2>5. Through(s, b + 1) = PrefixesOf(t) /\ Through(r, b + 1) = PrefixesOf(u)
    BY <2>1, ThroughBlocks
  <2> HIDE DEF t, u, r
  <2>6. IsList(PrefixesOf(t), n) /\ \A q \in 1 .. n : PrefixesOf(t)[q] = SubSeq(t, 1, q)
    BY <2>3, PrefixesList
  <2>7. IsList(PrefixesOf(u), p) /\ \A q \in 1 .. p : PrefixesOf(u)[q] = SubSeq(u, 1, q)
    BY <1>1, <2>4, PrefixesList
  <2>8. /\ IsList(SubSeq(PrefixesOf(t), 1, p), p)
        /\ \A q \in 1 .. p : SubSeq(PrefixesOf(t), 1, p)[q] = PrefixesOf(t)[q]
    BY <1>1, ListPrefix
  <2>9. \A q \in 1 .. p : SubSeq(PrefixesOf(t), 1, p)[q] = PrefixesOf(u)[q]
    <3> TAKE q \in 1 .. p
    <3>1. q \in 0 .. p /\ q \in 1 .. n
      OBVIOUS
    <3>2. SubSeq(u, 1, q) = SubSeq(t, 1, q)
      BY <1>1, <2>2, <3>1, PrefixOfPrefix
    <3>3. QED  BY <2>6, <2>7, <2>8, <3>1, <3>2
  <2>10. SubSeq(PrefixesOf(t), 1, p) = PrefixesOf(u)
    BY <1>1, <2>7, <2>8, <2>9, ListsEqual
  <2>11. QED  BY <2>1, <2>5, <2>10 DEF r
<1>4. 0 .. m \subseteq T
  <2> HIDE DEF T
  <2>1. QED  BY <1>2, <1>3, NumbersByInduction
<1>5. m \in 0 .. m
  OBVIOUS
<1>6. QED  BY <1>4, <1>5

\* Some blocks and then some more.
LEMMA ThroughThrough ==
  ASSUME NEW s, NEW a \in Nat, NEW m \in Nat
  PROVE  Through(Through(s, a), m) = Through(s, a + m)
<1> DEFINE t == Through(s, a)
           T == {b \in 0 .. m : Through(t, b) = Through(s, a + b)}
<1>1. 0 \in T
  <2>1. Through(t, 0) = t /\ 0 \in 0 .. m /\ a + 0 = a
    BY ThroughBlocks
  <2>2. QED  BY <2>1
<1>2. ASSUME NEW b \in 0 .. (m - 1), b \in T
      PROVE  b + 1 \in T
  <2>1. b \in Nat /\ a + b \in Nat /\ b + 1 \in 0 .. m /\ (a + b) + 1 = a + (b + 1)
    OBVIOUS
  <2>2. Through(t, b) = Through(s, a + b)
    BY <1>2
  <2> HIDE DEF t
  <2>3. Through(t, b + 1) = PrefixesOf(Through(t, b))
    BY <2>1, ThroughBlocks
  <2>4. Through(s, (a + b) + 1) = PrefixesOf(Through(s, a + b))
    BY <2>1, ThroughBlocks
  <2>5. Through(t, b + 1) = Through(s, a + (b + 1))
    BY <2>1, <2>2, <2>3, <2>4
  <2>6. QED  BY <2>1, <2>5
<1>3. 0 .. m \subseteq T
  <2> HIDE DEF T
  <2>1. QED  BY <1>1, <1>2, NumbersByInduction
<1>4. m \in 0 .. m
  OBVIOUS
<1>5. QED  BY <1>3, <1>4

--------------------------------------------------------------------------------
(* The hidden states of a step *)

\* What the blocks make of a sequence of tokens.
LEMMA HiddenStates ==
  ASSUME NEW x \in Seq(Tokens), NEW b \in 0 .. NumBlocks
  PROVE  /\ Through(x, b) \in Seq(Hidden) /\ Len(Through(x, b)) = Len(x)
         /\ IsList(x, Len(x)) /\ Len(x) \in Nat
<1> DEFINE X == Through(x, b)
           n == Len(x)
<1>1. IsList(x, n) /\ n \in Nat
  BY SeqIsList
<1>2. b \in Nat
  OBVIOUS
<1>3. IsList(X, n)
  BY <1>1, <1>2, ThroughList
<1>4. \A p \in 1 .. n : X[p] \in Hidden
  BY DEF Hidden
<1> HIDE DEF X, n
<1>5. X \in [1 .. n -> Hidden]
  BY <1>3, <1>4 DEF IsList
<1>6. X \in Seq(Hidden)
  BY <1>1, <1>5, SeqDef
<1>7. Len(X) = n
  BY <1>1, <1>3, ListIsSeq
<1>8. QED  BY <1>1, <1>6, <1>7 DEF X, n

\* The last elements of a sequence, and those before them.
LEMMA LastFacts ==
  ASSUME NEW S, NEW s \in Seq(S), NEW n \in 0 .. Len(s)
  PROVE  /\ LastOf(s, n) \in Seq(S) /\ Len(LastOf(s, n)) = n
         /\ s = SubSeq(s, 1, Len(s) - n) \o LastOf(s, n)
         /\ LastOf(LastOf(s, n), n) = LastOf(s, n)
         /\ n = Len(s) => LastOf(s, n) = s
<1> DEFINE L == Len(s)
           t == LastOf(s, n)
<1>1. L \in Nat /\ \A i \in 1 .. L : s[i] \in S
  BY LenProperties, ElementOfSeq
<1> HIDE DEF L
<1>2. n \in 0 .. L
  BY DEF L
<1>3. t = SubSeq(s, L - n + 1, L)
  BY DEF LastOf, L
<1>4. L - n + 1 \in Int /\ L \in Int /\ \A i \in L - n + 1 .. L : i \in 1 .. L
  BY <1>1, <1>2
<1> DEFINE m == L - n + 1
<1>5. /\ SubSeq(s, m, L) \in Seq(S)
      /\ Len(SubSeq(s, m, L)) = IF m <= L THEN L - m + 1 ELSE 0
  <2>1. m \in Int /\ L \in Int /\ \A i \in m .. L : s[i] \in S
    BY <1>1, <1>4
  <2> HIDE DEF m
  <2>2. QED  BY <2>1, SubSeqProperties
<1>6. t \in Seq(S) /\ Len(t) = n
  BY <1>1, <1>2, <1>3, <1>5
<1>7. s = SubSeq(s, 1, L - n) \o t
  <2>1. /\ 1 \in 1 .. L + 1 /\ L - n \in 1 - 1 .. L /\ L \in (L - n) .. L
        /\ L - n \in Int /\ (L - n) + 1 = m
    BY <1>1, <1>2
  <2> DEFINE k == L - n
  <2>2. k \in 1 - 1 .. L /\ L \in k .. L /\ k + 1 = m
    BY <2>1
  <2> HIDE DEF k, m
  <2>3. SubSeq(s, 1, k) \o SubSeq(s, k + 1, L) = SubSeq(s, 1, L)
    BY <2>1, <2>2, ConcatAdjacentSubSeq DEF L
  <2>4. SubSeq(s, 1, L) = s
    BY SubSeqFull DEF L
  <2>5. QED  BY <1>3, <2>2, <2>3, <2>4 DEF k, m
<1>8. LastOf(t, n) = t
  <2>1. LastOf(t, n) = SubSeq(t, Len(t) - n + 1, Len(t))
    BY DEF LastOf
  <2>2. n - n + 1 = 1
    BY <1>2
  <2> HIDE DEF t
  <2>3. SubSeq(t, 1, Len(t)) = t
    BY <1>6, SubSeqFull
  <2>4. QED  BY <1>6, <2>1, <2>2, <2>3
<1>9. n = L => t = s
  <2>1. n = L => L - n + 1 = 1
    BY <1>1
  <2>2. SubSeq(s, 1, L) = s
    BY SubSeqFull DEF L
  <2>3. QED  BY <1>3, <2>1, <2>2
<1>10. QED
  <2> HIDE DEF t
  <2>1. QED  BY <1>6, <1>7, <1>8, <1>9 DEF L, t

\* The hidden states before a step and in it, after the same blocks.
LEMMA StepStates ==
  ASSUME NEW T \in Seq(Tokens), NEW N \in Seq(Tokens), NEW b \in 0 .. NumBlocks
  PROVE  /\ Through(T, b) \in Seq(Hidden) /\ Len(Through(T, b)) = Len(T)
         /\ Through(T \o N, b) \in Seq(Hidden) /\ Len(Through(T \o N, b)) = Len(T) + Len(N)
         /\ SubSeq(Through(T \o N, b), 1, Len(T)) = Through(T, b)
         /\ LastOf(Through(T \o N, b), Len(N)) \in Seq(Hidden)
         /\ Len(LastOf(Through(T \o N, b), Len(N))) = Len(N)
         /\ Through(T \o N, b) = Through(T, b) \o LastOf(Through(T \o N, b), Len(N))
         /\ Len(T) = 0 => /\ Through(T, b) = << >>
                          /\ LastOf(Through(T \o N, b), Len(N)) = Through(T \o N, b)
         /\ Len(T) \in Nat /\ Len(N) \in Nat
<1> DEFINE F == T \o N
           P == Len(T)
           n == Len(N)
           X == Through(F, b)
<1>1. F \in Seq(Tokens) /\ Len(F) = P + n /\ P \in Nat /\ n \in Nat
  BY ConcatProperties, LenProperties
<1>2. \A i \in 1 .. P : F[i] = T[i]
  <2>1. /\ \A i \in 1 .. P + n : F[i] = IF i <= P THEN T[i] ELSE N[i - P]
        /\ \A i \in 1 .. P : i \in 1 .. P + n /\ i <= P
    BY <1>1, ConcatProperties
  <2> HIDE DEF F, P, n
  <2>2. QED  BY <2>1
<1>3. Through(T, b) \in Seq(Hidden) /\ Len(Through(T, b)) = P /\ IsList(T, P)
  BY HiddenStates
<1> HIDE DEF F
<1>4. X \in Seq(Hidden) /\ Len(X) = P + n /\ IsList(F, P + n)
  BY <1>1, HiddenStates
<1>5. SubSeq(F, 1, P) = T
  <2>1. P \in 0 .. P + n /\ P + n \in Nat
    BY <1>1
  <2> HIDE DEF P, n
  <2>2. IsList(SubSeq(F, 1, P), P) /\ \A i \in 1 .. P : SubSeq(F, 1, P)[i] = F[i]
    BY <1>1, ListPrefix DEF P
  <2>3. QED  BY <1>1, <1>2, <1>3, <2>2, ListsEqual
<1>6. SubSeq(X, 1, P) = Through(T, b)
  <2> DEFINE L == P + n
  <2>1. P \in 0 .. L /\ L \in Nat /\ b \in Nat /\ IsList(F, L)
    BY <1>1, <1>4
  <2> HIDE DEF P, L, X
  <2>2. SubSeq(Through(F, b), 1, P) = Through(SubSeq(F, 1, P), b)
    BY <2>1, ThroughPrefix
  <2>3. QED  BY <1>5, <2>2 DEF X
<1> HIDE DEF X
<1>7. /\ LastOf(X, n) \in Seq(Hidden) /\ Len(LastOf(X, n)) = n
      /\ X = SubSeq(X, 1, Len(X) - n) \o LastOf(X, n)
      /\ n = Len(X) => LastOf(X, n) = X
  <2>1. n \in 0 .. Len(X)
    BY <1>1, <1>4
  <2> HIDE DEF n, P
  <2> HIDE DEF F
  <2>2. X \in Seq(Hidden)
    BY <1>4
  <2>3. QED  BY <2>1, <2>2, LastFacts, SMTT(30)
<1>8. Len(X) - n = P /\ (P = 0 => n = Len(X))
  BY <1>1, <1>4
<1>9. P = 0 => Through(T, b) = << >>
  BY <1>3, EmptySeq
<1>10. QED
  <2> HIDE DEF P, n
  <2>1. QED  BY <1>1, <1>3, <1>4, <1>6, <1>7, <1>8, <1>9 DEF X, F, P, n

\* Their lengths.
LEMMA StepLengths ==
  ASSUME NEW T \in Seq(Tokens), NEW N \in Seq(Tokens), NEW b \in 0 .. NumBlocks
  PROVE  /\ Through(T \o N, b) \in Seq(Hidden) /\ Len(Through(T \o N, b)) = Len(T) + Len(N)
         /\ StepAt(T, N, b) = LastOf(Through(T \o N, b), Len(N))
         /\ StepAt(T, N, b) \in Seq(Hidden) /\ Len(StepAt(T, N, b)) = Len(N)
         /\ Len(T) \in Nat /\ Len(N) \in Nat
<1>1. StepAt(T, N, b) = LastOf(Through(T \o N, b), Len(N))
  BY DEF StepAt
<1> DEFINE F == T \o N
           X == Through(F, b)
           n == Len(N)
<1>2. F \in Seq(Tokens) /\ Len(F) = Len(T) + n /\ Len(T) \in Nat /\ n \in Nat
  BY ConcatProperties, LenProperties
<1> HIDE DEF F
<1>3. X \in Seq(Hidden) /\ Len(X) = Len(F)
  BY <1>2, HiddenStates
<1> HIDE DEF X, n
<1>4. n \in 0 .. Len(X)
  BY <1>2, <1>3
<1>5. LastOf(X, n) \in Seq(Hidden) /\ Len(LastOf(X, n)) = n
  BY <1>3, <1>4, LastFacts
<1>6. StepAt(T, N, b) = LastOf(X, n)
  BY <1>1 DEF X, F, n
<1>7. QED
  <2>1. StepAt(T, N, b) \in Seq(Hidden) /\ Len(StepAt(T, N, b)) = n
    BY <1>5, <1>6
  <2>2. Len(X) = Len(T) + n
    BY <1>2, <1>3
  <2>3. QED  BY <1>1, <1>2, <1>3, <2>1, <2>2 DEF X, F, n

--------------------------------------------------------------------------------
(* make_sequence *)

\* The elements of a set of numbers in ascending order.
Ascending(q, N, S) ==
  /\ q \in [1 .. N -> S]
  /\ \A x \in S : \E i \in 1 .. N : q[i] = x
  /\ \A i, j \in 1 .. N : i < j => q[i] < q[j]

\* Any finite set of numbers can be put in order.
LEMMA AscendingExists ==
  ASSUME NEW m \in Nat, NEW S \in SUBSET (0 .. m)
  PROVE  \E N \in Nat : \E q : Ascending(q, N, S)
<1> DEFINE Below(c) == {x \in S : x < c}
           T == {c \in 0 .. (m + 1) : \E N \in Nat : \E q : Ascending(q, N, Below(c))}
<1>0. \A x \in S : x \in Nat /\ x <= m
  OBVIOUS
<1>1. 0 \in T
  <2>1. Below(0) = {}
    <3>1. \A x \in S : ~(x < 0)
      BY <1>0
    <3>2. QED  BY <3>1
  <2>2. Ascending([i \in 1 .. 0 |-> 0], 0, {})
    BY DEF Ascending
  <2> HIDE DEF Below
  <2>3. QED  BY <2>1, <2>2
<1>2. ASSUME NEW c \in 0 .. m, c \in T
      PROVE  c + 1 \in T
  <2>0. PICK N \in Nat : \E q : Ascending(q, N, Below(c))
    BY <1>2
  <2>1. PICK q : Ascending(q, N, Below(c))
    BY <2>0
  <2>2. c + 1 \in 0 .. (m + 1)
    OBVIOUS
  <2>3. CASE c \notin S
    <3>1. Below(c + 1) = Below(c)
      <4>1. \A x \in S : x < c + 1 <=> x < c
        BY <1>0, <2>3
      <4>2. QED  BY <4>1
    <3> HIDE DEF Below
    <3>2. QED  BY <2>1, <2>2, <3>1
  <2>4. CASE c \in S
    <3> DEFINE r == [i \in 1 .. (N + 1) |-> IF i = N + 1 THEN c ELSE q[i]]
               B == Below(c)
    <3>1. Below(c + 1) = B \cup {c} /\ \A x \in B : x \in Nat /\ x < c
      <4>1. \A x \in S : x < c + 1 <=> x < c \/ x = c
        BY <1>0
      <4>2. QED  BY <1>0, <2>4, <4>1
    <3> HIDE DEF B, Below
    <3>2. Ascending(q, N, B)
      BY <2>1 DEF B
    <3>3. /\ r[N + 1] = c /\ N + 1 \in 1 .. (N + 1)
          /\ \A i \in 1 .. N : i \in 1 .. (N + 1) /\ r[i] = q[i] /\ q[i] \in B
      BY <3>2 DEF Ascending
    <3>4. r \in [1 .. (N + 1) -> B \cup {c}]
      <4>1. \A i \in 1 .. (N + 1) : i = N + 1 \/ i \in 1 .. N
        OBVIOUS
      <4>2. QED  BY <3>3, <4>1
    <3> HIDE DEF r
    <3>5. \A x \in B \cup {c} : \E i \in 1 .. (N + 1) : r[i] = x
      <4>1. \A x \in B : \E i \in 1 .. N : q[i] = x
        BY <3>2 DEF Ascending
      <4>2. QED  BY <3>3, <4>1
    <3>6. \A i, j \in 1 .. (N + 1) : i < j => r[i] < r[j]
      <4> TAKE i, j \in 1 .. (N + 1)
      <4> HAVE i < j
      <4>1. i \in 1 .. N
        OBVIOUS
      <4>2. CASE j = N + 1
        BY <3>1, <3>3, <4>1, <4>2
      <4>3. CASE j # N + 1
        <5>1. j \in 1 .. N
          BY <4>3
        <5>2. q[i] < q[j]
          BY <3>2, <4>1, <5>1 DEF Ascending
        <5>3. QED  BY <3>3, <4>1, <5>1, <5>2
      <4>4. QED  BY <4>2, <4>3
    <3>7. Ascending(r, N + 1, B \cup {c})
      BY <3>4, <3>5, <3>6 DEF Ascending
    <3>8. QED  BY <2>2, <3>1, <3>7
  <2>5. QED  BY <2>3, <2>4
<1>3. 0 .. (m + 1) \subseteq T
  <2>1. m + 1 \in Nat /\ (m + 1) - 1 = m
    OBVIOUS
  <2> HIDE DEF T
  <2>2. QED  BY <1>1, <1>2, <2>1, NumbersByInduction
<1>4. Below(m + 1) = S /\ m + 1 \in 0 .. (m + 1)
  <2>1. \A x \in S : x < m + 1
    BY <1>0
  <2>2. {x \in S : x < m + 1} = S
    BY <2>1
  <2>3. QED  BY <2>2
<1>5. QED
  <2>1. m + 1 \in T
    BY <1>3, <1>4
  <2>2. QED  BY <1>4, <2>1

\* The sequence that SpansOf chooses.
LEMMA SortedSet ==
  ASSUME NEW m \in Nat, NEW S \in SUBSET (0 .. m), NEW s,
         s = CHOOSE q \in SetToSeqs(S) : \A i, j \in DOMAIN q : i < j => q[i] < q[j]
  PROVE  \E N \in Nat : Ascending(s, N, S)
<1>0. PICK N \in Nat : \E q : Ascending(q, N, S)
  BY AscendingExists
<1>1. PICK q : Ascending(q, N, S)
  BY <1>0
<1>2. \A i, j \in 1 .. N : i # j => q[i] # q[j]
  <2>1. \A i \in 1 .. N : q[i] \in 0 .. m
    BY <1>1 DEF Ascending
  <2>2. \A i, j \in 1 .. N : i < j => q[i] < q[j]
    BY <1>1 DEF Ascending
  <2> TAKE i, j \in 1 .. N
  <2> HAVE i # j
  <2>3. i < j \/ j < i
    OBVIOUS
  <2>4. QED  BY <2>1, <2>2, <2>3
<1>3. Cardinality(S) = N /\ IsFiniteSet(S)
  <2>1. q \in Bijection(1 .. N, S)
    BY <1>1, <1>2 DEF Ascending, Bijection, Injection, Surjection, IsInjective
  <2>2. ExistsBijection(1 .. N, S)
    BY <2>1 DEF ExistsBijection
  <2>3. QED  BY <2>2, FS_CountingElements, FS_NatBijection
<1>4. SetToSeqs(S) = {f \in [1 .. N -> S] : \A i, j \in 1 .. N : i # j => f[i] # f[j]}
  BY <1>3 DEF SetToSeqs
<1>5. q \in SetToSeqs(S) /\ \A i, j \in DOMAIN q : i < j => q[i] < q[j]
  BY <1>1, <1>2, <1>4 DEF Ascending
<1>6. s \in SetToSeqs(S) /\ \A i, j \in DOMAIN s : i < j => s[i] < s[j]
  BY <1>5
<1>7. s \in [1 .. N -> S] /\ \A i, j \in 1 .. N : i # j => s[i] # s[j]
  BY <1>4, <1>6
<1>8. \A x \in S : \E i \in 1 .. N : s[i] = x
  <2>1. s \in Injection(1 .. N, S)
    <3>1. IsInjective(s)
      <4>1. DOMAIN s = 1 .. N
        BY <1>7
      <4>2. \A i, j \in DOMAIN s : s[i] = s[j] => i = j
        BY <1>7, <4>1
      <4>3. QED  BY <4>2 DEF IsInjective
    <3>2. QED  BY <1>7, <3>1 DEF Injection
  <2>2. IsFiniteSet(1 .. N) /\ Cardinality(1 .. N) = N
    <3>1. 1 \in Int /\ N \in Int
      OBVIOUS
    <3>2. QED  BY <3>1, FS_Interval
  <2>3. s \in Surjection(1 .. N, S)
    BY <1>3, <2>1, <2>2, FS_Injection
  <2>4. QED  BY <2>3 DEF Surjection
<1>9. Ascending(s, N, S)
  <2>1. DOMAIN s = 1 .. N
    BY <1>7
  <2>2. \A i, j \in 1 .. N : i < j => s[i] < s[j]
    BY <1>6, <2>1
  <2>3. QED  BY <1>7, <1>8, <2>2 DEF Ascending
<1>10. QED  BY <1>9

\* What a new session is.
Fresh(s) ==
  /\ s.position = 0 /\ s.history = << >> /\ s.up /\ s.kv = << >>
  /\ s.request = NoMessage /\ s.reply = NoMessage

\* A new session is one.
LEMMA NewSessionFresh ==
  ASSUME NEW server \in Servers, NEW start \in Blocks, NEW end \in 1 .. NumBlocks
  PROVE  /\ NewSession(server, start, end) \in ServerSessions
         /\ NewSession(server, start, end).start = start
         /\ NewSession(server, start, end).end = end
         /\ Fresh(NewSession(server, start, end))
<1>1. << >> \in Seq(Hidden) /\ 0 \in Nat
  OBVIOUS
<1>2. NewSession(server, start, end) \in ServerSessions
  BY <1>1 DEF NewSession, ServerSessions
<1>3. QED  BY <1>2 DEF NewSession, Fresh

\* The blocks of a route at which a span starts.
Starts(f, start) == {b \in DOMAIN f : b = start \/ f[b] # f[b - 1]}

\* The new sessions, by the blocks at which their spans start.
SpansAt(spans, f, s, N, end) ==
  /\ Len(spans) = N
  /\ spans = [i \in 1 .. N |-> NewSession(f[s[i]], s[i], IF i = N THEN end ELSE s[i + 1])]

\* SpansOf makes one for each of these blocks, in ascending order.
LEMMA SpansOfRoute ==
  ASSUME NEW start \in Blocks, NEW end \in 1 .. NumBlocks, start < end,
         NEW f \in Routes(start, end), NEW spans, spans = SpansOf(f, start, end)
  PROVE  \E N \in Nat : \E s : Ascending(s, N, Starts(f, start)) /\ SpansAt(spans, f, s, N, end)
<1> DEFINE S == Starts(f, start)
           s == CHOOSE q \in SetToSeqs(S) : \A i, j \in DOMAIN q : i < j => q[i] < q[j]
           at(i) == NewSession(f[s[i]], s[i], IF i = Len(s) THEN end ELSE s[i + 1])
<1>1. start \in Nat /\ end \in Nat /\ end <= NumBlocks
  BY DEF Blocks
<1>2. f \in [start .. (end - 1) -> Servers]
  BY DEF Routes
<1>3. S \in SUBSET (start .. (end - 1))
  BY <1>1, <1>2 DEF Starts
<1>4. spans = [i \in 1 .. Len(s) |-> at(i)]
  BY DEF SpansOf, Starts
<1> HIDE DEF S
<1>5. PICK N \in Nat : Ascending(s, N, S)
  <2>1. S \in SUBSET (0 .. NumBlocks) /\ NumBlocks \in Nat
    BY <1>1, <1>3
  <2>2. QED  BY <2>1, SortedSet
<1> HIDE DEF s
<1>6. Len(s) = N
  <2>1. s \in [1 .. N -> S]
    BY <1>5 DEF Ascending
  <2>2. s \in Seq(S)
    BY <2>1, FunctionIsSeq
  <2>3. Len(s) \in Nat /\ 1 .. Len(s) = 1 .. N
    BY <2>1, <2>2, LenProperties
  <2>4. QED  BY <2>3, SameLength
<1>7. Len(spans) = N
  <2>1. IsList(spans, N)
    <3> HIDE DEF at
    <3>1. QED  BY <1>4, <1>6 DEF IsList
  <2>2. QED  BY <2>1, ListIsSeq
<1>8. SpansAt(spans, f, s, N, end)
  BY <1>4, <1>6, <1>7 DEF SpansAt
<1>9. QED  BY <1>5, <1>8 DEF S

\* The new sessions are a chain over the blocks they are made for.
LEMMA SpansChain ==
  ASSUME NEW start \in Blocks, NEW end \in 1 .. NumBlocks, start < end,
         NEW f \in Routes(start, end), NEW spans, spans = SpansOf(f, start, end)
  PROVE  /\ spans \in Seq(ServerSessions)
         /\ Chain(spans, start, end)
         /\ \A i \in 1 .. Len(spans) : Fresh(spans[i])
<1> DEFINE S == Starts(f, start)
<1>1. start \in Nat /\ end \in Nat /\ end <= NumBlocks
  BY DEF Blocks
<1>2. f \in [start .. (end - 1) -> Servers]
  BY DEF Routes
<1>3. start \in S /\ S \in SUBSET (start .. (end - 1))
  BY <1>1, <1>2 DEF Starts
<1> HIDE DEF S
<1>4. PICK N \in Nat : \E s : Ascending(s, N, S) /\ SpansAt(spans, f, s, N, end)
  BY SpansOfRoute DEF S
<1>5. PICK s : Ascending(s, N, S) /\ SpansAt(spans, f, s, N, end)
  BY <1>4
<1> DEFINE to(i) == IF i = N THEN end ELSE s[i + 1]
<1>6. spans = [i \in 1 .. N |-> NewSession(f[s[i]], s[i], to(i))] /\ Len(spans) = N
  BY <1>5 DEF SpansAt
<1>7. PICK first \in 1 .. N : s[first] = start
  BY <1>3, <1>5 DEF Ascending
<1>8. \A i \in 1 .. N : s[i] \in start .. (end - 1)
  BY <1>3, <1>5 DEF Ascending
<1>9. \A i, j \in 1 .. N : i < j => s[i] < s[j]
  BY <1>5 DEF Ascending
<1>10. N \in Nat \ {0} /\ 1 \in 1 .. N /\ N \in 1 .. N
  BY <1>7
<1>11. s[1] = start
  <2>1. first = 1 \/ 1 < first
    BY <1>7
  <2>2. s[1] \in start .. (end - 1) /\ (1 < first => s[1] < start)
    BY <1>7, <1>8, <1>9, <1>10
  <2>3. QED  BY <1>1, <1>7, <2>1, <2>2
<1>12. ASSUME NEW i \in 1 .. N
       PROVE  /\ f[s[i]] \in Servers /\ s[i] \in Blocks /\ to(i) \in 1 .. NumBlocks /\ s[i] < to(i)
              /\ i = N => to(i) = end
              /\ i # N => to(i) = s[i + 1]
  <2>1. s[i] \in start .. (end - 1)
    BY <1>8
  <2>2. f[s[i]] \in Servers /\ s[i] \in Blocks
    BY <1>1, <1>2, <2>1 DEF Blocks
  <2>3. CASE i = N
    BY <1>1, <1>6, <2>1, <2>2, <2>3
  <2>4. CASE i # N
    <3>1. i + 1 \in 1 .. N /\ i < i + 1
      BY <2>4
    <3>2. s[i + 1] \in start .. (end - 1) /\ s[i] < s[i + 1]
      BY <1>8, <1>9, <3>1
    <3>3. to(i) = s[i + 1]
      BY <1>6, <2>4
    <3>4. s[i + 1] \in 1 .. NumBlocks
      BY <1>1, <2>1, <3>2
    <3>5. QED  BY <2>2, <2>4, <3>2, <3>3, <3>4
  <2>5. QED  BY <2>3, <2>4
<1> HIDE DEF to
<1> DEFINE at(i) == NewSession(f[s[i]], s[i], to(i))
<1>13. ASSUME NEW i \in 1 .. N
       PROVE  at(i) \in ServerSessions /\ at(i).start = s[i] /\ at(i).end = to(i) /\ Fresh(at(i))
  BY <1>12, NewSessionFresh
<1>14. spans = [i \in 1 .. N |-> at(i)]
  BY <1>6
<1> HIDE DEF at
<1>15. spans \in Seq(ServerSessions) /\ Len(spans) = N
  <2>1. spans \in [1 .. N -> ServerSessions]
    BY <1>13, <1>14
  <2>2. QED  BY <1>6, <2>1, FunctionIsSeq
<1>16. \A i \in 1 .. N : spans[i].start = s[i] /\ spans[i].end = to(i) /\ Fresh(spans[i])
  BY <1>13, <1>14
<1>17. Chain(spans, start, end)
  <2>1. spans # << >>
    BY <1>10, <1>15
  <2>2. spans[1].start = start /\ spans[N].end = end
    BY <1>10, <1>11, <1>12, <1>16
  <2>3. \A i \in 1 .. N : spans[i].start < spans[i].end
    BY <1>12, <1>16
  <2>4. ASSUME NEW i \in 1 .. (N - 1)
        PROVE  spans[i].end = spans[i + 1].start
    <3>1. i \in 1 .. N /\ i # N /\ i + 1 \in 1 .. N
      OBVIOUS
    <3>2. spans[i].end = to(i) /\ spans[i + 1].start = s[i + 1] /\ to(i) = s[i + 1]
      BY <1>12, <1>16, <3>1
    <3>3. QED  BY <3>2
  <2>5. QED  BY <1>15, <2>1, <2>2, <2>3, <2>4 DEF Chain
<1>18. QED  BY <1>15, <1>16, <1>17

\* The server of a session holds its blocks.
Serving(s) == s.start .. (s.end - 1) \subseteq Serves[s.server]

\* The servers of the new sessions hold their blocks: a span goes on as long as the route
\* stays on one server.
LEMMA SpansServe ==
  ASSUME NEW start \in Blocks, NEW end \in 1 .. NumBlocks, start < end,
         NEW f \in Routes(start, end), NEW spans, spans = SpansOf(f, start, end)
  PROVE  \A i \in 1 .. Len(spans) : Serving(spans[i])
<1> DEFINE S == Starts(f, start)
<1>1. start \in Nat /\ end \in Nat
  BY DEF Blocks
<1>2. f \in [start .. (end - 1) -> Servers] /\ \A b \in start .. (end - 1) : b \in Serves[f[b]]
  BY DEF Routes
<1>3. /\ \A b \in S : b \in start .. (end - 1)
      /\ \A b \in (start + 1) .. (end - 1) : b \notin S => f[b] = f[b - 1]
  BY <1>1, <1>2 DEF Starts
<1> HIDE DEF S
<1>4. PICK N \in Nat : \E s : Ascending(s, N, S) /\ SpansAt(spans, f, s, N, end)
  BY SpansOfRoute DEF S
<1>5. PICK s : Ascending(s, N, S) /\ SpansAt(spans, f, s, N, end)
  BY <1>4
<1> SUFFICES ASSUME NEW i \in 1 .. N  PROVE Serving(spans[i])
  BY <1>5 DEF SpansAt
<1> DEFINE a == s[i]
           z == IF i = N THEN end ELSE s[i + 1]
<1>6. spans[i] = NewSession(f[a], a, z)
  BY <1>5 DEF SpansAt
<1>7. \A j \in 1 .. N : s[j] \in S /\ s[j] \in start .. (end - 1)
  BY <1>3, <1>5 DEF Ascending
<1>8. i # N => i + 1 \in 1 .. N
  OBVIOUS
<1>9. a \in start .. (end - 1) /\ z \in Nat /\ z <= end
  BY <1>1, <1>7, <1>8
<1>10. ASSUME NEW c \in S, a < c
       PROVE  z <= c
  <2>1. PICK j \in 1 .. N : s[j] = c
    BY <1>5 DEF Ascending
  <2>2. \A g, h \in 1 .. N : g < h => s[g] < s[h]
    BY <1>5 DEF Ascending
  <2>3. c \in Nat
    BY <1>1, <1>3
  <2>4. i < j
    <3>1. j < i => c < a
      BY <2>1, <2>2
    <3>2. j = i => c = a
      BY <2>1
    <3>3. QED  BY <1>9, <1>10, <2>3, <3>1, <3>2
  <2>5. i # N /\ z = s[i + 1]
    BY <2>4
  <2>6. i + 1 = j \/ i + 1 < j
    BY <2>4
  <2>7. QED  BY <1>7, <1>8, <2>1, <2>2, <2>3, <2>5, <2>6
<1> HIDE DEF a, z
<1>11. ASSUME NEW b \in a .. (z - 1)
       PROVE  f[b] = f[a]
  <2> DEFINE n == b - a
             T == {d \in 0 .. n : f[a + d] = f[a]}
  <2>1. n \in Nat /\ a + n = b
    BY <1>9
  <2>2. 0 \in T
    <3>1. a + 0 = a
      BY <1>9
    <3>2. QED  BY <2>1, <3>1
  <2>3. ASSUME NEW d \in 0 .. (n - 1), d \in T
        PROVE  d + 1 \in T
    <3> DEFINE c == a + (d + 1)
    <3>1. /\ c \in (start + 1) .. (end - 1) /\ c - 1 = a + d /\ a < c /\ ~(z <= c)
          /\ d + 1 \in 0 .. n
      BY <1>1, <1>9, <2>1
    <3> HIDE DEF c
    <3>2. c \notin S
      BY <1>10, <3>1
    <3>3. f[c] = f[a + d]
      BY <1>3, <3>1, <3>2
    <3>4. f[a + d] = f[a]
      BY <2>3
    <3>5. QED  BY <3>1, <3>3, <3>4 DEF c
  <2>4. 0 .. n \subseteq T
    <3> HIDE DEF T, n
    <3>1. QED  BY <2>1, <2>2, <2>3, NumbersByInduction
  <2>5. n \in 0 .. n
    BY <2>1
  <2>6. QED  BY <2>1, <2>4, <2>5
<1>12. \A b \in a .. (z - 1) : b \in Serves[f[a]]
  <2> TAKE b \in a .. (z - 1)
  <2>1. b \in start .. (end - 1)
    BY <1>1, <1>9
  <2>2. QED  BY <1>2, <1>11, <2>1
<1>13. spans[i].start = a /\ spans[i].end = z /\ spans[i].server = f[a]
  BY <1>6 DEF NewSession
<1>14. QED  BY <1>12, <1>13 DEF Serving

--------------------------------------------------------------------------------
(* Lists of sessions *)

\* The fields of a session.
LEMMA SessionFields ==
  ASSUME NEW s \in ServerSessions
  PROVE  /\ s.server \in Servers /\ s.start \in Blocks /\ s.end \in 1 .. NumBlocks
         /\ s.position \in Nat /\ s.history \in Seq(Hidden) /\ s.kv \in Seq(Hidden)
         /\ s.stepped \in BOOLEAN /\ s.up \in BOOLEAN
         /\ s.request \in Requests \cup {NoMessage} /\ s.reply \in Seq(Hidden) \cup {NoMessage}
         /\ s.start \in 0 .. NumBlocks /\ s.end \in 0 .. NumBlocks
BY DEF ServerSessions, Blocks

\* One session of a list is exchanged.
LEMMA OneChanged ==
  ASSUME NEW list \in Seq(ServerSessions), NEW k \in 1 .. Len(list),
         NEW s \in ServerSessions, NEW new2, new2 = [list EXCEPT ![k] = s]
  PROVE  /\ new2 \in Seq(ServerSessions) /\ Len(new2) = Len(list)
         /\ new2[k] = s
         /\ \A i \in 1 .. Len(list) : i # k => new2[i] = list[i]
<1>1. /\ [list EXCEPT ![k] = s] \in Seq(ServerSessions)
      /\ Len([list EXCEPT ![k] = s]) = Len(list)
      /\ \A j \in 1 .. Len(list) : [list EXCEPT ![k] = s][j] = IF j = k THEN s ELSE list[j]
  BY ExceptSeq
<1>2. QED  BY <1>1

\* The spans of two lists are the same.
SameSpans(list, old) ==
  /\ Len(list) = Len(old)
  /\ \A i \in 1 .. Len(old) : list[i].start = old[i].start /\ list[i].end = old[i].end

\* A list with the same spans is a chain too.
LEMMA SameChain ==
  ASSUME NEW old \in Seq(ServerSessions), NEW list \in Seq(ServerSessions),
         SameSpans(list, old), NEW from, NEW to, Chain(old, from, to)
  PROVE  Chain(list, from, to)
<1>1. old # << >> /\ Len(old) \in Nat \ {0} /\ Len(list) = Len(old)
  BY EmptySeq DEF Chain, SameSpans
<1>2. list # << >>
  BY <1>1, EmptySeq
<1>3. \A i \in 1 .. Len(old) : list[i].start = old[i].start /\ list[i].end = old[i].end
  BY DEF SameSpans
<1>4. 1 \in 1 .. Len(old) /\ Len(old) \in 1 .. Len(old)
  BY <1>1
<1>5. list[1].start = from /\ list[Len(list)].end = to
  BY <1>1, <1>3, <1>4 DEF Chain
<1>6. \A i \in 1 .. Len(list) : list[i].start < list[i].end
  BY <1>1, <1>3 DEF Chain
<1>7. \A i \in 1 .. (Len(list) - 1) : list[i].end = list[i + 1].start
  <2> TAKE i \in 1 .. (Len(list) - 1)
  <2>1. i \in 1 .. Len(old) /\ i + 1 \in 1 .. Len(old) /\ i \in 1 .. (Len(old) - 1)
    BY <1>1
  <2>2. old[i].end = old[i + 1].start
    BY <2>1 DEF Chain
  <2>3. QED  BY <1>3, <2>1, <2>2
<1>8. QED  BY <1>2, <1>5, <1>6, <1>7 DEF Chain

\* Where a session of the chain starts and ends.
LEMMA ChainFacts ==
  ASSUME NEW list \in Seq(ServerSessions), Chain(list, 0, NumBlocks), NEW k \in 1 .. Len(list)
  PROVE  /\ list[k].start = IF k = 1 THEN 0 ELSE list[k - 1].end
         /\ list[k].end < NumBlocks <=> k < Len(list)
         /\ list[k].start < list[k].end
         /\ k < Len(list) => list[k + 1].start = list[k].end
<1>1. Len(list) \in Nat
  BY LenProperties
<1>2. k # 1 => k - 1 \in 1 .. (Len(list) - 1) /\ (k - 1) + 1 = k
  BY <1>1
<1>3. list[k].start = IF k = 1 THEN 0 ELSE list[k - 1].end
  <2>1. CASE k = 1
    BY <2>1 DEF Chain
  <2>2. CASE k # 1
    <3> DEFINE j == k - 1
    <3>1. j \in 1 .. (Len(list) - 1) /\ j + 1 = k
      BY <1>2, <2>2
    <3> HIDE DEF j
    <3>2. list[j].end = list[k].start
      BY <3>1 DEF Chain
    <3>3. QED  BY <2>2, <3>2 DEF j
  <2>3. QED  BY <2>1, <2>2
<1>4. list[k].start < list[k].end
  BY DEF Chain
<1>5. k < Len(list) => list[k + 1].start = list[k].end
  <2>1. k < Len(list) => k \in 1 .. (Len(list) - 1)
    BY <1>1
  <2>2. QED  BY <2>1 DEF Chain
<1>6. k < Len(list) => list[k].end < NumBlocks
  <2> HAVE k < Len(list)
  <2> DEFINE j == k + 1
  <2>1. j \in 1 .. Len(list)
    BY <1>1
  <2>2. list[j].start = list[k].end
    BY <1>5
  <2> HIDE DEF j
  <2>3. list[j].start < list[j].end
    BY <2>1 DEF Chain
  <2>4. list[j] \in ServerSessions
    BY <2>1, ElementOfSeq
  <2>5. list[j].start \in 0 .. NumBlocks /\ list[j].end \in 0 .. NumBlocks
    BY <2>4, SessionFields
  <2>6. QED  BY <2>2, <2>3, <2>5
<1>7. ~(k < Len(list)) => list[k].end = NumBlocks
  <2>1. ~(k < Len(list)) => k = Len(list)
    BY <1>1
  <2>2. QED  BY <2>1 DEF Chain
<1>8. QED  BY <1>3, <1>4, <1>5, <1>6, <1>7

\* What Replace returns.
LEMMA ReplaceFacts ==
  ASSUME NEW list \in Seq(ServerSessions), NEW items \in Seq(ServerSessions), items # << >>,
         NEW k \in 1 .. Len(list), NEW r, r = Replace(list, k, items)
  PROVE  /\ r \in Seq(ServerSessions) /\ Len(r) = Len(list) - 1 + Len(items)
         /\ \A i \in 1 .. (k - 1) : r[i] = list[i]
         /\ \A i \in 1 .. Len(items) : r[k - 1 + i] = items[i]
         /\ \A i \in (k + 1) .. Len(list) : r[i - 1 + Len(items)] = list[i]
<1> DEFINE L == Len(list)
           m == Len(items)
           a == SubSeq(list, 1, k - 1)
           c == SubSeq(list, k + 1, L)
<1>1. L \in Nat /\ m \in Nat /\ m # 0 /\ \A i \in 1 .. L : list[i] \in ServerSessions
  BY LenProperties, ElementOfSeq, EmptySeq
<1> HIDE DEF L, m
<1>2. k \in 1 .. L
  BY DEF L
<1>3. a \in Seq(ServerSessions) /\ Len(a) = k - 1 /\ \A i \in 1 .. (k - 1) : a[i] = list[i]
  <2> DEFINE n == k - 1
  <2>1. 1 \in Int /\ n \in Int /\ n \in Nat /\ (1 <= n => n - 1 + 1 = n) /\ (~(1 <= n) => n = 0)
        /\ \A i \in 1 .. n : i \in 1 .. L
    BY <1>1, <1>2
  <2>2. \A i \in 1 .. n : list[i] \in ServerSessions
    BY <1>1, <2>1
  <2> HIDE DEF n
  <2>3. /\ SubSeq(list, 1, n) \in Seq(ServerSessions)
        /\ Len(SubSeq(list, 1, n)) = IF 1 <= n THEN n - 1 + 1 ELSE 0
        /\ \A i \in 1 .. n - 1 + 1 : SubSeq(list, 1, n)[i] = list[1 + i - 1]
    BY <2>1, <2>2, SubSeqProperties
  <2>4. \A i \in 1 .. n : i \in 1 .. n - 1 + 1 /\ 1 + i - 1 = i
    BY <2>1
  <2>5. QED  BY <2>1, <2>3, <2>4 DEF n
<1>4. c \in Seq(ServerSessions) /\ Len(c) = L - k /\ \A i \in 1 .. (L - k) : c[i] = list[k + i]
  <2> DEFINE n == k + 1
  <2>1. n \in Int /\ L \in Int /\ L - n + 1 = L - k /\ (~(n <= L) => L - k = 0)
        /\ \A i \in n .. L : i \in 1 .. L
    BY <1>1, <1>2
  <2>2. \A i \in n .. L : list[i] \in ServerSessions
    BY <1>1, <2>1
  <2>3. \A i \in 1 .. (L - k) : n + i - 1 = k + i
    BY <1>1, <1>2
  <2> HIDE DEF n
  <2>4. /\ SubSeq(list, n, L) \in Seq(ServerSessions)
        /\ Len(SubSeq(list, n, L)) = IF n <= L THEN L - n + 1 ELSE 0
        /\ \A i \in 1 .. L - n + 1 : SubSeq(list, n, L)[i] = list[n + i - 1]
    BY <2>1, <2>2, SubSeqProperties
  <2>5. QED  BY <2>1, <2>3, <2>4 DEF n
<1> HIDE DEF a, c
<1>5. r = (a \o items) \o c
  BY DEF Replace, a, c, L
<1> DEFINE b == a \o items
<1>6. /\ b \in Seq(ServerSessions) /\ Len(b) = (k - 1) + m
      /\ \A i \in 1 .. (k - 1) + m : b[i] = IF i <= k - 1 THEN a[i] ELSE items[i - (k - 1)]
  <2>1. /\ b \in Seq(ServerSessions) /\ Len(b) = Len(a) + Len(items)
        /\ \A i \in 1 .. Len(a) + Len(items) : b[i] = IF i <= Len(a) THEN a[i] ELSE items[i - Len(a)]
    BY <1>3, ConcatProperties
  <2> HIDE DEF b
  <2>2. QED  BY <1>3, <2>1 DEF m
<1> HIDE DEF b
<1>7. /\ r \in Seq(ServerSessions) /\ Len(r) = ((k - 1) + m) + (L - k)
      /\ \A i \in 1 .. ((k - 1) + m) + (L - k) :
           r[i] = IF i <= (k - 1) + m THEN b[i] ELSE c[i - ((k - 1) + m)]
  <2>1. /\ b \o c \in Seq(ServerSessions) /\ Len(b \o c) = Len(b) + Len(c)
        /\ \A i \in 1 .. Len(b) + Len(c) : (b \o c)[i] = IF i <= Len(b) THEN b[i] ELSE c[i - Len(b)]
    <3>1. b \in Seq(ServerSessions) /\ c \in Seq(ServerSessions)
      BY <1>4, <1>6
    <3>2. \A U : U = b \o c =>
            /\ U \in Seq(ServerSessions) /\ Len(U) = Len(b) + Len(c)
            /\ \A i \in 1 .. Len(b) + Len(c) : U[i] = IF i <= Len(b) THEN b[i] ELSE c[i - Len(b)]
      BY <3>1, ConcatProperties
    <3>3. QED  BY <3>2
  <2>2. r = b \o c
    BY <1>5 DEF b
  <2>3. QED  BY <1>4, <1>6, <2>1, <2>2
<1>8. ASSUME NEW i \in 1 .. (k - 1)
      PROVE  r[i] = list[i]
  <2>1. i \in 1 .. (k - 1) + m /\ i \in 1 .. ((k - 1) + m) + (L - k) /\ i <= k - 1 /\ i <= (k - 1) + m
    BY <1>1, <1>2
  <2>2. r[i] = b[i] /\ b[i] = a[i] /\ a[i] = list[i]
    BY <1>3, <1>6, <1>7, <2>1
  <2>3. QED  BY <2>2
<1>9. ASSUME NEW i \in 1 .. m
      PROVE  r[k - 1 + i] = items[i]
  <2> DEFINE j == k - 1 + i
  <2>1. /\ j \in 1 .. (k - 1) + m /\ j \in 1 .. ((k - 1) + m) + (L - k)
        /\ ~(j <= k - 1) /\ j <= (k - 1) + m /\ j - (k - 1) = i
    BY <1>1, <1>2
  <2> HIDE DEF j
  <2>2. r[j] = b[j] /\ b[j] = items[j - (k - 1)]
    BY <1>6, <1>7, <2>1
  <2>3. QED  BY <2>1, <2>2 DEF j
<1>10. ASSUME NEW i \in (k + 1) .. L
       PROVE  r[i - 1 + m] = list[i]
  <2> DEFINE j == i - 1 + m
             h == i - k
  <2>1. /\ j \in 1 .. ((k - 1) + m) + (L - k) /\ ~(j <= (k - 1) + m)
        /\ j - ((k - 1) + m) = h /\ h \in 1 .. (L - k) /\ k + h = i
    BY <1>1, <1>2
  <2> HIDE DEF j, h
  <2>2. r[j] = c[j - ((k - 1) + m)] /\ c[h] = list[k + h]
    BY <1>4, <1>7, <2>1
  <2>3. QED  BY <2>1, <2>2 DEF j
<1>11. ((k - 1) + m) + (L - k) = L - 1 + m
  BY <1>1, <1>2
<1>12. QED  BY <1>7, <1>8, <1>9, <1>10, <1>11 DEF L, m

\* A chain whose place is taken by another one over the same blocks.
LEMMA ReplaceChain ==
  ASSUME NEW list \in Seq(ServerSessions), NEW items \in Seq(ServerSessions),
         NEW k \in 1 .. Len(list), Chain(list, 0, NumBlocks),
         Chain(items, list[k].start, list[k].end)
  PROVE  Chain(Replace(list, k, items), 0, NumBlocks)
<1> DEFINE r == Replace(list, k, items)
           L == Len(list)
           m == Len(items)
<1>1. L \in Nat /\ m \in Nat /\ m # 0 /\ items # << >>
  BY LenProperties, EmptySeq DEF Chain
<1>2. /\ r \in Seq(ServerSessions) /\ Len(r) = L - 1 + m
      /\ \A i \in 1 .. (k - 1) : r[i] = list[i]
      /\ \A i \in 1 .. m : r[k - 1 + i] = items[i]
      /\ \A i \in (k + 1) .. L : r[i - 1 + m] = list[i]
  <2>1. \A z : z = Replace(list, k, items) =>
          /\ z \in Seq(ServerSessions) /\ Len(z) = Len(list) - 1 + Len(items)
          /\ \A i \in 1 .. (k - 1) : z[i] = list[i]
          /\ \A i \in 1 .. Len(items) : z[k - 1 + i] = items[i]
          /\ \A i \in (k + 1) .. Len(list) : z[i - 1 + Len(items)] = list[i]
    BY <1>1, ReplaceFacts
  <2>2. QED  BY <2>1
<1>3. /\ list[1].start = 0 /\ list[L].end = NumBlocks
      /\ \A i \in 1 .. L : list[i].start < list[i].end
      /\ \A i \in 1 .. (L - 1) : list[i].end = list[i + 1].start
  BY DEF Chain
<1>4. /\ items[1].start = list[k].start /\ items[m].end = list[k].end
      /\ \A i \in 1 .. m : items[i].start < items[i].end
      /\ \A i \in 1 .. (m - 1) : items[i].end = items[i + 1].start
  BY DEF Chain
<1>5. k \in 1 .. L
  OBVIOUS
<1> HIDE DEF r, L, m
<1>6. r # << >>
  BY <1>1, <1>2, <1>5, EmptySeq
<1>7. /\ r[k] = items[1] /\ r[k - 1 + m] = items[m]
      /\ 1 \in 1 .. m /\ m \in 1 .. m /\ k - 1 + 1 = k
  <2>1. 1 \in 1 .. m /\ m \in 1 .. m /\ k - 1 + 1 = k
    BY <1>1
  <2>2. QED  BY <1>2, <2>1
<1>8. r[1].start = 0
  <2>1. CASE k = 1
    BY <1>3, <1>4, <1>7, <2>1
  <2>2. CASE k # 1
    <3>1. 1 \in 1 .. (k - 1)
      BY <2>2
    <3>2. QED  BY <1>2, <1>3, <3>1
  <2>3. QED  BY <2>1, <2>2
<1>9. r[Len(r)].end = NumBlocks
  <2>1. CASE k = L
    <3>1. Len(r) = k - 1 + m
      BY <1>2, <2>1
    <3>2. QED  BY <1>3, <1>4, <1>7, <2>1, <3>1
  <2>2. CASE k # L
    <3>1. L \in (k + 1) .. L
      BY <1>1, <1>5, <2>2
    <3>2. r[L - 1 + m] = list[L]
      BY <1>2, <3>1
    <3>3. QED  BY <1>2, <1>3, <3>2
  <2>3. QED  BY <2>1, <2>2
<1>10. ASSUME NEW i \in 1 .. Len(r)
       PROVE  \/ i \in 1 .. (k - 1)
              \/ \E j \in 1 .. m : i = k - 1 + j
              \/ \E j \in (k + 1) .. L : i = j - 1 + m
  <2>1. CASE i < k
    BY <2>1
  <2>2. CASE i >= k /\ i <= k - 1 + m
    <3>1. i - (k - 1) \in 1 .. m /\ i = k - 1 + (i - (k - 1))
      BY <1>1, <2>2
    <3>2. QED  BY <3>1
  <2>3. CASE i > k - 1 + m
    <3>1. i <= L - 1 + m
      BY <1>2
    <3>2. i + 1 - m \in (k + 1) .. L /\ i = (i + 1 - m) - 1 + m
      BY <1>1, <1>5, <2>3, <3>1
    <3>3. QED  BY <3>2
  <2>4. QED  BY <1>1, <2>1, <2>2, <2>3
<1>11. ASSUME NEW i \in 1 .. Len(r)
       PROVE  r[i].start < r[i].end
  <2>1. CASE i \in 1 .. (k - 1)
    <3>1. i \in 1 .. L
      BY <1>1, <1>5, <2>1
    <3>2. QED  BY <1>2, <1>3, <2>1, <3>1
  <2>2. CASE \E j \in 1 .. m : i = k - 1 + j
    BY <1>2, <1>4, <2>2
  <2>3. CASE \E j \in (k + 1) .. L : i = j - 1 + m
    <3>1. PICK j \in (k + 1) .. L : i = j - 1 + m
      BY <2>3
    <3>2. j \in 1 .. L
      BY <1>1, <1>5, <3>1
    <3>3. r[i] = list[j]
      BY <1>2, <3>1
    <3>4. QED  BY <1>3, <3>2, <3>3
  <2>4. QED  BY <1>10, <2>1, <2>2, <2>3
<1>12. ASSUME NEW i \in 1 .. (Len(r) - 1)
       PROVE  r[i].end = r[i + 1].start
  <2>0. i \in 1 .. Len(r) /\ i + 1 \in 1 .. Len(r) /\ i < L - 1 + m
    <3>1. Len(r) = L - 1 + m
      BY <1>2
    <3>2. Len(r) \in Nat
      BY <1>1, <3>1, <1>5
    <3>3. QED  BY <3>1, <3>2
  <2>1. CASE i \in 1 .. (k - 1)
    <3>0. i \in 1 .. (L - 1)
      BY <1>1, <1>5, <2>1
    <3>1. r[i] = list[i]
      BY <1>2, <2>1
    <3>2. list[i].end = list[i + 1].start
      BY <1>3, <3>0
    <3>3. CASE i + 1 = k
      BY <1>4, <1>7, <3>1, <3>2, <3>3
    <3>4. CASE i + 1 # k
      <4>1. i + 1 \in 1 .. (k - 1)
        BY <2>1, <3>4
      <4>2. QED  BY <1>2, <3>1, <3>2, <4>1
    <3>5. QED  BY <3>3, <3>4
  <2>2. CASE \E j \in 1 .. m : i = k - 1 + j
    <3>1. PICK j \in 1 .. m : i = k - 1 + j
      BY <2>2
    <3>2. r[i] = items[j]
      BY <1>2, <3>1
    <3>3. CASE j # m
      <4>1. j \in 1 .. (m - 1) /\ j + 1 \in 1 .. m /\ i + 1 = k - 1 + (j + 1)
        BY <1>1, <3>1, <3>3
      <4>2. r[i + 1] = items[j + 1]
        BY <1>2, <4>1
      <4>3. QED  BY <1>4, <3>2, <4>1, <4>2
    <3>4. CASE j = m
      <4>1. k + 1 \in (k + 1) .. L /\ i + 1 = (k + 1) - 1 + m /\ k \in 1 .. (L - 1)
        BY <1>1, <1>5, <2>0, <3>1, <3>4
      <4>2. r[i + 1] = list[k + 1]
        BY <1>2, <4>1
      <4>3. QED  BY <1>3, <1>4, <3>2, <3>4, <4>1, <4>2
    <3>5. QED  BY <3>3, <3>4
  <2>3. CASE \E j \in (k + 1) .. L : i = j - 1 + m
    <3>1. PICK j \in (k + 1) .. L : i = j - 1 + m
      BY <2>3
    <3>2. j \in 1 .. (L - 1) /\ j + 1 \in (k + 1) .. L /\ i + 1 = (j + 1) - 1 + m
      BY <1>1, <1>5, <2>0, <3>1
    <3>3. r[i] = list[j] /\ r[i + 1] = list[j + 1]
      BY <1>2, <3>1, <3>2
    <3>4. QED  BY <1>3, <3>2, <3>3
  <2>4. QED  BY <1>10, <2>0, <2>1, <2>2, <2>3
<1>13. QED
  <2>1. Chain(r, 0, NumBlocks)
    BY <1>6, <1>8, <1>9, <1>11, <1>12 DEF Chain
  <2>2. QED  BY <2>1 DEF r

--------------------------------------------------------------------------------
(* Sessions that end *)

\* What is left of a session when the server's part has ended.
LEMMA EndedFacts ==
  ASSUME NEW s \in ServerSessions, NEW e, e = Ended(s)
  PROVE  /\ e \in ServerSessions /\ Silent(e) /\ ~e.up
         /\ e.start = s.start /\ e.end = s.end /\ e.position = s.position
         /\ e.history = s.history /\ e.stepped = s.stepped
<1>1. << >> \in Seq(Hidden)
  OBVIOUS
<1>2. e \in ServerSessions
  BY <1>1 DEF Ended, ServerSessions
<1>3. QED  BY <1>2 DEF Ended, Silent, ServerSessions

\* It is as far as it was.
LEMMA EndedKinds ==
  ASSUME NEW s \in ServerSessions, NEW e, e = Ended(s), NEW T, NEW N, NEW at
  PROVE  /\ Resting(s, T) => Resting(e, T)
         /\ Passed(s, T, N) => Passed(e, T, N)
         /\ InTurn(s, T, N, at) => InTurn(e, T, N, at)
<1>1. /\ Silent(e) /\ ~e.up /\ e.start = s.start /\ e.position = s.position
      /\ e.history = s.history /\ e.stepped = s.stepped
  BY EndedFacts
<1>2. Resting(s, T) => Resting(e, T)
  BY <1>1 DEF Resting, Holds
<1>3. Passed(s, T, N) => Passed(e, T, N)
  BY <1>1 DEF Passed, Holds
<1>4. InTurn(s, T, N, at) => InTurn(e, T, N, at)
  BY <1>1 DEF InTurn, Holds, Silent
<1>5. QED  BY <1>2, <1>3, <1>4

\* A session in turn that nothing is asked of can be replaced.
LEMMA SilentTurn ==
  ASSUME NEW s, NEW T, NEW N, NEW at, InTurn(s, T, N, at), Silent(s)
  PROVE  InTurn(s, T, N, "routing")
BY DEF InTurn, Silent

\* Some of the sessions have ended.
SomeEnded(list, old) ==
  /\ Len(list) = Len(old)
  /\ \A i \in 1 .. Len(old) : list[i] = old[i] \/ list[i] = Ended(old[i])

\* The sessions that have ended were sessions, with the same spans.
LEMMA SomeEndedFacts ==
  ASSUME NEW old \in Seq(ServerSessions), NEW list \in Seq(ServerSessions), SomeEnded(list, old)
  PROVE  /\ SameSpans(list, old)
         /\ list = << >> <=> old = << >>
         /\ \A i \in 1 .. Len(old) :
              /\ old[i] \in ServerSessions
              /\ list[i].position = old[i].position
              /\ list[i] = old[i] \/ Silent(list[i])
<1>1. Len(list) = Len(old) /\ \A i \in 1 .. Len(old) : list[i] = old[i] \/ list[i] = Ended(old[i])
  BY DEF SomeEnded
<1>2. ASSUME NEW i \in 1 .. Len(old)
      PROVE  /\ old[i] \in ServerSessions
             /\ list[i].start = old[i].start /\ list[i].end = old[i].end
             /\ list[i].position = old[i].position
             /\ list[i] = old[i] \/ Silent(list[i])
  <2>1. old[i] \in ServerSessions
    BY ElementOfSeq
  <2>2. list[i] = old[i] \/ list[i] = Ended(old[i])
    BY <1>1
  <2>3. QED  BY <2>1, <2>2, EndedFacts
<1>3. list = << >> <=> old = << >>
  BY <1>1, EmptySeq
<1>4. QED  BY <1>1, <1>2, <1>3 DEF SameSpans

\* Between steps, sessions may end.
LEMMA EndedAtRest ==
  ASSUME NEW old \in Seq(ServerSessions), NEW list \in Seq(ServerSessions), SomeEnded(list, old),
         NEW T, AtRest(T, old)
  PROVE  AtRest(T, list)
<1>1. ASSUME NEW i \in 1 .. Len(old)
      PROVE  Resting(list[i], T)
  <2>1. Resting(old[i], T) /\ old[i] \in ServerSessions
    BY SomeEndedFacts DEF AtRest
  <2>2. list[i] = old[i] \/ list[i] = Ended(old[i])
    BY DEF SomeEnded
  <2>3. QED  BY <2>1, <2>2, EndedKinds
<1>2. Len(list) = Len(old) /\ (list = << >> <=> old = << >>)
  BY SomeEndedFacts DEF SomeEnded
<1>3. QED  BY <1>1, <1>2 DEF AtRest

\* During a step sessions may end, and the one in turn be found to have failed.
LEMMA EndedStuck ==
  ASSUME NEW old \in Seq(ServerSessions), NEW list \in Seq(ServerSessions), SomeEnded(list, old),
         NEW T, NEW k, NEW at, Stuck(at, T, k, old), NEW at2, at2 = at \/ at2 = "routing"
  PROVE  Stuck(at2, T, k, list)
<1>1. /\ Len(list) = Len(old)
      /\ \A i \in 1 .. Len(old) : /\ list[i].position = old[i].position
                                  /\ list[i] = old[i] \/ Silent(list[i])
  BY SomeEndedFacts DEF SomeEnded
<1>2. QED  BY <1>1 DEF Stuck

\* The same when the step goes on.
LEMMA EndedWorking ==
  ASSUME NEW old \in Seq(ServerSessions), NEW list \in Seq(ServerSessions), SomeEnded(list, old),
         NEW T, NEW N, NEW in, NEW k, NEW at, Working(at, T, N, in, k, old),
         NEW at2, at2 = at \/ (at2 = "routing" /\ (old # << >> => Silent(list[k])))
  PROVE  Working(at2, T, N, in, k, list)
<1>1. /\ SameSpans(list, old) /\ Len(list) = Len(old)
      /\ list = << >> <=> old = << >>
      /\ \A i \in 1 .. Len(old) : old[i] \in ServerSessions
  BY SomeEndedFacts DEF SomeEnded
<1>2. CASE old = << >>
  <2>1. BlockBefore(k, list) = BlockBefore(k, old)
    BY <1>2 DEF Working, BlockBefore
  <2>2. QED  BY <1>1, <1>2, <2>1 DEF Working
<1>3. CASE old # << >>
  <2>1. /\ in = StepAt(T, N, BlockBefore(k, old)) /\ k \in 1 .. Len(old)
        /\ \A i \in 1 .. (k - 1) : Passed(old[i], T, N)
        /\ InTurn(old[k], T, N, at)
        /\ \A i \in (k + 1) .. Len(old) : Resting(old[i], T)
    BY <1>3 DEF Working
  <2>2. Len(old) \in Nat
    BY LenProperties
  <2>3. BlockBefore(k, list) = BlockBefore(k, old)
    <3>1. k # 1 => k - 1 \in 1 .. Len(old)
      BY <2>1, <2>2
    <3>2. QED  BY <1>1, <3>1 DEF SameSpans, BlockBefore
  <2>4. ASSUME NEW i \in 1 .. (k - 1)
        PROVE  Passed(list[i], T, N)
    <3>1. i \in 1 .. Len(old)
      BY <2>1, <2>2
    <3>2. old[i] \in ServerSessions /\ (list[i] = old[i] \/ list[i] = Ended(old[i]))
      BY <1>1, <3>1 DEF SomeEnded
    <3>3. QED  BY <2>1, <3>2, EndedKinds
  <2>5. ASSUME NEW i \in (k + 1) .. Len(old)
        PROVE  Resting(list[i], T)
    <3>1. i \in 1 .. Len(old)
      BY <2>1, <2>2
    <3>2. old[i] \in ServerSessions /\ (list[i] = old[i] \/ list[i] = Ended(old[i]))
      BY <1>1, <3>1 DEF SomeEnded
    <3>3. QED  BY <2>1, <3>2, EndedKinds
  <2>6. InTurn(list[k], T, N, at)
    <3>1. old[k] \in ServerSessions /\ (list[k] = old[k] \/ list[k] = Ended(old[k]))
      BY <1>1, <2>1 DEF SomeEnded
    <3>2. QED  BY <2>1, <3>1, EndedKinds
  <2>7. InTurn(list[k], T, N, at2)
    BY <1>3, <2>6, SilentTurn
  <2>8. QED  BY <1>1, <1>3, <2>1, <2>3, <2>4, <2>5, <2>7 DEF Working
<1>4. QED  BY <1>2, <1>3

\* Sessions end and nothing else changes, or the client turns to a new route.
LEMMA SomeEndKeeps ==
  ASSUME InferenceInv, UNCHANGED clientVars,
         sessions' \in Seq(ServerSessions), SomeEnded(sessions', sessions),
         \/ phase' = phase
         \/ /\ phase \in {"stepping", "awaiting"} /\ phase' = "routing"
            /\ sessions # << >> => Silent(sessions'[server_idx])
  PROVE  InferenceInv'
<1>1. /\ tokens' = tokens /\ new' = new /\ inputs' = inputs /\ server_idx' = server_idx
      /\ outputs' = outputs
  BY DEF clientVars
<1>2. InferenceTypes /\ Progress /\ OutputsRight
  BY DEF InferenceInv
<1>3. InferenceTypes'
  BY <1>1, <1>2 DEF InferenceTypes
<1>4. OutputsRight'
  BY <1>1, <1>2 DEF OutputsRight
<1>5. sessions \in Seq(ServerSessions)
  BY <1>2 DEF InferenceTypes
<1>6. SameSpans(sessions', sessions) /\ (sessions' = << >> <=> sessions = << >>)
  BY <1>5, SomeEndedFacts
<1>7. sessions' # << >> => Chain(sessions', 0, NumBlocks)
  BY <1>2, <1>5, <1>6, SameChain DEF Progress
<1>8. phase' = "idle" => AtRest(tokens', sessions')
  BY <1>1, <1>2, <1>5, EndedAtRest DEF Progress
<1>9. phase' = "closed" => sessions' = << >>
  BY <1>2, <1>6 DEF Progress
<1>10. ASSUME Busy'
       PROVE  /\ outputs' = << >> /\ new' # << >>
              /\ \/ Stuck(phase', tokens', server_idx', sessions')
                 \/ Working(phase', tokens', new', inputs', server_idx', sessions')
  <2>1. Busy
    BY <1>10 DEF Busy
  <2>2. /\ outputs = << >> /\ new # << >>
        /\ \/ Stuck(phase, tokens, server_idx, sessions)
           \/ Working(phase, tokens, new, inputs, server_idx, sessions)
    BY <1>2, <2>1 DEF Progress
  <2>3. CASE Stuck(phase, tokens, server_idx, sessions)
    <3>1. Stuck(phase', tokens, server_idx, sessions')
      BY <1>5, <2>3, EndedStuck
    <3>2. QED  BY <1>1, <2>2, <3>1
  <2>4. CASE Working(phase, tokens, new, inputs, server_idx, sessions)
    <3>1. Working(phase', tokens, new, inputs, server_idx, sessions')
      BY <1>5, <2>4, EndedWorking
    <3>2. QED  BY <1>1, <2>2, <3>1
  <2>5. QED  BY <2>2, <2>3, <2>4
<1>11. Progress'
  BY <1>7, <1>8, <1>9, <1>10 DEF Progress
<1>12. QED  BY <1>3, <1>4, <1>11 DEF InferenceInv

\* One of the sessions ends.
LEMMA OneEnded ==
  ASSUME NEW old \in Seq(ServerSessions), NEW k \in 1 .. Len(old),
         NEW list, list = [old EXCEPT ![k] = Ended(@)]
  PROVE  list \in Seq(ServerSessions) /\ SomeEnded(list, old) /\ Silent(list[k])
<1>1. old[k] \in ServerSessions
  BY ElementOfSeq
<1>2. Ended(old[k]) \in ServerSessions /\ Silent(Ended(old[k]))
  BY <1>1, EndedFacts
<1>3. list = [old EXCEPT ![k] = Ended(old[k])]
  OBVIOUS
<1>4. /\ list \in Seq(ServerSessions) /\ Len(list) = Len(old) /\ list[k] = Ended(old[k])
      /\ \A i \in 1 .. Len(old) : i # k => list[i] = old[i]
  BY <1>2, <1>3, OneChanged
<1>5. QED  BY <1>2, <1>4 DEF SomeEnded

\* A server ends a session.
LEMMA EndSessionKeeps ==
  ASSUME InferenceInv, NEW i \in 1 .. Len(sessions), EndSession(i)
  PROVE  InferenceInv'
<1>1. sessions' = [sessions EXCEPT ![i] = Ended(@)] /\ phase' = phase /\ UNCHANGED clientVars
  BY DEF EndSession
<1>2. sessions \in Seq(ServerSessions)
  BY DEF InferenceInv, InferenceTypes
<1>3. sessions' \in Seq(ServerSessions) /\ SomeEnded(sessions', sessions)
  BY <1>1, <1>2, OneEnded
<1>4. QED  BY <1>1, <1>3, SomeEndKeeps

\* A server that crashes ends its sessions.
LEMMA CrashEnds ==
  ASSUME InferenceInv, NEW server \in Servers, Crash(server)
  PROVE  /\ phase' = phase /\ UNCHANGED clientVars
         /\ sessions' \in Seq(ServerSessions) /\ SomeEnded(sessions', sessions)
<1>1. /\ sessions' = [i \in 1 .. Len(sessions) |->
                        IF sessions[i].server = server THEN Ended(sessions[i]) ELSE sessions[i]]
      /\ phase' = phase /\ UNCHANGED clientVars
  BY DEF Crash
<1>2. sessions \in Seq(ServerSessions) /\ Len(sessions) \in Nat
  BY LenProperties DEF InferenceInv, InferenceTypes
<1>3. \A i \in 1 .. Len(sessions) : sessions[i] \in ServerSessions /\ Ended(sessions[i]) \in ServerSessions
  BY <1>2, ElementOfSeq, EndedFacts
<1>4. \A i \in 1 .. Len(sessions) : /\ sessions'[i] = sessions[i] \/ sessions'[i] = Ended(sessions[i])
                                    /\ sessions'[i] \in ServerSessions
  BY <1>1, <1>3
<1>5. sessions' \in Seq(ServerSessions) /\ Len(sessions') = Len(sessions)
  <2>1. sessions' \in [1 .. Len(sessions) -> ServerSessions]
    BY <1>1, <1>4
  <2>2. sessions' \in Seq(ServerSessions)
    BY <1>2, <2>1, SeqDef
  <2>3. Len(sessions') \in Nat /\ 1 .. Len(sessions') = 1 .. Len(sessions)
    BY <2>1, <2>2, LenProperties
  <2>4. QED  BY <1>2, <2>2, <2>3, SameLength
<1>6. SomeEnded(sessions', sessions)
  BY <1>4, <1>5 DEF SomeEnded
<1>7. QED  BY <1>1, <1>5, <1>6

\* A server crashes.
LEMMA CrashKeeps ==
  ASSUME InferenceInv, NEW server \in Servers, Crash(server)
  PROVE  InferenceInv'
<1>1. /\ phase' = phase /\ UNCHANGED clientVars
      /\ sessions' \in Seq(ServerSessions) /\ SomeEnded(sessions', sessions)
  BY CrashEnds
<1>2. QED  BY <1>1, SomeEndKeeps

\* Sessions stay as they are.
LEMMA SameSessions ==
  ASSUME InferenceInv, sessions' = sessions
  PROVE  sessions' \in Seq(ServerSessions) /\ SomeEnded(sessions', sessions)
BY DEF InferenceInv, InferenceTypes, SomeEnded

\* A server comes back.
LEMMA RestartKeeps ==
  ASSUME InferenceInv, NEW server \in Servers, Restart(server)
  PROVE  InferenceInv'
<1>1. sessions' = sessions /\ phase' = phase /\ UNCHANGED clientVars
  BY DEF Restart
<1>2. QED  BY <1>1, SameSessions, SomeEndKeeps

\* Nothing is asked of a server before the inputs are sent.
LEMMA SilentBefore ==
  ASSUME InferenceInv, phase = "stepping"
  PROVE  sessions # << >> /\ server_idx \in 1 .. Len(sessions) /\ Silent(Current)
<1>1. Busy
  BY DEF Busy
<1>2. \/ Stuck(phase, tokens, server_idx, sessions)
      \/ Working(phase, tokens, new, inputs, server_idx, sessions)
  BY <1>1 DEF InferenceInv, Progress
<1>3. CASE Stuck(phase, tokens, server_idx, sessions)
  <2>1. server_idx \in 1 .. Len(sessions) /\ Silent(Current)
    BY <1>3 DEF Stuck, Current
  <2>2. sessions # << >>
    BY <2>1, EmptySeq
  <2>3. QED  BY <2>1, <2>2
<1>4. CASE Working(phase, tokens, new, inputs, server_idx, sessions)
  <2>1. sessions # << >> /\ server_idx \in 1 .. Len(sessions) /\ InTurn(Current, tokens, new, phase)
    BY <1>4 DEF Working, Current
  <2>2. QED  BY <2>1 DEF InTurn, Silent
<1>5. QED  BY <1>2, <1>3, <1>4

\* An assertion on positions fails.
LEMMA AssertionFailsKeeps ==
  ASSUME InferenceInv, AssertionFails
  PROVE  InferenceInv'
<1>1. phase = "stepping" /\ phase' = "routing" /\ sessions' = sessions /\ UNCHANGED clientVars
  BY DEF AssertionFails
<1>2. Silent(sessions'[server_idx])
  BY <1>1, SilentBefore DEF Current
<1>3. QED  BY <1>1, <1>2, SameSessions, SomeEndKeeps

\* What is true while the client awaits an answer.
LEMMA Awaiting ==
  ASSUME InferenceInv, phase = "awaiting"
  PROVE  /\ Working(phase, tokens, new, inputs, server_idx, sessions)
         /\ sessions # << >> /\ server_idx \in 1 .. Len(sessions)
         /\ InTurn(Current, tokens, new, phase)
<1>1. Busy
  BY DEF Busy
<1>2. Working(phase, tokens, new, inputs, server_idx, sessions)
  BY <1>1 DEF InferenceInv, Progress, Stuck
<1>3. QED  BY <1>2 DEF Working, Current

\* The request fails.
LEMMA RequestFailsKeeps ==
  ASSUME InferenceInv, RequestFails
  PROVE  InferenceInv'
<1>1. phase = "awaiting" /\ phase' = "routing" /\ UNCHANGED clientVars
  BY DEF RequestFails
<1>2. server_idx \in 1 .. Len(sessions) /\ InTurn(Current, tokens, new, phase)
  BY <1>1, Awaiting
<1>3. CASE ~Current.up /\ sessions' = sessions
  <2>1. Silent(sessions'[server_idx])
    BY <1>2, <1>3 DEF InTurn, Silent, Current
  <2>2. QED  BY <1>1, <1>3, <2>1, SameSessions, SomeEndKeeps
<1>4. CASE sessions' = [sessions EXCEPT ![server_idx] = Ended(@)]
  <2>1. sessions \in Seq(ServerSessions)
    BY DEF InferenceInv, InferenceTypes
  <2>2. /\ sessions' \in Seq(ServerSessions) /\ SomeEnded(sessions', sessions)
        /\ Silent(sessions'[server_idx])
    BY <1>2, <1>4, <2>1, OneEnded
  <2>3. QED  BY <1>1, <2>2, SomeEndKeeps
<1>5. QED  BY <1>3, <1>4 DEF RequestFails

--------------------------------------------------------------------------------
(* A step of one session *)

\* The session in turn is exchanged for one that is in turn too.
LEMMA TurnChanged ==
  ASSUME NEW old \in Seq(ServerSessions), old # << >>,
         NEW T, NEW N, NEW in, NEW k, NEW at, Working(at, T, N, in, k, old),
         NEW s \in ServerSessions, s.start = old[k].start, s.end = old[k].end,
         NEW at2, InTurn(s, T, N, at2), NEW list, list = [old EXCEPT ![k] = s]
  PROVE  /\ list \in Seq(ServerSessions) /\ SameSpans(list, old) /\ list # << >>
         /\ Working(at2, T, N, in, k, list)
<1>1. /\ in = StepAt(T, N, BlockBefore(k, old)) /\ k \in 1 .. Len(old)
      /\ \A i \in 1 .. (k - 1) : Passed(old[i], T, N)
      /\ \A i \in (k + 1) .. Len(old) : Resting(old[i], T)
  BY DEF Working
<1>2. /\ list \in Seq(ServerSessions) /\ Len(list) = Len(old) /\ list[k] = s
      /\ \A i \in 1 .. Len(old) : i # k => list[i] = old[i]
  BY <1>1, OneChanged
<1>3. SameSpans(list, old)
  BY <1>2 DEF SameSpans
<1>4. Len(old) \in Nat /\ list # << >>
  BY <1>2, LenProperties, EmptySeq
<1>5. /\ \A i \in 1 .. (k - 1) : i \in 1 .. Len(old) /\ i # k
      /\ \A i \in (k + 1) .. Len(old) : i \in 1 .. Len(old) /\ i # k
      /\ k # 1 => k - 1 \in 1 .. (k - 1)
  BY <1>1, <1>4
<1>6. BlockBefore(k, list) = BlockBefore(k, old)
  BY <1>2, <1>5 DEF BlockBefore
<1>7. \A i \in 1 .. (k - 1) : Passed(list[i], T, N)
  BY <1>1, <1>2, <1>5
<1>8. \A i \in (k + 1) .. Len(list) : Resting(list[i], T)
  BY <1>1, <1>2, <1>5
<1>9. QED  BY <1>1, <1>2, <1>3, <1>4, <1>6, <1>7, <1>8 DEF Working

\* A busy client whose session in turn changed is busy as before.
LEMMA TurnKeeps ==
  ASSUME InferenceInv, UNCHANGED clientVars, phase' \in {"stepping", "awaiting"},
         Busy, Working(phase, tokens, new, inputs, server_idx, sessions), sessions # << >>,
         NEW s \in ServerSessions, s.start = Current.start, s.end = Current.end,
         InTurn(s, tokens, new, phase'), sessions' = [sessions EXCEPT ![server_idx] = s]
  PROVE  InferenceInv'
<1>1. /\ tokens' = tokens /\ new' = new /\ inputs' = inputs /\ server_idx' = server_idx
      /\ outputs' = outputs
  BY DEF clientVars
<1>2. InferenceTypes /\ Progress /\ OutputsRight /\ sessions \in Seq(ServerSessions)
  BY DEF InferenceInv, InferenceTypes
<1>3. /\ sessions' \in Seq(ServerSessions) /\ SameSpans(sessions', sessions) /\ sessions' # << >>
      /\ Working(phase', tokens, new, inputs, server_idx, sessions')
  BY <1>2, TurnChanged DEF Current
<1>4. InferenceTypes'
  BY <1>1, <1>2, <1>3 DEF InferenceTypes
<1>5. OutputsRight'
  BY <1>1, <1>2 DEF OutputsRight
<1>6. Chain(sessions', 0, NumBlocks)
  BY <1>2, <1>3, SameChain DEF Progress
<1>7. outputs = << >> /\ new # << >>
  BY <1>2 DEF Progress
<1>8. Progress'
  BY <1>1, <1>3, <1>6, <1>7 DEF Progress
<1>9. QED  BY <1>4, <1>5, <1>8 DEF InferenceInv

\* A server is asked only in its turn.
LEMMA AskedInTurn ==
  ASSUME InferenceInv, NEW i \in 1 .. Len(sessions), sessions[i].up, sessions[i].request # NoMessage
  PROVE  i = server_idx /\ phase = "awaiting"
<1>1. ~Silent(sessions[i])
  BY DEF Silent
<1>2. sessions # << >> /\ Len(sessions) \in Nat
  BY EmptySeq, LenProperties DEF InferenceInv, InferenceTypes
<1>3. Progress
  BY DEF InferenceInv
<1>4. phase # "idle" /\ phase # "closed"
  BY <1>1, <1>2, <1>3 DEF Progress, AtRest, Resting
<1>5. Busy
  BY <1>4 DEF Busy
<1>6. Working(phase, tokens, new, inputs, server_idx, sessions)
  BY <1>1, <1>3, <1>5 DEF Progress, Stuck
<1>7. /\ server_idx \in 1 .. Len(sessions)
      /\ \A j \in 1 .. (server_idx - 1) : Silent(sessions[j])
      /\ \A j \in (server_idx + 1) .. Len(sessions) : Silent(sessions[j])
  BY <1>2, <1>6 DEF Working, Passed, Resting
<1>8. i = server_idx
  <2>1. i < server_idx => i \in 1 .. (server_idx - 1)
    BY <1>2, <1>7
  <2>2. i > server_idx => i \in (server_idx + 1) .. Len(sessions)
    BY <1>2, <1>7
  <2>3. QED  BY <1>1, <1>2, <1>7, <2>1, <2>2
<1>9. InTurn(sessions[i], tokens, new, phase)
  BY <1>2, <1>6, <1>8 DEF Working
<1>10. QED  BY <1>8, <1>9 DEF InTurn

\* What the server computes in its turn.
LEMMA ServerComputes ==
  ASSUME NEW s \in ServerSessions, s.start < s.end,
         NEW T \in Seq(Tokens), NEW N \in Seq(Tokens), NEW at,
         InTurn(s, T, N, at), s.up, s.request # NoMessage
  PROVE  /\ Cached(s.kv, s.request) = Through(T \o N, s.start)
         /\ LastOf(Through(Through(T \o N, s.start), s.end - s.start), Len(s.request.inputs)) =
              StepAt(T, N, s.end)
<1> DEFINE a == s.start
           b == s.end
           F == T \o N
<1>1. a \in 0 .. NumBlocks /\ b \in 0 .. NumBlocks /\ a \in Nat /\ b - a \in Nat /\ a + (b - a) = b
  <2>1. s.start \in 0 .. NumBlocks /\ s.end \in 0 .. NumBlocks
    BY SessionFields
  <2>2. QED  BY <2>1
<1>2. s.request.start_from_position = Len(T) /\ s.request.inputs = StepAt(T, N, a)
  BY DEF InTurn
<1>3. SubSeq(s.kv, 1, Len(Through(T, a))) = Through(T, a)
  BY DEF InTurn, Holds
<1> HIDE DEF a, b
<1>4. /\ Len(Through(T, a)) = Len(T)
      /\ Len(LastOf(Through(F, a), Len(N))) = Len(N)
      /\ Through(F, a) = Through(T, a) \o LastOf(Through(F, a), Len(N))
  BY <1>1, StepStates
<1>5. Cached(s.kv, s.request) = Through(F, a)
  BY <1>2, <1>3, <1>4 DEF Cached, StepAt
<1>6. Through(Through(F, a), b - a) = Through(F, b)
  <2> DEFINE d == b - a
  <2>1. d \in Nat /\ a \in Nat /\ a + d = b
    BY <1>1
  <2> HIDE DEF d, F
  <2>2. Through(Through(F, a), d) = Through(F, a + d)
    BY <2>1, ThroughThrough
  <2>3. QED  BY <2>1, <2>2 DEF d
<1>7. Len(s.request.inputs) = Len(N)
  BY <1>2, <1>4 DEF StepAt
<1>8. QED  BY <1>5, <1>6, <1>7 DEF a, b, StepAt

\* Typing of a step's hidden states.
LEMMA StepTypes ==
  ASSUME NEW T \in Seq(Tokens), NEW N \in Seq(Tokens), NEW b \in 0 .. NumBlocks
  PROVE  StepAt(T, N, b) \in Seq(Hidden) /\ Len(StepAt(T, N, b)) = Len(N)
BY StepLengths

\* iterate_rpc_inference: the server answers, or its session ends.
LEMMA ServeStepKeeps ==
  ASSUME InferenceInv, NEW i \in 1 .. Len(sessions), ServeStep(i)
  PROVE  InferenceInv'
<1> DEFINE s == sessions[i]
           kv == Cached(s.kv, s.request)
           ok == Len(s.kv) >= s.request.start_from_position /\ Len(kv) <= MaxLength
           reply == LastOf(Through(kv, s.end - s.start), Len(s.request.inputs))
<1>1. s.up /\ s.request # NoMessage /\ phase' = phase /\ UNCHANGED clientVars
  BY DEF ServeStep
<1>2. i = server_idx /\ phase = "awaiting"
  BY <1>1, AskedInTurn
<1>3. /\ Working(phase, tokens, new, inputs, server_idx, sessions) /\ sessions # << >>
      /\ InTurn(s, tokens, new, phase)
  BY <1>2, Awaiting DEF Current
<1>4. /\ tokens \in Seq(Tokens) /\ new \in Seq(Tokens)
      /\ sessions \in Seq(ServerSessions) /\ s \in ServerSessions
      /\ Chain(sessions, 0, NumBlocks)
  <2>1. sessions \in Seq(ServerSessions)
    BY DEF InferenceInv, InferenceTypes
  <2>2. QED  BY <1>3, <2>1, ElementOfSeq DEF InferenceInv, InferenceTypes, Progress
<1>5. CASE ~ok
  <2>1. sessions' = [sessions EXCEPT ![i] = Ended(@)]
    BY <1>5 DEF ServeStep
  <2>2. sessions' \in Seq(ServerSessions) /\ SomeEnded(sessions', sessions)
    BY <1>4, <2>1, OneEnded
  <2>3. QED  BY <1>1, <2>2, SomeEndKeeps
<1>6. CASE ok
  <2> DEFINE s2 == [s EXCEPT !.kv = kv, !.request = NoMessage, !.reply = reply]
  <2>1. sessions' = [sessions EXCEPT ![i] = s2]
    BY <1>6 DEF ServeStep
  <2>2. s.start < s.end
    BY <1>4, ChainFacts
  <2>3. kv = Through(tokens \o new, s.start) /\ reply = StepAt(tokens, new, s.end)
    BY <1>1, <1>3, <1>4, <2>2, ServerComputes
  <2>4. s.start \in 0 .. NumBlocks /\ s.end \in 0 .. NumBlocks
    BY <1>4, SessionFields
  <2> HIDE DEF s, kv, reply, ok
  <2>5. /\ kv \in Seq(Hidden) /\ reply \in Seq(Hidden)
        /\ SubSeq(kv, 1, Len(kv)) = kv
        /\ SubSeq(kv, 1, Len(Through(tokens, s.start))) = Through(tokens, s.start)
    <3>1. kv \in Seq(Hidden)
      BY <1>4, <2>3, <2>4, StepStates
    <3>2. reply \in Seq(Hidden)
      BY <1>4, <2>3, <2>4, StepTypes
    <3>3. /\ SubSeq(Through(tokens \o new, s.start), 1, Len(tokens)) = Through(tokens, s.start)
          /\ Len(Through(tokens, s.start)) = Len(tokens)
      BY <1>4, <2>4, StepStates, SMTT(30)
    <3>4. SubSeq(kv, 1, Len(kv)) = kv
      BY <3>1, SubSeqFull
    <3>5. QED  BY <2>3, <3>1, <3>2, <3>3, <3>4
  <2>6. /\ s2 \in ServerSessions /\ s2.start = s.start /\ s2.end = s.end
        /\ s2.position = s.position /\ s2.history = s.history /\ s2.stepped = s.stepped /\ s2.up = s.up
        /\ s2.kv = kv /\ s2.request = NoMessage /\ s2.reply = reply
    BY <1>4, <2>5 DEF ServerSessions
  <2> HIDE DEF s2
  <2>7. InTurn(s2, tokens, new, phase)
    <3>1. s.history = Through(tokens \o new, s.start) /\ s.stepped
      BY <1>2, <1>3 DEF InTurn
    <3>2. Holds(s2, s2.history) /\ Holds(s2, Through(tokens, s2.start))
      BY <2>3, <2>5, <2>6, <3>1 DEF Holds
    <3>3. s2.position = Len(tokens)
      BY <1>3, <2>6 DEF InTurn
    <3>4. QED  BY <1>1, <1>2, <2>3, <2>6, <3>1, <3>2, <3>3 DEF InTurn
  <2>8. /\ Busy /\ s2.start = Current.start /\ s2.end = Current.end
        /\ phase' \in {"stepping", "awaiting"} /\ InTurn(s2, tokens, new, phase')
        /\ sessions' = [sessions EXCEPT ![server_idx] = s2]
    BY <1>1, <1>2, <2>1, <2>6, <2>7 DEF Busy, Current, s
  <2>9. QED  BY <1>1, <1>3, <2>6, <2>8, TurnKeeps
<1>7. QED  BY <1>5, <1>6

\* What a session's history becomes when the inputs of the step are sent.
LEMMA HistoryToSend ==
  ASSUME NEW s \in ServerSessions, NEW T \in Seq(Tokens), NEW N \in Seq(Tokens), N # << >>, NEW at,
         InTurn(s, T, N, at), inputs = StepAt(T, N, s.start)
  PROVE  /\ HistoryWith(s) = Through(T \o N, s.start)
         /\ Len(T) = 0 => inputs = HistoryWith(s)
<1> DEFINE a == s.start
           F == T \o N
<1>1. a \in 0 .. NumBlocks
  BY SessionFields
<1>2. s.position = Len(T) /\ s.history \in {Through(T, a), Through(F, a)} /\ inputs = StepAt(T, N, a)
  BY DEF InTurn
<1> HIDE DEF a
<1>3. /\ Len(Through(T, a)) = Len(T) /\ Len(Through(F, a)) = Len(T) + Len(N)
      /\ Len(T) \in Nat /\ Len(N) \in Nat \ {0}
      /\ Through(F, a) = Through(T, a) \o inputs
      /\ Len(T) = 0 => inputs = Through(F, a)
  <2>1. Len(N) # 0
    BY EmptySeq
  <2>2. inputs = LastOf(Through(F, a), Len(N))
    BY <1>2 DEF StepAt
  <2>3. /\ Len(Through(T, a)) = Len(T) /\ Len(Through(F, a)) = Len(T) + Len(N)
        /\ Through(F, a) = Through(T, a) \o LastOf(Through(F, a), Len(N))
        /\ Len(T) = 0 => LastOf(Through(F, a), Len(N)) = Through(F, a)
        /\ Len(T) \in Nat /\ Len(N) \in Nat
    BY <1>1, StepStates
  <2>4. QED  BY <2>1, <2>2, <2>3
<1> HIDE DEF F
<1>4. CASE s.history = Through(F, a)
  <2>1. Len(s.history) # s.position /\ s.history # << >>
    BY <1>2, <1>3, <1>4
  <2>2. QED  BY <1>3, <1>4, <2>1 DEF HistoryWith, a, F
<1>5. CASE s.history = Through(T, a)
  <2>1. CASE s.history = << >>
    <3>1. Len(T) = 0
      BY <1>3, <1>5, <2>1
    <3>2. QED  BY <1>3, <2>1, <3>1 DEF HistoryWith, a, F
  <2>2. CASE s.history # << >>
    <3>1. HistoryWith(s) = s.history \o inputs
      BY <1>2, <1>3, <1>5, <2>2 DEF HistoryWith
    <3>2. QED  BY <1>3, <1>5, <3>1 DEF a, F
  <2>3. QED  BY <2>1, <2>2
<1>6. QED  BY <1>2, <1>4, <1>5

\* During a step, the client holds the hidden states that its session is to compute with.
LEMMA InputsInTurn ==
  ASSUME InferenceInv, Working(phase, tokens, new, inputs, server_idx, sessions), sessions # << >>
  PROVE  /\ server_idx \in 1 .. Len(sessions) /\ Current \in ServerSessions
         /\ InTurn(Current, tokens, new, phase)
         /\ inputs = StepAt(tokens, new, Current.start)
         /\ Current.start = BlockBefore(server_idx, sessions)
         /\ tokens \in Seq(Tokens) /\ new \in Seq(Tokens)
<1>1. sessions \in Seq(ServerSessions) /\ tokens \in Seq(Tokens) /\ new \in Seq(Tokens)
  BY DEF InferenceInv, InferenceTypes
<1>2. Chain(sessions, 0, NumBlocks)
  BY DEF InferenceInv, Progress
<1>3. /\ server_idx \in 1 .. Len(sessions) /\ InTurn(Current, tokens, new, phase)
      /\ inputs = StepAt(tokens, new, BlockBefore(server_idx, sessions))
  BY DEF Working, Current
<1>4. Current \in ServerSessions
  BY <1>1, <1>3, ElementOfSeq DEF Current
<1>5. Current.start = BlockBefore(server_idx, sessions)
  BY <1>1, <1>2, <1>3, ChainFacts DEF Current, BlockBefore
<1>6. QED  BY <1>1, <1>3, <1>4, <1>5

\* _ServerInferenceSession.step up to the await.
LEMMA SendInputsKeeps ==
  ASSUME InferenceInv, SendInputs
  PROVE  InferenceInv'
<1> DEFINE s == Current
           history == HistoryWith(s)
           request == [start_from_position |-> s.position,
                       inputs |-> IF s.stepped THEN inputs ELSE history]
           s2 == [s EXCEPT !.history = history, !.stepped = TRUE, !.request = request]
<1>1. /\ phase = "stepping" /\ s.position = Len(tokens) /\ phase' = "awaiting" /\ UNCHANGED clientVars
      /\ sessions' = [sessions EXCEPT ![server_idx].history = history,
                                      ![server_idx].stepped = TRUE,
                                      ![server_idx].request = request]
  BY DEF SendInputs, position
<1>2. sessions # << >> /\ server_idx \in 1 .. Len(sessions) /\ Silent(s)
  BY <1>1, SilentBefore
<1>3. Busy
  BY <1>1 DEF Busy
<1>4. new # << >> /\ Working(phase, tokens, new, inputs, server_idx, sessions)
  <2>1. ~Stuck(phase, tokens, server_idx, sessions)
    BY <1>1 DEF Stuck, Current
  <2>2. QED  BY <1>3, <2>1 DEF InferenceInv, Progress
<1>5. /\ s \in ServerSessions /\ InTurn(s, tokens, new, phase) /\ inputs = StepAt(tokens, new, s.start)
      /\ tokens \in Seq(Tokens) /\ new \in Seq(Tokens) /\ s.start \in 0 .. NumBlocks
  BY <1>2, <1>4, InputsInTurn, SessionFields
<1>6. /\ history = Through(tokens \o new, s.start)
      /\ Len(tokens) = 0 => inputs = history
      /\ history \in Seq(Hidden) /\ inputs \in Seq(Hidden) /\ Len(tokens) \in Nat
  <2> HIDE DEF s
  <2>1. history = Through(tokens \o new, s.start) /\ (Len(tokens) = 0 => inputs = history)
    BY <1>4, <1>5, HistoryToSend
  <2>2. Through(tokens \o new, s.start) \in Seq(Hidden) /\ Len(tokens) \in Nat
    BY <1>5, StepStates
  <2>3. inputs \in Seq(Hidden)
    BY <1>5, StepTypes
  <2>4. QED  BY <2>1, <2>2, <2>3
<1>7. /\ request = [start_from_position |-> Len(tokens), inputs |-> StepAt(tokens, new, s.start)]
      /\ request \in Requests
  <2>1. (IF s.stepped THEN inputs ELSE history) = inputs
    <3>1. ~s.stepped => Len(tokens) = 0
      BY <1>5, <1>6 DEF InTurn
    <3>2. QED  BY <1>6, <3>1
  <2>2. QED  BY <1>1, <1>5, <1>6, <2>1 DEF Requests
<1>8. sessions' = [sessions EXCEPT ![server_idx] = s2]
  <2>1. sessions' = [sessions EXCEPT ![server_idx] =
                       [@ EXCEPT !.history = history, !.stepped = TRUE, !.request = request]]
    <3> HIDE DEF history, request
    <3>1. QED  BY <1>1
  <2>2. QED  BY <2>1 DEF Current
<1> HIDE DEF s, history, request
<1>9. /\ s2 \in ServerSessions /\ s2.start = s.start /\ s2.end = s.end
      /\ s2.position = s.position /\ s2.history = history /\ s2.stepped = TRUE /\ s2.up = s.up
      /\ s2.kv = s.kv /\ s2.request = request /\ s2.reply = s.reply
  BY <1>5, <1>6, <1>7 DEF ServerSessions
<1> HIDE DEF s2
<1>10. InTurn(s2, tokens, new, "awaiting")
  <2>1. Holds(s2, Through(tokens, s2.start))
    BY <1>5, <1>9 DEF InTurn, Holds
  <2>2. s2.reply = NoMessage
    BY <1>2, <1>9 DEF Silent
  <2>3. QED  BY <1>1, <1>6, <1>7, <1>9, <2>1, <2>2 DEF InTurn
<1>11. QED
  <2>1. s2.start = Current.start /\ s2.end = Current.end
    BY <1>9 DEF s
  <2>2. QED  BY <1>1, <1>2, <1>3, <1>4, <1>8, <1>9, <1>10, <2>1, TurnKeeps

\* A session at rest is ready for its turn.
LEMMA RestingIsReady ==
  ASSUME NEW s, NEW T, NEW N, Resting(s, T)
  PROVE  InTurn(s, T, N, "stepping")
BY DEF Resting, InTurn, Silent

\* A session that has done the step is at rest when the step is done.
LEMMA PassedRests ==
  ASSUME NEW s, NEW T \in Seq(Tokens), NEW N \in Seq(Tokens), Passed(s, T, N)
  PROVE  Resting(s, T \o N)
<1>1. Len(T \o N) = Len(T) + Len(N)
  BY ConcatProperties
<1>2. QED  BY <1>1 DEF Passed, Resting

\* A session whose answer to n positions has arrived.
Answered(s, n) == [s EXCEPT !.position = s.position + n, !.reply = NoMessage]

\* The answer of a server makes its session one that has done the step.
LEMMA AnsweredPasses ==
  ASSUME NEW s \in ServerSessions, NEW T, NEW N, Len(N) \in Nat,
         InTurn(s, T, N, "awaiting"), s.reply # NoMessage,
         NEW s2, s2 = Answered(s, Len(N))
  PROVE  /\ s2 \in ServerSessions /\ s2.start = s.start /\ s2.end = s.end
         /\ Passed(s2, T, N)
         /\ s.reply = StepAt(T, N, s.end)
<1>1. s.position \in Nat /\ s.position + Len(N) \in Nat
  BY SessionFields
<1>2. /\ s2 \in ServerSessions /\ s2.start = s.start /\ s2.end = s.end
      /\ s2.position = s.position + Len(N) /\ s2.history = s.history /\ s2.stepped = s.stepped
      /\ s2.up = s.up /\ s2.kv = s.kv /\ s2.request = s.request /\ s2.reply = NoMessage
  BY <1>1 DEF ServerSessions, Answered
<1>3. /\ s.position = Len(T) /\ s.history = Through(T \o N, s.start) /\ Holds(s, s.history)
      /\ s.stepped /\ s.request = NoMessage /\ s.reply = StepAt(T, N, s.end)
  BY DEF InTurn
<1>4. Holds(s2, s2.history)
  BY <1>2, <1>3 DEF Holds
<1>5. Passed(s2, T, N)
  BY <1>2, <1>3, <1>4 DEF Passed, Silent
<1>6. QED  BY <1>2, <1>3, <1>5

\* All of a step's hidden states are its last ones.
LEMMA StepIsLast ==
  ASSUME NEW T \in Seq(Tokens), NEW N \in Seq(Tokens), NEW b \in 0 .. NumBlocks
  PROVE  LastOf(StepAt(T, N, b), Len(N)) = StepAt(T, N, b)
<1> DEFINE X == Through(T \o N, b)
           n == Len(N)
<1>1. X \in Seq(Hidden) /\ Len(X) = Len(T) + n /\ Len(T) \in Nat /\ n \in Nat
  BY StepLengths
<1> HIDE DEF X, n
<1>2. n \in 0 .. Len(X)
  BY <1>1
<1>3. LastOf(LastOf(X, n), n) = LastOf(X, n)
  BY <1>1, <1>2, LastFacts
<1>4. QED  BY <1>3 DEF StepAt, X, n

\* The answer arrives.
LEMMA ReceiveKeeps ==
  ASSUME InferenceInv, Receive
  PROVE  InferenceInv'
<1> DEFINE s == Current
           s2 == Answered(s, Len(inputs))
           k == server_idx
           T == tokens
           N == new
           list == sessions'
           L == Len(sessions)
<1>1. /\ phase = "awaiting" /\ s.reply # NoMessage
      /\ sessions' = [sessions EXCEPT ![k].position = @ + Len(inputs), ![k].reply = NoMessage]
  BY DEF Receive
<1>2. /\ Working(phase, T, N, inputs, k, sessions) /\ sessions # << >> /\ k \in 1 .. L
      /\ InTurn(s, T, N, "awaiting")
  BY <1>1, Awaiting
<1>3. /\ s \in ServerSessions /\ inputs = StepAt(T, N, s.start)
      /\ T \in Seq(Tokens) /\ N \in Seq(Tokens)
      /\ s.start \in 0 .. NumBlocks /\ s.end \in 0 .. NumBlocks
  BY <1>2, InputsInTurn, SessionFields
<1>4. Len(inputs) = Len(N) /\ Len(N) \in Nat
  BY <1>3, StepTypes, LenProperties
<1>5. /\ sessions \in Seq(ServerSessions) /\ Chain(sessions, 0, NumBlocks) /\ L \in Nat
      /\ Busy
  BY <1>1, <1>2, LenProperties DEF InferenceInv, InferenceTypes, Progress, Busy
<1>6. outputs = << >> /\ N # << >>
  BY <1>5 DEF InferenceInv, Progress
<1>7. list = [sessions EXCEPT ![k] = s2]
  <2>1. list = [sessions EXCEPT ![k] = [sessions[k] EXCEPT
                 !.position = sessions[k].position + Len(inputs), !.reply = NoMessage]]
    BY <1>1
  <2>2. QED  BY <2>1 DEF Current, Answered
<1>8. /\ s2 \in ServerSessions /\ s2.start = s.start /\ s2.end = s.end /\ Passed(s2, T, N)
      /\ s.reply = StepAt(T, N, s.end)
  <2>1. s2 = Answered(s, Len(N))
    BY <1>4
  <2> HIDE DEF s, s2
  <2>2. QED  BY <1>1, <1>2, <1>3, <1>4, <2>1, AnsweredPasses
<1> HIDE DEF s2
<1>9. /\ list \in Seq(ServerSessions) /\ Len(list) = L /\ list[k] = s2
      /\ \A i \in 1 .. L : i # k => list[i] = sessions[i]
  BY <1>2, <1>5, <1>7, <1>8, OneChanged
<1>10. SameSpans(list, sessions) /\ list # << >>
  BY <1>2, <1>5, <1>8, <1>9, EmptySeq DEF SameSpans, Current
<1>11. Chain(list, 0, NumBlocks)
  BY <1>5, <1>9, <1>10, SameChain
<1>12. ASSUME NEW i \in 1 .. k
       PROVE  Passed(list[i], T, N)
  <2>1. CASE i = k
    BY <1>8, <1>9, <2>1
  <2>2. CASE i # k
    <3>1. i \in 1 .. (k - 1) /\ i \in 1 .. L
      BY <1>2, <1>5, <2>2
    <3>2. QED  BY <1>2, <1>9, <2>2, <3>1 DEF Working
  <2>3. QED  BY <2>1, <2>2
<1>13. ASSUME NEW i \in (k + 1) .. L
       PROVE  Resting(list[i], T)
  <2>1. i # k /\ i \in 1 .. L
    BY <1>2, <1>5
  <2>2. QED  BY <1>2, <1>9, <2>1 DEF Working
<1>14. s.end < NumBlocks <=> k < L
  BY <1>2, <1>5, ChainFacts DEF Current
<1>15. CASE s.end < NumBlocks
  <2>1. /\ inputs' = s.reply /\ server_idx' = k + 1 /\ phase' = "stepping"
        /\ tokens' = T /\ new' = N /\ outputs' = outputs
    BY <1>15 DEF Receive
  <2>2. k + 1 \in (k + 1) .. L /\ k + 1 \in 1 .. L /\ k + 1 # 1 /\ (k + 1) - 1 = k
    BY <1>2, <1>5, <1>14, <1>15
  <2>3. BlockBefore(k + 1, list) = s.end
    BY <1>8, <1>9, <2>2 DEF BlockBefore
  <2>4. InTurn(list[k + 1], T, N, "stepping")
    BY <1>13, <2>2, RestingIsReady
  <2>5. \A i \in ((k + 1) + 1) .. L : i \in (k + 1) .. L
    BY <1>2, <1>5
  <2>6. Working("stepping", T, N, s.reply, k + 1, list)
    BY <1>8, <1>9, <1>10, <1>12, <1>13, <2>2, <2>3, <2>4, <2>5 DEF Working
  <2>7. Progress'
    BY <1>6, <1>10, <1>11, <2>1, <2>6 DEF Progress
  <2>8. s.reply \in Seq(Hidden)
    BY <1>3, <1>8, StepTypes
  <2>9. InferenceTypes'
    BY <1>2, <1>9, <2>1, <2>8 DEF InferenceInv, InferenceTypes
  <2>10. OutputsRight'
    BY <2>1 DEF InferenceInv, OutputsRight
  <2>11. QED  BY <2>7, <2>9, <2>10 DEF InferenceInv
<1>16. CASE ~(s.end < NumBlocks)
  <2>1. /\ tokens' = T \o N /\ outputs' = LastOf(s.reply, Len(N)) /\ phase' = "idle"
        /\ inputs' = << >> /\ new' = << >> /\ server_idx' = 1
    BY <1>16 DEF Receive
  <2>2. s.end = NumBlocks /\ k = L
    BY <1>2, <1>3, <1>5, <1>14, <1>16
  <2>3. T \o N \in Seq(Tokens) /\ NumBlocks \in 0 .. NumBlocks
    BY <1>3, ConcatProperties
  <2>4. outputs' = StepAt(T, N, NumBlocks) /\ Len(outputs') = Len(N) /\ outputs' \in Seq(Hidden)
    <3>1. s.reply = StepAt(T, N, NumBlocks)
      BY <1>8, <2>2
    <3>2. outputs' = StepAt(T, N, NumBlocks)
      BY <1>3, <2>1, <2>3, <3>1, StepIsLast
    <3>3. QED  BY <1>3, <2>3, <3>2, StepTypes
  <2>5. \A i \in 1 .. L : Resting(list[i], T \o N)
    BY <1>3, <1>12, <2>2, PassedRests
  <2>6. AtRest(T \o N, list)
    BY <1>9, <1>10, <2>5 DEF AtRest
  <2>7. Progress'
    BY <1>11, <2>1, <2>6 DEF Progress, Busy
  <2>8. InferenceTypes'
    BY <1>9, <2>1, <2>3, <2>4 DEF InferenceTypes
  <2>9. OutputsRight'
    BY <2>1, <2>4 DEF OutputsRight, StepAt
  <2>10. QED  BY <2>7, <2>8, <2>9 DEF InferenceInv
<1>17. QED  BY <1>15, <1>16

\* Nothing is the last of nothing.
LEMMA LastNone ==
  ASSUME NEW x \in Seq(Tokens)
  PROVE  LastOf(Through(x, NumBlocks), Len(<< >>)) = << >>
<1> DEFINE X == Through(x, NumBlocks)
<1>1. X \in Seq(Hidden)
  <2>1. NumBlocks \in 0 .. NumBlocks
    OBVIOUS
  <2>2. QED  BY <2>1, HiddenStates
<1>2. Len(<< >>) = 0
  OBVIOUS
<1> HIDE DEF X
<1>3. 0 \in 0 .. Len(X)
  BY <1>1, LenProperties
<1>4. LastOf(X, 0) \in Seq(Hidden) /\ Len(LastOf(X, 0)) = 0
  BY <1>1, <1>3, LastFacts
<1>5. QED  BY <1>2, <1>4, EmptySeq DEF X

--------------------------------------------------------------------------------
(* The user *)

\* The hidden states before the first block are the tokens of the step.
LEMMA StepTokens ==
  ASSUME NEW T \in Seq(Tokens), NEW N \in Seq(Tokens)
  PROVE  StepAt(T, N, 0) = N
<1> DEFINE X == StepAt(T, N, 0)
<1>1. 0 \in 0 .. NumBlocks /\ 0 \in Nat
  OBVIOUS
<1>2. /\ Through(T, 0) = T /\ Through(T \o N, 0) = T \o N
      /\ Through(T \o N, 0) = Through(T, 0) \o X
      /\ X \in Seq(Hidden) /\ Len(X) = Len(N)
  <2>1. Through(T, 0) = T /\ Through(T \o N, 0) = T \o N
    BY <1>1, ThroughBlocks
  <2> DEFINE b == 0
             Y == LastOf(Through(T \o N, b), Len(N))
  <2>2. b \in 0 .. NumBlocks
    OBVIOUS
  <2> HIDE DEF b
  <2>3. Through(T \o N, b) = Through(T, b) \o Y /\ Y \in Seq(Hidden) /\ Len(Y) = Len(N)
    BY <2>2, StepStates
  <2>4. X = Y
    BY DEF StepAt, b
  <2>5. QED  BY <2>1, <2>3, <2>4 DEF b
<1> HIDE DEF X
<1>3. T \o N = T \o X
  BY <1>2
<1> DEFINE S == Tokens \cup Hidden
<1>4. T \in Seq(S) /\ N \in Seq(S) /\ X \in Seq(S)
  <2>1. /\ T \in [1 .. Len(T) -> Tokens] /\ N \in [1 .. Len(N) -> Tokens]
        /\ X \in [1 .. Len(N) -> Hidden] /\ Len(T) \in Nat /\ Len(N) \in Nat
    BY <1>2, LenProperties
  <2>2. /\ T \in [1 .. Len(T) -> S] /\ N \in [1 .. Len(N) -> S] /\ X \in [1 .. Len(N) -> S]
    BY <2>1
  <2> HIDE DEF S
  <2>3. QED  BY <2>1, <2>2, FunctionIsSeq
<1> HIDE DEF S
<1>5. N = X
  BY <1>3, <1>4, ConcatSimplifications
<1>6. QED  BY <1>5 DEF X

\* A step begins.
LEMMA BeginStepKeeps ==
  ASSUME InferenceInv, NEW toks \in Seq(Tokens), toks # << >>, BeginStep(toks)
  PROVE  InferenceInv'
<1>1. /\ phase = "idle" /\ new' = toks /\ inputs' = toks /\ server_idx' = 1 /\ outputs' = << >>
      /\ phase' = IF sessions = << >> THEN "routing" ELSE "stepping"
      /\ tokens' = tokens /\ sessions' = sessions
  BY DEF BeginStep
<1>2. /\ tokens \in Seq(Tokens) /\ sessions \in Seq(ServerSessions)
      /\ AtRest(tokens, sessions)
      /\ sessions # << >> => Chain(sessions, 0, NumBlocks)
  BY <1>1 DEF InferenceInv, InferenceTypes, Progress
<1>3. toks = StepAt(tokens, toks, BlockBefore(1, sessions))
  BY <1>2, StepTokens DEF BlockBefore
<1>4. Working(phase', tokens, toks, toks, 1, sessions)
  <2>1. CASE sessions = << >>
    <3>1. tokens = << >>
      BY <1>2, <2>1 DEF AtRest
    <3>2. QED  BY <1>1, <1>3, <2>1, <3>1 DEF Working
  <2>2. CASE sessions # << >>
    <3>1. Len(sessions) \in Nat \ {0} /\ 1 \in 1 .. Len(sessions)
      BY <1>2, <2>2, LenProperties, EmptySeq
    <3>2. InTurn(sessions[1], tokens, toks, phase')
      BY <1>1, <1>2, <2>2, <3>1, RestingIsReady DEF AtRest
    <3>3. /\ \A i \in 1 .. (1 - 1) : FALSE
          /\ \A i \in (1 + 1) .. Len(sessions) : i \in 1 .. Len(sessions)
      BY <3>1
    <3>4. \A i \in (1 + 1) .. Len(sessions) : Resting(sessions[i], tokens)
      BY <1>2, <3>3 DEF AtRest
    <3>5. QED  BY <1>3, <2>2, <3>1, <3>2, <3>3, <3>4 DEF Working
  <2>3. QED  BY <2>1, <2>2
<1>5. Progress'
  BY <1>1, <1>2, <1>4 DEF Progress
<1>6. << >> \in Seq(Hidden) /\ toks \in Seq(Hidden)
  <2>1. 0 \in 0 .. NumBlocks
    OBVIOUS
  <2>2. QED  BY <1>2, <2>1, StepTokens, StepTypes
<1>7. InferenceTypes'
  BY <1>1, <1>6 DEF InferenceInv, InferenceTypes
<1>8. OutputsRight'
  BY <1>1, <1>2, LastNone DEF OutputsRight
<1>9. QED  BY <1>5, <1>7, <1>8 DEF InferenceInv

\* step() raises the exception, and the user leaves the session.
LEMMA GiveUpKeeps ==
  ASSUME InferenceInv, GiveUp, ~ReuseAfterError
  PROVE  InferenceInv'
<1>1. /\ phase' = "closed" /\ sessions' = << >> /\ new' = << >> /\ inputs' = << >> /\ server_idx' = 1
      /\ tokens' = tokens /\ outputs' = outputs
  BY DEF GiveUp
<1>2. InferenceTypes' /\ Progress' /\ OutputsRight'
  BY <1>1 DEF InferenceInv, InferenceTypes, Progress, Busy, OutputsRight
<1>3. QED  BY <1>2 DEF InferenceInv

\* close().
LEMMA CloseSessionKeeps ==
  ASSUME InferenceInv, CloseSession
  PROVE  InferenceInv'
<1>1. phase' = "closed" /\ sessions' = << >> /\ UNCHANGED clientVars
  BY DEF CloseSession
<1>2. InferenceTypes' /\ Progress' /\ OutputsRight'
  BY <1>1 DEF InferenceInv, InferenceTypes, Progress, Busy, OutputsRight, clientVars
<1>3. QED  BY <1>2 DEF InferenceInv

\* A session at rest that goes back is at rest.
LEMMA RewoundRests ==
  ASSUME NEW s \in ServerSessions, NEW T \in Seq(Tokens), Resting(s, T), NEW p \in 0 .. Len(T)
  PROVE  /\ Rewound(s, p) \in ServerSessions
         /\ Rewound(s, p).start = s.start /\ Rewound(s, p).end = s.end
         /\ Resting(Rewound(s, p), SubSeq(T, 1, p))
<1> DEFINE r == Rewound(s, p)
           a == s.start
           U == SubSeq(T, 1, p)
           X == Through(T, a)
           h == SubSeq(X, 1, p)
           n == Len(T)
<1>1. a \in 0 .. NumBlocks /\ a \in Nat
  BY SessionFields
<1>2. X \in Seq(Hidden) /\ Len(X) = n /\ IsList(T, n) /\ n \in Nat
  BY <1>1, HiddenStates
<1>3. /\ s.position = n /\ s.history = X /\ Holds(s, X) /\ (n > 0 => s.stepped) /\ Silent(s)
  BY DEF Resting
<1> HIDE DEF X
<1>4. p \in Nat /\ p <= n /\ p \in 0 .. n
  BY <1>2
<1>5. h = Through(U, a)
  <2> HIDE DEF n, a
  <2>1. SubSeq(Through(T, a), 1, p) = Through(SubSeq(T, 1, p), a)
    BY <1>1, <1>2, <1>4, ThroughPrefix
  <2>2. QED  BY <2>1 DEF X
<1>6. IsList(h, p) /\ IsList(U, p)
  BY <1>4, ListPrefix
<1>7. Len(h) = p /\ Len(U) = p
  <2> HIDE DEF h, U
  <2>1. QED  BY <1>4, <1>6, ListIsSeq
<1>8. h \in Seq(Hidden)
  <2>1. \A i \in 1 .. p : i \in 1 .. Len(X)
    BY <1>2, <1>4
  <2>2. \A i \in 1 .. p : h[i] \in Hidden
    BY <1>2, <1>4, <2>1, ListPrefix, ElementOfSeq
  <2> HIDE DEF h
  <2>3. h \in [1 .. p -> Hidden]
    BY <1>6, <2>2 DEF IsList
  <2>4. QED  BY <1>4, <2>3, SeqDef
<1>9. r = [s EXCEPT !.position = p, !.history = h]
  BY <1>2, <1>3, <1>4 DEF Rewound
<1> HIDE DEF h
<1>10. /\ r \in ServerSessions /\ r.start = a /\ r.end = s.end /\ r.position = p /\ r.history = h
       /\ r.up = s.up /\ r.kv = s.kv /\ r.stepped = s.stepped /\ r.request = s.request
       /\ r.reply = s.reply
  BY <1>4, <1>8, <1>9 DEF ServerSessions
<1>11. Holds(r, h)
  <2> SUFFICES ASSUME r.up  PROVE SubSeq(r.kv, 1, Len(h)) = h
    BY DEF Holds
  <2>1. SubSeq(s.kv, 1, n) = X
    BY <1>2, <1>3, <1>10 DEF Holds
  <2>2. SubSeq(SubSeq(s.kv, 1, n), 1, p) = SubSeq(s.kv, 1, p)
    BY <1>2, <1>4, PrefixOfPrefix
  <2>3. QED  BY <1>7, <1>10, <2>1, <2>2 DEF h
<1> HIDE DEF r, U, a, n
<1>12. Resting(r, U)
  <2>1. r.position = Len(U) /\ r.history = Through(U, r.start)
    BY <1>5, <1>7, <1>10
  <2>2. Len(U) > 0 => r.stepped
    <3>1. p > 0 => n > 0
      BY <1>2, <1>4
    <3>2. QED  BY <1>3, <1>7, <1>10, <3>1
  <2>3. Holds(r, r.history)
    BY <1>10, <1>11
  <2>4. Silent(r)
    BY <1>3, <1>10 DEF Silent
  <2>5. QED  BY <2>1, <2>2, <2>3, <2>4 DEF Resting
<1>13. QED  BY <1>10, <1>12 DEF r, U, a

\* The user goes back.
LEMMA RewindKeeps ==
  ASSUME InferenceInv, NEW p \in 0 .. (position - 1), Rewind(p)
  PROVE  InferenceInv'
<1> DEFINE U == SubSeq(tokens, 1, p)
           L == Len(sessions)
           list == sessions'
<1>1. /\ phase = "idle" /\ phase' = "idle" /\ tokens' = U /\ outputs' = << >>
      /\ new' = new /\ inputs' = inputs /\ server_idx' = server_idx
      /\ sessions' = [i \in 1 .. Len(sessions) |-> Rewound(sessions[i], p)]
  BY DEF Rewind
<1>2. /\ tokens \in Seq(Tokens) /\ sessions \in Seq(ServerSessions) /\ L \in Nat
      /\ AtRest(tokens, sessions)
      /\ sessions # << >> => Chain(sessions, 0, NumBlocks)
  BY <1>1, LenProperties DEF InferenceInv, InferenceTypes, Progress
<1>3. p \in 0 .. Len(tokens) /\ p \in Nat /\ Len(tokens) > 0
  BY <1>2, LenProperties DEF position
<1>4. ASSUME NEW i \in 1 .. L
      PROVE  /\ list[i] \in ServerSessions
             /\ list[i].start = sessions[i].start /\ list[i].end = sessions[i].end
             /\ Resting(list[i], U)
  <2>1. sessions[i] \in ServerSessions /\ Resting(sessions[i], tokens)
    BY <1>2, ElementOfSeq DEF AtRest
  <2>2. list[i] = Rewound(sessions[i], p)
    BY <1>1
  <2>3. QED  BY <1>2, <1>3, <2>1, <2>2, RewoundRests
<1>5. list \in Seq(ServerSessions) /\ Len(list) = L
  <2>1. list \in [1 .. L -> ServerSessions]
    BY <1>1, <1>4
  <2>2. list \in Seq(ServerSessions)
    BY <1>2, <2>1, SeqDef
  <2>3. Len(list) \in Nat /\ 1 .. Len(list) = 1 .. L
    BY <2>1, <2>2, LenProperties
  <2>4. QED  BY <1>2, <2>2, <2>3, SameLength
<1>6. list # << >> <=> sessions # << >>
  BY <1>2, <1>5, EmptySeq
<1>7. SameSpans(list, sessions)
  BY <1>4, <1>5 DEF SameSpans
<1>8. list # << >> => Chain(list, 0, NumBlocks)
  BY <1>2, <1>5, <1>6, <1>7, SameChain
<1>9. U \in Seq(Tokens)
  <2>1. \A i \in 1 .. p : i \in 1 .. Len(tokens)
    BY <1>2, <1>3, LenProperties
  <2>2. \A i \in 1 .. p : U[i] \in Tokens
    BY <1>2, <1>3, <2>1, ListPrefix, ElementOfSeq
  <2>3. IsList(U, p)
    BY <1>3, ListPrefix
  <2> HIDE DEF U
  <2>4. U \in [1 .. p -> Tokens]
    BY <2>2, <2>3 DEF IsList
  <2>5. QED  BY <1>3, <2>4, SeqDef
<1>10. tokens # << >>
  BY <1>3, EmptySeq
<1>11. AtRest(U, list)
  BY <1>2, <1>4, <1>5, <1>6, <1>10 DEF AtRest
<1> HIDE DEF U
<1>12. Progress'
  BY <1>1, <1>8, <1>11 DEF Progress, Busy
<1>13. InferenceTypes'
  <2>1. << >> \in Seq(Hidden)
    OBVIOUS
  <2>2. QED  BY <1>1, <1>5, <1>9, <2>1 DEF InferenceInv, InferenceTypes
<1>14. OutputsRight'
  BY <1>1, <1>9, LastNone DEF OutputsRight
<1>15. QED  BY <1>12, <1>13, <1>14 DEF InferenceInv

--------------------------------------------------------------------------------
(* A new route *)

\* Where the elements of a list come from when one was replaced.
LEMMA ReplaceElements ==
  ASSUME NEW list \in Seq(ServerSessions), NEW items \in Seq(ServerSessions), items # << >>,
         NEW k \in 1 .. Len(list), NEW r, r = Replace(list, k, items), NEW i \in 1 .. Len(r)
  PROVE  \/ i \in 1 .. (k - 1) /\ r[i] = list[i]
         \/ i = k /\ r[i] = items[1]
         \/ i > k /\ \E j \in 2 .. Len(items) : r[i] = items[j]
         \/ i > k /\ \E j \in (k + 1) .. Len(list) : r[i] = list[j]
<1> DEFINE L == Len(list)
           m == Len(items)
<1>1. L \in Nat /\ m \in Nat \ {0}
  BY LenProperties, EmptySeq
<1>2. /\ Len(r) = L - 1 + m
      /\ \A j \in 1 .. (k - 1) : r[j] = list[j]
      /\ \A j \in 1 .. m : r[k - 1 + j] = items[j]
      /\ \A j \in (k + 1) .. L : r[j - 1 + m] = list[j]
  <2>1. \A z : z = Replace(list, k, items) =>
          /\ z \in Seq(ServerSessions) /\ Len(z) = Len(list) - 1 + Len(items)
          /\ \A j \in 1 .. (k - 1) : z[j] = list[j]
          /\ \A j \in 1 .. Len(items) : z[k - 1 + j] = items[j]
          /\ \A j \in (k + 1) .. Len(list) : z[j - 1 + Len(items)] = list[j]
    BY <1>1, ReplaceFacts
  <2>2. QED  BY <2>1
<1>3. k \in 1 .. L
  OBVIOUS
<1> HIDE DEF L, m
<1>4. CASE i < k
  BY <1>2, <1>4
<1>5. CASE i = k
  <2>1. 1 \in 1 .. m /\ k - 1 + 1 = i
    BY <1>1, <1>5
  <2>2. r[k - 1 + 1] = items[1]
    BY <1>2, <2>1
  <2>3. QED  BY <1>5, <2>1, <2>2
<1>6. CASE i > k /\ i <= k - 1 + m
  <2> DEFINE j == i - (k - 1)
  <2>1. j \in 1 .. m /\ j \in 2 .. m /\ k - 1 + j = i
    BY <1>1, <1>6
  <2> HIDE DEF j
  <2>2. r[i] = items[j]
    BY <1>2, <2>1
  <2>3. QED  BY <1>6, <2>1, <2>2 DEF m
<1>7. CASE i > k - 1 + m
  <2> DEFINE j == i + 1 - m
  <2>1. j \in (k + 1) .. L /\ j - 1 + m = i /\ i > k
    BY <1>1, <1>2, <1>3, <1>7
  <2> HIDE DEF j
  <2>2. r[i] = list[j]
    BY <1>2, <2>1
  <2>3. QED  BY <2>1, <2>2 DEF L
<1>8. QED  BY <1>1, <1>4, <1>5, <1>6, <1>7

\* The first of the items is where the replaced one was.
LEMMA ReplacedFirst ==
  ASSUME NEW list \in Seq(ServerSessions), NEW items \in Seq(ServerSessions), items # << >>,
         NEW k \in 1 .. Len(list), NEW r, r = Replace(list, k, items)
  PROVE  r[k] = items[1]
<1>1. Len(list) \in Nat /\ Len(items) \in Nat \ {0}
  BY LenProperties, EmptySeq
<1>2. Len(r) = Len(list) - 1 + Len(items)
  <2>1. \A z : z = Replace(list, k, items) => Len(z) = Len(list) - 1 + Len(items)
    BY ReplaceFacts
  <2>2. QED  BY <2>1
<1>3. k \in 1 .. Len(r) /\ ~(k > k) /\ ~(k \in 1 .. (k - 1))
  BY <1>1, <1>2
<1>4. QED  BY <1>3, ReplaceElements

\* When servers hold the blocks of the items and of the others, they hold all.
LEMMA ReplacedServes ==
  ASSUME NEW list \in Seq(ServerSessions), NEW items \in Seq(ServerSessions), items # << >>,
         NEW k \in 1 .. Len(list), NEW r, r = Replace(list, k, items),
         \A i \in 1 .. Len(list) : Serving(list[i]), \A i \in 1 .. Len(items) : Serving(items[i])
  PROVE  \A i \in 1 .. Len(r) : Serving(r[i])
<1> TAKE i \in 1 .. Len(r)
<1>1. Len(list) \in Nat /\ Len(items) \in Nat \ {0} /\ 1 \in 1 .. Len(items)
  BY LenProperties, EmptySeq
<1>2. \/ i \in 1 .. (k - 1) /\ r[i] = list[i]
      \/ i = k /\ r[i] = items[1]
      \/ i > k /\ \E j \in 2 .. Len(items) : r[i] = items[j]
      \/ i > k /\ \E j \in (k + 1) .. Len(list) : r[i] = list[j]
  BY ReplaceElements
<1>3. /\ i \in 1 .. (k - 1) => i \in 1 .. Len(list)
      /\ \A j \in 2 .. Len(items) : j \in 1 .. Len(items)
      /\ \A j \in (k + 1) .. Len(list) : j \in 1 .. Len(list)
  BY <1>1
<1>4. QED  BY <1>1, <1>2, <1>3

\* A new session is at rest where no token was.
LEMMA FreshRests ==
  ASSUME NEW s \in ServerSessions, Fresh(s)
  PROVE  Silent(s) /\ s.position = 0 /\ (\A T \in Seq(Tokens) : Len(T) = 0 => Resting(s, T))
<1>1. Silent(s) /\ s.position = 0 /\ s.history = << >> /\ s.kv = << >>
  BY DEF Fresh, Silent
<1>2. ASSUME NEW T \in Seq(Tokens), Len(T) = 0
      PROVE  Resting(s, T)
  <2>1. Through(T, s.start) = << >>
    <3>1. s.start \in 0 .. NumBlocks
      BY SessionFields
    <3>2. Through(T, s.start) \in Seq(Hidden) /\ Len(Through(T, s.start)) = 0
      BY <1>2, <3>1, HiddenStates
    <3>3. QED  BY <3>2, EmptySeq
  <2>2. Holds(s, s.history)
    <3>1. SubSeq(<< >>, 1, Len(<< >>)) = << >>
      <4>1. << >> \in Seq(Hidden)
        OBVIOUS
      <4>2. QED  BY <4>1, SubSeqFull
    <3>2. QED  BY <1>1, <3>1 DEF Holds
  <2>3. QED  BY <1>1, <1>2, <2>1, <2>2 DEF Resting
<1>3. QED  BY <1>1, <1>2

\* The new sessions that replace a failed one: the first inherits its history.
Inheriting(spans, history) == [spans EXCEPT ![1].history = history]

\* They are a chain over the same blocks, ready for the turn of the failed one.
LEMMA InheritingFacts ==
  ASSUME NEW s \in ServerSessions, NEW spans \in Seq(ServerSessions), Chain(spans, s.start, s.end),
         \A i \in 1 .. Len(spans) : Fresh(spans[i]) /\ Serving(spans[i]),
         NEW items, items = Inheriting(spans, s.history)
  PROVE  /\ items \in Seq(ServerSessions) /\ items # << >>
         /\ Chain(items, s.start, s.end)
         /\ Silent(items[1]) /\ items[1].position = 0
         /\ \A i \in 2 .. Len(items) : items[i] \in ServerSessions /\ Fresh(items[i])
         /\ \A i \in 1 .. Len(items) : Serving(items[i])
         /\ \A at : \A T \in Seq(Tokens), N \in Seq(Tokens) :
              Len(T) = 0 /\ InTurn(s, T, N, at) => InTurn(items[1], T, N, "stepping")
<1> DEFINE z == [spans[1] EXCEPT !.history = s.history]
<1>1. Len(spans) \in Nat \ {0} /\ 1 \in 1 .. Len(spans) /\ spans # << >>
  BY LenProperties, EmptySeq DEF Chain
<1>2. spans[1] \in ServerSessions /\ Fresh(spans[1]) /\ spans[1].start = s.start
  BY <1>1, ElementOfSeq DEF Chain
<1>3. s.history \in Seq(Hidden)
  BY SessionFields
<1>4. /\ z \in ServerSessions /\ z.start = spans[1].start /\ z.end = spans[1].end
      /\ z.server = spans[1].server /\ z.position = 0 /\ z.history = s.history /\ z.up /\ z.kv = << >>
      /\ z.request = NoMessage /\ z.reply = NoMessage
  BY <1>2, <1>3 DEF ServerSessions, Fresh
<1>5. items = [spans EXCEPT ![1] = z]
  BY DEF Inheriting
<1> HIDE DEF z
<1>6. /\ items \in Seq(ServerSessions) /\ Len(items) = Len(spans) /\ items[1] = z
      /\ \A i \in 1 .. Len(spans) : i # 1 => items[i] = spans[i]
  BY <1>1, <1>4, <1>5, OneChanged
<1>7. SameSpans(items, spans)
  BY <1>4, <1>6 DEF SameSpans
<1>8. Chain(items, s.start, s.end)
  BY <1>6, <1>7, SameChain
<1>9. Silent(items[1]) /\ items[1].position = 0 /\ items # << >>
  BY <1>1, <1>4, <1>6, EmptySeq DEF Silent
<1>10. ASSUME NEW i \in 2 .. Len(items)
       PROVE  items[i] \in ServerSessions /\ Fresh(items[i])
  <2>1. i \in 1 .. Len(spans) /\ i # 1
    BY <1>6
  <2>2. QED  BY <1>6, <2>1, ElementOfSeq
<1>11. ASSUME NEW T \in Seq(Tokens), NEW N \in Seq(Tokens), NEW at,
              Len(T) = 0, InTurn(s, T, N, at)
       PROVE  InTurn(items[1], T, N, "stepping")
  <2>1. Through(T, s.start) = << >>
    <3>1. s.start \in 0 .. NumBlocks
      BY SessionFields
    <3>2. Through(T, s.start) \in Seq(Hidden) /\ Len(Through(T, s.start)) = 0
      BY <1>11, <3>1, HiddenStates
    <3>3. QED  BY <3>2, EmptySeq
  <2>2. Holds(z, Through(T, z.start))
    <3>1. SubSeq(<< >>, 1, Len(<< >>)) = << >>
      <4>1. << >> \in Seq(Hidden)
        OBVIOUS
      <4>2. QED  BY <4>1, SubSeqFull
    <3>2. QED  BY <1>2, <1>4, <2>1, <3>1 DEF Holds
  <2>3. z.history \in {Through(T, z.start), Through(T \o N, z.start)}
    BY <1>2, <1>4, <1>11 DEF InTurn
  <2>4. QED  BY <1>4, <1>6, <1>11, <2>2, <2>3 DEF InTurn
<1>12. ASSUME NEW i \in 1 .. Len(items)
       PROVE  Serving(items[i])
  <2>1. items[i].server = spans[i].server /\ items[i].start = spans[i].start /\ items[i].end = spans[i].end
    BY <1>4, <1>6
  <2>2. Serving(spans[i])
    BY <1>6
  <2>3. QED  BY <2>1, <2>2 DEF Serving
<1>13. QED  BY <1>6, <1>8, <1>9, <1>10, <1>11, <1>12

\* What _update_sequence makes of no sessions.
LEMMA FirstRoute ==
  ASSUME InferenceInv, phase = "routing", sessions = << >>,
         NEW f \in Routes(BlockIdx, IF server_idx <= Len(sessions) THEN Current.end ELSE NumBlocks),
         UpdateSequence(f)
  PROVE  /\ outputs = << >> /\ new # << >> /\ tokens = << >> /\ server_idx = 1
         /\ inputs = StepAt(tokens, new, BlockBefore(server_idx, sessions))
         /\ phase' = "stepping" /\ UNCHANGED clientVars
         /\ sessions' \in Seq(ServerSessions) /\ Chain(sessions', 0, NumBlocks)
         /\ \A i \in 1 .. Len(sessions') : Fresh(sessions'[i]) /\ Serving(sessions'[i])
<1>1. Busy
  BY DEF Busy
<1>2. outputs = << >> /\ new # << >> /\ Len(sessions) = 0 /\ ~(\E k : k \in 1 .. 0)
  BY <1>1 DEF InferenceInv, Progress
<1>3. ~Stuck(phase, tokens, server_idx, sessions)
  BY <1>2 DEF Stuck
<1>4. /\ server_idx = 1 /\ tokens = << >>
      /\ inputs = StepAt(tokens, new, BlockBefore(server_idx, sessions))
  BY <1>1, <1>3 DEF InferenceInv, Progress, Working
<1>5. ~(server_idx <= Len(sessions)) /\ BlockIdx = 0
  BY <1>2, <1>4 DEF BlockIdx
<1> DEFINE spans == SpansOf(f, 0, NumBlocks)
<1>6. /\ sessions' = Replace(sessions, 1, spans) /\ phase' = "stepping" /\ UNCHANGED clientVars
  BY <1>4, <1>5 DEF UpdateSequence
<1>7. /\ spans \in Seq(ServerSessions) /\ Chain(spans, 0, NumBlocks)
      /\ \A i \in 1 .. Len(spans) : Fresh(spans[i]) /\ Serving(spans[i])
  <2>1. 0 \in Blocks /\ NumBlocks \in 1 .. NumBlocks /\ 0 < NumBlocks
    BY DEF Blocks
  <2>2. f \in Routes(0, NumBlocks)
    BY <1>5
  <2>3. QED  BY <2>1, <2>2, SpansChain, SpansServe
<1> HIDE DEF spans
<1>8. sessions' = spans
  <2>1. Replace(<< >>, 1, spans) = (SubSeq(<< >>, 1, 0) \o spans) \o SubSeq(<< >>, 2, 0)
    BY DEF Replace
  <2>2. /\ SubSeq(<< >>, 1, 0) \in Seq(ServerSessions) /\ Len(SubSeq(<< >>, 1, 0)) = 0
        /\ SubSeq(<< >>, 2, 0) \in Seq(ServerSessions) /\ Len(SubSeq(<< >>, 2, 0)) = 0
    <3> DEFINE t == << >>
    <3>1. (\A i \in 1 .. 0 : t[i] \in ServerSessions) /\ (\A i \in 2 .. 0 : t[i] \in ServerSessions)
      OBVIOUS
    <3> HIDE DEF t
    <3>2. /\ SubSeq(t, 1, 0) \in Seq(ServerSessions) /\ Len(SubSeq(t, 1, 0)) = 0
          /\ SubSeq(t, 2, 0) \in Seq(ServerSessions) /\ Len(SubSeq(t, 2, 0)) = 0
      BY <3>1, SubSeqProperties
    <3>3. QED  BY <3>2 DEF t
  <2>3. SubSeq(<< >>, 1, 0) = << >> /\ SubSeq(<< >>, 2, 0) = << >>
    BY <2>2, EmptySeq
  <2>4. (<< >> \o spans) \o << >> = spans
    BY <1>7, ConcatEmptySeq
  <2>5. QED  BY <1>6, <2>1, <2>3, <2>4
<1>9. QED  BY <1>2, <1>4, <1>6, <1>7, <1>8

\* The first route.
LEMMA RoutedFirst ==
  ASSUME InferenceInv, phase = "routing", sessions = << >>,
         NEW f \in Routes(BlockIdx, IF server_idx <= Len(sessions) THEN Current.end ELSE NumBlocks),
         UpdateSequence(f)
  PROVE  InferenceInv'
<1> DEFINE spans == sessions'
<1>1. /\ outputs = << >> /\ new # << >> /\ tokens = << >> /\ server_idx = 1
      /\ inputs = StepAt(tokens, new, BlockBefore(server_idx, sessions))
      /\ phase' = "stepping" /\ UNCHANGED clientVars
  BY FirstRoute
<1>2. /\ spans \in Seq(ServerSessions) /\ Chain(spans, 0, NumBlocks)
      /\ \A i \in 1 .. Len(spans) : Fresh(spans[i])
  BY FirstRoute
<1>3. /\ tokens' = tokens /\ new' = new /\ inputs' = inputs /\ server_idx' = server_idx
      /\ outputs' = outputs
  BY <1>1 DEF clientVars
<1>4. /\ tokens \in Seq(Tokens) /\ Len(tokens) = 0 /\ Len(spans) \in Nat \ {0} /\ spans # << >>
  BY <1>1, <1>2, LenProperties, EmptySeq DEF InferenceInv, InferenceTypes, Chain
<1> HIDE DEF spans
<1>5. \A i \in 1 .. Len(spans) : Resting(spans[i], tokens)
  BY <1>2, <1>4, ElementOfSeq, FreshRests
<1>6. Working("stepping", tokens, new, inputs, 1, spans)
  <2>1. BlockBefore(1, spans) = BlockBefore(server_idx, sessions) /\ 1 \in 1 .. Len(spans)
    BY <1>1, <1>4 DEF BlockBefore
  <2>2. InTurn(spans[1], tokens, new, "stepping")
    BY <1>5, <2>1, RestingIsReady
  <2>3. (\A i \in 1 .. (1 - 1) : FALSE) /\ (\A i \in (1 + 1) .. Len(spans) : i \in 1 .. Len(spans))
    BY <1>4
  <2>4. inputs = StepAt(tokens, new, BlockBefore(1, spans))
    BY <1>1, <2>1
  <2>5. \A i \in (1 + 1) .. Len(spans) : Resting(spans[i], tokens)
    BY <1>5, <2>3
  <2>6. QED  BY <1>4, <2>1, <2>2, <2>3, <2>4, <2>5 DEF Working
<1>7. Progress'
  BY <1>1, <1>2, <1>3, <1>6 DEF Progress, spans
<1>8. InferenceTypes'
  BY <1>1, <1>2, <1>3 DEF InferenceInv, InferenceTypes, spans
<1>9. OutputsRight'
  BY <1>3 DEF InferenceInv, OutputsRight
<1>10. QED  BY <1>7, <1>8, <1>9 DEF InferenceInv

\* New sessions for the blocks of the one in turn, when that has failed at the first step.
LEMMA ReroutedWorking ==
  ASSUME NEW old \in Seq(ServerSessions), old # << >>,
         NEW T \in Seq(Tokens), NEW N \in Seq(Tokens), NEW in, NEW k,
         Working("routing", T, N, in, k, old), Len(T) = 0,
         NEW items \in Seq(ServerSessions), items # << >>, InTurn(items[1], T, N, "stepping"),
         \A i \in 2 .. Len(items) : Resting(items[i], T),
         NEW list \in Seq(ServerSessions), list = Replace(old, k, items)
  PROVE  Working("stepping", T, N, in, k, list)
<1>1. /\ in = StepAt(T, N, BlockBefore(k, old)) /\ k \in 1 .. Len(old)
      /\ \A i \in 1 .. (k - 1) : Passed(old[i], T, N)
      /\ \A i \in (k + 1) .. Len(old) : Resting(old[i], T)
  BY DEF Working
<1>2. ASSUME NEW i \in 1 .. Len(list)
      PROVE  \/ i \in 1 .. (k - 1) /\ list[i] = old[i]
             \/ i = k /\ list[i] = items[1]
             \/ i > k /\ \E j \in 2 .. Len(items) : list[i] = items[j]
             \/ i > k /\ \E j \in (k + 1) .. Len(old) : list[i] = old[j]
  BY <1>1, ReplaceElements
<1>3. Len(list) = Len(old) - 1 + Len(items) /\ Len(items) \in Nat \ {0} /\ Len(old) \in Nat
  BY <1>1, ReplaceFacts, LenProperties, EmptySeq
<1>4. /\ k \in 1 .. Len(list) /\ list # << >>
      /\ \A i \in 1 .. (k - 1) : i \in 1 .. Len(list) /\ ~(i > k) /\ i # k
      /\ \A i \in (k + 1) .. Len(list) : i \in 1 .. Len(list) /\ i > k /\ i # k /\ ~(i \in 1 .. (k - 1))
      /\ ~(k \in 1 .. (k - 1)) /\ ~(k > k)
      /\ k # 1 => k - 1 \in 1 .. (k - 1)
  BY <1>1, <1>3, EmptySeq
<1>5. \A i \in 1 .. (k - 1) : list[i] = old[i] /\ Passed(list[i], T, N)
  BY <1>1, <1>2, <1>4
<1>6. InTurn(list[k], T, N, "stepping")
  BY <1>2, <1>4
<1>7. \A i \in (k + 1) .. Len(list) : Resting(list[i], T)
  BY <1>1, <1>2, <1>4
<1>8. BlockBefore(k, list) = BlockBefore(k, old)
  BY <1>4, <1>5 DEF BlockBefore
<1>9. QED  BY <1>1, <1>4, <1>5, <1>6, <1>7, <1>8 DEF Working

\* New sessions for the blocks of the one in turn, when that was at a later position or
\* replaced one that was.
LEMMA ReroutedStuck ==
  ASSUME NEW old \in Seq(ServerSessions), NEW T \in Seq(Tokens), Len(T) > 0, NEW k \in 1 .. Len(old),
         \A i \in 1 .. Len(old) : i # k => Silent(old[i]),
         NEW items \in Seq(ServerSessions), items # << >>, items[1].position = 0,
         \A i \in 1 .. Len(items) : Silent(items[i]),
         NEW list \in Seq(ServerSessions), list = Replace(old, k, items)
  PROVE  Stuck("stepping", T, k, list)
<1>1. ASSUME NEW i \in 1 .. Len(list)
      PROVE  \/ i \in 1 .. (k - 1) /\ list[i] = old[i]
             \/ i = k /\ list[i] = items[1]
             \/ i > k /\ \E j \in 2 .. Len(items) : list[i] = items[j]
             \/ i > k /\ \E j \in (k + 1) .. Len(old) : list[i] = old[j]
  BY ReplaceElements
<1>2. Len(list) = Len(old) - 1 + Len(items) /\ Len(items) \in Nat \ {0} /\ Len(old) \in Nat
  <2>1. \A z : z = Replace(old, k, items) => Len(z) = Len(old) - 1 + Len(items)
    BY ReplaceFacts
  <2>2. Len(items) \in Nat \ {0} /\ Len(old) \in Nat
    BY LenProperties, EmptySeq
  <2>3. QED  BY <2>1, <2>2
<1>3. k \in 1 .. Len(list) /\ 1 \in 1 .. Len(items)
  BY <1>2
<1>4. ASSUME NEW i \in 1 .. Len(list)
      PROVE  Silent(list[i])
  <2>1. CASE i \in 1 .. (k - 1) /\ list[i] = old[i]
    <3>1. i \in 1 .. Len(old) /\ i # k
      BY <1>2, <2>1
    <3>2. QED  BY <2>1, <3>1
  <2>2. CASE list[i] = items[1]
    BY <1>3, <2>2
  <2>3. CASE \E j \in 2 .. Len(items) : list[i] = items[j]
    <3>1. PICK j \in 2 .. Len(items) : list[i] = items[j]
      BY <2>3
    <3>2. j \in 1 .. Len(items)
      BY <1>2
    <3>3. QED  BY <3>1, <3>2
  <2>4. CASE \E j \in (k + 1) .. Len(old) : list[i] = old[j]
    <3>1. PICK j \in (k + 1) .. Len(old) : list[i] = old[j]
      BY <2>4
    <3>2. j \in 1 .. Len(old) /\ j # k
      BY <1>2
    <3>3. QED  BY <3>1, <3>2
  <2>5. QED  BY <1>1, <2>1, <2>2, <2>3, <2>4
<1>5. list[k].position = 0
  <2>1. ~(k \in 1 .. (k - 1)) /\ ~(k > k)
    OBVIOUS
  <2>2. list[k] = items[1]
    BY <1>1, <1>3, <2>1
  <2>3. QED  BY <2>2
<1>6. QED  BY <1>3, <1>4, <1>5 DEF Stuck

\* What _update_sequence puts in the place of the session in turn.
LEMMA NewRoute ==
  ASSUME InferenceInv, phase = "routing", sessions # << >>,
         NEW f \in Routes(BlockIdx, IF server_idx <= Len(sessions) THEN Current.end ELSE NumBlocks),
         UpdateSequence(f)
  PROVE  /\ server_idx \in 1 .. Len(sessions) /\ Current \in ServerSessions
         /\ phase' = "stepping" /\ UNCHANGED clientVars
         /\ \E items \in Seq(ServerSessions) :
              /\ sessions' = Replace(sessions, server_idx, items)
              /\ items # << >> /\ Chain(items, Current.start, Current.end)
              /\ Silent(items[1]) /\ items[1].position = 0
              /\ \A i \in 2 .. Len(items) : items[i] \in ServerSessions /\ Fresh(items[i])
              /\ \A i \in 1 .. Len(items) : Serving(items[i])
              /\ \A at : \A U \in Seq(Tokens), V \in Seq(Tokens) :
                   Len(U) = 0 /\ InTurn(Current, U, V, at) => InTurn(items[1], U, V, "stepping")
<1> DEFINE s == Current
           k == server_idx
           spans == SpansOf(f, s.start, s.end)
           items == Inheriting(spans, s.history)
<1>1. Busy
  BY DEF Busy
<1>2. /\ Chain(sessions, 0, NumBlocks)
      /\ \/ Stuck(phase, tokens, k, sessions)
         \/ Working(phase, tokens, new, inputs, k, sessions)
  BY <1>1 DEF InferenceInv, Progress
<1>3. sessions \in Seq(ServerSessions) /\ Len(sessions) \in Nat
  BY LenProperties DEF InferenceInv, InferenceTypes
<1>4. k \in 1 .. Len(sessions)
  BY <1>2 DEF Stuck, Working
<1>5. s \in ServerSessions /\ s = sessions[k]
  BY <1>3, <1>4, ElementOfSeq DEF Current
<1>6. /\ s.start \in Blocks /\ s.end \in 1 .. NumBlocks /\ s.start < s.end /\ BlockIdx = s.start
      /\ server_idx <= Len(sessions)
  <2>1. s.start \in Blocks /\ s.end \in 1 .. NumBlocks
    BY <1>5, SessionFields
  <2>2. s.start < s.end /\ BlockIdx = s.start
    BY <1>2, <1>3, <1>4, <1>5, ChainFacts DEF BlockIdx
  <2>3. server_idx <= Len(sessions)
    BY <1>3, <1>4
  <2>4. QED  BY <2>1, <2>2, <2>3
<1>7. sessions' = Replace(sessions, k, items) /\ phase' = "stepping" /\ UNCHANGED clientVars
  BY <1>6 DEF UpdateSequence, Inheriting
<1>8. /\ spans \in Seq(ServerSessions) /\ Chain(spans, s.start, s.end)
      /\ \A i \in 1 .. Len(spans) : Fresh(spans[i]) /\ Serving(spans[i])
  <2>1. f \in Routes(s.start, s.end)
    BY <1>6
  <2> HIDE DEF s
  <2>2. QED  BY <1>6, <2>1, SpansChain, SpansServe
<1> HIDE DEF spans
<1>9. /\ items \in Seq(ServerSessions) /\ items # << >>
      /\ Chain(items, s.start, s.end)
      /\ Silent(items[1]) /\ items[1].position = 0
      /\ \A i \in 2 .. Len(items) : items[i] \in ServerSessions /\ Fresh(items[i])
      /\ \A i \in 1 .. Len(items) : Serving(items[i])
      /\ \A at : \A U \in Seq(Tokens), V \in Seq(Tokens) :
           Len(U) = 0 /\ InTurn(s, U, V, at) => InTurn(items[1], U, V, "stepping")
  <2> HIDE DEF s
  <2>1. QED  BY <1>5, <1>8, InheritingFacts
<1> HIDE DEF items
<1>10. QED  BY <1>4, <1>5, <1>7, <1>9

\* Another route from the session in turn on.
LEMMA Rerouted ==
  ASSUME InferenceInv, phase = "routing", sessions # << >>,
         NEW f \in Routes(BlockIdx, IF server_idx <= Len(sessions) THEN Current.end ELSE NumBlocks),
         UpdateSequence(f)
  PROVE  InferenceInv'
<1> DEFINE s == Current
           k == server_idx
           T == tokens
           N == new
           list == sessions'
           L == Len(sessions)
<1>1. Busy
  BY DEF Busy
<1>2. /\ outputs = << >> /\ N # << >> /\ Chain(sessions, 0, NumBlocks)
      /\ \/ Stuck(phase, T, k, sessions)
         \/ Working(phase, T, N, inputs, k, sessions)
  BY <1>1 DEF InferenceInv, Progress
<1>3. /\ sessions \in Seq(ServerSessions) /\ T \in Seq(Tokens) /\ N \in Seq(Tokens)
      /\ Len(T) \in Nat /\ L \in Nat
  BY LenProperties DEF InferenceInv, InferenceTypes
<1>4. k \in 1 .. L /\ phase' = "stepping" /\ UNCHANGED clientVars
  BY NewRoute
<1>5. s = sessions[k]
  BY DEF Current
<1>6. PICK items \in Seq(ServerSessions) :
        /\ list = Replace(sessions, k, items)
        /\ items # << >> /\ Chain(items, s.start, s.end)
        /\ Silent(items[1]) /\ items[1].position = 0
        /\ \A i \in 2 .. Len(items) : items[i] \in ServerSessions /\ Fresh(items[i])
        /\ \A at : \A U \in Seq(Tokens), V \in Seq(Tokens) :
             Len(U) = 0 /\ InTurn(s, U, V, at) => InTurn(items[1], U, V, "stepping")
  BY NewRoute
<1>7. list = Replace(sessions, k, items) /\ phase' = "stepping" /\ UNCHANGED clientVars
  BY <1>4, <1>6
<1>8. /\ items \in Seq(ServerSessions) /\ items # << >>
      /\ Chain(items, s.start, s.end)
      /\ Silent(items[1]) /\ items[1].position = 0
      /\ \A i \in 2 .. Len(items) : items[i] \in ServerSessions /\ Fresh(items[i])
      /\ \A at : \A U \in Seq(Tokens), V \in Seq(Tokens) :
           Len(U) = 0 /\ InTurn(s, U, V, at) => InTurn(items[1], U, V, "stepping")
  BY <1>6
<1>9. list \in Seq(ServerSessions) /\ Chain(list, 0, NumBlocks)
  <2>1. list \in Seq(ServerSessions)
    BY <1>3, <1>4, <1>7, <1>8, ReplaceFacts
  <2>2. Chain(items, sessions[k].start, sessions[k].end)
    BY <1>5, <1>8
  <2>3. Chain(Replace(sessions, k, items), 0, NumBlocks)
    BY <1>2, <1>3, <1>4, <1>8, <2>2, ReplaceChain
  <2>4. QED  BY <1>7, <2>1, <2>3
<1>10. /\ tokens' = T /\ new' = N /\ inputs' = inputs /\ server_idx' = k /\ outputs' = outputs
  BY <1>7 DEF clientVars
<1>11. \A i \in 1 .. Len(items) : Silent(items[i])
  <2> TAKE i \in 1 .. Len(items)
  <2>1. CASE i = 1
    BY <1>8, <2>1
  <2>2. CASE i # 1
    <3>1. i \in 2 .. Len(items)
      BY <2>2
    <3>2. QED  BY <1>8, <3>1, FreshRests
  <2>3. QED  BY <2>1, <2>2
<1>12. CASE Len(T) > 0
  <2>1. ASSUME NEW i \in 1 .. L, i # k
        PROVE  Silent(sessions[i])
    <3>1. CASE Stuck(phase, T, k, sessions)
      BY <3>1 DEF Stuck
    <3>2. CASE Working(phase, T, N, inputs, k, sessions)
      <4>1. i \in 1 .. (k - 1) \/ i \in (k + 1) .. L
        BY <1>3, <1>4, <2>1
      <4>2. QED  BY <3>2, <4>1 DEF Working, Passed, Resting
    <3>3. QED  BY <1>2, <3>1, <3>2
  <2> HIDE DEF T, list, k, L
  <2>2. Stuck("stepping", T, k, list)
    BY <1>3, <1>4, <1>7, <1>8, <1>9, <1>11, <1>12, <2>1, ReroutedStuck DEF L
  <2>3. Progress'
    BY <1>2, <1>7, <1>9, <1>10, <2>2 DEF Progress, list
  <2>4. InferenceTypes'
    BY <1>7, <1>9, <1>10 DEF InferenceInv, InferenceTypes, T, k, list
  <2>5. OutputsRight'
    BY <1>10 DEF InferenceInv, OutputsRight, T
  <2>6. QED  BY <2>3, <2>4, <2>5 DEF InferenceInv
<1>13. CASE Len(T) = 0
  <2>1. Working("routing", T, N, inputs, k, sessions)
    BY <1>2, <1>13 DEF Stuck
  <2>2. InTurn(items[1], T, N, "stepping")
    <3>1. InTurn(s, T, N, "routing")
      BY <1>5, <2>1 DEF Working
    <3>2. QED  BY <1>3, <1>8, <1>13, <3>1
  <2>3. \A i \in 2 .. Len(items) : Resting(items[i], T)
    BY <1>3, <1>8, <1>13, FreshRests
  <2> HIDE DEF T, N, list, k, L
  <2>4. Working("stepping", T, N, inputs, k, list)
    BY <1>3, <1>7, <1>8, <1>9, <1>13, <2>1, <2>2, <2>3, ReroutedWorking
  <2>5. Progress'
    BY <1>2, <1>7, <1>9, <1>10, <2>4 DEF Progress, list
  <2>6. InferenceTypes'
    BY <1>7, <1>9, <1>10 DEF InferenceInv, InferenceTypes, T, N, k, list
  <2>7. OutputsRight'
    BY <1>10 DEF InferenceInv, OutputsRight, T
  <2>8. QED  BY <2>5, <2>6, <2>7 DEF InferenceInv
<1>14. QED  BY <1>3, <1>12, <1>13

--------------------------------------------------------------------------------
(* Theorems *)

\* The invariant holds at first.
LEMMA InferenceInitInv == InferenceInit => InferenceInv
<1> HAVE InferenceInit
<1>1. /\ phase = "idle" /\ tokens = << >> /\ new = << >> /\ inputs = << >> /\ server_idx = 1
      /\ sessions = << >> /\ outputs = << >>
  BY DEF InferenceInit
<1>2. << >> \in Seq(Tokens) /\ << >> \in Seq(Hidden) /\ << >> \in Seq(ServerSessions) /\ Len(<< >>) = 0
  OBVIOUS
<1>3. InferenceTypes
  BY <1>1, <1>2 DEF InferenceTypes
<1>4. AtRest(<< >>, << >>)
  <2>1. \A i \in 1 .. 0 : FALSE
    OBVIOUS
  <2>2. QED  BY <1>2, <2>1 DEF AtRest
<1>5. Progress
  BY <1>1, <1>4 DEF Progress, Busy
<1>6. OutputsRight
  BY <1>1, <1>2, LastNone DEF OutputsRight
<1>7. QED  BY <1>3, <1>5, <1>6 DEF InferenceInv

\* Every step keeps the invariant, if the user leaves the session after an exception.
LEMMA InferenceNextInv ==
  ASSUME ~ReuseAfterError
  PROVE  InferenceInv /\ [InferenceNext]_inferenceVars => InferenceInv'
<1> SUFFICES ASSUME InferenceInv, [InferenceNext]_inferenceVars
             PROVE  InferenceInv'
  OBVIOUS
<1>1. CASE Update
  <2>1. phase = "routing"
    BY <1>1 DEF Update
  <2>2. PICK f \in Routes(BlockIdx, IF server_idx <= Len(sessions) THEN Current.end ELSE NumBlocks) :
          UpdateSequence(f)
    BY <1>1 DEF Update
  <2>3. CASE sessions = << >>
    BY <2>1, <2>2, <2>3, RoutedFirst
  <2>4. CASE sessions # << >>
    BY <2>1, <2>2, <2>4, Rerouted
  <2>5. QED  BY <2>3, <2>4
<1>2. CASE SendInputs
  BY <1>2, SendInputsKeeps
<1>3. CASE AssertionFails
  BY <1>3, AssertionFailsKeeps
<1>4. CASE Receive
  BY <1>4, ReceiveKeeps
<1>5. CASE RequestFails
  BY <1>5, RequestFailsKeeps
<1>6. CASE GiveUp
  BY <1>6, GiveUpKeeps
<1>7. ASSUME NEW n \in 1 .. MaxLength, NEW toks \in [1 .. n -> Tokens], BeginStep(toks)
      PROVE  InferenceInv'
  <2>1. n \in Nat /\ n # 0
    OBVIOUS
  <2>2. toks \in Seq(Tokens)
    BY <2>1, SeqDef
  <2>3. Len(toks) \in Nat /\ 1 .. Len(toks) = 1 .. n
    BY <2>2, LenProperties
  <2>4. toks # << >>
    BY <2>1, <2>2, <2>3, SameLength, EmptySeq
  <2>5. QED  BY <1>7, <2>2, <2>4, BeginStepKeeps
<1>8. ASSUME NEW p \in 0 .. (position - 1), Rewind(p)
      PROVE  InferenceInv'
  BY <1>8, RewindKeeps
<1>9. CASE CloseSession
  BY <1>9, CloseSessionKeeps
<1>10. ASSUME NEW i \in 1 .. Len(sessions), ServeStep(i) \/ EndSession(i)
       PROVE  InferenceInv'
  BY <1>10, ServeStepKeeps, EndSessionKeeps
<1>11. ASSUME NEW server \in Servers, Crash(server) \/ Restart(server)
       PROVE  InferenceInv'
  BY <1>11, CrashKeeps, RestartKeeps
<1>12. CASE UNCHANGED inferenceVars
  <2>1. UNCHANGED clientVars /\ sessions' = sessions /\ phase' = phase
    BY <1>12 DEF inferenceVars
  <2>2. QED  BY <2>1, SameSessions, SomeEndKeeps
<1>13. QED
  BY <1>1, <1>2, <1>3, <1>4, <1>5, <1>6, <1>7, <1>8, <1>9, <1>10, <1>11, <1>12 DEF InferenceNext, Client, User

\* The invariant holds in every state of a session that its user leaves after an exception.
THEOREM InferenceInvHolds ==
  ASSUME ~ReuseAfterError
  PROVE  InferenceSpec => []InferenceInv
<1>1. InferenceInv /\ [InferenceNext]_inferenceVars => InferenceInv'
  BY InferenceNextInv
<1>2. QED  BY <1>1, InferenceInitInv, PTL DEF InferenceSpec

\* OutputsRight: what a step returns is what the model computes from all tokens before
\* it, whatever sessions failed, were replaced or taken back meanwhile (step of
\* client/inference_session.py), if the user leaves the session after an exception.
THEOREM SessionOutputs ==
  ASSUME ~ReuseAfterError
  PROVE  InferenceSpec => []OutputsRight
<1>1. InferenceInv => OutputsRight
  BY DEF InferenceInv
<1>2. QED  BY <1>1, InferenceInvHolds, PTL

\* CachesCoherent: between steps the client's histories and the caches of the servers
\* that are up hold the hidden states of exactly the tokens of the session, if the user
\* leaves the session after an exception.
THEOREM SessionCaches ==
  ASSUME ~ReuseAfterError
  PROVE  InferenceSpec => []CachesCoherent
<1>1. InferenceInv => CachesCoherent
  <2> SUFFICES ASSUME InferenceInv, phase = "idle", NEW i \in 1 .. Len(sessions)
               PROVE  /\ sessions[i].position = position
                      /\ sessions[i].history = Through(tokens, sessions[i].start)
                      /\ sessions[i].up =>
                           SubSeq(sessions[i].kv, 1, position) = Through(tokens, sessions[i].start)
    BY DEF CachesCoherent
  <2> DEFINE s == sessions[i]
  <2>1. Resting(s, tokens)
    BY DEF InferenceInv, Progress, AtRest
  <2>2. tokens \in Seq(Tokens) /\ s \in ServerSessions
    BY ElementOfSeq DEF InferenceInv, InferenceTypes
  <2> HIDE DEF s
  <2>3. s.start \in 0 .. NumBlocks
    BY <2>2, SessionFields
  <2>4. Len(Through(tokens, s.start)) = Len(tokens)
    BY <2>2, <2>3, HiddenStates
  <2>5. QED  BY <2>1, <2>4 DEF Resting, Holds, position, s
<1>2. QED  BY <1>1, InferenceInvHolds, PTL

--------------------------------------------------------------------------------
(* Sessions that are not where the client is *)

\* The session in turn is not where the client is.
Misplaced == Busy /\ sessions # << >> /\ Current.position # position

\* The tokens stay, and if the step goes on, the session in turn is the same and misplaced.
StillMisplaced ==
  /\ tokens' = tokens
  /\ Busy' => server_idx' = server_idx /\ (Current.position # position)'

\* It is one that replaced another at a later position.
LEMMA MisplacedIsStuck ==
  ASSUME InferenceInv, Misplaced
  PROVE  /\ Stuck(phase, tokens, server_idx, sessions)
         /\ server_idx \in 1 .. Len(sessions) /\ Len(tokens) > 0
         /\ phase \in {"routing", "stepping"}
<1>1. Busy /\ sessions # << >> /\ Current.position # Len(tokens)
  BY DEF Misplaced, position
<1>2. ~Working(phase, tokens, new, inputs, server_idx, sessions)
  BY <1>1 DEF Working, InTurn, Current
<1>3. Stuck(phase, tokens, server_idx, sessions)
  BY <1>1, <1>2 DEF InferenceInv, Progress
<1>4. QED  BY <1>3 DEF Stuck

\* Sessions that end stay at their positions.
LEMMA EndedMisplaced ==
  ASSUME InferenceInv, Misplaced, UNCHANGED clientVars,
         sessions' \in Seq(ServerSessions), SomeEnded(sessions', sessions)
  PROVE  StillMisplaced
<1>1. tokens' = tokens /\ server_idx' = server_idx
  BY DEF clientVars
<1>2. server_idx \in 1 .. Len(sessions) /\ sessions \in Seq(ServerSessions)
  BY MisplacedIsStuck DEF InferenceInv, InferenceTypes
<1>3. sessions'[server_idx].position = sessions[server_idx].position
  BY <1>2, SomeEndedFacts
<1>4. QED  BY <1>1, <1>3 DEF StillMisplaced, Misplaced, Current, position

\* Another route leads to sessions that start from the first token.
LEMMA ReroutedMisplaced ==
  ASSUME InferenceInv, Misplaced, Update
  PROVE  StillMisplaced
<1>1. /\ server_idx \in 1 .. Len(sessions) /\ Len(tokens) > 0
      /\ sessions \in Seq(ServerSessions) /\ sessions # << >>
  BY MisplacedIsStuck DEF InferenceInv, InferenceTypes, Misplaced
<1>2. phase = "routing"
  BY DEF Update
<1>3. PICK f \in Routes(BlockIdx, IF server_idx <= Len(sessions) THEN Current.end ELSE NumBlocks) :
        UpdateSequence(f)
  BY DEF Update
<1>4. UNCHANGED clientVars
  BY <1>1, <1>2, <1>3, NewRoute
<1>5. PICK items \in Seq(ServerSessions) :
        /\ sessions' = Replace(sessions, server_idx, items)
        /\ items # << >> /\ items[1].position = 0
  BY <1>1, <1>2, <1>3, NewRoute
<1>6. sessions'[server_idx] = items[1]
  BY <1>1, <1>5, ReplacedFirst
<1>7. tokens' = tokens /\ server_idx' = server_idx
  BY <1>4 DEF clientVars
<1>8. QED  BY <1>1, <1>5, <1>6, <1>7 DEF StillMisplaced, Current, position

\* Nothing else can be done.
LEMMA StaysMisplaced ==
  ASSUME ~ReuseAfterError, InferenceInv, Misplaced, [InferenceNext]_inferenceVars
  PROVE  StillMisplaced
<1>1. phase \in {"routing", "stepping"} /\ Current.position # position
  BY MisplacedIsStuck DEF Misplaced
<1>2. sessions \in Seq(ServerSessions)
  BY DEF InferenceInv, InferenceTypes
<1>3. CASE Update
  BY <1>3, ReroutedMisplaced
<1>4. CASE SendInputs
  BY <1>1, <1>4 DEF SendInputs
<1>5. CASE AssertionFails
  <2>1. sessions' = sessions /\ UNCHANGED clientVars
    BY <1>5 DEF AssertionFails
  <2>2. QED  BY <2>1, SameSessions, EndedMisplaced
<1>6. CASE Receive \/ RequestFails
  BY <1>1, <1>6 DEF Receive, RequestFails
<1>7. CASE GiveUp
  BY <1>7 DEF GiveUp, StillMisplaced, Busy
<1>8. CASE User
  BY <1>1, <1>8 DEF User, BeginStep, Rewind, CloseSession
<1>9. ASSUME NEW i \in 1 .. Len(sessions), ServeStep(i)
      PROVE  StillMisplaced
  <2>1. phase = "awaiting"
    BY <1>9, AskedInTurn DEF ServeStep
  <2>2. QED  BY <1>1, <2>1
<1>10. ASSUME NEW i \in 1 .. Len(sessions), EndSession(i)
       PROVE  StillMisplaced
  <2>1. sessions' = [sessions EXCEPT ![i] = Ended(@)] /\ UNCHANGED clientVars
    BY <1>10 DEF EndSession
  <2>2. sessions' \in Seq(ServerSessions) /\ SomeEnded(sessions', sessions)
    BY <1>2, <2>1, OneEnded
  <2>3. QED  BY <2>1, <2>2, EndedMisplaced
<1>11. ASSUME NEW server \in Servers, Crash(server)
       PROVE  StillMisplaced
  BY <1>11, CrashEnds, EndedMisplaced
<1>12. ASSUME NEW server \in Servers, Restart(server)
       PROVE  StillMisplaced
  <2>1. sessions' = sessions /\ UNCHANGED clientVars
    BY <1>12 DEF Restart
  <2>2. QED  BY <2>1, SameSessions, EndedMisplaced
<1>13. CASE UNCHANGED inferenceVars
  <2>1. UNCHANGED clientVars /\ sessions' = sessions
    BY <1>13 DEF inferenceVars
  <2>2. QED  BY <2>1, SameSessions, EndedMisplaced
<1>14. QED
  BY <1>3, <1>4, <1>5, <1>6, <1>7, <1>8, <1>9, <1>10, <1>11, <1>12, <1>13 DEF InferenceNext, Client

\* MisplacedNeverSteps: a session that is not where the client is (_ServerInferenceSession
\* starts at _position 0, line 59 of client/inference_session.py) is a dead end: whatever
\* _update_sequence puts in its place is misplaced too, and the step never passes it, if
\* the user leaves the session after an exception.
THEOREM SessionDeadEnd ==
  ASSUME ~ReuseAfterError
  PROVE  InferenceSpec => MisplacedNeverSteps
<1>1. InferenceInv /\ [InferenceNext]_inferenceVars => (Misplaced => StillMisplaced)
  BY StaysMisplaced
<1>2. InferenceInv /\ [InferenceNext]_inferenceVars =>
        [Misplaced => StillMisplaced]_inferenceVars
  BY <1>1
<1>3. InferenceSpec => [][Misplaced => StillMisplaced]_inferenceVars
  BY <1>2, InferenceInvHolds, PTL DEF InferenceSpec
<1>4. QED  BY <1>3 DEF MisplacedNeverSteps, Misplaced, StillMisplaced
--------------------------------------------------------------------------------
(* Type correctness of the inference session *)

\* Each session is with a server that holds its blocks.
AllServing(list) == \A i \in 1 .. Len(list) : Serving(list[i])

\* What the types say beyond InferenceInv: the first session has the first turn, and all
\* the tokens fit in the session.
Routed ==
  /\ phase = "idle" => server_idx = 1
  /\ Len(tokens) + Len(new) <= MaxLength
  /\ running \in [Servers -> BOOLEAN]
  /\ failures \in 0 .. MaxFailures
  /\ AllServing(sessions)

\* The sessions of two lists have the same servers and blocks.
SameRoute(list, old) ==
  /\ Len(list) = Len(old)
  /\ \A i \in 1 .. Len(old) : /\ list[i].server = old[i].server
                              /\ list[i].start = old[i].start /\ list[i].end = old[i].end

\* Then they are served alike.
LEMMA SameRouteServes ==
  ASSUME NEW old, NEW list, SameRoute(list, old), AllServing(old)
  PROVE  AllServing(list)
BY DEF SameRoute, AllServing, Serving

\* Sessions that end do not change their route.
LEMMA EndedRoute ==
  ASSUME NEW old \in Seq(ServerSessions), NEW list \in Seq(ServerSessions), SomeEnded(list, old)
  PROVE  SameRoute(list, old)
<1>1. Len(list) = Len(old)
  BY DEF SomeEnded
<1>2. ASSUME NEW i \in 1 .. Len(old)
      PROVE  /\ list[i].server = old[i].server
             /\ list[i].start = old[i].start /\ list[i].end = old[i].end
  <2>1. old[i] \in ServerSessions /\ (list[i] = old[i] \/ list[i] = Ended(old[i]))
    BY ElementOfSeq DEF SomeEnded
  <2>2. /\ Ended(old[i]).server = old[i].server
        /\ Ended(old[i]).start = old[i].start /\ Ended(old[i]).end = old[i].end
    BY <2>1 DEF Ended, ServerSessions
  <2>3. QED  BY <2>1, <2>2
<1>3. QED  BY <1>1, <1>2 DEF SameRoute

\* One session changes, but not its server and blocks.
LEMMA OneRoute ==
  ASSUME NEW old \in Seq(ServerSessions), NEW list \in Seq(ServerSessions), NEW k \in 1 .. Len(old),
         NEW s, list = [old EXCEPT ![k] = s],
         s.server = old[k].server, s.start = old[k].start, s.end = old[k].end
  PROVE  SameRoute(list, old)
<1>1. /\ Len(old) \in Nat /\ DOMAIN old = 1 .. Len(old)
      /\ Len(list) \in Nat /\ DOMAIN list = 1 .. Len(list)
  BY LenProperties
<1>2. DOMAIN list = DOMAIN old
  OBVIOUS
<1>3. Len(list) = Len(old)
  BY <1>1, <1>2, SameLength
<1>4. \A i \in 1 .. Len(old) : list[i] = IF i = k THEN s ELSE old[i]
  BY <1>1
<1>5. QED  BY <1>3, <1>4 DEF SameRoute

\* What is left of Routed when nothing else changes.
LEMMA RouteStays ==
  ASSUME Routed, SameRoute(sessions', sessions), UNCHANGED clientVars, phase' # "idle" \/ phase' = phase,
         running' \in [Servers -> BOOLEAN], failures' \in 0 .. MaxFailures
  PROVE  Routed'
<1>1. tokens' = tokens /\ new' = new /\ server_idx' = server_idx
  BY DEF clientVars
<1>2. AllServing(sessions')
  BY SameRouteServes DEF Routed
<1>3. QED  BY <1>1, <1>2 DEF Routed

\* Sessions end.
LEMMA EndedRouted ==
  ASSUME Routed, sessions \in Seq(ServerSessions),
         sessions' \in Seq(ServerSessions), SomeEnded(sessions', sessions),
         UNCHANGED clientVars, phase' # "idle" \/ phase' = phase,
         running' \in [Servers -> BOOLEAN], failures' \in 0 .. MaxFailures
  PROVE  Routed'
<1>1. SameRoute(sessions', sessions)
  BY EndedRoute
<1>2. QED  BY <1>1, RouteStays

\* _update_sequence routes through servers that hold the blocks.
LEMMA UpdateRouted ==
  ASSUME InferenceInv, Routed, Update
  PROVE  Routed'
<1>1. phase = "routing" /\ running' = running /\ failures' = failures
  BY DEF Update, UpdateSequence
<1>2. PICK f \in Routes(BlockIdx, IF server_idx <= Len(sessions) THEN Current.end ELSE NumBlocks) :
        UpdateSequence(f)
  BY DEF Update
<1>3. phase' = "stepping" /\ UNCHANGED clientVars
  BY <1>2 DEF UpdateSequence
<1>4. AllServing(sessions')
  <2>1. CASE sessions = << >>
    BY <1>1, <1>2, <2>1, FirstRoute DEF AllServing
  <2>2. CASE sessions # << >>
    <3>1. server_idx \in 1 .. Len(sessions)
      BY <1>1, <1>2, <2>2, NewRoute
    <3>2. PICK items \in Seq(ServerSessions) :
            /\ sessions' = Replace(sessions, server_idx, items)
            /\ items # << >>
            /\ \A i \in 1 .. Len(items) : Serving(items[i])
      BY <1>1, <1>2, <2>2, NewRoute
    <3>3. sessions \in Seq(ServerSessions)
      BY DEF InferenceInv, InferenceTypes
    <3>4. QED  BY <3>1, <3>2, <3>3, ReplacedServes DEF Routed, AllServing
  <2>3. QED  BY <2>1, <2>2
<1>5. tokens' = tokens /\ new' = new
  BY <1>3 DEF clientVars
<1>6. QED  BY <1>1, <1>3, <1>4, <1>5 DEF Routed

\* The inputs are sent.
LEMMA SendInputsRouted ==
  ASSUME InferenceInv, InferenceInv', Routed, SendInputs
  PROVE  Routed'
<1> DEFINE history == HistoryWith(Current)
           request == [start_from_position |-> Current.position,
                       inputs |-> IF Current.stepped THEN inputs ELSE history]
           s == [sessions[server_idx] EXCEPT !.history = history, !.stepped = TRUE, !.request = request]
<1>1. /\ phase = "stepping" /\ phase' = "awaiting"
      /\ UNCHANGED clientVars /\ running' = running /\ failures' = failures
      /\ sessions' = [sessions EXCEPT ![server_idx].history = history,
                                      ![server_idx].stepped = TRUE,
                                      ![server_idx].request = request]
  BY DEF SendInputs
<1>2. server_idx \in 1 .. Len(sessions)
  BY <1>1, SilentBefore
<1> HIDE DEF history, request
<1>3. sessions' = [sessions EXCEPT ![server_idx] = s]
  BY <1>1
<1>4. sessions \in Seq(ServerSessions) /\ sessions' \in Seq(ServerSessions)
  BY DEF InferenceInv, InferenceTypes
<1>5. sessions[server_idx] \in ServerSessions
  BY <1>2, <1>4, ElementOfSeq
<1>6. /\ s.server = sessions[server_idx].server
      /\ s.start = sessions[server_idx].start /\ s.end = sessions[server_idx].end
  BY <1>5 DEF ServerSessions
<1> HIDE DEF s
<1>7. SameRoute(sessions', sessions)
  BY <1>2, <1>3, <1>4, <1>6, OneRoute
<1>8. running' \in [Servers -> BOOLEAN] /\ failures' \in 0 .. MaxFailures
  BY <1>1 DEF Routed
<1>9. QED  BY <1>1, <1>7, <1>8, RouteStays

\* The answer arrives.
LEMMA ReceiveRouted ==
  ASSUME InferenceInv, InferenceInv', Routed, Receive
  PROVE  Routed'
<1> DEFINE s == [sessions[server_idx] EXCEPT
                   !.position = sessions[server_idx].position + Len(inputs), !.reply = NoMessage]
<1>1. phase = "awaiting" /\ running' = running /\ failures' = failures
  BY DEF Receive
<1>2. server_idx \in 1 .. Len(sessions)
  BY <1>1, Awaiting
<1>3. sessions' = [sessions EXCEPT ![server_idx] = s]
  BY DEF Receive
<1>4. sessions \in Seq(ServerSessions) /\ sessions' \in Seq(ServerSessions)
  BY DEF InferenceInv, InferenceTypes
<1>5. sessions[server_idx] \in ServerSessions
  BY <1>2, <1>4, ElementOfSeq
<1>6. /\ s.server = sessions[server_idx].server
      /\ s.start = sessions[server_idx].start /\ s.end = sessions[server_idx].end
  BY <1>5 DEF ServerSessions
<1> HIDE DEF s
<1>7. AllServing(sessions')
  <2>1. SameRoute(sessions', sessions)
    BY <1>2, <1>3, <1>4, <1>6, OneRoute
  <2>2. QED  BY <2>1, SameRouteServes DEF Routed
<1>8. Len(tokens') + Len(new') <= MaxLength
  <2>1. tokens \in Seq(Tokens) /\ new \in Seq(Tokens) /\ Len(tokens) + Len(new) <= MaxLength
    BY DEF InferenceInv, InferenceTypes, Routed
  <2>2. Len(tokens \o new) = Len(tokens) + Len(new) /\ Len(<< >>) = 0 /\ Len(tokens) + Len(new) \in Nat
    BY <2>1, ConcatProperties, LenProperties
  <2>3. (tokens' = tokens /\ new' = new) \/ (tokens' = tokens \o new /\ new' = << >>)
    BY DEF Receive
  <2>4. QED  BY <2>1, <2>2, <2>3
<1>9. phase' = "idle" => server_idx' = 1
  BY DEF Receive
<1>10. QED  BY <1>1, <1>7, <1>8, <1>9 DEF Routed

\* A server serves a step, or ends its session.
LEMMA ServeStepRouted ==
  ASSUME InferenceInv, InferenceInv', Routed, NEW i \in 1 .. Len(sessions), ServeStep(i)
  PROVE  Routed'
<1> DEFINE kv == Cached(sessions[i].kv, sessions[i].request)
           reply == LastOf(Through(kv, sessions[i].end - sessions[i].start), Len(sessions[i].request.inputs))
           s == [sessions[i] EXCEPT !.kv = kv, !.request = NoMessage, !.reply = reply]
<1>1. /\ phase' = phase /\ UNCHANGED clientVars /\ running' = running /\ failures' = failures
      /\ \/ sessions' = [sessions EXCEPT ![i] = s]
         \/ sessions' = [sessions EXCEPT ![i] = Ended(@)]
  BY DEF ServeStep
<1>2. sessions \in Seq(ServerSessions) /\ sessions' \in Seq(ServerSessions)
  BY DEF InferenceInv, InferenceTypes
<1> HIDE DEF kv, reply
<1>3. sessions[i] \in ServerSessions
  BY <1>2, ElementOfSeq
<1>4. s.server = sessions[i].server /\ s.start = sessions[i].start /\ s.end = sessions[i].end
  BY <1>3 DEF ServerSessions
<1> HIDE DEF s
<1>5. SameRoute(sessions', sessions)
  <2>1. CASE sessions' = [sessions EXCEPT ![i] = s]
    BY <1>2, <1>4, <2>1, OneRoute
  <2>2. CASE sessions' = [sessions EXCEPT ![i] = Ended(@)]
    <3>1. SomeEnded(sessions', sessions)
      BY <1>2, <2>2, OneEnded
    <3>2. QED  BY <1>2, <3>1, EndedRoute
  <2>3. QED  BY <1>1, <2>1, <2>2
<1>6. running' \in [Servers -> BOOLEAN] /\ failures' \in 0 .. MaxFailures
  BY <1>1 DEF Routed
<1>7. QED  BY <1>1, <1>5, <1>6, RouteStays

\* The user goes back.
LEMMA RewindRouted ==
  ASSUME InferenceInv, InferenceInv', Routed, NEW p \in 0 .. (position - 1), Rewind(p)
  PROVE  Routed'
<1>1. /\ phase' = phase /\ server_idx' = server_idx /\ new' = new
      /\ tokens' = SubSeq(tokens, 1, p) /\ running' = running /\ failures' = failures
      /\ sessions' = [i \in 1 .. Len(sessions) |-> Rewound(sessions[i], p)]
  BY DEF Rewind
<1>2. /\ sessions \in Seq(ServerSessions) /\ sessions' \in Seq(ServerSessions)
      /\ tokens \in Seq(Tokens) /\ new \in Seq(Tokens) /\ tokens' \in Seq(Tokens)
  BY DEF InferenceInv, InferenceTypes
<1>3. SameRoute(sessions', sessions)
  <2>1. Len(sessions) \in Nat /\ Len(sessions') \in Nat /\ DOMAIN sessions' = 1 .. Len(sessions')
    BY <1>2, LenProperties
  <2>2. Len(sessions') = Len(sessions)
    BY <1>1, <2>1, SameLength
  <2>3. ASSUME NEW i \in 1 .. Len(sessions)
        PROVE  /\ sessions'[i].server = sessions[i].server
               /\ sessions'[i].start = sessions[i].start /\ sessions'[i].end = sessions[i].end
    <3>1. sessions[i] \in ServerSessions /\ sessions'[i] = Rewound(sessions[i], p)
      BY <1>1, <1>2, ElementOfSeq
    <3>2. /\ Rewound(sessions[i], p).server = sessions[i].server
          /\ Rewound(sessions[i], p).start = sessions[i].start
          /\ Rewound(sessions[i], p).end = sessions[i].end
      BY <3>1 DEF Rewound, ServerSessions
    <3>3. QED  BY <3>1, <3>2
  <2>4. QED  BY <2>2, <2>3 DEF SameRoute
<1>4. Len(tokens') <= Len(tokens)
  <2>1. Len(tokens) \in Nat /\ p \in 0 .. (Len(tokens) - 1)
    BY <1>2, LenProperties DEF position
  <2>2. IsList(SubSeq(tokens, 1, p), p)
    BY <2>1, ListPrefix
  <2>3. DOMAIN tokens' = 1 .. p /\ Len(tokens') \in Nat /\ DOMAIN tokens' = 1 .. Len(tokens')
    BY <1>1, <1>2, <2>2, LenProperties DEF IsList
  <2>4. Len(tokens') = p
    BY <2>1, <2>3, SameLength
  <2>5. QED  BY <2>1, <2>4
<1>5. Len(tokens') + Len(new') <= MaxLength
  <2>1. Len(tokens) \in Nat /\ Len(new) \in Nat /\ Len(tokens') \in Nat /\ Len(tokens) + Len(new) <= MaxLength
    BY <1>2, LenProperties DEF Routed
  <2>2. QED  BY <1>1, <1>4, <2>1
<1>6. AllServing(sessions')
  BY <1>3, SameRouteServes DEF Routed
<1>7. QED  BY <1>1, <1>5, <1>6 DEF Routed

\* step() raises, the user leaves, or a step begins.
LEMMA UserRouted ==
  ASSUME ~ReuseAfterError, InferenceInv, Routed,
         GiveUp \/ CloseSession \/ \E toks : BeginStep(toks)
  PROVE  Routed'
<1>1. AllServing(<< >>)
  BY DEF AllServing
<1>2. CASE GiveUp
  <2>1. /\ phase' = "closed" /\ sessions' = << >> /\ new' = << >> /\ tokens' = tokens
        /\ running' = running /\ failures' = failures
    BY <1>2 DEF GiveUp
  <2>2. Len(tokens) \in Nat /\ Len(new) \in Nat /\ Len(<< >>) = 0 /\ Len(tokens) + Len(new) <= MaxLength
    BY LenProperties DEF InferenceInv, InferenceTypes, Routed
  <2>3. Len(tokens') + Len(new') <= MaxLength
    BY <2>1, <2>2
  <2>4. QED  BY <1>1, <2>1, <2>3 DEF Routed
<1>3. CASE CloseSession
  <2>1. /\ phase' = "closed" /\ sessions' = << >> /\ new' = new /\ tokens' = tokens
        /\ running' = running /\ failures' = failures
    BY <1>3 DEF CloseSession, clientVars
  <2>2. QED  BY <1>1, <2>1 DEF Routed
<1>4. ASSUME NEW toks, BeginStep(toks)
      PROVE  Routed'
  <2>1. /\ phase' # "idle" /\ sessions' = sessions /\ new' = toks /\ tokens' = tokens
        /\ running' = running /\ failures' = failures /\ Len(tokens) + Len(toks) <= MaxLength
    BY <1>4 DEF BeginStep, position
  <2>2. QED  BY <2>1 DEF Routed
<1>5. QED  BY <1>2, <1>3, <1>4

\* Every step keeps the routes.
LEMMA RoutedNext ==
  ASSUME ~ReuseAfterError, InferenceInv, InferenceInv', Routed, [InferenceNext]_inferenceVars
  PROVE  Routed'
<1>1. sessions \in Seq(ServerSessions) /\ sessions' \in Seq(ServerSessions)
  BY DEF InferenceInv, InferenceTypes
<1>2. running \in [Servers -> BOOLEAN] /\ failures \in 0 .. MaxFailures
  BY DEF Routed
<1>3. failures < MaxFailures => failures + 1 \in 0 .. MaxFailures
  BY <1>2
<1>4. CASE Update
  BY <1>4, UpdateRouted
<1>5. CASE SendInputs
  BY <1>5, SendInputsRouted
<1>6. CASE AssertionFails
  <2>1. /\ sessions' = sessions /\ UNCHANGED clientVars /\ phase' = "routing"
        /\ running' = running /\ failures' = failures
    BY <1>6 DEF AssertionFails
  <2>2. QED  BY <1>1, <1>2, <2>1, SameSessions, EndedRouted
<1>7. CASE Receive
  BY <1>7, ReceiveRouted
<1>8. CASE RequestFails
  <2>1. /\ phase = "awaiting" /\ phase' = "routing" /\ UNCHANGED clientVars /\ running' = running
        /\ \/ sessions' = sessions /\ failures' = failures
           \/ /\ sessions' = [sessions EXCEPT ![server_idx] = Ended(@)]
              /\ failures < MaxFailures /\ failures' = failures + 1
    BY <1>8 DEF RequestFails
  <2>2. SomeEnded(sessions', sessions)
    <3>1. server_idx \in 1 .. Len(sessions)
      BY <2>1, Awaiting
    <3>2. QED  BY <1>1, <2>1, <3>1, SameSessions, OneEnded
  <2>3. running' \in [Servers -> BOOLEAN] /\ failures' \in 0 .. MaxFailures
    BY <1>2, <1>3, <2>1
  <2>4. QED  BY <1>1, <2>1, <2>2, <2>3, EndedRouted
<1>9. CASE GiveUp \/ CloseSession \/ \E toks : BeginStep(toks)
  BY <1>9, UserRouted
<1>10. ASSUME NEW p \in 0 .. (position - 1), Rewind(p)
       PROVE  Routed'
  BY <1>10, RewindRouted
<1>11. ASSUME NEW i \in 1 .. Len(sessions), ServeStep(i)
       PROVE  Routed'
  BY <1>11, ServeStepRouted
<1>12. ASSUME NEW i \in 1 .. Len(sessions), EndSession(i)
       PROVE  Routed'
  <2>1. /\ sessions' = [sessions EXCEPT ![i] = Ended(@)] /\ UNCHANGED clientVars /\ phase' = phase
        /\ running' = running /\ failures < MaxFailures /\ failures' = failures + 1
    BY <1>12 DEF EndSession
  <2>2. SomeEnded(sessions', sessions)
    BY <1>1, <2>1, OneEnded
  <2>3. running' \in [Servers -> BOOLEAN] /\ failures' \in 0 .. MaxFailures
    BY <1>2, <1>3, <2>1
  <2>4. QED  BY <1>1, <2>1, <2>2, <2>3, EndedRouted
<1>13. ASSUME NEW server \in Servers, Crash(server)
       PROVE  Routed'
  <2>1. failures < MaxFailures /\ failures' = failures + 1 /\ running' = [running EXCEPT ![server] = FALSE]
    BY <1>13 DEF Crash
  <2>2. running' \in [Servers -> BOOLEAN] /\ failures' \in 0 .. MaxFailures
    BY <1>2, <1>3, <2>1
  <2>3. phase' = phase /\ UNCHANGED clientVars /\ SomeEnded(sessions', sessions)
    BY <1>13, CrashEnds
  <2>4. QED  BY <1>1, <2>2, <2>3, EndedRouted
<1>14. ASSUME NEW server \in Servers, Restart(server)
       PROVE  Routed'
  <2>1. /\ sessions' = sessions /\ UNCHANGED clientVars /\ phase' = phase
        /\ running' = [running EXCEPT ![server] = TRUE] /\ failures' = failures
    BY <1>14 DEF Restart
  <2>2. running' \in [Servers -> BOOLEAN] /\ failures' \in 0 .. MaxFailures
    BY <1>2, <2>1
  <2>3. QED  BY <1>1, <2>1, <2>2, SameSessions, EndedRouted
<1>15. CASE UNCHANGED inferenceVars
  <2>1. /\ sessions' = sessions /\ UNCHANGED clientVars /\ phase' = phase
        /\ running' = running /\ failures' = failures
    BY <1>15 DEF inferenceVars
  <2>2. QED  BY <1>1, <1>2, <2>1, SameSessions, EndedRouted
<1>16. QED
  BY <1>4, <1>5, <1>6, <1>7, <1>8, <1>9, <1>10, <1>11, <1>12, <1>13, <1>14, <1>15
  DEF InferenceNext, Client, User

\* InferenceTypeOK: the server sessions are a chain from the first block to the last, each
\* with a server that holds its blocks (_update_sequence and make_sequence), and the tokens
\* fit in max_length (step of client/inference_session.py).
THEOREM InferenceTypeCorrect ==
  ASSUME ~ReuseAfterError
  PROVE  InferenceSpec => []InferenceTypeOK
<1>1. InferenceInit => Routed
  <2> SUFFICES ASSUME InferenceInit  PROVE Routed
    OBVIOUS
  <2>1. /\ phase = "idle" /\ tokens = << >> /\ new = << >> /\ server_idx = 1 /\ sessions = << >>
        /\ running \in [Servers -> BOOLEAN] /\ failures = 0
    BY DEF InferenceInit
  <2>2. Len(<< >>) = 0 /\ Len(<< >>) + Len(<< >>) <= MaxLength /\ 0 \in 0 .. MaxFailures
    OBVIOUS
  <2>3. AllServing(<< >>)
    BY DEF AllServing
  <2>4. QED  BY <2>1, <2>2, <2>3 DEF Routed
<1>2. InferenceInv /\ InferenceInv' /\ Routed /\ [InferenceNext]_inferenceVars => Routed'
  BY RoutedNext
<1>3. InferenceInv /\ Routed => InferenceTypeOK
  <2> SUFFICES ASSUME InferenceInv, Routed  PROVE InferenceTypeOK
    OBVIOUS
  <2>1. /\ phase \in {"idle", "routing", "stepping", "awaiting", "closed"}
        /\ tokens \in Seq(Tokens) /\ new \in Seq(Tokens) /\ sessions \in Seq(ServerSessions)
        /\ Len(tokens) \in Nat /\ Len(new) \in Nat /\ Len(sessions) \in Nat
    BY LenProperties DEF InferenceInv, InferenceTypes
  <2>2. Len(tokens) \in 0 .. MaxLength /\ Len(new) \in 0 .. MaxLength
    BY <2>1 DEF Routed
  <2>3. tokens \in [1 .. Len(tokens) -> Tokens] /\ new \in [1 .. Len(new) -> Tokens]
    BY <2>1, LenProperties
  <2>4. tokens \in States /\ new \in States
    BY <2>2, <2>3 DEF States
  <2>5. ASSUME sessions # << >>
        PROVE  /\ sessions[1].start = 0
               /\ sessions[Len(sessions)].end = NumBlocks
               /\ \A i \in 1 .. (Len(sessions) - 1) : sessions[i].end = sessions[i + 1].start
    BY <2>5 DEF InferenceInv, Progress, Chain
  <2>6. ASSUME sessions # << >>
        PROVE  server_idx \in 1 .. Len(sessions)
    <3>1. CASE phase = "idle"
      <4>1. Len(sessions) # 0
        BY <2>1, <2>6, EmptySeq
      <4>2. QED  BY <2>1, <3>1, <4>1 DEF Routed
    <3>2. CASE phase = "closed"
      BY <2>6, <3>2 DEF InferenceInv, Progress
    <3>3. CASE Busy
      BY <2>6, <3>3 DEF InferenceInv, Progress, Stuck, Working
    <3>4. QED  BY <3>1, <3>2, <3>3 DEF Busy
  <2>7. \A i \in 1 .. Len(sessions) :
           sessions[i].start .. (sessions[i].end - 1) \subseteq Serves[sessions[i].server]
    BY DEF Routed, AllServing, Serving
  <2>8. QED  BY <2>1, <2>4, <2>5, <2>6, <2>7 DEF InferenceTypeOK, Routed
<1>4. InferenceSpec => [](InferenceInv /\ Routed)
  BY <1>1, <1>2, InferenceInvHolds, PTL DEF InferenceSpec
<1>5. QED  BY <1>3, <1>4, PTL
====================================================================================
