---------------------------- MODULE SequentialAutograd ----------------------------
(***************************************************************************)
(* Forward and backward passes through the swarm                           *)
(* (client/sequential_autograd.py, remote_forward_backward.py), over the   *)
(* routing table of SequenceManager.                                       *)
(*                                                                         *)
(* The batches of one call are coroutines of one event loop.  They give it *)
(* up while a request runs or a retry is delayed, never within             *)
(* make_sequence, which waits for the update thread with the loop blocked. *)
(* max_retries has its default, no limit.                                  *)
(*                                                                         *)
(* A tensor is the sequence of the blocks it has gone through.  The        *)
(* gradient of a block is right when the block gets the input that it had  *)
(* in the forward pass and the gradient that the next block returned.      *)
(***************************************************************************)
EXTENDS SequenceManager, SequencesExt

CONSTANT Batches

ASSUME AutogradAssumption == IsFiniteSet(Batches) /\ None \notin Batches

VARIABLES
  main,    \* the calling thread: reads rpc_info ("info", "waiting"), then waits for the batches
  maker,   \* the batch that is in make_sequence
  route,   \* span_sequence of make_sequence
  batch    \* batch[b]: the coroutine of batch b

autogradVars == <<main, maker, route, batch>>
vars == <<managerVars, autogradVars>>

\* A coroutine: what it does; its inputs; the window that it has still to pass; the
\* sequences it has left; attempt_no >= 1; the requests it has done, with their
\* inputs; the ones that a repeated backward has made again; the request of the
\* backward; the gradients it has, last block first.
Idle == [mode |-> "forward", inputs |-> <<>>, index |-> 1, end |-> NumBlocks + 1,
         sequences |-> <<>>, again |-> FALSE, done |-> <<>>, backup |-> <<>>,
         current |-> None, grads |-> <<>>]

Set(b, c) == batch' = [batch EXCEPT ![b] = c]
Runs(b, modes) == main = "batches" /\ maker = None /\ batch[b].mode \in modes
Passed(inputs, s) == inputs \o [i \in 1 .. (s.end - s.start) |-> s.start + i - 1]

\* A request raises: whoever was asked could not answer, or the request is lost.
Raises(answered) == \/ ~answered /\ UNCHANGED faults
                    \/ faults < MaxFaults /\ faults' = faults + 1

--------------------------------------------------------------------------------
(* rpc_info, read before the batches are started *)

ReadInfo ==
  /\ main = "info"
  /\ RequestUpdate
  /\ main' = "waiting"
  /\ UNCHANGED <<swarm, table, banned, fetched, maker, route, batch>>

\* Some server that was online for the first block answers or does not.
AskInfo(p) ==
  /\ main = "waiting" /\ ready
  /\ blockInfos[1][p].state = "online"
  /\ \/ /\ IsOnline(p)
        /\ OnRequestSuccess(p)
        /\ main' = "batches"
        /\ UNCHANGED <<blockInfos, ready, trigger, faults>>
     \/ /\ Raises(IsOnline(p))
        /\ OnRequestFailure(p)
        /\ main' = "info"
  /\ UNCHANGED <<alive, held, records, spans, updater, maker, route, batch>>

NobodyForInfo ==
  /\ main = "waiting" /\ ready
  /\ \A p \in Servers : blockInfos[1][p].state # "online"
  /\ OnRequestFailure(None)
  /\ main' = "info"
  /\ UNCHANGED <<swarm, spans, updater, maker, route, batch>>

--------------------------------------------------------------------------------
(* make_sequence, called by sequential_forward *)

\* The loop is blocked until the table is ready.
MakeSequence(b) ==
  /\ Runs(b, {"forward", "replay"})
  /\ batch[b].sequences = <<>> \/ batch[b].again
  /\ RequestUpdate
  /\ maker' = b
  /\ UNCHANGED <<swarm, table, banned, fetched, main, route, batch>>

\* The route so far, and the block it has reached
Reached(r) == IF r = <<>> THEN batch[maker].index ELSE Last(r).end

\* Mutant of Cut: the last span goes on to the end of its server.
Uncut(r) == r

\* The last span is cut to the end that was asked for.
Cut(r) == [r EXCEPT ![Len(r)].end = batch[maker].end]

\* Mutant of AddSpan: the span starts where its server's does.
AddSpanWhole ==
  /\ maker # None /\ ready
  /\ \E s \in spans[Reached(route)] :
       LET longer == Append(route, s)
       IN  IF Reached(longer) < batch[maker].end
           THEN route' = longer /\ UNCHANGED <<maker, batch>>
           ELSE /\ Set(maker, [batch[maker] EXCEPT !.again = FALSE, !.sequences = Cut(longer)])
                /\ route' = <<>> /\ maker' = None
  /\ UNCHANGED <<managerVars, main>>

\* _make_sequence_with_max_throughput: any server of the next block will do, for what
\* is left of its span.  The table is read without a lock and may be replaced
\* between two spans.
AddSpan ==
  /\ maker # None /\ ready
  /\ \E s \in spans[Reached(route)] :
       LET longer == Append(route, [s EXCEPT !.start = Reached(route)])
       IN  IF Reached(longer) < batch[maker].end
           THEN route' = longer /\ UNCHANGED <<maker, batch>>
           ELSE /\ Set(maker, [batch[maker] EXCEPT !.again = FALSE, !.sequences = Cut(longer)])
                /\ route' = <<>> /\ maker' = None
  /\ UNCHANGED <<managerVars, main>>

\* MissingBlocksError, raised in make_sequence and caught in sequential_forward
MissingBlocks ==
  /\ maker # None /\ ready
  /\ spans[Reached(route)] = {}
  /\ OnRequestFailure(None)
  /\ Set(maker, [batch[maker] EXCEPT !.again = TRUE])
  /\ route' = <<>> /\ maker' = None
  /\ UNCHANGED <<swarm, spans, updater, main>>

--------------------------------------------------------------------------------
(* sequential_forward and sequential_backward *)

HasSpan(b) == /\ Runs(b, {"forward", "replay"})
              /\ batch[b].sequences # <<>> /\ ~batch[b].again

\* The backward pass takes the last request that is left, or returns.
Popped(c) ==
  IF c.done = <<>> THEN [c EXCEPT !.mode = "done", !.current = None]
                   ELSE [c EXCEPT !.current = Last(c.done), !.done = Front(@)]

\* sequential_forward returns at its end: to gather, where it waits for the other
\* batches, or to a backward whose requests it has made again.
Returned(c) ==
  IF c.index < c.end THEN c
  ELSE IF c.mode = "forward" THEN [c EXCEPT !.mode = "forwarded"]
  ELSE Popped([c EXCEPT !.mode = "backward", !.done = @ \o c.backup, !.backup = <<>>])

\* run_remote_forward returns the outputs of all the blocks of the span.
ForwardDone(b) ==
  LET c == batch[b]
      s == Head(c.sequences)
      made == [span |-> s, inputs |-> c.inputs]
      next == [c EXCEPT !.sequences = Tail(@), !.inputs = Passed(@, s), !.index = s.end]
  IN  /\ HasSpan(b) /\ Serves(s)
      /\ Set(b, Returned(IF c.mode = "forward" THEN [next EXCEPT !.done = Append(@, made)]
                                               ELSE [next EXCEPT !.backup = Append(@, made)]))
      /\ OnRequestSuccess(s.peer)
      /\ UNCHANGED <<swarm, table, ready, trigger, updater, main, maker, route>>

\* It raises: the server does not hold the span (any more), or the request is lost.
ForwardFails(b) ==
  LET s == Head(batch[b].sequences)
  IN  /\ HasSpan(b)
      /\ Raises(Serves(s))
      /\ OnRequestFailure(s.peer)
      /\ Set(b, [batch[b] EXCEPT !.again = TRUE, !.sequences = Tail(@)])
      /\ UNCHANGED <<alive, held, records, spans, updater, main, maker, route>>

\* Every batch has returned and the loss is known: torch calls backward, which starts
\* a coroutine for each batch.
Backward ==
  /\ \A b \in Batches : batch[b].mode = "forwarded"
  /\ batch' = [b \in Batches |-> Popped([batch[b] EXCEPT !.mode = "backward"])]
  /\ UNCHANGED <<managerVars, main, maker, route>>

\* The gradients of the blocks of a request, last block first
GradsOf(r) ==
  [i \in 1 .. (r.span.end - r.span.start) |->
     LET block == r.span.end - i
     IN  [block |-> block, inputs |-> Passed(r.inputs, [r.span EXCEPT !.end = block])]]

\* run_remote_backward returns.
BackwardDone(b) ==
  LET r == batch[b].current
  IN  /\ Runs(b, {"backward"})
      /\ Serves(r.span)
      /\ Set(b, Popped([batch[b] EXCEPT !.grads = @ \o GradsOf(r)]))
      /\ OnRequestSuccess(r.span.peer)
      /\ UNCHANGED <<swarm, table, ready, trigger, updater, main, maker, route>>

\* It raises: this part of the forward pass will be made again, by other servers.
BackwardFails(b) ==
  LET r == batch[b].current
  IN  /\ Runs(b, {"backward"})
      /\ Raises(Serves(r.span))
      /\ OnRequestFailure(r.span.peer)
      /\ Set(b, [batch[b] EXCEPT !.mode = "replay", !.inputs = r.inputs, !.index = r.span.start,
                                 !.end = r.span.end, !.sequences = <<>>, !.again = FALSE, !.backup = <<>>])
      /\ UNCHANGED <<alive, held, records, spans, updater, main, maker, route>>

--------------------------------------------------------------------------------
Init ==
  /\ ManagerInit
  /\ main = "info"
  /\ maker = None /\ route = <<>>
  /\ batch = [b \in Batches |-> Idle]

InfoNext == ReadInfo \/ NobodyForInfo \/ \E p \in Servers : AskInfo(p)
MakeNext == AddSpan \/ MissingBlocks
ForwardNext(b) == MakeSequence(b) \/ ForwardDone(b) \/ ForwardFails(b)
BackwardNext(b) == BackwardDone(b) \/ BackwardFails(b)

\* Everybody has finished.
Finished == (\A b \in Batches : batch[b].mode = "done") /\ UNCHANGED vars

Next ==
  \/ (SwarmNext \/ ThreadNext) /\ UNCHANGED autogradVars
  \/ InfoNext \/ MakeNext \/ Backward
  \/ \E b \in Batches : ForwardNext(b) \/ BackwardNext(b)
  \/ Finished

\* Threads run, requests are answered or time out, delays end, every update_period the
\* thread wakes up.  Of the swarm: records that nobody renews expire, a server that
\* crashed is started again, and servers that were started go online.
Quietly(A) == A /\ UNCHANGED autogradVars
Fairness ==
  /\ WF_vars(Quietly(FetchInfos \/ StoreInfos \/ FinishUpdate))
  /\ \A p \in Servers : WF_vars(Quietly(Restart(p) \/ GoOnline(p)))
  /\ WF_vars(Quietly(\E p \in Servers, b \in Blocks : Expire(p, b)))
  /\ WF_vars(InfoNext \/ Backward) /\ WF_vars(MakeNext)
  /\ \A b \in Batches : WF_vars(ForwardNext(b) \/ BackwardNext(b))

Spec == Init /\ [][Next]_vars /\ Fairness

--------------------------------------------------------------------------------
(* Properties *)

Coroutine ==
  /\ main \in {"info", "waiting", "batches"} /\ maker \in Batches \cup {None}
  /\ \A i \in DOMAIN route : route[i] \in Spans
  /\ \A b \in Batches :
       LET c == batch[b]
       IN  /\ c.mode \in {"forward", "forwarded", "backward", "replay", "done"}
           /\ c.index \in 1 .. (NumBlocks + 1) /\ c.end \in 2 .. (NumBlocks + 1)
           /\ \A i \in DOMAIN c.sequences : c.sequences[i] \in Spans
           /\ \A i \in DOMAIN c.done : c.done[i].span \in Spans

\* The type invariant
TypeOK == ManagerTypeOK /\ Coroutine

\* A forward pass and the gradients a backward pass has collected
WholePass == [i \in 1 .. NumBlocks |-> i]
Gradient(i) == [block |-> NumBlocks + 1 - i, inputs |-> SubSeq(WholePass, 1, NumBlocks - i)]

\* Through crashes, failed requests, servers that move and routes made again from any
\* block: a batch leaves the forward pass with every block applied once and in order,
\* and its backward pass calls every block once, last block first, each with the
\* input it had in the forward pass, whatever servers took over (lines 90-94,
\* 142-153), and misses none before it returns.
PassesRight ==
  \A b \in Batches :
    LET c == batch[b]
    IN  /\ c.mode = "forwarded" => c.inputs = WholePass
        /\ \A i \in DOMAIN c.grads : i <= NumBlocks /\ c.grads[i] = Gradient(i)
        /\ c.mode = "done" => Len(c.grads) = NumBlocks

\* What a batch has still to ask for is what the swarm can be asked: its remaining
\* spans lead from the block it has reached to the end it was given, without a gap,
\* whatever table they were read from (lines 62-68, 314-330).
RoutesConnected ==
  \A b \in Batches :
    LET c == batch[b]
        s == c.sequences
    IN  c.mode \in {"forward", "replay"} /\ s # <<>> /\ ~c.again =>
          /\ s[1].start = c.index /\ Last(s).end = c.end
          /\ \A i \in 1 .. (Len(s) - 1) : s[i].end = s[i + 1].start

\* When servers come back and only finitely many requests are lost, every batch gets
\* through both passes: nobody waits for an update that does not come (lines 163,
\* 340, 395-408, 509-524) and no ban or stale table lasts (lines 363-377).
AllPassesEnd == <>(\A b \in Batches : batch[b].mode = "done")
================================================================================
