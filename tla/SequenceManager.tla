----------------------------- MODULE SequenceManager -----------------------------
(***************************************************************************)
(* The client's routing table (client/routing/sequence_manager.py,         *)
(* sequence_info.py) and the swarm it is read from (utils/dht.py).         *)
(*                                                                         *)
(* The table is kept twice: block_infos, the servers of each block as they *)
(* were fetched, and spans_containing_block, computed from them at the end *)
(* of an update, from which routes are made.  A thread refreshes both; it  *)
(* and the callers meet in two events, ready and trigger.                  *)
(*                                                                         *)
(* A server that crashes and starts again may hold other blocks than       *)
(* before, while what it announced before has not expired yet.  One fetch  *)
(* sees one state of the swarm.  Measured round trips only weigh the       *)
(* choice between servers, so that any candidate may be chosen.            *)
(***************************************************************************)
EXTENDS Integers, Sequences, FiniteSets

CONSTANTS
  Servers,      \* peers of the swarm
  NumBlocks,    \* blocks of the model
  Places,       \* Places[p]: the spans <<first, last>> that server p may hold
  Allowed,      \* allowed_servers and not blocked_servers
  MaxFaults,    \* how often servers crash, and requests to ones that run or fetches fail
  None          \* nothing

Blocks == 1 .. NumBlocks

ASSUME SequenceManagerAssumption ==
  /\ IsFiniteSet(Servers) /\ Allowed \subseteq Servers
  /\ NumBlocks \in Nat \ {0}
  /\ Places \in [Servers -> SUBSET (Blocks \X Blocks)]
  /\ \A p \in Servers : Places[p] # {} /\ \A s \in Places[p] : s[1] <= s[2]
  /\ MaxFaults \in Nat
  /\ None \notin Servers

VARIABLES
  alive,       \* servers that answer
  held,        \* held[p]: the span that p holds
  records,     \* records[b][p]: what the DHT says that p has announced for block b
  blockInfos,  \* block_infos: the records that the last update kept
  spans,       \* the spans of all servers, by block: spans_containing_block
  banned,      \* banned_peers
  ready,       \* the event that callers of make_sequence wait for
  trigger,     \* the event that the thread waits for
  thread,      \* the update thread: "off", "idle", "fetched" or "stored"
  fetched,     \* new_block_infos of the thread
  faults       \* how many have happened

swarm == <<alive, held, records, faults>>
table == <<blockInfos, spans>>
updater == <<thread, fetched>>
managerVars == <<swarm, table, banned, ready, trigger, updater>>

\* ServerInfo: the state a server announces and the span it says that it holds
NoRecord == [state |-> "none", span |-> <<0, 0>>]
Info == {NoRecord} \cup [state : {"joining", "online"}, span : UNION {Places[p] : p \in Servers}]
Infos == [Blocks -> [Servers -> Info]]
Unknown == [b \in Blocks |-> [p \in Servers |-> NoRecord]]
Known(infos, b) == {p \in Servers : infos[b][p] # NoRecord}

\* RemoteSpanInfo; end is the block after the last one
Spans == [peer : Servers, start : Blocks, end : 2 .. (NumBlocks + 1)]

--------------------------------------------------------------------------------
(* The swarm *)

Within(b, span) == b \in span[1] .. span[2]

\* declare_active_modules: one record for each block of the span
Declared(p, state, span) ==
  [b \in Blocks |-> IF Within(b, span) THEN [records[b] EXCEPT ![p] = [state |-> state, span |-> span]]
                                       ELSE records[b]]

\* A server ends; what it has announced stays.
Crash(p) ==
  /\ p \in alive /\ faults < MaxFaults
  /\ alive' = alive \ {p} /\ faults' = faults + 1
  /\ UNCHANGED <<held, records, table, banned, ready, trigger, updater>>

\* A record that its server does not renew expires.
Expire(p, b) ==
  /\ records[b][p] # NoRecord
  /\ p \notin alive \/ ~Within(b, held[p])
  /\ records' = [records EXCEPT ![b][p] = NoRecord]
  /\ UNCHANGED <<alive, held, faults, table, banned, ready, trigger, updater>>

\* It is started again, perhaps with other blocks, and announces that it loads them,
\* then that it serves.
Restart(p) ==
  /\ p \notin alive
  /\ alive' = alive \cup {p}
  /\ \E span \in Places[p] : /\ held' = [held EXCEPT ![p] = span]
                            /\ records' = Declared(p, "joining", span)
  /\ UNCHANGED <<faults, table, banned, ready, trigger, updater>>

IsOnline(p) == p \in alive /\ records[held[p][1]][p] = [state |-> "online", span |-> held[p]]

GoOnline(p) ==
  /\ p \in alive /\ ~IsOnline(p)
  /\ records' = Declared(p, "online", held[p])
  /\ UNCHANGED <<alive, held, faults, table, banned, ready, trigger, updater>>

\* _check_uids: a request for a span is answered by a server that holds all of it.
Serves(s) == IsOnline(s.peer) /\ \A b \in s.start .. (s.end - 1) : Within(b, held[s.peer])

--------------------------------------------------------------------------------
(* The update thread *)

\* Servers that are not allowed go; banned ones too, unless the block has no others.
Filtered(infos) ==
  [b \in Blocks |->
    LET known == Known(infos, b) \cap Allowed
        valid == known \ banned
        kept  == IF valid # {} THEN valid ELSE known
    IN  [p \in Servers |-> IF p \in kept THEN infos[b][p] ELSE NoRecord]]

\* compute_spans: what the first online record of a server says, prolonged to the last.
ComputeSpans(infos) ==
  {LET online == {b \in Blocks : infos[b][p].state = "online"}
       first  == CHOOSE b \in online : \A c \in online : b <= c
       last   == CHOOSE b \in online : \A c \in online : b >= c
       span   == infos[first][p].span
   IN  [peer |-> p, start |-> span[1], end |-> (IF span[2] > last THEN span[2] ELSE last) + 1]
     : p \in {q \in Servers : \E b \in Blocks : infos[b][q].state = "online"}}

\* _sort_spans
SortSpans(infos) == [b \in Blocks |-> {s \in ComputeSpans(infos) : s.start <= b /\ b < s.end}]

\* trigger is set or update_period is over: the DHT is read and the lists applied.
FetchInfos ==
  /\ thread = "idle"
  /\ thread' = "fetched" /\ trigger' = FALSE
  /\ fetched' = Filtered(records)
  /\ UNCHANGED <<swarm, table, banned, ready>>

\* Mutant of FetchFails: the exception ends the thread.
FetchFailsForGood ==
  /\ thread = "idle" /\ faults < MaxFaults
  /\ thread' = "dead" /\ trigger' = FALSE
  /\ faults' = faults + 1
  /\ UNCHANGED <<alive, held, records, table, banned, ready, fetched>>

\* _update raises: ready stays as it is, the thread goes on.
FetchFails ==
  /\ thread = "idle" /\ faults < MaxFaults
  /\ trigger' = FALSE
  /\ faults' = faults + 1
  /\ UNCHANGED <<alive, held, records, table, banned, ready, updater>>

\* update_ under lock_changes
StoreInfos ==
  /\ thread = "fetched"
  /\ thread' = "stored"
  /\ blockInfos' = fetched /\ spans' = SortSpans(fetched)
  /\ fetched' = Unknown
  /\ UNCHANGED <<swarm, banned, ready, trigger>>

\* Servers are pinged, then the callers are let go.
FinishUpdate ==
  /\ thread = "stored"
  /\ thread' = "idle" /\ ready' = TRUE
  /\ UNCHANGED <<swarm, table, banned, trigger, fetched>>

\* A ban ends.
Unban(p) ==
  /\ p \in banned
  /\ banned' = banned \ {p}
  /\ UNCHANGED <<swarm, table, ready, trigger, updater>>

--------------------------------------------------------------------------------
(* What callers do.  These are parts of actions: each sets the variables it names. *)

\* is_alive, start; update(wait=True) when not ready.  [ready, trigger, thread]
RequestUpdate ==
  /\ thread' = IF thread = "off" THEN "idle" ELSE thread
  /\ trigger' = (trigger \/ ~ready)
  /\ UNCHANGED ready

\* on_request_failure: the peer (if any) is banned and taken from block_infos, not
\* from the spans; when some block is left without servers, an update is requested.
\* [banned, blockInfos, ready, trigger]
OnRequestFailure(p) ==
  LET infos == [b \in Blocks |-> [q \in Servers |-> IF q = p THEN NoRecord ELSE blockInfos[b][q]]]
      empty == \E b \in Blocks : Known(infos, b) = {}
  IN  /\ banned' = IF p = None THEN banned ELSE banned \cup {p}
      /\ blockInfos' = infos
      /\ ready' = (ready /\ ~empty)
      /\ trigger' = (trigger \/ empty)

\* on_request_success [banned]
OnRequestSuccess(p) == banned' = banned \ {p}

--------------------------------------------------------------------------------
(* Routes for inference: _build_inference_graph *)

\* Mutant of Edges: one leaves a server at its end, even when that is past the window.
EdgesPastTheEnd(start, end) ==
  {<< <<None, start>>, <<s.peer, start>> >> : s \in spans[start]}
    \cup {<< <<s.peer, s.end>>, <<None, end>> >> : s \in spans[end - 1]}
    \cup (UNION {{<< <<s.peer, i>>, <<s.peer, i + 1>> >> : s \in spans[i]} : i \in start .. (end - 1)})

\* Nodes are a server, or the client, at a position; edges lead to a server, along it, from the end
\* of one to another that holds the next block, and to the end.
Edges(start, end) ==
  {<< <<None, start>>, <<s.peer, start>> >> : s \in spans[start]}
    \cup {<< <<s.peer, end>>, <<None, end>> >> : s \in spans[end - 1]}
    \cup (UNION {{<< <<s.peer, i>>, <<t.peer, i>> >> : s \in {r \in spans[i - 1] : r.end = i}, t \in spans[i]}
                  : i \in (start + 1) .. (end - 1)})
    \cup (UNION {{<< <<s.peer, i>>, <<s.peer, i + 1>> >> : s \in spans[i]} : i \in start .. (end - 1)})

--------------------------------------------------------------------------------
ManagerInit ==
  /\ alive = Servers
  /\ held \in {h \in [Servers -> Blocks \X Blocks] : \A p \in Servers : h[p] \in Places[p]}
  /\ records = [b \in Blocks |-> [p \in Servers |->
                 IF Within(b, held[p]) THEN [state |-> "online", span |-> held[p]] ELSE NoRecord]]
  /\ blockInfos = Unknown
  /\ spans = [b \in Blocks |-> {}]
  /\ banned = {}
  /\ ready = FALSE /\ trigger = FALSE
  /\ thread = "off" /\ fetched = Unknown
  /\ faults = 0

SwarmNext ==
  \E p \in Servers : \/ Crash(p) \/ Restart(p) \/ GoOnline(p) \/ Unban(p)
                     \/ \E b \in Blocks : Expire(p, b)

ThreadNext == FetchInfos \/ FetchFails \/ StoreInfos \/ FinishUpdate

--------------------------------------------------------------------------------
(* Properties *)

\* The type invariant of the table, the swarm and the thread
ManagerTypeOK ==
  /\ alive \subseteq Servers
  /\ held \in [Servers -> Blocks \X Blocks]
  /\ records \in Infos /\ blockInfos \in Infos /\ fetched \in Infos
  /\ spans \in [Blocks -> SUBSET Spans]
  /\ banned \subseteq Servers
  /\ ready \in BOOLEAN /\ trigger \in BOOLEAN
  /\ thread \in {"off", "idle", "fetched", "stored"}
  /\ faults \in 0 .. MaxFaults

\* Whatever updates, bans, failures and moved servers have made of the table: when
\* every block of a window has a server, a search of the inference graph (lines
\* 224-285) cannot get stuck, every node that an edge enters is left by one.
NoDeadEnds ==
  \A start \in Blocks : \A end \in (start + 1) .. (NumBlocks + 1) :
    (\A b \in start .. (end - 1) : spans[b] # {}) =>
      LET edges == Edges(start, end)
      IN  \A e \in edges : e[2] # <<None, end>> => \E f \in edges : f[1] = e[2]
================================================================================
