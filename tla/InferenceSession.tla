---------------------------- MODULE InferenceSession ----------------------------
(***************************************************************************)
(* A client's inference session (client/inference_session.py) and the      *)
(* servers it runs on (iterate_rpc_inference, rpc_inference).  The session *)
(* routes the blocks of the model through a chain of server sessions, and  *)
(* each of them keeps the attention cache of its span.  A step passes new  *)
(* tokens along the chain; a server session that fails is closed and       *)
(* replaced while the step is retried.  The user may also go back to an    *)
(* earlier position.                                                       *)
(*                                                                         *)
(* A block maps the hidden state of a position to the sequence of hidden   *)
(* states up to it, so that an output shows all that it was computed from. *)
(* A step is retried until max_retries (by default, without end); then the *)
(* exception reaches the user, who leaves the session or, where            *)
(* ReuseAfterError, goes on with it.  The client awaits one answer at a    *)
(* time and never looks again at a session that it replaced: the server's  *)
(* part of a session is kept with the client's.                            *)
(***************************************************************************)
EXTENDS Integers, Sequences, FiniteSets, SequencesExt

CONSTANTS
  Tokens,       \* input tokens (embeddings)
  NumBlocks,    \* blocks of the model, numbered from 0
  Servers,      \* servers
  Serves,       \* the blocks each server holds
  MaxLength,    \* max_length of the session
  MaxFailures,  \* bound on the failures of servers, sessions and requests
  ReuseAfterError, \* whether the user goes on with a session after an exception
  NoMessage     \* no request, or no reply

Blocks == 0 .. (NumBlocks - 1)

ASSUME InferenceSessionAssumption ==
  /\ NumBlocks \in Nat \ {0}
  /\ Serves \in [Servers -> SUBSET Blocks]
  /\ MaxLength \in Nat
  /\ MaxFailures \in Nat
  /\ ReuseAfterError \in BOOLEAN

VARIABLES
  phase,        \* "idle", what step() is doing ("routing", "stepping", "awaiting"), or "closed"
  tokens,       \* the tokens of the positions before the session's position
  new,          \* the tokens of the current step
  inputs,       \* hidden states on their way through the chain
  server_idx,   \* index of the server session whose turn it is
  sessions,     \* _server_sessions
  outputs,      \* what the last step returned
  running,      \* servers that are up
  failures      \* failures so far

clientVars == <<tokens, new, inputs, server_idx, outputs>>
inferenceVars == <<phase, clientVars, sessions, running, failures>>

--------------------------------------------------------------------------------
(* Helpers *)

position == Len(tokens)

PrefixesOf(states) == [p \in 1 .. Len(states) |-> SubSeq(states, 1, p)]

\* The hidden states after a number of blocks.
Through(states, blocks) ==
  LET after[b \in 0 .. blocks] == IF b = 0 THEN states ELSE PrefixesOf(after[b - 1])
  IN  after[blocks]

\* The last n of a sequence.
LastOf(s, n) == SubSeq(s, Len(s) - n + 1, Len(s))

\* A new _ServerInferenceSession, and the server's part: up while rpc_inference
\* runs, its attention cache kv (as the inputs of the span), its prefix_length.
NewSession(server, start, end) ==
  [server |-> server, start |-> start, end |-> end,
   position |-> 0, history |-> << >>, stepped |-> FALSE,
   up |-> TRUE, kv |-> << >>, request |-> NoMessage, reply |-> NoMessage]

\* The server's part of a session is over, and its cache freed.
Ended(s) == [s EXCEPT !.up = FALSE, !.kv = << >>, !.request = NoMessage, !.reply = NoMessage]

\* make_sequence: any assignment of the blocks to servers that hold them; blocks
\* in a row on one server are one span.
Routes(start, end) ==
  {f \in [start .. (end - 1) -> Servers] : \A b \in DOMAIN f : b \in Serves[f[b]]}

SpansOf(f, start, end) ==
  LET starts == CHOOSE s \in SetToSeqs({b \in DOMAIN f : b = start \/ f[b] # f[b - 1]}) :
                  \A i, j \in DOMAIN s : i < j => s[i] < s[j]
  IN  [i \in 1 .. Len(starts) |->
         NewSession(f[starts[i]], starts[i], IF i = Len(starts) THEN end ELSE starts[i + 1])]

\* list[i : i + 1] = items
Replace(list, i, items) == SubSeq(list, 1, i - 1) \o items \o SubSeq(list, i + 1, Len(list))

Current == sessions[server_idx]
BlockIdx == IF server_idx = 1 THEN 0 ELSE sessions[server_idx - 1].end

--------------------------------------------------------------------------------
(* The client *)

\* step() is called; the first call has no server sessions yet.
BeginStep(toks) ==
  /\ phase = "idle"
  /\ position + Len(toks) <= MaxLength
  /\ new' = toks
  /\ inputs' = toks
  /\ server_idx' = 1
  /\ outputs' = << >>
  /\ phase' = IF sessions = << >> THEN "routing" ELSE "stepping"
  /\ UNCHANGED <<tokens, sessions, running, failures>>

\* _update_sequence: the failed session, if any, is replaced by new ones for the
\* same blocks; the first of them inherits its history.
UpdateSequence(f) ==
  LET replaced == server_idx <= Len(sessions)
      end      == IF replaced THEN Current.end ELSE NumBlocks
      spans    == SpansOf(f, BlockIdx, end)
      updated  == IF replaced THEN [spans EXCEPT ![1].history = Current.history] ELSE spans
  IN  /\ \A b \in DOMAIN f : running[f[b]]
      /\ sessions' = Replace(sessions, server_idx, updated)
      /\ phase' = "stepping"
      /\ UNCHANGED <<clientVars, running, failures>>

\* A route through a server that is down: connecting fails, and is tried again.
Update ==
  /\ phase = "routing"
  /\ \E f \in Routes(BlockIdx, IF server_idx <= Len(sessions) THEN Current.end ELSE NumBlocks) :
       UpdateSequence(f)

\* _ServerInferenceSession.step up to the await: the inputs join the history, and
\* are sent; a session that has not stepped is sent its whole history.
HistoryWith(s) ==
  IF s.history = << >> THEN inputs
  ELSE IF Len(s.history) = s.position THEN s.history \o inputs
  ELSE s.history

\* Mutant: the assertions are compiled out.
SendInputsUnchecked ==
  LET history == HistoryWith(Current)
  IN  /\ phase = "stepping"
      /\ sessions' = [sessions EXCEPT ![server_idx].history = history,
                        ![server_idx].stepped = TRUE,
                        ![server_idx].request =
                          [start_from_position |-> Current.position,
                           inputs |-> IF Current.stepped THEN inputs ELSE history]]
      /\ phase' = "awaiting"
      /\ UNCHANGED <<clientVars, running, failures>>

SendInputs ==
  LET history == HistoryWith(Current)
      request == [start_from_position |-> Current.position,
                  inputs |-> IF Current.stepped THEN inputs ELSE history]
  IN  /\ phase = "stepping"
      /\ Current.position = position
      /\ Len(history) = Current.position + Len(inputs)
      /\ sessions' = [sessions EXCEPT ![server_idx].history = history,
                                      ![server_idx].stepped = TRUE,
                                      ![server_idx].request = request]
      /\ phase' = "awaiting"
      /\ UNCHANGED <<clientVars, running, failures>>

\* An assertion on positions fails: to step(), a failure like any other.
AssertionFails ==
  /\ phase = "stepping"
  /\ \/ Current.position # position
     \/ Len(HistoryWith(Current)) # Current.position + Len(inputs)
  /\ phase' = "routing"
  /\ UNCHANGED <<clientVars, sessions, running, failures>>

\* The answer arrives: on to the next server, or the step is done.
Receive ==
  /\ phase = "awaiting"
  /\ Current.reply # NoMessage
  /\ sessions' = [sessions EXCEPT ![server_idx].position = @ + Len(inputs),
                                  ![server_idx].reply = NoMessage]
  /\ IF Current.end < NumBlocks
     THEN /\ inputs' = Current.reply
          /\ server_idx' = server_idx + 1
          /\ phase' = "stepping"
          /\ UNCHANGED <<tokens, new, outputs>>
     ELSE /\ tokens' = tokens \o new
          /\ outputs' = LastOf(Current.reply, Len(new))
          /\ phase' = "idle"
          /\ inputs' = << >>
          /\ new' = << >>
          /\ server_idx' = 1
  /\ UNCHANGED <<running, failures>>

\* Mutant: the failed session is tried again without an update.
RequestFailsRetries ==
  /\ phase = "awaiting"
  /\ ~Current.up
  /\ phase' = "stepping"
  /\ UNCHANGED <<clientVars, sessions, running, failures>>

\* The server session is gone, or request_timeout expires first: wait_for cancels
\* the stream of outputs, which ends it for good.
RequestFails ==
  /\ phase = "awaiting"
  /\ \/ ~Current.up /\ UNCHANGED <<sessions, failures>>
     \/ /\ Current.up
        /\ failures < MaxFailures
        /\ failures' = failures + 1
        /\ sessions' = [sessions EXCEPT ![server_idx] = Ended(@)]
  /\ phase' = "routing"
  /\ UNCHANGED <<clientVars, running>>

\* The last of max_retries attempts failed: step() raises the exception.
GiveUp ==
  /\ phase = "routing"
  /\ phase' = IF ReuseAfterError THEN "idle" ELSE "closed"
  /\ sessions' = IF ReuseAfterError THEN sessions ELSE << >>
  /\ new' = << >>
  /\ inputs' = << >>
  /\ server_idx' = 1
  /\ UNCHANGED <<tokens, outputs, running, failures>>

\* close(): the servers are told that the sessions end.
CloseSession ==
  /\ phase = "idle"
  /\ phase' = "closed"
  /\ sessions' = << >>
  /\ UNCHANGED <<clientVars, running, failures>>

\* Mutant: the history is not cut.
RewoundKeepsHistory(s, p) == [s EXCEPT !.position = p]

\* The position setter: sessions go back to p, and forget the history from there.
Rewound(s, p) ==
  [s EXCEPT !.position = p,
            !.history = IF Len(@) >= p THEN SubSeq(@, 1, p) ELSE @]

Rewind(p) ==
  /\ phase = "idle"
  /\ \A i \in 1 .. Len(sessions) : p <= sessions[i].position
  /\ tokens' = SubSeq(tokens, 1, p)
  /\ sessions' = [i \in 1 .. Len(sessions) |-> Rewound(sessions[i], p)]
  /\ outputs' = << >>
  /\ UNCHANGED <<phase, new, inputs, server_idx, running, failures>>

--------------------------------------------------------------------------------
(* The servers *)

\* Mutant: start_from_position is ignored.
CachedAppends(kv, request) == kv \o request.inputs

\* The cache from start_from_position on is overwritten by the inputs.
Cached(kv, request) == SubSeq(kv, 1, request.start_from_position) \o request.inputs

\* iterate_rpc_inference: one step, or an exception that ends the session.
ServeStep(i) ==
  LET s == sessions[i]
      kv == Cached(s.kv, s.request)
      ok == Len(s.kv) >= s.request.start_from_position /\ Len(kv) <= MaxLength
  IN  /\ s.up
      /\ s.request # NoMessage
      /\ sessions' =
           IF ok
           THEN [sessions EXCEPT ![i].kv = kv, ![i].request = NoMessage,
                   ![i].reply = LastOf(Through(kv, s.end - s.start), Len(s.request.inputs))]
           ELSE [sessions EXCEPT ![i] = Ended(@)]
      /\ UNCHANGED <<phase, clientVars, running, failures>>

\* step_timeout, session_timeout or an exception of the device ends the session.
EndSession(i) ==
  /\ sessions[i].up
  /\ failures < MaxFailures
  /\ failures' = failures + 1
  /\ sessions' = [sessions EXCEPT ![i] = Ended(@)]
  /\ UNCHANGED <<phase, clientVars, running>>

Crash(server) ==
  /\ running[server]
  /\ failures < MaxFailures
  /\ failures' = failures + 1
  /\ running' = [running EXCEPT ![server] = FALSE]
  /\ sessions' = [i \in 1 .. Len(sessions) |->
                    IF sessions[i].server = server
                    THEN Ended(sessions[i]) ELSE sessions[i]]
  /\ UNCHANGED <<phase, clientVars>>

Restart(server) ==
  /\ ~running[server]
  /\ running' = [running EXCEPT ![server] = TRUE]
  /\ UNCHANGED <<phase, clientVars, sessions, failures>>

--------------------------------------------------------------------------------
InferenceInit ==
  /\ phase = "idle"
  /\ tokens = << >>
  /\ new = << >>
  /\ inputs = << >>
  /\ server_idx = 1
  /\ sessions = << >>
  /\ outputs = << >>
  /\ running = [s \in Servers |-> TRUE]
  /\ failures = 0

Client == Update \/ SendInputs \/ AssertionFails \/ Receive \/ RequestFails

User ==
  \/ \E n \in 1 .. MaxLength : \E toks \in [1 .. n -> Tokens] : BeginStep(toks)
  \/ \E p \in 0 .. (position - 1) : Rewind(p)
  \/ CloseSession

InferenceNext ==
  \/ Client
  \/ GiveUp
  \/ User
  \/ \E i \in 1 .. Len(sessions) : ServeStep(i) \/ EndSession(i)
  \/ \E server \in Servers : Crash(server) \/ Restart(server)

InferenceSpec == InferenceInit /\ [][InferenceNext]_inferenceVars

\* The client and the sessions keep running, a server that crashed comes back.
InferenceFairSpec ==
  /\ InferenceSpec
  /\ WF_inferenceVars(Client)
  /\ WF_inferenceVars(\E i \in 1 .. Len(sessions) : ServeStep(i))
  /\ \A server \in Servers : WF_inferenceVars(Restart(server))

--------------------------------------------------------------------------------
(* Properties *)

States == UNION {[1 .. n -> Tokens] : n \in 0 .. MaxLength}

\* Server sessions form a chain from the first block to the last.
InferenceTypeOK ==
  /\ phase \in {"idle", "routing", "stepping", "awaiting", "closed"}
  /\ tokens \in States
  /\ new \in States
  /\ running \in [Servers -> BOOLEAN]
  /\ failures \in 0 .. MaxFailures
  /\ sessions # << >> =>
       /\ sessions[1].start = 0
       /\ sessions[Len(sessions)].end = NumBlocks
       /\ \A i \in 1 .. (Len(sessions) - 1) : sessions[i].end = sessions[i + 1].start
       /\ server_idx \in 1 .. Len(sessions)
  /\ \A i \in 1 .. Len(sessions) :
       sessions[i].start .. (sessions[i].end - 1) \subseteq Serves[sessions[i].server]

\* What a step returns is what the model computes from all tokens before it,
\* whatever sessions failed, were replaced or were taken back meanwhile.
OutputsRight ==
  outputs = LastOf(Through(tokens, NumBlocks), Len(outputs))

\* Between steps the parties agree: every server session is at the position of
\* the session, and the client's history and, as long as it is up, the server's
\* cache hold the hidden states of exactly the tokens up to there.
CachesCoherent ==
  phase = "idle" =>
    \A i \in 1 .. Len(sessions) :
      LET s == sessions[i]
      IN  /\ s.position = position
          /\ s.history = Through(tokens, s.start)
          /\ s.up => SubSeq(s.kv, 1, position) = Through(tokens, s.start)

Busy == phase \notin {"idle", "closed"}

\* A replacement that starts at another position than the client's is a dead end: no
\* new route puts it right, and no step ever passes it, whatever the retries.
MisplacedNeverSteps ==
  [][Busy /\ sessions # << >> /\ Current.position # position =>
       /\ tokens' = tokens
       /\ Busy' => server_idx' = server_idx /\ (Current.position # position)']_inferenceVars

\* A first step ends: unless max_retries stops it, the retries of step() succeed
\* once servers stop failing, though any of the chain may have failed midway.
FirstStepCompletes == (Busy /\ position = 0) ~> ~Busy

\* Every step is: caches of failed servers are regenerated (history: "Used in case
\* of server failures to regenerate attention caches on new servers").
EveryStepCompletes == Busy ~> ~Busy
=================================================================================
