----------------------------- MODULE PagedAdmission -----------------------------
(***************************************************************************)
(* Admission of sessions to the paged cache (allocate_paged_slots and      *)
(* use_paged_pool of server/memory_cache.py).  A handler admits a session  *)
(* when the page count last published by the runtime leaves room, tells    *)
(* the runtime of its slots over a pipe, and tells it again when the       *)
(* session ends.  The runtime reads the pipe only when it executes a step, *)
(* and publishes its page count at the end of that step.                   *)
(*                                                                         *)
(* What the pages hold is left to PagedKVPool; here a session owns a       *)
(* number of pages, which each of its steps may raise, and pages that a    *)
(* reorder had taken when it ran dry are lost.                             *)
(***************************************************************************)
EXTENDS Integers, Sequences, FiniteSets

CONSTANTS
  Sessions,   \* calls of allocate_paged_slots
  Timeout,    \* the timeout of each: "zero", "timed" or "unlimited"
  NumSlots,   \* num_slots, one for each served block
  NumPages,   \* pages of the pool
  MaxPages,   \* bound on the pages a session comes to need
  Nobody      \* no session

ASSUME PagedAdmissionAssumption ==
  /\ IsFiniteSet(Sessions)
  /\ Timeout \in [Sessions -> {"zero", "timed", "unlimited"}]
  /\ NumSlots \in Nat \ {0}
  /\ NumPages \in Nat
  /\ MaxPages \in Nat
  /\ Nobody \notin Sessions

VARIABLES
  pc,           \* where the coroutine of each session is
  used_pages,   \* _paged_used_pages, as last published by the runtime
  freed_event,  \* the flag of _memory_freed_event
  pipe,         \* messages the runtime has not received yet
  registered,   \* sessions whose slots are in _block_tables
  pages,        \* pages in the block tables of each session
  lost,         \* pages that reorders had taken when they ran dry: in no block table, not free
  submitted,    \* sessions with a step queued for the runtime
  running,      \* the session whose step the runtime executes
  result        \* what the last step of each session came to

handlerVars == <<pc, pipe>>
runtimeVars == <<registered, pages, lost, running, result, used_pages>>
vars == <<handlerVars, freed_event, submitted, runtimeVars>>

Message(tag, s) == [tag |-> tag, session |-> s]

\* num_used_pages: those that are not on the free list
TotalPages == Cardinality(UNION {{s} \X (1 .. pages[s]) : s \in Sessions}) + lost

Free == NumPages - TotalPages

\* What a session gets that asks for pages: what is free, at most.
Granted(s, need) ==
  IF s \notin registered THEN 0 ELSE IF need <= Free THEN need ELSE Free

HasRoom == NumPages - used_pages >= NumSlots

Goto(s, from, to) == pc[s] = from /\ pc' = [pc EXCEPT ![s] = to]

--------------------------------------------------------------------------------
(* The handler of a session *)

\* has_room() is tested on entry and after each wait.
TestRoom(s) ==
  /\ pc[s] \in {"new", "testing"}
  /\ \/ HasRoom /\ pc' = [pc EXCEPT ![s] = "registering"]
     \/ ~HasRoom /\ Timeout[s] \in {"timed", "unlimited"} /\ pc' = [pc EXCEPT ![s] = "parking"]
     \/ /\ ~HasRoom
        /\ \/ Timeout[s] = "zero"
           \/ Timeout[s] = "timed" /\ pc[s] = "testing"   \* remaining <= 0
        /\ pc' = [pc EXCEPT ![s] = "refused"]
  /\ UNCHANGED <<pipe, freed_event, submitted, runtimeVars>>

\* _memory_freed_event.wait in an executor thread
ParkOnEvent(s) ==
  /\ Goto(s, "parking", IF freed_event THEN "clearing" ELSE "blocked")
  /\ UNCHANGED <<pipe, freed_event, submitted, runtimeVars>>

WaitTimesOut(s) ==
  /\ Timeout[s] = "timed"
  /\ Goto(s, "blocked", "clearing")
  /\ UNCHANGED <<pipe, freed_event, submitted, runtimeVars>>

\* Whatever ended the wait, the flag is cleared.
ClearEvent(s) ==
  /\ Goto(s, "clearing", "testing")
  /\ freed_event' = FALSE
  /\ UNCHANGED <<pipe, submitted, runtimeVars>>

Register(s) ==
  /\ Goto(s, "registering", "open")
  /\ pipe' = Append(pipe, Message("paged_register", s))
  /\ UNCHANGED <<freed_event, submitted, runtimeVars>>

\* The handler queues the next step; a step that raised ends its session.
SubmitStep(s) ==
  /\ pc[s] = "open"
  /\ result[s] \in {"none", "ok"}
  /\ s \notin submitted
  /\ running # s
  /\ submitted' = submitted \cup {s}
  /\ UNCHANGED <<handlerVars, freed_event, runtimeVars>>

\* Mutant of Close: a session with a step on its way is not reported.
CloseSilently(s) ==
  /\ Goto(s, "open", "closed")
  /\ pipe' = IF s \in submitted THEN pipe ELSE Append(pipe, Message("paged_free", s))
  /\ UNCHANGED <<freed_event, submitted, runtimeVars>>

\* The session ends, possibly with a step queued or running.
Close(s) ==
  /\ Goto(s, "open", "closed")
  /\ pipe' = Append(pipe, Message("paged_free", s))
  /\ UNCHANGED <<freed_event, submitted, runtimeVars>>

--------------------------------------------------------------------------------
(* The runtime: use_paged_pool *)

StartStep(s) ==
  /\ running = Nobody
  /\ s \in submitted
  /\ running' = s
  /\ submitted' = submitted \ {s}
  /\ UNCHANGED <<handlerVars, freed_event, registered, pages, lost, result, used_pages>>

DrainRegister ==
  /\ running # Nobody
  /\ pipe # << >> /\ Head(pipe).tag = "paged_register"
  /\ registered' = registered \cup {Head(pipe).session}
  /\ pipe' = Tail(pipe)
  /\ UNCHANGED <<pc, freed_event, submitted, pages, lost, running, result, used_pages>>

\* Mutant of DrainFree: the pages of the slots are not given back.
DrainFreeKeepsPages ==
  /\ running # Nobody
  /\ pipe # << >> /\ Head(pipe).tag = "paged_free"
  /\ registered' = registered \ {Head(pipe).session}
  /\ pipe' = Tail(pipe)
  /\ freed_event' = TRUE
  /\ pc' = [s \in Sessions |-> IF pc[s] = "blocked" THEN "clearing" ELSE pc[s]]
  /\ UNCHANGED <<pages, lost, submitted, running, result, used_pages>>

\* free_slot gives back what is in the block tables, then the event is set, which wakes
\* every waiter.
DrainFree ==
  /\ running # Nobody
  /\ pipe # << >> /\ Head(pipe).tag = "paged_free"
  /\ registered' = registered \ {Head(pipe).session}
  /\ pages' = [pages EXCEPT ![Head(pipe).session] = 0]
  /\ pipe' = Tail(pipe)
  /\ freed_event' = TRUE
  /\ pc' = [s \in Sessions |-> IF pc[s] = "blocked" THEN "clearing" ELSE pc[s]]
  /\ UNCHANGED <<lost, submitted, running, result, used_pages>>

\* Mutants of EndStep: the count is published only after a success; the pipe is
\* not read to its end.
EndStepNoFinally(s, got, taken, outcome) ==
  /\ running = s /\ pipe = << >>
  /\ pages' = [pages EXCEPT ![s] = @ + got]
  /\ lost' = lost + taken
  /\ result' = [result EXCEPT ![s] = outcome]
  /\ used_pages' = IF outcome = "ok" THEN TotalPages + got ELSE used_pages
  /\ running' = Nobody
  /\ UNCHANGED <<handlerVars, freed_event, submitted, registered>>

EndStepEarly(s, got, taken, outcome) ==
  /\ running = s
  /\ pages' = [pages EXCEPT ![s] = @ + got]
  /\ lost' = lost + taken
  /\ result' = [result EXCEPT ![s] = outcome]
  /\ used_pages' = TotalPages + got + taken
  /\ running' = Nobody
  /\ UNCHANGED <<handlerVars, freed_event, submitted, registered>>

\* A step, once the pipe is empty, that puts got pages in the tables of its session and
\* has taken others for nothing; and the finally block.
EndStep(s, got, taken, outcome) ==
  /\ running = s /\ pipe = << >>
  /\ pages' = [pages EXCEPT ![s] = @ + got]
  /\ lost' = lost + taken
  /\ result' = [result EXCEPT ![s] = outcome]
  /\ used_pages' = TotalPages + got + taken
  /\ running' = Nobody
  /\ UNCHANGED <<handlerVars, freed_event, submitted, registered>>

\* scatter grows the tables page by page.  A slot freed meanwhile is a KeyError; a pool
\* that runs dry gives out what it has, then raises AllocationFailed.
Scatter(s, need) ==
  EndStep(s, Granted(s, need), 0,
          IF s \notin registered THEN "keyerror"
          ELSE IF Granted(s, need) < need THEN "full" ELSE "ok")

\* reorder comes first in each block: it copies the rows that beam search duplicates, so
\* fewer pages than the session has.  When the free ones do not suffice, after the blocks
\* before have grown by got pages, it raises AllocationFailed, with all of them in local
\* variables.
ReorderRunsDry(s, got) ==
  /\ s \in registered
  /\ got > 0 => NumSlots > 1
  /\ \E copies \in 1 .. pages[s] - 1 : got <= Free /\ Free < got + copies
  /\ EndStep(s, got, Free - got, "dry")

UsePool(s, need) == Scatter(s, need) \/ ReorderRunsDry(s, need)

--------------------------------------------------------------------------------
Init ==
  /\ pc = [s \in Sessions |-> "new"]
  /\ used_pages = 0
  /\ freed_event = FALSE
  /\ pipe = << >>
  /\ registered = {}
  /\ pages = [s \in Sessions |-> 0]
  /\ lost = 0
  /\ submitted = {}
  /\ running = Nobody
  /\ result = [s \in Sessions |-> "none"]

Wait(s) == ParkOnEvent(s) \/ WaitTimesOut(s) \/ ClearEvent(s)

Use(s) == \E need \in 0 .. (MaxPages - pages[s]) : UsePool(s, need)

Runtime == DrainRegister \/ DrainFree \/ \E s \in Sessions : StartStep(s) \/ Use(s)

Next ==
  \/ Runtime
  \/ \E s \in Sessions : TestRoom(s) \/ Wait(s) \/ Register(s) \/ SubmitStep(s) \/ Close(s)

Spec == Init /\ [][Next]_vars

\* The runtime executes what is queued and handlers keep running.  A session may
\* stay open, and need not take a step.
FairSpec ==
  /\ Spec
  /\ WF_vars(Runtime)
  /\ \A s \in Sessions : WF_vars(TestRoom(s) \/ Wait(s) \/ Register(s))

--------------------------------------------------------------------------------
(* Properties *)

\* A session is in one place of allocate_paged_slots; page counts are bounded by
\* the pool.
TypeOK ==
  /\ pc \in [Sessions -> {"new", "testing", "parking", "blocked", "clearing", "registering",
                          "open", "closed", "refused"}]
  /\ used_pages \in 0 .. NumPages
  /\ freed_event \in BOOLEAN
  /\ pipe \in Seq([tag : {"paged_register", "paged_free"}, session : Sessions])
  /\ registered \subseteq Sessions
  /\ pages \in [Sessions -> 0 .. NumPages]
  /\ lost \in 0 .. NumPages
  /\ submitted \subseteq Sessions
  /\ running \in Sessions \cup {Nobody}
  /\ result \in [Sessions -> {"none", "ok", "full", "dry", "keyerror"}]

\* Between steps the published page count is the true one, whether the last step
\* succeeded or raised (use_paged_pool updates it in a finally block).
PublishedCountExact == running = Nobody => used_pages = TotalPages

\* A step of a session that is still open never meets an unknown slot, though
\* registration and step reach the runtime by different ways.
OpenSessionUsable ==
  \A s \in Sessions : result[s] = "keyerror" => pc[s] = "closed"

\* No order of close, step and registration makes the runtime keep what is in the block
\* tables of a session: its slots and their pages outlive it only while its paged_free
\* message is on its way.  Pages that are in no block table and not free, which nothing
\* gives back, there are only if some reorder ran dry.
NoOrphanPages ==
  /\ \A s \in Sessions :
       pc[s] = "closed" /\ (s \in registered \/ pages[s] > 0) =>
         \E i \in 1 .. Len(pipe) : pipe[i] = Message("paged_free", s)
  /\ lost > 0 => \E s \in Sessions : result[s] = "dry"

\* As long as steps are executed, what is in the block tables of a closed session is
\* reclaimed.  (Pages that a reorder lost are in none.)
ClosedSessionReclaimed ==
  \A s \in Sessions :
    []<>(running # Nobody) => (pc[s] = "closed" ~> pages[s] = 0 /\ s \notin registered)

\* allocate_paged_slots: leaving the context returns the pages of the slots to the
\* pool.  So a server whose sessions have all ended comes to have room for another.
IdleServerHasRoom ==
  (\A s \in Sessions : pc[s] # "open") ~> (HasRoom \/ \E s \in Sessions : pc[s] = "open")
================================================================================
