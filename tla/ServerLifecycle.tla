----------------------------- MODULE ServerLifecycle -----------------------------
(***************************************************************************)
(* One server process from its start to its end (server/server.py,         *)
(* cli/run_server.py): the main thread, which builds the server, serves a  *)
(* set of blocks and moves to other blocks; the announcer thread, which    *)
(* tells the DHT; the p2p daemon; and what the DHT then knows.             *)
(*                                                                         *)
(* server_info is one object, shared by the main thread and by the         *)
(* announcers of all the containers that follow one another.  SIGTERM may  *)
(* come at any step, SIGKILL too: what they do is stated here, who sends   *)
(* them in ServerHost.  The announcers' trigger is left out: they wake up  *)
(* every update_period anyway.                                             *)
(***************************************************************************)
EXTENDS Integers, FiniteSets

CONSTANTS
  NumBlocks,   \* blocks of the model
  Windows,     \* the spans <<first, last>> that the server may choose
  GuardWorks,  \* whether the platform lets the guard of process_lifetime.py be armed
  MaxMoves     \* how often it changes them

Blocks == 1 .. NumBlocks

ASSUME LifecycleAssumption ==
  /\ NumBlocks \in Nat \ {0} /\ MaxMoves \in Nat /\ GuardWorks \in BOOLEAN
  /\ Windows \subseteq Blocks \X Blocks
  /\ \A w \in Windows : w[1] <= w[2]

VARIABLES
  main,      \* where the main thread is
  again,     \* whether it will choose other blocks after the container is closed
  info,      \* server_info: [state, span]
  announcers,\* announcers[n]: the announcer thread of the n-th container: [pc, uids]
  loaded,    \* the blocks are in memory
  daemon,    \* the p2p daemon: "none", "running", or "tied" when it dies with the process
  armed,     \* the guard of process_lifetime.py
  records,   \* records[b]: what the DHT says of this server and block b
  moves

threads == <<main, again, info, announcers, loaded, moves>>
lifecycleVars == <<threads, daemon, armed, records>>

NoRecord == [state |-> "none", span |-> <<0, 0>>]
NoAnnouncers == [n \in 1 .. (MaxMoves + 1) |-> [pc |-> "none", uids |-> <<0, 0>>]]
\* ModuleAnnouncerThread for a span, started
NewAnnouncer(w) == [pc |-> "top", uids |-> w]
Running(n) == announcers[n].pc \in {"top", "declared", "waiting"}
Current == moves + 1
Covered(w) == w[1] .. w[2]

\* The main thread is, in this order, in
Places == {"off", "arming", "connecting", "configuring", "built", "installed", "choosing", "loading",
           "failing", "starting", "serving", "closing", "leaving", "stopping"}

\* The process ends with all its threads; a daemon that is not tied to it lives on.
ProcessEnds ==
  /\ main' = "off" /\ again' = FALSE
  /\ info' = NoRecord /\ announcers' = NoAnnouncers
  /\ loaded' = FALSE /\ moves' = 0
  /\ daemon' = IF daemon = "tied" THEN "none" ELSE daemon
  /\ armed' = FALSE

--------------------------------------------------------------------------------
(* server_from_args and Server.__init__ *)

\* Mutant of ArmGuard: the daemon is started first.
ArmGuardLate ==
  /\ main = "arming"
  /\ main' = "connecting"
  /\ UNCHANGED <<again, info, announcers, loaded, moves, daemon, armed, records>>

\* tie_child_processes_to_this_process: best effort, the start goes on without it
ArmGuard ==
  /\ main = "arming"
  /\ main' = "connecting" /\ armed' = GuardWorks
  /\ UNCHANGED <<again, info, announcers, loaded, moves, daemon, records>>

\* The DHT is started, and with it the daemon.
Connect ==
  /\ main = "connecting"
  /\ main' = "configuring" /\ daemon' = IF armed THEN "tied" ELSE "running"
  /\ UNCHANGED <<again, info, announcers, loaded, moves, armed, records>>

\* The rest of Server.__init__: devices, formats, memory, throughput.
Configure ==
  /\ main = "configuring"
  /\ main' = "built"
  /\ UNCHANGED <<again, info, announcers, loaded, moves, daemon, armed, records>>

\* One of its checks fails, or throughput was all that was asked for.
ConfigureFails == main = "configuring" /\ ProcessEnds /\ UNCHANGED records

\* _install_graceful_sigterm
InstallSigterm ==
  /\ main = "built"
  /\ main' = "installed"
  /\ UNCHANGED <<again, info, announcers, loaded, moves, daemon, armed, records>>

--------------------------------------------------------------------------------
(* Server.run and ModuleContainer *)

\* announce, up to the join
Announce(state) == info' = [info EXCEPT !.state = state]

\* Blocks are chosen and an announcer for them is started, which says that they join.
ChooseBlocks ==
  /\ main = "choosing"
  /\ main' = "loading"
  /\ \E w \in Windows : /\ info' = [state |-> "joining", span |-> w]
                        /\ announcers' = [announcers EXCEPT ![Current] = NewAnnouncer(w)]
  /\ UNCHANGED <<again, loaded, moves, daemon, armed, records>>

\* The blocks are loaded, handlers and runtime made, and the container started.
LoadBlocks ==
  /\ main = "loading"
  /\ main' = "starting" /\ loaded' = TRUE
  /\ Announce("online")
  /\ UNCHANGED <<again, announcers, moves, daemon, armed, records>>

\* The except clause of create: OFFLINE is announced and the announcer joined.
LoadFails ==
  /\ main = "loading"
  /\ main' = "failing"
  /\ Announce("offline")
  /\ UNCHANGED <<again, announcers, loaded, moves, daemon, armed, records>>

JoinAfterFailure ==
  /\ main = "failing" /\ announcers[Current].pc = "ended"
  /\ main' = "leaving"
  /\ UNCHANGED <<again, info, announcers, loaded, moves, daemon, armed, records>>

\* Handlers and runtime run: ready is set.
BecomeReady ==
  /\ main = "starting"
  /\ main' = "serving"
  /\ UNCHANGED <<again, info, announcers, loaded, moves, daemon, armed, records>>

\* They do not within ready_timeout: the exception leaves create, outside the try of run.
ReadyTimeout ==
  /\ main = "starting"
  /\ main' = "leaving"
  /\ UNCHANGED <<again, info, announcers, loaded, moves, daemon, armed, records>>

\* A subprocess has died, or the swarm would be better served elsewhere: the container
\* is closed, which begins with OFFLINE.
LeaveBlocks ==
  /\ main = "serving" /\ moves < MaxMoves
  /\ main' = "closing" /\ again' = TRUE
  /\ Announce("offline")
  /\ UNCHANGED <<announcers, loaded, moves, daemon, armed, records>>

\* Mutant of CloseContainer: the announcer is not waited for.
CloseContainerAtOnce ==
  /\ main = "closing"
  /\ main' = (IF again THEN "choosing" ELSE "leaving")
  /\ moves' = IF again THEN moves + 1 ELSE moves
  /\ again' = FALSE /\ loaded' = FALSE
  /\ UNCHANGED <<info, announcers, daemon, armed, records>>

\* The announcer has ended; handlers, pools, runtime and backends are shut down.
CloseContainer ==
  /\ main = "closing" /\ announcers[Current].pc = "ended"
  /\ main' = (IF again THEN "choosing" ELSE "leaving")
  /\ moves' = IF again THEN moves + 1 ELSE moves
  /\ again' = FALSE /\ loaded' = FALSE
  /\ UNCHANGED <<info, announcers, daemon, armed, records>>

\* Server.shutdown: the DHT and its daemon end, then the process.
ShutDown ==
  /\ main = "stopping"
  /\ main' = "off" /\ again' = FALSE
  /\ info' = NoRecord /\ announcers' = NoAnnouncers
  /\ loaded' = FALSE /\ moves' = 0
  /\ daemon' = "none" /\ armed' = FALSE
  /\ UNCHANGED records

--------------------------------------------------------------------------------
(* The announcer: ModuleAnnouncerThread.run *)

\* declare_active_modules: every block gets the server_info of this moment.
Declare(n) ==
  /\ announcers[n].pc = "top" /\ daemon # "none"
  /\ announcers' = [announcers EXCEPT ![n].pc = "declared"]
  /\ records' = [b \in Blocks |-> IF b \in Covered(announcers[n].uids) THEN info ELSE records[b]]
  /\ UNCHANGED <<main, again, info, loaded, moves, daemon, armed>>

\* The state is read again, to see whether the thread has to end.
CheckState(n) ==
  /\ announcers[n].pc = "declared"
  /\ announcers' = [announcers EXCEPT ![n].pc = IF info.state = "offline" THEN "ended" ELSE "waiting"]
  /\ UNCHANGED <<main, again, info, loaded, moves, daemon, armed, records>>

\* update_period is over, or trigger is set.
WakeUp(n) ==
  /\ announcers[n].pc = "waiting"
  /\ announcers' = [announcers EXCEPT ![n].pc = "top"]
  /\ UNCHANGED <<main, again, info, loaded, moves, daemon, armed, records>>

\* What is not renewed expires.
Expire(b) ==
  /\ records[b] # NoRecord
  /\ \A n \in DOMAIN announcers : Running(n) => b \notin Covered(announcers[n].uids)
  /\ records' = [records EXCEPT ![b] = NoRecord]
  /\ UNCHANGED <<threads, daemon, armed>>

--------------------------------------------------------------------------------
(* SIGTERM, by where it finds the main thread *)

KilledBy == {"arming", "connecting", "configuring", "built", "installed", "leaving", "stopping"}

\* Before the handler is there it ends the process; so does the KeyboardInterrupt that
\* the handler raises where serve does not catch it, or in its finally clause.
\* Elsewhere it acts like a failure of what is being done.  Does not set records.
Interrupt ==
  \/ main \in KilledBy /\ ProcessEnds
  \/ /\ main \in {"choosing", "failing", "starting", "closing"}
     /\ main' = "leaving" /\ again' = FALSE
     /\ UNCHANGED <<info, announcers, loaded, moves, daemon, armed>>
  \/ /\ main \in {"loading", "serving"}
     /\ main' = IF main = "loading" THEN "failing" ELSE "closing"
     /\ Announce("offline")
     /\ again' = FALSE
     /\ UNCHANGED <<announcers, loaded, moves, daemon, armed>>

--------------------------------------------------------------------------------
LifecycleInit ==
  /\ main = "off" /\ again = FALSE
  /\ info = NoRecord /\ announcers = NoAnnouncers
  /\ loaded = FALSE /\ moves = 0
  /\ daemon = "none" /\ armed = FALSE
  /\ records = [b \in Blocks |-> NoRecord]

\* Steps of the main thread that do not touch the registry
MainNext ==
  \/ ArmGuard \/ Connect \/ Configure \/ InstallSigterm \/ ChooseBlocks
  \/ LoadBlocks \/ LoadFails \/ JoinAfterFailure \/ BecomeReady \/ ReadyTimeout
  \/ LeaveBlocks \/ CloseContainer

AnnouncerNext == \E n \in DOMAIN announcers : Declare(n) \/ CheckState(n) \/ WakeUp(n)
================================================================================
