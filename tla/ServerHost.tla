-------------------------------- MODULE ServerHost --------------------------------
(***************************************************************************)
(* A machine: the processes behind its pids, one of them the server of     *)
(* ServerLifecycle; the registry of running servers                        *)
(* (utils/server_registry.py); and drift down (cli/run_down.py), which     *)
(* stops the servers it finds in the registry.  A pid may be taken again   *)
(* when its process has ended, by another server or by a stranger.         *)
(***************************************************************************)
EXTENDS ServerLifecycle

CONSTANTS
  Pids,         \* process ids
  MaxBirths,    \* how many processes are started
  MaxDowns,     \* how often drift down is called
  ForceFlag,    \* whether it is called with --force
  Strangers,    \* other processes: some that look like a server ("python"), some that do not
  None

ASSUME HostAssumption ==
  /\ IsFiniteSet(Pids) /\ None \notin Pids
  /\ MaxBirths \in Nat /\ MaxDowns \in Nat /\ ForceFlag \in BOOLEAN
  /\ Strangers \subseteq {"python", "other"}

VARIABLES
  proc,    \* proc[p]: what runs under p
  born,    \* born[p]: how many processes have had this pid
  births,  \* how many there have been in all
  me,      \* the pid of the server
  files,   \* pids with a record in the registry
  down     \* drift down: [pc, todo, asked, live, gone, seen, blind, left]

hostVars == <<proc, born, births, me, files, down>>
vars == <<lifecycleVars, hostVars>>

\* drift down: what it does; the pids it has still to do it to; the one it found alive
\* and whose command line it is about to read; those it took for live servers; those
\* it found gone or foreign; which process was behind each when it decided; for which
\* of them it found out no command line; how many calls are left.
IdleDown(left) == [pc |-> "idle", todo |-> {}, asked |-> None, live |-> {}, gone |-> {},
                   seen |-> [p \in Pids |-> 0], blind |-> {}, left |-> left]

Alive(p) == proc[p] # "none"

--------------------------------------------------------------------------------
(* Processes *)

Begins(p, kind) ==
  /\ ~Alive(p) /\ births < MaxBirths
  /\ proc' = [proc EXCEPT ![p] = kind]
  /\ born' = [born EXCEPT ![p] = @ + 1] /\ births' = births + 1

\* drift server or drift up is called.
StartServer(p) ==
  /\ main = "off" /\ daemon = "none"
  /\ Begins(p, "server")
  /\ main' = "arming" /\ me' = p
  /\ UNCHANGED <<again, info, announcers, loaded, moves, daemon, armed, records, files, down>>

StartStranger(p, kind) ==
  /\ Begins(p, kind)
  /\ UNCHANGED <<lifecycleVars, me, files, down>>

\* What the end of the process means for the machine
Leaves(p) == proc' = [proc EXCEPT ![p] = "none"] /\ UNCHANGED <<born, births>>

\* The server, after its own steps
Own(A) == A /\ UNCHANGED hostVars
OwnEnd(A) == A /\ Leaves(me) /\ me' = None /\ UNCHANGED <<files, down>>

\* register_server; the record is written under another name and renamed.
Register ==
  /\ main = "installed"
  /\ main' = "choosing"
  /\ files' = files \cup {me}
  /\ UNCHANGED <<again, info, announcers, loaded, moves, daemon, armed, records,
                 proc, born, births, me, down>>

\* unregister_server, in the finally clause of serve
Unregister ==
  /\ main = "leaving"
  /\ main' = "stopping"
  /\ files' = files \ {me}
  /\ UNCHANGED <<again, info, announcers, loaded, moves, daemon, armed, records,
                 proc, born, births, me, down>>

--------------------------------------------------------------------------------
(* Signals: terminate_process *)

\* The server may survive SIGTERM for a while, nobody survives SIGKILL, and strangers
\* have no handler.  [all but files, down]
Signal(p, kill) ==
  IF p = me /\ ~kill
  THEN /\ Interrupt
       /\ IF main' = "off" THEN Leaves(p) /\ me' = None ELSE UNCHANGED <<proc, born, births, me>>
       /\ UNCHANGED records
  ELSE IF p = me
  THEN ProcessEnds /\ Leaves(p) /\ me' = None /\ UNCHANGED records
  ELSE Leaves(p) /\ UNCHANGED <<lifecycleVars, me>>

\* Somebody else kills the server.
KillServer ==
  /\ main # "off"
  /\ Signal(me, TRUE)
  /\ UNCHANGED <<files, down>>

--------------------------------------------------------------------------------
(* drift down *)

Down(pc, todo) == [down EXCEPT !.pc = pc, !.todo = todo]

\* iter_records, select_records
ListRecords ==
  /\ down.pc = "idle" /\ down.left > 0
  /\ down' = [IdleDown(down.left - 1) EXCEPT !.pc = "classify", !.todo = files]
  /\ UNCHANGED <<lifecycleVars, proc, born, births, me, files>>

\* classify, one record: process_alive first.
FindAlive(p) ==
  /\ down.pc = "classify" /\ p \in down.todo /\ down.asked = None
  /\ down' = IF Alive(p) THEN [down EXCEPT !.asked = p]
             ELSE [down EXCEPT !.todo = @ \ {p}, !.gone = @ \cup {p}, !.seen[p] = born[p]]
  /\ UNCHANGED <<lifecycleVars, proc, born, births, me, files>>

\* What the record becomes by what is behind the pid when the command line is read
Judged(p, isLive, isBlind) ==
  [down EXCEPT !.todo = @ \ {p}, !.asked = None, !.seen[p] = born[p],
               !.live = IF isLive THEN @ \cup {p} ELSE @,
               !.gone = IF isLive THEN @ ELSE @ \cup {p},
               !.blind = IF isBlind THEN @ \cup {p} ELSE @]

\* Mutant of ReadCommandLine: it is not looked at.
TakeForServer(p) ==
  /\ down.asked = p
  /\ down' = Judged(p, TRUE, FALSE)
  /\ UNCHANGED <<lifecycleVars, proc, born, births, me, files>>

\* process_command_line, a moment later: the process may have ended and another one may
\* have its pid.  The command line of what is there is found out, or it is not (None:
\* nothing is there, ps takes too long, /proc cannot be read); then the record counts as
\* live because the pid was alive.
ReadCommandLine(p) ==
  /\ down.asked = p
  /\ \/ Alive(p) /\ down' = Judged(p, proc[p] # "other", FALSE)
     \/ down' = Judged(p, TRUE, TRUE)
  /\ UNCHANGED <<lifecycleVars, proc, born, births, me, files>>

\* The next part of main or of stop_servers begins.
NextPart ==
  /\ down.todo = {}
  /\ \/ down.pc = "classify" /\ down' = Down("clean", down.gone)
     \/ down.pc = "clean" /\ down' = Down("terminate", down.live)
     \/ down.pc = "terminate" /\ down' = Down("wait", down.live)
     \/ down.pc = "force" /\ down' = Down("waitForced", {p \in down.live : p \notin down.gone})
     \/ down.pc = "unregister" /\ down' = Down("idle", {})
  /\ UNCHANGED <<lifecycleVars, proc, born, births, me, files>>

\* Stale and foreign records are removed.
Clean(p) ==
  /\ down.pc = "clean" /\ p \in down.todo
  /\ files' = files \ {p}
  /\ down' = [down EXCEPT !.todo = @ \ {p}, !.gone = @ \ {p}]
  /\ UNCHANGED <<lifecycleVars, proc, born, births, me>>

\* Servers are asked to stop, those left after a while are forced to.
Terminate(p) ==
  /\ down.pc \in {"terminate", "force"} /\ p \in down.todo
  /\ down' = [down EXCEPT !.todo = @ \ {p}]
  /\ IF Alive(p) THEN Signal(p, ForceFlag \/ down.pc = "force")
                 ELSE UNCHANGED <<lifecycleVars, proc, born, births, me>>
  /\ UNCHANGED files

\* Mutant of SeeExit: a process that was signalled is taken for gone.
SeeExitUnseen(p) ==
  /\ down.pc \in {"wait", "waitForced"} /\ p \in down.todo
  /\ down' = [down EXCEPT !.todo = @ \ {p}, !.gone = @ \cup {p}]
  /\ UNCHANGED <<lifecycleVars, proc, born, births, me, files>>

\* _wait_for_exit finds that a process has ended.
SeeExit(p) ==
  /\ down.pc \in {"wait", "waitForced"} /\ p \in down.todo
  /\ ~Alive(p)
  /\ down' = [down EXCEPT !.todo = @ \ {p}, !.gone = @ \cup {p}]
  /\ UNCHANGED <<lifecycleVars, proc, born, births, me, files>>

\* Mutant of WaitEnds: nobody is forced.
WaitEndsUnforced ==
  /\ down.pc \in {"wait", "waitForced"}
  /\ down' = Down("unregister", down.gone)
  /\ UNCHANGED <<lifecycleVars, proc, born, births, me, files>>

\* Everybody has, or the timeout is over: the rest is forced, or given up.
WaitEnds ==
  /\ down.pc \in {"wait", "waitForced"}
  /\ down' = IF down.pc = "wait" /\ ~ForceFlag /\ down.todo # {}
             THEN Down("force", down.todo) ELSE Down("unregister", down.gone)
  /\ UNCHANGED <<lifecycleVars, proc, born, births, me, files>>

\* The records of those that were seen to end are removed.
UnregisterStopped(p) ==
  /\ down.pc = "unregister" /\ p \in down.todo
  /\ files' = files \ {p}
  /\ down' = [down EXCEPT !.todo = @ \ {p}]
  /\ UNCHANGED <<lifecycleVars, proc, born, births, me>>

--------------------------------------------------------------------------------
Init ==
  /\ LifecycleInit
  /\ proc = [p \in Pids |-> "none"] /\ born = [p \in Pids |-> 0] /\ births = 0
  /\ me = None /\ files = {}
  /\ down = IdleDown(MaxDowns)

ServerNext ==
  \/ Own(MainNext) \/ Register \/ Unregister
  \/ OwnEnd(ConfigureFails) \/ OwnEnd(ShutDown)

DownNext ==
  \/ ListRecords \/ NextPart \/ WaitEnds
  \/ \E p \in Pids : \/ FindAlive(p) \/ ReadCommandLine(p)
                    \/ Clean(p) \/ Terminate(p) \/ SeeExit(p) \/ UnregisterStopped(p)

Next ==
  \/ \E p \in Pids : StartServer(p) \/ \E kind \in Strangers : StartStranger(p, kind)
  \/ ServerNext \/ KillServer
  \/ Own(AnnouncerNext) \/ Own(\E b \in Blocks : Expire(b))
  \/ DownNext

\* drift down, once called, goes on.  Nothing is assumed of the server: it may be stuck.
Fairness == WF_vars(DownNext /\ down.pc # "idle")

Spec == Init /\ [][Next]_vars /\ Fairness

--------------------------------------------------------------------------------
(* Properties *)

\* The type invariant
TypeOK ==
  /\ main \in Places /\ again \in BOOLEAN /\ loaded \in BOOLEAN
  /\ \A n \in DOMAIN announcers : announcers[n].pc \in {"none", "top", "declared", "waiting", "ended"}
  /\ \A b \in Blocks : records[b].state \in {"none", "joining", "online", "offline"}
  /\ daemon \in {"none", "running", "tied"} /\ armed \in BOOLEAN
  /\ proc \in [Pids -> {"none", "server"} \cup Strangers]
  /\ me \in Pids \cup {None} /\ (me # None <=> main # "off")
  /\ files \subseteq Pids
  /\ down.live \subseteq Pids /\ down.gone \subseteq Pids /\ down.todo \subseteq Pids
  /\ down.blind \subseteq Pids /\ down.asked \in Pids \cup {None}

\* Though all announcers share one server_info, which each new container changes
\* (lines 546, 805-806), and are ended by what it says (line 834), no record claims a
\* span for a block outside it, and a server that loads or serves blocks has an
\* announcer for them and no other one.
AnnouncementsRight ==
  /\ \A b \in Blocks : records[b] # NoRecord => b \in Covered(records[b].span)
  /\ main \in {"loading", "starting", "serving"} =>
       \A n \in DOMAIN announcers : Running(n) <=> n = Current

\* drift down harms nobody it has not looked at.  A process that does not look like a
\* server is ended only if another one was behind its pid when drift down looked, or if
\* the command line could not be found out then, for which liveness alone decides
\* (server_registry.py, 179-180).  The record of a running server is removed only if
\* another process, or none, was behind the pid when drift down looked.
HarmsOnlyWhatItSaw ==
  [][\A p \in Pids :
       /\ proc[p] = "other" /\ proc'[p] = "none" => down.seen[p] # born[p] \/ p \in down.blind
       /\ p \in files /\ p \notin files' /\ p = me /\ main' \in {"choosing", "loading", "starting", "serving"}
            => down.seen[p] # born[p]]_vars

\* What drift down reports as stopped has ended, even if its pid is in use again.
StoppedIsGone ==
  \A p \in down.live \cap down.gone : ~Alive(p) \/ born[p] # down.seen[p]

\* Where the platform has a guard, no daemon outlives its server, wherever the server
\* is when it is killed: the guard is armed before anything can start one.
NoOrphanDaemon == GuardWorks /\ main = "off" => daemon = "none"

\* Once drift down waits for servers, it comes to an end, and then each process that it
\* took for a server has ended: by itself, or because it was forced to,
\* even if the server was stuck.
DownStopsServers ==
  (down.pc = "wait") ~> (down.pc = "idle" /\ \A p \in down.live : ~Alive(p) \/ born[p] # down.seen[p])

\* Not true of the code: when a container has been closed, and "Announced that blocks
\* ... are offline" was logged (line 749), no record says that it serves.  The state
\* may be set after the announcer declared its blocks and before it checks the state.
ClosedIsOffline == main = "choosing" => \A b \in Blocks : records[b].state # "online"
================================================================================
