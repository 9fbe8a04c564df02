---------------------------- MODULE ServerHostProofs ----------------------------
(***************************************************************************)
(* Proofs about ServerHost for every number of blocks and moves, every set *)
(* of windows and pids, any number of processes and of calls of drift down.*)
(***************************************************************************)
EXTENDS ServerHost, TLAPS

USE LifecycleAssumption, HostAssumption

--------------------------------------------------------------------------------
(* The inductive invariant *)

Span == (0 .. NumBlocks) \X (0 .. NumBlocks)
ServerInfo == [state : {"none", "joining", "online", "offline"}, span : Span]
Announcer == [pc : {"none", "top", "declared", "waiting", "ended"}, uids : Span]
DownState ==
  [pc : {"idle", "classify", "clean", "terminate", "wait", "force", "waitForced", "unregister"},
   todo : SUBSET Pids, asked : Pids \cup {None}, live : SUBSET Pids, gone : SUBSET Pids,
   seen : [Pids -> Nat], blind : SUBSET Pids, left : Nat]

\* The types of the server's variables
LifecycleTypes ==
  /\ main \in Places /\ again \in BOOLEAN /\ loaded \in BOOLEAN
  /\ info \in ServerInfo
  /\ announcers \in [1 .. (MaxMoves + 1) -> Announcer]
  /\ moves \in 0 .. MaxMoves
  /\ daemon \in {"none", "running", "tied"} /\ armed \in BOOLEAN
  /\ records \in [Blocks -> ServerInfo]

\* The types of the processes of the machine
ProcessTypes ==
  /\ proc \in [Pids -> {"none", "server"} \cup Strangers]
  /\ born \in [Pids -> Nat] /\ births \in Nat
  /\ me \in Pids \cup {None}

\* The types of the machine's variables
HostTypes ==
  /\ ProcessTypes
  /\ files \in SUBSET Pids
  /\ down \in DownState

\* The server is there while its main thread runs.
ServerThere ==
  /\ main # "off" <=> me # None
  /\ me # None => proc[me] = "server"

\* Only the announcer of the current container runs, for the span of server_info, and
\* none before a container is made; it is not ended while the container is in use,
\* since OFFLINE is only announced when that is left.
AnnouncerInv ==
  /\ again => moves < MaxMoves
  /\ \A n \in 1 .. (MaxMoves + 1) : Running(n) => n = Current /\ announcers[n].uids = info.span
  /\ main \in {"off", "arming", "connecting", "configuring", "built", "installed", "choosing"} =>
       \A n \in 1 .. (MaxMoves + 1) : ~Running(n)
  /\ main \in {"loading", "starting", "serving"} =>
       Running(Current) /\ info.state \in {"joining", "online"}
  /\ \A b \in Blocks : records[b] # NoRecord => b \in Covered(records[b].span)

\* With a guard, a daemon is only started when the guard is armed.
DaemonInv ==
  /\ main \notin {"off", "arming"} => armed = GuardWorks
  /\ GuardWorks => daemon # "running"
  /\ GuardWorks /\ main \in {"off", "arming", "connecting"} => daemon = "none"

\* What drift down knows of a pid is true as long as no other process has taken it.
DownInv ==
  /\ \A p \in Pids : down.seen[p] <= born[p]
  /\ \A p \in down.live : down.seen[p] = born[p] => proc[p] # "other" \/ p \in down.blind
  /\ \A p \in down.gone : down.seen[p] = born[p] => proc[p] # "server"
  /\ \A p \in down.live \cap down.gone : down.seen[p] = born[p] => proc[p] = "none"
  /\ down.asked # None => down.pc = "classify" /\ down.asked \in down.todo
  /\ down.pc = "classify" => down.todo \cap (down.live \cup down.gone) = {}
  /\ down.pc \in {"clean", "unregister"} => down.todo \subseteq down.gone
  /\ down.pc \in {"terminate", "wait", "force", "waitForced"} => down.todo \subseteq down.live

Inv == LifecycleTypes /\ HostTypes /\ ServerThere /\ AnnouncerInv /\ DaemonInv /\ DownInv

--------------------------------------------------------------------------------
(* The steps of the server's process *)

\* Spans that the server may choose, and the absence of one, are spans.
LEMMA SpanFacts ==
  /\ Windows \subseteq Span
  /\ <<0, 0>> \in Span
  /\ NoRecord \in ServerInfo
  /\ NoAnnouncers \in [1 .. (MaxMoves + 1) -> Announcer]
  /\ \A w \in Windows : NewAnnouncer(w) \in Announcer
<1>1. Windows \subseteq Span /\ <<0, 0>> \in Span
  BY DEF Span, Blocks
<1>2. QED
  BY <1>1 DEF NoRecord, ServerInfo, NoAnnouncers, Announcer, NewAnnouncer

\* The end of the process leaves no announcer and, with a guard, no daemon.
LEMMA ProcessEndsKeepsInv ==
  ASSUME LifecycleTypes, AnnouncerInv, DaemonInv, ProcessEnds, UNCHANGED records
  PROVE  LifecycleTypes' /\ AnnouncerInv' /\ DaemonInv' /\ main' = "off"
<1>1. LifecycleTypes'
  <2>1. info' \in ServerInfo /\ announcers' \in [1 .. (MaxMoves + 1) -> Announcer]
    BY SpanFacts, Zenon DEF ProcessEnds
  <2>2. moves' \in 0 .. MaxMoves /\ daemon' \in {"none", "running", "tied"}
    BY DEF LifecycleTypes, ProcessEnds
  <2>3. QED  BY <2>1, <2>2 DEF LifecycleTypes, ProcessEnds, Places
<1>2. \A n \in 1 .. (MaxMoves + 1) : ~Running(n)'
  BY DEF ProcessEnds, NoAnnouncers, Running
<1>3. AnnouncerInv'
  BY <1>2 DEF AnnouncerInv, ProcessEnds, Running, Current
<1>4. DaemonInv' /\ main' = "off"
  BY DEF DaemonInv, LifecycleTypes, ProcessEnds
<1>5. QED  BY <1>1, <1>3, <1>4

\* Steps of the main thread that stay within the process keep its types.
LEMMA MainKeepsTypes ==
  ASSUME LifecycleTypes, AnnouncerInv, MainNext
  PROVE  LifecycleTypes'
<1> USE DEF LifecycleTypes, Places
<1>1. CASE ArmGuard  BY <1>1 DEF ArmGuard
<1>2. CASE Connect  BY <1>2 DEF Connect
<1>3. CASE Configure  BY <1>3 DEF Configure
<1>4. CASE InstallSigterm  BY <1>4 DEF InstallSigterm
<1>5. CASE ChooseBlocks
  <2>1. PICK w \in Windows : /\ info' = [state |-> "joining", span |-> w]
                             /\ announcers' = [announcers EXCEPT ![Current] = NewAnnouncer(w)]
    BY <1>5 DEF ChooseBlocks
  <2>2. info' \in ServerInfo
    BY <2>1, SpanFacts DEF ServerInfo
  <2>3. announcers' \in [1 .. (MaxMoves + 1) -> Announcer]
    BY <2>1, SpanFacts
  <2>4. QED  BY <1>5, <2>2, <2>3 DEF ChooseBlocks
<1>6. CASE LoadBlocks  BY <1>6 DEF LoadBlocks, Announce, ServerInfo
<1>7. CASE LoadFails  BY <1>7 DEF LoadFails, Announce, ServerInfo
<1>8. CASE JoinAfterFailure  BY <1>8 DEF JoinAfterFailure
<1>9. CASE BecomeReady  BY <1>9 DEF BecomeReady
<1>10. CASE ReadyTimeout  BY <1>10 DEF ReadyTimeout
<1>11. CASE LeaveBlocks  BY <1>11 DEF LeaveBlocks, Announce, ServerInfo
<1>12. CASE CloseContainer
  <2>1. moves' \in 0 .. MaxMoves
    BY <1>12 DEF CloseContainer, AnnouncerInv
  <2>2. QED  BY <1>12, <2>1 DEF CloseContainer
<1>13. QED
  BY <1>1, <1>2, <1>3, <1>4, <1>5, <1>6, <1>7, <1>8, <1>9, <1>10, <1>11, <1>12 DEF MainNext

\* They keep the announcers right.
LEMMA MainKeepsAnnouncers ==
  ASSUME LifecycleTypes, AnnouncerInv, MainNext
  PROVE  AnnouncerInv'
<1> USE DEF Running, Current
<1>0. UNCHANGED records
  BY DEF MainNext, ArmGuard, Connect, Configure, InstallSigterm, ChooseBlocks, LoadBlocks, LoadFails,
         JoinAfterFailure, BecomeReady, ReadyTimeout, LeaveBlocks, CloseContainer
<1>1. CASE ArmGuard \/ Connect \/ Configure \/ InstallSigterm
  BY <1>1 DEF AnnouncerInv, ArmGuard, Connect, Configure, InstallSigterm
<1>2. CASE ChooseBlocks
  <2>1. PICK w \in Windows : /\ info' = [state |-> "joining", span |-> w]
                             /\ announcers' = [announcers EXCEPT ![Current] = NewAnnouncer(w)]
    BY <1>2 DEF ChooseBlocks
  <2>2. Current \in 1 .. (MaxMoves + 1) /\ UNCHANGED moves
    BY <1>2 DEF ChooseBlocks, LifecycleTypes
  <2>3. \A n \in 1 .. (MaxMoves + 1) :
          announcers'[n] = IF n = Current THEN NewAnnouncer(w) ELSE announcers[n]
    BY <2>1, <2>2 DEF LifecycleTypes
  <2>4. \A n \in 1 .. (MaxMoves + 1) : ~Running(n)
    BY <1>2 DEF ChooseBlocks, AnnouncerInv
  <2>5. QED
    BY <1>0, <1>2, <2>1, <2>2, <2>3, <2>4 DEF ChooseBlocks, AnnouncerInv, NewAnnouncer
<1>3. CASE LoadBlocks
  BY <1>0, <1>3 DEF LoadBlocks, Announce, AnnouncerInv, LifecycleTypes, ServerInfo
<1>4. CASE LoadFails \/ LeaveBlocks
  BY <1>0, <1>4 DEF LoadFails, LeaveBlocks, Announce, AnnouncerInv, LifecycleTypes, ServerInfo
<1>5. CASE JoinAfterFailure \/ BecomeReady \/ ReadyTimeout
  BY <1>0, <1>5 DEF JoinAfterFailure, BecomeReady, ReadyTimeout, AnnouncerInv
<1>6. CASE CloseContainer
  <2>1. \A n \in 1 .. (MaxMoves + 1) : ~Running(n)
    BY <1>6 DEF CloseContainer, AnnouncerInv
  <2>2. QED  BY <1>0, <1>6, <2>1 DEF CloseContainer, AnnouncerInv
<1>7. QED  BY <1>1, <1>2, <1>3, <1>4, <1>5, <1>6 DEF MainNext

\* They arm the guard before the daemon is started.
LEMMA MainKeepsDaemon ==
  ASSUME LifecycleTypes, DaemonInv, MainNext
  PROVE  DaemonInv'
  BY DEF LifecycleTypes, DaemonInv, MainNext, ArmGuard, Connect, Configure, InstallSigterm, ChooseBlocks,
         LoadBlocks, LoadFails, JoinAfterFailure, BecomeReady, ReadyTimeout, LeaveBlocks, CloseContainer

\* An announcer declares its own blocks with the span it was made for.
LEMMA AnnouncerKeepsInv ==
  ASSUME LifecycleTypes, AnnouncerInv, DaemonInv, AnnouncerNext
  PROVE  LifecycleTypes' /\ AnnouncerInv' /\ DaemonInv'
<1>1. PICK n \in 1 .. (MaxMoves + 1) : Declare(n) \/ CheckState(n) \/ WakeUp(n)
  BY DEF AnnouncerNext, LifecycleTypes
<1>2. UNCHANGED <<main, again, info, loaded, moves, daemon, armed>>
  BY <1>1 DEF Declare, CheckState, WakeUp
<1>3. DaemonInv'
  BY <1>2 DEF DaemonInv
<1>4. CASE Declare(n)
  <2>1. announcers' = [announcers EXCEPT ![n].pc = "declared"] /\ Running(n)
    BY <1>4 DEF Declare, Running
  <2>2. announcers' \in [1 .. (MaxMoves + 1) -> Announcer]
    BY <2>1 DEF LifecycleTypes, Announcer
  <2>3. \A m \in 1 .. (MaxMoves + 1) :
          announcers'[m].uids = announcers[m].uids /\ (Running(m)' <=> Running(m))
    BY <2>1 DEF LifecycleTypes, Announcer, Running
  <2>4. announcers[n].uids = info.span
    BY <2>1 DEF AnnouncerInv
  <2>5. records' = [b \in Blocks |-> IF b \in Covered(info.span) THEN info ELSE records[b]]
    BY <1>4, <2>4 DEF Declare
  <2>6. records' \in [Blocks -> ServerInfo]
    BY <2>5 DEF LifecycleTypes
  <2>7. \A b \in Blocks : records'[b] # NoRecord => b \in Covered(records'[b].span)
    BY <2>5 DEF AnnouncerInv
  <2>8. QED  BY <1>2, <1>3, <2>2, <2>3, <2>6, <2>7 DEF LifecycleTypes, AnnouncerInv, Current
<1>5. CASE CheckState(n) \/ WakeUp(n)
  <2>1. UNCHANGED records
    BY <1>5 DEF CheckState, WakeUp
  <2>2. PICK pc \in {"waiting", "ended", "top"} :
          /\ announcers' = [announcers EXCEPT ![n].pc = pc]
          /\ pc = "ended" => info.state = "offline"
    BY <1>5 DEF CheckState, WakeUp
  <2>3. Running(n)
    BY <1>5 DEF CheckState, WakeUp, Running
  <2>4. announcers' \in [1 .. (MaxMoves + 1) -> Announcer]
    BY <2>2 DEF LifecycleTypes, Announcer
  <2>5. \A m \in 1 .. (MaxMoves + 1) :
          /\ announcers'[m].uids = announcers[m].uids
          /\ Running(m)' => Running(m)
          /\ info.state # "offline" => (Running(m)' <=> Running(m))
    BY <2>2, <2>3 DEF LifecycleTypes, Announcer, Running
  <2>6. Current \in 1 .. (MaxMoves + 1)
    BY DEF LifecycleTypes, Current
  <2>7. QED  BY <1>2, <1>3, <2>1, <2>4, <2>5, <2>6 DEF LifecycleTypes, AnnouncerInv, Current
<1>6. QED  BY <1>1, <1>4, <1>5

\* Expiry only takes records away.
LEMMA ExpireKeepsInv ==
  ASSUME LifecycleTypes, AnnouncerInv, DaemonInv, NEW b \in Blocks, Expire(b)
  PROVE  LifecycleTypes' /\ AnnouncerInv' /\ DaemonInv'
<1>1. records' = [records EXCEPT ![b] = NoRecord] /\ UNCHANGED <<threads, daemon, armed>>
  BY DEF Expire
<1>2. records' \in [Blocks -> ServerInfo]
  BY <1>1, SpanFacts DEF LifecycleTypes
<1>3. \A c \in Blocks : records'[c] # NoRecord => c \in Covered(records'[c].span)
  BY <1>1 DEF AnnouncerInv, LifecycleTypes
<1>4. QED
  BY <1>1, <1>2, <1>3 DEF LifecycleTypes, AnnouncerInv, DaemonInv, threads, Running, Current

\* SIGTERM is a failure of what the main thread does, or the end of the process.
LEMMA InterruptKeepsInv ==
  ASSUME LifecycleTypes, AnnouncerInv, DaemonInv, Interrupt, UNCHANGED records
  PROVE  LifecycleTypes' /\ AnnouncerInv' /\ DaemonInv'
<1>1. CASE main \in KilledBy /\ ProcessEnds
  BY <1>1, ProcessEndsKeepsInv
<1>2. CASE /\ main \in {"choosing", "failing", "starting", "closing"}
           /\ main' = "leaving" /\ again' = FALSE
           /\ UNCHANGED <<info, announcers, loaded, moves, daemon, armed>>
  BY <1>2 DEF LifecycleTypes, AnnouncerInv, DaemonInv, Places, Running, Current
<1>3. CASE /\ main \in {"loading", "serving"}
           /\ main' = IF main = "loading" THEN "failing" ELSE "closing"
           /\ Announce("offline")
           /\ again' = FALSE
           /\ UNCHANGED <<announcers, loaded, moves, daemon, armed>>
  <2>1. info' \in ServerInfo /\ info'.span = info.span
    BY <1>3 DEF Announce, LifecycleTypes, ServerInfo
  <2>2. QED
    BY <1>3, <2>1 DEF LifecycleTypes, AnnouncerInv, DaemonInv, Places, Running, Current
<1>4. QED  BY <1>1, <1>2, <1>3 DEF Interrupt

--------------------------------------------------------------------------------
(* The processes of the machine *)

\* What any step does to the processes: they end, or a pid is taken once more.
ProcessesGoOn ==
  \A p \in Pids : \/ born'[p] = born[p] /\ proc'[p] \in {proc[p], "none"}
                  \/ born'[p] = born[p] + 1

\* The parts of the invariant that are not about drift down
ServerInv == LifecycleTypes /\ ProcessTypes /\ ServerThere /\ AnnouncerInv /\ DaemonInv

\* What processes do does not falsify what drift down knows.
LEMMA KnowledgeKept ==
  ASSUME HostTypes, ProcessTypes', DownInv, ProcessesGoOn,
         down' = [down EXCEPT !.todo = down'.todo], down'.todo \subseteq down.todo,
         down'.todo = down.todo \/ down.pc # "classify"
  PROVE  DownInv'
<1>1. /\ down'.seen = down.seen /\ down'.live = down.live /\ down'.gone = down.gone
      /\ down'.blind = down.blind /\ down'.asked = down.asked
      /\ down'.pc = down.pc
  BY DEF HostTypes, DownState
<1>2. \A p \in Pids : /\ down.seen[p] \in Nat /\ born[p] \in Nat /\ born'[p] \in Nat
                      /\ down.seen[p] <= born[p]
                      /\ \/ born'[p] = born[p] /\ proc'[p] \in {proc[p], "none"}
                         \/ born'[p] = born[p] + 1
  BY DEF HostTypes, DownState, ProcessTypes, DownInv, ProcessesGoOn
<1>3. down.live \subseteq Pids /\ down.gone \subseteq Pids
  BY DEF HostTypes, DownState
<1>4. \A p \in Pids : down.seen[p] <= born'[p]
  BY <1>2
<1>5. \A p \in down.live : down.seen[p] = born'[p] => proc'[p] # "other" \/ p \in down.blind
  BY <1>2, <1>3 DEF DownInv
<1>6. \A p \in down.gone : down.seen[p] = born'[p] => proc'[p] # "server"
  BY <1>2, <1>3 DEF DownInv
<1>7. \A p \in down.live \cap down.gone : down.seen[p] = born'[p] => proc'[p] = "none"
  BY <1>2, <1>3 DEF DownInv
<1>8. QED  BY <1>1, <1>4, <1>5, <1>6, <1>7 DEF DownInv

\* A process starts under a free pid.
LEMMA BeginsKeepsTypes ==
  ASSUME ProcessTypes, NEW p \in Pids, NEW kind \in {"server"} \cup Strangers, Begins(p, kind)
  PROVE  /\ proc' \in [Pids -> {"none", "server"} \cup Strangers]
         /\ born' \in [Pids -> Nat] /\ births' \in Nat
         /\ ProcessesGoOn
         /\ proc' = [proc EXCEPT ![p] = kind] /\ proc[p] = "none"
<1>1. /\ proc' = [proc EXCEPT ![p] = kind] /\ born' = [born EXCEPT ![p] = @ + 1]
      /\ births' = births + 1 /\ proc[p] = "none"
  BY DEF Begins, Alive
<1>2. QED  BY <1>1 DEF ProcessTypes, ProcessesGoOn

\* The server starts where none is.
LEMMA StartServerKeepsInv ==
  ASSUME ServerInv, NEW p \in Pids, StartServer(p)
  PROVE  ServerInv' /\ ProcessesGoOn
<1>1. /\ main = "off" /\ daemon = "none" /\ Begins(p, "server")
      /\ main' = "arming" /\ me' = p
      /\ UNCHANGED <<again, info, announcers, loaded, moves, daemon, armed, records>>
  BY DEF StartServer
<1>2. /\ proc' \in [Pids -> {"none", "server"} \cup Strangers]
      /\ born' \in [Pids -> Nat] /\ births' \in Nat
      /\ ProcessesGoOn /\ proc' = [proc EXCEPT ![p] = "server"]
  BY <1>1, BeginsKeepsTypes DEF ServerInv
<1>3. LifecycleTypes' /\ AnnouncerInv' /\ DaemonInv'
  BY <1>1 DEF ServerInv, LifecycleTypes, AnnouncerInv, DaemonInv, Places, Running, Current
<1>4. ProcessTypes'
  BY <1>1, <1>2 DEF ProcessTypes
<1>5. me' # None /\ proc'[p] = "server"
  BY <1>1, <1>2 DEF ServerInv, ProcessTypes
<1>6. QED  BY <1>1, <1>2, <1>3, <1>4, <1>5 DEF ServerInv, ServerThere

\* A stranger takes a pid that is not the server's.
LEMMA StartStrangerKeepsInv ==
  ASSUME ServerInv, NEW p \in Pids, NEW kind \in Strangers, StartStranger(p, kind)
  PROVE  ServerInv' /\ ProcessesGoOn
<1>1. Begins(p, kind) /\ UNCHANGED <<lifecycleVars, me>>
  BY DEF StartStranger
<1>2. /\ proc' \in [Pids -> {"none", "server"} \cup Strangers]
      /\ born' \in [Pids -> Nat] /\ births' \in Nat
      /\ ProcessesGoOn /\ proc' = [proc EXCEPT ![p] = kind] /\ proc[p] = "none"
  BY <1>1, BeginsKeepsTypes DEF ServerInv
<1>3. LifecycleTypes' /\ AnnouncerInv' /\ DaemonInv'
  BY <1>1 DEF ServerInv, LifecycleTypes, AnnouncerInv, DaemonInv, Running, Current, lifecycleVars, threads
<1>4. ProcessTypes'
  BY <1>1, <1>2 DEF ServerInv, ProcessTypes
<1>5. ServerThere'
  BY <1>1, <1>2 DEF ServerInv, ServerThere, ProcessTypes, lifecycleVars, threads
<1>6. QED  BY <1>2, <1>3, <1>4, <1>5 DEF ServerInv

\* The process of a pid ends.
LEMMA LeavesFacts ==
  ASSUME ProcessTypes, NEW p \in Pids, Leaves(p)
  PROVE  /\ proc' \in [Pids -> {"none", "server"} \cup Strangers]
         /\ UNCHANGED <<born, births>>
         /\ ProcessesGoOn
         /\ \A q \in Pids \ {p} : proc'[q] = proc[q]
  BY DEF ProcessTypes, ProcessesGoOn, Leaves

\* A signal ends a process, or makes the server leave what it does.
LEMMA SignalKeepsInv ==
  ASSUME ServerInv, NEW p \in Pids, NEW kill \in BOOLEAN, Signal(p, kill)
  PROVE  ServerInv' /\ ProcessesGoOn
<1>1. CASE p = me /\ ~kill
  <2>1. Interrupt /\ UNCHANGED records
    BY <1>1 DEF Signal
  <2>2. LifecycleTypes' /\ AnnouncerInv' /\ DaemonInv'
    BY <2>1, InterruptKeepsInv DEF ServerInv
  <2>3. CASE main' = "off"
    <3>1. Leaves(p) /\ me' = None
      BY <1>1, <2>3 DEF Signal
    <3>2. QED  BY <2>2, <2>3, <3>1, LeavesFacts DEF ServerInv, ProcessTypes, ServerThere
  <2>4. CASE main' # "off"
    <3>1. UNCHANGED <<proc, born, births, me>>
      BY <1>1, <2>4 DEF Signal
    <3>2. me # None
      BY <1>1
    <3>3. ProcessTypes' /\ ProcessesGoOn
      BY <3>1 DEF ServerInv, ProcessTypes, ProcessesGoOn
    <3>4. QED  BY <2>2, <2>4, <3>1, <3>2, <3>3 DEF ServerInv, ServerThere
  <2>5. QED  BY <2>3, <2>4
<1>2. CASE p = me /\ kill
  <2>1. ProcessEnds /\ Leaves(p) /\ me' = None /\ UNCHANGED records
    BY <1>2 DEF Signal
  <2>2. LifecycleTypes' /\ AnnouncerInv' /\ DaemonInv' /\ main' = "off"
    BY <2>1, ProcessEndsKeepsInv DEF ServerInv
  <2>3. QED  BY <2>1, <2>2, LeavesFacts DEF ServerInv, ProcessTypes, ServerThere
<1>3. CASE p # me
  <2>1. Leaves(p) /\ UNCHANGED <<lifecycleVars, me>>
    BY <1>3 DEF Signal
  <2>2. LifecycleTypes' /\ AnnouncerInv' /\ DaemonInv'
    BY <2>1 DEF ServerInv, LifecycleTypes, AnnouncerInv, DaemonInv, Running, Current, lifecycleVars, threads
  <2>3. QED
    BY <1>3, <2>1, <2>2, LeavesFacts DEF ServerInv, ProcessTypes, ServerThere, lifecycleVars, threads
<1>4. QED  BY <1>1, <1>2, <1>3

\* Steps of the server's own threads and of the DHT
LEMMA OwnKeepsInv ==
  ASSUME ServerInv, Own(MainNext) \/ Own(AnnouncerNext) \/ Own(\E b \in Blocks : Expire(b))
  PROVE  ServerInv' /\ ProcessesGoOn
<1>1. UNCHANGED <<proc, born, births, me>>
  BY DEF Own, hostVars
<1>2. LifecycleTypes' /\ AnnouncerInv' /\ DaemonInv' /\ (main' # "off" <=> main # "off")
  <2>1. CASE MainNext
    <3>1. main' # "off" /\ main # "off"
      BY <2>1 DEF MainNext, ArmGuard, Connect, Configure, InstallSigterm, ChooseBlocks, LoadBlocks,
                  LoadFails, JoinAfterFailure, BecomeReady, ReadyTimeout, LeaveBlocks, CloseContainer
    <3>2. QED
      BY <2>1, <3>1, MainKeepsTypes, MainKeepsAnnouncers, MainKeepsDaemon DEF ServerInv
  <2>2. CASE AnnouncerNext
    <3>1. UNCHANGED main
      BY <2>2 DEF AnnouncerNext, Declare, CheckState, WakeUp
    <3>2. QED  BY <2>2, <3>1, AnnouncerKeepsInv DEF ServerInv
  <2>3. ASSUME NEW b \in Blocks, Expire(b)
        PROVE  LifecycleTypes' /\ AnnouncerInv' /\ DaemonInv' /\ UNCHANGED main
    BY <2>3, ExpireKeepsInv DEF ServerInv, Expire, threads
  <2>4. QED  BY <2>1, <2>2, <2>3 DEF Own
<1>3. QED  BY <1>1, <1>2 DEF ServerInv, ProcessTypes, ServerThere, ProcessesGoOn

\* The ends of the server that nobody else causes
LEMMA OwnEndKeepsInv ==
  ASSUME ServerInv, OwnEnd(ConfigureFails) \/ OwnEnd(ShutDown)
  PROVE  ServerInv' /\ ProcessesGoOn
<1>1. Leaves(me) /\ me' = None
  BY DEF OwnEnd
<1>2. me \in Pids
  BY DEF OwnEnd, ConfigureFails, ShutDown, ServerInv, ServerThere, ProcessTypes
<1>3. LifecycleTypes' /\ AnnouncerInv' /\ DaemonInv' /\ main' = "off"
  <2>1. CASE ConfigureFails
    BY <2>1, ProcessEndsKeepsInv DEF ConfigureFails, ServerInv
  <2>2. CASE ShutDown
    <3>1. /\ main' = "off" /\ again' = FALSE /\ info' = NoRecord /\ announcers' = NoAnnouncers
          /\ loaded' = FALSE /\ moves' = 0 /\ daemon' = "none" /\ armed' = FALSE
          /\ UNCHANGED records
      BY <2>2 DEF ShutDown
    <3>2. LifecycleTypes'
      <4>1. info' \in ServerInfo /\ announcers' \in [1 .. (MaxMoves + 1) -> Announcer]
        BY <3>1, SpanFacts, Zenon
      <4>2. moves' \in 0 .. MaxMoves /\ records' \in [Blocks -> ServerInfo]
        BY <3>1 DEF ServerInv, LifecycleTypes
      <4>3. QED  BY <3>1, <4>1, <4>2 DEF LifecycleTypes, Places
    <3>3. \A n \in 1 .. (MaxMoves + 1) : ~Running(n)'
      BY <3>1 DEF NoAnnouncers, Running
    <3>4. AnnouncerInv'
      BY <3>1, <3>3 DEF ServerInv, AnnouncerInv, Running, Current
    <3>5. QED  BY <3>1, <3>2, <3>4 DEF DaemonInv
  <2>3. QED  BY <2>1, <2>2 DEF OwnEnd
<1>4. QED  BY <1>1, <1>2, <1>3, LeavesFacts DEF ServerInv, ProcessTypes, ServerThere

\* The registry is written by the server itself.
LEMMA RegistryKeepsInv ==
  ASSUME ServerInv, Register \/ Unregister
  PROVE  ServerInv' /\ ProcessesGoOn
<1>1. /\ main # "off" /\ main' \in {"choosing", "stopping"} /\ (main' = "choosing" => main = "installed")
      /\ UNCHANGED <<again, info, announcers, loaded, moves, daemon, armed, records, proc, born, births, me>>
      /\ main \notin {"arming", "connecting"}
  BY DEF Register, Unregister
<1>2. LifecycleTypes' /\ AnnouncerInv' /\ DaemonInv'
  BY <1>1 DEF ServerInv, LifecycleTypes, AnnouncerInv, DaemonInv, Places, Running, Current
<1>3. QED  BY <1>1, <1>2 DEF ServerInv, ProcessTypes, ServerThere, ProcessesGoOn

--------------------------------------------------------------------------------
(* drift down *)

\* A step of drift down that touches neither processes nor the server
Looks == UNCHANGED <<lifecycleVars, proc, born, births, me>>

\* Such a step keeps the part of the invariant about the server.
LEMMA LooksKeepsInv ==
  ASSUME ServerInv, Looks
  PROVE  ServerInv' /\ ProcessesGoOn
  BY DEF Looks, ServerInv, LifecycleTypes, ProcessTypes, ServerThere, AnnouncerInv, DaemonInv,
         lifecycleVars, threads, Running, Current, ProcessesGoOn

\* The server's part of the invariant survives every step of drift down.
LEMMA DownKeepsServerInv ==
  ASSUME ServerInv, DownNext
  PROVE  ServerInv' /\ ProcessesGoOn
<1>1. CASE ListRecords  BY <1>1, LooksKeepsInv DEF ListRecords, Looks
<1>2. CASE NextPart  BY <1>2, LooksKeepsInv DEF NextPart, Looks
<1>3. CASE WaitEnds  BY <1>3, LooksKeepsInv DEF WaitEnds, Looks
<1>4. ASSUME NEW p \in Pids,
             FindAlive(p) \/ ReadCommandLine(p) \/ Clean(p) \/ SeeExit(p) \/ UnregisterStopped(p)
      PROVE  ServerInv' /\ ProcessesGoOn
  BY <1>4, LooksKeepsInv DEF FindAlive, ReadCommandLine, Clean, SeeExit, UnregisterStopped, Looks
<1>5. ASSUME NEW p \in Pids, Terminate(p)  PROVE ServerInv' /\ ProcessesGoOn
  <2>1. CASE Alive(p)
    <3>1. PICK kill \in BOOLEAN : Signal(p, kill)
      BY <1>5, <2>1, Zenon DEF Terminate
    <3>2. QED  BY <3>1, SignalKeepsInv
  <2>2. CASE ~Alive(p)
    BY <1>5, <2>2, LooksKeepsInv DEF Terminate, Looks
  <2>3. QED  BY <2>1, <2>2
<1>6. QED  BY <1>1, <1>2, <1>3, <1>4, <1>5 DEF DownNext

\* What drift down writes down is true when it does.
LEMMA DownKeepsDownInv ==
  ASSUME HostTypes, DownInv, DownNext, ProcessTypes', ProcessesGoOn
  PROVE  files' \in SUBSET Pids /\ down' \in DownState /\ DownInv'
<1>0. down \in DownState /\ files \in SUBSET Pids /\ \A p \in Pids : born[p] \in Nat
  BY DEF HostTypes, ProcessTypes
<1>1. CASE ListRecords
  <2>1. /\ down' = [IdleDown(down.left - 1) EXCEPT !.pc = "classify", !.todo = files]
        /\ UNCHANGED <<proc, born, files>> /\ down.left > 0
    BY <1>1 DEF ListRecords
  <2>2. down' = [pc |-> "classify", todo |-> files, asked |-> None, live |-> {}, gone |-> {},
                 seen |-> [p \in Pids |-> 0], blind |-> {}, left |-> down.left - 1]
    BY <2>1 DEF IdleDown
  <2>3. down.left - 1 \in Nat /\ [p \in Pids |-> 0] \in [Pids -> Nat]
    BY <1>0, <2>1 DEF DownState
  <2>4. files' \in SUBSET Pids /\ down' \in DownState
    BY <1>0, <2>1, <2>2, <2>3 DEF DownState
  <2>5. \A p \in Pids : down'.seen[p] = 0 /\ born'[p] \in Nat
    <3>1. born' = born
      BY <2>1
    <3>2. DEFINE zero == [p \in Pids |-> 0]
    <3>3. down'.seen = zero
      <4> HIDE DEF zero
      <4>1. down' = [pc |-> "classify", todo |-> files, asked |-> None, live |-> {}, gone |-> {},
                     seen |-> zero, blind |-> {}, left |-> down.left - 1]
        BY <2>2 DEF zero
      <4>2. QED  BY <4>1
    <3>4. QED  BY <1>0, <3>1, <3>3
  <2>6. QED  BY <2>2, <2>4, <2>5 DEF DownInv
<1>2. ASSUME NEW p \in Pids, down.pc = "classify", p \in down.todo, UNCHANGED <<proc, born, files>>,
             NEW isLive \in BOOLEAN, NEW isBlind \in BOOLEAN,
             down' = Judged(p, isLive, isBlind),
             isLive /\ ~isBlind => proc[p] # "other", ~isLive => proc[p] # "server"
      PROVE  files' \in SUBSET Pids /\ down' \in DownState /\ DownInv'
  <2>1. /\ down'.pc = "classify" /\ down'.todo = down.todo \ {p} /\ down'.asked = None
        /\ down'.seen = [down.seen EXCEPT ![p] = born[p]] /\ down'.left = down.left
        /\ down'.live = IF isLive THEN down.live \cup {p} ELSE down.live
        /\ down'.gone = IF isLive THEN down.gone ELSE down.gone \cup {p}
        /\ down'.blind = IF isBlind THEN down.blind \cup {p} ELSE down.blind
    BY <1>0, <1>2 DEF DownState, Judged
  <2>2. down' \in DownState
    BY <1>0, <1>2 DEF DownState, Judged
  <2>3. p \notin down.live /\ p \notin down.gone
    BY <1>2 DEF DownInv
  <2>4. down.seen \in [Pids -> Nat]
    BY <1>0 DEF DownState
  <2>5. QED  BY <1>0, <1>2, <2>1, <2>2, <2>3, <2>4 DEF DownInv
<1>9. ASSUME NEW p \in Pids, FindAlive(p)
      PROVE  files' \in SUBSET Pids /\ down' \in DownState /\ DownInv'
  <2>1. down.pc = "classify" /\ p \in down.todo /\ down.asked = None /\ UNCHANGED <<proc, born, files>>
    BY <1>9 DEF FindAlive
  <2>2. CASE Alive(p)
    <3>1. down' = [down EXCEPT !.asked = p]
      BY <1>9, <2>2 DEF FindAlive
    <3>2. QED  BY <1>0, <2>1, <3>1 DEF DownState, DownInv
  <2>3. CASE ~Alive(p)
    <3>1. down' = [down EXCEPT !.todo = @ \ {p}, !.gone = @ \cup {p}, !.seen[p] = born[p]]
      BY <1>9, <2>3 DEF FindAlive
    <3>2. down' = Judged(p, FALSE, FALSE)
      BY <1>0, <2>1, <3>1 DEF Judged, DownState
    <3>3. proc[p] # "server"
      BY <2>3 DEF Alive
    <3>4. QED  BY <1>2, <2>1, <3>2, <3>3
  <2>4. QED  BY <2>2, <2>3
<1>10. ASSUME NEW p \in Pids, ReadCommandLine(p)
       PROVE  files' \in SUBSET Pids /\ down' \in DownState /\ DownInv'
  <2>1. down.asked = p /\ UNCHANGED <<proc, born, files>>
    BY <1>10 DEF ReadCommandLine
  <2>2. down.pc = "classify" /\ p \in down.todo
    BY <2>1, HostAssumption DEF DownInv
  <2>3. CASE down' = Judged(p, TRUE, TRUE)
    BY <1>2, <2>1, <2>2, <2>3
  <2>4. CASE down' = Judged(p, proc[p] # "other", FALSE)
    BY <1>2, <2>1, <2>2, <2>4
  <2>5. QED  BY <1>10, <2>3, <2>4 DEF ReadCommandLine
<1>3. CASE NextPart
  <2>1. PICK pc \in {"clean", "terminate", "wait", "waitForced", "idle"},
             todo \in SUBSET Pids :
          /\ down' = [down EXCEPT !.pc = pc, !.todo = todo]
          /\ pc = "clean" => todo = down.gone
          /\ pc \in {"terminate", "wait", "waitForced"} => todo \subseteq down.live
    <3>1. down.gone \in SUBSET Pids /\ down.live \in SUBSET Pids
          /\ {p \in down.live : p \notin down.gone} \in SUBSET Pids /\ {} \in SUBSET Pids
      BY <1>0 DEF DownState
    <3>2. CASE down' = Down("clean", down.gone)  BY <3>1, <3>2, Zenon DEF Down
    <3>3. CASE down' = Down("terminate", down.live)  BY <3>1, <3>3 DEF Down
    <3>4. CASE down' = Down("wait", down.live)  BY <3>1, <3>4 DEF Down
    <3>5. CASE down' = Down("waitForced", {p \in down.live : p \notin down.gone})
      BY <3>1, <3>5 DEF Down
    <3>6. CASE down' = Down("idle", {})  BY <3>1, <3>6 DEF Down
    <3>7. QED  BY <1>3, <3>2, <3>3, <3>4, <3>5, <3>6 DEF NextPart
  <2>2. UNCHANGED <<proc, born, files>>
    BY <1>3 DEF NextPart
  <2>3. down.asked = None
    BY <1>3 DEF NextPart, DownInv
  <2>4. /\ down'.pc = pc /\ down'.todo = todo /\ down'.asked = None /\ down' \in DownState
        /\ down'.live = down.live /\ down'.gone = down.gone /\ down'.seen = down.seen
        /\ down'.blind = down.blind
    BY <1>0, <2>1, <2>3 DEF DownState
  <2>5. QED  BY <1>0, <2>1, <2>2, <2>4 DEF DownInv
<1>4. ASSUME NEW p \in Pids, Clean(p)
      PROVE  files' \in SUBSET Pids /\ down' \in DownState /\ DownInv'
  BY <1>0, <1>4 DEF Clean, DownState, DownInv
<1>5. ASSUME NEW p \in Pids, Terminate(p) \/ UnregisterStopped(p)
      PROVE  files' \in SUBSET Pids /\ down' \in DownState /\ DownInv'
  <2>1. down' = [down EXCEPT !.todo = @ \ {p}] /\ files' \subseteq files
    BY <1>5 DEF Terminate, UnregisterStopped
  <2>2. down' \in DownState /\ down'.todo = down.todo \ {p}
    BY <1>0, <2>1 DEF DownState
  <2>3. down.pc # "classify"
    BY <1>5 DEF Terminate, UnregisterStopped
  <2>4. QED  BY <1>0, <2>1, <2>2, <2>3, KnowledgeKept
<1>6. ASSUME NEW p \in Pids, SeeExit(p)
      PROVE  files' \in SUBSET Pids /\ down' \in DownState /\ DownInv'
  <2>1. /\ down' = [down EXCEPT !.todo = @ \ {p}, !.gone = @ \cup {p}]
        /\ proc[p] = "none" /\ down.pc \in {"wait", "waitForced"}
        /\ UNCHANGED <<proc, born, files>>
    BY <1>6 DEF SeeExit, Alive
  <2>2. QED  BY <1>0, <2>1 DEF DownState, DownInv
<1>7. CASE WaitEnds
  <2>1. PICK pc \in {"force", "unregister"}, todo \in SUBSET Pids :
          /\ down' = [down EXCEPT !.pc = pc, !.todo = todo]
          /\ pc = "force" => todo \subseteq down.live
          /\ pc = "unregister" => todo = down.gone
    BY <1>0, <1>7 DEF WaitEnds, Down, DownState, DownInv
  <2>2. UNCHANGED <<proc, born, files>>
    BY <1>7 DEF WaitEnds
  <2>3. down.asked = None
    BY <1>7 DEF WaitEnds, DownInv
  <2>4. /\ down'.pc = pc /\ down'.todo = todo /\ down'.asked = None /\ down' \in DownState
        /\ down'.live = down.live /\ down'.gone = down.gone /\ down'.seen = down.seen
        /\ down'.blind = down.blind
    BY <1>0, <2>1, <2>3 DEF DownState
  <2>5. QED  BY <1>0, <2>1, <2>2, <2>4 DEF DownInv
<1>8. QED  BY <1>1, <1>3, <1>4, <1>5, <1>6, <1>7, <1>9, <1>10 DEF DownNext

--------------------------------------------------------------------------------
(* The invariant *)

\* The parts of the invariant.
LEMMA InvParts == Inv <=> ServerInv /\ HostTypes /\ DownInv
  BY DEF Inv, ServerInv, HostTypes

\* Nothing runs at first.
LEMMA InitInv == Init => Inv
<1> SUFFICES ASSUME Init  PROVE Inv
  OBVIOUS
<1>1. LifecycleTypes
  <2>1. info \in ServerInfo /\ announcers \in [1 .. (MaxMoves + 1) -> Announcer]
    BY SpanFacts, Zenon DEF Init, LifecycleInit
  <2>2. moves \in 0 .. MaxMoves /\ records \in [Blocks -> ServerInfo]
    BY SpanFacts DEF Init, LifecycleInit
  <2>3. QED  BY <2>1, <2>2 DEF Init, LifecycleInit, LifecycleTypes, Places
<1>2. ProcessTypes /\ ServerThere
  BY DEF Init, LifecycleInit, ProcessTypes, ServerThere
<1>3. \A n \in 1 .. (MaxMoves + 1) : ~Running(n)
  BY DEF Init, LifecycleInit, NoAnnouncers, Running
<1>4. AnnouncerInv
  BY <1>3 DEF Init, LifecycleInit, AnnouncerInv
<1>5. DaemonInv
  BY DEF Init, LifecycleInit, DaemonInv
<1>6. HostTypes /\ DownInv
  BY <1>2 DEF Init, IdleDown, HostTypes, DownState, DownInv
<1>7. QED  BY <1>1, <1>2, <1>4, <1>5, <1>6 DEF Inv

\* Every step keeps it.
LEMMA NextInv == Inv /\ [Next]_vars => Inv'
<1> SUFFICES ASSUME Inv, [Next]_vars  PROVE Inv'
  OBVIOUS
<1>0. ServerInv /\ HostTypes /\ DownInv
  BY InvParts
<1>1. CASE DownNext
  <2>1. ServerInv' /\ ProcessesGoOn
    BY <1>0, <1>1, DownKeepsServerInv
  <2>2. files' \in SUBSET Pids /\ down' \in DownState /\ DownInv'
    BY <1>0, <1>1, <2>1, DownKeepsDownInv DEF ServerInv
  <2>3. QED  BY <2>1, <2>2 DEF ServerInv, HostTypes, Inv
<1>2. ASSUME ServerInv', ProcessesGoOn, UNCHANGED down, files' \in SUBSET Pids
      PROVE  Inv'
  <2>1. down' = [down EXCEPT !.todo = down'.todo] /\ down' \in DownState
    BY <1>0, <1>2 DEF HostTypes, DownState
  <2>2. DownInv'
    BY <1>0, <1>2, <2>1, KnowledgeKept DEF ServerInv
  <2>3. QED  BY <1>2, <2>1, <2>2 DEF ServerInv, HostTypes, Inv
<1>3. ASSUME NEW p \in Pids, StartServer(p)  PROVE Inv'
  BY <1>0, <1>2, <1>3, StartServerKeepsInv DEF StartServer, HostTypes
<1>4. ASSUME NEW p \in Pids, NEW kind \in Strangers, StartStranger(p, kind)  PROVE Inv'
  BY <1>0, <1>2, <1>4, StartStrangerKeepsInv DEF StartStranger, HostTypes
<1>5. CASE Own(MainNext) \/ Own(AnnouncerNext) \/ Own(\E b \in Blocks : Expire(b))
  <2>1. UNCHANGED <<files, down>>
    BY <1>5 DEF Own, hostVars
  <2>2. QED  BY <1>0, <1>2, <1>5, <2>1, OwnKeepsInv DEF HostTypes
<1>6. CASE OwnEnd(ConfigureFails) \/ OwnEnd(ShutDown)
  <2>1. UNCHANGED <<files, down>>
    BY <1>6 DEF OwnEnd
  <2>2. QED  BY <1>0, <1>2, <1>6, <2>1, OwnEndKeepsInv DEF HostTypes
<1>7. CASE Register \/ Unregister
  <2>1. files' \in SUBSET Pids /\ UNCHANGED down
    BY <1>0, <1>7 DEF Register, Unregister, ServerInv, ServerThere, ProcessTypes, HostTypes
  <2>2. QED  BY <1>0, <1>2, <1>7, <2>1, RegistryKeepsInv
<1>8. CASE KillServer
  <2>1. me \in Pids /\ Signal(me, TRUE) /\ UNCHANGED <<files, down>>
    BY <1>0, <1>8 DEF KillServer, ServerInv, ServerThere, ProcessTypes
  <2>2. ServerInv' /\ ProcessesGoOn
    BY <1>0, <2>1, SignalKeepsInv
  <2>3. QED  BY <1>0, <1>2, <2>1, <2>2 DEF HostTypes
<1>9. CASE UNCHANGED vars
  <2>1. Looks /\ UNCHANGED <<files, down>>
    BY <1>9 DEF vars, hostVars, Looks
  <2>2. QED  BY <1>0, <1>2, <2>1, LooksKeepsInv DEF HostTypes
<1>10. QED  BY <1>1, <1>3, <1>4, <1>5, <1>6, <1>7, <1>8, <1>9 DEF Next, ServerNext

\* The inductive invariant holds in every state.
THEOREM InvariantHolds == Spec => []Inv
<1>1. QED  BY InitInv, NextInv, PTL DEF Spec

--------------------------------------------------------------------------------
(* The properties *)

\* Every reachable state is well typed (server.py, server_registry.py, run_down.py).
THEOREM TypeCorrect == Spec => []TypeOK
<1>1. Inv => TypeOK
  BY DEF Inv, LifecycleTypes, HostTypes, ProcessTypes, ServerThere, DownState, ServerInfo, Announcer, TypeOK
<1>2. QED  BY <1>1, InvariantHolds, PTL

\* Whatever is moved, stopped or killed when: no record claims a span for a block outside
\* it, and blocks that are loaded or served have their announcer and no other one
\* (server.py, lines 546, 805-806, 834).
THEOREM AnnouncementsAreRight == Spec => []AnnouncementsRight
<1>1. Inv => AnnouncementsRight
  BY DEF Inv, AnnouncerInv, LifecycleTypes, AnnouncementsRight, Current
<1>2. QED  BY <1>1, InvariantHolds, PTL

\* What drift down reports as stopped has ended, even if its pid is in use again.
THEOREM StoppedHasEnded == Spec => []StoppedIsGone
<1>1. Inv => StoppedIsGone
  BY DEF Inv, HostTypes, DownState, DownInv, StoppedIsGone, Alive
<1>2. QED  BY <1>1, InvariantHolds, PTL

\* Where the guard works, no daemon outlives its server, whenever that is killed
\* (process_lifetime.py).
THEOREM NoDaemonOutlives == Spec => []NoOrphanDaemon
<1>1. Inv => NoOrphanDaemon
  BY DEF Inv, DaemonInv, NoOrphanDaemon
<1>2. QED  BY <1>1, InvariantHolds, PTL

\* Only these steps end the process of a pid that is not the server's own, or remove
\* records: Terminate, of a process that looked like a server or whose command line was
\* unknown, and Clean and UnregisterStopped, of one that was seen as gone.
LEMMA StepHarmsOnlyWhatItSaw ==
  ASSUME Inv, [Next]_vars, NEW p \in Pids
  PROVE  /\ proc[p] = "other" /\ proc'[p] = "none" => down.seen[p] # born[p] \/ p \in down.blind
         /\ p \in files /\ p \notin files' /\ p = me /\ main' \in {"choosing", "loading", "starting", "serving"}
              => down.seen[p] # born[p]
<1>0. ServerInv /\ HostTypes /\ DownInv
  BY InvParts
<1>1. p = me => proc[p] = "server"
  BY <1>0 DEF ServerInv, ServerThere, HostTypes, ProcessTypes
<1>2. ASSUME proc[p] = "other", proc'[p] = "none"
      PROVE  down.seen[p] # born[p] \/ p \in down.blind
  <2>1. p # me
    BY <1>1, <1>2
  <2>2. ASSUME NEW q \in Pids, Leaves(q)  PROVE p = q
    BY <1>0, <1>2, <2>2 DEF Leaves, HostTypes, ProcessTypes
  <2>3. proc' # proc
    BY <1>2
  <2>4. PICK q \in Pids : Terminate(q) /\ Alive(q) /\ q # me
    <3>1. ASSUME NEW q \in Pids, NEW kind, Begins(q, kind), kind # "none"  PROVE FALSE
      BY <1>0, <1>2, <3>1 DEF Begins, HostTypes, ProcessTypes
    <3>2. "none" \notin Strangers
      OBVIOUS
    <3>3. ASSUME NEW kill \in BOOLEAN, me \in Pids, Signal(me, kill)  PROVE FALSE
      <4>1. Leaves(me) \/ UNCHANGED proc
        BY <3>3 DEF Signal
      <4>2. QED  BY <2>1, <2>2, <2>3, <3>3, <4>1
    <3>4. ~KillServer
      BY <1>0, <3>3 DEF KillServer, ServerInv, ServerThere, HostTypes, ProcessTypes
    <3>5. ~ServerNext
      <4>1. ASSUME OwnEnd(ConfigureFails) \/ OwnEnd(ShutDown)  PROVE FALSE
        <5>1. Leaves(me) /\ main # "off"
          BY <4>1 DEF OwnEnd, ConfigureFails, ShutDown
        <5>2. me \in Pids
          BY <1>0, <5>1 DEF ServerInv, ServerThere, HostTypes, ProcessTypes
        <5>3. QED  BY <2>1, <2>2, <5>1, <5>2
      <4>2. ASSUME Own(MainNext) \/ Register \/ Unregister  PROVE UNCHANGED proc
        BY <4>2 DEF Own, hostVars, Register, Unregister
      <4>3. QED  BY <2>3, <4>1, <4>2 DEF ServerNext
    <3>6. ~Own(AnnouncerNext) /\ ~Own(\E b \in Blocks : Expire(b)) /\ ~UNCHANGED vars
      BY <2>3 DEF Own, hostVars, vars
    <3>7. \A q \in Pids : ~StartServer(q) /\ \A kind \in Strangers : ~StartStranger(q, kind)
      BY <3>1, <3>2 DEF StartServer, StartStranger
    <3>8. DownNext
      BY <3>4, <3>5, <3>6, <3>7 DEF Next
    <3>9. \E q \in Pids : Terminate(q)
      BY <2>3, <3>8 DEF DownNext, ListRecords, NextPart, WaitEnds, FindAlive, ReadCommandLine,
                             Clean, SeeExit, UnregisterStopped
    <3>10. PICK q \in Pids : Terminate(q)
      BY <3>9
    <3>11. Alive(q)
      BY <2>3, <3>10 DEF Terminate
    <3>12. PICK kill \in BOOLEAN : Signal(q, kill)
      BY <3>10, <3>11, Zenon DEF Terminate
    <3>13. QED  BY <3>3, <3>10, <3>11, <3>12
  <2>5. PICK kill \in BOOLEAN : Signal(q, kill)
    BY <2>4, Zenon DEF Terminate
  <2>6. p = q
    BY <2>2, <2>4, <2>5 DEF Signal
  <2>7. p \in down.live
    BY <1>0, <2>4, <2>6 DEF Terminate, DownInv
  <2>8. QED  BY <1>0, <1>2, <2>7 DEF DownInv
<1>3. ASSUME p \in files, p \notin files', p = me, main' \in {"choosing", "loading", "starting", "serving"}
      PROVE  down.seen[p] # born[p]
  <2>1. ~Unregister
    BY <1>3 DEF Unregister
  <2>2. Clean(p) \/ UnregisterStopped(p)
    <3>1. files' # files
      BY <1>3
    <3>2. ASSUME DownNext
          PROVE  \E q \in Pids : Clean(q) \/ UnregisterStopped(q)
      BY <3>1, <3>2 DEF DownNext, ListRecords, NextPart, WaitEnds, FindAlive, ReadCommandLine,
                             Terminate, SeeExit
    <3>3. DownNext
      <4>1. ~Register
        BY <1>3 DEF Register
      <4>2. ~ServerNext
        BY <2>1, <3>1, <4>1 DEF ServerNext, Own, OwnEnd, hostVars
      <4>3. QED
        BY <3>1, <4>2 DEF Next, StartServer, StartStranger, KillServer, Own, hostVars, vars
    <3>4. QED  BY <1>3, <3>2, <3>3 DEF Clean, UnregisterStopped
  <2>3. p \in down.gone
    BY <1>0, <2>2 DEF Clean, UnregisterStopped, DownInv
  <2>4. QED  BY <1>0, <1>1, <1>3, <2>3 DEF DownInv
<1>4. QED  BY <1>2, <1>3

\* drift down harms nobody it has not looked at (run_down.py, server_registry.py): it ends
\* a process that does not look like a server only if another one was behind the pid, or
\* its command line could not be found out, when drift down looked; and it removes the
\* record of a running server only if that server was not behind the pid then.
THEOREM DownHarmsOnlyWhatItSaw == Spec => HarmsOnlyWhatItSaw
<1>1. Inv /\ [Next]_vars =>
        [\A p \in Pids :
           /\ proc[p] = "other" /\ proc'[p] = "none" => down.seen[p] # born[p] \/ p \in down.blind
           /\ p \in files /\ p \notin files' /\ p = me /\ main' \in {"choosing", "loading", "starting", "serving"}
                => down.seen[p] # born[p]]_vars
  BY StepHarmsOnlyWhatItSaw
<1>2. QED  BY <1>1, InvariantHolds, PTL DEF Spec, HarmsOnlyWhatItSaw
================================================================================
