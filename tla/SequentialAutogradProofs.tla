------------------------ MODULE SequentialAutogradProofs ------------------------
(***************************************************************************)
(* Proofs about SequentialAutograd, and about the routing table of         *)
(* SequenceManager that it runs over, for every set of servers and of      *)
(* spans they may hold, any number of blocks, batches and failures.        *)
(***************************************************************************)
EXTENDS SequentialAutograd, SequenceTheorems, WellFoundedInduction, TLAPS

USE SequenceManagerAssumption, AutogradAssumption

-----------------------------------------------------------------------------
(* The inductive invariant                                                 *)

Modes == {"forward", "forwarded", "backward", "replay", "done"}
Requests == [span : Spans, inputs : Seq(Blocks)]
Gradients == [block : Blocks, inputs : Seq(Blocks)]
Coroutines ==
    [mode : Modes, inputs : Seq(Blocks), index : 1..(NumBlocks + 1), end : 2..(NumBlocks + 1),
     sequences : Seq(Spans), again : BOOLEAN, done : Seq(Requests), backup : Seq(Requests),
     current : Requests \cup {None}, grads : Seq(Gradients)]

ManagerTypes == ManagerTypeOK /\ \A p \in Servers : held[p] \in Places[p]

Types ==
    /\ ManagerTypes
    /\ main \in {"info", "waiting", "batches"}
    /\ maker \in Batches \cup {None}
    /\ route \in Seq(Spans)
    /\ batch \in [Batches -> Coroutines]

(* The table lists the spans of one set, each under every block of it.     *)
TableInv ==
    \E S \in SUBSET Spans : \A b \in Blocks : spans[b] = {s \in S : s.start <= b /\ b < s.end}

(* Where the first i spans of a sequence that starts at a block lead.      *)
EndAt(s, i, from) == IF i = 0 THEN from ELSE s[i].end

Path(s, from, to) ==
    /\ EndAt(s, Len(s), from) = to
    /\ \A i \in 1..Len(s) :
          s[i].start = EndAt(s, i - 1, from) /\ s[i].start < s[i].end /\ s[i].end <= to

(* make_sequence runs for a batch that is on its way forward, and what it  *)
(* has of the route falls short of the end.                                *)
RouteInv ==
    /\ maker = None => route = <<>>
    /\ maker # None =>
          LET c == batch[maker]
          IN  /\ c.mode \in {"forward", "replay"}
              /\ Path(route, c.index, EndAt(route, Len(route), c.index))
              /\ EndAt(route, Len(route), c.index) < c.end

UpTo(n) == [i \in 1..n |-> i]

(* A request was made with the blocks before its span applied in order.    *)
RequestRight(r) == r.span.start < r.span.end /\ r.inputs = UpTo(r.span.start - 1)

(* The requests of a forward pass follow each other.                       *)
DoneAt(rs, i, from) == IF i = 0 THEN from ELSE rs[i].span.end

Chain(rs, from, to) ==
    /\ DoneAt(rs, Len(rs), from) = to
    /\ \A i \in 1..Len(rs) : rs[i].span.start = DoneAt(rs, i - 1, from) /\ RequestRight(rs[i])

(* The gradients are those of the last blocks, down to the one given.      *)
GradsDownTo(gs, block) ==
    /\ Len(gs) = NumBlocks + 1 - block
    /\ \A i \in 1..Len(gs) : gs[i] = Gradient(i)

(* What a batch has done is a forward pass up to its block.                *)
OnItsWay(c) ==
    /\ c.index < c.end /\ c.inputs = UpTo(c.index - 1)
    /\ GradsDownTo(c.grads, c.end)
    /\ c.sequences # <<>> /\ ~c.again => Path(c.sequences, c.index, c.end)

BatchRight(c) ==
    /\ c.mode = "forward" => /\ c.end = NumBlocks + 1 /\ OnItsWay(c)
                             /\ Chain(c.done, 1, c.index)
    /\ c.mode = "forwarded" => /\ c.inputs = WholePass /\ GradsDownTo(c.grads, NumBlocks + 1)
                               /\ Chain(c.done, 1, NumBlocks + 1)
    /\ c.mode = "backward" => /\ c.current \in Requests /\ RequestRight(c.current)
                              /\ GradsDownTo(c.grads, c.current.span.end)
                              /\ Chain(c.done, 1, c.current.span.start)
    /\ c.mode = "replay" => /\ OnItsWay(c)
                            /\ \E from \in 1..(NumBlocks + 1) :
                                 Chain(c.done, 1, from) /\ Chain(c.backup, from, c.index)
    /\ c.mode = "done" => GradsDownTo(c.grads, 1)

BatchInv == \A b \in Batches : BatchRight(batch[b])

IInv == Types /\ TableInv /\ RouteInv /\ BatchInv

-----------------------------------------------------------------------------
(* Least and greatest elements                                             *)

\* A set of numbers that is not empty has a least element.
LEMMA LeastNumber ==
  ASSUME NEW T \in SUBSET Nat, T # {}
  PROVE  \E m \in T : \A n \in T : m <= n
<1> DEFINE R == OpToRel(<, Nat)
<1>1. \A x, y \in Nat : <<x, y>> \in R <=> x < y
  BY DEF OpToRel
<1>2. IsWellFoundedOn(R, Nat)
  BY NatLessThanWellFounded
<1> HIDE DEF R
<1>3. PICK m \in T : \A n \in T : ~(<<n, m>> \in R)
  BY <1>2, WFMin
<1>4. ASSUME NEW n \in T
      PROVE  m <= n
  <2>1. m \in Nat /\ n \in Nat
    OBVIOUS
  <2>2. ~(n < m)
    BY <1>1, <1>3, <2>1
  <2>3. QED  BY <2>1, <2>2
<1>5. QED  BY <1>4

\* So has a set of blocks, and a greatest one.
LEMMA ExtremeBlocks ==
  ASSUME NEW T \in SUBSET Blocks, T # {}
  PROVE  /\ \E m \in T : \A n \in T : m <= n
         /\ \E m \in T : \A n \in T : m >= n
<1>1. T \in SUBSET Nat
  BY DEF Blocks
<1>2. \E m \in T : \A n \in T : m <= n
  BY <1>1, LeastNumber
<1> DEFINE Rests == {NumBlocks - n : n \in T}
<1>3. Rests \in SUBSET Nat /\ Rests # {}
  <2>1. \A n \in T : NumBlocks - n \in Nat
    BY DEF Blocks
  <2>2. QED  BY <2>1
<1>4. PICK m \in T : \A k \in Rests : NumBlocks - m <= k
  <2>1. PICK least \in Rests : \A k \in Rests : least <= k
    <3> HIDE DEF Rests
    <3>1. QED  BY <1>3, LeastNumber
  <2>2. QED  BY <2>1
<1>5. \A n \in T : NumBlocks - m <= NumBlocks - n
  BY <1>4
<1>6. \A n \in T : m >= n
  BY <1>1, <1>5
<1>7. QED  BY <1>2, <1>6

-----------------------------------------------------------------------------
(* What a table is made from                                               *)

\* An announcement that says "online" has a span of blocks.
LEMMA OnlineInfo ==
  ASSUME NEW info \in Info
  PROVE  /\ info.state \in {"none", "joining", "online"}
         /\ info.state = "online" => info.span \in Blocks \X Blocks /\ info.span[1] <= info.span[2]
BY DEF Info, NoRecord

\* An announcement of a span that its server may hold.
LEMMA AnInfo ==
  ASSUME NEW p \in Servers, NEW span \in Places[p], NEW state \in {"joining", "online"}
  PROVE  [state |-> state, span |-> span] \in Info /\ span \in Blocks \X Blocks
<1>1. span \in UNION {Places[q] : q \in Servers}
  OBVIOUS
<1>2. QED  BY <1>1 DEF Info

\* A table that nothing is known of is one.
LEMMA UnknownType == Unknown \in Infos
BY DEF Unknown, Infos, Info

\* compute_spans: well-formed spans, whatever was announced.
LEMMA ComputeSpansType ==
  ASSUME NEW infos \in Infos
  PROVE  ComputeSpans(infos) \in SUBSET Spans
<1> DEFINE Online(p) == {b \in Blocks : infos[b][p].state = "online"}
           First(p) == CHOOSE b \in Online(p) : \A c \in Online(p) : b <= c
           Final(p) == CHOOSE b \in Online(p) : \A c \in Online(p) : b >= c
           Span(p) == infos[First(p)][p].span
           Computed(p) == [peer |-> p, start |-> Span(p)[1],
                           end |-> (IF Span(p)[2] > Final(p) THEN Span(p)[2] ELSE Final(p)) + 1]
<1>1. ASSUME NEW p \in Servers, \E b \in Blocks : infos[b][p].state = "online"
      PROVE  Computed(p) \in Spans
  <2>1. Online(p) \in SUBSET Blocks /\ Online(p) # {}
    BY <1>1
  <2>2. First(p) \in Online(p) /\ Final(p) \in Online(p)
    <3>1. /\ \E m \in Online(p) : \A n \in Online(p) : m <= n
          /\ \E m \in Online(p) : \A n \in Online(p) : m >= n
      <4> HIDE DEF Online
      <4>1. QED  BY <2>1, ExtremeBlocks
    <3>2. QED  BY <3>1
  <2>3. PICK f \in Blocks : f = First(p) /\ infos[f][p].state = "online"
    BY <2>2
  <2>4. PICK l \in Blocks : l = Final(p)
    BY <2>2
  <2> HIDE DEF First, Final, Online
  <2>5. Span(p) \in Blocks \X Blocks
    BY <2>3, OnlineInfo DEF Infos
  <2> HIDE DEF Span
  <2>6. PICK x \in Blocks, y \in Blocks : Span(p) = <<x, y>>
    BY <2>5
  <2>7. (IF y > l THEN y ELSE l) + 1 \in 2 .. (NumBlocks + 1)
    BY DEF Blocks
  <2>8. QED  BY <2>4, <2>6, <2>7 DEF Spans
<1>2. ComputeSpans(infos) = {Computed(p) : p \in {q \in Servers : \E b \in Blocks : infos[b][q].state = "online"}}
  BY DEF ComputeSpans
<1> HIDE DEF Computed
<1>3. QED  BY <1>1, <1>2

\* A new table meets its invariant, and has its type.
LEMMA NewTable ==
  ASSUME NEW infos \in Infos
  PROVE  /\ \E S \in SUBSET Spans : \A b \in Blocks : SortSpans(infos)[b] = {s \in S : s.start <= b /\ b < s.end}
         /\ SortSpans(infos) \in [Blocks -> SUBSET Spans]
BY ComputeSpansType DEF SortSpans

\* The lists of a new table have their type.
LEMMA FilteredType ==
  ASSUME NEW infos \in Infos
  PROVE  Filtered(infos) \in Infos
<1>1. NoRecord \in Info
  BY DEF Info
<1>2. QED  BY <1>1 DEF Filtered, Infos

-----------------------------------------------------------------------------
(* The swarm, the thread and the parts of actions that touch the table     *)

\* The swarm and the thread start in order.
LEMMA InitManager == ManagerInit => ManagerTypes /\ TableInv
<1> SUFFICES ASSUME ManagerInit  PROVE ManagerTypes /\ TableInv
  OBVIOUS
<1>1. held \in [Servers -> Blocks \X Blocks] /\ \A p \in Servers : held[p] \in Places[p]
  BY DEF ManagerInit
<1>2. records \in Infos
  <2>1. \A p \in Servers : [state |-> "online", span |-> held[p]] \in Info
    BY <1>1, AnInfo
  <2>2. NoRecord \in Info
    BY DEF Info
  <2>3. QED  BY <2>1, <2>2 DEF ManagerInit, Infos
<1>3. TableInv
  BY DEF ManagerInit, TableInv
<1>4. blockInfos \in Infos /\ fetched \in Infos
  BY UnknownType DEF ManagerInit
<1>5. /\ alive \subseteq Servers /\ spans \in [Blocks -> SUBSET Spans] /\ banned \subseteq Servers
      /\ ready \in BOOLEAN /\ trigger \in BOOLEAN
      /\ thread \in {"off", "idle", "fetched", "stored"}
      /\ faults \in 0..MaxFaults
  <2>1. alive = Servers /\ spans = [b \in Blocks |-> {}] /\ banned = {}
    BY DEF ManagerInit
  <2>2. ready = FALSE /\ trigger = FALSE /\ thread = "off" /\ faults = 0
    BY DEF ManagerInit
  <2>3. 0 \in 0..MaxFaults
    OBVIOUS
  <2>4. spans \in [Blocks -> SUBSET Spans]
    BY <2>1
  <2>5. QED  BY <2>1, <2>2, <2>3, <2>4
<1>6. QED  BY <1>1, <1>2, <1>3, <1>4, <1>5 DEF ManagerTypes, ManagerTypeOK

\* What a server announces is well formed.
LEMMA DeclaredType ==
  ASSUME ManagerTypes, NEW p \in Servers, NEW span \in Places[p], NEW state \in {"joining", "online"}
  PROVE  Declared(p, state, span) \in Infos
<1>1. [state |-> state, span |-> span] \in Info
  BY AnInfo
<1>2. QED  BY <1>1 DEF Declared, Infos, ManagerTypes, ManagerTypeOK

\* Servers that crash, move, announce and expire leave the table alone.
LEMMA SwarmStep ==
  ASSUME ManagerTypes, SwarmNext
  PROVE  ManagerTypes' /\ UNCHANGED <<blockInfos, spans>>
<1> USE DEF table, updater
<1>1. PICK p \in Servers : \/ Crash(p) \/ Restart(p) \/ GoOnline(p) \/ Unban(p)
                           \/ \E b \in Blocks : Expire(p, b)
  BY DEF SwarmNext
<1>2. CASE Crash(p)
  <2>1. faults' \in 0..MaxFaults
    BY <1>2 DEF Crash, ManagerTypes, ManagerTypeOK
  <2>2. QED  BY <1>2, <2>1 DEF Crash, ManagerTypes, ManagerTypeOK
<1>3. CASE Restart(p)
  <2>1. PICK span \in Places[p] : /\ held' = [held EXCEPT ![p] = span]
                                  /\ records' = Declared(p, "joining", span)
    BY <1>3 DEF Restart
  <2>2. span \in Blocks \X Blocks /\ records' \in Infos
    BY <2>1, AnInfo, DeclaredType
  <2>3. QED  BY <1>3, <2>1, <2>2 DEF Restart, ManagerTypes, ManagerTypeOK
<1>4. CASE GoOnline(p)
  <2>1. records' \in Infos
    BY <1>4, DeclaredType DEF GoOnline, ManagerTypes
  <2>2. QED  BY <1>4, <2>1 DEF GoOnline, ManagerTypes, ManagerTypeOK
<1>5. CASE Unban(p)
  BY <1>5 DEF Unban, swarm, ManagerTypes, ManagerTypeOK
<1>6. ASSUME NEW b \in Blocks, Expire(p, b)
      PROVE  ManagerTypes' /\ UNCHANGED <<blockInfos, spans>>
  <2>1. NoRecord \in Info
    BY DEF Info
  <2>2. records' \in Infos
    BY <1>6, <2>1 DEF Expire, Infos, ManagerTypes, ManagerTypeOK
  <2>3. QED  BY <1>6, <2>2 DEF Expire, ManagerTypes, ManagerTypeOK
<1>7. QED  BY <1>1, <1>2, <1>3, <1>4, <1>5, <1>6

\* The thread replaces the table by one that meets the invariant.
LEMMA ThreadStep ==
  ASSUME ManagerTypes, TableInv, ThreadNext
  PROVE  ManagerTypes' /\ TableInv'
<1>1. CASE FetchInfos
  BY <1>1, FilteredType DEF FetchInfos, ManagerTypes, ManagerTypeOK, TableInv, swarm, table
<1>2. CASE FetchFails
  <2>1. faults' \in 0..MaxFaults
    BY <1>2 DEF FetchFails, ManagerTypes, ManagerTypeOK
  <2>2. QED  BY <1>2, <2>1 DEF FetchFails, ManagerTypes, ManagerTypeOK, TableInv, table, updater
<1>3. CASE StoreInfos
  <2>1. fetched \in Infos
    BY DEF ManagerTypes, ManagerTypeOK
  <2>2. spans' \in [Blocks -> SUBSET Spans] /\ TableInv'
    <3>1. spans' = SortSpans(fetched)
      BY <1>3 DEF StoreInfos
    <3>2. /\ \E S \in SUBSET Spans : \A b \in Blocks : SortSpans(fetched)[b] = {s \in S : s.start <= b /\ b < s.end}
          /\ SortSpans(fetched) \in [Blocks -> SUBSET Spans]
      BY <2>1, NewTable
    <3>3. QED  BY <3>1, <3>2 DEF TableInv
  <2>3. QED  BY <1>3, <2>1, <2>2, UnknownType DEF StoreInfos, ManagerTypes, ManagerTypeOK, swarm
<1>4. CASE FinishUpdate
  BY <1>4 DEF FinishUpdate, ManagerTypes, ManagerTypeOK, TableInv, swarm, table
<1>5. QED  BY <1>1, <1>2, <1>3, <1>4 DEF ThreadNext

\* Callers ask for updates, succeed, and fail.
LEMMA RequestUpdateTypes ==
  ASSUME ManagerTypes, RequestUpdate, UNCHANGED <<swarm, table, banned, fetched>>
  PROVE  ManagerTypes'
BY DEF RequestUpdate, ManagerTypes, ManagerTypeOK, swarm, table

\* A request that succeeds lifts a ban.
LEMMA RequestSuccessTypes ==
  ASSUME ManagerTypes, NEW p, OnRequestSuccess(p), UNCHANGED <<swarm, table, ready, trigger, updater>>
  PROVE  ManagerTypes'
BY DEF OnRequestSuccess, ManagerTypes, ManagerTypeOK, swarm, table, updater

\* One that fails bans its peer and takes it from the lists.
LEMMA RequestFailureTypes ==
  ASSUME ManagerTypes, NEW p \in Servers \cup {None}, OnRequestFailure(p),
         faults' \in 0..MaxFaults, UNCHANGED <<alive, held, records, spans, updater>>
  PROVE  ManagerTypes'
<1>1. blockInfos' \in Infos /\ banned' \subseteq Servers
  <2>1. NoRecord \in Info
    BY DEF Info
  <2>2. QED  BY <2>1 DEF OnRequestFailure, Infos, ManagerTypes, ManagerTypeOK
<1>2. ready' \in BOOLEAN /\ trigger' \in BOOLEAN
  BY DEF OnRequestFailure, ManagerTypes, ManagerTypeOK
<1>3. QED  BY <1>1, <1>2 DEF ManagerTypes, ManagerTypeOK, updater

\* A request that raises may use up one of the failures.
LEMMA RaisesTypes ==
  ASSUME ManagerTypes, NEW answered, Raises(answered)
  PROVE  faults' \in 0..MaxFaults
BY DEF Raises, ManagerTypes, ManagerTypeOK


-----------------------------------------------------------------------------
(* Inputs and routes                                                       *)

\* A function on 1..n with blocks as values is a sequence of them.
LEMMA BlockSequence ==
  ASSUME NEW n \in Nat, NEW f \in [1..n -> Blocks]
  PROVE  f \in Seq(Blocks) /\ Len(f) = n
OBVIOUS

\* Blocks in order are a sequence of blocks.
LEMMA UpToType ==
  ASSUME NEW n \in 0..NumBlocks
  PROVE  UpTo(n) \in Seq(Blocks) /\ Len(UpTo(n)) = n /\ \A i \in 1..n : UpTo(n)[i] = i
<1>1. UpTo(n) \in [1..n -> Blocks]
  BY DEF UpTo, Blocks
<1>2. n \in Nat
  OBVIOUS
<1>3. QED  BY <1>1, <1>2, BlockSequence DEF UpTo

\* What leaves a span, when the blocks before it were applied in order, has the
\* blocks of the span applied in order too.
LEMMA PassedInOrder ==
  ASSUME NEW s, s.start \in Blocks, s.end \in 1..(NumBlocks + 1), s.start <= s.end
  PROVE  Passed(UpTo(s.start - 1), s) = UpTo(s.end - 1)
<1>1. PICK f \in Blocks, e \in 1..(NumBlocks + 1) : f = s.start /\ e = s.end
  OBVIOUS
<1> DEFINE own == [i \in 1..(e - f) |-> f + i - 1]
<1>2. /\ f - 1 \in 0..NumBlocks /\ e - 1 \in 0..NumBlocks /\ e - f \in Nat
      /\ (f - 1) + (e - f) = e - 1 /\ f <= e
  BY <1>1 DEF Blocks
<1>3. own \in Seq(Blocks) /\ Len(own) = e - f /\ \A i \in 1..(e - f) : own[i] = f + i - 1
  <2>1. own \in [1..(e - f) -> Blocks]
    BY <1>1 DEF Blocks
  <2>2. QED  BY <1>2, <2>1, BlockSequence
<1> HIDE DEF own
<1>4. UpTo(f - 1) \in Seq(Blocks) /\ Len(UpTo(f - 1)) = f - 1 /\ \A i \in 1..(f - 1) : UpTo(f - 1)[i] = i
  BY <1>2, UpToType
<1>5. UpTo(e - 1) \in Seq(Blocks) /\ Len(UpTo(e - 1)) = e - 1 /\ \A i \in 1..(e - 1) : UpTo(e - 1)[i] = i
  BY <1>2, UpToType
<1>6. /\ UpTo(f - 1) \o own \in Seq(Blocks) /\ Len(UpTo(f - 1) \o own) = e - 1
      /\ \A i \in 1..(e - 1) : (UpTo(f - 1) \o own)[i] = IF i <= f - 1 THEN UpTo(f - 1)[i] ELSE own[i - (f - 1)]
  BY <1>2, <1>3, <1>4, ConcatProperties, SMTT(30)
<1>7. ASSUME NEW i \in 1..(e - 1)
      PROVE  (UpTo(f - 1) \o own)[i] = UpTo(e - 1)[i]
  <2>1. CASE i <= f - 1
    <3>1. i \in 1..(f - 1)
      BY <1>2, <2>1
    <3>2. QED  BY <1>4, <1>5, <1>6, <2>1, <3>1
  <2>2. CASE ~(i <= f - 1)
    <3>1. i - (f - 1) \in 1..(e - f) /\ f + (i - (f - 1)) - 1 = i
      BY <1>2, <2>2 DEF Blocks
    <3>2. own[i - (f - 1)] = i
      BY <1>3, <3>1
    <3>3. QED  BY <1>5, <1>6, <2>2, <3>2
  <2>3. QED  BY <2>1, <2>2
<1>8. UpTo(f - 1) \o own = UpTo(e - 1)
  BY <1>5, <1>6, <1>7, SeqEqual
<1>9. QED  BY <1>1, <1>8 DEF Passed, own

\* A route without its first span goes on from the end of that.
LEMMA PathTail ==
  ASSUME NEW s \in Seq(Spans), s # <<>>, NEW from \in 1..(NumBlocks + 1), NEW to \in 1..(NumBlocks + 1),
         Path(s, from, to)
  PROVE  /\ Head(s) \in Spans /\ Head(s).start = from /\ from < Head(s).end /\ Head(s).end <= to
         /\ Tail(s) \in Seq(Spans) /\ Path(Tail(s), Head(s).end, to)
<1>1. PICK n \in Nat : Len(s) = n + 1
  <2>1. Len(s) \in Nat \ {0}
    BY EmptySeq
  <2>2. Len(s) - 1 \in Nat /\ Len(s) = (Len(s) - 1) + 1
    BY <2>1
  <2>3. QED  BY <2>2
<1>2. /\ Head(s) = s[1] /\ Head(s) \in Spans /\ Tail(s) \in Seq(Spans)
      /\ Len(Tail(s)) = n /\ \A i \in 1..n : Tail(s)[i] = s[i + 1]
  <2>1. (n + 1) - 1 = n
    OBVIOUS
  <2>2. QED  BY <1>1, <2>1, HeadTailProperties
<1>3. PICK t \in Seq(Spans) : t = Tail(s)
  BY <1>2
<1>4. /\ 1 \in 1..(n + 1) /\ 1 - 1 = 0 /\ n + 1 # 0
      /\ \A i \in 1..n : i + 1 \in 1..(n + 1) /\ (i + 1) - 1 = i /\ i # 0
  OBVIOUS
<1>5. s[1].start = from /\ s[1].start < s[1].end /\ s[1].end <= to
  BY <1>1, <1>4 DEF Path, EndAt
<1>6. EndAt(t, n, s[1].end) = to
  BY <1>1, <1>2, <1>3, <1>4 DEF Path, EndAt
<1>7. ASSUME NEW i \in 1..n
      PROVE  t[i].start = EndAt(t, i - 1, s[1].end) /\ t[i].start < t[i].end /\ t[i].end <= to
  <2>1. s[i + 1].start = s[i].end /\ s[i + 1].start < s[i + 1].end /\ s[i + 1].end <= to
    BY <1>1, <1>4 DEF Path, EndAt
  <2>2. CASE i = 1
    BY <1>2, <1>3, <2>1, <2>2 DEF EndAt
  <2>3. CASE i # 1
    <3>1. i - 1 \in 1..n /\ (i - 1) + 1 = i /\ i - 1 # 0
      BY <2>3
    <3>2. QED  BY <1>2, <1>3, <2>1, <3>1 DEF EndAt
  <2>4. QED  BY <2>2, <2>3
<1>8. Path(t, s[1].end, to)
  BY <1>2, <1>3, <1>6, <1>7 DEF Path
<1>9. QED  BY <1>2, <1>3, <1>5, <1>8

\* A route is prolonged by a span that starts where it leads.
LEMMA PathAppend ==
  ASSUME NEW s \in Seq(Spans), NEW from \in 1..(NumBlocks + 1), NEW to \in 1..(NumBlocks + 1), Path(s, from, to),
         NEW x \in Spans, x.start = to, to < x.end
  PROVE  /\ Append(s, x) \in Seq(Spans) /\ Len(Append(s, x)) = Len(s) + 1
         /\ Append(s, x)[Len(s) + 1] = x
         /\ Path(Append(s, x), from, x.end)
<1>1. PICK n \in Nat : n = Len(s)
  BY LenProperties
<1>2. PICK t \in Seq(Spans) : t = Append(s, x)
  BY AppendProperties
<1>3. Len(t) = n + 1 /\ t[n + 1] = x /\ \A i \in 1..n : t[i] = s[i]
  BY <1>1, <1>2, AppendProperties
<1>4. /\ n + 1 # 0 /\ (n + 1) - 1 = n
      /\ \A i \in 1..(n + 1) : i \in 1..n \/ i = n + 1
      /\ \A i \in 1..n : i - 1 = 0 \/ i - 1 \in 1..n
  OBVIOUS
<1>5. ASSUME NEW i \in 1..(n + 1)
      PROVE  t[i].start = EndAt(t, i - 1, from) /\ t[i].start < t[i].end /\ t[i].end <= x.end
  <2>1. CASE i = n + 1
    <3>1. EndAt(t, n, from) = to
      <4>1. n = 0 \/ n \in 1..n
        OBVIOUS
      <4>2. QED  BY <1>1, <1>3, <4>1 DEF Path, EndAt
    <3>2. x.end \in Int
      BY DEF Spans
    <3>3. QED  BY <1>3, <1>4, <2>1, <3>1, <3>2
  <2>2. CASE i \in 1..n
    <3>1. s[i].start = EndAt(s, i - 1, from) /\ s[i].start < s[i].end /\ s[i].end <= to
      BY <1>1, <2>2 DEF Path
    <3>2. EndAt(s, i - 1, from) = EndAt(t, i - 1, from)
      BY <1>3, <1>4, <2>2 DEF EndAt
    <3>3. s[i] \in Spans
      BY <1>1, <2>2, ElementOfSeq
    <3>4. s[i].end <= x.end
      BY <3>1, <3>3 DEF Spans
    <3>5. QED  BY <1>3, <2>2, <3>1, <3>2, <3>4
  <2>3. QED  BY <1>4, <2>1, <2>2
<1>6. EndAt(t, n + 1, from) = x.end
  BY <1>3, <1>4 DEF EndAt
<1>7. QED  BY <1>1, <1>2, <1>3, <1>5, <1>6 DEF Path

\* Cutting the last span of a route is appending the span that was cut.
LEMMA CutIsAppend ==
  ASSUME NEW s \in Seq(Spans), NEW x \in Spans, batch[maker].end \in 2..(NumBlocks + 1)
  PROVE  Cut(Append(s, x)) = Append(s, [x EXCEPT !.end = batch[maker].end])
<1>1. PICK n \in Nat : n = Len(s)
  BY LenProperties
<1>2. PICK e \in 2..(NumBlocks + 1) : e = batch[maker].end
  OBVIOUS
<1>3. PICK y \in Spans : y = [x EXCEPT !.end = e]
  BY DEF Spans
<1>4. PICK t \in Seq(Spans) : t = Append(s, x)
  BY AppendProperties
<1>5. PICK u \in Seq(Spans) : u = Append(s, y)
  BY AppendProperties
<1>6. Len(t) = n + 1 /\ t[n + 1] = x /\ \A i \in 1..n : t[i] = s[i]
  BY <1>1, <1>4, AppendProperties
<1>7. Len(u) = n + 1 /\ u[n + 1] = y /\ \A i \in 1..n : u[i] = s[i]
  BY <1>1, <1>5, AppendProperties
<1>8. n + 1 \in 1..Len(t) /\ \A i \in 1..(n + 1) : i \in 1..n \/ i = n + 1
  BY <1>6
<1>9. PICK v \in Seq(Spans) : v = [t EXCEPT ![n + 1] = y]
  BY <1>8, ExceptSeq
<1>10. Len(v) = n + 1 /\ \A i \in 1..(n + 1) : v[i] = IF i = n + 1 THEN y ELSE t[i]
  BY <1>6, <1>8, <1>9, ExceptSeq
<1>11. \A i \in 1..(n + 1) : v[i] = u[i]
  BY <1>6, <1>7, <1>8, <1>10
<1>12. v = u
  BY <1>7, <1>10, <1>11, SeqEqual
<1>13. [t EXCEPT ![n + 1].end = e] = v
  BY <1>3, <1>6, <1>8, <1>9
<1>14. Cut(t) = [t EXCEPT ![n + 1].end = e]
  BY <1>2, <1>6 DEF Cut
<1>15. QED  BY <1>2, <1>3, <1>4, <1>5, <1>12, <1>13, <1>14


-----------------------------------------------------------------------------
(* Requests that follow each other                                         *)

\* No requests lead from a block to itself.
LEMMA NoRequests ==
  ASSUME NEW from
  PROVE  Chain(<<>>, from, from)
BY DEF Chain, DoneAt

\* A request is made for the span that follows those of the others.
LEMMA ChainAppend ==
  ASSUME NEW rs \in Seq(Requests), NEW from, NEW to, Chain(rs, from, to),
         NEW r \in Requests, RequestRight(r), r.span.start = to
  PROVE  Append(rs, r) \in Seq(Requests) /\ Chain(Append(rs, r), from, r.span.end)
<1>1. PICK n \in Nat : n = Len(rs)
  BY LenProperties
<1>2. PICK t \in Seq(Requests) : t = Append(rs, r)
  BY AppendProperties
<1>3. Len(t) = n + 1 /\ t[n + 1] = r /\ \A i \in 1..n : t[i] = rs[i]
  BY <1>1, <1>2, AppendProperties
<1>4. /\ n + 1 # 0 /\ (n + 1) - 1 = n
      /\ \A i \in 1..(n + 1) : i \in 1..n \/ i = n + 1
      /\ \A i \in 1..(n + 1) : i - 1 = 0 \/ i - 1 \in 1..n
  OBVIOUS
<1>5. ASSUME NEW i \in 1..(n + 1)
      PROVE  t[i].span.start = DoneAt(t, i - 1, from) /\ RequestRight(t[i])
  <2>1. DoneAt(t, i - 1, from) = DoneAt(rs, i - 1, from)
    BY <1>3, <1>4 DEF DoneAt
  <2>2. CASE i = n + 1
    BY <1>1, <1>3, <1>4, <2>1, <2>2 DEF Chain
  <2>3. CASE i \in 1..n
    BY <1>1, <1>3, <2>1, <2>3 DEF Chain
  <2>4. QED  BY <1>4, <2>2, <2>3
<1>6. DoneAt(t, n + 1, from) = r.span.end
  BY <1>3, <1>4 DEF DoneAt
<1>7. QED  BY <1>2, <1>3, <1>5, <1>6 DEF Chain

\* The last request is taken from those that follow each other.
LEMMA ChainFront ==
  ASSUME NEW rs \in Seq(Requests), rs # <<>>, NEW from, NEW to, Chain(rs, from, to)
  PROVE  /\ Last(rs) \in Requests /\ RequestRight(Last(rs)) /\ Last(rs).span.end = to
         /\ Front(rs) \in Seq(Requests) /\ Chain(Front(rs), from, Last(rs).span.start)
<1>1. PICK n \in Nat : Len(rs) = n + 1
  <2>1. Len(rs) \in Nat \ {0}
    BY EmptySeq
  <2>2. Len(rs) - 1 \in Nat /\ Len(rs) = (Len(rs) - 1) + 1
    BY <2>1
  <2>3. QED  BY <2>2
<1>2. /\ n + 1 # 0 /\ (n + 1) - 1 = n /\ n + 1 \in 1..(n + 1)
      /\ \A i \in 1..n : i \in 1..(n + 1) /\ i # 0
      /\ \A i \in 1..n : i - 1 = 0 \/ i - 1 \in 1..n
      /\ n = 0 \/ n \in 1..n
  OBVIOUS
<1>3. Last(rs) = rs[n + 1] /\ Front(rs) = SubSeq(rs, 1, n)
  BY <1>1, <1>2 DEF Last, Front
<1>4. PICK t \in Seq(Requests) : t = Front(rs) /\ Len(t) = n /\ \A i \in 1..n : t[i] = rs[i]
  <2>1. \A i \in 1..n : rs[i] \in Requests
    BY <1>1, <1>2, ElementOfSeq
  <2>2. /\ SubSeq(rs, 1, n) \in Seq(Requests)
        /\ Len(SubSeq(rs, 1, n)) = IF 1 <= n THEN n - 1 + 1 ELSE 0
        /\ \A i \in 1..(n - 1 + 1) : SubSeq(rs, 1, n)[i] = rs[1 + i - 1]
    BY <2>1, SubSeqProperties
  <2>3. /\ (IF 1 <= n THEN n - 1 + 1 ELSE 0) = n /\ n - 1 + 1 = n
        /\ \A i \in 1..n : 1 + i - 1 = i
    OBVIOUS
  <2>4. \A i \in 1..n : SubSeq(rs, 1, n)[i] = rs[i]
    BY <2>2, <2>3
  <2>5. QED  BY <1>3, <2>2, <2>3, <2>4
<1>5. /\ rs[n + 1] \in Requests /\ RequestRight(rs[n + 1]) /\ rs[n + 1].span.end = to
      /\ rs[n + 1].span.start = DoneAt(rs, n, from)
  <2>1. rs[n + 1] \in Requests
    BY <1>1, <1>2, ElementOfSeq
  <2>2. QED  BY <1>1, <1>2, <2>1 DEF Chain, DoneAt
<1>6. ASSUME NEW i \in 1..n
      PROVE  t[i].span.start = DoneAt(t, i - 1, from) /\ RequestRight(t[i])
  <2>1. rs[i].span.start = DoneAt(rs, i - 1, from) /\ RequestRight(rs[i])
    BY <1>1, <1>2 DEF Chain
  <2>2. DoneAt(t, i - 1, from) = DoneAt(rs, i - 1, from)
    BY <1>2, <1>4 DEF DoneAt
  <2>3. QED  BY <1>4, <2>1, <2>2
<1>7. DoneAt(t, n, from) = DoneAt(rs, n, from)
  BY <1>2, <1>4 DEF DoneAt
<1>8. Chain(t, from, rs[n + 1].span.start)
  BY <1>4, <1>5, <1>6, <1>7 DEF Chain
<1>9. QED  BY <1>3, <1>4, <1>5, <1>8

\* Requests made again take the place of the one they stand for.
LEMMA ChainConcat ==
  ASSUME NEW rs \in Seq(Requests), NEW ss \in Seq(Requests), NEW from, NEW via, NEW to,
         Chain(rs, from, via), Chain(ss, via, to)
  PROVE  rs \o ss \in Seq(Requests) /\ Chain(rs \o ss, from, to)
<1>1. PICK n \in Nat : n = Len(rs)
  BY LenProperties
<1>2. PICK m \in Nat : m = Len(ss)
  BY LenProperties
<1>3. PICK t \in Seq(Requests) : /\ t = rs \o ss /\ Len(t) = n + m
                                 /\ \A i \in 1..(n + m) : t[i] = IF i <= n THEN rs[i] ELSE ss[i - n]
  <2>1. /\ rs \o ss \in Seq(Requests) /\ Len(rs \o ss) = n + m
        /\ \A i \in 1..(n + m) : (rs \o ss)[i] = IF i <= n THEN rs[i] ELSE ss[i - n]
    BY <1>1, <1>2, ConcatProperties
  <2>2. QED  BY <2>1
<1>4. \A i \in 1..n : t[i] = rs[i]
  <2>1. \A i \in 1..n : i \in 1..(n + m) /\ i <= n
    OBVIOUS
  <2>2. QED  BY <1>3, <2>1
<1>5. \A i \in 1..m : t[n + i] = ss[i]
  <2>1. \A i \in 1..m : n + i \in 1..(n + m) /\ ~(n + i <= n) /\ (n + i) - n = i
    OBVIOUS
  <2>2. QED  BY <1>3, <2>1
<1>6. DoneAt(rs, n, from) = via /\ DoneAt(ss, m, via) = to
  BY <1>1, <1>2 DEF Chain
<1>7. ASSUME NEW i \in 0..n
      PROVE  DoneAt(t, i, from) = DoneAt(rs, i, from)
  <2>1. i = 0 \/ i \in 1..n
    OBVIOUS
  <2>2. QED  BY <1>4, <2>1 DEF DoneAt
<1>8. ASSUME NEW i \in 0..m
      PROVE  DoneAt(t, n + i, from) = DoneAt(ss, i, via)
  <2>1. CASE i = 0
    <3>1. n + i = n /\ n \in 0..n
      BY <2>1
    <3>2. QED  BY <1>6, <1>7, <2>1, <3>1 DEF DoneAt
  <2>2. CASE i # 0
    <3>1. i \in 1..m /\ n + i # 0
      BY <2>2
    <3>2. QED  BY <1>5, <2>2, <3>1 DEF DoneAt
  <2>3. QED  BY <2>1, <2>2
<1>9. ASSUME NEW i \in 1..(n + m)
      PROVE  t[i].span.start = DoneAt(t, i - 1, from) /\ RequestRight(t[i])
  <2>1. CASE i <= n
    <3>1. i \in 1..n /\ i - 1 \in 0..n
      BY <2>1
    <3>2. rs[i].span.start = DoneAt(rs, i - 1, from) /\ RequestRight(rs[i])
      BY <1>1, <3>1 DEF Chain
    <3>3. DoneAt(t, i - 1, from) = DoneAt(rs, i - 1, from)
      BY <1>7, <3>1
    <3>4. QED  BY <1>4, <3>1, <3>2, <3>3
  <2>2. CASE ~(i <= n)
    <3>1. PICK j \in 1..m : i = n + j /\ i - 1 = n + (j - 1) /\ j - 1 \in 0..m
      <4>1. i - n \in 1..m /\ i = n + (i - n) /\ i - 1 = n + ((i - n) - 1) /\ (i - n) - 1 \in 0..m
        BY <2>2
      <4>2. QED  BY <4>1
    <3>2. ss[j].span.start = DoneAt(ss, j - 1, via) /\ RequestRight(ss[j])
      BY <1>2 DEF Chain
    <3>3. DoneAt(t, i - 1, from) = DoneAt(ss, j - 1, via)
      BY <1>8, <3>1
    <3>4. QED  BY <1>5, <3>1, <3>2, <3>3
  <2>3. QED  BY <2>1, <2>2
<1>10. DoneAt(t, n + m, from) = to
  <2>1. m \in 0..m
    OBVIOUS
  <2>2. QED  BY <1>6, <1>8, <2>1
<1>11. Chain(t, from, to)
  BY <1>3, <1>9, <1>10 DEF Chain
<1>12. QED  BY <1>3, <1>11


-----------------------------------------------------------------------------
(* Gradients                                                               *)

\* The gradient of a block, with the blocks before it as its input.
LEMMA GradientIs ==
  ASSUME NEW i \in 1..NumBlocks
  PROVE  /\ Gradient(i) = [block |-> NumBlocks + 1 - i, inputs |-> UpTo(NumBlocks - i)]
         /\ Gradient(i) \in Gradients
<1>1. NumBlocks \in 0..NumBlocks /\ NumBlocks - i \in 0..NumBlocks /\ NumBlocks + 1 - i \in Blocks
  BY DEF Blocks
<1>2. WholePass = UpTo(NumBlocks)
  BY DEF WholePass, UpTo
<1>3. PICK w \in Seq(Blocks) : w = WholePass /\ \A j \in 1..NumBlocks : w[j] = j
  BY <1>1, <1>2, UpToType
<1>4. PICK n \in 0..NumBlocks : n = NumBlocks - i
  BY <1>1
<1>5. PICK u \in Seq(Blocks) : u = UpTo(n) /\ Len(u) = n /\ \A j \in 1..n : u[j] = j
  BY UpToType
<1>6. \A j \in 1..n : j \in 1..NumBlocks /\ j \in Blocks /\ 1 + j - 1 = j
  BY DEF Blocks
<1>7. /\ SubSeq(w, 1, n) \in Seq(Blocks)
      /\ Len(SubSeq(w, 1, n)) = IF 1 <= n THEN n - 1 + 1 ELSE 0
      /\ \A j \in 1..(n - 1 + 1) : SubSeq(w, 1, n)[j] = w[1 + j - 1]
  <2>1. \A j \in 1..n : w[j] \in Blocks
    BY <1>3, <1>6
  <2>2. 1 \in Int /\ n \in Int
    OBVIOUS
  <2>3. QED  BY <2>1, <2>2, SubSeqProperties
<1>8. (IF 1 <= n THEN n - 1 + 1 ELSE 0) = n /\ n - 1 + 1 = n
  OBVIOUS
<1>9. \A j \in 1..n : SubSeq(w, 1, n)[j] = u[j]
  BY <1>3, <1>5, <1>6, <1>7, <1>8
<1>10. SubSeq(w, 1, n) = u
  BY <1>5, <1>7, <1>8, <1>9, SeqEqual
<1>11. Gradient(i) = [block |-> NumBlocks + 1 - i, inputs |-> u]
  BY <1>3, <1>4, <1>10 DEF Gradient
<1>12. QED  BY <1>1, <1>4, <1>5, <1>11 DEF Gradients

\* run_remote_backward adds the gradients of the blocks of the span, last block first.
LEMMA GradsAppend ==
  ASSUME NEW gs \in Seq(Gradients), NEW r \in Requests, RequestRight(r), GradsDownTo(gs, r.span.end)
  PROVE  gs \o GradsOf(r) \in Seq(Gradients) /\ GradsDownTo(gs \o GradsOf(r), r.span.start)
<1>1. PICK f \in Blocks, e \in 2..(NumBlocks + 1) : f = r.span.start /\ e = r.span.end
  BY DEF Requests, Spans
<1>2. f < e /\ r.inputs = UpTo(f - 1)
  BY <1>1 DEF RequestRight
<1>3. /\ e - f \in Nat /\ NumBlocks + 1 - e \in Nat
      /\ (NumBlocks + 1 - e) + (e - f) = NumBlocks + 1 - f
  <2>1. f \in 1..NumBlocks /\ e \in 2..(NumBlocks + 1)
    BY DEF Blocks
  <2>2. \A N \in Nat : \A x \in 1..N : \A y \in 2..(N + 1) : x < y =>
           y - x \in Nat /\ N + 1 - y \in Nat /\ (N + 1 - y) + (y - x) = N + 1 - x
    OBVIOUS
  <2>3. NumBlocks \in Nat
    OBVIOUS
  <2>4. QED  BY <1>2, <2>1, <2>2, <2>3
<1>4. ASSUME NEW i \in 1..(e - f)
      PROVE  GradsOf(r)[i] = Gradient((NumBlocks + 1 - e) + i) /\ GradsOf(r)[i] \in Gradients
  <2>1. PICK block \in Blocks : block = e - i /\ f <= block
    <3>1. e - i \in Blocks /\ f <= e - i
      BY <1>1, <1>2, SMTT(30) DEF Blocks
    <3>2. QED  BY <3>1
  <2>2. PICK j \in 1..NumBlocks : /\ j = (NumBlocks + 1 - e) + i
                                  /\ NumBlocks + 1 - j = block /\ NumBlocks - j = block - 1
    <3>1. PICK j \in Int : j = (NumBlocks + 1 - e) + i
      OBVIOUS
    <3>2. j \in 1..NumBlocks
      <4>1. \A N \in Nat : \A x \in 1..N : \A y \in 2..(N + 1) : \A k \in 1..(y - x) :
              x < y => (N + 1 - y) + k \in 1..N
        OBVIOUS
      <4>2. NumBlocks \in Nat /\ f \in 1..NumBlocks
        BY DEF Blocks
      <4>3. QED  BY <1>2, <3>1, <4>1, <4>2
    <3>3. NumBlocks + 1 - j = block /\ NumBlocks - j = block - 1
      BY <2>1, <3>1
    <3>4. QED  BY <3>1, <3>2, <3>3
  <2>3. PICK s : s = [r.span EXCEPT !.end = block]
    OBVIOUS
  <2>4. s.start = f /\ s.end = block
    BY <1>1, <2>3 DEF Requests, Spans
  <2>5. Passed(UpTo(f - 1), s) = UpTo(block - 1)
    <3>1. s.start \in Blocks /\ s.end \in 1..(NumBlocks + 1) /\ s.start <= s.end
      BY <2>1, <2>4 DEF Blocks
    <3>2. QED  BY <2>4, <3>1, PassedInOrder
  <2>6. GradsOf(r)[i] = [block |-> block, inputs |-> Passed(r.inputs, s)]
    BY <1>1, <2>1, <2>3 DEF GradsOf
  <2>7. QED  BY <1>2, <2>2, <2>5, <2>6, GradientIs
<1>5. PICK hs \in Seq(Gradients) : hs = GradsOf(r) /\ Len(hs) = e - f
  <2>1. GradsOf(r) \in [1..(e - f) -> Gradients]
    <3>1. GradsOf(r) = [i \in 1..(e - f) |-> GradsOf(r)[i]]
      BY <1>1 DEF GradsOf
    <3>2. QED  BY <1>4, <3>1
  <2>2. \A n \in Nat : \A h \in [1..n -> Gradients] : h \in Seq(Gradients) /\ Len(h) = n
    OBVIOUS
  <2>3. QED  BY <1>3, <2>1, <2>2
<1>6. PICK n \in Nat : n = NumBlocks + 1 - e /\ n = Len(gs)
  BY <1>1, <1>3 DEF GradsDownTo
<1>7. PICK m \in Nat : m = e - f
  BY <1>3
<1>8. /\ gs \o hs \in Seq(Gradients) /\ Len(gs \o hs) = n + m
      /\ \A i \in 1..(n + m) : (gs \o hs)[i] = IF i <= n THEN gs[i] ELSE hs[i - n]
  <2>1. /\ gs \o hs \in Seq(Gradients) /\ Len(gs \o hs) = Len(gs) + Len(hs)
        /\ \A i \in 1..(Len(gs) + Len(hs)) : (gs \o hs)[i] = IF i <= Len(gs) THEN gs[i] ELSE hs[i - Len(gs)]
    BY ConcatProperties
  <2>2. Len(gs) = n /\ Len(hs) = m
    BY <1>5, <1>6, <1>7
  <2>3. QED  BY <2>1, <2>2
<1>9. ASSUME NEW i \in 1..(n + m)
      PROVE  (gs \o hs)[i] = Gradient(i)
  <2>1. CASE i <= n
    <3>1. i \in 1..Len(gs)
      BY <1>6, <2>1
    <3>2. QED  BY <1>8, <2>1, <3>1 DEF GradsDownTo
  <2>2. CASE ~(i <= n)
    <3>1. i - n \in 1..(e - f) /\ n + (i - n) = i
      BY <1>7, <2>2
    <3>2. hs[i - n] = Gradient(n + (i - n))
      BY <1>4, <1>5, <1>6, <3>1
    <3>3. QED  BY <1>8, <2>2, <3>1, <3>2
  <2>3. QED  BY <2>1, <2>2
<1>10. n + m = NumBlocks + 1 - f
  BY <1>3, <1>6, <1>7
<1>11. GradsDownTo(gs \o hs, f)
  BY <1>8, <1>9, <1>10 DEF GradsDownTo
<1>12. QED  BY <1>1, <1>5, <1>8, <1>11


-----------------------------------------------------------------------------
(* What becomes of a coroutine                                             *)

\* A backward pass takes the request that comes next, or has all gradients.
LEMMA PoppedRight ==
  ASSUME NEW c \in Coroutines, c.mode = "backward", NEW to \in 1..(NumBlocks + 1),
         Chain(c.done, 1, to), GradsDownTo(c.grads, to)
  PROVE  Popped(c) \in Coroutines /\ BatchRight(Popped(c)) /\ Popped(c).mode \in {"backward", "done"}
<1>1. c.done \in Seq(Requests)
  BY DEF Coroutines
<1>2. CASE c.done = <<>>
  <2>1. to = 1
    BY <1>2 DEF Chain, DoneAt
  <2>2. PICK d \in Coroutines : d = [c EXCEPT !.mode = "done", !.current = None]
    BY DEF Coroutines, Modes
  <2>3. d.mode = "done" /\ d.grads = c.grads
    BY <2>2 DEF Coroutines
  <2>4. BatchRight(d)
    BY <2>1, <2>3 DEF BatchRight
  <2>5. Popped(c) = d
    BY <1>2, <2>2 DEF Popped
  <2>6. QED  BY <2>3, <2>4, <2>5
<1>3. CASE c.done # <<>>
  <2>1. /\ Last(c.done) \in Requests /\ RequestRight(Last(c.done)) /\ Last(c.done).span.end = to
        /\ Front(c.done) \in Seq(Requests) /\ Chain(Front(c.done), 1, Last(c.done).span.start)
    BY <1>1, <1>3, ChainFront
  <2>2. PICK r \in Requests, rs \in Seq(Requests) : r = Last(c.done) /\ rs = Front(c.done)
    BY <2>1
  <2>3. PICK d \in Coroutines : d = [c EXCEPT !.current = r, !.done = rs]
    BY DEF Coroutines
  <2>4. d.mode = "backward" /\ d.grads = c.grads /\ d.current = r /\ d.done = rs
    BY <2>3 DEF Coroutines
  <2>5. BatchRight(d)
    BY <2>1, <2>2, <2>4 DEF BatchRight
  <2>6. Popped(c) = d
    BY <1>3, <2>2, <2>3 DEF Popped
  <2>7. QED  BY <2>4, <2>5, <2>6
<1>4. QED  BY <1>2, <1>3

\* sequential_forward returns when it has reached its end, and goes on otherwise.
LEMMA ReturnedRight ==
  ASSUME NEW c \in Coroutines, c.index <= c.end, c.inputs = UpTo(c.index - 1), GradsDownTo(c.grads, c.end),
         c.index < c.end /\ c.sequences # <<>> /\ ~c.again => Path(c.sequences, c.index, c.end),
         \/ c.mode = "forward" /\ c.end = NumBlocks + 1 /\ Chain(c.done, 1, c.index)
         \/ c.mode = "replay" /\ \E from \in 1..(NumBlocks + 1) : Chain(c.done, 1, from) /\ Chain(c.backup, from, c.index)
  PROVE  Returned(c) \in Coroutines /\ BatchRight(Returned(c))
<1>1. PICK i \in 1..(NumBlocks + 1), e \in 2..(NumBlocks + 1) : i = c.index /\ e = c.end
  BY DEF Coroutines
<1>2. CASE i < e
  <2>1. Returned(c) = c
    BY <1>1, <1>2 DEF Returned
  <2>2. OnItsWay(c)
    BY <1>1, <1>2 DEF OnItsWay
  <2>3. BatchRight(c)
    BY <2>2 DEF BatchRight
  <2>4. QED  BY <2>1, <2>3
<1>3. CASE ~(i < e) /\ c.mode = "forward"
  <2>1. i = NumBlocks + 1 /\ e = NumBlocks + 1 /\ i - 1 = NumBlocks
    BY <1>1, <1>3
  <2>2. PICK d \in Coroutines : d = [c EXCEPT !.mode = "forwarded"]
    BY DEF Coroutines, Modes
  <2>3. d.mode = "forwarded" /\ d.inputs = c.inputs /\ d.grads = c.grads /\ d.done = c.done
    BY <2>2 DEF Coroutines
  <2>4. d.inputs = WholePass
    BY <1>1, <2>1, <2>3 DEF WholePass, UpTo
  <2>5. GradsDownTo(d.grads, NumBlocks + 1) /\ Chain(d.done, 1, NumBlocks + 1)
    BY <1>1, <1>3, <2>1, <2>3
  <2>6. BatchRight(d)
    BY <2>3, <2>4, <2>5 DEF BatchRight
  <2>7. Returned(c) = d
    BY <1>1, <1>3, <2>2 DEF Returned
  <2>8. QED  BY <2>6, <2>7
<1>4. CASE ~(i < e) /\ c.mode = "replay"
  <2>1. i = e
    BY <1>1, <1>4
  <2>2. PICK from \in 1..(NumBlocks + 1) : Chain(c.done, 1, from) /\ Chain(c.backup, from, e)
    BY <1>1, <1>4, <2>1
  <2>3. PICK rs \in Seq(Requests) : rs = c.done \o c.backup /\ Chain(rs, 1, e)
    <3>1. c.done \in Seq(Requests) /\ c.backup \in Seq(Requests)
      BY DEF Coroutines
    <3>2. c.done \o c.backup \in Seq(Requests) /\ Chain(c.done \o c.backup, 1, e)
      BY <2>2, <3>1, ChainConcat
    <3>3. QED  BY <3>2
  <2>4. PICK d \in Coroutines : d = [c EXCEPT !.mode = "backward", !.done = rs, !.backup = <<>>]
    BY EmptySeq DEF Coroutines, Modes
  <2>5. d.mode = "backward" /\ d.done = rs /\ d.grads = c.grads
    BY <2>4 DEF Coroutines
  <2>6. Returned(c) = Popped(d)
    BY <1>1, <1>4, <2>3, <2>4 DEF Returned
  <2>7. e \in 1..(NumBlocks + 1)
    OBVIOUS
  <2>8. Chain(d.done, 1, e) /\ GradsDownTo(d.grads, e)
    BY <1>1, <2>3, <2>5
  <2>9. QED  BY <2>5, <2>6, <2>7, <2>8, PoppedRight
<1>5. QED  BY <1>2, <1>3, <1>4

\* One coroutine changes.
LEMMA SetRight ==
  ASSUME batch \in [Batches -> Coroutines], BatchInv, NEW b \in Batches,
         NEW c \in Coroutines, BatchRight(c), Set(b, c)
  PROVE  batch' \in [Batches -> Coroutines] /\ BatchInv'
<1>1. batch' = [batch EXCEPT ![b] = c]
  BY DEF Set
<1>2. batch' \in [Batches -> Coroutines] /\ batch'[b] = c /\ \A a \in Batches \ {b} : batch'[a] = batch[a]
  BY <1>1
<1>3. ASSUME NEW a \in Batches
      PROVE  BatchRight(batch'[a])
  BY <1>2 DEF BatchInv
<1>4. \A a \in Batches : BatchRight(batch[a])'
  BY <1>3 DEF BatchRight, OnItsWay
<1>5. QED  BY <1>2, <1>4 DEF BatchInv


-----------------------------------------------------------------------------
(* Initial states                                                          *)

\* An idle batch has passed nothing and asked for nothing.
LEMMA IdleRight == Idle \in Coroutines /\ BatchRight(Idle)
<1>1. 1 < NumBlocks + 1 /\ 1 \in 1..(NumBlocks + 1) /\ NumBlocks + 1 \in 2..(NumBlocks + 1)
  OBVIOUS
<1>2. Idle \in Coroutines
  BY <1>1, EmptySeq DEF Idle, Coroutines, Modes
<1>3. /\ Idle.mode = "forward" /\ Idle.index = 1 /\ Idle.end = NumBlocks + 1
      /\ Idle.inputs = <<>> /\ Idle.done = <<>> /\ Idle.grads = <<>> /\ Idle.sequences = <<>>
  BY DEF Idle
<1>4. <<>> = UpTo(1 - 1)
  BY UpToType, EmptySeq, SeqEqual
<1>5. GradsDownTo(<<>>, NumBlocks + 1)
  BY EmptySeq DEF GradsDownTo
<1>6. OnItsWay(Idle)
  BY <1>1, <1>3, <1>4, <1>5 DEF OnItsWay
<1>7. Chain(<<>>, 1, 1)
  BY NoRequests
<1>8. QED  BY <1>2, <1>3, <1>6, <1>7 DEF BatchRight

\* Before the first request.
LEMMA InitIInv == Init => IInv
<1> SUFFICES ASSUME Init  PROVE IInv
  OBVIOUS
<1>1. ManagerTypes /\ TableInv
  BY InitManager DEF Init
<1>2. batch \in [Batches -> Coroutines] /\ BatchInv
  BY IdleRight DEF Init, BatchInv
<1>3. maker = None /\ route = <<>> /\ main = "info"
  BY DEF Init
<1>4. RouteInv
  BY <1>3 DEF RouteInv
<1>5. Types
  BY <1>1, <1>2, <1>3, EmptySeq DEF Types
<1>6. QED  BY <1>1, <1>2, <1>4, <1>5 DEF IInv

-----------------------------------------------------------------------------
(* Steps                                                                   *)

\* Steps that change no batch and no route.
LEMMA FrameInv ==
  ASSUME IInv, ManagerTypes', TableInv', main' \in {"info", "waiting", "batches"}, UNCHANGED <<maker, route, batch>>
  PROVE  IInv'
<1>1. Types'
  BY DEF IInv, Types
<1>2. RouteInv'
  BY DEF IInv, RouteInv
<1>3. BatchInv'
  BY DEF IInv, BatchInv
<1>4. QED  BY <1>1, <1>2, <1>3 DEF IInv

\* Steps of one coroutine while no route is made.
LEMMA CoroutineInv ==
  ASSUME IInv, ManagerTypes', UNCHANGED <<spans, main, maker, route>>, maker = None,
         NEW b \in Batches, NEW c \in Coroutines, BatchRight(c), Set(b, c)
  PROVE  IInv'
<1>1. batch' \in [Batches -> Coroutines] /\ BatchInv'
  BY SetRight DEF IInv, Types
<1>2. TableInv'
  BY DEF IInv, TableInv
<1>3. Types'
  BY <1>1 DEF IInv, Types
<1>4. RouteInv'
  BY DEF IInv, RouteInv
<1>5. QED  BY <1>1, <1>2, <1>3, <1>4 DEF IInv

\* The calling thread reads rpc_info.
LEMMA InfoStep ==
  ASSUME IInv, InfoNext
  PROVE  IInv'
<1>1. ManagerTypes /\ TableInv
  BY DEF IInv, Types
<1>2. CASE ReadInfo
  <2>1. ManagerTypes'
    BY <1>1, <1>2, RequestUpdateTypes DEF ReadInfo
  <2>2. TableInv'
    BY <1>1, <1>2 DEF ReadInfo, TableInv, table
  <2>3. QED  BY <1>2, <2>1, <2>2, FrameInv DEF ReadInfo
<1>3. CASE NobodyForInfo
  <2>1. faults' \in 0..MaxFaults
    BY <1>1, <1>3 DEF NobodyForInfo, swarm, ManagerTypes, ManagerTypeOK
  <2>2. ManagerTypes'
    BY <1>1, <1>3, <2>1, RequestFailureTypes DEF NobodyForInfo, swarm
  <2>3. TableInv'
    BY <1>1, <1>3 DEF NobodyForInfo, TableInv
  <2>4. QED  BY <1>3, <2>2, <2>3, FrameInv DEF NobodyForInfo
<1>4. ASSUME NEW p \in Servers, AskInfo(p)
      PROVE  IInv'
  <2>1. UNCHANGED <<alive, held, records, spans, updater, maker, route, batch>>
    BY <1>4 DEF AskInfo
  <2>2. TableInv'
    BY <1>1, <2>1 DEF TableInv
  <2>3. ManagerTypes' /\ main' \in {"info", "waiting", "batches"}
    <3>1. CASE OnRequestSuccess(p) /\ main' = "batches" /\ UNCHANGED <<blockInfos, ready, trigger, faults>>
      <4>1. ManagerTypes'
        BY <1>1, <2>1, <3>1, RequestSuccessTypes DEF swarm, table
      <4>2. QED  BY <3>1, <4>1
    <3>2. CASE Raises(IsOnline(p)) /\ OnRequestFailure(p) /\ main' = "info"
      <4>1. faults' \in 0..MaxFaults
        BY <1>1, <3>2, RaisesTypes
      <4>2. ManagerTypes'
        BY <1>1, <2>1, <3>2, <4>1, RequestFailureTypes
      <4>3. QED  BY <3>2, <4>2
    <3>3. QED  BY <1>4, <3>1, <3>2 DEF AskInfo
  <2>4. QED  BY <2>1, <2>2, <2>3, FrameInv
<1>5. QED  BY <1>2, <1>3, <1>4 DEF InfoNext

\* A batch enters make_sequence with no route yet.
LEMMA MakeSequenceStep ==
  ASSUME IInv, NEW b \in Batches, MakeSequence(b)
  PROVE  IInv'
<1>1. ManagerTypes /\ TableInv /\ batch[b] \in Coroutines
  BY DEF IInv, Types
<1>2. /\ RequestUpdate /\ maker' = b /\ UNCHANGED <<swarm, table, banned, fetched, main, route, batch>>
      /\ maker = None /\ batch[b].mode \in {"forward", "replay"}
  BY DEF MakeSequence, Runs
<1>3. ManagerTypes'
  BY <1>1, <1>2, RequestUpdateTypes
<1>4. TableInv'
  BY <1>1, <1>2 DEF TableInv, table
<1>5. Types'
  BY <1>2, <1>3 DEF IInv, Types
<1>6. BatchInv'
  BY <1>2 DEF IInv, BatchInv
<1>7. RouteInv'
  <2>1. route' = <<>> /\ maker' # None /\ batch'[maker'] = batch[b]
    BY <1>2 DEF IInv, RouteInv
  <2>2. batch[b].index < batch[b].end
    BY <1>2 DEF IInv, BatchInv, BatchRight, OnItsWay
  <2>3. Path(<<>>, batch[b].index, batch[b].index) /\ EndAt(<<>>, Len(<<>>), batch[b].index) = batch[b].index
    BY EmptySeq DEF Path, EndAt
  <2>4. QED  BY <1>2, <2>1, <2>2, <2>3 DEF RouteInv
<1>8. QED  BY <1>4, <1>5, <1>6, <1>7 DEF IInv


\* A coroutine may take other spans that lead from where it is to its end, or none.
LEMMA SequencesRight ==
  ASSUME NEW c \in Coroutines, BatchRight(c), c.mode \in {"forward", "replay"},
         NEW ss \in Seq(Spans), NEW again \in BOOLEAN,
         ss # <<>> /\ ~again => Path(ss, c.index, c.end)
  PROVE  /\ [c EXCEPT !.again = again, !.sequences = ss] \in Coroutines
         /\ BatchRight([c EXCEPT !.again = again, !.sequences = ss])
<1>1. PICK d \in Coroutines : d = [c EXCEPT !.again = again, !.sequences = ss]
  BY DEF Coroutines
<1>2. /\ d.mode = c.mode /\ d.inputs = c.inputs /\ d.index = c.index /\ d.end = c.end
      /\ d.sequences = ss /\ d.again = again /\ d.done = c.done /\ d.backup = c.backup /\ d.grads = c.grads
  BY <1>1 DEF Coroutines
<1>3. OnItsWay(d)
  <2>1. OnItsWay(c)
    BY DEF BatchRight
  <2>2. QED  BY <1>2, <2>1 DEF OnItsWay
<1>4. BatchRight(d)
  BY <1>2, <1>3 DEF BatchRight
<1>5. QED  BY <1>1, <1>4

\* Where a route leads that is being made.
LEMMA ReachedIs ==
  ASSUME NEW r \in Seq(Spans)
  PROVE  Reached(r) = EndAt(r, Len(r), batch[maker].index)
BY EmptySeq DEF Reached, EndAt, Last

\* What is appended to a route is where that leads.
LEMMA ReachedAppend ==
  ASSUME NEW r \in Seq(Spans), NEW x \in Spans
  PROVE  Reached(Append(r, x)) = x.end
<1>1. PICK t \in Seq(Spans) : t = Append(r, x) /\ t # <<>> /\ Len(t) = Len(r) + 1 /\ t[Len(r) + 1] = x
  <2>1. /\ Append(r, x) \in Seq(Spans) /\ Append(r, x) # <<>>
        /\ Len(Append(r, x)) = Len(r) + 1 /\ Append(r, x)[Len(r) + 1] = x
    BY AppendProperties
  <2>2. QED  BY <2>1
<1>2. QED  BY <1>1 DEF Reached, Last

\* A batch leaves make_sequence with what it asks for next.
LEMMA LeaveMaker ==
  ASSUME IInv, maker # None, ManagerTypes', UNCHANGED <<spans, main>>, maker' = None, route' = <<>>,
         NEW ss \in Seq(Spans), NEW again \in BOOLEAN,
         ss # <<>> /\ ~again => Path(ss, batch[maker].index, batch[maker].end),
         Set(maker, [batch[maker] EXCEPT !.again = again, !.sequences = ss])
  PROVE  IInv'
<1>1. PICK b \in Batches : b = maker
  BY DEF IInv, Types
<1>2. batch[b] \in Coroutines /\ BatchRight(batch[b]) /\ batch[b].mode \in {"forward", "replay"}
  BY <1>1 DEF IInv, Types, BatchInv, RouteInv
<1>3. /\ [batch[b] EXCEPT !.again = again, !.sequences = ss] \in Coroutines
      /\ BatchRight([batch[b] EXCEPT !.again = again, !.sequences = ss])
  BY <1>1, <1>2, SequencesRight
<1>4. batch' \in [Batches -> Coroutines] /\ BatchInv'
  BY <1>1, <1>3, SetRight DEF IInv, Types
<1>5. TableInv'
  BY DEF IInv, TableInv
<1>6. Types'
  BY <1>4, EmptySeq DEF IInv, Types
<1>7. RouteInv'
  BY DEF RouteInv
<1>8. QED  BY <1>4, <1>5, <1>6, <1>7 DEF IInv

\* A span is added to the route, or completes it.
LEMMA AddSpanStep ==
  ASSUME IInv, AddSpan
  PROVE  IInv'
<1>1. maker # None /\ UNCHANGED <<managerVars, main>>
  BY DEF AddSpan
<1>2. ManagerTypes' /\ TableInv' /\ UNCHANGED spans
  BY <1>1 DEF IInv, Types, TableInv, ManagerTypes, ManagerTypeOK, managerVars, swarm, table, updater
<1>3. PICK b \in Batches : b = maker
  BY <1>1 DEF IInv, Types
<1>4. PICK c \in Coroutines : c = batch[b] /\ BatchRight(c) /\ c.mode \in {"forward", "replay"}
  BY <1>1, <1>3 DEF IInv, Types, BatchInv, RouteInv
<1>5. PICK i \in 1..(NumBlocks + 1), e \in 2..(NumBlocks + 1) : i = c.index /\ e = c.end
  BY DEF Coroutines
<1>6. PICK r \in Seq(Spans) : r = route
  BY DEF IInv, Types
<1>7. PICK at \in Blocks : at = Reached(r) /\ at < e /\ Path(r, i, at)
  <2>1. /\ Path(r, i, EndAt(r, Len(r), i)) /\ EndAt(r, Len(r), i) < e
        /\ Reached(r) = EndAt(r, Len(r), i)
    BY <1>1, <1>3, <1>4, <1>5, <1>6, ReachedIs DEF IInv, RouteInv
  <2>2. EndAt(r, Len(r), i) \in 1..(NumBlocks + 1)
    <3>1. CASE Len(r) = 0
      BY <3>1 DEF EndAt
    <3>2. CASE Len(r) # 0
      <4>1. Len(r) \in 1..Len(r)
        BY <3>2, LenProperties
      <4>2. r[Len(r)] \in Spans
        BY <4>1, ElementOfSeq
      <4>3. QED  BY <3>2, <4>2 DEF EndAt, Spans
    <3>3. QED  BY <3>1, <3>2
  <2>3. EndAt(r, Len(r), i) \in Blocks
    BY <2>1, <2>2 DEF Blocks
  <2>4. QED  BY <2>1, <2>3
<1>8. PICK s \in spans[at] :
         LET longer == Append(r, [s EXCEPT !.start = at])
         IN  IF Reached(longer) < e
             THEN route' = longer /\ UNCHANGED <<maker, batch>>
             ELSE /\ Set(maker, [batch[maker] EXCEPT !.again = FALSE, !.sequences = Cut(longer)])
                  /\ route' = <<>> /\ maker' = None
  BY <1>3, <1>4, <1>5, <1>6, <1>7 DEF AddSpan
<1>9. s \in Spans /\ at < s.end
  BY DEF IInv, TableInv
<1>10. PICK x \in Spans : x = [s EXCEPT !.start = at]
  BY <1>9 DEF Spans
<1>11. x.start = at /\ x.end = s.end /\ at < x.end
  BY <1>9, <1>10 DEF Spans
<1>12. at \in 1..(NumBlocks + 1)
  BY DEF Blocks
<1>13. Reached(Append(r, x)) = x.end
  BY ReachedAppend
<1>14. CASE x.end < e
  <2>1. route' = Append(r, x) /\ UNCHANGED <<maker, batch>>
    BY <1>8, <1>10, <1>13, <1>14
  <2>2. /\ Append(r, x) \in Seq(Spans) /\ Len(Append(r, x)) = Len(r) + 1
        /\ Append(r, x)[Len(r) + 1] = x
        /\ Path(Append(r, x), i, x.end)
    BY <1>7, <1>11, <1>12, PathAppend
  <2>3. EndAt(Append(r, x), Len(Append(r, x)), i) = x.end
    <3>1. Len(r) + 1 # 0
      BY LenProperties
    <3>2. QED  BY <2>2, <3>1 DEF EndAt
  <2>4. Types'
    BY <1>1, <1>2, <2>1, <2>2 DEF IInv, Types
  <2>5. BatchInv'
    BY <2>1 DEF IInv, BatchInv
  <2>6. maker' = b /\ batch'[b] = c
    BY <1>3, <1>4, <2>1
  <2>7. RouteInv'
    BY <1>3, <1>4, <1>5, <1>14, <2>1, <2>2, <2>3, <2>6, <1>1 DEF RouteInv
  <2>8. QED  BY <1>2, <2>4, <2>5, <2>7 DEF IInv
<1>15. CASE ~(x.end < e)
  <2>1. /\ Set(maker, [batch[maker] EXCEPT !.again = FALSE, !.sequences = Cut(Append(r, x))])
        /\ route' = <<>> /\ maker' = None
    BY <1>8, <1>10, <1>13, <1>15
  <2>2. PICK y \in Spans : y = [x EXCEPT !.end = e]
    BY DEF Spans
  <2>3. y.start = at /\ y.end = e
    BY <1>11, <2>2 DEF Spans
  <2>4. Cut(Append(r, x)) = Append(r, y)
    BY <1>3, <1>4, <1>5, <2>2, CutIsAppend
  <2>5. e \in 1..(NumBlocks + 1)
    OBVIOUS
  <2>6. Append(r, y) \in Seq(Spans) /\ Path(Append(r, y), i, e)
    BY <1>7, <1>12, <2>3, <2>5, PathAppend
  <2>7. PICK ss \in Seq(Spans) : ss = Append(r, y)
    BY <2>6
  <2>8. ss # <<>> /\ ~FALSE => Path(ss, batch[maker].index, batch[maker].end)
    BY <1>3, <1>4, <1>5, <2>6, <2>7
  <2>9. Set(maker, [batch[maker] EXCEPT !.again = FALSE, !.sequences = ss])
    BY <2>1, <2>4, <2>7
  <2>10. QED  BY <1>1, <1>2, <2>1, <2>8, <2>9, LeaveMaker
<1>16. QED  BY <1>14, <1>15

\* There is no server for a block: the batch will try again.
LEMMA MissingBlocksStep ==
  ASSUME IInv, MissingBlocks
  PROVE  IInv'
<1>1. /\ maker # None /\ OnRequestFailure(None) /\ route' = <<>> /\ maker' = None
      /\ Set(maker, [batch[maker] EXCEPT !.again = TRUE])
      /\ UNCHANGED <<swarm, spans, updater, main>>
  BY DEF MissingBlocks
<1>2. ManagerTypes'
  <2>1. ManagerTypes
    BY DEF IInv, Types
  <2>2. faults' \in 0..MaxFaults
    BY <1>1, <2>1 DEF swarm, ManagerTypes, ManagerTypeOK
  <2>3. QED  BY <1>1, <2>1, <2>2, RequestFailureTypes DEF swarm
<1>3. PICK c \in Coroutines : c = batch[maker]
  BY <1>1 DEF IInv, Types
<1>4. PICK ss \in Seq(Spans) : ss = c.sequences
  BY DEF Coroutines
<1>5. [c EXCEPT !.again = TRUE] = [c EXCEPT !.again = TRUE, !.sequences = ss]
  BY <1>4 DEF Coroutines
<1>6. Set(maker, [batch[maker] EXCEPT !.again = TRUE, !.sequences = ss])
  BY <1>1, <1>3, <1>5
<1>7. QED  BY <1>1, <1>2, <1>6, LeaveMaker


\* A request of the forward pass is answered.
LEMMA ForwardDoneStep ==
  ASSUME IInv, NEW b \in Batches, ForwardDone(b)
  PROVE  IInv'
<1>1. PICK c \in Coroutines : c = batch[b] /\ BatchRight(c)
  BY DEF IInv, Types, BatchInv
<1>2. PICK s : s = Head(c.sequences)
  OBVIOUS
<1>3. PICK made : made = [span |-> s, inputs |-> c.inputs]
  OBVIOUS
<1>4. PICK next : next = [c EXCEPT !.sequences = Tail(@), !.inputs = Passed(@, s), !.index = s.end]
  OBVIOUS
<1>5. PICK new : new = IF c.mode = "forward" THEN [next EXCEPT !.done = Append(@, made)]
                                            ELSE [next EXCEPT !.backup = Append(@, made)]
  OBVIOUS
<1>6. /\ maker = None /\ c.mode \in {"forward", "replay"} /\ c.sequences # <<>> /\ ~c.again
      /\ Set(b, Returned(new))
      /\ OnRequestSuccess(s.peer)
      /\ UNCHANGED <<swarm, table, ready, trigger, updater, main, maker, route>>
  BY <1>1, <1>2, <1>3, <1>4, <1>5 DEF ForwardDone, HasSpan, Runs
<1>7. ManagerTypes' /\ UNCHANGED spans
  <2>1. ManagerTypes
    BY DEF IInv, Types
  <2>2. QED  BY <1>6, <2>1, RequestSuccessTypes DEF table
<1>8. PICK i \in 1..(NumBlocks + 1), e \in 2..(NumBlocks + 1) : i = c.index /\ e = c.end
  BY DEF Coroutines
<1>9. PICK ss \in Seq(Spans) : ss = c.sequences
  BY DEF Coroutines
<1>10. OnItsWay(c)
  BY <1>1, <1>6 DEF BatchRight
<1>11. Path(ss, i, e) /\ i < e /\ c.inputs = UpTo(i - 1) /\ GradsDownTo(c.grads, e)
  BY <1>6, <1>8, <1>9, <1>10 DEF OnItsWay
<1>12. /\ s \in Spans /\ s.start = i /\ i < s.end /\ s.end <= e
       /\ Tail(ss) \in Seq(Spans) /\ Path(Tail(ss), s.end, e)
  <2>1. e \in 1..(NumBlocks + 1)
    OBVIOUS
  <2>2. QED  BY <1>2, <1>6, <1>9, <1>11, <2>1, PathTail
<1>13. PICK j \in 2..(NumBlocks + 1) : j = s.end /\ j \in 1..(NumBlocks + 1) /\ j - 1 \in 0..NumBlocks
  BY <1>12 DEF Spans
<1>14. Passed(c.inputs, s) = UpTo(j - 1) /\ UpTo(j - 1) \in Seq(Blocks)
  <2>1. s.start \in Blocks /\ s.end \in 1..(NumBlocks + 1) /\ s.start <= s.end
    BY <1>12, <1>13 DEF Spans, Blocks
  <2>2. QED  BY <1>11, <1>12, <1>13, <2>1, PassedInOrder, UpToType
<1>15. made \in Requests /\ RequestRight(made) /\ made.span = s
  BY <1>3, <1>11, <1>12 DEF Requests, RequestRight, Coroutines
<1>16. PICK inputs \in Seq(Blocks) : inputs = UpTo(j - 1)
  BY <1>14
<1>17. PICK rest \in Seq(Spans) : rest = Tail(ss)
  BY <1>12
<1>18. next = [c EXCEPT !.sequences = rest, !.inputs = inputs, !.index = j]
  BY <1>4, <1>9, <1>13, <1>14, <1>16, <1>17 DEF Coroutines
<1>19. /\ next \in Coroutines
       /\ next.mode = c.mode /\ next.inputs = inputs /\ next.index = j /\ next.end = e /\ next.sequences = rest
       /\ next.again = c.again /\ next.done = c.done /\ next.backup = c.backup /\ next.grads = c.grads
  BY <1>8, <1>13, <1>18 DEF Coroutines
<1>20. j <= e /\ Path(rest, j, e)
  BY <1>12, <1>13, <1>17
<1>21. CASE c.mode = "forward"
  <2>1. e = NumBlocks + 1 /\ c.done \in Seq(Requests) /\ Chain(c.done, 1, i)
    BY <1>1, <1>8, <1>21 DEF BatchRight, Coroutines
  <2>2. PICK rs \in Seq(Requests) : rs = Append(c.done, made) /\ Chain(rs, 1, j)
    <3>1. Append(c.done, made) \in Seq(Requests) /\ Chain(Append(c.done, made), 1, made.span.end)
      BY <1>12, <1>15, <2>1, ChainAppend
    <3>2. QED  BY <1>13, <1>15, <3>1
  <2>3. new = [next EXCEPT !.done = rs]
    BY <1>5, <1>19, <1>21, <2>2 DEF Coroutines
  <2>4. /\ new \in Coroutines
        /\ new.mode = "forward" /\ new.inputs = inputs /\ new.index = j /\ new.end = e /\ new.sequences = rest
        /\ new.done = rs /\ new.grads = c.grads
    BY <1>19, <1>21, <2>3 DEF Coroutines
  <2>5. Returned(new) \in Coroutines /\ BatchRight(Returned(new))
    BY <1>11, <1>16, <1>20, <2>1, <2>2, <2>4, ReturnedRight
  <2>6. QED  BY <1>6, <1>7, <2>5, CoroutineInv
<1>22. CASE c.mode = "replay"
  <2>1. PICK from \in 1..(NumBlocks + 1) : Chain(c.done, 1, from) /\ Chain(c.backup, from, i)
    BY <1>1, <1>8, <1>22 DEF BatchRight
  <2>2. PICK rs \in Seq(Requests) : rs = Append(c.backup, made) /\ Chain(rs, from, j)
    <3>1. c.backup \in Seq(Requests)
      BY DEF Coroutines
    <3>2. Append(c.backup, made) \in Seq(Requests) /\ Chain(Append(c.backup, made), from, made.span.end)
      BY <1>12, <1>15, <2>1, <3>1, ChainAppend
    <3>3. QED  BY <1>13, <1>15, <3>2
  <2>3. new = [next EXCEPT !.backup = rs]
    BY <1>5, <1>19, <1>22, <2>2 DEF Coroutines
  <2>4. /\ new \in Coroutines
        /\ new.mode = "replay" /\ new.inputs = inputs /\ new.index = j /\ new.end = e /\ new.sequences = rest
        /\ new.done = c.done /\ new.backup = rs /\ new.grads = c.grads
    BY <1>19, <1>22, <2>3 DEF Coroutines
  <2>5. Returned(new) \in Coroutines /\ BatchRight(Returned(new))
    BY <1>11, <1>16, <1>20, <2>1, <2>2, <2>4, ReturnedRight
  <2>6. QED  BY <1>6, <1>7, <2>5, CoroutineInv
<1>23. QED  BY <1>6, <1>21, <1>22

\* It fails: the batch will ask for another route.
LEMMA ForwardFailsStep ==
  ASSUME IInv, NEW b \in Batches, ForwardFails(b)
  PROVE  IInv'
<1>1. PICK c \in Coroutines : c = batch[b] /\ BatchRight(c)
  BY DEF IInv, Types, BatchInv
<1>2. PICK ss \in Seq(Spans) : ss = c.sequences
  BY DEF Coroutines
<1>3. /\ maker = None /\ c.mode \in {"forward", "replay"} /\ ss # <<>>
      /\ Raises(Serves(Head(ss))) /\ OnRequestFailure(Head(ss).peer)
      /\ Set(b, [c EXCEPT !.again = TRUE, !.sequences = Tail(ss)])
      /\ UNCHANGED <<alive, held, records, spans, updater, main, maker, route>>
  BY <1>1, <1>2 DEF ForwardFails, HasSpan, Runs, Coroutines
<1>4. Head(ss) \in Spans /\ Tail(ss) \in Seq(Spans)
  BY <1>3, HeadTailProperties
<1>5. PICK p \in Servers : p = Head(ss).peer
  BY <1>4 DEF Spans
<1>6. ManagerTypes'
  <2>1. ManagerTypes
    BY DEF IInv, Types
  <2>2. faults' \in 0..MaxFaults
    BY <1>3, <2>1, RaisesTypes
  <2>3. QED  BY <1>3, <1>5, <2>1, <2>2, RequestFailureTypes
<1>7. /\ [c EXCEPT !.again = TRUE, !.sequences = Tail(ss)] \in Coroutines
      /\ BatchRight([c EXCEPT !.again = TRUE, !.sequences = Tail(ss)])
  BY <1>1, <1>3, <1>4, SequencesRight
<1>8. QED  BY <1>3, <1>6, <1>7, CoroutineInv


\* Every batch has its outputs, and starts its backward pass.
LEMMA BackwardStep ==
  ASSUME IInv, Backward
  PROVE  IInv'
<1>1. /\ \A b \in Batches : batch[b].mode = "forwarded"
      /\ batch' = [b \in Batches |-> Popped([batch[b] EXCEPT !.mode = "backward"])]
      /\ UNCHANGED <<managerVars, main, maker, route>>
  BY DEF Backward
<1>2. ManagerTypes' /\ TableInv'
  BY <1>1 DEF IInv, Types, TableInv, ManagerTypes, ManagerTypeOK, managerVars, swarm, table, updater
<1>3. maker = None
  BY <1>1 DEF IInv, Types, RouteInv
<1>4. ASSUME NEW b \in Batches
      PROVE  batch'[b] \in Coroutines /\ BatchRight(batch'[b])
  <2>1. PICK c \in Coroutines : c = batch[b] /\ BatchRight(c) /\ c.mode = "forwarded"
    BY <1>1 DEF IInv, Types, BatchInv
  <2>2. PICK d \in Coroutines : d = [c EXCEPT !.mode = "backward"]
    BY DEF Coroutines, Modes
  <2>3. d.mode = "backward" /\ d.done = c.done /\ d.grads = c.grads
    BY <2>2 DEF Coroutines
  <2>4. PICK to \in 1..(NumBlocks + 1) : to = NumBlocks + 1
    OBVIOUS
  <2>5. Chain(d.done, 1, to) /\ GradsDownTo(d.grads, to)
    BY <2>1, <2>3, <2>4 DEF BatchRight
  <2>6. Popped(d) \in Coroutines /\ BatchRight(Popped(d))
    BY <2>3, <2>5, PoppedRight
  <2>7. QED  BY <1>1, <2>1, <2>2, <2>6
<1>5. batch' \in [Batches -> Coroutines]
  BY <1>1, <1>4
<1>6. BatchInv'
  <2>1. \A b \in Batches : BatchRight(batch[b])'
    BY <1>4 DEF BatchRight, OnItsWay
  <2>2. QED  BY <2>1 DEF BatchInv
<1>7. Types'
  BY <1>1, <1>2, <1>5 DEF IInv, Types
<1>8. RouteInv'
  BY <1>1, <1>3 DEF IInv, RouteInv
<1>9. QED  BY <1>2, <1>6, <1>7, <1>8 DEF IInv

\* The gradients of a request arrive.
LEMMA BackwardDoneStep ==
  ASSUME IInv, NEW b \in Batches, BackwardDone(b)
  PROVE  IInv'
<1>1. PICK c \in Coroutines : c = batch[b] /\ BatchRight(c)
  BY DEF IInv, Types, BatchInv
<1>2. /\ maker = None /\ c.mode = "backward"
      /\ Set(b, Popped([c EXCEPT !.grads = @ \o GradsOf(c.current)]))
      /\ OnRequestSuccess(c.current.span.peer)
      /\ UNCHANGED <<swarm, table, ready, trigger, updater, main, maker, route>>
  BY <1>1 DEF BackwardDone, Runs
<1>3. ManagerTypes' /\ UNCHANGED spans
  <2>1. ManagerTypes
    BY DEF IInv, Types
  <2>2. QED  BY <1>2, <2>1, RequestSuccessTypes DEF table
<1>4. PICK r \in Requests : r = c.current
  BY <1>1, <1>2 DEF BatchRight
<1>5. /\ RequestRight(r) /\ GradsDownTo(c.grads, r.span.end) /\ Chain(c.done, 1, r.span.start)
  BY <1>1, <1>2, <1>4 DEF BatchRight
<1>6. PICK gs \in Seq(Gradients) : gs = c.grads \o GradsOf(r) /\ GradsDownTo(gs, r.span.start)
  <2>1. c.grads \in Seq(Gradients)
    BY DEF Coroutines
  <2>2. c.grads \o GradsOf(r) \in Seq(Gradients) /\ GradsDownTo(c.grads \o GradsOf(r), r.span.start)
    BY <1>5, <2>1, GradsAppend
  <2>3. QED  BY <2>2
<1>7. PICK d \in Coroutines : d = [c EXCEPT !.grads = gs]
  BY DEF Coroutines
<1>8. d.mode = "backward" /\ d.done = c.done /\ d.grads = gs
  BY <1>2, <1>7 DEF Coroutines
<1>9. d = [c EXCEPT !.grads = @ \o GradsOf(c.current)]
  BY <1>4, <1>6, <1>7 DEF Coroutines
<1>10. PICK to \in 1..(NumBlocks + 1) : to = r.span.start
  BY DEF Requests, Spans, Blocks
<1>11. Popped(d) \in Coroutines /\ BatchRight(Popped(d))
  BY <1>5, <1>6, <1>8, <1>10, PoppedRight
<1>12. QED  BY <1>2, <1>3, <1>9, <1>11, CoroutineInv

\* It fails: the forward pass over its span is made again.
LEMMA BackwardFailsStep ==
  ASSUME IInv, NEW b \in Batches, BackwardFails(b)
  PROVE  IInv'
<1>1. PICK c \in Coroutines : c = batch[b] /\ BatchRight(c)
  BY DEF IInv, Types, BatchInv
<1>2. PICK r : r = c.current
  OBVIOUS
<1>3. /\ maker = None /\ c.mode = "backward"
      /\ Raises(Serves(r.span)) /\ OnRequestFailure(r.span.peer)
      /\ Set(b, [c EXCEPT !.mode = "replay", !.inputs = r.inputs, !.index = r.span.start,
                          !.end = r.span.end, !.sequences = <<>>, !.again = FALSE, !.backup = <<>>])
      /\ UNCHANGED <<alive, held, records, spans, updater, main, maker, route>>
  BY <1>1, <1>2 DEF BackwardFails, Runs
<1>4. /\ r \in Requests /\ RequestRight(r) /\ GradsDownTo(c.grads, r.span.end)
      /\ Chain(c.done, 1, r.span.start)
  BY <1>1, <1>2, <1>3 DEF BatchRight
<1>5. PICK f \in 1..(NumBlocks + 1), e \in 2..(NumBlocks + 1), p \in Servers :
         f = r.span.start /\ e = r.span.end /\ p = r.span.peer
  BY <1>4 DEF Requests, Spans, Blocks
<1>6. PICK inputs \in Seq(Blocks) : inputs = r.inputs
  BY <1>4 DEF Requests
<1>7. ManagerTypes'
  <2>1. ManagerTypes
    BY DEF IInv, Types
  <2>2. faults' \in 0..MaxFaults
    BY <1>3, <2>1, RaisesTypes
  <2>3. QED  BY <1>3, <1>5, <2>1, <2>2, RequestFailureTypes
<1>8. PICK d : d = [c EXCEPT !.mode = "replay", !.inputs = inputs, !.index = f,
                             !.end = e, !.sequences = <<>>, !.again = FALSE, !.backup = <<>>]
  OBVIOUS
<1>9. /\ d \in Coroutines
      /\ d.mode = "replay" /\ d.inputs = inputs /\ d.index = f /\ d.end = e /\ d.sequences = <<>>
      /\ d.done = c.done /\ d.backup = <<>> /\ d.grads = c.grads
  BY <1>8, EmptySeq DEF Coroutines, Modes
<1>10. OnItsWay(d)
  BY <1>4, <1>5, <1>6, <1>9 DEF OnItsWay, RequestRight
<1>11. Chain(d.done, 1, f) /\ Chain(d.backup, f, f)
  BY <1>4, <1>5, <1>9, NoRequests
<1>12. BatchRight(d)
  BY <1>9, <1>10, <1>11 DEF BatchRight
<1>13. Set(b, d)
  BY <1>3, <1>5, <1>6, <1>8
<1>14. QED  BY <1>3, <1>7, <1>9, <1>12, <1>13, CoroutineInv

\* Every step, and a stuttering one.
LEMMA NextIInv ==
  ASSUME IInv, [Next]_vars
  PROVE  IInv'
<1>1. ManagerTypes /\ TableInv
  BY DEF IInv, Types
<1>2. CASE SwarmNext /\ UNCHANGED autogradVars
  <2>1. ManagerTypes' /\ UNCHANGED spans
    BY <1>1, <1>2, SwarmStep
  <2>2. TableInv'
    BY <1>1, <2>1 DEF TableInv
  <2>3. main' \in {"info", "waiting", "batches"} /\ UNCHANGED <<maker, route, batch>>
    BY <1>2 DEF autogradVars, IInv, Types
  <2>4. QED  BY <2>1, <2>2, <2>3, FrameInv
<1>3. CASE ThreadNext /\ UNCHANGED autogradVars
  <2>1. ManagerTypes' /\ TableInv'
    BY <1>1, <1>3, ThreadStep
  <2>2. main' \in {"info", "waiting", "batches"} /\ UNCHANGED <<maker, route, batch>>
    BY <1>3 DEF autogradVars, IInv, Types
  <2>3. QED  BY <2>1, <2>2, FrameInv
<1>4. CASE InfoNext
  BY <1>4, InfoStep
<1>5. CASE MakeNext
  BY <1>5, AddSpanStep, MissingBlocksStep DEF MakeNext
<1>6. CASE Backward
  BY <1>6, BackwardStep
<1>7. ASSUME NEW b \in Batches, ForwardNext(b)
      PROVE  IInv'
  BY <1>7, MakeSequenceStep, ForwardDoneStep, ForwardFailsStep DEF ForwardNext
<1>8. ASSUME NEW b \in Batches, BackwardNext(b)
      PROVE  IInv'
  BY <1>8, BackwardDoneStep, BackwardFailsStep DEF BackwardNext
<1>9. CASE UNCHANGED vars
  <2>1. UNCHANGED <<managerVars, main, maker, route, batch>>
    BY <1>9 DEF vars, autogradVars
  <2>2. ManagerTypes' /\ TableInv'
    BY <1>1, <2>1 DEF TableInv, ManagerTypes, ManagerTypeOK, managerVars, swarm, table, updater
  <2>3. main' \in {"info", "waiting", "batches"}
    BY <2>1 DEF IInv, Types
  <2>4. QED  BY <2>1, <2>2, <2>3, FrameInv
<1>10. QED
  BY <1>2, <1>3, <1>4, <1>5, <1>6, <1>7, <1>8, <1>9 DEF Next, Finished

\* The invariant of the model.
THEOREM InvariantHolds == Spec => []IInv
<1>1. Init => IInv
  BY InitIInv
<1>2. IInv /\ [Next]_vars => IInv'
  BY NextIInv
<1>3. QED  BY <1>1, <1>2, PTL DEF Spec

-----------------------------------------------------------------------------
(* What follows                                                            *)

\* Whatever the servers announce and whatever fails: the table, the routes and
\* what the coroutines carry are well formed.
THEOREM TypeCorrect == Spec => []TypeOK
<1>1. IInv => TypeOK
  <2> SUFFICES ASSUME IInv  PROVE TypeOK
    OBVIOUS
  <2>1. ManagerTypeOK /\ main \in {"info", "waiting", "batches"} /\ maker \in Batches \cup {None}
    BY DEF IInv, Types, ManagerTypes
  <2>2. \A i \in DOMAIN route : route[i] \in Spans
    BY LenProperties, ElementOfSeq DEF IInv, Types
  <2>3. ASSUME NEW b \in Batches
        PROVE  LET c == batch[b]
               IN  /\ c.mode \in {"forward", "forwarded", "backward", "replay", "done"}
                   /\ c.index \in 1 .. (NumBlocks + 1) /\ c.end \in 2 .. (NumBlocks + 1)
                   /\ \A i \in DOMAIN c.sequences : c.sequences[i] \in Spans
                   /\ \A i \in DOMAIN c.done : c.done[i].span \in Spans
    <3>1. PICK c \in Coroutines : c = batch[b]
      BY DEF IInv, Types
    <3>2. \A i \in DOMAIN c.sequences : c.sequences[i] \in Spans
      <4>1. PICK ss \in Seq(Spans) : ss = c.sequences
        BY DEF Coroutines
      <4>2. QED  BY <4>1, LenProperties, ElementOfSeq
    <3>3. \A i \in DOMAIN c.done : c.done[i].span \in Spans
      <4>1. PICK rs \in Seq(Requests) : rs = c.done
        BY DEF Coroutines
      <4>2. \A i \in DOMAIN rs : rs[i] \in Requests
        BY LenProperties, ElementOfSeq
      <4>3. QED  BY <4>1, <4>2 DEF Requests
    <3>4. c.mode \in Modes /\ c.index \in 1 .. (NumBlocks + 1) /\ c.end \in 2 .. (NumBlocks + 1)
      BY DEF Coroutines
    <3>5. QED  BY <3>1, <3>2, <3>3, <3>4 DEF Modes
  <2>4. QED  BY <2>1, <2>2, <2>3 DEF TypeOK, Coroutine
<1>2. QED  BY <1>1, InvariantHolds, PTL

\* What a batch has still to ask for leads from the block it has reached to its end,
\* whatever tables the route was read from (make_sequence, sequential_forward).
THEOREM RoutesAreConnected == Spec => []RoutesConnected
<1>1. IInv => RoutesConnected
  <2> SUFFICES ASSUME IInv, NEW b \in Batches, batch[b].mode \in {"forward", "replay"},
                      batch[b].sequences # <<>>, ~batch[b].again
               PROVE  LET c == batch[b]
                          s == c.sequences
                      IN  /\ s[1].start = c.index /\ Last(s).end = c.end
                          /\ \A i \in 1 .. (Len(s) - 1) : s[i].end = s[i + 1].start
    BY DEF RoutesConnected
  <2>1. PICK c \in Coroutines : c = batch[b] /\ BatchRight(c)
    BY DEF IInv, Types, BatchInv
  <2>2. PICK s \in Seq(Spans) : s = c.sequences
    BY DEF Coroutines
  <2>3. Path(s, c.index, c.end)
    BY <2>1, <2>2 DEF BatchRight, OnItsWay
  <2>4. PICK n \in Nat : n = Len(s) /\ n # 0
    BY <2>1, <2>2, EmptySeq
  <2>5. 1 \in 1..n /\ 1 - 1 = 0 /\ \A i \in 1..(n - 1) : i + 1 \in 1..n /\ (i + 1) - 1 = i /\ i # 0
    BY <2>4
  <2>6. s[1].start = c.index /\ s[n].end = c.end
    BY <2>3, <2>4, <2>5 DEF Path, EndAt
  <2>7. \A i \in 1..(n - 1) : s[i].end = s[i + 1].start
    BY <2>3, <2>4, <2>5 DEF Path, EndAt
  <2>8. QED  BY <2>1, <2>2, <2>4, <2>6, <2>7 DEF Last
<1>2. QED  BY <1>1, InvariantHolds, PTL

\* A batch leaves the forward pass with every block applied once and in order, and
\* its backward pass calls every block once, last block first, each with the input
\* of the forward pass, through crashes, failures and routes made again.
THEOREM PassesAreRight == Spec => []PassesRight
<1>1. IInv => PassesRight
  <2> SUFFICES ASSUME IInv, NEW b \in Batches
               PROVE  LET c == batch[b]
                      IN  /\ c.mode = "forwarded" => c.inputs = WholePass
                          /\ \A i \in DOMAIN c.grads : i <= NumBlocks /\ c.grads[i] = Gradient(i)
                          /\ c.mode = "done" => Len(c.grads) = NumBlocks
    BY DEF PassesRight
  <2>1. PICK c \in Coroutines : c = batch[b] /\ BatchRight(c)
    BY DEF IInv, Types, BatchInv
  <2>2. PICK block \in 1..(NumBlocks + 1) : GradsDownTo(c.grads, block) /\ (c.mode = "done" => block = 1)
    <3>1. NumBlocks + 1 \in 1..(NumBlocks + 1) /\ 1 \in 1..(NumBlocks + 1)
      OBVIOUS
    <3>2. CASE c.mode \in {"forward", "replay"}
      <4>1. GradsDownTo(c.grads, c.end)
        BY <2>1, <3>2 DEF BatchRight, OnItsWay
      <4>2. c.end \in 1..(NumBlocks + 1)
        BY DEF Coroutines
      <4>3. QED  BY <3>2, <4>1, <4>2
    <3>3. CASE c.mode = "forwarded"
      BY <2>1, <3>1, <3>3 DEF BatchRight
    <3>4. CASE c.mode = "backward"
      <4>1. GradsDownTo(c.grads, c.current.span.end) /\ c.current \in Requests
        BY <2>1, <3>4 DEF BatchRight
      <4>2. c.current.span.end \in 1..(NumBlocks + 1)
        BY <4>1 DEF Requests, Spans
      <4>3. QED  BY <3>4, <4>1, <4>2
    <3>5. CASE c.mode = "done"
      BY <2>1, <3>1, <3>5 DEF BatchRight
    <3>6. c.mode \in Modes
      BY DEF Coroutines
    <3>7. QED  BY <3>2, <3>3, <3>4, <3>5, <3>6 DEF Modes
  <2>3. PICK gs \in Seq(Gradients) : gs = c.grads
    BY DEF Coroutines
  <2>4. Len(gs) = NumBlocks + 1 - block /\ \A i \in 1..Len(gs) : gs[i] = Gradient(i)
    BY <2>2, <2>3 DEF GradsDownTo
  <2>5. \A i \in DOMAIN gs : i <= NumBlocks /\ gs[i] = Gradient(i)
    <3>1. DOMAIN gs = 1..Len(gs)
      BY LenProperties
    <3>2. Len(gs) <= NumBlocks
      BY <2>4
    <3>3. QED  BY <2>4, <3>1, <3>2
  <2>6. c.mode = "done" => Len(gs) = NumBlocks
    BY <2>2, <2>4
  <2>7. c.mode = "forwarded" => c.inputs = WholePass
    BY <2>1 DEF BatchRight
  <2>8. QED  BY <2>1, <2>3, <2>5, <2>6, <2>7
<1>2. QED  BY <1>1, InvariantHolds, PTL


-----------------------------------------------------------------------------
(* The inference graph                                                     *)

(* The four kinds of edges of _build_inference_graph.                      *)
EntryEdges(start) == {<< <<None, start>>, <<s.peer, start>> >> : s \in spans[start]}
ExitEdges(end) == {<< <<s.peer, end>>, <<None, end>> >> : s \in spans[end - 1]}
SwitchEdges(i) == {<< <<s.peer, i>>, <<t.peer, i>> >> : s \in {r \in spans[i - 1] : r.end = i}, t \in spans[i]}
StayEdges(i) == {<< <<s.peer, i>>, <<s.peer, i + 1>> >> : s \in spans[i]}

\* These are all edges.
LEMMA EdgeKinds ==
  ASSUME NEW start, NEW end
  PROVE  Edges(start, end) = EntryEdges(start) \cup ExitEdges(end)
                               \cup (UNION {SwitchEdges(i) : i \in (start + 1)..(end - 1)})
                               \cup (UNION {StayEdges(i) : i \in start..(end - 1)})
BY DEF Edges, EntryEdges, ExitEdges, SwitchEdges, StayEdges

\* A server of a block leads the search on: along it to the next block,
LEMMA LeadsAlong ==
  ASSUME NEW start, NEW end, NEW i \in start..(end - 1), NEW s \in spans[i]
  PROVE  \E f \in Edges(start, end) : f[1] = <<s.peer, i>>
<1>1. << <<s.peer, i>>, <<s.peer, i + 1>> >> \in StayEdges(i)
  BY DEF StayEdges
<1>2. << <<s.peer, i>>, <<s.peer, i + 1>> >> \in Edges(start, end)
  BY <1>1, EdgeKinds
<1>3. QED  BY <1>2

\* ... or out of the window after the last.
LEMMA LeadsOut ==
  ASSUME NEW start, NEW end, NEW s \in spans[end - 1]
  PROVE  \E f \in Edges(start, end) : f[1] = <<s.peer, end>>
<1>1. << <<s.peer, end>>, <<None, end>> >> \in ExitEdges(end)
  BY DEF ExitEdges
<1>2. << <<s.peer, end>>, <<None, end>> >> \in Edges(start, end)
  BY <1>1, EdgeKinds
<1>3. QED  BY <1>2

\* Where an edge leads.
LEMMA EdgeEnds ==
  ASSUME NEW start, NEW end, NEW e \in Edges(start, end), e[2] # <<None, end>>
  PROVE  \/ \E s \in spans[start] : e[2] = <<s.peer, start>>
         \/ \E i \in (start + 1)..(end - 1) : \E t \in spans[i] : e[2] = <<t.peer, i>>
         \/ \E i \in start..(end - 1) : \E s \in spans[i] : e[2] = <<s.peer, i + 1>>
<1>1. CASE e \in EntryEdges(start)
  BY <1>1 DEF EntryEdges
<1>2. CASE e \in ExitEdges(end)
  BY <1>2 DEF ExitEdges
<1>3. ASSUME NEW i \in (start + 1)..(end - 1), e \in SwitchEdges(i)
      PROVE  \E t \in spans[i] : e[2] = <<t.peer, i>>
  BY <1>3 DEF SwitchEdges
<1>4. ASSUME NEW i \in start..(end - 1), e \in StayEdges(i)
      PROVE  \E s \in spans[i] : e[2] = <<s.peer, i + 1>>
  BY <1>4 DEF StayEdges
<1>5. \/ e \in EntryEdges(start) \/ e \in ExitEdges(end)
      \/ \E i \in (start + 1)..(end - 1) : e \in SwitchEdges(i)
      \/ \E i \in start..(end - 1) : e \in StayEdges(i)
  BY EdgeKinds
<1>6. QED  BY <1>1, <1>2, <1>3, <1>4, <1>5

\* When every block of a window has a server, a search of the inference graph
\* (_build_inference_graph) cannot get stuck, whatever updates, bans and moved servers
\* have made of the table.
THEOREM SearchNeverStuck == Spec => []NoDeadEnds
<1>1. IInv => NoDeadEnds
  <2> SUFFICES ASSUME IInv, NEW start \in Blocks, NEW end \in (start + 1)..(NumBlocks + 1),
                      \A b \in start..(end - 1) : spans[b] # {},
                      NEW e \in Edges(start, end), e[2] # <<None, end>>
               PROVE  \E f \in Edges(start, end) : f[1] = e[2]
    BY DEF NoDeadEnds
  <2>1. PICK S \in SUBSET Spans : \A b \in Blocks : spans[b] = {s \in S : s.start <= b /\ b < s.end}
    BY DEF IInv, TableInv
  <2>2. \A i \in start..(end - 1) : i \in Blocks
    BY DEF Blocks
  <2>3. \A i \in start..(end - 1) : \A s \in spans[i] : \E f \in Edges(start, end) : f[1] = <<s.peer, i>>
    BY LeadsAlong, ZenonT(30)
  <2>4. CASE \E s \in spans[start] : e[2] = <<s.peer, start>>
    <3>1. start \in start..(end - 1)
      BY DEF Blocks
    <3>2. QED  BY <2>3, <2>4, <3>1
  <2>5. CASE \E i \in (start + 1)..(end - 1) : \E t \in spans[i] : e[2] = <<t.peer, i>>
    <3>1. \A i \in (start + 1)..(end - 1) : i \in start..(end - 1)
      BY DEF Blocks
    <3>2. QED  BY <2>3, <2>5, <3>1
  <2>6. ASSUME NEW i \in start..(end - 1), NEW s \in spans[i], e[2] = <<s.peer, i + 1>>
        PROVE  \E f \in Edges(start, end) : f[1] = e[2]
    <3>1. CASE i + 1 = end
      <4>1. end - 1 = i
        BY <3>1 DEF Blocks
      <4>2. \E f \in Edges(start, end) : f[1] = <<s.peer, end>>
        BY <4>1, LeadsOut
      <4>3. QED  BY <2>6, <3>1, <4>2
    <3>2. CASE i + 1 # end
      <4>1. PICK j \in (start + 1)..(end - 1) : j = i + 1 /\ j - 1 = i /\ j \in start..(end - 1)
        BY <3>2 DEF Blocks
      <4>2. CASE s \in spans[j]
        BY <2>3, <2>6, <4>1, <4>2
      <4>3. CASE s \notin spans[j]
        <5>1. s \in S /\ s.start <= i /\ i < s.end /\ ~(s.start <= j /\ j < s.end)
          BY <2>1, <2>2, <4>1, <4>3
        <5>2. s.start \in Int /\ s.end \in Int
          BY <5>1 DEF Spans, Blocks
        <5>3. s.end = j
          BY <4>1, <5>1, <5>2 DEF Blocks
        \* It ends here: the search goes over to any server of the next block.
        <5>4. PICK t \in spans[j] : TRUE
          BY <4>1
        <5>5. \E f \in Edges(start, end) : f[1] = <<s.peer, j>>
          <6>1. s \in spans[j - 1]
            BY <4>1
          <6>2. j \in (start + 1)..(end - 1) /\ t \in spans[j]
            BY <4>1, <5>4
          <6>3. << <<s.peer, j>>, <<t.peer, j>> >> \in SwitchEdges(j)
            BY <5>3, <6>1, <6>2 DEF SwitchEdges
          <6>4. << <<s.peer, j>>, <<t.peer, j>> >> \in Edges(start, end)
            BY <6>2, <6>3, EdgeKinds
          <6>5. QED  BY <6>4
        <5>6. QED  BY <2>6, <4>1, <5>5
      <4>4. QED  BY <4>2, <4>3
    <3>3. QED  BY <3>1, <3>2
  <2>7. QED  BY <2>4, <2>5, <2>6, EdgeEnds
<1>2. QED  BY <1>1, InvariantHolds, PTL


=============================================================================
