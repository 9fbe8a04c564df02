-------------------------- MODULE DiskCacheProofs --------------------------
(***************************************************************************)
(* Proofs about DiskCache for every set of servers and files, all sizes of *)
(* the files, every limit and volume, and any number of faults.            *)
(***************************************************************************)
EXTENDS DiskCache, FiniteSetTheorems, TLAPS

USE DiskAssumption

-----------------------------------------------------------------------------
(* The inductive invariants                                                *)

Throughput == {"throughput", "measure", "truncate", "dump", "measured"}
Writing == {"size", "remove", "contents", "get"}
Loading == {"read", "lookup", "load", "write", "sleep"} \cup Writing
PcStates == Throughput \cup Loading
              \cup {"index", "openindex", "next", "fill", "adapters", "done", "failed"}

PurgeTypes ==
    [files : SUBSET Files, victim : Files \cup {NoFile}, freed : Nat, needed : Nat, blind : BOOLEAN]

DiskTypes ==
    /\ links \subseteq Files /\ blobs \subseteq Blobs /\ unchecked \cup misled \subseteq blobs
    /\ shared \subseteq Procs /\ exclusive \subseteq Procs
    /\ purge \in PurgeTypes

ProcTypes ==
    /\ pc \in [Procs -> PcStates]
    /\ todo \in [Procs -> SUBSET Files]
    /\ file \in [Procs -> Files \cup {NoFile}]
    /\ \A p \in Procs : pc[p] \in Loading => file[p] \in Files

ThroughputTypes ==
    /\ tlock \subseteq Procs /\ tfile \subseteq Keys
    /\ tcache \in [Procs -> SUBSET Keys]
    /\ measured \in [Keys -> Nat]
    /\ crashes \in Nat /\ faults \in Nat /\ unsaved \in Nat

(* blocks.lock is held by readers, or by one writer; who looks a file up   *)
(* reads, who makes room and downloads writes, who loads does either.      *)
LockInv ==
    /\ exclusive # {} => shared = {}
    /\ \A p, q \in exclusive : p = q
    /\ \A p \in Procs :
         /\ p \in shared => pc[p] \in {"lookup", "load"}
         /\ p \in exclusive => pc[p] \in Writing \cup {"load"}
         /\ pc[p] = "lookup" => p \in shared
         /\ pc[p] = "load" => p \in shared \cup exclusive
         /\ pc[p] \in Writing => p \in exclusive

Inv == DiskTypes /\ ProcTypes /\ ThroughputTypes /\ LockInv /\ FilesStayWhileLoaded

(* Of the contents that snapshots link, those that count.                  *)
Counted == LinkedBlobs \ (unchecked \cup misled)

(* While files are removed: what counts, and what is still to be removed.  *)
Purged(p) == purge.files \cup (IF pc[p] = "contents" THEN {purge.victim} ELSE {})
Removable(p) ==
    Counted \cup {b \in blobs : \E f \in Purged(p) : b = BlobOf[f]}

(* The file a server makes room for fits in the limit, with what is not    *)
(* removed yet and what need not be, if it has a size and the look at the  *)
(* space missed nothing.                                                   *)
RoomFor(p) ==
    /\ pc[p] = "get" /\ file[p] \notin setup.unsized /\ ~purge.blind =>
         Space(Counted) + RequiredSize(p) <= MaxDisk
    /\ pc[p] \in {"remove", "contents"} =>
         /\ purge.files \subseteq links
         /\ IndexFile \in Purged(p) => BlobOf[IndexFile] \in blobs
         /\ ~purge.blind =>
              Space(Removable(p)) + purge.freed + RequiredSize(p) <= MaxDisk + purge.needed
    /\ pc[p] = "contents" => purge.victim \in Files \ purge.files

LimitInv == Space(Counted) <= MaxDisk /\ \A p \in Procs : RoomFor(p)

(* No other file has the contents of the index.                            *)
IndexAlone == \A f \in Files \ {IndexFile} : BlobOf[f] # BlobOf[IndexFile]

(* Who knows a key: the server that rewrites the file, else the file.      *)
Rewriting == {p \in Procs : pc[p] \in {"truncate", "dump"}}
Known(k) == IF Rewriting = {} THEN k \in tfile ELSE \E p \in Rewriting : k \in tcache[p]

(* Servers told to evaluate that have done so since they were started.     *)
Evaluated == {p \in Forced : pc[p] \notin {"throughput", "measure"}}

TlockInv ==
    \A p \in Procs :
      /\ pc[p] \in Throughput \ {"throughput"} => tlock = {p}
      /\ p \in tlock => pc[p] \in Throughput \ {"throughput"}
      /\ pc[p] = "measure" /\ p \notin Forced =>
           tcache[p] = tfile /\ KeyOf[p] \notin tfile

MeasuredInv ==
    /\ TlockInv
    /\ \A k \in Keys :
         measured[k] <= crashes + unsaved + (IF Forced = {} THEN 0 ELSE crashes)
                          + Cardinality(Evaluated) + (IF Known(k) THEN 1 ELSE 0)

-----------------------------------------------------------------------------
(* Types, locks and files                                                  *)

\* Before anything is downloaded.
LEMMA InitInv == Init => Inv
<1> SUFFICES ASSUME Init PROVE Inv
    OBVIOUS
<1>1. DiskTypes
    BY DEF Init, DiskTypes, Blobs, NoPurge, PurgeTypes
<1>2. ProcTypes
    BY DEF Init, ProcTypes, PcStates, Throughput, Loading, Writing
<1>3. ThroughputTypes
    BY DEF Init, ThroughputTypes
<1>4. LockInv
    BY DEF Init, LockInv, Writing
<1>5. FilesStayWhileLoaded
    BY DEF Init, FilesStayWhileLoaded
<1>6. QED  BY <1>1, <1>2, <1>3, <1>4, <1>5 DEF Inv

(* A server goes on to its next step, and keeps the locks that this step   *)
(* needs.                                                                  *)
LEMMA MoveKeepsLocks ==
    ASSUME Inv, NEW p \in Procs, NEW step, Goto(p, step), UNCHANGED lockVars,
           p \in shared => step \in {"lookup", "load"},
           p \in exclusive => step \in Writing \cup {"load"},
           step = "lookup" => p \in shared,
           step = "load" => p \in shared \cup exclusive,
           step \in Writing => p \in exclusive
    PROVE  LockInv'
<1>1. \A q \in Procs : pc'[q] = IF q = p THEN step ELSE pc[q]
    BY DEF Goto, Inv, ProcTypes
<1>2. QED  BY <1>1 DEF lockVars, Inv, LockInv

(* It drops its lock, for a step that needs none.                          *)
LEMMA UnlockKeepsLocks ==
    ASSUME Inv, NEW p \in Procs, NEW step, Goto(p, step), Unlock(p),
           step \notin {"lookup", "load"} \cup Writing
    PROVE  LockInv'
<1>1. \A q \in Procs : pc'[q] = IF q = p THEN step ELSE pc[q]
    BY DEF Goto, Inv, ProcTypes
<1>2. /\ shared' = shared \ {p} /\ exclusive' = exclusive \ {p}
      /\ DiskTypes /\ LockInv
    BY DEF Unlock, Inv
<1>3. QED  BY <1>1, <1>2 DEF LockInv

(* What is left to show for a step of one server.                          *)
LEMMA StepKeepsInv ==
    ASSUME Inv, NEW p \in Procs, NEW step \in PcStates, Goto(p, step),
           DiskTypes', ThroughputTypes', LockInv',
           todo' \in [Procs -> SUBSET Files],
           file' \in [Procs -> Files \cup {NoFile}],
           \A q \in Procs : q # p => file'[q] = file[q],
           step \in Loading => file'[p] \in Files,
           step = "load" => IsCached(file[p])',
           \A q \in Procs : q # p /\ pc[q] = "load" /\ IsCached(file[q]) => IsCached(file[q])'
    PROVE  Inv'
<1>1. pc' \in [Procs -> PcStates] /\ \A q \in Procs : pc'[q] = IF q = p THEN step ELSE pc[q]
    BY DEF Goto, Inv, ProcTypes
<1>2. ProcTypes'
    BY <1>1 DEF Inv, ProcTypes
<1>3. FilesStayWhileLoaded'
    BY <1>1 DEF Inv, FilesStayWhileLoaded
<1>4. QED  BY <1>2, <1>3 DEF Inv

(* The cache directory is left alone.                                      *)
LEMMA QuietStepKeepsInv ==
    ASSUME Inv, NEW p \in Procs, NEW step \in PcStates, Goto(p, step), UNCHANGED cacheVars,
           purge' \in PurgeTypes,
           ThroughputTypes', LockInv', shared' \subseteq Procs, exclusive' \subseteq Procs,
           todo' \in [Procs -> SUBSET Files], UNCHANGED file,
           step \in Loading => file[p] \in Files,
           step = "load" => IsCached(file[p])
    PROVE  Inv'
<1>1. DiskTypes'
    BY DEF Inv, DiskTypes, cacheVars
<1>2. \A q \in Procs : IsCached(file[q]) => IsCached(file[q])'
    BY DEF IsCached, cacheVars
<1>3. QED  BY <1>1, <1>2, StepKeepsInv DEF Inv, ProcTypes

\* The steps around throughput.json: no file of a model is touched.
LEMMA ThroughputKeepsInv ==
    ASSUME Inv, NEW p \in Procs,
           \/ ReadThroughput(p) \/ Measure(p) \/ Truncate(p) \/ Dump(p) \/ LeaveThroughput(p)
    PROVE  Inv'
<1>1. UNCHANGED <<cacheVars, lockVars, todo, file, purge, crashes>> /\ pc[p] \in Throughput
    BY DEF ReadThroughput, Measure, Truncate, Dump, LeaveThroughput, Throughput
<1>2. PICK step \in Throughput \cup {"index"} : Goto(p, step)
    BY DEF ReadThroughput, Measure, Truncate, Dump, LeaveThroughput, SaveFails, Throughput
<1>3. ThroughputTypes /\ KeyOf[p] \in Keys
    BY DEF Inv, Keys
<1>4. /\ tlock' \subseteq Procs /\ tfile' \subseteq Keys /\ tcache' \in [Procs -> SUBSET Keys]
      /\ measured' \in [Keys -> Nat] /\ faults' \in Nat /\ unsaved' \in Nat
    <2>1. CASE ReadThroughput(p)
        BY <1>3, <2>1 DEF ReadThroughput, ThroughputTypes
    <2>2. CASE Measure(p)
        BY <1>3, <2>2 DEF Measure, ThroughputTypes
    <2>3. CASE Truncate(p)
        BY <1>3, <2>3 DEF Truncate, SaveFails, Fault, ThroughputTypes
    <2>4. CASE Dump(p)
        BY <1>3, <2>4 DEF Dump, SaveFails, Fault, ThroughputTypes
    <2>5. CASE LeaveThroughput(p)
        BY <1>3, <2>5 DEF LeaveThroughput, ThroughputTypes
    <2>6. QED  BY <2>1, <2>2, <2>3, <2>4, <2>5
<1>5. ThroughputTypes'
    BY <1>1, <1>3, <1>4 DEF ThroughputTypes
<1>6. p \notin shared /\ p \notin exclusive /\ step \notin {"lookup", "load"} \cup Writing
    BY <1>1, <1>2 DEF Inv, LockInv, Throughput, Writing
<1>7. LockInv'
    BY <1>1, <1>2, <1>6, MoveKeepsLocks
<1>8. step \in PcStates /\ step \notin Loading
    BY <1>2 DEF PcStates, Throughput, Loading, Writing
<1>9. /\ shared' \subseteq Procs /\ exclusive' \subseteq Procs /\ todo' \in [Procs -> SUBSET Files]
      /\ purge' \in PurgeTypes
    BY <1>1 DEF Inv, DiskTypes, ProcTypes, lockVars
<1>10. UNCHANGED <<cacheVars, file>>
    BY <1>1
<1>11. QED  BY <1>2, <1>5, <1>6, <1>7, <1>8, <1>9, <1>10, QuietStepKeepsInv

(* What the actions below have in common                                   *)
LEMMA TypesStay ==
    ASSUME Inv, UNCHANGED tputVars, UNCHANGED crashes, faults' = faults \/ Fault
    PROVE  ThroughputTypes'
BY DEF Inv, ThroughputTypes, tputVars, Fault

\* A lock that is given back stays a lock of processes.
LEMMA UnlockTypes ==
    ASSUME Inv, NEW p, UNCHANGED lockVars \/ Unlock(p)
    PROVE  shared' \subseteq Procs /\ exclusive' \subseteq Procs
BY DEF Inv, DiskTypes, lockVars, Unlock

(* The steps between the downloads: no file is touched.                    *)
LEMMA LoopKeepsInv ==
    ASSUME Inv, NEW p \in Procs, FindWeights(p) \/ OpenIndex(p) \/ FillBlock(p) \/ WakeUp(p)
    PROVE  Inv'
<1>1. /\ UNCHANGED <<cacheVars, lockVars, file, purge, tputVars, crashes>>
      /\ faults' = faults \/ Fault
      /\ pc[p] \in {"index", "openindex", "fill", "sleep"}
    BY DEF FindWeights, OpenIndex, FillBlock, WakeUp
<1>2. PICK step \in {"next", "failed", "adapters", "write"} :
         Goto(p, step) /\ (step = "write" => pc[p] = "sleep")
    BY DEF FindWeights, OpenIndex, FillBlock, WakeUp
<1>3. todo' \in [Procs -> SUBSET Files]
    BY DEF FindWeights, OpenIndex, FillBlock, WakeUp, Inv, ProcTypes
<1>4. ThroughputTypes'
    BY <1>1, TypesStay
<1>5. p \notin shared /\ p \notin exclusive
    BY <1>1 DEF Inv, LockInv, Writing
<1>6. LockInv'
    BY <1>1, <1>2, <1>5, MoveKeepsLocks DEF Writing
<1>7. step \in PcStates /\ (step \in Loading => file[p] \in Files)
    BY <1>1, <1>2 DEF PcStates, Loading, Writing, Inv, ProcTypes
<1>8. shared' \subseteq Procs /\ exclusive' \subseteq Procs
    BY <1>1, UnlockTypes
<1>9. purge' \in PurgeTypes
    BY <1>1 DEF Inv, DiskTypes
<1>10. UNCHANGED <<cacheVars, file>> /\ step # "load"
    BY <1>1, <1>2
<1>11. QED  BY <1>2, <1>3, <1>4, <1>6, <1>7, <1>8, <1>9, <1>10, QuietStepKeepsInv

\* The next file, or the next block when there is none.
LEMMA NextFileKeepsInv ==
    ASSUME Inv, NEW p \in Procs, NextFile(p)
    PROVE  Inv'
<1>1. /\ UNCHANGED <<cacheVars, lockVars, purge, tputVars, faults, crashes>>
      /\ pc[p] \in {"next", "adapters"}
    BY DEF NextFile
<1>2. PICK step \in {"fill", "done", "read"} :
         Goto(p, step) /\ (step = "read" => \E f \in todo[p] : file' = [file EXCEPT ![p] = f])
                       /\ (step # "read" => file' = file)
    BY DEF NextFile
<1>3. todo' \in [Procs -> SUBSET Files] /\ todo[p] \subseteq Files
    BY DEF NextFile, Inv, ProcTypes
<1>4. /\ file' \in [Procs -> Files \cup {NoFile}]
      /\ \A q \in Procs : q # p => file'[q] = file[q]
      /\ step \in Loading => file'[p] \in Files
    BY <1>2, <1>3 DEF Inv, ProcTypes, Loading, Writing
<1>5. ThroughputTypes'
    BY <1>1, TypesStay
<1>6. p \notin shared /\ p \notin exclusive
    BY <1>1 DEF Inv, LockInv, Writing
<1>7. LockInv'
    BY <1>1, <1>2, <1>6, MoveKeepsLocks DEF Writing
<1>8. DiskTypes'
    BY <1>1 DEF Inv, DiskTypes, cacheVars, lockVars
<1>9. step \in PcStates /\ step # "load"
    BY <1>2 DEF PcStates, Loading, Writing
<1>10. \A q \in Procs : q # p /\ IsCached(file[q]) => IsCached(file[q])'
    BY <1>1, <1>4 DEF IsCached, cacheVars
<1>11. QED  BY <1>2, <1>3, <1>4, <1>5, <1>7, <1>8, <1>9, <1>10, StepKeepsInv

(* Locks are taken, kept and dropped around the look into the cache.       *)
LEMMA LookupKeepsInv ==
    ASSUME Inv, NEW p \in Procs, Lookup(p) \/ StartWriting(p) \/ FindLocally(p) \/ Load(p)
    PROVE  Inv'
<1>1. /\ UNCHANGED <<cacheVars, todo, file, purge, tputVars, faults, crashes>>
      /\ pc[p] \in {"read", "write", "lookup", "load"}
    BY DEF Lookup, StartWriting, FindLocally, Load
<1>2. PICK step \in {"lookup", "size", "load", "write", "sleep", "adapters", "next"} : Goto(p, step)
    BY DEF Lookup, StartWriting, FindLocally, Load
<1>3. pc' = [pc EXCEPT ![p] = step] /\ pc'[p] = step
    BY <1>2 DEF Goto, Inv, ProcTypes
<1>4. LockInv' /\ shared' \subseteq Procs /\ exclusive' \subseteq Procs /\ (step = "load" => IsCached(file[p]))
    <2>0. \A q \in Procs : pc'[q] = IF q = p THEN step ELSE pc[q]
        BY <1>3 DEF Inv, ProcTypes
    <2>1. CASE Lookup(p)
        <3>1. step = "lookup"
            BY <1>3, <2>1 DEF Lookup, Goto, Inv, ProcTypes
        <3>2. exclusive = {} /\ shared' = shared \cup {p} /\ exclusive' = exclusive
            BY <2>1 DEF Lookup, AllowCacheReads
        <3>3. LockInv'
            BY <2>0, <3>1, <3>2 DEF Inv, LockInv, Writing
        <3>4. QED  BY <3>1, <3>2, <3>3 DEF Inv, DiskTypes
    <2>2. CASE StartWriting(p)
        <3>1. step = "size"
            BY <1>3, <2>2 DEF StartWriting, Goto, Inv, ProcTypes
        <3>2. exclusive = {} /\ shared = {} /\ shared' = shared /\ exclusive' = {p}
            BY <2>2 DEF StartWriting, AllowCacheWrites
        <3>3. LockInv'
            BY <2>0, <3>1, <3>2 DEF Inv, LockInv, Writing
        <3>4. QED  BY <3>1, <3>2, <3>3 DEF Inv, DiskTypes
    <2>3. CASE FindLocally(p)
        <3>1. p \in shared /\ p \notin exclusive
            BY <2>3 DEF FindLocally, Inv, LockInv
        <3>2. CASE IsCached(file[p])
            <4>1. step = "load" /\ UNCHANGED lockVars
                BY <1>3, <2>3, <3>2 DEF FindLocally, Goto, Inv, ProcTypes
            <4>2. LockInv'
                BY <1>2, <3>1, <4>1, MoveKeepsLocks DEF Writing
            <4>3. QED  BY <3>2, <4>1, <4>2, UnlockTypes
        <3>3. CASE ~IsCached(file[p])
            <4>1. step = "write" /\ Unlock(p)
                BY <1>3, <2>3, <3>3 DEF FindLocally, Goto, Inv, ProcTypes
            <4>2. LockInv'
                BY <1>2, <4>1, UnlockKeepsLocks DEF Writing
            <4>3. QED  BY <4>1, <4>2, UnlockTypes
        <3>4. QED  BY <3>2, <3>3
    <2>4. CASE Load(p)
        <3>1. step \in {"sleep", "write", "adapters", "next"} /\ Unlock(p)
            BY <1>3, <2>4 DEF Load, Goto, Inv, ProcTypes
        <3>2. LockInv'
            BY <1>2, <3>1, UnlockKeepsLocks DEF Writing
        <3>3. QED  BY <3>1, <3>2, UnlockTypes
    <2>5. QED  BY <2>1, <2>2, <2>3, <2>4
<1>5. ThroughputTypes'
    BY <1>1, TypesStay
<1>6. step \in PcStates /\ file[p] \in Files
    BY <1>1, <1>2 DEF PcStates, Loading, Writing, Inv, ProcTypes
<1>7. todo' \in [Procs -> SUBSET Files]
    BY <1>1 DEF Inv, ProcTypes
<1>8. purge' \in PurgeTypes
    BY <1>1 DEF Inv, DiskTypes
<1>9. UNCHANGED <<cacheVars, file>>
    BY <1>1
<1>10. QED  BY <1>2, <1>4, <1>5, <1>6, <1>7, <1>8, <1>9, QuietStepKeepsInv

-----------------------------------------------------------------------------
(* The space that contents take                                            *)

\* There are finitely many blobs, since each belongs to a file.
LEMMA BlobsFinite == IsFiniteSet(Blobs)
<1> DEFINE f == [x \in Files |-> BlobOf[x]]
<1>1. f \in Surjection(Files, Blobs)
    BY DEF Surjection, Blobs
<1>2. QED  BY <1>1, FS_Surjection

\* The space that blobs take is a number.
LEMMA SpaceType ==
    ASSUME NEW bs \in SUBSET Blobs
    PROVE  IsFiniteSet(Units(bs)) /\ Space(bs) \in Nat
<1> DEFINE own(b) == {b} \X (1 .. Size[b])
           parts == {own(b) : b \in bs}
           f == [b \in bs |-> own(b)]
<1>1. IsFiniteSet(bs)
    BY BlobsFinite, FS_Subset
<1>2. f \in Surjection(bs, parts)
    BY DEF Surjection
<1>3. IsFiniteSet(parts)
    <2> HIDE DEF parts, f
    <2>1. QED  BY <1>1, <1>2, FS_Surjection
<1>4. \A t \in parts : IsFiniteSet(t)
    <2> TAKE t \in parts
    <2>1. PICK b \in bs : t = {b} \X (1 .. Size[b])
        OBVIOUS
    <2>2. IsFiniteSet({b}) /\ Size[b] \in Nat
        BY FS_Singleton
    <2>3. IsFiniteSet(1 .. Size[b])
        BY <2>2, FS_Interval
    <2>4. QED  BY <2>1, <2>2, <2>3, FS_Product
<1>5. Units(bs) = UNION parts
    BY DEF Units
<1>6. IsFiniteSet(Units(bs))
    <2> HIDE DEF parts
    <2>1. QED  BY <1>3, <1>4, <1>5, FS_UNION
<1>7. QED  BY <1>6, FS_CardinalityType DEF Space

(* More contents take more space,                                          *)
LEMMA SpaceGrows ==
    ASSUME NEW bs \in SUBSET Blobs, NEW cs \in SUBSET bs
    PROVE  Space(cs) <= Space(bs)
<1>1. Units(cs) \subseteq Units(bs)
    BY DEF Units
<1>2. QED  BY <1>1, SpaceType, FS_Subset DEF Space

(* by the size of what is added.                                           *)
LEMMA SpaceAdd ==
    ASSUME NEW bs \in SUBSET Blobs, NEW b \in Blobs, b \notin bs
    PROVE  Space(bs \cup {b}) = Space(bs) + Size[b]
<1> DEFINE own == {b} \X (1 .. Size[b])
<1>1. Units(bs \cup {b}) = Units(bs) \cup own
    BY DEF Units
<1>2. Units(bs) \cap own = {}
    BY DEF Units
<1>3. Size[b] \in Nat /\ IsFiniteSet({b}) /\ Cardinality({b}) = 1
    BY FS_Singleton
<1>4. IsFiniteSet(1 .. Size[b]) /\ Cardinality(1 .. Size[b]) = Size[b]
    <2>1. \A n \in Nat : IsFiniteSet(1 .. n) /\ Cardinality(1 .. n) = n
        BY FS_Interval
    <2>2. QED  BY <1>3, <2>1
<1>5. IsFiniteSet(own) /\ Cardinality(own) = 1 * Size[b]
    BY <1>3, <1>4, FS_Product
<1> HIDE DEF own
<1>6. IsFiniteSet(Units(bs)) /\ Cardinality(Units(bs)) \in Nat
    BY SpaceType DEF Space
<1>7. Cardinality(Units(bs) \cup own) = Cardinality(Units(bs)) + Cardinality(own) - Cardinality(Units(bs) \cap own)
    BY <1>5, <1>6, FS_Union
<1>8. Cardinality(Units(bs) \cap own) = 0
    BY <1>2, FS_EmptySet
<1>9. Cardinality(Units(bs) \cup own) = Cardinality(Units(bs)) + Size[b]
    BY <1>3, <1>5, <1>6, <1>7, <1>8
<1>10. QED  BY <1>1, <1>9 DEF Space

\* A blob that goes gives its size back.
LEMMA SpaceRemove ==
    ASSUME NEW bs \in SUBSET Blobs, NEW b \in bs
    PROVE  Space(bs \ {b}) = Space(bs) - Size[b]
<1>1. (bs \ {b}) \cup {b} = bs
    OBVIOUS
<1>2. Space(bs) = Space(bs \ {b}) + Size[b]
    BY <1>1, SpaceAdd
<1>3. Size[b] \in Nat /\ Space(bs \ {b}) \in Nat
    BY SpaceType
<1>4. QED  BY <1>2, <1>3

(* What is linked is there, and what is there can be measured.             *)
LEMMA LinkedFacts ==
    ASSUME DiskTypes
    PROVE  /\ LinkedBlobs \subseteq blobs /\ LinkedBlobs \subseteq Blobs /\ Counted \subseteq LinkedBlobs
           /\ Space(LinkedBlobs) \in Nat /\ Space(Counted) \in Nat /\ Space(blobs) \in Nat
<1>1. LinkedBlobs \subseteq blobs /\ LinkedBlobs \subseteq Blobs /\ Counted \subseteq LinkedBlobs
    BY DEF LinkedBlobs, Linked, Counted, DiskTypes
<1>2. QED  BY <1>1, SpaceType DEF DiskTypes

\* The size a download asks for is the size of its blob.
LEMMA SizeType ==
    ASSUME NEW p \in Procs, file[p] \in Files
    PROVE  RequiredSize(p) \in Nat /\ BlobOf[file[p]] \in Blobs /\ RequiredSize(p) = Size[BlobOf[file[p]]]
BY DEF RequiredSize, Blobs

(* The room that free_disk_space_for sees is at most what the limit        *)
(* leaves, if no repository is hidden.                                     *)
LEMMA AvailableFacts ==
    ASSUME DiskTypes, NEW others \in Nat
    PROVE  /\ AvailableSpace(others) \in Int
           /\ Scanned = Linked => AvailableSpace(others) <= MaxDisk - Space(LinkedBlobs)
<1>1. Scanned = Linked => ScannedSpace = Space(LinkedBlobs)
    BY DEF ScannedSpace, LinkedBlobs
<1>2. {BlobOf[f] : f \in Scanned} \in SUBSET Blobs
    BY DEF Scanned, Blobs, DiskTypes
<1>3. DiskSize - others - Space(blobs) \in Int /\ MaxDisk - ScannedSpace \in Int
    BY <1>2, SpaceType, LinkedFacts DEF ScannedSpace
<1>4. QED  BY <1>1, <1>3 DEF AvailableSpace, Minimum

-----------------------------------------------------------------------------
(* Downloads and removals                                                  *)

\* No purge is under way.
LEMMA NoPurgeType == NoPurge \in PurgeTypes
BY DEF NoPurge, PurgeTypes

(* free_disk_space_for begins, with the exclusive lock.                    *)
LEMMA FreeDiskSpaceFacts ==
    ASSUME Inv, NEW p \in Procs, FreeDiskSpace(p)
    PROVE  /\ pc[p] = "size" /\ UNCHANGED <<cacheVars, todo, file, tputVars, crashes>>
           /\ faults' = faults \/ Fault
           /\ \/ Goto(p, "sleep") /\ Unlock(p) /\ purge' = NoPurge
              \/ /\ Goto(p, "get") /\ UNCHANGED lockVars /\ purge' \in PurgeTypes
                 /\ \/ file[p] \in setup.unsized
                    \/ purge'.blind
                    \/ Space(LinkedBlobs) + RequiredSize(p) <= MaxDisk
              \/ /\ Goto(p, "remove") /\ UNCHANGED lockVars /\ purge' \in PurgeTypes
                 /\ purge'.files = Scanned /\ purge'.freed = 0
                 /\ \/ purge'.blind
                    \/ Space(LinkedBlobs) + RequiredSize(p) <= MaxDisk + purge'.needed
<1>1. /\ pc[p] = "size" /\ UNCHANGED <<cacheVars, todo, file, tputVars, crashes>>
      /\ faults' = faults \/ Fault
    BY DEF FreeDiskSpace
<1>2. DiskTypes /\ file[p] \in Files /\ purge \in PurgeTypes
    BY <1>1 DEF Inv, DiskTypes, ProcTypes, Loading, Writing
<1>3. RequiredSize(p) \in Nat /\ Space(LinkedBlobs) \in Nat
    BY <1>2, SizeType, LinkedFacts
<1>4. CASE Fault /\ Retry(p)
    BY <1>1, <1>4 DEF Retry
<1>5. CASE SizeUnknown(p)
    BY <1>1, <1>2, <1>5 DEF SizeUnknown, Retry
<1>6. ASSUME NEW others \in {0, DiskSize},
             LET size == RequiredSize(p)
                 available == AvailableSpace(others)
                 look == [NoPurge EXCEPT !.blind = Scanned # Linked]
             IN /\ \/ size <= available /\ Goto(p, "get") /\ purge' = look
                   \/ /\ size > available /\ Goto(p, "remove")
                      /\ purge' = [look EXCEPT !.files = Scanned, !.needed = size - available]
                /\ UNCHANGED lockVars
      PROVE  \/ /\ Goto(p, "get") /\ UNCHANGED lockVars /\ purge' \in PurgeTypes
                /\ \/ purge'.blind
                   \/ Space(LinkedBlobs) + RequiredSize(p) <= MaxDisk
             \/ /\ Goto(p, "remove") /\ UNCHANGED lockVars /\ purge' \in PurgeTypes
                /\ purge'.files = Scanned /\ purge'.freed = 0
                /\ \/ purge'.blind
                   \/ Space(LinkedBlobs) + RequiredSize(p) <= MaxDisk + purge'.needed
    <2> DEFINE size == RequiredSize(p)
               available == AvailableSpace(others)
               blind == Scanned # Linked
               linked == Space(LinkedBlobs)
    <2>1. available \in Int /\ (~blind => available <= MaxDisk - linked) /\ size \in Nat /\ linked \in Nat
        BY <1>2, <1>3, AvailableFacts
    <2>2. CASE size <= available /\ Goto(p, "get") /\ purge' = [NoPurge EXCEPT !.blind = blind]
        <3>1. UNCHANGED lockVars
            BY <1>6
        <3>2. purge' \in PurgeTypes /\ purge'.blind = blind
            BY <2>2 DEF NoPurge, PurgeTypes
        <3> HIDE DEF size, available, blind, linked
        <3>3. blind \/ linked + size <= MaxDisk
            BY <2>1, <2>2
        <3>4. QED  BY <2>2, <3>1, <3>2, <3>3 DEF size, linked
    <2>3. CASE /\ size > available /\ Goto(p, "remove")
               /\ purge' = [[NoPurge EXCEPT !.blind = blind]
                              EXCEPT !.files = Scanned, !.needed = size - available]
        <3>1. UNCHANGED lockVars
            BY <1>6
        <3>2. purge' = [files |-> Scanned, victim |-> NoFile, freed |-> 0,
                        needed |-> size - available, blind |-> blind]
            BY <2>3 DEF NoPurge
        <3>3. Scanned \in SUBSET Files /\ blind \in BOOLEAN
            BY <1>2 DEF Scanned, DiskTypes
        <3> HIDE DEF size, available, blind, linked
        <3>4. size - available \in Nat /\ (blind \/ linked + size <= MaxDisk + (size - available))
            BY <2>1, <2>3
        <3>5. purge' \in PurgeTypes
            BY <3>2, <3>3, <3>4 DEF PurgeTypes
        <3>6. purge'.files = Scanned /\ purge'.freed = 0 /\ purge'.needed = size - available
              /\ purge'.blind = blind
            BY <3>2
        <3>7. QED  BY <2>3, <3>1, <3>4, <3>5, <3>6 DEF size, linked
    <2>4. QED  BY <1>6, <2>2, <2>3
<1>7. QED  BY <1>1, <1>4, <1>5, <1>6 DEF FreeDiskSpace

\* The steps of free_disk_space_for.
LEMMA FreeDiskSpaceKeepsInv ==
    ASSUME Inv, NEW p \in Procs, FreeDiskSpace(p)
    PROVE  Inv'
<1>1. /\ pc[p] = "size" /\ UNCHANGED <<cacheVars, todo, file, tputVars, crashes>>
      /\ faults' = faults \/ Fault
    BY FreeDiskSpaceFacts
<1>2. p \in exclusive /\ p \notin shared /\ file[p] \in Files
    BY <1>1 DEF Inv, LockInv, ProcTypes, Writing, Loading
<1>3. PICK step \in {"sleep", "get", "remove"} :
         /\ Goto(p, step) /\ purge' \in PurgeTypes
         /\ IF step = "sleep" THEN Unlock(p) ELSE UNCHANGED lockVars
    BY FreeDiskSpaceFacts, NoPurgeType
<1>4. LockInv'
    <2>1. CASE step = "sleep"
        BY <1>3, <2>1, UnlockKeepsLocks DEF Writing
    <2>2. CASE step # "sleep"
        BY <1>2, <1>3, <2>2, MoveKeepsLocks DEF Writing
    <2>3. QED  BY <2>1, <2>2
<1>5. ThroughputTypes'
    BY <1>1, TypesStay
<1>6. shared' \subseteq Procs /\ exclusive' \subseteq Procs
    BY <1>3, UnlockTypes
<1>7. todo' \in [Procs -> SUBSET Files] /\ UNCHANGED <<cacheVars, file>>
    BY <1>1 DEF Inv, ProcTypes
<1>8. step \in PcStates /\ step # "load"
    BY DEF PcStates, Loading, Writing
<1>9. QED  BY <1>2, <1>3, <1>4, <1>5, <1>6, <1>7, <1>8, QuietStepKeepsInv DEF PurgeTypes

(* A download keeps what is cached, and caches the file.                   *)
LEMMA DownloadFacts ==
    ASSUME DiskTypes, NEW f \in Files, NEW look, Download(f, look)
    PROVE  /\ links' \subseteq Files /\ blobs' \subseteq Blobs
           /\ unchecked' \cup misled' \subseteq blobs'
           /\ \A g : IsCached(g) => IsCached(g)'
           /\ IsCached(f)'
<1>1. CASE IsCached(f) /\ UNCHANGED cacheVars
    BY <1>1 DEF IsCached, cacheVars, DiskTypes
<1>2. CASE /\ ~IsCached(f) /\ Store(f)
           /\ unchecked' \subseteq unchecked \cup {BlobOf[f]}
           /\ misled' \subseteq misled \cup {BlobOf[f]}
    BY <1>2 DEF IsCached, Store, DiskTypes, Blobs
<1>3. QED  BY <1>1, <1>2 DEF Download

(* The steps that download: of the index, of an adapter, under the         *)
(* exclusive lock.                                                         *)
LEMMA DownloadKeepsInv ==
    ASSUME Inv, NEW p \in Procs, GetIndex(p) \/ FetchAdapter(p) \/ GetFile(p)
    PROVE  Inv'
<1>1. /\ UNCHANGED <<todo, file, tputVars, crashes>> /\ (faults' = faults \/ Fault)
      /\ purge' = purge \/ purge' = NoPurge
      /\ pc[p] \in {"index", "lookup", "get"}
    BY DEF GetIndex, FetchAdapter, GetFile, DownloadFails, Retry
<1>2. PICK step \in {"openindex", "failed", "load", "write", "sleep"} :
         /\ Goto(p, step)
         /\ step \in {"write", "sleep"} => pc[p] # "index" /\ Unlock(p) /\ UNCHANGED cacheVars
         /\ step = "failed" => pc[p] = "index" /\ UNCHANGED <<lockVars, cacheVars>>
         /\ step = "openindex" =>
              pc[p] = "index" /\ UNCHANGED lockVars /\ Download(IndexFile, "none")
         /\ step = "load" => /\ pc[p] # "index" /\ UNCHANGED lockVars
                             /\ \E look : Download(file[p], look)
    <2>1. CASE GetIndex(p)
        BY <2>1 DEF GetIndex
    <2>2. CASE FetchAdapter(p)
        BY <2>2 DEF FetchAdapter
    <2>3. CASE GetFile(p)
        BY <2>3 DEF GetFile, Retry
    <2>4. QED  BY <2>1, <2>2, <2>3
<1>3. pc[p] # "index" => file[p] \in Files
    BY <1>1 DEF Inv, ProcTypes, Loading, Writing
<1>4. /\ pc[p] = "index" => p \notin shared /\ p \notin exclusive
      /\ pc[p] = "lookup" => p \in shared /\ p \notin exclusive
      /\ pc[p] = "get" => p \in exclusive /\ p \notin shared
    BY <1>1 DEF Inv, LockInv, Writing
<1>5. LockInv'
    <2>1. CASE step \in {"write", "sleep"}
        BY <1>2, <2>1, UnlockKeepsLocks DEF Writing
    <2>2. CASE step \notin {"write", "sleep"}
        BY <1>1, <1>2, <1>4, <2>2, MoveKeepsLocks DEF Writing
    <2>3. QED  BY <2>1, <2>2
<1>6. /\ links' \subseteq Files /\ blobs' \subseteq Blobs /\ unchecked' \cup misled' \subseteq blobs'
      /\ \A g : IsCached(g) => IsCached(g)'
      /\ step = "load" => IsCached(file[p])'
    <2>0. DiskTypes
        BY DEF Inv
    <2>1. CASE UNCHANGED cacheVars /\ step # "load"
        BY <2>0, <2>1 DEF DiskTypes, cacheVars, IsCached
    <2>2. CASE step = "load"
        <3>1. PICK look : Download(file[p], look)
            BY <1>2, <2>2
        <3>2. file[p] \in Files /\ UNCHANGED file
            BY <1>1, <1>2, <1>3, <2>2
        <3>3. \A f : IsCached(f)' /\ f = file[p] => IsCached(file[p])'
            BY <3>2 DEF IsCached
        <3>4. QED  BY <2>0, <3>1, <3>2, <3>3, DownloadFacts
    <2>3. CASE step = "openindex"
        BY <1>2, <2>0, <2>3, DownloadFacts
    <2>4. QED  BY <1>2, <2>1, <2>2, <2>3
<1>7. DiskTypes'
    <2>1. shared' \subseteq Procs /\ exclusive' \subseteq Procs
        BY <1>2, UnlockTypes
    <2>2. purge' \in PurgeTypes
        BY <1>1, NoPurgeType DEF Inv, DiskTypes, PurgeTypes
    <2>3. QED  BY <1>6, <2>1, <2>2 DEF DiskTypes, PurgeTypes
<1>8. ThroughputTypes'
    BY <1>1, TypesStay
<1>9. step \in PcStates /\ (step \in Loading => file[p] \in Files)
    BY <1>2, <1>3 DEF PcStates, Loading, Writing
<1>10. /\ todo' \in [Procs -> SUBSET Files] /\ file' \in [Procs -> Files \cup {NoFile}]
       /\ UNCHANGED file
    BY <1>1 DEF Inv, ProcTypes
<1>11. \A q \in Procs : IsCached(file[q]) => IsCached(file[q])'
    BY <1>6, <1>10 DEF IsCached
<1>12. QED  BY <1>2, <1>5, <1>6, <1>7, <1>8, <1>9, <1>10, <1>11, StepKeepsInv

(* Nobody loads a file while another server holds the exclusive lock.      *)
LEMMA WriterAlone ==
    ASSUME Inv, NEW p \in Procs, NEW q \in Procs, p \in exclusive, q # p
    PROVE  pc[q] \notin Writing \cup {"lookup", "load"}
BY DEF Inv, LockInv, Writing

(* Files are removed under the exclusive lock only.                        *)
LEMMA RemoveKeepsInv ==
    ASSUME Inv, NEW p \in Procs, RemoveLink(p) \/ RemoveContents(p)
    PROVE  Inv'
<1>1. /\ UNCHANGED <<todo, file, tputVars, faults, crashes>>
      /\ pc[p] \in {"remove", "contents"}
    BY DEF RemoveLink, RemoveContents
<1>2. p \in exclusive /\ p \notin shared /\ file[p] \in Files
    BY <1>1 DEF Inv, LockInv, ProcTypes, Writing, Loading
<1>3. DiskTypes
    BY DEF Inv
<1>4. purge \in PurgeTypes
    BY <1>3 DEF DiskTypes, PurgeTypes
<1>5. PICK step \in {"sleep", "contents", "get", "remove"} :
         /\ Goto(p, step) /\ purge' \in PurgeTypes
         /\ IF step = "sleep" THEN Unlock(p) ELSE UNCHANGED lockVars
    <2>1. CASE RemoveLink(p)
        <3>1. CASE Retry(p)
            BY <3>1, NoPurgeType DEF Retry
        <3>2. CASE \E f \in purge.files :
                     /\ purge' = [purge EXCEPT !.files = @ \ {f}, !.victim = f]
                     /\ Goto(p, "contents") /\ UNCHANGED lockVars
            <4>1. PICK f \in purge.files : /\ purge' = [purge EXCEPT !.files = @ \ {f}, !.victim = f]
                                           /\ Goto(p, "contents") /\ UNCHANGED lockVars
                BY <3>2
            <4>2. purge' \in PurgeTypes
                BY <1>4, <4>1 DEF PurgeTypes
            <4>3. QED  BY <4>1, <4>2
        <3>3. QED  BY <2>1, <3>1, <3>2 DEF RemoveLink
    <2>2. CASE RemoveContents(p)
        <3> DEFINE freed == purge.freed + Size[BlobOf[purge.victim]]
        <3>1. CASE Retry(p)
            BY <3>1, NoPurgeType DEF Retry
        <3>2. CASE /\ Goto(p, "get") /\ purge' = [NoPurge EXCEPT !.blind = purge.blind]
                   /\ UNCHANGED lockVars
            BY <1>4, <3>2 DEF NoPurge, PurgeTypes
        <3>3. CASE /\ BlobOf[purge.victim] \in blobs
                   /\ Goto(p, "remove") /\ purge' = [purge EXCEPT !.freed = freed]
                   /\ UNCHANGED lockVars
            <4>1. freed \in Nat
                BY <1>3, <1>4, <3>3 DEF DiskTypes, PurgeTypes
            <4> HIDE DEF freed
            <4>2. QED  BY <1>4, <3>3, <4>1 DEF PurgeTypes
        <3>4. QED  BY <2>2, <3>1, <3>2, <3>3 DEF RemoveContents
    <2>3. QED  BY <2>1, <2>2
<1>6. links' \subseteq Files /\ blobs' \subseteq Blobs /\ unchecked' \cup misled' \subseteq blobs'
    BY <1>3 DEF RemoveLink, RemoveContents, DiskTypes
<1>7. DiskTypes'
    <2>1. shared' \subseteq Procs /\ exclusive' \subseteq Procs
        BY <1>5, UnlockTypes
    <2>2. QED  BY <1>5, <1>6, <2>1 DEF DiskTypes, PurgeTypes
<1>8. LockInv'
    <2>1. CASE step = "sleep"
        BY <1>5, <2>1, UnlockKeepsLocks DEF Writing
    <2>2. CASE step # "sleep"
        BY <1>2, <1>5, <2>2, MoveKeepsLocks DEF Writing
    <2>3. QED  BY <2>1, <2>2
<1>9. ThroughputTypes'
    BY <1>1, TypesStay
<1>10. step \in PcStates /\ step # "load"
    BY DEF PcStates, Loading, Writing
<1>11. /\ todo' \in [Procs -> SUBSET Files] /\ file' \in [Procs -> Files \cup {NoFile}]
       /\ UNCHANGED file
    BY <1>1 DEF Inv, ProcTypes
<1>12. \A q \in Procs : q # p => pc[q] # "load"
    BY <1>2, WriterAlone
<1>13. QED  BY <1>2, <1>5, <1>7, <1>8, <1>9, <1>10, <1>11, <1>12, StepKeepsInv

(* The kernel drops the locks of a process that dies.                      *)
LEMMA CrashKeepsInv ==
    ASSUME Inv, NEW p \in Procs, Crash(p)
    PROVE  Inv'
<1>1. /\ Goto(p, "throughput") /\ Unlock(p) /\ tlock' = tlock \ {p}
      /\ crashes' = crashes + 1
      /\ purge' = purge \/ purge' = NoPurge
      /\ todo' = [todo EXCEPT ![p] = {}] /\ file' = [file EXCEPT ![p] = NoFile]
      /\ tcache' = [tcache EXCEPT ![p] = {}]
      /\ UNCHANGED <<cacheVars, tfile, measured, unsaved, faults>>
    BY DEF Crash
<1>2. LockInv'
    BY <1>1, UnlockKeepsLocks DEF Writing
<1>3. DiskTypes'
    <2>1. shared' \subseteq Procs /\ exclusive' \subseteq Procs
        BY <1>1, UnlockTypes
    <2>2. purge' \in PurgeTypes
        BY <1>1, NoPurgeType DEF Inv, DiskTypes, PurgeTypes
    <2>3. QED  BY <1>1, <2>1, <2>2 DEF Inv, DiskTypes, PurgeTypes, cacheVars
<1>4. ThroughputTypes'
    BY <1>1 DEF Inv, ThroughputTypes
<1>5. /\ todo' \in [Procs -> SUBSET Files] /\ file' \in [Procs -> Files \cup {NoFile}]
      /\ \A q \in Procs : q # p => file'[q] = file[q]
    BY <1>1 DEF Inv, ProcTypes
<1>6. "throughput" \in PcStates /\ "throughput" \notin Loading
    BY DEF PcStates, Throughput, Loading, Writing
<1>7. \A q \in Procs : q # p /\ IsCached(file[q]) => IsCached(file[q])'
    BY <1>1, <1>5 DEF IsCached, cacheVars
<1>8. QED  BY <1>1, <1>2, <1>3, <1>4, <1>5, <1>6, <1>7, StepKeepsInv

\* Every step, and a stuttering one.
LEMMA NextKeepsInv == Inv /\ [Next]_vars => Inv'
<1> SUFFICES ASSUME Inv, [Next]_vars PROVE Inv'
    OBVIOUS
<1>1. ASSUME NEW p \in Procs, Step(p)  PROVE Inv'
    <2>1. CASE Crash(p)
        BY <2>1, CrashKeepsInv
    <2>2. CASE Advance(p)
        BY <2>2, ThroughputKeepsInv, DownloadKeepsInv, LoopKeepsInv, NextFileKeepsInv,
           LookupKeepsInv, FreeDiskSpaceKeepsInv, RemoveKeepsInv DEF Advance
    <2>3. QED  BY <1>1, <2>1, <2>2 DEF Step
<1>2. CASE UNCHANGED vars
    BY <1>2 DEF vars, Inv, DiskTypes, ProcTypes, ThroughputTypes, LockInv,
                FilesStayWhileLoaded, IsCached
<1>3. QED  BY <1>1, <1>2 DEF Next

\* The inductive invariant holds in every state.
THEOREM InvariantHolds == Spec => []Inv
BY InitInv, NextKeepsInv, PTL DEF Spec

(* The cache directory only ever holds files of the repositories, and the  *)
(* locals of a server that makes room are numbers.                         *)
THEOREM TypeCorrect == Spec => []TypeOK
<1>1. Inv => TypeOK
    BY DEF Inv, DiskTypes, PurgeTypes, ProcTypes, ThroughputTypes, TypeOK
<1>2. QED  BY <1>1, InvariantHolds, PTL

(* No server on the host removes a file between the moment another has     *)
(* found or fetched it and the end of its loading.                         *)
THEOREM LocksProtectFiles == Spec => []FilesStayWhileLoaded
<1>1. Inv => FilesStayWhileLoaded
    BY DEF Inv
<1>2. QED  BY <1>1, InvariantHolds, PTL

-----------------------------------------------------------------------------
(* How often the host is measured                                          *)

\* Forced evaluations: one at most for every process that is told to.
LEMMA EvaluatedFacts ==
    /\ Evaluated \subseteq Forced /\ IsFiniteSet(Evaluated)
    /\ Cardinality(Evaluated) \in Nat /\ Cardinality(Forced) \in Nat
    /\ Cardinality(Evaluated) <= Cardinality(Forced)
<1>1. IsFiniteSet(Forced)
    BY FS_Subset
<1>2. Evaluated \subseteq Forced
    BY DEF Evaluated
<1>3. IsFiniteSet(Evaluated) /\ Cardinality(Evaluated) <= Cardinality(Forced)
    BY <1>1, <1>2, FS_Subset
<1>4. QED  BY <1>1, <1>2, <1>3, FS_CardinalityType

(* Whoever rewrites the file has the lock, so nobody else does.            *)
LEMMA RewritingFacts ==
    ASSUME TlockInv, NEW p \in Procs, pc[p] \in Throughput \ {"throughput"} \/ tlock = {}
    PROVE  \A q \in Rewriting : q = p /\ tlock # {}
BY DEF TlockInv, Rewriting, Throughput

\* Steps outside of the throughput cache measure nothing.
LEMMA MeasuredStays ==
    ASSUME Inv, MeasuredInv, NEW p \in Procs, NEW step, Goto(p, step),
           pc[p] \notin Throughput, step \notin Throughput, UNCHANGED tputVars, UNCHANGED crashes
    PROVE  MeasuredInv'
<1>1. \A q \in Procs : pc'[q] = IF q = p THEN step ELSE pc[q]
    BY DEF Goto, Inv, ProcTypes
<1>2. UNCHANGED <<tlock, tfile, tcache, measured, unsaved>>
    BY DEF tputVars
<1>3. TlockInv'
    BY <1>1, <1>2 DEF MeasuredInv, TlockInv, Throughput
<1>4. Rewriting' = Rewriting /\ Evaluated' = Evaluated
    BY <1>1 DEF Rewriting, Evaluated, Throughput
<1>5. \A k : Known(k)' <=> Known(k)
    BY <1>2, <1>4 DEF Known
<1>6. QED  BY <1>2, <1>3, <1>4, <1>5 DEF MeasuredInv

(* The measurement of a server: its own key is counted.                    *)
LEMMA MeasureCounts ==
    ASSUME Inv, MeasuredInv, NEW p \in Procs, Measure(p)
    PROVE  MeasuredInv'
<1>1. /\ pc[p] = "measure" /\ Goto(p, "truncate")
      /\ tcache' = [tcache EXCEPT ![p] = @ \cup {KeyOf[p]}]
      /\ measured' = [measured EXCEPT ![KeyOf[p]] = @ + 1]
      /\ UNCHANGED <<tlock, tfile, crashes, unsaved>>
    BY DEF Measure
<1>2. /\ \A q \in Procs : pc'[q] = IF q = p THEN "truncate" ELSE pc[q]
      /\ \A q \in Procs : tcache'[q] = IF q = p THEN tcache[p] \cup {KeyOf[p]} ELSE tcache[q]
      /\ \A k \in Keys : measured'[k] = IF k = KeyOf[p] THEN measured[k] + 1 ELSE measured[k]
      /\ KeyOf[p] \in Keys /\ crashes \in Nat /\ unsaved \in Nat /\ \A k \in Keys : measured[k] \in Nat
    BY <1>1 DEF Goto, Inv, ProcTypes, ThroughputTypes, Keys
<1>3. TlockInv /\ tlock = {p} /\ Rewriting = {}
    <2>1. TlockInv /\ tlock = {p}
        BY <1>1 DEF MeasuredInv, TlockInv, Throughput
    <2>2. p \notin Rewriting
        BY <1>1 DEF Rewriting
    <2>3. \A q \in Rewriting : q = p
        BY <1>1, <2>1, RewritingFacts DEF Throughput
    <2>4. QED  BY <2>1, <2>2, <2>3
<1>4. TlockInv'
    BY <1>1, <1>2, <1>3 DEF TlockInv, Throughput
<1>5. Rewriting' = {p}
    BY <1>2, <1>3 DEF Rewriting
<1>6. /\ \A k : Known(k) <=> k \in tfile
      /\ \A k : Known(k)' <=> k \in tcache[p] \cup {KeyOf[p]}
    BY <1>2, <1>3, <1>5 DEF Known
<1>7. CASE p \notin Forced
    <2>1. Evaluated' = Evaluated
        BY <1>1, <1>2, <1>7 DEF Evaluated
    <2>2. tcache[p] = tfile /\ KeyOf[p] \notin tfile
        BY <1>1, <1>3, <1>7 DEF TlockInv
    <2>3. ASSUME NEW k \in Keys
          PROVE  measured'[k] <= crashes' + unsaved' + (IF Forced = {} THEN 0 ELSE crashes')
                                   + Cardinality(Evaluated') + (IF Known(k)' THEN 1 ELSE 0)
        <3>1. measured[k] <= crashes + unsaved + (IF Forced = {} THEN 0 ELSE crashes)
                               + Cardinality(Evaluated) + (IF Known(k) THEN 1 ELSE 0)
            BY DEF MeasuredInv
        <3>2. Cardinality(Evaluated) \in Nat
            BY EvaluatedFacts
        <3>3. CASE k = KeyOf[p]
            <4>1. ~Known(k) /\ Known(k)' /\ measured'[k] = measured[k] + 1
                BY <1>2, <1>6, <2>2, <3>3
            <4>2. QED  BY <1>1, <1>2, <2>1, <3>1, <3>2, <4>1
        <3>4. CASE k # KeyOf[p]
            <4>1. (Known(k) <=> Known(k)') /\ measured'[k] = measured[k]
                BY <1>2, <1>6, <2>2, <3>4
            <4>2. QED  BY <1>1, <1>2, <2>1, <3>1, <3>2, <4>1
        <3>5. QED  BY <3>3, <3>4
    <2>4. QED  BY <1>4, <2>3 DEF MeasuredInv
<1>8. CASE p \in Forced
    <2>1. Evaluated' = Evaluated \cup {p} /\ p \notin Evaluated
        BY <1>1, <1>2, <1>8 DEF Evaluated
    <2>2. Cardinality(Evaluated') = Cardinality(Evaluated) + 1 /\ Cardinality(Evaluated) \in Nat
        BY <2>1, EvaluatedFacts, FS_AddElement
    <2>3. ASSUME NEW k \in Keys
          PROVE  measured'[k] <= crashes' + unsaved' + (IF Forced = {} THEN 0 ELSE crashes')
                                   + Cardinality(Evaluated') + (IF Known(k)' THEN 1 ELSE 0)
        <3>1. measured[k] <= crashes + unsaved + (IF Forced = {} THEN 0 ELSE crashes)
                               + Cardinality(Evaluated) + (IF Known(k) THEN 1 ELSE 0)
            BY DEF MeasuredInv
        <3>2. k = KeyOf[p] => Known(k)'
            BY <1>6
        <3>3. QED  BY <1>1, <1>2, <1>8, <2>2, <3>1, <3>2
    <2>4. QED  BY <1>4, <2>3 DEF MeasuredInv
<1>9. QED  BY <1>7, <1>8

(* A save that fails: what the server alone knew is lost.                  *)
LEMMA SaveFailsCounts ==
    ASSUME Inv, MeasuredInv, NEW p \in Procs, Truncate(p) \/ Dump(p), SaveFails(p)
    PROVE  MeasuredInv'
<1>1. /\ \A q \in Procs : pc'[q] = IF q = p THEN "measured" ELSE pc[q]
      /\ pc[p] \in {"truncate", "dump"} /\ unsaved' = unsaved + 1
      /\ UNCHANGED <<tlock, tfile, tcache, measured, crashes>>
    BY DEF SaveFails, Truncate, Dump, Goto, Inv, ProcTypes
<1>2. TlockInv
    BY DEF MeasuredInv
<1>3. tlock = {p}
    BY <1>1, <1>2 DEF TlockInv, Throughput
<1>4. TlockInv'
    BY <1>1, <1>2, <1>3 DEF TlockInv, Throughput
<1>5. Evaluated' = Evaluated
    BY <1>1 DEF Evaluated
<1>6. ASSUME NEW k \in Keys
      PROVE  measured'[k] <= crashes' + unsaved' + (IF Forced = {} THEN 0 ELSE crashes')
                               + Cardinality(Evaluated') + (IF Known(k)' THEN 1 ELSE 0)
    <2>1. measured[k] <= crashes + unsaved + (IF Forced = {} THEN 0 ELSE crashes)
                           + Cardinality(Evaluated) + (IF Known(k) THEN 1 ELSE 0)
        BY DEF MeasuredInv
    <2>2. measured[k] \in Nat /\ crashes \in Nat /\ unsaved \in Nat /\ Cardinality(Evaluated) \in Nat
        BY EvaluatedFacts DEF Inv, ThroughputTypes
    <2>3. QED  BY <1>1, <1>5, <2>1, <2>2
<1>7. QED  BY <1>4, <1>6 DEF MeasuredInv

(* The other steps inside the lock lose no key.                            *)
LEMMA ThroughputKeepsMeasured ==
    ASSUME Inv, MeasuredInv, NEW p \in Procs,
           ReadThroughput(p) \/ Truncate(p) \/ Dump(p) \/ LeaveThroughput(p), ~SaveFails(p)
    PROVE  MeasuredInv'
<1>0. TlockInv /\ UNCHANGED <<measured, crashes, unsaved>>
    BY DEF MeasuredInv, ReadThroughput, Truncate, Dump, LeaveThroughput
<1>1. TlockInv' /\ Evaluated' = Evaluated /\ \A k \in Keys : Known(k)' <=> Known(k)
    <2>1. CASE ReadThroughput(p)
        <3>1. PICK step \in {"measured", "measure"} :
                 /\ Goto(p, step)
                 /\ step = "measured" <=> KeyOf[p] \in tcache'[p]
            BY <2>1 DEF ReadThroughput
        <3>2. /\ \A q \in Procs : pc'[q] = IF q = p THEN step ELSE pc[q]
              /\ \A q \in Procs : tcache'[q] = IF q = p THEN IF p \in Forced THEN {} ELSE tfile
                                                        ELSE tcache[q]
              /\ pc[p] = "throughput" /\ tlock = {} /\ tlock' = {p} /\ tfile' = tfile
            BY <2>1, <3>1 DEF ReadThroughput, Goto, Inv, ProcTypes, ThroughputTypes
        <3>3. TlockInv'
            BY <1>0, <3>1, <3>2 DEF TlockInv, Throughput
        <3>4. Evaluated' = Evaluated
            BY <3>1, <3>2 DEF Evaluated
        <3>5. Rewriting = {} /\ Rewriting' = {}
            BY <1>0, <3>2, RewritingFacts DEF Rewriting
        <3>6. QED  BY <3>2, <3>3, <3>4, <3>5 DEF Known
    <2>2. CASE Truncate(p)
        <3>1. /\ \A q \in Procs : pc'[q] = IF q = p THEN "dump" ELSE pc[q]
              /\ pc[p] = "truncate" /\ tfile' = {} /\ UNCHANGED <<tlock, tcache>>
            BY <2>2 DEF Truncate, Goto, Inv, ProcTypes
        <3>2. tlock = {p}
            BY <1>0, <3>1 DEF TlockInv, Throughput
        <3>3. TlockInv'
            BY <1>0, <3>1, <3>2 DEF TlockInv, Throughput
        <3>4. Evaluated' = Evaluated /\ Rewriting' = Rewriting /\ p \in Rewriting
            BY <3>1 DEF Evaluated, Rewriting
        <3>5. QED  BY <3>1, <3>3, <3>4 DEF Known
    <2>3. CASE Dump(p)
        <3>1. /\ \A q \in Procs : pc'[q] = IF q = p THEN "measured" ELSE pc[q]
              /\ pc[p] = "dump" /\ tfile' = tcache[p] /\ UNCHANGED <<tlock, tcache>>
            BY <2>3 DEF Dump, Goto, Inv, ProcTypes
        <3>2. tlock = {p}
            BY <1>0, <3>1 DEF TlockInv, Throughput
        <3>3. TlockInv'
            BY <1>0, <3>1, <3>2 DEF TlockInv, Throughput
        <3>4. Evaluated' = Evaluated
            BY <3>1 DEF Evaluated
        <3>5. Rewriting = {p}
            BY <1>0, <3>1, RewritingFacts DEF Rewriting, Throughput
        <3>6. Rewriting' = {}
            BY <3>1, <3>5 DEF Rewriting
        <3>7. QED  BY <3>1, <3>3, <3>4, <3>5, <3>6 DEF Known
    <2>4. CASE LeaveThroughput(p)
        <3>1. /\ \A q \in Procs : pc'[q] = IF q = p THEN "index" ELSE pc[q]
              /\ \A q \in Procs : tcache'[q] = IF q = p THEN {} ELSE tcache[q]
              /\ pc[p] = "measured" /\ tlock' = tlock \ {p} /\ tfile' = tfile
            BY <2>4 DEF LeaveThroughput, Goto, Inv, ProcTypes, ThroughputTypes
        <3>2. tlock = {p}
            BY <1>0, <3>1 DEF TlockInv, Throughput
        <3>3. TlockInv'
            BY <1>0, <3>1, <3>2 DEF TlockInv, Throughput
        <3>4. Evaluated' = Evaluated
            BY <3>1 DEF Evaluated
        <3>5. Rewriting = {} /\ Rewriting' = {}
            BY <1>0, <3>1, RewritingFacts DEF Rewriting, Throughput
        <3>6. QED  BY <3>1, <3>3, <3>4, <3>5 DEF Known
    <2>5. QED  BY <2>1, <2>2, <2>3, <2>4
<1>2. QED  BY <1>0, <1>1 DEF MeasuredInv

(* A crash may lose the file, and a server that evaluates does so again.   *)
LEMMA CrashKeepsMeasured ==
    ASSUME Inv, MeasuredInv, NEW p \in Procs, Crash(p)
    PROVE  MeasuredInv'
<1>1. /\ \A q \in Procs : pc'[q] = IF q = p THEN "throughput" ELSE pc[q]
      /\ \A q \in Procs : tcache'[q] = IF q = p THEN {} ELSE tcache[q]
      /\ tlock' = tlock \ {p} /\ crashes' = crashes + 1 /\ UNCHANGED <<tfile, measured, unsaved>>
      /\ crashes \in Nat /\ unsaved \in Nat /\ \A k \in Keys : measured[k] \in Nat
    BY DEF Crash, Goto, Inv, ProcTypes, ThroughputTypes
<1>2. TlockInv'
    BY <1>1 DEF MeasuredInv, TlockInv, Throughput
<1>3. Evaluated' = Evaluated \ {p}
    BY <1>1 DEF Evaluated
<1>4. /\ Cardinality(Evaluated) \in Nat /\ Cardinality(Evaluated') \in Nat
      /\ Cardinality(Evaluated') >= Cardinality(Evaluated) - (IF Forced = {} THEN 0 ELSE 1)
    <2>1. CASE p \in Evaluated
        <3>1. Forced # {} /\ IsFiniteSet(Evaluated) /\ Cardinality(Evaluated) \in Nat
            BY <2>1, EvaluatedFacts
        <3>2. IsFiniteSet(Evaluated \ {p}) /\ Cardinality(Evaluated \ {p}) = Cardinality(Evaluated) - 1
            BY <2>1, <3>1, FS_RemoveElement
        <3>3. Cardinality(Evaluated \ {p}) \in Nat
            BY <3>2, FS_CardinalityType
        <3>4. QED  BY <1>3, <3>1, <3>2, <3>3
    <2>2. CASE p \notin Evaluated
        <3>1. Evaluated' = Evaluated
            BY <1>3, <2>2
        <3>2. QED  BY <3>1, EvaluatedFacts
    <2>3. QED  BY <2>1, <2>2
<1>5. ASSUME NEW k \in Keys
      PROVE  measured'[k] <= crashes' + unsaved' + (IF Forced = {} THEN 0 ELSE crashes')
                               + Cardinality(Evaluated') + (IF Known(k)' THEN 1 ELSE 0)
    <2>1. measured[k] <= crashes + unsaved + (IF Forced = {} THEN 0 ELSE crashes)
                           + Cardinality(Evaluated) + (IF Known(k) THEN 1 ELSE 0)
        BY DEF MeasuredInv
    <2>2. QED  BY <1>1, <1>4, <2>1
<1>6. QED  BY <1>2, <1>5 DEF MeasuredInv

\* Nothing is measured at first.
LEMMA InitMeasured == Init => MeasuredInv
<1> SUFFICES ASSUME Init PROVE MeasuredInv
    OBVIOUS
<1>1. TlockInv
    BY DEF Init, TlockInv, Throughput
<1>2. ASSUME NEW k \in Keys
      PROVE  measured[k] <= crashes + unsaved + (IF Forced = {} THEN 0 ELSE crashes)
                              + Cardinality(Evaluated) + (IF Known(k) THEN 1 ELSE 0)
    <2>1. measured[k] = 0 /\ crashes = 0 /\ unsaved = 0
        BY DEF Init
    <2>2. QED  BY <2>1, EvaluatedFacts
<1>3. QED  BY <1>1, <1>2 DEF MeasuredInv

\* Every step keeps the count of measurements.
LEMMA NextKeepsMeasured == Inv /\ MeasuredInv /\ [Next]_vars => MeasuredInv'
<1> SUFFICES ASSUME Inv, MeasuredInv, [Next]_vars PROVE MeasuredInv'
    OBVIOUS
<1>1. ASSUME NEW p \in Procs, Step(p)  PROVE MeasuredInv'
    <2>1. CASE Crash(p)
        BY <2>1, CrashKeepsMeasured
    <2>2. CASE Measure(p)
        BY <2>2, MeasureCounts
    <2>3. CASE ReadThroughput(p) \/ Truncate(p) \/ Dump(p) \/ LeaveThroughput(p)
        <3>1. ReadThroughput(p) \/ LeaveThroughput(p) => ~SaveFails(p)
            BY DEF ReadThroughput, LeaveThroughput, SaveFails, Fault, Inv, ThroughputTypes
        <3>2. QED  BY <2>3, <3>1, SaveFailsCounts, ThroughputKeepsMeasured
    <2>4. CASE \/ GetIndex(p) \/ FindWeights(p) \/ OpenIndex(p) \/ NextFile(p) \/ FillBlock(p)
               \/ Lookup(p) \/ FindLocally(p) \/ FetchAdapter(p) \/ Load(p)
               \/ StartWriting(p) \/ FreeDiskSpace(p) \/ RemoveLink(p) \/ RemoveContents(p)
               \/ GetFile(p) \/ WakeUp(p)
        <3>1. UNCHANGED tputVars /\ UNCHANGED crashes /\ pc[p] \notin Throughput
            BY <2>4 DEF GetIndex, FindWeights, OpenIndex, NextFile, FillBlock, Lookup, FindLocally,
                FetchAdapter, Load, StartWriting, FreeDiskSpace, RemoveLink, RemoveContents,
                GetFile, WakeUp, Throughput
        <3>2. PICK step \in PcStates \ Throughput : Goto(p, step)
            <4> USE DEF PcStates, Loading, Writing, Throughput
            <4>1. CASE \/ GetIndex(p) \/ FindWeights(p) \/ OpenIndex(p) \/ NextFile(p)
                       \/ FillBlock(p) \/ WakeUp(p)
                BY <4>1 DEF GetIndex, FindWeights, OpenIndex, NextFile, FillBlock, WakeUp
            <4>2. CASE Lookup(p) \/ FindLocally(p) \/ FetchAdapter(p) \/ Load(p) \/ StartWriting(p)
                BY <4>2 DEF Lookup, FindLocally, FetchAdapter, Load, StartWriting
            <4>3. CASE FreeDiskSpace(p) \/ RemoveLink(p) \/ RemoveContents(p) \/ GetFile(p)
                BY <4>3 DEF FreeDiskSpace, SizeUnknown, RemoveLink, RemoveContents, GetFile, Retry
            <4>4. QED  BY <2>4, <4>1, <4>2, <4>3
        <3>3. QED  BY <3>1, <3>2, MeasuredStays
    <2>5. QED  BY <1>1, <2>1, <2>2, <2>3, <2>4 DEF Step, Advance
<1>2. CASE UNCHANGED vars
    BY <1>2 DEF vars, MeasuredInv, TlockInv, Evaluated, Known, Rewriting
<1>3. QED  BY <1>1, <1>2 DEF Next

(* However many servers start at once, the lock makes them measure the     *)
(* host once, with one more time for every crash, every evaluation and     *)
(* every save that fails.                                                  *)
THEOREM HostMeasuredOnce == Spec => []MeasuredOnce
<1>1. Spec => []MeasuredInv
    BY InitMeasured, NextKeepsMeasured, InvariantHolds, PTL DEF Spec
<1>2. Inv /\ MeasuredInv => MeasuredOnce
    <2> SUFFICES ASSUME Inv, MeasuredInv, NEW k \in Keys
                 PROVE  measured[k] <= 1 + crashes + Evaluations + unsaved
        BY DEF MeasuredOnce
    <2>1. measured[k] <= crashes + unsaved + (IF Forced = {} THEN 0 ELSE crashes)
                           + Cardinality(Evaluated) + (IF Known(k) THEN 1 ELSE 0)
        BY DEF MeasuredInv
    <2>2. measured[k] \in Nat /\ crashes \in Nat /\ unsaved \in Nat
        BY DEF Inv, ThroughputTypes
    <2>3. Forced = {} => Cardinality(Evaluated) = 0
        BY EvaluatedFacts, FS_EmptySet
    <2>4. QED  BY <2>1, <2>2, <2>3, EvaluatedFacts DEF Evaluations
<1>3. QED  BY <1>1, <1>2, InvariantHolds, PTL

-----------------------------------------------------------------------------
(* The limit                                                               *)

(* A server that does not get at the room that another makes               *)
LEMMA RoomStays ==
    ASSUME Inv, LimitInv, NEW p \in Procs, NEW step, Goto(p, step),
           step \notin {"get", "remove", "contents"}, UNCHANGED cacheVars,
           \A q \in Procs : q # p => file'[q] = file[q],
           purge' = purge \/ p \in exclusive, UNCHANGED setup
    PROVE  LimitInv'
<1>1. \A q \in Procs : pc'[q] = IF q = p THEN step ELSE pc[q]
    BY DEF Goto, Inv, ProcTypes
<1>2. links' = links /\ blobs' = blobs
    BY DEF cacheVars
<1>3. Counted' = Counted
    BY DEF Counted, LinkedBlobs, Linked, cacheVars
<1>4. ASSUME NEW q \in Procs  PROVE RoomFor(q)'
    <2>1. CASE q = p
        BY <1>1, <2>1 DEF RoomFor
    <2>2. CASE q # p /\ pc[q] \notin Writing
        BY <1>1, <2>2 DEF RoomFor, Writing
    <2>3. CASE q # p /\ pc[q] \in Writing
        <3>1. p \notin exclusive
            BY <2>3, WriterAlone
        <3>2. purge' = purge /\ pc'[q] = pc[q] /\ RoomFor(q)
            BY <1>1, <2>3, <3>1 DEF LimitInv
        <3>3. RequiredSize(q)' = RequiredSize(q)
            BY <2>3 DEF RequiredSize
        <3>4. Purged(q)' = Purged(q)
            BY <3>2 DEF Purged
        <3>5. Removable(q)' = Removable(q)
            BY <1>2, <1>3, <3>4 DEF Removable
        <3>6. (file[q] \in setup.unsized)' = (file[q] \in setup.unsized)
            BY <2>3
        <3>7. QED  BY <1>2, <1>3, <3>2, <3>3, <3>4, <3>5, <3>6 DEF RoomFor
    <2>4. QED  BY <2>1, <2>2, <2>3
<1>5. QED  BY <1>3, <1>4 DEF LimitInv

(* What is downloaded without asking, or after a look that missed a        *)
(* repository, does not count; what is asked for counts once.              *)
LEMMA DownloadCounts ==
    ASSUME DiskTypes, NEW f \in Files, NEW look \in {"none", "blind", "full"}, Download(f, look)
    PROVE  /\ look # "full" => Counted' \subseteq Counted
           /\ Counted' \subseteq Counted \cup {BlobOf[f]}
           /\ links \subseteq links' /\ blobs' \subseteq blobs \cup {BlobOf[f]}
           /\ IsCached(f) => blobs' = blobs
<1>1. CASE IsCached(f) /\ UNCHANGED cacheVars
    BY <1>1 DEF cacheVars, Counted, LinkedBlobs, Linked
<1>2. CASE /\ ~IsCached(f) /\ Store(f)
           /\ unchecked \subseteq unchecked' /\ misled \subseteq misled'
           /\ look # "full" => {BlobOf[f]} \ LinkedBlobs \subseteq unchecked' \cup misled'
    <2>1. LinkedBlobs' \subseteq LinkedBlobs \cup {BlobOf[f]}
        BY <1>2 DEF LinkedBlobs, Linked, Store
    <2>2. QED  BY <1>2, <2>1 DEF Counted, Store
<1>3. QED  BY <1>1, <1>2 DEF Download

(* Less counts than before.                                                *)
LEMMA CountedShrinks ==
    ASSUME DiskTypes, Counted' \subseteq Counted
    PROVE  Space(Counted') <= Space(Counted) /\ Space(Counted') \in Nat /\ Space(Counted) \in Nat
<1>1. Counted \in SUBSET Blobs
    BY LinkedFacts
<1>2. QED  BY <1>1, SpaceGrows, SpaceType

(* The index comes while another server makes room.                        *)
LEMMA GetIndexKeepsLimit ==
    ASSUME Inv, LimitInv, IndexAlone, NEW p \in Procs, GetIndex(p), UNCHANGED setup
    PROVE  LimitInv'
<1>1. pc[p] = "index" /\ UNCHANGED <<file, purge>> /\ IndexFile \in Files
    BY DEF GetIndex
<1>2. CASE DownloadFails(IndexFile) /\ Goto(p, "failed") /\ UNCHANGED cacheVars
    BY <1>1, <1>2, RoomStays
<1>3. CASE Download(IndexFile, "none") /\ Goto(p, "openindex")
    <2>0. DiskTypes
        BY DEF Inv
    <2>1. /\ Counted' \subseteq Counted /\ links \subseteq links'
          /\ blobs' \subseteq blobs \cup {BlobOf[IndexFile]}
          /\ IsCached(IndexFile) => blobs' = blobs
        BY <1>1, <1>3, <2>0, DownloadCounts
    <2>2. blobs \subseteq blobs'
        BY <1>3 DEF Download, Store, cacheVars
    <2>3. \A q \in Procs : pc'[q] = IF q = p THEN "openindex" ELSE pc[q]
        BY <1>3 DEF Goto, Inv, ProcTypes
    <2>4. Space(Counted') <= Space(Counted) /\ Space(Counted') \in Nat /\ Space(Counted) \in Nat
        BY <2>0, <2>1, CountedShrinks
    <2>5. ASSUME NEW q \in Procs  PROVE RoomFor(q)'
        <3>1. CASE pc'[q] \notin {"get", "remove", "contents"}
            BY <3>1 DEF RoomFor
        <3>2. CASE pc'[q] \in {"get", "remove", "contents"}
            <4>1. pc'[q] = pc[q] /\ RoomFor(q) /\ file[q] \in Files
                BY <2>3, <3>2 DEF LimitInv, Inv, ProcTypes, Loading, Writing
            <4>2. RequiredSize(q)' = RequiredSize(q) /\ RequiredSize(q) \in Nat
                BY <1>1, <4>1, SizeType DEF RequiredSize
            <4>3. CASE pc[q] = "get"
                BY <1>1, <2>4, <4>1, <4>2, <4>3 DEF RoomFor
            <4>4. CASE pc[q] \in {"remove", "contents"}
                <5>1. Purged(q)' = Purged(q) /\ Purged(q) \subseteq Files
                    BY <1>1, <2>0, <4>1, <4>4 DEF Purged, RoomFor, DiskTypes, PurgeTypes
                <5>2. Removable(q)' \subseteq Removable(q)
                    <6>1. ASSUME NEW b \in blobs', NEW f \in Purged(q), b = BlobOf[f]
                          PROVE  b \in blobs
                        <7>1. CASE b = BlobOf[IndexFile]
                            <8>1. f = IndexFile
                                BY <5>1, <6>1, <7>1 DEF IndexAlone
                            <8>2. QED  BY <4>1, <4>4, <6>1, <8>1 DEF RoomFor
                        <7>2. QED  BY <2>1, <7>1
                    <6>2. QED  BY <2>1, <5>1, <6>1 DEF Removable
                <5>3. Removable(q) \in SUBSET Blobs
                    BY <2>0, LinkedFacts DEF Removable, DiskTypes
                <5>4. Space(Removable(q)') <= Space(Removable(q))
                      /\ Space(Removable(q)') \in Nat /\ Space(Removable(q)) \in Nat
                    BY <5>2, <5>3, SpaceGrows, SpaceType
                <5>5. purge.freed \in Nat /\ purge.needed \in Nat
                    BY <2>0 DEF DiskTypes, PurgeTypes
                <5>6. ~purge.blind =>
                        Space(Removable(q)) + purge.freed + RequiredSize(q) <= MaxDisk + purge.needed
                    BY <4>1, <4>4 DEF RoomFor
                <5>7. ~purge.blind =>
                        Space(Removable(q)') + purge.freed + RequiredSize(q) <= MaxDisk + purge.needed
                    BY <4>2, <5>4, <5>5, <5>6
                <5>8. QED  BY <1>1, <2>1, <2>2, <4>1, <4>2, <4>4, <5>1, <5>7 DEF RoomFor
            <4>5. QED  BY <3>2, <4>1, <4>3, <4>4
        <3>3. QED  BY <3>1, <3>2
    <2>6. QED  BY <2>4, <2>5 DEF LimitInv
<1>4. QED  BY <1>2, <1>3 DEF GetIndex

(* A download under a lock: nobody else makes room.                        *)
LEMMA LockedDownloadKeepsLimit ==
    ASSUME Inv, LimitInv, NEW p \in Procs, FetchAdapter(p) \/ GetFile(p), UNCHANGED setup
    PROVE  LimitInv'
<1>1. pc[p] \in {"lookup", "get"} /\ UNCHANGED file /\ file[p] \in Files /\ DiskTypes
    BY DEF FetchAdapter, GetFile, Inv, ProcTypes, Loading, Writing
<1>2. \/ \E step \in {"write", "sleep"} : Goto(p, step) /\ UNCHANGED cacheVars
                                         /\ (purge' = purge \/ p \in exclusive)
      \/ /\ Goto(p, "load")
         /\ \/ Download(file[p], "none") \/ Download(file[p], "blind")
            \/ /\ pc[p] = "get" /\ file[p] \notin setup.unsized /\ ~purge.blind
               /\ Download(file[p], "full")
    <2>1. GetFile(p) => p \in exclusive
        BY DEF GetFile, Inv, LockInv, Writing
    <2>2. CASE FetchAdapter(p)
        BY <2>2 DEF FetchAdapter
    <2>3. CASE GetFile(p)
        BY <2>1, <2>3 DEF GetFile, Retry
    <2>4. QED  BY <2>2, <2>3
<1>3. CASE \E step \in {"write", "sleep"} : Goto(p, step) /\ UNCHANGED cacheVars
                                         /\ (purge' = purge \/ p \in exclusive)
    BY <1>1, <1>3, RoomStays
<1>4. CASE /\ Goto(p, "load")
           /\ \/ Download(file[p], "none") \/ Download(file[p], "blind")
              \/ /\ pc[p] = "get" /\ file[p] \notin setup.unsized /\ ~purge.blind
                 /\ Download(file[p], "full")
    <2> DEFINE b == BlobOf[file[p]]
    <2>1. \A q \in Procs : pc'[q] = IF q = p THEN "load" ELSE pc[q]
        BY <1>4 DEF Goto, Inv, ProcTypes
    <2>2. \A q \in Procs : q # p => pc[q] \notin Writing
        BY <1>1 DEF Inv, LockInv, Writing
    <2>3. \A q \in Procs : RoomFor(q)'
        BY <2>1, <2>2 DEF RoomFor, Writing
    <2>4. Counted \in SUBSET Blobs /\ b \in Blobs /\ Space(Counted) \in Nat /\ Size[b] \in Nat
        BY <1>1, LinkedFacts, SizeType
    <2>5. CASE Download(file[p], "none") \/ Download(file[p], "blind")
        <3>1. Counted' \subseteq Counted
            BY <1>1, <2>5, DownloadCounts
        <3>2. Space(Counted') <= Space(Counted) /\ Space(Counted') \in Nat
            BY <1>1, <3>1, CountedShrinks
        <3>3. QED  BY <2>3, <2>4, <3>2 DEF LimitInv
    <2>6. CASE /\ pc[p] = "get" /\ file[p] \notin setup.unsized /\ ~purge.blind
               /\ Download(file[p], "full")
        <3>1. Counted' \subseteq Counted \cup {b}
            BY <1>1, <2>6, DownloadCounts
        <3>2. Space(Counted') <= Space(Counted \cup {b}) /\ Space(Counted') \in Nat
            BY <2>4, <3>1, SpaceGrows, SpaceType
        <3>3. Space(Counted \cup {b}) <= Space(Counted) + Size[b] /\ Space(Counted \cup {b}) \in Nat
            <4>1. CASE b \in Counted
                <5>1. Counted \cup {b} = Counted
                    BY <4>1
                <5>2. Space(Counted \cup {b}) = Space(Counted)
                    BY <5>1
                <5> HIDE DEF b
                <5>3. QED  BY <2>4, <5>2
            <4>2. CASE b \notin Counted
                BY <2>4, <4>2, SpaceAdd
            <4>3. QED  BY <4>1, <4>2
        <3>4. Space(Counted) + Size[b] <= MaxDisk
            BY <1>1, <2>6 DEF LimitInv, RoomFor, RequiredSize
        <3>5. QED  BY <2>3, <2>4, <3>2, <3>3, <3>4 DEF LimitInv
    <2>7. QED  BY <1>4, <2>5, <2>6
<1>5. QED  BY <1>2, <1>3, <1>4

(* free_disk_space_for sees that the file fits, or what has to go.         *)
LEMMA FreeDiskSpaceKeepsLimit ==
    ASSUME Inv, LimitInv, NEW p \in Procs, FreeDiskSpace(p), UNCHANGED setup
    PROVE  LimitInv'
<1>1. pc[p] = "size" /\ UNCHANGED <<cacheVars, file>> /\ DiskTypes
    BY FreeDiskSpaceFacts DEF Inv
<1>2. p \in exclusive /\ file[p] \in Files
    BY <1>1 DEF Inv, LockInv, ProcTypes, Loading, Writing
<1>3. CASE Goto(p, "sleep")
    BY <1>1, <1>2, <1>3, RoomStays
<1>4. links' = links /\ blobs' = blobs
    BY <1>1 DEF cacheVars
<1>5. /\ Counted' = Counted /\ RequiredSize(p)' = RequiredSize(p)
      /\ (file[p] \in setup.unsized)' = (file[p] \in setup.unsized)
    BY <1>1 DEF Counted, LinkedBlobs, Linked, RequiredSize, cacheVars
<1>6. /\ Space(LinkedBlobs) \in Nat /\ Space(Counted) \in Nat /\ RequiredSize(p) \in Nat
      /\ Space(Counted) <= Space(LinkedBlobs) /\ LinkedBlobs \in SUBSET Blobs
    <2>1. LinkedBlobs \in SUBSET Blobs /\ Counted \in SUBSET LinkedBlobs
        BY <1>1, LinkedFacts
    <2>2. QED  BY <1>1, <1>2, <2>1, LinkedFacts, SizeType, SpaceGrows
<1>7. \A q \in Procs : q # p => pc[q] \notin Writing
    BY <1>2, WriterAlone
<1>8. CASE /\ Goto(p, "get")
           /\ \/ file[p] \in setup.unsized
              \/ purge'.blind
              \/ Space(LinkedBlobs) + RequiredSize(p) <= MaxDisk
    <2>1. \A q \in Procs : pc'[q] = IF q = p THEN "get" ELSE pc[q]
        BY <1>8 DEF Goto, Inv, ProcTypes
    <2>2. RoomFor(p)'
        BY <1>5, <1>6, <1>8, <2>1 DEF RoomFor
    <2>3. \A q \in Procs : q # p => RoomFor(q)'
        BY <1>7, <2>1 DEF RoomFor, Writing
    <2>4. QED  BY <1>5, <2>2, <2>3 DEF LimitInv
<1>9. CASE /\ Goto(p, "remove") /\ purge' \in PurgeTypes
           /\ purge'.files = Scanned /\ purge'.freed = 0
           /\ \/ purge'.blind
              \/ Space(LinkedBlobs) + RequiredSize(p) <= MaxDisk + purge'.needed
    <2>1. \A q \in Procs : pc'[q] = IF q = p THEN "remove" ELSE pc[q]
        BY <1>9 DEF Goto, Inv, ProcTypes
    <2>2. Purged(p)' = Scanned
        BY <1>9, <2>1 DEF Purged
    <2>3. Scanned \subseteq Linked
        BY DEF Scanned, Linked
    <2>4. Removable(p)' \subseteq LinkedBlobs
        BY <1>4, <1>5, <2>2, <2>3 DEF Removable, LinkedBlobs, Counted
    <2>5. Space(Removable(p)') <= Space(LinkedBlobs) /\ Space(Removable(p)') \in Nat
        BY <1>6, <2>4, SpaceGrows, SpaceType
    <2>6. ~purge'.blind =>
            Space(Removable(p)') + purge'.freed + RequiredSize(p)' <= MaxDisk + purge'.needed
        <3>1. purge'.needed \in Nat
            BY <1>9 DEF PurgeTypes
        <3>2. QED  BY <1>5, <1>6, <1>9, <2>5, <3>1
    <2>7. purge'.files \subseteq links' /\ (IndexFile \in Purged(p)' => BlobOf[IndexFile] \in blobs')
        BY <1>4, <1>9, <2>2, <2>3 DEF Linked
    <2>8. RoomFor(p)'
        BY <2>1, <2>6, <2>7 DEF RoomFor
    <2>9. \A q \in Procs : q # p => RoomFor(q)'
        BY <1>7, <2>1 DEF RoomFor, Writing
    <2>10. QED  BY <1>5, <2>8, <2>9 DEF LimitInv
<1>10. QED  BY <1>3, <1>8, <1>9, FreeDiskSpaceFacts

(* A link goes; its contents are next.                                     *)
LEMMA RemoveLinkKeepsLimit ==
    ASSUME Inv, LimitInv, NEW p \in Procs, RemoveLink(p), UNCHANGED setup
    PROVE  LimitInv'
<1>1. pc[p] = "remove" /\ UNCHANGED <<blobs, unchecked, misled, file>> /\ DiskTypes /\ RoomFor(p)
    BY DEF RemoveLink, Inv, LimitInv
<1>2. p \in exclusive /\ file[p] \in Files
    BY <1>1 DEF Inv, LockInv, ProcTypes, Loading, Writing
<1>3. CASE Retry(p) /\ UNCHANGED links
    <2>1. Goto(p, "sleep") /\ UNCHANGED cacheVars
        BY <1>1, <1>3 DEF Retry, cacheVars
    <2>2. QED  BY <1>1, <1>2, <2>1, RoomStays
<1>4. ASSUME NEW f \in purge.files, links' = links \ {f},
             purge' = [purge EXCEPT !.files = @ \ {f}, !.victim = f], Goto(p, "contents")
      PROVE  LimitInv'
    <2>1. \A q \in Procs : pc'[q] = IF q = p THEN "contents" ELSE pc[q]
        BY <1>4 DEF Goto, Inv, ProcTypes
    <2>2. /\ purge'.files = purge.files \ {f} /\ purge'.victim = f
          /\ purge'.freed = purge.freed /\ purge'.needed = purge.needed
          /\ purge'.blind = purge.blind
          /\ purge.files \subseteq Files /\ purge.freed \in Nat /\ purge.needed \in Nat
        BY <1>1, <1>4 DEF DiskTypes, PurgeTypes
    <2>3. Purged(p)' = purge.files /\ Purged(p) = purge.files
        BY <1>1, <1>4, <2>1, <2>2 DEF Purged
    <2>4. Counted' \subseteq Counted
        BY <1>1, <1>4 DEF Counted, LinkedBlobs, Linked
    <2>5. Removable(p)' \subseteq Removable(p) /\ Removable(p) \in SUBSET Blobs
        BY <1>1, <2>3, <2>4, LinkedFacts DEF Removable, DiskTypes
    <2>6. /\ Space(Removable(p)') <= Space(Removable(p))
          /\ Space(Removable(p)') \in Nat /\ Space(Removable(p)) \in Nat
        BY <2>5, SpaceGrows, SpaceType
    <2>7. RequiredSize(p)' = RequiredSize(p) /\ RequiredSize(p) \in Nat
        BY <1>1, <1>2, SizeType DEF RequiredSize
    <2>8. ~purge'.blind =>
            Space(Removable(p)') + purge'.freed + RequiredSize(p)' <= MaxDisk + purge'.needed
        BY <1>1, <2>2, <2>6, <2>7 DEF RoomFor
    <2>9. /\ purge'.files \subseteq links' /\ purge'.victim \in Files \ purge'.files
          /\ IndexFile \in Purged(p)' => BlobOf[IndexFile] \in blobs'
        BY <1>1, <1>4, <2>2, <2>3 DEF RoomFor
    <2>10. RoomFor(p)'
        BY <2>1, <2>8, <2>9 DEF RoomFor
    <2>11. \A q \in Procs : q # p => RoomFor(q)'
        BY <1>2, <2>1, WriterAlone DEF RoomFor, Writing
    <2>12. Space(Counted') <= MaxDisk
        BY <1>1, <2>4, CountedShrinks DEF LimitInv
    <2>13. QED  BY <2>10, <2>11, <2>12 DEF LimitInv
<1>5. QED  BY <1>3, <1>4 DEF RemoveLink

(* Contents go: what was freed is no longer there.                         *)
LEMMA RemoveContentsKeepsLimit ==
    ASSUME Inv, LimitInv, IndexAlone, NEW p \in Procs, RemoveContents(p), UNCHANGED setup
    PROVE  LimitInv'
<1> DEFINE b == BlobOf[purge.victim]
           freed == purge.freed + Size[b]
<1>1. pc[p] = "contents" /\ UNCHANGED <<links, file>> /\ DiskTypes /\ RoomFor(p)
    BY DEF RemoveContents, Inv, LimitInv
<1>2. p \in exclusive /\ file[p] \in Files
    BY <1>1 DEF Inv, LockInv, ProcTypes, Loading, Writing
<1>3. CASE Retry(p) /\ UNCHANGED <<blobs, unchecked, misled>>
    <2>1. Goto(p, "sleep") /\ UNCHANGED cacheVars
        BY <1>1, <1>3 DEF Retry, cacheVars
    <2>2. QED  BY <1>1, <1>2, <2>1, RoomStays
<1>4. ASSUME b \in blobs, blobs' = blobs \ {b}, unchecked' = unchecked \ {b}, misled' = misled \ {b},
             \/ /\ freed >= purge.needed /\ Goto(p, "get")
                /\ purge' = [NoPurge EXCEPT !.blind = purge.blind]
             \/ Goto(p, "remove") /\ purge' = [purge EXCEPT !.freed = freed]
      PROVE  LimitInv'
    <2>1. /\ purge.files \subseteq Files /\ purge.freed \in Nat /\ purge.needed \in Nat
          /\ purge.victim \in Files /\ Size[b] \in Nat /\ freed \in Nat
        BY <1>1, <1>4 DEF DiskTypes, PurgeTypes, RoomFor
    <2>2. PICK step \in {"get", "remove"} : Goto(p, step)
        BY <1>4
    <2>3. \A q \in Procs : pc'[q] = IF q = p THEN step ELSE pc[q]
        BY <2>2 DEF Goto, Inv, ProcTypes
    <2>4. Counted' \subseteq Counted \ {b}
        BY <1>1, <1>4 DEF Counted, LinkedBlobs, Linked
    <2>5. b \in Removable(p) /\ Removable(p) \in SUBSET Blobs
        BY <1>1, <1>4, LinkedFacts DEF Removable, Purged, DiskTypes
    <2>6. Counted \subseteq Removable(p)
        BY DEF Removable
    <2>7. /\ Space(Removable(p) \ {b}) = Space(Removable(p)) - Size[b]
          /\ Space(Removable(p)) \in Nat /\ Space(Removable(p) \ {b}) \in Nat
        BY <2>5, SpaceRemove, SpaceType
    <2>8. RequiredSize(p)' = RequiredSize(p) /\ RequiredSize(p) \in Nat
        BY <1>1, <1>2, SizeType DEF RequiredSize
    <2>9. ~purge.blind => Space(Removable(p)) + purge.freed + RequiredSize(p) <= MaxDisk + purge.needed
        BY <1>1 DEF RoomFor
    <2>10. ~purge.blind => Space(Removable(p) \ {b}) + freed + RequiredSize(p) <= MaxDisk + purge.needed
        <3> DEFINE r == Removable(p)
        <3>1. Space(r \ {b}) = Space(r) - Size[b] /\ Space(r) \in Nat
            BY <2>7
        <3> HIDE DEF r, b
        <3>2. QED  BY <2>1, <2>8, <2>9, <3>1 DEF r
    <2>11. Space(Counted') <= MaxDisk
        <3>1. Counted' \subseteq Counted
            BY <2>4
        <3>2. QED  BY <1>1, <3>1, CountedShrinks DEF LimitInv
    <2>12. RoomFor(p)'
        <3>1. CASE /\ freed >= purge.needed /\ Goto(p, "get")
                   /\ purge' = [NoPurge EXCEPT !.blind = purge.blind]
            <4>1. pc'[p] = "get" /\ purge'.blind = purge.blind
                BY <3>1 DEF Goto, Inv, ProcTypes, NoPurge
            <4>2. Counted' \subseteq Removable(p) \ {b} /\ Removable(p) \ {b} \in SUBSET Blobs
                BY <2>4, <2>5, <2>6
            <4>3. Space(Counted') <= Space(Removable(p) \ {b}) /\ Space(Counted') \in Nat
                BY <4>2, SpaceGrows, SpaceType
            <4>4. ~purge.blind => Space(Counted') + RequiredSize(p)' <= MaxDisk
                <5> HIDE DEF freed, b
                <5>1. QED  BY <2>1, <2>7, <2>8, <2>10, <3>1, <4>3
            <4>5. QED  BY <4>1, <4>4 DEF RoomFor
        <3>2. CASE Goto(p, "remove") /\ purge' = [purge EXCEPT !.freed = freed]
            <4>1. pc'[p] = "remove"
                BY <3>2 DEF Goto, Inv, ProcTypes
            <4>2. /\ purge'.files = purge.files /\ purge'.freed = freed /\ purge'.needed = purge.needed
                  /\ purge'.blind = purge.blind
                BY <1>1, <3>2 DEF DiskTypes, PurgeTypes
            <4>3. Purged(p)' = purge.files /\ purge.files \subseteq Purged(p)
                BY <4>1, <4>2 DEF Purged
            <4>4. Removable(p)' \subseteq Removable(p) \ {b} /\ Removable(p) \ {b} \in SUBSET Blobs
                BY <1>4, <2>4, <2>5, <4>3 DEF Removable
            <4>5. Space(Removable(p)') <= Space(Removable(p) \ {b}) /\ Space(Removable(p)') \in Nat
                BY <4>4, SpaceGrows, SpaceType
            <4>6. ~purge'.blind =>
                    Space(Removable(p)') + purge'.freed + RequiredSize(p)' <= MaxDisk + purge'.needed
                <5> HIDE DEF freed, b
                <5>1. QED  BY <2>1, <2>7, <2>8, <2>10, <4>2, <4>5
            <4>7. IndexFile \in purge.files => BlobOf[IndexFile] \in blobs'
                <5>1. purge.victim \notin purge.files /\ purge.victim \in Files
                    BY <1>1 DEF RoomFor
                <5>2. QED  BY <1>1, <1>4, <4>3, <5>1 DEF RoomFor, IndexAlone
            <4>8. purge'.files \subseteq links'
                BY <1>1, <4>2 DEF RoomFor
            <4>9. QED  BY <4>1, <4>3, <4>6, <4>7, <4>8 DEF RoomFor
        <3>3. QED  BY <1>4, <3>1, <3>2
    <2>13. \A q \in Procs : q # p => RoomFor(q)'
        BY <1>2, <2>3, WriterAlone DEF RoomFor, Writing
    <2>14. QED  BY <2>11, <2>12, <2>13 DEF LimitInv
<1>5. QED  BY <1>3, <1>4 DEF RemoveContents

\* What is cached at first fits.
LEMMA InitLimit == Init => LimitInv
<1> SUFFICES ASSUME Init PROVE LimitInv
    OBVIOUS
<1> DEFINE cached == {BlobOf[f] : f \in setup.cached}
<1>1. DiskTypes
    BY InitInv DEF Inv
<1>2. Counted \in SUBSET cached /\ cached \in SUBSET Blobs
    BY DEF Init, Counted, LinkedBlobs, Linked, Blobs
<1>3. Space(cached) <= MaxDisk
    BY DEF Init
<1>4. Space(Counted) <= Space(cached) /\ Space(Counted) \in Nat /\ Space(cached) \in Nat
    <2> HIDE DEF cached
    <2>1. QED  BY <1>2, SpaceGrows, SpaceType
<1>5. Space(Counted) <= MaxDisk
    <2> HIDE DEF cached
    <2>1. QED  BY <1>3, <1>4
<1>6. \A p \in Procs : RoomFor(p)
    BY DEF Init, RoomFor
<1>7. QED  BY <1>5, <1>6 DEF LimitInv

\* Every step keeps the limit, given that the index shares its contents with no file.
LEMMA NextKeepsLimit ==
    ASSUME IndexAlone
    PROVE  Inv /\ LimitInv /\ [Next]_vars => LimitInv'
<1> SUFFICES ASSUME Inv, LimitInv, [Next]_vars PROVE LimitInv'
    OBVIOUS
<1>1. ASSUME NEW p \in Procs, Step(p), UNCHANGED setup  PROVE LimitInv'
    <2>1. CASE GetIndex(p) \/ FetchAdapter(p) \/ GetFile(p) \/ FreeDiskSpace(p)
               \/ RemoveLink(p) \/ RemoveContents(p)
        BY <1>1, <2>1, GetIndexKeepsLimit, LockedDownloadKeepsLimit, FreeDiskSpaceKeepsLimit,
           RemoveLinkKeepsLimit, RemoveContentsKeepsLimit
    <2>2. CASE \/ ReadThroughput(p) \/ Measure(p) \/ Truncate(p) \/ Dump(p) \/ LeaveThroughput(p)
               \/ FindWeights(p) \/ OpenIndex(p) \/ NextFile(p) \/ FillBlock(p) \/ Lookup(p)
               \/ FindLocally(p) \/ Load(p) \/ StartWriting(p) \/ WakeUp(p) \/ Crash(p)
        <3>1. UNCHANGED cacheVars /\ (purge' = purge \/ p \in exclusive)
            BY <2>2 DEF ReadThroughput, Measure, Truncate, Dump, LeaveThroughput, FindWeights, OpenIndex,
                NextFile, FillBlock, Lookup, FindLocally, Load, StartWriting, WakeUp, Crash
        <3>2. \A q \in Procs : q # p => file'[q] = file[q]
            BY <2>2 DEF ReadThroughput, Measure, Truncate, Dump, LeaveThroughput, FindWeights, OpenIndex,
                NextFile, FillBlock, Lookup, FindLocally, Load, StartWriting, WakeUp, Crash,
                Inv, ProcTypes
        <3>3. PICK step \in PcStates \ {"get", "remove", "contents"} : Goto(p, step)
            <4> USE DEF PcStates, Loading, Writing, Throughput
            <4>1. CASE ReadThroughput(p) \/ Measure(p) \/ Truncate(p) \/ Dump(p) \/ LeaveThroughput(p)
                BY <4>1 DEF ReadThroughput, Measure, Truncate, Dump, LeaveThroughput, SaveFails
            <4>2. CASE FindWeights(p) \/ OpenIndex(p) \/ NextFile(p) \/ FillBlock(p) \/ Lookup(p) \/ FindLocally(p)
                BY <4>2 DEF FindWeights, OpenIndex, NextFile, FillBlock, Lookup, FindLocally
            <4>3. CASE Load(p) \/ StartWriting(p) \/ WakeUp(p) \/ Crash(p)
                BY <4>3 DEF Load, StartWriting, WakeUp, Crash
            <4>4. QED  BY <2>2, <4>1, <4>2, <4>3
        <3>4. QED  BY <1>1, <3>1, <3>2, <3>3, RoomStays
    <2>3. QED  BY <1>1, <2>1, <2>2 DEF Step, Advance
<1>2. CASE UNCHANGED vars
    BY <1>2 DEF vars, LimitInv, RoomFor, Counted, LinkedBlobs, Linked, Removable, Purged, RequiredSize
<1>3. QED  BY <1>1, <1>2 DEF Next

(* max_disk_space holds, up to what is downloaded without asking or after  *)
(* a look at the space that missed a repository with a broken link, if no  *)
(* other cached file has the contents of the index: else the index that    *)
(* one server downloads again while another removes files would be counted *)
(* twice in what is freed (disk_cache.py:94-101).                          *)
THEOREM DiskLimitKept ==
    ASSUME IndexAlone
    PROVE  Spec => []LimitKept
<1>1. Spec => []LimitInv
    BY InitLimit, NextKeepsLimit, InvariantHolds, PTL DEF Spec
<1>2. LimitInv => LimitKept
    BY DEF LimitInv, LimitKept, Counted
<1>3. QED  BY <1>1, <1>2, PTL
=============================================================================
