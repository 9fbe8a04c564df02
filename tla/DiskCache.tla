----------------------------- MODULE DiskCache -----------------------------
(***************************************************************************)
(* The weights on disk that the servers of one host share: how a starting  *)
(* server gets its throughput from the file throughput_v5.json and its     *)
(* shards and adapters from the Hugging Face cache, downloading what is    *)
(* missing and removing the least recently used files when max_disk_space  *)
(* would be exceeded.  Servers are processes; blocks.lock and              *)
(* throughput.lock (flock) are what they synchronise on, and the kernel    *)
(* drops the locks of a process that dies.                                 *)
(*                                                                         *)
(* A cached file is a link of a snapshot to a blob of its repository;      *)
(* files of two revisions with equal contents share the blob.  Access      *)
(* times are not kept: mount options decide when they change, so any       *)
(* cached file may be the oldest.                                          *)
(***************************************************************************)
EXTENDS Integers, FiniteSets

CONSTANTS
    Procs,       \* the server processes of the host
    Files,       \* what may be linked in the cache
    RepoOf,      \* the repository of a file
    BlobOf,      \* the contents a file links to
    Size,        \* of a blob, as the file system and the Hub tell it
    IndexFile,   \* model.safetensors.index.json
    WeightsFile, \* model.safetensors
    Shards,      \* what weight_map names for the blocks of a process
    Adapters,    \* the adapters of a process
    Incomplete,  \* processes whose checkpoint lacks a parameter of their blocks
    KeyOf,       \* the cache_key of a process's model, device and dtype
    Forced,      \* processes started with throughput "eval"
    Setups,      \* of the host: is the model sharded, the files in the cache at first,
                 \* and those whose size the Hub does not tell
    Corrupt,     \* blobs whose contents cannot be parsed
    MaxDisk,     \* max_disk_space
    DiskSize,    \* the volume, without os_quota
    MaxFaults,   \* BOUND: failed requests to the Hub, failed saves
    MaxCrashes   \* BOUND: processes that die

Blobs == {BlobOf[f] : f \in Files}
Keys == {KeyOf[p] : p \in Procs}
Units(bs) == UNION {{b} \X (1 .. Size[b]) : b \in bs}
Space(bs) == Cardinality(Units(bs))

ASSUME DiskAssumption ==
    /\ IsFiniteSet(Procs) /\ Forced \subseteq Procs
    /\ IsFiniteSet(Files) /\ IndexFile \in Files /\ WeightsFile \in Files \ {IndexFile}
    /\ \A p \in Procs : Shards[p] \cup Adapters[p] \subseteq Files \ {IndexFile}
    /\ \A f, g \in Files : BlobOf[f] = BlobOf[g] => RepoOf[f] = RepoOf[g]
    /\ \A b \in Blobs : Size[b] \in Nat \ {0}
    /\ MaxDisk \in Nat /\ DiskSize \in Nat
    /\ Setups \subseteq [sharded : BOOLEAN, cached : SUBSET Files, unsized : SUBSET Files]
    /\ \A h \in Setups : Space({BlobOf[f] : f \in h.cached}) <= MaxDisk

VARIABLES
    setup,                 \* of the host
    links, blobs,          \* snapshots/ and blobs/ of the cache directory
    shared, exclusive,     \* who holds blocks.lock, and how
    pc, todo, file,        \* of a process: step, files still to load, the current one
    purge,                 \* locals of free_disk_space_for: files, freed, needed; and
                           \* whether the look at the space missed a repository
    tlock, tfile, tcache,  \* holder of throughput.lock, the file, each holder's cache
    faults, crashes,
    unchecked,             \* HISTORY: blobs downloaded without a look at the space,
    misled,                \* HISTORY: and after one that missed a repository
    measured, unsaved      \* HISTORY: how often a key was measured, and a save failed

cacheVars == <<links, blobs, unchecked, misled>>
lockVars == <<shared, exclusive>>
tputVars == <<tlock, tfile, tcache, measured, unsaved>>
vars == <<setup, links, blobs, shared, exclusive, pc, todo, file, purge, tlock, tfile, tcache,
          faults, crashes, unchecked, misled, measured, unsaved>>

NoFile == "nofile"
NoPurge == [files |-> {}, victim |-> NoFile, freed |-> 0, needed |-> 0, blind |-> FALSE]

Init ==
    /\ setup \in Setups
    /\ links = setup.cached /\ blobs = {BlobOf[f] : f \in setup.cached}
    /\ shared = {} /\ exclusive = {}
    /\ pc = [p \in Procs |-> "throughput"]
    /\ todo = [p \in Procs |-> {}] /\ file = [p \in Procs |-> NoFile]
    /\ purge = NoPurge
    /\ tlock = {} /\ tfile = {} /\ tcache = [p \in Procs |-> {}]
    /\ faults = 0 /\ crashes = 0
    /\ unchecked = {} /\ misled = {}
    /\ measured = [k \in Keys |-> 0] /\ unsaved = 0

Goto(p, step) == pc' = [pc EXCEPT ![p] = step]
Fault == faults < MaxFaults /\ faults' = faults + 1

-----------------------------------------------------------------------------
(* get_server_throughput: everything happens inside the exclusive lock.    *)

ReadThroughputUnlocked(p) ==
    /\ pc[p] = "throughput"
    /\ tcache' = [tcache EXCEPT ![p] = IF p \in Forced THEN {} ELSE tfile]
    /\ Goto(p, IF KeyOf[p] \in tcache'[p] THEN "measured" ELSE "measure")
    /\ UNCHANGED <<cacheVars, lockVars, todo, file, purge, tlock, tfile, measured, unsaved, faults, crashes>>

ReadThroughput(p) ==
    /\ pc[p] = "throughput" /\ tlock = {}
    /\ tlock' = {p}
    /\ tcache' = [tcache EXCEPT ![p] = IF p \in Forced THEN {} ELSE tfile]
    /\ Goto(p, IF KeyOf[p] \in tcache'[p] THEN "measured" ELSE "measure")
    /\ UNCHANGED <<cacheVars, lockVars, todo, file, purge, tfile, measured, unsaved, faults, crashes>>

Measure(p) ==
    /\ pc[p] = "measure"
    /\ tcache' = [tcache EXCEPT ![p] = @ \cup {KeyOf[p]}]
    /\ measured' = [measured EXCEPT ![KeyOf[p]] = @ + 1]
    /\ Goto(p, "truncate")
    /\ UNCHANGED <<cacheVars, lockVars, todo, file, purge, tlock, tfile, unsaved, faults, crashes>>

(* open(cache_path, "w") empties the file before json.dump fills it; what  *)
(* json.load cannot read counts as a file without keys.  Either may fail,  *)
(* on a full or read-only volume: the server goes on with what it has      *)
(* measured, which the next one does not find.                             *)
SaveFails(p) ==
    /\ Fault /\ unsaved' = unsaved + 1
    /\ Goto(p, "measured")
    /\ UNCHANGED tfile

Truncate(p) ==
    /\ pc[p] = "truncate"
    /\ \/ tfile' = {} /\ Goto(p, "dump") /\ UNCHANGED <<unsaved, faults>>
       \/ SaveFails(p)
    /\ UNCHANGED <<cacheVars, lockVars, todo, file, purge, tlock, tcache, measured, crashes>>

Dump(p) ==
    /\ pc[p] = "dump"
    /\ \/ tfile' = tcache[p] /\ Goto(p, "measured") /\ UNCHANGED <<unsaved, faults>>
       \/ SaveFails(p)
    /\ UNCHANGED <<cacheVars, lockVars, todo, file, purge, tlock, tcache, measured, crashes>>

LeaveThroughput(p) ==
    /\ pc[p] = "measured"
    /\ tlock' = tlock \ {p} /\ tcache' = [tcache EXCEPT ![p] = {}]
    /\ Goto(p, "index")
    /\ UNCHANGED <<cacheVars, lockVars, todo, file, purge, tfile, measured, unsaved, faults, crashes>>

-----------------------------------------------------------------------------
(* The Hub (external) and its cache.                                       *)

IsCached(f) == f \in links /\ BlobOf[f] \in blobs

Linked == {f \in links : BlobOf[f] \in blobs}
LinkedBlobs == {BlobOf[f] : f \in Linked}

(* scan_cache_dir (external) sees the files of the repositories without a  *)
(* broken link; it leaves a repository with one out, with a warning.       *)
Scanned ==
    {f \in links : \A g \in links : RepoOf[g] = RepoOf[f] => BlobOf[g] \in blobs}

Store(f) == links' = links \cup {f} /\ blobs' = blobs \cup {BlobOf[f]}

Fits(f) == Space(blobs \cup {BlobOf[f]}) <= DiskSize

(* hf_hub_download: a cached file is not fetched again.  A download looks  *)
(* at the limit only if its caller did; look tells if that was "none", a   *)
(* "blind" one, which missed a repository, or a "full" one.                *)
Download(f, look) ==
    \/ IsCached(f) /\ UNCHANGED cacheVars
    \/ /\ ~IsCached(f) /\ Fits(f)
       /\ Store(f)
       /\ LET new == {BlobOf[f]} \ LinkedBlobs
          IN /\ unchecked' = IF look = "none" THEN unchecked \cup new ELSE unchecked
             /\ misled' = IF look = "blind" THEN misled \cup new ELSE misled

(* The Hub does not answer, or the volume is full.                         *)
DownloadFails(f) ==
    /\ ~IsCached(f)
    /\ \/ Fault
       \/ ~Fits(f) /\ UNCHANGED faults

-----------------------------------------------------------------------------
(* _load_state_dict_from_repo: the index, which no lock protects.          *)

(* _find_index_file: the index, or weights that are not sharded, is looked *)
(* for in the cache, then asked for.  The index is downloaded, the weights *)
(* are left to the loop.  A failure of the Hub leaves                      *)
(* load_pretrained_block with an exception, nothing is retried.            *)
GetIndex(p) ==
    /\ pc[p] = "index" /\ setup.sharded
    /\ \/ Download(IndexFile, "none") /\ Goto(p, "openindex") /\ UNCHANGED faults
       \/ DownloadFails(IndexFile) /\ Goto(p, "failed") /\ UNCHANGED cacheVars
    /\ UNCHANGED <<lockVars, todo, file, purge, tputVars, crashes>>

FindWeights(p) ==
    /\ pc[p] = "index" /\ ~setup.sharded
    /\ \/ /\ Goto(p, "next") /\ todo' = [todo EXCEPT ![p] = {WeightsFile}]
          /\ UNCHANGED faults
       \/ /\ ~IsCached(WeightsFile) /\ Fault
          /\ Goto(p, "failed") /\ UNCHANGED todo
    /\ UNCHANGED <<cacheVars, lockVars, file, purge, tputVars, crashes>>

(* open(path): another process may have removed the file since.            *)
OpenIndex(p) ==
    /\ pc[p] = "openindex"
    /\ todo' = [todo EXCEPT ![p] = IF IsCached(IndexFile) THEN Shards[p] ELSE {}]
    /\ Goto(p, IF IsCached(IndexFile) THEN "next" ELSE "failed")
    /\ UNCHANGED <<cacheVars, lockVars, file, purge, tputVars, faults, crashes>>

(* The loop over filenames, and the one over adapters that follows.        *)
NextFile(p) ==
    /\ pc[p] \in {"next", "adapters"}
    /\ \/ /\ todo[p] = {} /\ Goto(p, IF pc[p] = "next" THEN "fill" ELSE "done")
          /\ UNCHANGED <<todo, file>>
       \/ \E f \in todo[p] :
            /\ todo' = [todo EXCEPT ![p] = @ \ {f}]
            /\ file' = [file EXCEPT ![p] = f]
            /\ Goto(p, "read")
    /\ UNCHANGED <<cacheVars, lockVars, purge, tputVars, faults, crashes>>

(* load_pretrained_block: every parameter of the block has to be in the    *)
(* state dict; tensors that no parameter or buffer takes are dropped with  *)
(* a warning.  convert_block then adds the adapters.                       *)
FillBlock(p) ==
    /\ pc[p] = "fill"
    /\ Goto(p, IF p \in Incomplete THEN "failed" ELSE "adapters")
    /\ todo' = [todo EXCEPT ![p] = IF p \in Incomplete THEN {} ELSE Adapters[p]]
    /\ UNCHANGED <<cacheVars, lockVars, file, purge, tputVars, faults, crashes>>

-----------------------------------------------------------------------------
(* file_lock on blocks.lock.                                               *)

AllowCacheReads(p) == exclusive = {} /\ shared' = shared \cup {p} /\ UNCHANGED exclusive

AllowCacheWritesDuringReads(p) == exclusive = {} /\ exclusive' = {p} /\ UNCHANGED shared

AllowCacheWrites(p) ==
    /\ exclusive = {} /\ shared = {}
    /\ exclusive' = {p} /\ UNCHANGED shared

Unlock(p) == shared' = shared \ {p} /\ exclusive' = exclusive \ {p}

(* The first attempt, under the shared lock.  A shard is only looked up;   *)
(* an adapter is downloaded here, without free_disk_space_for.             *)
Lookup(p) ==
    /\ pc[p] = "read"
    /\ AllowCacheReads(p)
    /\ Goto(p, "lookup")
    /\ UNCHANGED <<cacheVars, todo, file, purge, tputVars, faults, crashes>>

FindLocally(p) ==
    /\ pc[p] = "lookup" /\ file[p] \notin Adapters[p]
    /\ IF IsCached(file[p]) THEN Goto(p, "load") /\ UNCHANGED lockVars
                            ELSE Goto(p, "write") /\ Unlock(p)
    /\ UNCHANGED <<cacheVars, todo, file, purge, tputVars, faults, crashes>>

FetchAdapter(p) ==
    /\ pc[p] = "lookup" /\ file[p] \in Adapters[p]
    /\ \/ Download(file[p], "none") /\ Goto(p, "load") /\ UNCHANGED <<lockVars, faults>>
       \/ DownloadFails(file[p]) /\ Goto(p, "write") /\ Unlock(p) /\ UNCHANGED cacheVars
    /\ UNCHANGED <<todo, file, purge, tputVars, crashes>>

(* _load_state_dict_from_local_file, in either of the two attempts.  What  *)
(* cannot be read is tried again under the exclusive lock.                 *)
Load(p) ==
    /\ pc[p] = "load"
    /\ Goto(p, IF IsCached(file[p]) /\ BlobOf[file[p]] \notin Corrupt
               THEN IF file[p] \in Adapters[p] THEN "adapters" ELSE "next"
               ELSE IF p \in exclusive THEN "sleep" ELSE "write")
    /\ Unlock(p)
    /\ UNCHANGED <<cacheVars, todo, file, purge, tputVars, faults, crashes>>

-----------------------------------------------------------------------------
(* The attempts under the exclusive lock, repeated until one succeeds.     *)

StartWriting(p) ==
    /\ pc[p] = "write"
    /\ AllowCacheWrites(p)
    /\ Goto(p, "size")
    /\ UNCHANGED <<cacheVars, todo, file, purge, tputVars, faults, crashes>>

RetryInsideLock(p) == Goto(p, "sleep") /\ UNCHANGED lockVars /\ purge' = NoPurge

(* The except clause of the loop, outside of the with statement.           *)
Retry(p) == Goto(p, "sleep") /\ Unlock(p) /\ purge' = NoPurge

ScannedSpace == Space({BlobOf[f] : f \in Scanned})

Minimum(a, b) == IF a <= b THEN a ELSE b

AvailableOnVolume(others) == DiskSize - others - Space(blobs)

AvailableSpace(others) == Minimum(DiskSize - others - Space(blobs), MaxDisk - ScannedSpace)

(* What the Hub tells: of a shard, or of the files of an adapter together. *)
RequiredSize(p) == Size[BlobOf[file[p]]]

(* get_hf_file_metadata may fail.  When it tells no size, the sum over the *)
(* files of an adapter raises TypeError, while a shard is downloaded       *)
(* without a look at the space.                                            *)
SizeUnknown(p) ==
    /\ file[p] \in setup.unsized
    /\ \/ file[p] \in Adapters[p] /\ Retry(p)
       \/ file[p] \notin Adapters[p] /\ Goto(p, "get") /\ UNCHANGED <<lockVars, purge>>

(* Otherwise free_disk_space_for begins.  Other programs may just then     *)
(* fill the volume (others).                                               *)
FreeDiskSpace(p) ==
    /\ pc[p] = "size"
    /\ \/ Fault /\ Retry(p)
       \/ SizeUnknown(p) /\ UNCHANGED faults
       \/ \E others \in {0, DiskSize} :
            LET size == RequiredSize(p)
                available == AvailableSpace(others)
                look == [NoPurge EXCEPT !.blind = Scanned # Linked]
            IN /\ file[p] \notin setup.unsized
               /\ IF others = 0 THEN UNCHANGED faults ELSE Fault
               /\ \/ size <= available /\ Goto(p, "get") /\ purge' = look
                  \/ /\ size > available /\ Goto(p, "remove")
                     /\ purge' = [look EXCEPT !.files = Scanned, !.needed = size - available]
               /\ UNCHANGED lockVars
    /\ UNCHANGED <<cacheVars, todo, file, tputVars, crashes>>

(* os.remove(file_path), or RuntimeError when there is nothing left.       *)
RemoveLink(p) ==
    /\ pc[p] = "remove"
    /\ \/ purge.files = {} /\ Retry(p) /\ UNCHANGED links
       \/ \E f \in purge.files :
            /\ links' = links \ {f}
            /\ purge' = [purge EXCEPT !.files = @ \ {f}, !.victim = f]
            /\ Goto(p, "contents") /\ UNCHANGED lockVars
    /\ UNCHANGED <<blobs, unchecked, misled, todo, file, tputVars, faults, crashes>>

(* os.remove(blob_path): it is missing when another link, removed before,  *)
(* shared it, which ends the attempt.                                      *)
RemoveContents(p) ==
    /\ pc[p] = "contents"
    /\ LET b == BlobOf[purge.victim]
           freed == purge.freed + Size[b]
       IN \/ b \notin blobs /\ Retry(p) /\ UNCHANGED <<blobs, unchecked, misled>>
          \/ /\ b \in blobs
             /\ blobs' = blobs \ {b} /\ unchecked' = unchecked \ {b} /\ misled' = misled \ {b}
             /\ IF freed >= purge.needed
                THEN Goto(p, "get") /\ purge' = [NoPurge EXCEPT !.blind = purge.blind]
                ELSE Goto(p, "remove") /\ purge' = [purge EXCEPT !.freed = freed]
             /\ UNCHANGED lockVars
    /\ UNCHANGED <<links, todo, file, tputVars, faults, crashes>>

GetFile(p) ==
    /\ pc[p] = "get"
    /\ LET look == IF file[p] \in setup.unsized THEN "none" ELSE IF purge.blind THEN "blind" ELSE "full"
       IN \/ /\ Download(file[p], look) /\ Goto(p, "load")
             /\ purge' = NoPurge /\ UNCHANGED <<lockVars, faults>>
          \/ DownloadFails(file[p]) /\ Retry(p) /\ UNCHANGED cacheVars
    /\ UNCHANGED <<todo, file, tputVars, crashes>>

(* time.sleep(delay), without the lock.                                    *)
WakeUp(p) ==
    /\ pc[p] = "sleep"
    /\ Goto(p, "write")
    /\ UNCHANGED <<cacheVars, lockVars, todo, file, purge, tputVars, faults, crashes>>

(* A process dies anywhere and the operator starts it again.               *)
Crash(p) ==
    /\ pc[p] \notin {"done", "failed"} /\ crashes < MaxCrashes
    /\ crashes' = crashes + 1
    /\ Goto(p, "throughput")
    /\ Unlock(p) /\ tlock' = tlock \ {p}
    /\ purge' = IF p \in exclusive THEN NoPurge ELSE purge
    /\ todo' = [todo EXCEPT ![p] = {}] /\ file' = [file EXCEPT ![p] = NoFile]
    /\ tcache' = [tcache EXCEPT ![p] = {}]
    /\ UNCHANGED <<cacheVars, tfile, measured, unsaved, faults>>

-----------------------------------------------------------------------------
Advance(p) ==
    \/ ReadThroughput(p) \/ Measure(p) \/ Truncate(p) \/ Dump(p) \/ LeaveThroughput(p)
    \/ GetIndex(p) \/ FindWeights(p) \/ OpenIndex(p) \/ NextFile(p) \/ FillBlock(p)
    \/ Lookup(p) \/ FindLocally(p) \/ FetchAdapter(p) \/ Load(p)
    \/ StartWriting(p) \/ FreeDiskSpace(p) \/ RemoveLink(p) \/ RemoveContents(p)
    \/ GetFile(p) \/ WakeUp(p)

Step(p) == Advance(p) \/ Crash(p)

Next == (\E p \in Procs : Step(p)) /\ UNCHANGED setup

(* A process that can go on does.  flock queues those that wait, and a     *)
(* process whose attempts fail sleeps without the lock, so that it does    *)
(* not keep the others from it for ever.                                   *)
Locking(p) == Lookup(p) \/ StartWriting(p)

Spec ==
    /\ Init /\ [][Next]_vars
    /\ \A p \in Procs : /\ WF_vars(Advance(p) /\ UNCHANGED setup)
                        /\ SF_vars(Locking(p) /\ UNCHANGED setup)

-----------------------------------------------------------------------------
TypeOK ==
    /\ links \subseteq Files /\ blobs \subseteq Blobs /\ unchecked \cup misled \subseteq blobs
    /\ shared \subseteq Procs /\ exclusive \subseteq Procs
    /\ tlock \subseteq Procs
    /\ \A p \in Procs : todo[p] \subseteq Files /\ file[p] \in Files \cup {NoFile}
    /\ purge.freed \in Nat /\ purge.needed \in Nat /\ purge.blind \in BOOLEAN
    /\ unsaved \in Nat

(* Once a process has found or fetched its file, the file stays until it   *)
(* is loaded, whatever the other servers remove meanwhile: what            *)
(* allow_cache_reads promises, for both attempts.                          *)
FilesStayWhileLoaded ==
    \A p \in Procs : pc[p] = "load" => IsCached(file[p])

(* max_disk_space holds, although servers check, remove and download in   *)
(* many steps: up to what was downloaded without asking (the index,        *)
(* adapters under the shared lock, files of unknown size), what was        *)
(* downloaded while a broken link hid a repository, and what a crash       *)
(* between the two removals left without a link.                           *)
LimitKept == Space(LinkedBlobs \ (unchecked \cup misled)) <= MaxDisk

(* "Maximal disk space used for caches": of what was downloaded after a    *)
(* look at the space, whatever that look has missed.                       *)
LimitKeptIfAsked == Space(LinkedBlobs \ unchecked) <= MaxDisk

(* The host is measured once for every key: again only after a crash lost  *)
(* the file, when it could not be saved, or when a server is told to       *)
(* evaluate, which drops the other keys; it does so again whenever it is   *)
(* restarted.                                                              *)
Evaluations == IF Forced = {} THEN 0 ELSE Cardinality(Forced) + crashes

MeasuredOnce ==
    \A k \in Keys : measured[k] <= 1 + crashes + Evaluations + unsaved

(* What free_disk_space_for does not see, blobs without a link or of a     *)
(* hidden repository, leaves too little room on the volume (it asks for    *)
(* room even when the blob is one of these); it makes none for a file of   *)
(* unknown size; and one of an adapter is never asked for.                 *)
NoWay(p) ==
    LET unseen == blobs \ {BlobOf[g] : g \in Scanned}
    IN \/ file[p] \in setup.unsized \cap Adapters[p]
       \/ file[p] \in setup.unsized /\ ~Fits(file[p])
       \/ Space(unseen) + RequiredSize(p) > DiskSize

Retrying == {"write", "size", "remove", "contents", "get", "sleep"}

(* Every server ends up with its files or with the exception of a missing  *)
(* index or parameter, as long as the Hub fails finitely often: attempts   *)
(* that fail are repeated and nobody keeps a lock.  Only a server for      *)
(* whose file there is no way tries for ever, and the others end all the   *)
(* same.                                                                   *)
EveryLoadEnds ==
    \A p \in Procs : <>[](pc[p] \in {"done", "failed"} \/ (pc[p] \in Retrying /\ NoWay(p)))

(* "Remove as few least recently used files as possible": nothing is       *)
(* removed for a file that is in the cache already.                        *)
NoNeedlessRemoval ==
    \A p \in Procs : pc[p] = "remove" => ~IsCached(file[p]) \/ purge.freed > 0
=============================================================================
