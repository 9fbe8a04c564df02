------------------------------ MODULE PagedKVPool ------------------------------
(***************************************************************************)
(* The paged store of attention keys and values (class PagedKVPool of      *)
(* server/memory_cache.py and the step of backend.py that uses it).  Each  *)
(* slot has a block table, which gives the physical pages of each row of   *)
(* its batch; tables grow as sequences grow.  The pool is used by the      *)
(* runtime alone, one inference step at a time.                            *)
(***************************************************************************)
EXTENDS Integers, Sequences, FiniteSets, SequencesExt

CONSTANTS
  Slots,       \* slot ids; an id is never used twice (handle_counter)
  Batch,       \* batch_size of the sessions
  Tokens,      \* keys and values of one position
  MaxLength,   \* bound on the length of a sequence
  MaxStep,     \* bound on the tokens of one step
  PoolPages,   \* num_pages
  PageSize,    \* tokens per page
  Blank        \* what a page holds before it is first written (zeros)

ASSUME PagedKVPoolAssumption ==
  /\ Batch \in Nat \ {0}
  /\ MaxLength \in Nat
  /\ MaxStep \in Nat
  /\ PoolPages \in Nat
  /\ PageSize \in Nat \ {0}
  /\ Blank \notin Tokens

VARIABLES
  phase,          \* "new", "open", "lost" (its step raised) or "freed"
  prefix_length,  \* tokens of each slot, kept by the handler of the session
  free_pages,     \* _free_pages, a stack
  block_tables,   \* _block_tables: for each registered slot, the pages of each row
  pool            \* key_pool and value_pool: the tokens in each page

poolVars == <<phase, prefix_length, free_pages, block_tables, pool>>

Rows == 1 .. Batch
Pages == 1 .. PoolPages
Offsets == 0 .. (PageSize - 1)

--------------------------------------------------------------------------------
(* Helpers *)

\* math.ceil(length / page_size)
NumLogicalPages(length) == (length + PageSize - 1) \div PageSize

\* The page position of token t (tokens and pages are counted from 1).
LogicalPage(t) == ((t - 1) \div PageSize) + 1
Offset(t) == (t - 1) % PageSize

\* Positions <<row, logical page>> take pages from the stack row by row.
Before(p, q) == p[1] < q[1] \/ (p[1] = q[1] /\ p[2] < q[2])

Rank(positions, p) == Cardinality({q \in positions : Before(q, p)})

\* The positions served before the stack is empty, the page _acquire_page gives
\* to each of them, and what is left.
Served(positions, free) == {p \in positions : Rank(positions, p) < Len(free)}

Acquired(positions, free) ==
  [p \in Served(positions, free) |-> free[Len(free) - Rank(positions, p)]]

Rest(positions, free) == SubSeq(free, 1, Len(free) - Cardinality(Served(positions, free)))

\* gather: the first tokens of each row, read through the block table.
Gather(table, store, length) ==
  [i \in Rows |-> [t \in 1 .. length |-> store[table[i][LogicalPage(t)]][Offset(t)]]]

\* reorder: a row that is the first to ask for its source takes its pages over...
FirstUse(hypo, i) == \A j \in 1 .. (i - 1) : hypo[j] # hypo[i]

\* ... and any other needs a copy of every page of its source.
Copies(table, hypo) ==
  {c \in Rows \X (1 .. MaxLength) : ~FirstUse(hypo, c[1]) /\ c[2] <= Len(table[hypo[c[1]]])}

\* Mutant of Reordered: a duplicated source is shared instead of copied.
ReorderedShares(table, hypo, new) == [i \in Rows |-> table[hypo[i]]]

Reordered(table, hypo, new) ==
  [i \in Rows |-> IF FirstUse(hypo, i) THEN table[hypo[i]]
                  ELSE [k \in 1 .. Len(table[hypo[i]]) |-> new[<<i, k>>]]]

\* Mutant of CopiedPool: pages are given out without being filled.
CopiedPoolEmpty(store, table, hypo, new) == store

CopiedPool(store, table, hypo, new) ==
  [p \in Pages |->
     IF p \in Range(new)
     THEN LET c == CHOOSE c \in DOMAIN new : new[c] = p
          IN  store[table[hypo[c[1]]][c[2]]]
     ELSE store[p]]

\* Pages of source rows that no row asked for return to the pool.
Reclaimed(table, hypo) ==
  FlattenSeq([i \in Rows |-> IF i \in Range(hypo) THEN << >> ELSE table[i]])

\* scatter: page positions that rows lack to reach the new length, row by row.
Missing(table, length) ==
  {c \in Rows \X (1 .. MaxLength) : Len(table[c[1]]) < c[2] /\ c[2] <= NumLogicalPages(length)}

Grown(table, new) ==
  [i \in Rows |->
     LET own == Len(table[i])
         got == Cardinality({c \in DOMAIN new : c[1] = i})
     IN  [k \in 1 .. (own + got) |-> IF k <= own THEN table[i][k] ELSE new[<<i, k>>]]]

\* The tail of the new keys and values is written, page by page, in place.
Scattered(store, table, prefix, new) ==
  [p \in Pages |-> [o \in Offsets |->
     IF \E i \in Rows, t \in 1 .. Len(new[1]) :
          table[i][LogicalPage(prefix + t)] = p /\ Offset(prefix + t) = o
     THEN LET w == CHOOSE w \in Rows \X (1 .. Len(new[1])) :
                     table[w[1]][LogicalPage(prefix + w[2])] = p /\ Offset(prefix + w[2]) = o
          IN  new[w[1]][w[2]]
     ELSE store[p][o]]]

--------------------------------------------------------------------------------
(* Operations *)

\* register_slot
RegisterSlot(s) ==
  /\ phase[s] = "new"
  /\ phase' = [phase EXCEPT ![s] = "open"]
  /\ block_tables' = [block_tables EXCEPT ![s] = [i \in Rows |-> << >>]]
  /\ UNCHANGED <<prefix_length, free_pages, pool>>

\* free_slot, at the end of the session, however it ends
FreeSlot(s) ==
  /\ phase[s] \in {"open", "lost"}
  /\ phase' = [phase EXCEPT ![s] = "freed"]
  /\ free_pages' = free_pages \o FlattenSeq(block_tables[s])
  /\ block_tables' = [block_tables EXCEPT ![s] = << >>]
  /\ prefix_length' = [prefix_length EXCEPT ![s] = 0]
  /\ UNCHANGED pool

\* reorder runs out of pages while it copies: the pages it took are dropped with
\* its unfinished result, the block table stays as it was, the step raises.
ReorderFails(s, hypo) ==
  LET need == Copies(block_tables[s], hypo)
  IN  /\ phase[s] = "open"
      /\ Cardinality(need) > Len(free_pages)
      /\ free_pages' = Rest(need, free_pages)
      /\ pool' = CopiedPool(pool, block_tables[s], hypo, Acquired(need, free_pages))
      /\ phase' = [phase EXCEPT ![s] = "lost"]
      /\ UNCHANGED <<prefix_length, block_tables>>

\* The rest of _paged_inference_step, once the rows are in order.  The prefix may
\* lie before the end of what was written (start_from_position).  Growing the
\* tables may exhaust the pool: what rows have got by then stays in the table.
ScatterStep(s, table, free, store, prefix, new) ==
  LET length  == prefix + Len(new[1])
      missing == Missing(table, length)
  IN  \E grown \in {Grown(table, Acquired(missing, free))} :
        /\ free_pages' = Rest(missing, free)
        /\ block_tables' = [block_tables EXCEPT ![s] = grown]
        /\ IF Cardinality(missing) <= Len(free)
           THEN /\ pool' = Scattered(store, grown, prefix, new)
                /\ prefix_length' = [prefix_length EXCEPT ![s] = length]
                /\ UNCHANGED phase
           ELSE /\ pool' = store
                /\ phase' = [phase EXCEPT ![s] = "lost"]
                /\ UNCHANGED prefix_length

\* _paged_inference_step: the rows are put in order, which succeeds, then new
\* tokens are stored from some prefix on.  (A dummy hypo_ids, which means no
\* reorder, has the effect of the identity.)
PagedStep(s, hypo) ==
  LET need == Copies(block_tables[s], hypo)
  IN  /\ phase[s] = "open"
      /\ Cardinality(need) <= Len(free_pages)
      /\ \E copy \in {Acquired(need, free_pages)} :
         \E table \in {Reordered(block_tables[s], hypo, copy)},
            store \in {CopiedPool(pool, block_tables[s], hypo, copy)},
            free \in {Rest(need, free_pages) \o Reclaimed(block_tables[s], hypo)},
            prefix \in 0 .. prefix_length[s] :
         \E n \in 1 .. Min({MaxStep, MaxLength - prefix}) : \E new \in [Rows -> [1 .. n -> Tokens]] :
           ScatterStep(s, table, free, store, prefix, new)

PoolInit ==
  /\ phase = [s \in Slots |-> "new"]
  /\ prefix_length = [s \in Slots |-> 0]
  /\ free_pages = [p \in Pages |-> p]
  /\ block_tables = [s \in Slots |-> << >>]
  /\ pool = [p \in Pages |-> [o \in Offsets |-> Blank]]

PoolNext ==
  \E s \in Slots :
    \/ RegisterSlot(s)
    \/ FreeSlot(s)
    \/ \E hypo \in [Rows -> Rows] : ReorderFails(s, hypo) \/ PagedStep(s, hypo)

PoolSpec == PoolInit /\ [][PoolNext]_poolVars

--------------------------------------------------------------------------------
(* Properties *)

\* Block tables have a row per batch element; pages are physical pages.
PoolTypeOK ==
  /\ phase \in [Slots -> {"new", "open", "lost", "freed"}]
  /\ prefix_length \in [Slots -> 0 .. MaxLength]
  /\ free_pages \in Seq(Pages)
  /\ \A s \in Slots : block_tables[s] = << >> \/ block_tables[s] \in [Rows -> Seq(Pages)]
  /\ pool \in [Pages -> [Offsets -> Tokens \cup {Blank}]]

Places == {c \in Slots \X Rows \X (1 .. MaxLength) :
             c[2] \in DOMAIN block_tables[c[1]] /\ c[3] \in DOMAIN block_tables[c[1]][c[2]]}

PageAt(c) == block_tables[c[1]][c[2]][c[3]]

\* No page is in two places: two rows, of one slot or of two, never write to the
\* same page, and a page is never handed out while it is in use or freed twice.
NoSharing ==
  /\ \A c, d \in Places : PageAt(c) = PageAt(d) => c = d
  /\ \A c \in Places : PageAt(c) \notin Range(free_pages)
  /\ IsInjective(free_pages)

\* Every page is free or in a block table (allocate_paged_slots: leaving the
\* context returns the pages of its slots to the pool).
PagesConserved == Range(free_pages) \cup {PageAt(c) : c \in Places} = Pages

\* What gather returns for the prefix of each open slot is what an unpaged cache
\* would hold: the pool implements KVStore.
KV == INSTANCE KVStore WITH
        kv <- [s \in Slots |-> IF phase[s] = "open"
                               THEN Gather(block_tables[s], pool, prefix_length[s])
                               ELSE << >>]

ImplementsKVStore == KV!Spec
================================================================================
