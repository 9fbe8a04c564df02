---------------------------- MODULE MCDiskCache ----------------------------
(* Two servers of one host and one model, sharded or not.  Sharded: both   *)
(* need the shard s of 2 units, which shares its blob with the copy o of   *)
(* an older revision, the second its own shard t.  Not sharded: both need  *)
(* w, and only o is there.  The second has an adapter a, in a repository   *)
(* of its own; the Hub tells all sizes, or not that of t, or not that of a.*)
EXTENDS DiskCache

MCRepoOf == [i |-> "m", s |-> "m", o |-> "m", t |-> "m", w |-> "m", a |-> "l"]
MCBlobOf == [i |-> "bi", s |-> "bs", o |-> "bs", t |-> "bt", w |-> "bw", a |-> "ba"]
MCSize == [bi |-> 1, bs |-> 2, bt |-> 2, bw |-> 2, ba |-> 1]
MCShards == [p |-> {"s"}, q |-> {"s", "t"}]
MCAdapters == [p |-> {}, q |-> {"a"}]
MCKeyOf == [p |-> "k", q |-> "k"]

Sharded(unsized) == [sharded |-> TRUE, cached |-> {"i", "s", "o"}, unsized |-> unsized]
MCSetups ==
    {Sharded({}), Sharded({"t"}), [sharded |-> FALSE, cached |-> {"o"}, unsized |-> {"a"}]}
MCSharded == {Sharded({})}
=============================================================================
