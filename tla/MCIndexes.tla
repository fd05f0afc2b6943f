------------------------------ MODULE MCIndexes ------------------------------
(* The spatial indexes of C and Zig, one of them in each behaviour. *)
EXTENDS SpaceQuery, SpaceHash, Sweep1D, ZigIndex

VARIABLE part

Seg(x, dir, far) == [x |-> x, dir |-> dir, far |-> far]
Segs == {Seg(0, 1, 20), Seg(24, -1, 20), Seg(26, -1, 25)}
Pts == {[x |-> 5, max |-> 4], [x |-> 12, max |-> 1], [x |-> 12, max |-> 2]}

PartInit ==
  /\ IndexInit /\ TreeInit /\ HashInit /\ SweepInit /\ ZigIndexInit
  /\ part \in {"tree", "hash", "sweep", "zig"}

\* Bound: the fourth shape is for the rotations of a Zig tree, which need as many.
FourInATree ==
  index'[4] # NULL => /\ part = "zig" /\ zig'.kind[DYNAMIC] = "bb_tree"
                      /\ \A o \in Shape : index'[o] \in {DYNAMIC, LEFT}

\* Bound: one Zig index at a time is not a tree, or both are hashes (useSpatialHash()).
OneReplaced ==
  \/ \E ix \in {STATIC, DYNAMIC} : zig'.kind[ix] = "bb_tree"
  \/ \A ix \in {STATIC, DYNAMIC} : zig'.kind[ix] = "space_hash"

PartNext ==
  /\ UNCHANGED part
  /\ \/ part = "tree" /\ TreeNext /\ UNCHANGED <<hsh, swp, zig>>
     \/ part = "hash" /\ HashNext /\ UNCHANGED <<bbt, swp, zig>>
     \/ part = "sweep" /\ SweepNext /\ UNCHANGED <<bbt, hsh, zig>>
     \/ part = "zig" /\ ZigIndexNext /\ UNCHANGED <<bbt, hsh, swp>>
  /\ FourInATree /\ OneReplaced

PartSpec == PartInit /\ [][PartNext]_<<indexVars, bbt, hsh, swp, zig, part>>

\* After a step every pair that overlaps was reported, and no pair twice, by the index
\* that is in use (MissesNone, CalledOnce).
ReportsOnce == MissesNone(bbt.queried \/ zig.queried) /\ CalledOnce

\* What a tree remembers between calls is exact, the cached pairs in C (CacheExact) and
\* the bounds and heights of what is below a node in Zig (ZigTreeSound), and queries
\* find what they should: all of them in a tree (QueriesAnswer), the nearest shape in a
\* spatial hash (HashFindsFirst).
QueriesFind ==
  /\ part = "tree" => CacheExact /\ QueriesAnswer
  /\ part = "hash" => HashFindsFirst
  /\ part = "zig" => ZigTreeSound
=============================================================================
