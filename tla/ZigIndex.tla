------------------------------- MODULE ZigIndex -------------------------------
(***************************************************************************)
(* The indexes of the Zig port, and how its space asks them for pairs: the *)
(* self-balancing tree of interface.zig (behind bbtree.zig), the grid of   *)
(* space_hash.zig and the sorted array of sweep1d.zig.                     *)
(***************************************************************************)
EXTENDS SpatialIndex, SequencesExt

CONSTANTS
  Margin,    \* fat_margin of the tree
  ZigCell    \* cell_dim of the grid

ASSUME ZigIndexAssumption == Margin \in Nat /\ ZigCell \in Nat \ {0}

\* zig.kind[ix]: bb_tree, space_hash or sweep1d; of[ix]: the contents, an index of
\* that kind; queried: the last step was a broad phase.
VARIABLE zig

-----------------------------------------------------------------------------
(* interface.zig: the tree *)

NoNode == [height |-> -1]
Fatten(p) == [l |-> p - Margin, r |-> p + Width + Margin]
ZigLeaf(o, bounds) == [object |-> o, bounds |-> bounds, height |-> 0]
IsLeaf(n) == "object" \in DOMAIN n
Area(b) == b.r - b.l

Higher(m, n) == IF m.height > n.height THEN m.height ELSE n.height

PullBounds(n) ==
  IF IsLeaf(n) THEN n
  ELSE [n EXCEPT !.bounds = BBMerge(n.left.bounds, n.right.bounds), !.height = 1 + Higher(n.left, n.right)]

\* balance(): the higher child of a takes its place, keeps its own higher child and
\* gives a the other.
Balance(a) ==
  IF IsLeaf(a) \/ a.height < 2 THEN a
  ELSE LET b == a.left
           c == a.right
           upper(n) == IF n.left.height > n.right.height THEN n.left ELSE n.right
           lower(n) == IF n.left.height > n.right.height THEN n.right ELSE n.left
       IN  IF c.height - b.height > 1
           THEN PullBounds([c EXCEPT !.left = PullBounds([a EXCEPT !.right = lower(c)]), !.right = upper(c)])
           ELSE IF c.height - b.height < -1
           THEN PullBounds([b EXCEPT !.left = PullBounds([a EXCEPT !.left = lower(b)]), !.right = upper(b)])
           ELSE a

\* One round of syncAncestors()
Sync(n) == PullBounds(Balance(n))

BranchCost(n, bounds, inheritance) ==
  Area(BBMerge(n.bounds, bounds)) + inheritance - (IF IsLeaf(n) THEN 0 ELSE Area(n.bounds))

RECURSIVE InsertLeaf(_, _)
InsertLeaf(n, leaf) ==
  IF n = NoNode THEN leaf
  ELSE LET pair == [left |-> n, right |-> leaf, height |-> n.height + 1,
                    bounds |-> BBMerge(n.bounds, leaf.bounds)]
           cost == 2 * Area(pair.bounds)
           inheritance == cost - 2 * Area(n.bounds)
           left == BranchCost(n.left, leaf.bounds, inheritance)
           right == BranchCost(n.right, leaf.bounds, inheritance)
       IN  IF IsLeaf(n) THEN Sync(pair)
           ELSE IF cost < left /\ cost < right THEN Sync(pair)
           ELSE IF left < right THEN Sync([n EXCEPT !.left = InsertLeaf(@, leaf)])
           ELSE Sync([n EXCEPT !.right = InsertLeaf(@, leaf)])

RECURSIVE LeavesOf(_)
LeavesOf(n) == IF n = NoNode THEN {} ELSE IF IsLeaf(n) THEN {n} ELSE LeavesOf(n.left) \cup LeavesOf(n.right)
Holds(n, o) == \E leaf \in LeavesOf(n) : leaf.object = o

RECURSIVE RemoveLeaf(_, _)
RemoveLeaf(n, o) ==
  IF IsLeaf(n) THEN NoNode
  ELSE IF Holds(n.left, o)
  THEN IF IsLeaf(n.left) THEN n.right ELSE Sync([n EXCEPT !.left = RemoveLeaf(@, o)])
  ELSE IF IsLeaf(n.right) THEN n.left ELSE Sync([n EXCEPT !.right = RemoveLeaf(@, o)])

\* A leaf that stays within its bounds gets new ones in its place.
RECURSIVE SetBounds(_, _, _)
SetBounds(n, o, bounds) ==
  IF IsLeaf(n) THEN [n EXCEPT !.bounds = bounds]
  ELSE IF Holds(n.left, o) THEN Sync([n EXCEPT !.left = SetBounds(@, o, bounds)])
  ELSE Sync([n EXCEPT !.right = SetBounds(@, o, bounds)])

TreeMoved(n, o, p) ==
  LET leaf == CHOOSE leaf \in LeavesOf(n) : leaf.object = o
  IN  IF BBContainsBB(leaf.bounds, Fatten(p)) THEN SetBounds(n, o, Fatten(p))
      ELSE InsertLeaf(RemoveLeaf(n, o), ZigLeaf(o, Fatten(p)))

RECURSIVE TreeQuery(_, _)
TreeQuery(n, b) ==
  IF n = NoNode THEN {}
  ELSE IF ~BBIntersects(n.bounds, b) THEN {}
  ELSE IF IsLeaf(n) THEN {n.object} ELSE TreeQuery(n.left, b) \cup TreeQuery(n.right, b)

-----------------------------------------------------------------------------
(* space_hash.zig: the cells of an entry are kept with it; a query looks at the
   entries of each cell it has not seen. *)

CellRange(b) == b.l \div ZigCell .. b.r \div ZigCell
Populated(grid, o, p) ==
  [entries |-> [grid.entries EXCEPT ![o] = [bounds |-> BB(p), cells |-> CellRange(BB(p))]],
   cells |-> grid.cells \cup {<<c, o>> : c \in CellRange(BB(p))}]
RemoveFromCells(grid, o) ==
  [entries |-> [grid.entries EXCEPT ![o] = NoNode],
   cells |-> grid.cells \ {<<c, o>> : c \in grid.entries[o].cells}]
GridQuery(grid, b) ==
  {o \in {cell[2] : cell \in {cell \in grid.cells : cell[1] \in CellRange(b)}} :
     grid.entries[o] # NoNode /\ BBIntersects(grid.entries[o].bounds, b)}

-----------------------------------------------------------------------------
(* sweep1d.zig: sorted when it is asked after a change *)

Sorted(s) == [entries |-> IF s.dirty THEN SortSeq(s.entries, LAMBDA a, b : a.bounds.l < b.bounds.l) ELSE s.entries,
              dirty |-> FALSE]
SwapRemove(entries, o) ==
  LET i == CHOOSE i \in DOMAIN entries : entries[i].object = o
  IN  Front([entries EXCEPT ![i] = Last(entries)])
\* The entries up to the first that begins behind b.
SweepUpTo(s, b) ==
  LET behind == {i \in DOMAIN s.entries : s.entries[i].bounds.l > b.r}
  IN  {s.entries[i].object : i \in {i \in DOMAIN s.entries :
         (\A k \in behind : i < k) /\ BBIntersects(s.entries[i].bounds, b)}}

-----------------------------------------------------------------------------
(* ManagedIndex *)

Kinds == {"bb_tree", "space_hash", "sweep1d"}

EmptyIndex(kind) ==
  CASE kind = "bb_tree" -> NoNode
    [] kind = "space_hash" -> [entries |-> [o \in Shape |-> NoNode], cells |-> {}]
    [] kind = "sweep1d" -> [entries |-> <<>>, dirty |-> FALSE]

Inserted(kind, s, o, p) ==
  CASE kind = "bb_tree" -> InsertLeaf(s, ZigLeaf(o, Fatten(p)))
    [] kind = "space_hash" -> Populated(s, o, p)
    [] kind = "sweep1d" -> [entries |-> Append(s.entries, [object |-> o, bounds |-> BB(p)]), dirty |-> TRUE]

Removed(kind, s, o) ==
  CASE kind = "bb_tree" -> RemoveLeaf(s, o)
    [] kind = "space_hash" -> RemoveFromCells(s, o)
    [] kind = "sweep1d" -> [entries |-> SwapRemove(s.entries, o), dirty |-> TRUE]

\* reindex() of the shapes in some order
Reindexed(kind, s, at, order) ==
  CASE kind = "bb_tree" -> FoldLeft(LAMBDA n, o : TreeMoved(n, o, at[o]), s, order)
    [] kind = "space_hash" -> FoldLeft(LAMBDA g, o : Populated(RemoveFromCells(g, o), o, at[o]), s, order)
    [] kind = "sweep1d" -> Sorted([entries |-> [i \in DOMAIN s.entries |->
                                     [s.entries[i] EXCEPT !.bounds = BB(at[s.entries[i].object])]],
                                   dirty |-> TRUE])

\* query(): whom the callback is called for
ZigQuery(kind, s, b) ==
  CASE kind = "bb_tree" -> TreeQuery(s, b)
    [] kind = "space_hash" -> GridQuery(s, b)
    [] kind = "sweep1d" -> SweepUpTo(Sorted(s), b)

-----------------------------------------------------------------------------
(* Operations of cpSpace on its indexes *)

ZigIndexInit ==
  zig = [kind |-> [ix \in {STATIC, DYNAMIC} |-> "bb_tree"],
         of |-> [ix \in {STATIC, DYNAMIC} |-> EmptyIndex("bb_tree")], queried |-> FALSE]

ZigDone(ix, s) == zig' = [zig EXCEPT !.of[ix] = s, !.queried = FALSE]

\* addShape()
ZigInsert(o, ix, p) == Enter(o, ix, p) /\ ZigDone(ix, Inserted(zig.kind[ix], zig.of[ix], o, p))

\* removeShape()
ZigRemove(o) == Leave(o) /\ ZigDone(index[o], Removed(zig.kind[index[o]], zig.of[index[o]], o))

\* reindexShape()
ZigReindexShape(o, p) ==
  /\ index[o] \in {STATIC, DYNAMIC}
  /\ Update([s \in {o} |-> p]) /\ calls' = NoCalls
  /\ ZigDone(index[o], Inserted(zig.kind[index[o]], Removed(zig.kind[index[o]], zig.of[index[o]], o), o, p))

\* setDynamicIndex() and setStaticIndex(): rebuildIndex() inserts the shapes of the
\* list, in the order they were added.
ZigRebuild(ix, kind) ==
  /\ kind # zig.kind[ix]
  /\ Stay
  /\ zig' = [kind |-> [zig.kind EXCEPT ![ix] = kind], queried |-> FALSE,
             of |-> [zig.of EXCEPT ![ix] =
               FoldLeft(LAMBDA s, o : Inserted(kind, s, o, pos[o]), EmptyIndex(kind), Ordered(In(ix)))]]

\* step(): the boxes of all shapes are cached, the dynamic index is reindexed in the
\* order of a hash map (one and its reverse stand for all), and each dynamic shape asks
\* both indexes; of two dynamic shapes that find each other only the one with the lower
\* address goes on (queryPairs()).
ZigBroadPhase(new, order) ==
  LET dynamic == Reindexed(zig.kind[DYNAMIC], zig.of[DYNAMIC], new, order)
      pairs(made, o) ==
        LET b == BB(new[o])
        IN  Call(Call(made, o, {s \in ZigQuery(zig.kind[DYNAMIC], dynamic, b) : s > o}),
                 o, ZigQuery(zig.kind[STATIC], zig.of[STATIC], b))
  IN  /\ In(DYNAMIC) # {}
      /\ Update(new)
      /\ calls' = FoldLeft(pairs, NoCalls, Ordered(In(DYNAMIC)))
      /\ zig' = [zig EXCEPT !.of[DYNAMIC] = dynamic, !.queried = TRUE]

ZigIndexNext ==
  \/ \E o \in Shape, ix \in {STATIC, DYNAMIC}, p \in Position : ZigInsert(o, ix, p)
  \/ \E o \in Shape : ZigRemove(o)
  \/ \E o \in Shape, p \in Position : ZigReindexShape(o, p)
  \/ \E ix \in {STATIC, DYNAMIC}, kind \in Kinds : ZigRebuild(ix, kind)
  \/ \E new \in [In(DYNAMIC) -> Position] :
       LET order == Ordered(In(DYNAMIC))
       IN  \/ ZigBroadPhase(new, order)
           \/ zig.kind[DYNAMIC] = "bb_tree" /\ ZigBroadPhase(new, Reverse(order))

-----------------------------------------------------------------------------
(* Property *)

RECURSIVE NodeSound(_)
NodeSound(n) ==
  IsLeaf(n) \/ /\ n.bounds = BBMerge(n.left.bounds, n.right.bounds)
               /\ n.height = 1 + Higher(n.left, n.right)
               /\ NodeSound(n.left) /\ NodeSound(n.right)

\* Through rotations, removals and leaves that move, each node of the tree has the
\* merged bounds and the height of what is below it, and the leaves are the shapes of
\* the index: a query prunes by the bounds, and balance() decides by the heights.
ZigTreeSound ==
  \A ix \in {STATIC, DYNAMIC} :
    zig.kind[ix] = "bb_tree" =>
      /\ zig.of[ix] # NoNode => NodeSound(zig.of[ix])
      /\ {leaf.object : leaf \in LeavesOf(zig.of[ix])} = In(ix)
      /\ Cardinality(LeavesOf(zig.of[ix])) = Cardinality(In(ix))
=============================================================================
