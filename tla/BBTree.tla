-------------------------------- MODULE BBTree --------------------------------
(***************************************************************************)
(* cpBBTree: the trees of the static and of the dynamic shapes, and the    *)
(* cache of pairs of leaves whose boxes intersect.  Pairs of leaves that   *)
(* did not move since the last query come from the cache; the stamps tell  *)
(* who moved, and who of two leaves that moved adds their pair.            *)
(***************************************************************************)
EXTENDS SpatialIndex, SequencesExt

CONSTANT Velocity   \* a tenth of the velocities of shapes

ASSUME TreeAssumption == Velocity \subseteq Int

\* bbt.tree: the root of each tree; box, stamp: of each leaf; now: the master
\* tree's stamp; pairs: the bag of cached pairs <<a, b>>; queried: the last step
\* was a ReindexQuery.
VARIABLE bbt

-----------------------------------------------------------------------------
(* Nodes *)

EmptyTree == [empty |-> TRUE]
Leaf(o) == [leaf |-> o]
NodeIsLeaf(n) == DOMAIN n = {"leaf"}
NodeBB(n, box) == IF NodeIsLeaf(n) THEN box[n.leaf] ELSE n.bb
NodeNew(a, b, box) == [bb |-> BBMerge(NodeBB(a, box), NodeBB(b, box)), a |-> a, b |-> b]

BBArea(a) == a.r - a.l      \* of boxes of the same height
BBMergedArea(a, b) == BBArea(BBMerge(a, b))
BBProximity(a, b) == LET d == a.l + a.r - b.l - b.r IN IF d < 0 THEN -d ELSE d

RECURSIVE Leaves(_)
Leaves(n) == IF n = EmptyTree THEN <<>>
             ELSE IF NodeIsLeaf(n) THEN <<n.leaf>> ELSE Leaves(n.a) \o Leaves(n.b)

RECURSIVE SubtreeInsert(_, _, _)
SubtreeInsert(n, o, box) ==
  IF n = EmptyTree THEN Leaf(o)
  ELSE IF NodeIsLeaf(n) THEN NodeNew(Leaf(o), n, box)
  ELSE LET a == NodeBB(n.a, box)
           b == NodeBB(n.b, box)
           costA == BBArea(b) + BBMergedArea(a, box[o])
           costB == BBArea(a) + BBMergedArea(b, box[o])
           intoB == \/ costB < costA
                    \/ costB = costA /\ BBProximity(b, box[o]) < BBProximity(a, box[o])
       IN  [bb |-> BBMerge(n.bb, box[o]),
            a |-> IF intoB THEN n.a ELSE SubtreeInsert(n.a, o, box),
            b |-> IF intoB THEN SubtreeInsert(n.b, o, box) ELSE n.b]

\* The sibling takes the place of the parent, and the boxes above are merged anew.
RECURSIVE SubtreeRemove(_, _, _)
SubtreeRemove(n, o, box) ==
  IF n = Leaf(o) THEN EmptyTree
  ELSE IF n.a = Leaf(o) THEN n.b
  ELSE IF n.b = Leaf(o) THEN n.a
  ELSE IF Contains(Leaves(n.a), o) THEN NodeNew(SubtreeRemove(n.a, o, box), n.b, box)
  ELSE NodeNew(n.a, SubtreeRemove(n.b, o, box), box)

\* SubtreeQuery(): the leaves below n that box b meets, as they are visited
RECURSIVE SubtreeQuery(_, _, _)
SubtreeQuery(n, b, box) ==
  IF n = EmptyTree \/ ~BBIntersects(NodeBB(n, box), b) THEN <<>>
  ELSE IF NodeIsLeaf(n) THEN <<n.leaf>>
  ELSE SubtreeQuery(n.a, b, box) \o SubtreeQuery(n.b, b, box)

\* (faulty: only the nearer child)
RECURSIVE SegmentQueryNearer(_, _, _, _, _)
SegmentQueryNearer(n, s, box, w, back) ==
  IF NodeIsLeaf(n) THEN [exit |-> Least(w.exit, back[n.leaf]), met |-> w.met \cup {n.leaf}]
  ELSE LET ta == SegmentHit(NodeBB(n.a, box), s.x, s.dir, s.far)
           tb == SegmentHit(NodeBB(n.b, box), s.x, s.dir, s.far)
       IN  SegmentQueryNearer(IF ta < tb THEN n.a ELSE n.b, s, box, w, back)

\* SubtreeSegmentQuery(): the nearer child first, and neither when it begins at or
\* behind w.exit, which what the callback returns for a leaf, back[leaf], may bring
\* nearer.  w.met: the leaves it was called for.
RECURSIVE SubtreeSegmentQuery(_, _, _, _, _)
SubtreeSegmentQuery(n, s, box, w, back) ==
  IF NodeIsLeaf(n) THEN [exit |-> Least(w.exit, back[n.leaf]), met |-> w.met \cup {n.leaf}]
  ELSE LET ta == SegmentHit(NodeBB(n.a, box), s.x, s.dir, s.far)
           tb == SegmentHit(NodeBB(n.b, box), s.x, s.dir, s.far)
           visit(child, t, v) == IF t < v.exit THEN SubtreeSegmentQuery(child, s, box, v, back) ELSE v
       IN  IF ta < tb THEN visit(n.b, tb, visit(n.a, ta, w))
           ELSE visit(n.a, ta, visit(n.b, tb, w))

-----------------------------------------------------------------------------
(* Pairs *)

\* What was found for a leaf: the subtrees beside the way up to the root.
RECURSIVE Beside(_, _)
Beside(n, o) ==
  IF NodeIsLeaf(n) THEN {}
  ELSE IF Contains(Leaves(n.a), o) THEN Beside(n.a, o) \cup {[tree |-> n.b, left |-> TRUE]}
  ELSE Beside(n.b, o) \cup {[tree |-> n.a, left |-> FALSE]}

PairsClear(pairs, o) == [P \in {P \in DOMAIN pairs : o # P[1] /\ o # P[2]} |-> pairs[P]]
PairInsert(pairs, new) == pairs (+) SetToBag(new)

\* (faulty: leaves that moved together both add their pair)
MarkLeafQueryTwice(m, st, o, left, met) ==
  IF left THEN [m EXCEPT !.pairs = PairInsert(@, {<<o, s>> : s \in met})]
  ELSE [m EXCEPT !.pairs = PairInsert(@, {<<s, o>> : s \in met}), !.calls = Call(@, o, met)]

\* MarkLeafQuery() for the leaves that meet o's box: one that is to the left of
\* them adds the pairs; one that is not calls func, and adds the pairs unless the
\* other leaf, which moved as well, has done so.
MarkLeafQuery(m, st, o, left, met) ==
  IF left THEN [m EXCEPT !.pairs = PairInsert(@, {<<o, s>> : s \in met})]
  ELSE [m EXCEPT !.pairs = PairInsert(@, {<<s, o>> : s \in {s \in met : st.stamp[s] < st.stamp[o]}}),
                 !.calls = Call(@, o, met)]

\* MarkLeaf(): a leaf that moved in this step looks for its pairs, another one
\* calls func for the cached pairs of which it is the second.
MarkLeaf(m, st, o, ix, staticRoot) ==
  LET met(n) == ToSet(SubtreeQuery(n, st.box[o], st.box))
      static == MarkLeafQuery(m, st, o, FALSE, met(staticRoot))
      beside == Beside(st.tree[ix], o)
  IN  IF st.stamp[o] = st.now
      THEN FoldSet(LAMBDA s, acc : MarkLeafQuery(acc, st, o, s.left, met(s.tree)), static, beside)
      ELSE [m EXCEPT !.calls = @ (+) [P \in {{P[1], o} : P \in {P \in DOMAIN m.pairs : P[2] = o}}
                                        |-> BagCardinality([Q \in {Q \in DOMAIN m.pairs :
                                               Q[2] = o /\ {Q[1], o} = P} |-> m.pairs[Q]])]]

MarkSubtree(st, ix, staticRoot) ==
  FoldLeft(LAMBDA m, o : MarkLeaf(m, st, o, ix, staticRoot),
           [pairs |-> st.pairs, calls |-> NoCalls], Leaves(st.tree[ix]))

\* GetBB(): the tree of dynamic shapes makes boxes larger, most where the shape goes.
GetBB(ix, bb, v) ==
  LET x == Width \div 10
  IN  IF ix = STATIC THEN bb
      ELSE [l |-> bb.l + Least(-x, v), r |-> bb.r - Least(-x, -v)]

\* LeafUpdate() of a shape whose box is now bb.
LeafUpdate(st, o, ix, bb, v) ==
  LET box == [st.box EXCEPT ![o] = GetBB(ix, bb, v)]
  IN  IF BBContainsBB(st.box[o], bb) THEN st
      ELSE [st EXCEPT !.box = box,
                      !.tree[ix] = SubtreeInsert(SubtreeRemove(@, o, box), o, box),
                      !.pairs = PairsClear(@, o),
                      !.stamp[o] = st.now]

\* (faulty: a static leaf that enters is not paired)
LeafAddPairsDynamic(st, o, ix) ==
  [st EXCEPT !.pairs = IF ix = STATIC THEN @
     ELSE MarkLeaf([pairs |-> @, calls |-> NoCalls], st, o, ix, st.tree[STATIC]).pairs]

\* LeafAddPairs(): a static leaf is paired with the dynamic tree.
LeafAddPairs(st, o, ix) ==
  [st EXCEPT !.pairs =
     IF ix = STATIC THEN PairInsert(@, {<<o, s>> : s \in ToSet(SubtreeQuery(st.tree[DYNAMIC], st.box[o], st.box))})
     ELSE MarkLeaf([pairs |-> @, calls |-> NoCalls], st, o, ix, st.tree[STATIC]).pairs]

IncrementStamp(st) == [st EXCEPT !.now = @ + 1]

-----------------------------------------------------------------------------
(* Optimizing *)

\* The loop of partitionNodes() that moves the leaves nearer to the right half to
\* the end: the number of leaves before them, and all leaves.
RECURSIVE Partition(_, _, _, _)
Partition(nodes, left, right, rightward) ==
  IF left > right THEN [count |-> right, nodes |-> nodes]
  ELSE IF nodes[left] \in rightward
       THEN Partition([nodes EXCEPT ![left] = nodes[right], ![right] = nodes[left]],
                      left, right - 1, rightward)
       ELSE Partition(nodes, left + 1, right, rightward)

RECURSIVE PartitionNodes(_, _)
PartitionNodes(nodes, box) ==
  LET bb == FoldLeft(LAMBDA b, o : BBMerge(b, box[o]), box[nodes[1]], nodes)
      bounds == SortSeq(FoldLeft(LAMBDA b, o : b \o <<box[o].l, box[o].r>>, <<>>, nodes),
                        LAMBDA x, y : x < y)
      split == bounds[Len(nodes)] + bounds[Len(nodes) + 1]     \* twice the median
      twice(b) == [l |-> 2 * b.l, r |-> 2 * b.r]
      a == [twice(bb) EXCEPT !.r = split]
      b == [twice(bb) EXCEPT !.l = split]
      rightward == {o \in ToSet(nodes) :
                      BBMergedArea(twice(box[o]), b) < BBMergedArea(twice(box[o]), a)}
      part == Partition(nodes, 1, Len(nodes), rightward)
  IN  IF Len(nodes) = 1 THEN Leaf(nodes[1])
      ELSE IF Len(nodes) = 2 THEN NodeNew(Leaf(nodes[1]), Leaf(nodes[2]), box)
      ELSE IF part.count = Len(nodes)
      THEN FoldLeft(LAMBDA n, o : SubtreeInsert(n, o, box), EmptyTree, part.nodes)
      ELSE NodeNew(PartitionNodes(SubSeq(part.nodes, 1, part.count), box),
                   PartitionNodes(SubSeq(part.nodes, part.count + 1, Len(nodes)), box), box)

-----------------------------------------------------------------------------
(* Operations *)

TreeInit ==
  bbt = [tree |-> [ix \in {STATIC, DYNAMIC} |-> EmptyTree],
         box |-> [o \in Shape |-> BB(0)], stamp |-> [o \in Shape |-> 0],
         now |-> 0, pairs |-> EmptyBag, queried |-> FALSE]

Done(st) == bbt' = [st EXCEPT !.queried = FALSE]

\* cpBBTreeInsert()
TreeInsert(o, ix, p, v) ==
  LET box == [bbt.box EXCEPT ![o] = GetBB(ix, BB(p), v)]
  IN  /\ Enter(o, ix, p)
      /\ Done(IncrementStamp(LeafAddPairs(
           [bbt EXCEPT !.box = box, !.tree[ix] = SubtreeInsert(@, o, box),
                       !.stamp[o] = bbt.now], o, ix)))

\* cpBBTreeRemove()
TreeRemove(o) ==
  /\ Leave(o)
  /\ Done([bbt EXCEPT !.tree[index[o]] = SubtreeRemove(@, o, bbt.box),
                      !.pairs = PairsClear(@, o), !.box[o] = BB(0), !.stamp[o] = 0])

\* cpSpaceReindexShape(): cpBBTreeReindexObject() of both trees, of which the one
\* that has no such leaf does nothing
TreeReindexObject(o, p, v) ==
  LET st == LeafUpdate(bbt, o, index[o], BB(p), v)
  IN  /\ index[o] \in {STATIC, DYNAMIC}
      /\ Update([s \in {o} |-> p]) /\ calls' = NoCalls
      /\ Done(IncrementStamp(IF st.box = bbt.box THEN st ELSE LeafAddPairs(st, o, index[o])))

\* LeafUpdateWrap() of all leaves of a tree
LeavesUpdated(ix, new, v) ==
  FoldLeft(LAMBDA st, o : LeafUpdate(st, o, ix, BB(new[o]), v), bbt, Ordered(In(ix)))

\* cpSpaceReindexStatic(): cpBBTreeReindex() looks for pairs within the tree of
\* static shapes only; the pairs of the leaves that move with dynamic shapes go.
TreeReindexStatic(new) ==
  LET st == LeavesUpdated(STATIC, new, 0)
  IN  /\ In(STATIC) # {}
      /\ Careful => In(DYNAMIC) = {}
      /\ Update(new) /\ calls' = NoCalls
      /\ Done(IncrementStamp([st EXCEPT !.pairs = MarkSubtree(st, STATIC, EmptyTree).pairs]))

\* The broad phase of a step: the boxes of all dynamic shapes are updated, then
\* cpBBTreeReindexQuery() of their tree.
TreeReindexQuery(new, v) ==
  LET st == LeavesUpdated(DYNAMIC, new, v)
      m == MarkSubtree(st, DYNAMIC, st.tree[STATIC])
  IN  /\ In(DYNAMIC) # {}
      /\ Update(new)
      /\ calls' = m.calls
      /\ bbt' = IncrementStamp([st EXCEPT !.pairs = m.pairs, !.queried = TRUE])

\* cpBBTreeOptimize()
TreeOptimize(ix) ==
  /\ In(ix) # {}
  /\ Done([bbt EXCEPT !.tree[ix] = PartitionNodes(Ordered(In(ix)), bbt.box)])
  /\ Stay

TreeNext ==
  \/ \E o \in Shape, ix \in {STATIC, DYNAMIC}, p \in Position, v \in Velocity : TreeInsert(o, ix, p, v)
  \/ \E o \in Shape : TreeRemove(o)
  \/ \E o \in Shape, p \in Position, v \in Velocity : TreeReindexObject(o, p, v)
  \/ \E new \in [In(STATIC) -> Position] : TreeReindexStatic(new)
  \/ \E new \in [In(DYNAMIC) -> Position], v \in Velocity : TreeReindexQuery(new, v)
  \/ \E ix \in {STATIC, DYNAMIC} : TreeOptimize(ix)

-----------------------------------------------------------------------------
(* Properties *)

\* The cache is what the next query relies on for leaves that do not move: two
\* leaves whose boxes intersect, not both static, have one cached pair, and no
\* others have one, through insertion, removal, moves to the other tree,
\* reindexing and optimizing.
CacheExact ==
  \A o \in In(DYNAMIC), s \in In(DYNAMIC) \cup In(STATIC) : o # s =>
    CopiesIn(<<o, s>>, bbt.pairs) + CopiesIn(<<s, o>>, bbt.pairs) =
      (IF BBIntersects(bbt.box[o], bbt.box[s]) THEN 1 ELSE 0)
=============================================================================
