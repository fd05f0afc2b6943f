------------------------------ MODULE SpaceQuery ------------------------------
(***************************************************************************)
(* The queries of a space whose indexes are trees: which shapes they       *)
(* report, and which they return.  A shape fills its interval, so that the *)
(* narrow phase is a comparison of numbers.                                *)
(***************************************************************************)
EXTENDS BBTree

CONSTANTS
  Sensor,   \* the shapes that are sensors
  Filter,   \* sets of shapes that the filter of a query does not reject
  Point     \* the points asked for, [x, max]: within max of x

ASSUME QueryAssumption == Sensor \subseteq Shape /\ Filter \subseteq SUBSET Shape

SpatialIndexQuery(ix, bb) == SubtreeQuery(bbt.tree[ix], bb, bbt.box)
DynamicThenStatic(bb) == SpatialIndexQuery(DYNAMIC, bb) \o SpatialIndexQuery(STATIC, bb)
SpatialIndexSegmentQuery(ix, s, exit, back) ==
  IF bbt.tree[ix] = EmptyTree THEN [exit |-> exit, met |-> {}]
  ELSE SubtreeSegmentQuery(bbt.tree[ix], s, bbt.box, [exit |-> exit, met |-> {}], back)

\* cpShapePointQuery(): negative inside
PointDistance(o, x) ==
  LET b == BB(pos[o]) IN IF x < b.l THEN b.l - x ELSE IF x > b.r THEN x - b.r ELSE -Least(x - b.l, b.r - x)
SegmentAlpha(o, s) == SegmentHit(BB(pos[o]), s.x, s.dir, s.far)
CircleBB(q) == LET r == IF q.max > 0 THEN q.max ELSE 0 IN [l |-> q.x - r, r |-> q.x + r]

\* cpSpacePointQuery(): the shapes func is called for
PointQuery(q, passed) ==
  {o \in ToSet(DynamicThenStatic(CircleBB(q))) : o \in passed /\ PointDistance(o, q.x) < q.max}

\* cpSpacePointQueryNearest(): the distance of what it returns
PointQueryNearest(q, passed) ==
  FoldLeft(LAMBDA out, o : IF o \in passed \ Sensor THEN Least(out, PointDistance(o, q.x)) ELSE out,
           q.max, DynamicThenStatic(CircleBB(q)))

\* cpSpaceSegmentQuery(): a callback that never brings the end of the query nearer
SegmentQuery(s, passed) ==
  LET back == [o \in Shape |-> s.far]
      met == UNION {SpatialIndexSegmentQuery(ix, s, s.far, back).met : ix \in {STATIC, DYNAMIC}}
  IN  {o \in met \cap passed : SegmentAlpha(o, s) <= s.far}

\* cpSpaceSegmentQueryFirst(): the dynamic shapes are asked up to the static hit.
SegmentQueryFirst(s, passed) ==
  LET back == [o \in Shape |-> IF o \in passed \ Sensor THEN SegmentAlpha(o, s) ELSE 2 * s.far]
  IN  SpatialIndexSegmentQuery(DYNAMIC, s, SpatialIndexSegmentQuery(STATIC, s, s.far, back).exit, back).exit

\* cpSpaceBBQuery()
BBQuery(bb, passed) ==
  {o \in ToSet(DynamicThenStatic(bb)) : o \in passed /\ BBIntersects(bb, BB(pos[o]))}

\* cpSpaceShapeQuery() with a shape at p: each that it touches overwrites what was
\* known of anyCollision.
ShapeQuery(p, passed) ==
  LET touched == SelectSeq(DynamicThenStatic(BB(p)),
                           LAMBDA o : o \in passed /\ BBIntersects(BB(p), BB(pos[o])))
  IN  [met |-> ToSet(touched), any |-> touched # <<>> /\ Last(touched) \notin Sensor]

-----------------------------------------------------------------------------
(* Property *)

Indexed == In(STATIC) \cup In(DYNAMIC)
LeastOf(far, S) == FoldSet(Least, far, S)

\* The queries give the answers that asking every shape of the space would give,
\* although the index looks only where its boxes, enlarged and as of the last update,
\* say so, and a segment only as far as its nearest hit.  That cpSpaceShapeQuery()
\* returns whether there was a collision holds unless sensors are touched as well.
QueriesAnswer ==
  \A passed \in Filter :
    LET seen == Indexed \cap passed IN
    /\ \A q \in Point :
         /\ PointQuery(q, passed) = {o \in seen : PointDistance(o, q.x) < q.max}
         /\ PointQueryNearest(q, passed) = LeastOf(q.max, {PointDistance(o, q.x) : o \in seen \ Sensor})
    /\ \A s \in Segment :
         /\ {o \in seen : SegmentAlpha(o, s) < s.far} \subseteq SegmentQuery(s, passed)
         /\ SegmentQuery(s, passed) \subseteq {o \in seen : SegmentAlpha(o, s) <= s.far}
         /\ SegmentQueryFirst(s, passed) = LeastOf(s.far, {SegmentAlpha(o, s) : o \in seen \ Sensor})
    /\ \A p \in Position :
         LET touched == {o \in seen : BBIntersects(BB(p), BB(pos[o]))} IN
         /\ BBQuery(BB(p), passed) = touched
         /\ ShapeQuery(p, passed).met = touched
         /\ (Careful => touched \cap Sensor = {}) =>
              ShapeQuery(p, passed).any = (touched \ Sensor # {})
=============================================================================
