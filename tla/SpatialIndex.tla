----------------------------- MODULE SpatialIndex -----------------------------
(***************************************************************************)
(* What cpSpatialIndex promises a cpSpace, whichever of the three indexes  *)
(* it is: shapes are put into the index of static or of dynamic shapes,    *)
(* and cpSpatialIndexReindexQuery() calls a function for the pairs that    *)
(* may touch.  Boxes are intervals [l, r]: the other axis adds nothing to  *)
(* which pairs are found and how often.                                    *)
(***************************************************************************)
EXTENDS Integers, Sequences, FiniteSets, Bags

CONSTANTS
  Shape,       \* the shapes, by their hashid
  Width,       \* of every shape
  Position,    \* where the left edge of a shape can be
  MaxOps,      \* bound: shapes added, removed and updated (every broad phase is an update)
  Segment,     \* the segments asked for, [x, dir, far]: far from x to the right or left
  Careful      \* the program avoids what is known to lose or repeat pairs

ASSUME IndexAssumption ==
  /\ Shape \subseteq Nat \ {0} /\ Width \in Nat /\ Position \subseteq Int /\ MaxOps \in Nat /\ Careful \in BOOLEAN

VARIABLES
  index,    \* the index each shape is in, NULL before it is added, and LEFT
  pos,      \* shape->bb.l, as last updated
  ops,      \* shapes added, removed and updated so far
  calls     \* what the last cpSpatialIndexReindexQuery() called func for

indexVars == <<index, pos, ops, calls>>

NULL == "NULL"
LEFT == "LEFT"
STATIC == "staticShapes"
DYNAMIC == "dynamicShapes"

In(ix) == {o \in Shape : index[o] = ix}

BB(p) == [l |-> p, r |-> p + Width]        \* the index's bbfunc
BBIntersects(a, b) == a.l <= b.r /\ b.l <= a.r
BBContainsBB(a, b) == a.l <= b.l /\ b.r <= a.r
BBMerge(a, b) == [l |-> IF a.l < b.l THEN a.l ELSE b.l, r |-> IF a.r > b.r THEN a.r ELSE b.r]

\* cpBBSegmentQuery(): how far along a ray from x a box begins, 2 * far when it is
\* not met within far.  dir is 1 to the right and -1 to the left.
SegmentHit(b, x, dir, far) ==
  LET near == IF dir = 1 THEN b.l - x ELSE x - b.r
      away == IF dir = 1 THEN b.r - x ELSE x - b.l
  IN  IF away < 0 \/ near > far THEN 2 * far ELSE IF near < 0 THEN 0 ELSE near
Least(a, b) == IF a < b THEN a ELSE b

\* The calls of func are a bag of unordered pairs.
NoCalls == EmptyBag
Call(made, o, others) == made (+) SetToBag({{o, s} : s \in others})

\* The shapes of an index in the order of its hash set: all hashids are smaller
\* than its size, so each is alone in its bin.
Ordered(S) == [i \in 1 .. Cardinality(S) |-> CHOOSE o \in S : Cardinality({s \in S : s < o}) = i - 1]

IndexInit ==
  /\ index = [o \in Shape |-> NULL]
  /\ pos = [o \in Shape |-> CHOOSE p \in Position : TRUE]
  /\ ops = 0 /\ calls = NoCalls

\* A shape is added, and gets the next hashid, or it comes from the other index
\* because its body falls asleep, wakes or changes its type.
Enter(o, ix, p) ==
  /\ ops < MaxOps /\ ops' = ops + 1
  /\ index[o] \in {NULL, LEFT} /\ \A s \in Shape : s < o => index[s] # NULL
  /\ index' = [index EXCEPT ![o] = ix]
  /\ pos' = [pos EXCEPT ![o] = p]
  /\ calls' = NoCalls

Leave(o) ==
  /\ ops < MaxOps /\ ops' = ops + 1
  /\ index[o] \in {STATIC, DYNAMIC}
  /\ index' = [index EXCEPT ![o] = LEFT]
  /\ pos' = [pos EXCEPT ![o] = CHOOSE p \in Position : TRUE]
  /\ calls' = NoCalls

\* What only asks, or rearranges an index.
Stay == calls' = NoCalls /\ UNCHANGED <<index, pos, ops>>

\* The boxes of some shapes are computed again.
Update(new) ==
  /\ pos' = [o \in Shape |-> IF o \in DOMAIN new THEN new[o] ELSE pos[o]]
  /\ ops < MaxOps /\ ops' = ops + 1
  /\ index' = index

-----------------------------------------------------------------------------
(* Properties *)

Overlapping ==
  {{o, s} : o \in In(DYNAMIC), s \in In(DYNAMIC) \cup In(STATIC)} \cap
  {P \in SUBSET Shape : Cardinality(P) = 2 /\
     \A o, s \in P : BB(pos[o]).l < BB(pos[s]).r}

\* cpSpatialIndexReindexQuery() calls its function for every two shapes that
\* overlap, not both static: whatever was moved, removed, put into the other
\* index or queried before, and although the indexes remember in stamps, cached
\* pairs and orphaned handles what they have seen.  queried is the kind of step
\* that has just ended.
MissesNone(queried) == queried => \A P \in Overlapping : BagIn(P, calls)

\* ... and calls it once for each of them: a second call would solve the same
\* contacts twice ("func will be called once for each potentially overlapping
\* pair of objects found").
CalledOnce == \A P \in BagToSet(calls) : calls[P] = 1 /\ Cardinality(P) = 2
=============================================================================
