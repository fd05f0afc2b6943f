----------------------------- MODULE ConvexHull -----------------------------
(***************************************************************************)
(* cpConvexHull(): QuickHull on an array that holds the points not yet     *)
(* looked at and, before them, the hull found so far.  Points have integer *)
(* coordinates and the tolerance is 0.                                     *)
(***************************************************************************)
EXTENDS Integers, Sequences

CONSTANTS
  Spot,        \* the points, <<x, y>>
  MaxVerts     \* bound: how many are given

ASSUME HullAssumption == Spot \subseteq Int \X Int /\ MaxVerts \in Nat

\* verts: the points given; result: the array, of which the first count are the hull;
\* first.  Arrays begin at 0.
VARIABLE hull

Cross(u, v) == u[1] * v[2] - u[2] * v[1]
Sub(u, v) == <<u[1] - v[1], u[2] - v[2]>>
Before(u, v) == u[1] < v[1] \/ (u[1] = v[1] /\ u[2] < v[2])

SwapAt(arr, i, k) == [arr EXCEPT ![i] = arr[k], ![k] = arr[i]]
\* What is read one past the end of the array is not used.
At(arr, i) == IF i \in DOMAIN arr THEN arr[i] ELSE <<0, 0>>

\* cpLoopIndexes(): the first of the least and the first of the greatest points.
LoopIndexes(verts) ==
  [start |-> CHOOSE i \in DOMAIN verts : \A k \in DOMAIN verts :
               ~Before(verts[k], verts[i]) /\ (verts[k] = verts[i] => i <= k),
   end |-> CHOOSE i \in DOMAIN verts : \A k \in DOMAIN verts :
               ~Before(verts[i], verts[k]) /\ (verts[k] = verts[i] => i <= k)]

\* The points of arr[v .. v + count - 1] on the outer side of a b come first, the
\* farthest of them foremost.
RECURSIVE Divided(_, _, _, _, _, _, _)
Divided(arr, head, tail, a, b, max, pivot) ==
  IF head > tail THEN [arr |-> arr, head |-> head, pivot |-> pivot]
  ELSE LET value == Cross(Sub(arr[head], a), Sub(b, a))
       IN  IF value > 0
           THEN IF value > max THEN Divided(arr, head + 1, tail, a, b, value, head)
                ELSE Divided(arr, head + 1, tail, a, b, max, pivot)
           ELSE Divided(SwapAt(arr, head, tail), head, tail - 1, a, b, max, pivot)

\* (faulty: the farthest point stays where it is)
PartitionOnly(arr, v, count, a, b) ==
  LET p == Divided(arr, v, v + count - 1, a, b, 0, v) IN [arr |-> p.arr, n |-> p.head - v]
QHullPartition(arr, v, count, a, b) ==
  LET p == Divided(arr, v, v + count - 1, a, b, 0, v)
  IN  [arr |-> IF count = 0 THEN arr ELSE SwapAt(p.arr, v, p.pivot), n |-> p.head - v]

\* The hull from a over pivot to before b is written from result on; n is its length.
RECURSIVE QHullReduce(_, _, _, _, _, _, _)
QHullReduce(arr, v, count, a, pivot, b, result) ==
  IF count < 0 THEN [arr |-> arr, n |-> 0]
  ELSE IF count = 0 THEN [arr |-> [arr EXCEPT ![result] = pivot], n |-> 1]
  ELSE LET left == QHullPartition(arr, v, count, a, pivot)
           lhull == QHullReduce(left.arr, v + 1, left.n - 1, a, left.arr[v], pivot, result)
           next == v + left.n
           right == QHullPartition([lhull.arr EXCEPT ![result + lhull.n] = pivot], next, count - left.n, pivot, b)
           rhull == QHullReduce(right.arr, next + 1, right.n - 1, pivot, At(right.arr, next), b,
                                result + lhull.n + 1)
       IN  [arr |-> rhull.arr, n |-> lhull.n + 1 + rhull.n]

ConvexHullOf(verts) ==
  LET ix == LoopIndexes(verts)
      ends == SwapAt(SwapAt(verts, 0, ix.start), 1, IF ix.end = 0 THEN ix.start ELSE ix.end)
      size == 1 + (CHOOSE m \in DOMAIN verts : \A k \in DOMAIN verts : k <= m)
      reduced == QHullReduce(ends, 2, size - 2, ends[0], ends[1], ends[0], 1)
  IN  IF ix.start = ix.end THEN [verts |-> verts, result |-> verts, count |-> 1, first |-> 0]
      ELSE [verts |-> verts, result |-> reduced.arr, count |-> reduced.n + 1, first |-> ix.start]

-----------------------------------------------------------------------------

HullInit == hull = [verts |-> <<>>, result |-> <<>>, count |-> 0, first |-> 0]
HullNext ==
  /\ hull.count = 0
  /\ \E n \in 1 .. MaxVerts : \E verts \in [0 .. n - 1 -> Spot] : hull' = ConvexHullOf(verts)

\* The result is the convex hull of what was given, although the points are moved
\* about in the array into which it is written: distinct points, in counter-clockwise
\* order, with none of the points to the right of an edge, and "verts[first] ==
\* result[0]" (chipmunk.h).
HullRight ==
  hull.count > 0 =>
    LET H == [i \in 0 .. hull.count - 1 |-> hull.result[i]]
        Points == {hull.verts[i] : i \in DOMAIN hull.verts}
        Edge(i) == Sub(H[(i + 1) % hull.count], H[i])
        Collinear == \A p, q, r \in Points : Cross(Sub(q, p), Sub(r, p)) = 0
    IN  /\ hull.result[0] = hull.verts[hull.first]
        /\ \A i, k \in DOMAIN H : H[i] \in Points /\ (i # k => H[i] # H[k])
        /\ \A i \in DOMAIN H, p \in Points : Cross(Edge(i), Sub(p, H[i])) >= 0
        /\ Collinear => \A p \in Points : ~Before(p, H[0]) /\ ~Before(H[hull.count - 1], p)
        /\ (hull.count <= 2) <=> Collinear
=============================================================================
