------------------------------ MODULE SpaceHash ------------------------------
(***************************************************************************)
(* cpSpaceHash: each index keeps a handle for every shape in it, and a bin *)
(* with that handle in every cell the shape's box meets.  Handles are      *)
(* counted and pooled; removing a shape leaves its handle orphaned in the  *)
(* cells until a query or a rehash meets it.  Stamps say which handles the *)
(* current query has seen.                                                 *)
(***************************************************************************)
EXTENDS SpatialIndex, SequencesExt

CONSTANTS
  CellDim,    \* width of a cell
  Cells       \* numcells: the table, in which distant cells share a slot

ASSUME HashAssumption == CellDim \in Nat \ {0} /\ Cells \in Nat \ {0}

\* hsh.of[ix]: table: the handles in each slot; obj, retain: of each handle; pooled: the
\* pool; set: the handle of each shape (0: none).
\* hsh.loop: where a ReindexQuery is: phase; rest: the shapes it has still to do, the
\* foremost of them at cell; seen: the handles with the stamp of this query.
\* hsh.queried: the last step ended a ReindexQuery.
VARIABLE hsh

NoObj == 0
NoLoop == [phase |-> "none", rest |-> {}, cell |-> 0, seen |-> {}]

-----------------------------------------------------------------------------
(* Handles and bins *)

BinsOf(table, hand) == {c \in DOMAIN table : hand \in table[c]}

\* cpHandleRelease()
Release(h, hand) ==
  [h EXCEPT !.retain[hand] = @ - 1, !.pooled = IF h.retain[hand] = 1 THEN Append(@, hand) ELSE @]

\* handleSetTrans(): the pool grows by one handle when it is exhausted.
NewHandle(h, o) ==
  LET fresh == Len(h.obj) + 1
      hand == Last(h.pooled)
  IN  IF h.pooled = <<>>
      THEN [h EXCEPT !.obj = Append(@, o), !.retain = Append(@, 1), !.set[o] = fresh]
      ELSE [h EXCEPT !.obj[hand] = o, !.retain[hand] = 1, !.pooled = Front(@), !.set[o] = hand]

\* hashHandle(), for any handles and slots: each bin retains its handle, and a slot has
\* no second one for it.
Link(h, added) ==
  LET fresh == [c \in DOMAIN added |-> added[c] \ h.table[c]]
  IN  [h EXCEPT !.table = [c \in DOMAIN @ |-> @[c] \cup added[c]],
                !.retain = [hand \in DOMAIN @ |-> @[hand] + Cardinality(BinsOf(fresh, hand))]]

\* (faulty: every handle that loses a bin goes to the pool)
UnlinkEarly(h, dropped) ==
  [h EXCEPT !.table = [c \in DOMAIN @ |-> @[c] \ dropped[c]],
            !.retain = [hand \in DOMAIN @ |-> @[hand] - Cardinality(BinsOf(dropped, hand))],
            !.pooled = @ \o SetToSeq({hand \in DOMAIN h.retain : BinsOf(dropped, hand) # {}})]

\* Bins are recycled and release their handles; in which order those that nobody
\* retains get into the pool is left out.
Unlink(h, dropped) ==
  LET left == [hand \in DOMAIN h.retain |-> h.retain[hand] - Cardinality(BinsOf(dropped, hand))]
      free == {hand \in DOMAIN left : BinsOf(dropped, hand) # {} /\ left[hand] = 0}
  IN  [h EXCEPT !.table = [c \in DOMAIN @ |-> @[c] \ dropped[c]],
                !.retain = left, !.pooled = @ \o SetToSeq(free)]

ClearTable(h) == Unlink(h, h.table)
RemoveOrphanedHandles(h, C) ==
  Unlink(h, [c \in DOMAIN h.table |->
               IF c \in C THEN {hand \in h.table[c] : h.obj[hand] = NoObj} ELSE {}])

\* The slots of a box's cells.
CellsOf(bb) == {i % Cells : i \in bb.l \div CellDim .. bb.r \div CellDim}
Into(h, hand, C) == Link(h, [c \in DOMAIN h.table |-> IF c \in C THEN {hand} ELSE {}])

HashEntered(h, o, p) == LET g == NewHandle(h, o) IN Into(g, g.set[o], CellsOf(BB(p)))
\* The handle of a shape that leaves stays in the cells.
HashLeft(h, o) == [Release([h EXCEPT !.obj[h.set[o]] = NoObj], h.set[o]) EXCEPT !.set[o] = 0]

-----------------------------------------------------------------------------
(* Operations *)

HashInit ==
  hsh = [of |-> [ix \in {STATIC, DYNAMIC} |->
                   [table |-> [c \in 0 .. Cells - 1 |-> {}], obj |-> <<>>, retain |-> <<>>,
                    pooled |-> <<>>, set |-> [o \in Shape |-> 0]]],
         loop |-> NoLoop, queried |-> FALSE]

\* No operation comes between the steps of a ReindexQuery: the space is locked.
HashDone(of) == hsh.loop = NoLoop /\ hsh' = [of |-> of, loop |-> NoLoop, queried |-> FALSE]
HashOne(ix, h) == HashDone([hsh.of EXCEPT ![ix] = h])

\* cpSpaceHashInsert()
HashInsert(o, ix, p) == Enter(o, ix, p) /\ HashOne(ix, HashEntered(hsh.of[ix], o, p))

\* cpSpaceHashRemove()
HashRemove(o) == Leave(o) /\ HashOne(index[o], HashLeft(hsh.of[index[o]], o))

\* cpSpaceHashRehashObject(): a handle of its own for the new place
HashReindexObject(o, p) ==
  /\ index[o] \in {STATIC, DYNAMIC}
  /\ Update([s \in {o} |-> p]) /\ calls' = NoCalls
  /\ HashOne(index[o], HashEntered(HashLeft(hsh.of[index[o]], o), o, p))

\* cpSpaceHashRehash(), for cpSpaceReindexStatic()
Rehashed(h, ix, new) ==
  Link(ClearTable(h), [c \in DOMAIN h.table |-> {h.set[o] : o \in {o \in In(ix) : c \in CellsOf(BB(new[o]))}}])

HashReindexStatic(new) ==
  /\ In(STATIC) # {}
  /\ Update(new) /\ calls' = NoCalls
  /\ HashOne(STATIC, Rehashed(hsh.of[STATIC], STATIC, new))

\* cpSpaceHashResize() empties the table, and shapes are found again when they are
\* reindexed.
HashResize ==
  /\ Careful => In(STATIC) = {} /\ In(DYNAMIC) = {}
  /\ HashDone([ix \in DOMAIN hsh.of |-> ClearTable(hsh.of[ix])])
  /\ Stay

-----------------------------------------------------------------------------
(* cpSpaceHashReindexQuery() and cpSpatialIndexCollideStatic() *)

\* The shapes come in the order of the hash set of handles, which is left open.
Foremost(S) == CHOOSE o \in S : TRUE

LoopOver(phase, S, where) ==
  [phase |-> phase, rest |-> S, cell |-> BB(where[Foremost(S)]).l \div CellDim, seen |-> {}]

HashBegin(new) ==
  /\ hsh.loop = NoLoop /\ In(DYNAMIC) # {}
  /\ Update(new) /\ calls' = NoCalls
  /\ hsh' = [of |-> [hsh.of EXCEPT ![DYNAMIC] = ClearTable(@)],
             loop |-> LoopOver("rehash", In(DYNAMIC), new), queried |-> FALSE]

\* cpSpaceHashReindexQuery() of no shape clears the table of what is orphaned in it.
HashBeginNone ==
  /\ hsh.loop = NoLoop /\ In(DYNAMIC) = {}
  /\ Stay
  /\ hsh' = [of |-> [hsh.of EXCEPT ![DYNAMIC] = ClearTable(@)], loop |-> NoLoop, queried |-> TRUE]

\* The next cell, the next shape, which gets the next stamp, or the other index,
\* unless that is empty.
Onwards(seen) ==
  LET o == Foremost(hsh.loop.rest)
      rest == hsh.loop.rest \ {o}
  IN  IF hsh.loop.cell < BB(pos[o]).r \div CellDim
      THEN [hsh.loop EXCEPT !.cell = @ + 1, !.seen = seen]
      ELSE IF rest # {} THEN LoopOver(hsh.loop.phase, rest, pos)
      ELSE IF hsh.loop.phase = "rehash" /\ In(STATIC) # {} THEN LoopOver("static", In(DYNAMIC), pos)
      ELSE NoLoop

\* query_helper(): func is called for the handles of a cell that this query has not
\* seen.  A query made by func takes the stamp away from all that were seen.
Met(h, c, o) == {hand \in h.table[c] : h.obj[hand] \notin {NoObj, o}} \ hsh.loop.seen
Stamped(met, nested) ==
  IF nested /\ met # {} THEN {CHOOSE hand \in met : TRUE} ELSE hsh.loop.seen \cup met

QueryCell(h, met, nested) ==
  /\ nested => ~Careful
  /\ calls' = Call(calls, Foremost(hsh.loop.rest), {h.obj[hand] : hand \in met})
  /\ UNCHANGED <<index, pos, ops>>

\* queryRehash_helper(): a handle is put into a cell once the others there were
\* queried.
RehashCell(nested) ==
  LET h == hsh.of[DYNAMIC]
      o == Foremost(hsh.loop.rest)
      c == hsh.loop.cell % Cells
      met == IF h.set[o] \in h.table[c] THEN {} ELSE Met(h, c, o)
      next == Onwards(Stamped(met, nested))
  IN  /\ hsh.loop.phase = "rehash"
      /\ QueryCell(h, met, nested)
      /\ hsh' = [of |-> [hsh.of EXCEPT ![DYNAMIC] =
                           IF h.set[o] \in h.table[c] THEN h
                           ELSE Into(RemoveOrphanedHandles(h, {c}), h.set[o], {c})],
                 loop |-> next, queried |-> next = NoLoop]

\* cpSpaceHashQuery() of the static index
StaticCell(nested) ==
  LET h == hsh.of[STATIC]
      c == hsh.loop.cell % Cells
      met == Met(h, c, Foremost(hsh.loop.rest))
      next == Onwards(Stamped(met, nested))
  IN  /\ hsh.loop.phase = "static"
      /\ QueryCell(h, met, nested)
      /\ hsh' = [of |-> [hsh.of EXCEPT ![STATIC] = RemoveOrphanedHandles(h, {c})],
                 loop |-> next, queried |-> next = NoLoop]

-----------------------------------------------------------------------------
(* Segment queries *)

\* cpSpaceHashSegmentQuery() of one index, with a callback that returns the nearest
\* hit so far: cell k of the way is visited if it begins before all hits up to there.
HashSegment(h, s, limit) ==
  LET slot(k) == (s.x \div CellDim + s.dir * k) % Cells
      border == IF s.dir = 1 THEN CellDim - (s.x % CellDim) ELSE s.x % CellDim
      begin(k) == IF k = 0 THEN 0 ELSE (IF border = 0 THEN CellDim ELSE border) + (k - 1) * CellDim
      hits(k) == {SegmentHit(BB(pos[o]), s.x, s.dir, s.far) :
                    o \in {h.obj[hand] : hand \in h.table[slot(k)]} \ {NoObj}}
      exit(K) == Min({limit} \cup UNION {hits(k) : k \in K})
      visited == {k \in 0 .. limit \div CellDim + 1 : begin(k) < exit(0 .. k - 1)}
  IN  [h |-> RemoveOrphanedHandles(h, {slot(k) : k \in visited}), exit |-> exit(visited)]

\* cpSpaceSegmentQueryFirst(): the static shapes, then the dynamic ones up to the hit
SegmentFirst(s) ==
  LET static == HashSegment(hsh.of[STATIC], s, s.far)
      dynamic == HashSegment(hsh.of[DYNAMIC], s, static.exit)
  IN  [of |-> [ix \in {STATIC, DYNAMIC} |-> IF ix = STATIC THEN static.h ELSE dynamic.h],
       exit |-> dynamic.exit]

HashSegmentQuery(s) == Stay /\ HashDone(SegmentFirst(s).of)

HashNext ==
  \/ \E o \in Shape, ix \in {STATIC, DYNAMIC}, p \in Position : HashInsert(o, ix, p)
  \/ \E o \in Shape : HashRemove(o)
  \/ \E o \in Shape, p \in Position : HashReindexObject(o, p)
  \/ \E new \in [In(STATIC) -> Position] : HashReindexStatic(new)
  \/ \E new \in [In(DYNAMIC) -> Position] : HashBegin(new)
  \/ HashBeginNone
  \/ \E nested \in BOOLEAN : RehashCell(nested) \/ StaticCell(nested)
  \/ \E s \in Segment : HashSegmentQuery(s)
  \/ HashResize

HashSpec == IndexInit /\ HashInit /\ [][HashNext]_<<indexVars, hsh>>

-----------------------------------------------------------------------------
(* Properties *)

\* A handle is retained by each cell it is in and by the set, it belongs to the shape
\* the set has it for, and the pool has exactly those nobody retains, once: none is
\* given to another shape while a cell still has it.
HandlesCounted ==
  \A ix \in DOMAIN hsh.of :
    LET h == hsh.of[ix] IN
    /\ \A hand \in DOMAIN h.obj :
         LET bins == Cardinality(BinsOf(h.table, hand))
             held == IF \E o \in Shape : h.set[o] = hand THEN 1 ELSE 0
         IN  /\ h.retain[hand] = bins + held
             /\ Contains(h.pooled, hand) <=> bins + held = 0
             /\ held = 1 <=> h.obj[hand] # NoObj
    /\ IsInjective(h.pooled)

\* A ReindexQuery of a careful program reports every pair that overlaps and none twice
\* (MissesNone, CalledOnce), although shapes share slots and meet in several cells, and
\* whatever was orphaned, pooled and given out again before.
HashReportsOnce == Careful => MissesNone(hsh.queried) /\ CalledOnce

\* Both are about what is in the cells.
HashExact == HandlesCounted /\ HashReportsOnce

\* A segment query finds the nearest shape on its way, although it leaves out what
\* begins behind the nearest hit.  One from the border of a cell to the left passes
\* over the cell there and may miss it: a careful program asks for no such segment.
HashFindsFirst ==
  hsh.loop = NoLoop => \A s \in {s \in Segment : Careful => s.dir = 1 \/ s.x % CellDim # 0} :
    SegmentFirst(s).exit =
      FoldSet(Least, s.far, {SegmentHit(BB(pos[o]), s.x, s.dir, s.far) : o \in In(STATIC) \cup In(DYNAMIC)})
=============================================================================
