------------------------------- MODULE Sweep1D -------------------------------
(***************************************************************************)
(* cpSweep1D: an array of shapes with their bounds on one axis, sorted for *)
(* each query of pairs.                                                    *)
(***************************************************************************)
EXTENDS SpatialIndex, SequencesExt

\* swp.table: the cells of each index, [obj, bounds]; at: where the two loops of a
\* ReindexQuery are, the cells 1 .. n of the sweep and behind them those asked of the
\* static index (0: none runs); queried: the last step ended a ReindexQuery.
VARIABLE swp

MakeTableCell(o, p) == [obj |-> o, bounds |-> BB(p)]

SweepInit == swp = [table |-> [ix \in {STATIC, DYNAMIC} |-> <<>>], at |-> 0, queried |-> FALSE]

\* No operation comes between the steps of a ReindexQuery: the space is locked.
Idle == swp.at = 0
SweepDone(table) == Idle /\ swp' = [table |-> table, at |-> 0, queried |-> FALSE]

SweepInsert(o, ix, p) ==
  /\ Enter(o, ix, p)
  /\ SweepDone([swp.table EXCEPT ![ix] = Append(@, MakeTableCell(o, p))])

\* The last cell takes the place of the removed one.
RemoveCell(table, o) ==
  LET at == CHOOSE i \in DOMAIN table : table[i].obj = o
  IN  [i \in 1 .. Len(table) - 1 |-> IF i = at THEN Last(table) ELSE table[i]]

SweepRemove(o) == Leave(o) /\ SweepDone([swp.table EXCEPT ![index[o]] = RemoveCell(@, o)])

\* cpSweep1DReindexObject() and cpSweep1DReindex() do nothing: a shape that moves is
\* found at its old place until the next ReindexQuery, a static one forever.
SweepReindexObject(o, p) ==
  /\ index[o] \in {STATIC, DYNAMIC}
  /\ Careful => index[o] = DYNAMIC
  /\ Update([s \in {o} |-> p]) /\ calls' = NoCalls
  /\ SweepDone(swp.table)

-----------------------------------------------------------------------------
(* cpSweep1DReindexQuery() *)

\* (faulty: not sorted)
UpdatedCells(table, new) == {[i \in DOMAIN table |-> MakeTableCell(table[i].obj, new[table[i].obj])]}

\* The bounds are computed again and the table is sorted by where they begin: qsort()
\* leaves open which of two that begin together comes first.
SortedCells(table, new) ==
  {t \in {[i \in DOMAIN table |-> MakeTableCell(table[f[i]].obj, new[table[f[i]].obj])] :
            f \in Bijection(DOMAIN table, DOMAIN table)} :
     \A i, j \in DOMAIN table : i < j => t[i].bounds.l <= t[j].bounds.l}

SweepBegin(new) ==
  /\ Idle /\ In(DYNAMIC) # {}
  /\ Update(new) /\ calls' = NoCalls
  /\ \E sorted \in SortedCells(swp.table[DYNAMIC], new) :
       swp' = [table |-> [swp.table EXCEPT ![DYNAMIC] = sorted], at |-> 1, queried |-> FALSE]

Swept == Len(swp.table[DYNAMIC])
Onward == swp' = [swp EXCEPT !.at = @ + 1] /\ UNCHANGED <<index, pos, ops>>

\* The inner loop: the cells behind i until one begins at or behind the end of i.
SweepOn(table, i) ==
  {table[j].obj : j \in {j \in i + 1 .. Len(table) :
                           \A k \in i + 1 .. j : table[k].bounds.l < table[i].bounds.r}}

SweepCell ==
  /\ swp.at \in 1 .. Swept
  /\ calls' = Call(calls, swp.table[DYNAMIC][swp.at].obj, SweepOn(swp.table[DYNAMIC], swp.at))
  /\ Onward

\* cpSweep1DQuery(): bounds that only touch are not left out.
SweepQuery(table, made, o, bounds) ==
  Call(made, o, {cell.obj : cell \in {cell \in ToSet(table) : BBIntersects(bounds, cell.bounds)}} \ {o})

\* cpSpatialIndexCollideStatic() asks the static index, unless that is empty.
SweepStatic ==
  /\ swp.at - Swept \in 1 .. Swept /\ swp.table[STATIC] # <<>>
  /\ LET o == swp.table[DYNAMIC][swp.at - Swept].obj
     IN  calls' = SweepQuery(swp.table[STATIC], calls, o, BB(pos[o]))
  /\ Onward

SweepEnd ==
  /\ swp.at > (IF swp.table[STATIC] = <<>> THEN Swept ELSE 2 * Swept)
  /\ swp' = [swp EXCEPT !.at = 0, !.queried = TRUE]
  /\ UNCHANGED indexVars

SweepNext ==
  \/ \E o \in Shape, ix \in {STATIC, DYNAMIC}, p \in Position : SweepInsert(o, ix, p)
  \/ \E o \in Shape : SweepRemove(o)
  \/ \E o \in Shape, p \in Position : SweepReindexObject(o, p)
  \/ \E new \in [In(DYNAMIC) -> Position] : SweepBegin(new)
  \/ SweepCell
  \/ SweepStatic
  \/ SweepEnd

SweepSpec == IndexInit /\ SweepInit /\ [][SweepNext]_<<indexVars, swp>>

\* A ReindexQuery of cpSweep1D reports every pair that overlaps and none twice
\* (MissesNone, CalledOnce), whatever was added, removed and moved before and however
\* equal bounds were sorted; MissesNone only if no static shape was moved.
SweepReportsOnce == (Careful => MissesNone(swp.queried)) /\ CalledOnce
=============================================================================
