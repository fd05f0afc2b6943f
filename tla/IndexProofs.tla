------------------------------ MODULE IndexProofs ------------------------------
(***************************************************************************)
(* Two of the indexes are right for any shapes, places and order of        *)
(* operations: cpSweep1D reports every pair of shapes that overlaps, and   *)
(* none twice; so does cpSpaceHash, and its handles are counted right.     *)
(***************************************************************************)
EXTENDS Sweep1D, SpaceHash, FiniteSetTheorems, SequenceTheorems, TLAPS

Both == {STATIC, DYNAMIC}

\* A shape of an index has a place.
Placed ==
  /\ index \in [Shape -> {NULL, LEFT, STATIC, DYNAMIC}]
  /\ DOMAIN pos = Shape /\ \A o \in Shape : index[o] \in Both => pos[o] \in Int

-----------------------------------------------------------------------------
(* Bags of pairs *)

Once(A) == [P \in A |-> 1]
With(o, others) == {{o, s} : s \in others}

LEMMA NamesDiffer ==
  /\ NULL # STATIC /\ NULL # DYNAMIC /\ LEFT # STATIC /\ LEFT # DYNAMIC /\ STATIC # DYNAMIC
BY DEF NULL, LEFT, STATIC, DYNAMIC

LEMMA CalledMore ==
  ASSUME NEW A, NEW o, NEW others, A \cap With(o, others) = {}
  PROVE  Call(Once(A), o, others) = Once(A \cup With(o, others))
<1> DEFINE B == With(o, others)
<1>1. Once(A) (+) SetToBag(B) = Once(A \cup B)
  <2>0. A \cap B = {}
    OBVIOUS
  <2> HIDE DEF B
  <2>1. DOMAIN Once(A) = A /\ DOMAIN SetToBag(B) = B
    BY DEF Once, SetToBag
  <2>2. \A P \in A \cup B :
          (IF P \in A THEN Once(A)[P] ELSE 0) + (IF P \in B THEN SetToBag(B)[P] ELSE 0) = 1
    BY <2>0 DEF Once, SetToBag
  <2>3. Once(A) (+) SetToBag(B) =
          [P \in A \cup B |-> (IF P \in A THEN Once(A)[P] ELSE 0) +
                             (IF P \in B THEN SetToBag(B)[P] ELSE 0)]
    BY <2>1 DEF (+)
  <2> QED
    BY <2>2, <2>3 DEF Once
<1> QED
  BY <1>1 DEF Call, With

LEMMA Pairs ==
  ASSUME NEW a, NEW b
  PROVE  Cardinality({a, b}) = 2 <=> a # b
<1>1. IsFiniteSet({a}) /\ Cardinality({a}) = 1
  BY FS_Singleton
<1>2. ASSUME a # b PROVE Cardinality({a, b}) = 2
  <2>1. {a, b} = {a} \cup {b} /\ b \notin {a}
    BY <1>2
  <2> QED
    BY <1>1, <2>1, FS_AddElement
<1>3. ASSUME a = b PROVE Cardinality({a, b}) # 2
  <2>1. {a, b} = {a}
    BY <1>3
  <2> QED
    BY <1>1, <2>1
<1> QED
  BY <1>2, <1>3

-----------------------------------------------------------------------------
(* cpSweep1D *)

Static == swp.table[STATIC]
Dynamic == swp.table[DYNAMIC]
Cell == [obj : Shape, bounds : [l : Int, r : Int]]

\* A table has the shapes S, each in one cell.
Holds(t, S) ==
  /\ t \in Seq(Cell)
  /\ \A i, j \in 1 .. Len(t) : t[i].obj = t[j].obj => i = j
  /\ \A o \in Shape : o \in S <=> \E i \in 1 .. Len(t) : t[i].obj = o

\* The bounds in a table are those of the shapes.
Fresh(t) == \A i \in 1 .. Len(t) : t[i].bounds = BB(pos[t[i].obj])
Sorted(t) == \A i, j \in 1 .. Len(t) : i < j => t[i].bounds.l <= t[j].bounds.l

\* what the two loops have called func for when they are at a cell
ToldBySweep(t, at) ==
  {P \in SUBSET Shape :
     \E i, j \in 1 .. Len(t) : /\ i < j /\ i < at /\ P = {t[i].obj, t[j].obj}
                               /\ \A k \in i + 1 .. j : t[k].bounds.l < t[i].bounds.r}
ToldByStatic(t, st, at) ==
  {P \in SUBSET Shape :
     \E i \in 1 .. Len(t), m \in 1 .. Len(st) :
       /\ Len(t) + i < at /\ P = {t[i].obj, st[m].obj}
       /\ BBIntersects(BB(pos[t[i].obj]), st[m].bounds)}
Told(at) == ToldBySweep(Dynamic, at) \cup ToldByStatic(Dynamic, Static, at)

Reported == IF swp.at # 0 THEN Told(swp.at)
            ELSE IF swp.queried THEN Told(2 * Swept + 1) ELSE {}

\* the shapes of a table the static index answers for o
Answer(st, o) ==
  {cell.obj : cell \in {cell \in ToSet(st) : BBIntersects(BB(pos[o]), cell.bounds)}} \ {o}

SweepTyped ==
  /\ Placed
  /\ swp \in [table : [Both -> Seq(Cell)], at : Nat, queried : BOOLEAN]

\* Each table holds the shapes of its index; from the sort to the next operation the
\* bounds of dynamic shapes are true and sorted, those of static ones always while
\* none is moved; and the calls are those of the cells the loops have passed.
SweepInv ==
  /\ SweepTyped
  /\ Holds(Static, In(STATIC)) /\ Holds(Dynamic, In(DYNAMIC))
  /\ Careful => Fresh(Static)
  /\ swp.at # 0 \/ swp.queried => Fresh(Dynamic) /\ Sorted(Dynamic)
  /\ swp.at # 0 => ~swp.queried
  /\ calls = Once(Reported)

-----------------------------------------------------------------------------
(* The tables *)

LEMMA CellMade ==
  ASSUME NEW o \in Shape, NEW p \in Int
  PROVE  /\ MakeTableCell(o, p) \in Cell
         /\ MakeTableCell(o, p).obj = o /\ MakeTableCell(o, p).bounds = BB(p)
         /\ BB(p).l = p /\ BB(p).r = p + Width
BY IndexAssumption DEF MakeTableCell, Cell, BB

LEMMA Inserted ==
  ASSUME NEW t, NEW S, Holds(t, S), NEW o \in Shape, o \notin S, NEW p \in Int
  PROVE  LET u == Append(t, MakeTableCell(o, p))
         IN  /\ Holds(u, S \cup {o})
             /\ Len(u) = Len(t) + 1 /\ \A i \in 1 .. Len(t) : u[i] = t[i]
             /\ u[Len(u)] = MakeTableCell(o, p)
<1> DEFINE u == Append(t, MakeTableCell(o, p))
<1>1. MakeTableCell(o, p) \in Cell /\ MakeTableCell(o, p).obj = o
  BY CellMade
<1>2. t \in Seq(Cell) /\ Len(t) \in Nat
  BY DEF Holds
<1>3. /\ u \in Seq(Cell) /\ Len(u) = Len(t) + 1
      /\ \A i \in 1 .. Len(t) : u[i] = t[i]
      /\ u[Len(t) + 1] = MakeTableCell(o, p)
  BY <1>1, <1>2
<1> HIDE DEF u
<1>4. \A i \in 1 .. Len(t) : t[i].obj # o
  BY DEF Holds
<1>5. \A i, j \in 1 .. Len(u) : u[i].obj = u[j].obj => i = j
  <2> SUFFICES ASSUME NEW i \in 1 .. Len(u), NEW j \in 1 .. Len(u), u[i].obj = u[j].obj PROVE i = j
    OBVIOUS
  <2>1. CASE i \in 1 .. Len(t) /\ j \in 1 .. Len(t)
    BY <1>3, <2>1 DEF Holds
  <2>2. CASE i = Len(t) + 1 \/ j = Len(t) + 1
    BY <1>1, <1>2, <1>3, <1>4, <2>2
  <2> QED
    BY <1>2, <1>3, <2>1, <2>2
<1>6. \A s \in Shape : s \in S \cup {o} <=> \E i \in 1 .. Len(u) : u[i].obj = s
  <2> SUFFICES ASSUME NEW s \in Shape
               PROVE  s \in S \cup {o} <=> \E i \in 1 .. Len(u) : u[i].obj = s
    OBVIOUS
  <2>1. CASE s = o
    BY <1>1, <1>2, <1>3, <2>1
  <2>2. CASE s # o
    <3>1. s \in S <=> \E i \in 1 .. Len(t) : t[i].obj = s
      BY DEF Holds
    <3>2. ASSUME NEW i \in 1 .. Len(u), u[i].obj = s PROVE i \in 1 .. Len(t)
      BY <1>1, <1>2, <1>3, <2>2, <3>2
    <3>3. \A i \in 1 .. Len(t) : i \in 1 .. Len(u)
      BY <1>2, <1>3
    <3> QED
      BY <1>3, <2>2, <3>1, <3>2, <3>3
  <2> QED
    BY <2>1, <2>2
<1> QED
  BY <1>2, <1>3, <1>5, <1>6 DEF Holds, u

\* A cell leaves, and the last one is in its place.
LEMMA Removed ==
  ASSUME NEW t, NEW S, Holds(t, S), NEW o \in Shape, o \in S
  PROVE  LET u == RemoveCell(t, o)
         IN  /\ Holds(u, S \ {o})
             /\ \A i \in 1 .. Len(u) : \E j \in 1 .. Len(t) : u[i] = t[j]
<1> DEFINE at == CHOOSE i \in DOMAIN t : t[i].obj = o
           u == [i \in 1 .. Len(t) - 1 |-> IF i = at THEN Last(t) ELSE t[i]]
<1>0. t \in Seq(Cell) /\ Len(t) \in Nat
  BY DEF Holds
<1> PICK n \in Nat : n = Len(t)
  BY <1>0
<1>1. DOMAIN t = 1 .. n /\ \A i \in 1 .. n : t[i] \in Cell
  BY <1>0
<1>2. \E i \in 1 .. n : t[i].obj = o
  BY DEF Holds
<1>3. at \in 1 .. n /\ t[at].obj = o
  BY <1>1, <1>2
<1>4. Last(t) = t[n]
  BY DEF Last
<1> HIDE DEF at
<1>5. u \in Seq(Cell) /\ Len(u) = n - 1
  <2>1. n - 1 \in Nat /\ n \in 1 .. n
    BY <1>3
  <2>2. \A i \in 1 .. n - 1 : u[i] \in Cell
    BY <1>1, <1>4, <2>1
  <2>3. u \in [1 .. n - 1 -> Cell]
    BY <2>2
  <2> QED
    BY <2>1, <2>3
\* where the cell of u came from
<1> DEFINE from(i) == IF i = at THEN n ELSE i
<1>6. \A i \in 1 .. n - 1 : u[i] = t[from(i)] /\ from(i) \in 1 .. n /\ from(i) # at
  <2> SUFFICES ASSUME NEW i \in 1 .. n - 1
               PROVE  u[i] = t[from(i)] /\ from(i) \in 1 .. n /\ from(i) # at
    OBVIOUS
  <2>1. u[i] = IF i = at THEN t[n] ELSE t[i]
    BY <1>4
  <2>2. i \in 1 .. n /\ n \in 1 .. n /\ i # n
    OBVIOUS
  <2> HIDE DEF u
  <2> QED
    BY <2>1, <2>2
<1>7. \A i, j \in 1 .. n - 1 : from(i) = from(j) => i = j
  BY <1>1, <1>3
<1>8. \A k \in 1 .. n : k # at => \E i \in 1 .. n - 1 : from(i) = k
  <2> SUFFICES ASSUME NEW k \in 1 .. n, k # at PROVE \E i \in 1 .. n - 1 : from(i) = k
    OBVIOUS
  <2>1. CASE k = n
    <3>1. at \in 1 .. n - 1 /\ from(at) = n
      BY <1>3, <2>1
    <3> QED
      BY <2>1, <3>1
  <2>2. CASE k # n
    <3>1. k \in 1 .. n - 1 /\ from(k) = k
      BY <2>2
    <3> QED
      BY <3>1
  <2> QED
    BY <2>1, <2>2
<1> HIDE DEF from, u
<1>9. \A i, j \in 1 .. Len(u) : u[i].obj = u[j].obj => i = j
  <2> SUFFICES ASSUME NEW i \in 1 .. n - 1, NEW j \in 1 .. n - 1, u[i].obj = u[j].obj PROVE i = j
    BY <1>5
  <2>1. u[i] = t[from(i)] /\ u[j] = t[from(j)] /\ from(i) \in 1 .. n /\ from(j) \in 1 .. n
    BY <1>6
  <2>2. from(i) = from(j)
    BY <2>1 DEF Holds
  <2> QED
    BY <1>7, <2>2
<1>10. \A s \in Shape : s \in S \ {o} <=> \E i \in 1 .. Len(u) : u[i].obj = s
  <2> SUFFICES ASSUME NEW s \in Shape
               PROVE  s \in S \ {o} <=> \E i \in 1 .. Len(u) : u[i].obj = s
    OBVIOUS
  <2>1. ASSUME s \in S, s # o PROVE \E i \in 1 .. Len(u) : u[i].obj = s
    <3>1. PICK k \in 1 .. n : t[k].obj = s
      BY <2>1 DEF Holds
    <3>2. k # at
      BY <1>3, <2>1, <3>1
    <3>3. PICK i \in 1 .. n - 1 : from(i) = k
      BY <1>8, <3>2
    <3> QED
      BY <1>5, <1>6, <3>1, <3>3
  <2>2. ASSUME NEW i \in 1 .. Len(u), u[i].obj = s PROVE s \in S /\ s # o
    <3>1. u[i] = t[from(i)] /\ from(i) \in 1 .. n /\ from(i) # at
      BY <1>5, <1>6
    <3> QED
      BY <1>3, <2>2, <3>1 DEF Holds
  <2> QED
    BY <2>1, <2>2
<1>11. Holds(u, S \ {o}) /\ \A i \in 1 .. Len(u) : \E j \in 1 .. Len(t) : u[i] = t[j]
  BY <1>5, <1>6, <1>9, <1>10 DEF Holds
<1> QED
  BY <1>11 DEF u, at, RemoveCell

\* A sort keeps the cells, whichever of the orders it leaves open it takes.
LEMMA SortKeeps ==
  ASSUME NEW t, NEW S \in SUBSET Shape, Holds(t, S), NEW new \in [S -> Position],
         NEW u \in SortedCells(t, new)
  PROVE  /\ Holds(u, S) /\ Sorted(u)
         /\ \A i \in 1 .. Len(u) : u[i].obj \in S /\ u[i].bounds = BB(new[u[i].obj])
<1>0. t \in Seq(Cell) /\ Len(t) \in Nat /\ Position \subseteq Int
  BY IndexAssumption DEF Holds
<1> PICK n \in Nat : n = Len(t)
  BY <1>0
<1>1. DOMAIN t = 1 .. n /\ \A i \in 1 .. n : t[i] \in Cell /\ t[i].obj \in S
  <2>1. DOMAIN t = 1 .. n /\ \A i \in 1 .. n : t[i] \in Cell
    BY <1>0
  <2>2. \A i \in 1 .. n : t[i].obj \in Shape
    BY <2>1 DEF Cell
  <2> QED
    BY <2>1, <2>2 DEF Holds
<1>2. PICK f \in Bijection(1 .. n, 1 .. n) :
        u = [i \in 1 .. n |-> MakeTableCell(t[f[i]].obj, new[t[f[i]].obj])]
  BY <1>1 DEF SortedCells
<1>3. /\ f \in [1 .. n -> 1 .. n]
      /\ \A i, j \in 1 .. n : f[i] = f[j] => i = j
      /\ \A k \in 1 .. n : \E i \in 1 .. n : f[i] = k
  BY DEF Bijection, Injection, Surjection, IsInjective
<1>4. \A i, j \in 1 .. n : i < j => u[i].bounds.l <= u[j].bounds.l
  BY <1>1 DEF SortedCells
<1>5. \A i \in 1 .. n : /\ u[i] \in Cell /\ u[i].obj = t[f[i]].obj /\ u[i].obj \in S
                        /\ u[i].bounds = BB(new[u[i].obj])
  <2> SUFFICES ASSUME NEW i \in 1 .. n
               PROVE  /\ u[i] \in Cell /\ u[i].obj = t[f[i]].obj /\ u[i].obj \in S
                      /\ u[i].bounds = BB(new[u[i].obj])
    OBVIOUS
  <2>1. f[i] \in 1 .. n
    BY <1>3
  <2>2. t[f[i]].obj \in S /\ t[f[i]].obj \in Shape /\ new[t[f[i]].obj] \in Int
    BY <1>0, <1>1, <2>1
  <2>3. u[i] = MakeTableCell(t[f[i]].obj, new[t[f[i]].obj])
    BY <1>2
  <2> QED
    BY <2>2, <2>3, CellMade
<1>6. u \in Seq(Cell) /\ Len(u) = n
  <2>1. u \in [1 .. n -> Cell]
    BY <1>2, <1>5
  <2> QED
    BY <2>1
<1>7. \A i, j \in 1 .. n : u[i].obj = u[j].obj => i = j
  <2> SUFFICES ASSUME NEW i \in 1 .. n, NEW j \in 1 .. n, u[i].obj = u[j].obj PROVE i = j
    OBVIOUS
  <2>1. f[i] \in 1 .. n /\ f[j] \in 1 .. n /\ t[f[i]].obj = t[f[j]].obj
    BY <1>3, <1>5
  <2>2. f[i] = f[j]
    BY <2>1 DEF Holds
  <2> QED
    BY <1>3, <2>2
<1>8. \A s \in Shape : s \in S <=> \E i \in 1 .. n : u[i].obj = s
  <2> SUFFICES ASSUME NEW s \in S PROVE \E i \in 1 .. n : u[i].obj = s
    BY <1>5
  <2>1. PICK k \in 1 .. n : t[k].obj = s
    BY DEF Holds
  <2>2. PICK i \in 1 .. n : f[i] = k
    BY <1>3
  <2> QED
    BY <1>5, <2>1, <2>2
<1> QED
  BY <1>4, <1>5, <1>6, <1>7, <1>8 DEF Holds, Sorted

-----------------------------------------------------------------------------
(* The loops *)

\* where a shape is in a table that holds it
LEMMA PairOfCells ==
  ASSUME NEW t, NEW S, Holds(t, S), NEW i \in 1 .. Len(t)
  PROVE  t[i].obj \in Shape /\ t[i].obj \in S /\ t[i] \in Cell
<1>1. t[i] \in Cell
  BY DEF Holds
<1>2. t[i].obj \in Shape
  BY <1>1 DEF Cell
<1> QED
  BY <1>1, <1>2 DEF Holds

\* The sweep goes on by a cell: what it calls func for is new.
LEMMA SweepGoesOn ==
  ASSUME NEW t, NEW S, Holds(t, S), NEW at \in 1 .. Len(t)
  PROVE  /\ ToldBySweep(t, at + 1) = ToldBySweep(t, at) \cup With(t[at].obj, SweepOn(t, at))
         /\ ToldBySweep(t, at) \cap With(t[at].obj, SweepOn(t, at)) = {}
<1> DEFINE B == With(t[at].obj, SweepOn(t, at))
           Near(i, j) == \A k \in i + 1 .. j : t[k].bounds.l < t[i].bounds.r
<1>0. Len(t) \in Nat /\ \A i \in 1 .. Len(t) : t[i].obj \in Shape
  <2>1. Len(t) \in Nat
    BY DEF Holds
  <2> QED
    BY <2>1, PairOfCells
<1> PICK n \in Nat : n = Len(t)
  BY <1>0
<1>1. \A P : P \in B <=> \E j \in 1 .. n : at < j /\ P = {t[at].obj, t[j].obj} /\ Near(at, j)
  <2>1. \A s : s \in SweepOn(t, at) <=> \E j \in at + 1 .. n : s = t[j].obj /\ Near(at, j)
    BY DEF SweepOn
  <2>2. \A j : j \in at + 1 .. n <=> j \in 1 .. n /\ at < j
    OBVIOUS
  <2> HIDE DEF Near
  <2> QED
    BY <2>1, <2>2 DEF With
<1>2. \A P, a : P \in ToldBySweep(t, a) <=>
                  \E i, j \in 1 .. n : i < j /\ i < a /\ P = {t[i].obj, t[j].obj} /\ Near(i, j)
  BY <1>0 DEF ToldBySweep
<1> HIDE DEF B, Near
<1>3. \A i \in 1 .. n : i < at + 1 <=> i < at \/ i = at
  OBVIOUS
<1>4. \A P : P \in ToldBySweep(t, at + 1) <=> P \in ToldBySweep(t, at) \/ P \in B
  BY <1>1, <1>2, <1>3
<1>5. ASSUME NEW P, P \in ToldBySweep(t, at), P \in B PROVE FALSE
  <2>1. PICK i, j \in 1 .. n : i < j /\ i < at /\ P = {t[i].obj, t[j].obj}
    BY <1>2, <1>5
  <2>2. PICK k \in 1 .. n : at < k /\ P = {t[at].obj, t[k].obj}
    BY <1>1, <1>5
  <2>3. t[i].obj = t[at].obj \/ t[i].obj = t[k].obj
    BY <2>1, <2>2
  <2>4. i = at \/ i = k
    BY <2>3 DEF Holds
  <2> QED
    BY <2>1, <2>2, <2>4
<1> QED
  BY <1>4, <1>5 DEF B

\* The helper asks the static index for another shape: what is called is new.
LEMMA StaticGoesOn ==
  ASSUME NEW t, NEW S, Holds(t, S), NEW st, NEW R, Holds(st, R), S \cap R = {},
         NEW m \in 1 .. Len(t), NEW o, o = t[m].obj, NEW at, at = Len(t) + m
  PROVE  /\ ToldByStatic(t, st, at + 1) = ToldByStatic(t, st, at) \cup With(o, Answer(st, o))
         /\ ToldBySweep(t, at + 1) = ToldBySweep(t, at)
         /\ (ToldBySweep(t, at) \cup ToldByStatic(t, st, at)) \cap With(o, Answer(st, o)) = {}
<1> DEFINE B == With(o, Answer(st, o))
           Meets(i, k) == BBIntersects(BB(pos[t[i].obj]), st[k].bounds)
<1>0. /\ Len(t) \in Nat /\ \A i \in 1 .. Len(t) : t[i].obj \in Shape /\ t[i].obj \in S
      /\ Len(st) \in Nat /\ \A k \in 1 .. Len(st) : st[k].obj \in Shape /\ st[k].obj \in R
      /\ DOMAIN st = 1 .. Len(st)
  <2>1. Len(t) \in Nat /\ Len(st) \in Nat /\ DOMAIN st = 1 .. Len(st)
    BY DEF Holds
  <2>2. \A i \in 1 .. Len(t) : t[i].obj \in Shape /\ t[i].obj \in S
    BY PairOfCells
  <2>3. \A k \in 1 .. Len(st) : st[k].obj \in Shape /\ st[k].obj \in R
    BY PairOfCells
  <2> QED
    BY <2>1, <2>2, <2>3
<1> PICK n \in Nat : n = Len(t)
  BY <1>0
<1> PICK r \in Nat : r = Len(st)
  BY <1>0
<1>1. \A P : P \in B <=> \E k \in 1 .. r : P = {o, st[k].obj} /\ Meets(m, k)
  <2>1. \A k \in 1 .. r : st[k].obj # o
    BY <1>0
  <2>2. \A s : s \in Answer(st, o) <=> \E k \in 1 .. r : s = st[k].obj /\ Meets(m, k)
    BY <1>0, <2>1 DEF ToSet, Answer
  <2> HIDE DEF Meets
  <2> QED
    BY <2>2 DEF With
<1>2. \A P, a : P \in ToldByStatic(t, st, a) <=>
                  \E i \in 1 .. n, k \in 1 .. r : n + i < a /\ P = {t[i].obj, st[k].obj} /\ Meets(i, k)
  <2>1. \A i \in 1 .. n, k \in 1 .. r : {t[i].obj, st[k].obj} \in SUBSET Shape
    BY <1>0
  <2>2. \A P, a : P \in ToldByStatic(t, st, a) <=>
          P \in SUBSET Shape /\ \E i \in 1 .. n, k \in 1 .. r : n + i < a /\ P = {t[i].obj, st[k].obj} /\ Meets(i, k)
    BY DEF ToldByStatic
  <2> HIDE DEF Meets
  <2> SUFFICES ASSUME NEW P, NEW a
               PROVE  (\E i \in 1 .. n, k \in 1 .. r : n + i < a /\ P = {t[i].obj, st[k].obj} /\ Meets(i, k))
                        => P \in SUBSET Shape
    BY <2>2
  <2> QED
    BY <2>1
<1> HIDE DEF B, Meets
<1>3. \A i \in 1 .. n : n + i < at + 1 <=> n + i < at \/ i = m
  OBVIOUS
<1>4. \A P : P \in ToldByStatic(t, st, at + 1) <=> P \in ToldByStatic(t, st, at) \/ P \in B
  <2> QED
    BY <1>1, <1>2, <1>3
<1>5. ToldBySweep(t, at + 1) = ToldBySweep(t, at)
  <2>1. \A i \in 1 .. Len(t) : i < at + 1 /\ i < at
    OBVIOUS
  <2> QED
    BY <2>1 DEF ToldBySweep
<1>6. ASSUME NEW P, P \in ToldBySweep(t, at), P \in B PROVE FALSE
  <2>1. PICK i, j \in 1 .. n : P = {t[i].obj, t[j].obj}
    BY <1>6 DEF ToldBySweep
  <2>2. PICK k \in 1 .. r : P = {o, st[k].obj}
    BY <1>1, <1>6
  <2> QED
    BY <1>0, <2>1, <2>2
<1>7. ASSUME NEW P, P \in ToldByStatic(t, st, at), P \in B PROVE FALSE
  <2>1. PICK i \in 1 .. n, l \in 1 .. r : n + i < n + m /\ P = {t[i].obj, st[l].obj}
    BY <1>2, <1>7
  <2>2. PICK k \in 1 .. r : P = {t[m].obj, st[k].obj}
    BY <1>1, <1>7
  <2>3. t[i].obj = t[m].obj
    BY <1>0, <2>1, <2>2
  <2>4. i = m
    BY <2>3 DEF Holds
  <2> QED
    BY <2>1, <2>4
<1> QED
  BY <1>4, <1>5, <1>6, <1>7 DEF B

\* Nothing was called before the first cell.
LEMMA NothingTold == ASSUME NEW t, NEW st, t \in Seq(Cell)
                     PROVE  ToldBySweep(t, 1) = {} /\ ToldByStatic(t, st, 1) = {}
<1>1. Len(t) \in Nat
  OBVIOUS
<1>2. \A i \in 1 .. Len(t) : ~(i < 1) /\ ~(Len(t) + i < 1)
  BY <1>1
<1> QED
  BY <1>2 DEF ToldBySweep, ToldByStatic

\* Behind the last cell, and with nothing to ask behind the last of the sweep, all is
\* told.
LEMMA AllTold ==
  ASSUME NEW t, NEW st, t \in Seq(Cell), NEW at \in Nat,
         at > (IF st = <<>> THEN Len(t) ELSE 2 * Len(t))
  PROVE  /\ ToldBySweep(t, at) = ToldBySweep(t, 2 * Len(t) + 1)
         /\ ToldByStatic(t, st, at) = ToldByStatic(t, st, 2 * Len(t) + 1)
<1>1. Len(t) \in Nat
  OBVIOUS
<1>2. \A i \in 1 .. Len(t) : i < at /\ i < 2 * Len(t) + 1 /\ Len(t) + i < 2 * Len(t) + 1
  BY <1>1
<1>3. ToldBySweep(t, at) = ToldBySweep(t, 2 * Len(t) + 1)
  BY <1>2 DEF ToldBySweep
<1>4. CASE st = <<>>
  <2>1. \A m : ~(m \in 1 .. Len(st))
    BY <1>4
  <2> QED
    BY <1>3, <2>1 DEF ToldByStatic
<1>5. CASE st # <<>>
  <2>1. \A i \in 1 .. Len(t) : Len(t) + i < at
    BY <1>1, <1>5
  <2> QED
    BY <1>2, <1>3, <2>1 DEF ToldByStatic
<1> QED
  BY <1>4, <1>5

-----------------------------------------------------------------------------
(* The invariant is inductive. *)

LEMMA SweepInitHolds == ASSUME IndexInit, SweepInit PROVE SweepInv
<1>1. /\ Static = <<>> /\ Dynamic = <<>> /\ swp.at = 0 /\ swp.queried = FALSE
      /\ swp = [table |-> [ix \in Both |-> <<>>], at |-> 0, queried |-> FALSE]
  BY DEF SweepInit, Static, Dynamic, Both
<1>2. In(STATIC) = {} /\ In(DYNAMIC) = {}
  BY NamesDiffer DEF IndexInit, In
<1>3. <<>> \in Seq(Cell) /\ Len(<<>>) = 0
  OBVIOUS
<1>4. SweepTyped
  BY <1>1, <1>3, NamesDiffer DEF SweepTyped, Placed, IndexInit, Both
<1>5. Holds(<<>>, {}) /\ Fresh(<<>>)
  BY <1>3 DEF Holds, Fresh
<1>6. calls = Once(Reported)
  BY <1>1 DEF IndexInit, NoCalls, EmptyBag, SetToBag, Once, Reported
<1> QED
  BY <1>1, <1>2, <1>4, <1>5, <1>6 DEF SweepInv

\* What an operation between two ReindexQuery leaves to show.
LEMMA SweepIdleHolds ==
  ASSUME NEW table, SweepDone(table), calls' = NoCalls, SweepTyped',
         Holds(table[STATIC], In(STATIC)'), Holds(table[DYNAMIC], In(DYNAMIC)'),
         Careful => \A i \in 1 .. Len(table[STATIC]) :
                      table[STATIC][i].bounds = BB(pos'[table[STATIC][i].obj])
  PROVE  SweepInv'
<1>1. swp' = [table |-> table, at |-> 0, queried |-> FALSE]
  BY DEF SweepDone
<1>2. Static' = table[STATIC] /\ Dynamic' = table[DYNAMIC] /\ swp'.at = 0 /\ swp'.queried = FALSE
  BY <1>1 DEF Static, Dynamic
<1>3. (calls = Once(Reported))'
  BY <1>2 DEF NoCalls, EmptyBag, SetToBag, Once, Reported
<1>4. Holds(Static, In(STATIC))' /\ Holds(Dynamic, In(DYNAMIC))'
  BY <1>2 DEF Holds
<1>5. (Careful => Fresh(Static))'
  BY <1>2 DEF Fresh
<1> QED
  BY <1>2, <1>3, <1>4, <1>5 DEF SweepInv

LEMMA TablesTyped ==
  ASSUME SweepInv
  PROVE  /\ swp.table = [ix \in Both |-> swp.table[ix]]
         /\ \A ix \in Both : swp.table[ix] \in Seq(Cell) /\ Holds(swp.table[ix], In(ix))
         /\ In(STATIC) \cap In(DYNAMIC) = {} /\ In(STATIC) \subseteq Shape /\ In(DYNAMIC) \subseteq Shape
         /\ \A ix \in Both : \A o \in In(ix) : pos[o] \in Int
BY NamesDiffer DEF SweepInv, SweepTyped, Placed, Both, Static, Dynamic, In

LEMMA SweepInsertHolds ==
  ASSUME SweepInv, NEW o \in Shape, NEW ix \in Both, NEW p \in Position, SweepInsert(o, ix, p)
  PROVE  SweepInv'
<1> DEFINE new == MakeTableCell(o, p)
           u == Append(swp.table[ix], new)
           table == [swp.table EXCEPT ![ix] = u]
<1>1. p \in Int /\ o \notin In(STATIC) /\ o \notin In(DYNAMIC)
  BY IndexAssumption, NamesDiffer DEF SweepInsert, Enter, In
<1>2. /\ index' = [index EXCEPT ![o] = ix] /\ pos' = [pos EXCEPT ![o] = p]
      /\ calls' = NoCalls /\ SweepDone(table)
  BY DEF SweepInsert, Enter
<1>3. /\ Holds(u, In(ix) \cup {o})
      /\ \A i \in 1 .. Len(u) : u[i] = new \/ (i \in 1 .. Len(swp.table[ix]) /\ u[i] = swp.table[ix][i])
  <2>1. Holds(swp.table[ix], In(ix)) /\ o \notin In(ix)
    BY <1>1, TablesTyped DEF Both
  <2>2. /\ Holds(u, In(ix) \cup {o}) /\ Len(u) = Len(swp.table[ix]) + 1
        /\ \A i \in 1 .. Len(swp.table[ix]) : u[i] = swp.table[ix][i]
        /\ u[Len(u)] = new
    BY <1>1, <2>1, Inserted
  <2>3. Len(swp.table[ix]) \in Nat
    BY <2>1 DEF Holds
  <2> HIDE DEF u, new
  <2>4. \A i \in 1 .. Len(u) : i \in 1 .. Len(swp.table[ix]) \/ i = Len(u)
    BY <2>2, <2>3
  <2> QED
    BY <2>2, <2>4
<1>4. /\ table \in [Both -> Seq(Cell)] /\ table[ix] = u
      /\ \A i \in Both : i # ix => table[i] = swp.table[i]
  BY <1>3, TablesTyped DEF Holds
<1>5. \A i \in Both : In(i)' = IF i = ix THEN In(i) \cup {o} ELSE In(i)
  BY <1>1, <1>2 DEF In, SweepInv, SweepTyped, Placed, Both
<1>6. \A i \in Both : Holds(table[i], In(i)')
  BY <1>3, <1>4, <1>5, TablesTyped
<1>7. SweepTyped'
  <2>1. swp' = [table |-> table, at |-> 0, queried |-> FALSE]
    BY <1>2 DEF SweepDone
  <2>2. swp' \in [table : [Both -> Seq(Cell)], at : Nat, queried : BOOLEAN]
    BY <1>4, <2>1
  <2>3. index' \in [Shape -> {NULL, LEFT, STATIC, DYNAMIC}]
    BY <1>2 DEF SweepInv, SweepTyped, Placed, Both
  <2>4. DOMAIN pos' = Shape /\ \A s \in Shape : index'[s] \in Both => pos'[s] \in Int
    BY <1>1, <1>2 DEF SweepInv, SweepTyped, Placed
  <2> QED
    BY <2>2, <2>3, <2>4 DEF SweepTyped, Placed
<1>8. ASSUME Careful, NEW i \in 1 .. Len(table[STATIC])
      PROVE  table[STATIC][i].bounds = BB(pos'[table[STATIC][i].obj])
  <2>1. pos'[o] = p /\ \A s \in Shape : s # o => pos'[s] = pos[s]
    BY <1>2 DEF SweepInv, SweepTyped, Placed
  <2>2. CASE i \in 1 .. Len(Static) /\ table[STATIC][i] = Static[i]
    <3>1. Static[i].obj \in In(STATIC) /\ Static[i].obj \in Shape
      BY <2>2, PairOfCells DEF SweepInv
    <3>2. Static[i].bounds = BB(pos[Static[i].obj])
      BY <1>8, <2>2 DEF SweepInv, Fresh
    <3>3. pos'[Static[i].obj] = pos[Static[i].obj]
      BY <1>1, <2>1, <3>1
    <3> QED
      BY <2>2, <3>2, <3>3
  <2>3. CASE table[STATIC][i] = new
    BY <1>1, <2>1, <2>3, CellMade
  <2>4. CASE ix = STATIC
    BY <1>3, <1>4, <1>8, <2>2, <2>3, <2>4 DEF Static
  <2>5. CASE ix # STATIC
    BY <1>4, <1>8, <2>2, <2>5 DEF Static, Both
  <2> QED
    BY <2>4, <2>5
<1> HIDE DEF table
<1> QED
  BY <1>2, <1>6, <1>7, <1>8, SweepIdleHolds DEF Both

LEMMA SweepRemoveHolds ==
  ASSUME SweepInv, NEW o \in Shape, SweepRemove(o)
  PROVE  SweepInv'
<1> DEFINE ix == index[o]
           u == RemoveCell(swp.table[ix], o)
           table == [swp.table EXCEPT ![ix] = u]
           away == CHOOSE p \in Position : TRUE
<1>1. ix \in Both /\ o \in In(ix)
  BY DEF SweepRemove, Leave, Both, In
<1>2. /\ index' = [index EXCEPT ![o] = LEFT] /\ pos' = [pos EXCEPT ![o] = away]
      /\ calls' = NoCalls /\ SweepDone(table)
  BY DEF SweepRemove, Leave
<1>3. /\ Holds(u, In(ix) \ {o})
      /\ \A i \in 1 .. Len(u) : \E j \in 1 .. Len(swp.table[ix]) : u[i] = swp.table[ix][j]
  <2>1. Holds(swp.table[ix], In(ix))
    BY <1>1, TablesTyped
  <2> HIDE DEF ix
  <2> QED
    BY <1>1, <2>1, Removed, Zenon
<1>4. /\ table \in [Both -> Seq(Cell)] /\ table[ix] = u
      /\ \A i \in Both : i # ix => table[i] = swp.table[i]
  BY <1>1, <1>3, TablesTyped DEF Holds
<1>5. \A i \in Both : In(i)' = In(i) \ {o}
  BY <1>2, NamesDiffer DEF In, SweepInv, SweepTyped, Placed, Both
<1>6. \A i \in Both : Holds(table[i], In(i)')
  <2> SUFFICES ASSUME NEW i \in Both PROVE Holds(table[i], In(i)')
    OBVIOUS
  <2>1. CASE i = ix
    BY <1>3, <1>4, <1>5, <2>1
  <2>2. CASE i # ix
    <3>1. o \notin In(i)
      BY <1>1, <2>2 DEF In
    <3>2. In(i) \ {o} = In(i)
      BY <3>1
    <3>3. table[i] = swp.table[i] /\ In(i)' = In(i)
      BY <1>4, <1>5, <2>2, <3>2
    <3>4. Holds(swp.table[i], In(i))
      BY TablesTyped
    <3> HIDE DEF table
    <3> QED
      BY <3>3, <3>4
  <2> QED
    BY <2>1, <2>2
<1>7. SweepTyped'
  <2>1. swp' = [table |-> table, at |-> 0, queried |-> FALSE]
    BY <1>2 DEF SweepDone
  <2>2. swp' \in [table : [Both -> Seq(Cell)], at : Nat, queried : BOOLEAN]
    BY <1>4, <2>1
  <2>3. index' \in [Shape -> {NULL, LEFT, STATIC, DYNAMIC}]
    BY <1>2 DEF SweepInv, SweepTyped, Placed, Both
  <2>4. DOMAIN pos' = Shape /\ \A s \in Shape : index'[s] \in Both => pos'[s] \in Int
    BY <1>2, NamesDiffer DEF SweepInv, SweepTyped, Placed, Both
  <2> QED
    BY <2>2, <2>3, <2>4 DEF SweepTyped, Placed
<1>8. ASSUME Careful, NEW i \in 1 .. Len(table[STATIC])
      PROVE  table[STATIC][i].bounds = BB(pos'[table[STATIC][i].obj])
  <2>1. PICK j \in 1 .. Len(Static) : table[STATIC][i] = Static[j]
    BY <1>3, <1>4, <1>8 DEF Static, Both
  <2>2. Static[j].bounds = BB(pos[Static[j].obj])
    BY <1>8 DEF SweepInv, Fresh
  <2>3. table[STATIC][i].obj \in In(STATIC)' /\ table[STATIC][i].obj \in Shape
    BY <1>6, <1>8, PairOfCells DEF Both
  <2>4. table[STATIC][i].obj # o
    BY <1>5, <2>3 DEF Both
  <2>5. \A s \in Shape : s # o => pos'[s] = pos[s]
    BY <1>2 DEF SweepInv, SweepTyped, Placed
  <2> QED
    BY <2>1, <2>2, <2>3, <2>4, <2>5
<1> HIDE DEF table
<1> QED
  BY <1>2, <1>6, <1>7, <1>8, SweepIdleHolds DEF Both

LEMMA SweepMoveHolds ==
  ASSUME SweepInv, NEW o \in Shape, NEW p \in Position, SweepReindexObject(o, p)
  PROVE  SweepInv'
<1>1. /\ index[o] \in Both /\ (Careful => index[o] = DYNAMIC) /\ index' = index
      /\ calls' = NoCalls /\ SweepDone(swp.table)
  BY DEF SweepReindexObject, Update, Both
<1>2. pos' = [s \in Shape |-> IF s = o THEN p ELSE pos[s]]
  BY DEF SweepReindexObject, Update
<1>3. \A i \in Both : In(i)' = In(i) /\ Holds(swp.table[i], In(i)')
  BY <1>1, TablesTyped DEF In
<1>4. SweepTyped'
  <2>1. swp' = [table |-> swp.table, at |-> 0, queried |-> FALSE]
    BY <1>1 DEF SweepDone
  <2>2. swp' \in [table : [Both -> Seq(Cell)], at : Nat, queried : BOOLEAN]
    BY <2>1 DEF SweepInv, SweepTyped, Placed
  <2>3. DOMAIN pos' = Shape /\ \A s \in Shape : index'[s] \in Both => pos'[s] \in Int
    BY <1>1, <1>2, IndexAssumption DEF SweepInv, SweepTyped, Placed
  <2> QED
    BY <1>1, <2>2, <2>3 DEF SweepInv, SweepTyped, Placed
<1>5. ASSUME Careful, NEW i \in 1 .. Len(swp.table[STATIC])
      PROVE  swp.table[STATIC][i].bounds = BB(pos'[swp.table[STATIC][i].obj])
  <2>1. Static[i].bounds = BB(pos[Static[i].obj])
    BY <1>5 DEF SweepInv, Fresh, Static
  <2>2. Static[i].obj \in In(STATIC) /\ Static[i].obj \in Shape
    BY <1>5, PairOfCells DEF SweepInv, Static
  <2>3. Static[i].obj # o
    BY <1>1, <1>5, <2>2, NamesDiffer DEF In
  <2> QED
    BY <1>2, <2>1, <2>2, <2>3 DEF Static
<1> QED
  BY <1>1, <1>3, <1>4, <1>5, SweepIdleHolds DEF Both

LEMMA SweepBeginHolds ==
  ASSUME SweepInv, NEW new \in [In(DYNAMIC) -> Position], SweepBegin(new)
  PROVE  SweepInv'
<1>1. /\ index' = index /\ calls' = NoCalls /\ swp.at = 0
      /\ pos' = [o \in Shape |-> IF o \in In(DYNAMIC) THEN new[o] ELSE pos[o]]
  BY DEF SweepBegin, Update, Idle
<1>2. PICK u \in SortedCells(Dynamic, new) :
        swp' = [table |-> [swp.table EXCEPT ![DYNAMIC] = u], at |-> 1, queried |-> FALSE]
  BY DEF SweepBegin, Dynamic
<1>3. /\ Holds(u, In(DYNAMIC)) /\ Sorted(u)
      /\ \A i \in 1 .. Len(u) : u[i].obj \in In(DYNAMIC) /\ u[i].bounds = BB(new[u[i].obj])
  <2>1. Holds(Dynamic, In(DYNAMIC)) /\ In(DYNAMIC) \in SUBSET Shape
    BY DEF SweepInv, In
  <2> QED
    BY <2>1, SortKeeps
<1>4. Static' = Static /\ Dynamic' = u /\ swp'.at = 1 /\ swp'.queried = FALSE
  BY <1>2, NamesDiffer DEF Static, Dynamic, SweepInv, SweepTyped, Placed, Both
<1>5. In(STATIC)' = In(STATIC) /\ In(DYNAMIC)' = In(DYNAMIC)
  BY <1>1 DEF In
<1>6. SweepTyped'
  <2>1. u \in Seq(Cell) /\ swp.table \in [Both -> Seq(Cell)]
    BY <1>3 DEF Holds, SweepInv, SweepTyped, Placed
  <2>2. [swp.table EXCEPT ![DYNAMIC] = u] \in [Both -> Seq(Cell)]
    BY <2>1
  <2>3. swp' \in [table : [Both -> Seq(Cell)], at : Nat, queried : BOOLEAN]
    BY <1>2, <2>2
  <2>4. DOMAIN pos' = Shape /\ \A s \in Shape : index'[s] \in Both => pos'[s] \in Int
    BY <1>1, IndexAssumption DEF SweepInv, SweepTyped, Placed
  <2> QED
    BY <1>1, <2>3, <2>4 DEF SweepInv, SweepTyped, Placed
<1>7. Holds(Static, In(STATIC))' /\ Holds(Dynamic, In(DYNAMIC))'
  BY <1>3, <1>4, <1>5 DEF SweepInv, Holds
<1>8. (Careful => Fresh(Static))'
  <2> SUFFICES ASSUME Careful, NEW i \in 1 .. Len(Static)
               PROVE  Static[i].bounds = BB(pos'[Static[i].obj])
    BY <1>4 DEF Fresh
  <2>1. Static[i].obj \in In(STATIC) /\ Static[i].obj \in Shape
    BY PairOfCells DEF SweepInv
  <2>2. Static[i].obj \notin In(DYNAMIC)
    BY <2>1, TablesTyped
  <2> QED
    BY <1>1, <2>1, <2>2 DEF SweepInv, Fresh
<1>9. Fresh(Dynamic)' /\ Sorted(Dynamic)'
  <2>1. \A i \in 1 .. Len(u) : u[i].bounds = BB(pos'[u[i].obj])
    BY <1>1, <1>3, TablesTyped
  <2> QED
    BY <1>3, <1>4, <2>1 DEF Fresh, Sorted
<1>10. (calls = Once(Reported))'
  <2>1. Told(1)' = {}
    BY <1>7, NothingTold DEF Told, Holds, ToldBySweep, ToldByStatic
  <2> QED
    BY <1>1, <1>4, <2>1 DEF NoCalls, EmptyBag, SetToBag, Once, Reported
<1> QED
  BY <1>4, <1>6, <1>7, <1>8, <1>9, <1>10 DEF SweepInv

\* What a step of the loops leaves to show.
LEMMA SweepOnwardHolds ==
  ASSUME SweepInv, swp.at # 0, Onward, calls' = Once(Told(swp.at + 1))
  PROVE  SweepInv'
<1>1. /\ swp' = [swp EXCEPT !.at = @ + 1] /\ index' = index /\ pos' = pos
      /\ swp.at \in Nat /\ ~swp.queried
  BY DEF Onward, SweepInv, SweepTyped, Placed
<1>2. /\ swp'.table = swp.table /\ swp'.at = swp.at + 1 /\ swp'.queried = swp.queried
      /\ swp'.at # 0 /\ Static' = Static /\ Dynamic' = Dynamic
  BY <1>1 DEF SweepInv, SweepTyped, Placed, Static, Dynamic
<1>3. SweepTyped'
  BY <1>1 DEF SweepInv, SweepTyped, Placed
<1>4. (calls = Once(Reported))'
  <2>1. Told(swp.at + 1)' = Told(swp'.at + 1)
    BY <1>1, <1>2 DEF Told, ToldBySweep, ToldByStatic
  <2>2. Reported' = Told(swp.at)'
    BY <1>2 DEF Reported
  <2>3. Told(swp.at)' = Told(swp.at + 1)
    BY <1>1, <1>2 DEF Told, ToldBySweep, ToldByStatic
  <2> QED
    BY <2>2, <2>3 DEF Once
<1>5. In(STATIC)' = In(STATIC) /\ In(DYNAMIC)' = In(DYNAMIC)
  BY <1>1 DEF In
<1>6. Holds(Static, In(STATIC))' /\ Holds(Dynamic, In(DYNAMIC))'
  BY <1>2, <1>5 DEF SweepInv, Holds
<1>7. (Careful => Fresh(Static))' /\ Fresh(Dynamic)' /\ Sorted(Dynamic)'
  BY <1>1, <1>2 DEF SweepInv, Fresh, Sorted
<1> QED
  BY <1>1, <1>2, <1>3, <1>4, <1>6, <1>7 DEF SweepInv

LEMMA SweepCellHolds == ASSUME SweepInv, SweepCell PROVE SweepInv'
<1> DEFINE at == swp.at
           B == With(Dynamic[at].obj, SweepOn(Dynamic, at))
<1>1. at \in 1 .. Len(Dynamic) /\ Onward /\ at # 0
  BY DEF SweepCell, Swept, Dynamic
<1>2. calls' = Call(Once(Told(at)), Dynamic[at].obj, SweepOn(Dynamic, at))
  <2>1. calls = Once(Told(at))
    BY <1>1 DEF SweepInv, Reported
  <2> QED
    BY <2>1 DEF SweepCell, Dynamic
<1>3. /\ ToldBySweep(Dynamic, at + 1) = ToldBySweep(Dynamic, at) \cup B
      /\ ToldBySweep(Dynamic, at) \cap B = {}
  BY <1>1, SweepGoesOn DEF SweepInv
<1>4. ToldByStatic(Dynamic, Static, at) = {} /\ ToldByStatic(Dynamic, Static, at + 1) = {}
  <2>1. Len(Dynamic) \in Nat
    BY DEF SweepInv, Holds
  <2>2. \A i \in 1 .. Len(Dynamic) : ~(Len(Dynamic) + i < at) /\ ~(Len(Dynamic) + i < at + 1)
    BY <1>1, <2>1
  <2> QED
    BY <2>2 DEF ToldByStatic
<1> HIDE DEF B
<1>5. Told(at + 1) = Told(at) \cup B /\ Told(at) \cap B = {}
  BY <1>3, <1>4 DEF Told
<1>6. Call(Once(Told(at)), Dynamic[at].obj, SweepOn(Dynamic, at)) = Once(Told(at) \cup B)
  BY <1>5, CalledMore DEF B
<1> QED
  BY <1>1, <1>2, <1>5, <1>6, SweepOnwardHolds

LEMMA SweepStaticHolds == ASSUME SweepInv, SweepStatic PROVE SweepInv'
<1> DEFINE at == swp.at
           m == at - Len(Dynamic)
           o == Dynamic[m].obj
           B == With(o, Answer(Static, o))
<1>1. Len(Dynamic) \in Nat /\ at \in Nat
  BY DEF SweepInv, SweepTyped, Placed, Holds
<1>2. m \in 1 .. Len(Dynamic) /\ Onward
  BY DEF SweepStatic, Swept, Dynamic
<1>3. at # 0 /\ at = Len(Dynamic) + m
  BY <1>1, <1>2
<1>4. calls' = Call(Once(Told(at)), o, Answer(Static, o))
  <2>1. calls = Once(Told(at))
    BY <1>3 DEF SweepInv, Reported
  <2>2. calls' = SweepQuery(Static, calls, o, BB(pos[o]))
    BY DEF SweepStatic, Swept, Static, Dynamic
  <2> QED
    BY <2>1, <2>2 DEF SweepQuery, Answer
<1>5. /\ ToldByStatic(Dynamic, Static, at + 1) = ToldByStatic(Dynamic, Static, at) \cup B
      /\ ToldBySweep(Dynamic, at + 1) = ToldBySweep(Dynamic, at)
      /\ (ToldBySweep(Dynamic, at) \cup ToldByStatic(Dynamic, Static, at)) \cap B = {}
  <2>1. In(DYNAMIC) \cap In(STATIC) = {}
    BY TablesTyped
  <2>2. Holds(Dynamic, In(DYNAMIC)) /\ Holds(Static, In(STATIC))
    BY DEF SweepInv
  <2> HIDE DEF m, at
  <2> QED
    BY <1>2, <1>3, <2>1, <2>2, StaticGoesOn
<1> HIDE DEF B, o, m
<1>6. Told(at + 1) = Told(at) \cup B /\ Told(at) \cap B = {}
  BY <1>5 DEF Told
<1>7. Call(Once(Told(at)), o, Answer(Static, o)) = Once(Told(at) \cup B)
  BY <1>6, CalledMore DEF B
<1> QED
  BY <1>2, <1>3, <1>4, <1>6, <1>7, SweepOnwardHolds

LEMMA SweepEndHolds == ASSUME SweepInv, SweepEnd PROVE SweepInv'
<1>1. /\ swp' = [swp EXCEPT !.at = 0, !.queried = TRUE]
      /\ index' = index /\ pos' = pos /\ calls' = calls
      /\ swp.at > (IF Static = <<>> THEN Len(Dynamic) ELSE 2 * Len(Dynamic))
  BY DEF SweepEnd, indexVars, Swept, Static, Dynamic
<1>2. Dynamic \in Seq(Cell) /\ Len(Dynamic) \in Nat /\ swp.at \in Nat /\ swp.at # 0
  <2>1. Dynamic \in Seq(Cell) /\ swp.at \in Nat
    BY DEF SweepInv, Holds, SweepTyped, Placed
  <2> QED
    BY <1>1, <2>1
<1>3. /\ swp'.at = 0 /\ swp'.queried /\ swp'.table = swp.table
      /\ Static' = Static /\ Dynamic' = Dynamic /\ Swept' = Len(Dynamic)
  BY <1>1 DEF SweepInv, SweepTyped, Placed, Static, Dynamic, Swept
<1>4. (calls = Once(Reported))'
  <2>1. Told(swp.at) = Told(2 * Len(Dynamic) + 1)
    BY <1>1, <1>2, AllTold DEF Told
  <2>2. Reported' = Told(2 * Len(Dynamic) + 1)
    BY <1>1, <1>3 DEF Reported, Told, ToldBySweep, ToldByStatic
  <2>3. calls = Once(Told(swp.at))
    BY <1>2 DEF SweepInv, Reported
  <2> QED
    BY <1>1, <2>1, <2>2, <2>3 DEF Once
<1>5. SweepTyped'
  BY <1>1 DEF SweepInv, SweepTyped, Placed
<1>6. In(STATIC)' = In(STATIC) /\ In(DYNAMIC)' = In(DYNAMIC)
  BY <1>1 DEF In
<1>7. Holds(Static, In(STATIC))' /\ Holds(Dynamic, In(DYNAMIC))'
  BY <1>3, <1>6 DEF SweepInv, Holds
<1>8. (Careful => Fresh(Static))' /\ Fresh(Dynamic)' /\ Sorted(Dynamic)'
  BY <1>1, <1>2, <1>3 DEF SweepInv, Fresh, Sorted
<1> QED
  BY <1>3, <1>4, <1>5, <1>7, <1>8 DEF SweepInv

LEMMA SweepNextHolds == SweepInv /\ [SweepNext]_<<indexVars, swp>> => SweepInv'
<1> SUFFICES ASSUME SweepInv, [SweepNext]_<<indexVars, swp>> PROVE SweepInv'
  OBVIOUS
<1>1. CASE \E o \in Shape, ix \in {STATIC, DYNAMIC}, p \in Position : SweepInsert(o, ix, p)
  BY <1>1, SweepInsertHolds DEF Both
<1>2. CASE \E o \in Shape : SweepRemove(o)
  BY <1>2, SweepRemoveHolds
<1>3. CASE \E o \in Shape, p \in Position : SweepReindexObject(o, p)
  BY <1>3, SweepMoveHolds
<1>4. CASE \E new \in [In(DYNAMIC) -> Position] : SweepBegin(new)
  BY <1>4, SweepBeginHolds
<1>5. CASE SweepCell
  BY <1>5, SweepCellHolds
<1>6. CASE SweepStatic
  BY <1>6, SweepStaticHolds
<1>7. CASE SweepEnd
  BY <1>7, SweepEndHolds
<1>8. CASE UNCHANGED <<indexVars, swp>>
  <2>1. index' = index /\ pos' = pos /\ calls' = calls /\ swp' = swp
    BY <1>8 DEF indexVars
  <2>2. Static' = Static /\ Dynamic' = Dynamic /\ Swept' = Swept
    BY <2>1 DEF Static, Dynamic, Swept
  <2>3. In(STATIC)' = In(STATIC) /\ In(DYNAMIC)' = In(DYNAMIC)
    BY <2>1 DEF In
  <2>4. Holds(Static, In(STATIC))' /\ Holds(Dynamic, In(DYNAMIC))'
    BY <2>2, <2>3 DEF SweepInv, Holds
  <2>5. (Fresh(Static)' <=> Fresh(Static)) /\ (Fresh(Dynamic)' <=> Fresh(Dynamic))
        /\ (Sorted(Dynamic)' <=> Sorted(Dynamic))
    BY <2>1, <2>2 DEF Fresh, Sorted
  <2>6. Reported' = Reported
    BY <2>1, <2>2 DEF Reported, Told, ToldBySweep, ToldByStatic
  <2>7. SweepTyped' /\ (calls = Once(Reported))'
    BY <2>1, <2>6 DEF SweepInv, SweepTyped, Placed, Once
  <2> QED
    BY <2>1, <2>4, <2>5, <2>7 DEF SweepInv
<1> QED
  BY <1>1, <1>2, <1>3, <1>4, <1>5, <1>6, <1>7, <1>8 DEF SweepNext

LEMMA SweepInvariance == SweepSpec => []SweepInv
<1>1. IndexInit /\ SweepInit => SweepInv
  BY SweepInitHolds
<1> QED
  BY <1>1, SweepNextHolds, PTL DEF SweepSpec

-----------------------------------------------------------------------------
(* What it says of the calls *)

\* Two shapes whose boxes overlap are told of: by the sweep when both are dynamic,
\* since no cell between theirs can begin behind the end of the first, and else by
\* the static index.
LEMMA OverlapTold ==
  ASSUME SweepInv, Careful, swp.queried, NEW P \in Overlapping
  PROVE  P \in Told(2 * Swept + 1)
<1> DEFINE t == Dynamic
           st == Static
<1>1. PICK o \in In(DYNAMIC), s \in In(DYNAMIC) \cup In(STATIC) :
        /\ P = {o, s} /\ Cardinality(P) = 2
        /\ \A a, b \in P : BB(pos[a]).l < BB(pos[b]).r
  BY DEF Overlapping
<1>2. o # s /\ o \in Shape /\ s \in Shape /\ P \in SUBSET Shape
  BY <1>1, Pairs DEF In
<1>3. /\ BB(pos[o]).l < BB(pos[s]).r /\ BB(pos[s]).l < BB(pos[o]).r
      /\ pos[o] \in Int /\ pos[s] \in Int
  BY <1>1, TablesTyped DEF Both
<1>4. /\ Fresh(t) /\ Sorted(t) /\ Fresh(st) /\ Holds(t, In(DYNAMIC)) /\ Holds(st, In(STATIC))
      /\ Len(t) \in Nat /\ Swept = Len(t)
  BY DEF SweepInv, Holds, Swept, Dynamic
<1>5. PICK i \in 1 .. Len(t) : t[i].obj = o
  BY <1>1, <1>2, <1>4 DEF Holds
<1> HIDE DEF t, st
<1>6. CASE s \in In(STATIC)
  <2>1. PICK m \in 1 .. Len(st) : st[m].obj = s
    BY <1>2, <1>4, <1>6 DEF Holds
  <2>2. BBIntersects(BB(pos[o]), st[m].bounds)
    <3>1. st[m].bounds = BB(pos[s])
      BY <1>4, <2>1 DEF Fresh
    <3> QED
      BY <1>3, <3>1, IndexAssumption DEF BBIntersects, BB
  <2>3. Len(t) + i < 2 * Len(t) + 1
    BY <1>4
  <2> QED
    BY <1>1, <1>2, <1>4, <1>5, <2>1, <2>2, <2>3 DEF Told, ToldByStatic, t, st
<1>7. CASE s \in In(DYNAMIC)
  <2>1. PICK j \in 1 .. Len(t) : t[j].obj = s
    BY <1>2, <1>4, <1>7 DEF Holds
  <2>2. i # j
    BY <1>2, <1>5, <2>1
  <2>3. ASSUME NEW a \in 1 .. Len(t), NEW b \in 1 .. Len(t), a < b, P = {t[a].obj, t[b].obj}
        PROVE  P \in ToldBySweep(t, 2 * Len(t) + 1)
    <3>1. t[b].bounds.l < t[a].bounds.r
      <4>1. t[a].obj \in P /\ t[b].obj \in P
        BY <2>3
      <4>2. BB(pos[t[b].obj]).l < BB(pos[t[a].obj]).r
        BY <1>1, <4>1
      <4>3. t[a].bounds = BB(pos[t[a].obj]) /\ t[b].bounds = BB(pos[t[b].obj])
        BY <1>4 DEF Fresh
      <4> QED
        BY <4>2, <4>3
    <3>2. \A k \in a + 1 .. b : t[k].bounds.l < t[a].bounds.r
      <4> SUFFICES ASSUME NEW k \in a + 1 .. b PROVE t[k].bounds.l < t[a].bounds.r
        OBVIOUS
      <4>1. k \in 1 .. Len(t) /\ (k < b \/ k = b)
        BY <1>4
      <4>2. t[k].bounds.l <= t[b].bounds.l
        <5>1. t[b] \in Cell /\ t[k] \in Cell
          BY <1>4, <4>1, PairOfCells
        <5> QED
          BY <1>4, <4>1, <5>1 DEF Sorted, Cell
      <4>3. t[b] \in Cell /\ t[k] \in Cell /\ t[a] \in Cell
        BY <1>4, <4>1, PairOfCells
      <4> QED
        BY <3>1, <4>2, <4>3 DEF Cell
    <3>3. a < 2 * Len(t) + 1
      BY <1>4
    <3> QED
      BY <1>2, <2>3, <3>2, <3>3 DEF ToldBySweep
  <2>4. i < j \/ j < i
    BY <1>4, <2>2
  <2>5. P = {t[i].obj, t[j].obj} /\ P = {t[j].obj, t[i].obj}
    BY <1>1, <1>5, <2>1
  <2>6. P \in ToldBySweep(t, 2 * Len(t) + 1)
    BY <2>3, <2>4, <2>5
  <2> QED
    BY <1>4, <2>6 DEF Told, t
<1> QED
  BY <1>1, <1>6, <1>7

\* All that is told of are two different shapes.
LEMMA ToldAreTwo ==
  ASSUME SweepInv, NEW at, NEW P \in Told(at)
  PROVE  Cardinality(P) = 2
<1>1. In(STATIC) \cap In(DYNAMIC) = {}
  BY TablesTyped
<1>2. Holds(Static, In(STATIC)) /\ Holds(Dynamic, In(DYNAMIC))
  BY DEF SweepInv
<1>3. CASE P \in ToldBySweep(Dynamic, at)
  <2>1. PICK i, j \in 1 .. Len(Dynamic) : i < j /\ P = {Dynamic[i].obj, Dynamic[j].obj}
    BY <1>3 DEF ToldBySweep
  <2>2. i # j
    BY <2>1
  <2>3. Dynamic[i].obj # Dynamic[j].obj
    BY <1>2, <2>2 DEF Holds
  <2> QED
    BY <2>1, <2>3, Pairs
<1>4. CASE P \in ToldByStatic(Dynamic, Static, at)
  <2>1. PICK i \in 1 .. Len(Dynamic), m \in 1 .. Len(Static) : P = {Dynamic[i].obj, Static[m].obj}
    BY <1>4 DEF ToldByStatic
  <2>2. Dynamic[i].obj \in In(DYNAMIC) /\ Static[m].obj \in In(STATIC)
    BY <1>2, PairOfCells
  <2> QED
    BY <1>1, <2>1, <2>2, Pairs
<1> QED
  BY <1>3, <1>4 DEF Told

\* Each ReindexQuery of cpSweep1D calls func for every two shapes whose boxes overlap,
\* not both static, as long as no static shape was moved; and at no time, moved or
\* not, has it called func twice for a pair or for a shape with itself.  So for any
\* shapes, places and order of insertions, removals, moves and queries, and for each
\* order qsort() can leave equal bounds in.
THEOREM SweepComplete == SweepSpec => []SweepReportsOnce
<1>1. SweepInv => SweepReportsOnce
  <2> SUFFICES ASSUME SweepInv PROVE SweepReportsOnce
    OBVIOUS
  <2>1. calls = Once(Reported) /\ DOMAIN calls = Reported
    BY DEF SweepInv, Once
  <2>2. ASSUME Careful, swp.queried, NEW P \in Overlapping PROVE BagIn(P, calls)
    <3>1. P \in Told(2 * Swept + 1)
      BY <2>2, OverlapTold
    <3>2. Reported = Told(2 * Swept + 1)
      BY <2>2 DEF SweepInv, Reported
    <3> QED
      BY <2>1, <3>1, <3>2 DEF BagIn, BagToSet
  <2>3. ASSUME NEW P \in Reported PROVE calls[P] = 1 /\ Cardinality(P) = 2
    <3>1. P \in Told(swp.at) \/ P \in Told(2 * Swept + 1)
      BY <2>3 DEF Reported
    <3> QED
      BY <2>1, <2>3, <3>1, ToldAreTwo DEF Once
  <2> QED
    BY <2>1, <2>2, <2>3 DEF SweepReportsOnce, MissesNone, CalledOnce, BagToSet
<1> QED
  BY <1>1, SweepInvariance, PTL

-----------------------------------------------------------------------------
(* cpSpaceHash: the handles of an index *)

Slots == 0 .. Cells - 1
Hands(h) == 1 .. Len(h.obj)
HashIndex == [table : [Slots -> SUBSET Nat], obj : Seq(Shape \cup {NoObj}), retain : Seq(Nat),
              pooled : Seq(Nat), set : [Shape -> Nat]]

HandTyped(h) ==
  /\ h \in HashIndex /\ Len(h.retain) = Len(h.obj)
  /\ \A c \in Slots : h.table[c] \subseteq Hands(h)
  /\ \A k \in 1 .. Len(h.pooled) : h.pooled[k] \in Hands(h)

\* The set has a handle for each shape of S, which has that shape, and no other handle
\* has a shape.
Handled(h, S) ==
  /\ \A o \in S : h.set[o] \in Hands(h) /\ h.obj[h.set[o]] = o
  /\ \A o \in Shape \ S : h.set[o] = 0
  /\ \A hand \in Hands(h) : h.obj[hand] # NoObj => h.obj[hand] \in S /\ h.set[h.obj[hand]] = hand

Bins(h, hand) == Cardinality(BinsOf(h.table, hand))
Retained(h) == \A hand \in Hands(h) : h.retain[hand] = Bins(h, hand) + (IF h.obj[hand] # NoObj THEN 1 ELSE 0)

\* The pool has the handles that nobody retains, once each.
Pooled(h) ==
  /\ \A hand \in Hands(h) : (\E k \in 1 .. Len(h.pooled) : h.pooled[k] = hand) <=> h.retain[hand] = 0
  /\ \A k, m \in 1 .. Len(h.pooled) : h.pooled[k] = h.pooled[m] => k = m

Handles(h, S) == HandTyped(h) /\ Handled(h, S) /\ Retained(h) /\ Pooled(h)

\* A handle has finitely many bins.
LEMMA BinsCount ==
  ASSUME NEW t, DOMAIN t = Slots, NEW hand
  PROVE  /\ BinsOf(t, hand) \subseteq Slots /\ IsFiniteSet(BinsOf(t, hand))
         /\ Cardinality(BinsOf(t, hand)) \in Nat
         /\ Cardinality(BinsOf(t, hand)) = 0 <=> BinsOf(t, hand) = {}
<1>1. Cells \in Nat /\ Cells - 1 \in Int /\ 0 \in Int
  BY HashAssumption
<1>2. IsFiniteSet(Slots)
  BY <1>1, FS_Interval DEF Slots
<1>3. BinsOf(t, hand) \subseteq Slots
  BY DEF BinsOf
<1>4. IsFiniteSet(BinsOf(t, hand))
  BY <1>2, <1>3, FS_Subset
<1> QED
  BY <1>3, <1>4, FS_CardinalityType, FS_EmptySet

\* The bins a table has, gains and loses add up.
LEMMA BinsAdd ==
  ASSUME NEW s, NEW t, NEW u, DOMAIN s = Slots, DOMAIN t = Slots, DOMAIN u = Slots, NEW hand,
         \A c \in Slots : hand \in u[c] <=> hand \in s[c] \/ hand \in t[c],
         \A c \in Slots : ~(hand \in s[c] /\ hand \in t[c])
  PROVE  Cardinality(BinsOf(u, hand)) = Cardinality(BinsOf(s, hand)) + Cardinality(BinsOf(t, hand))
<1>1. /\ IsFiniteSet(BinsOf(s, hand)) /\ IsFiniteSet(BinsOf(t, hand))
      /\ Cardinality(BinsOf(s, hand)) \in Nat /\ Cardinality(BinsOf(t, hand)) \in Nat
  BY BinsCount
<1>2. BinsOf(u, hand) = BinsOf(s, hand) \cup BinsOf(t, hand)
  BY DEF BinsOf
<1>3. BinsOf(s, hand) \cap BinsOf(t, hand) = {}
  BY DEF BinsOf
<1>4. Cardinality(BinsOf(s, hand) \cup BinsOf(t, hand)) =
        Cardinality(BinsOf(s, hand)) + Cardinality(BinsOf(t, hand)) - Cardinality(BinsOf(s, hand) \cap BinsOf(t, hand))
  BY <1>1, FS_Union
<1>5. Cardinality(BinsOf(u, hand)) = Cardinality(BinsOf(s, hand)) + Cardinality(BinsOf(t, hand)) - 0
  BY <1>2, <1>3, <1>4, FS_EmptySet
<1>6. \A a, b \in Nat : a + b - 0 = a + b
  OBVIOUS
<1> QED
  BY <1>1, <1>5, <1>6

LEMMA FreshHandles ==
  ASSUME NEW h, h = [table |-> [c \in Slots |-> {}], obj |-> <<>>, retain |-> <<>>,
                     pooled |-> <<>>, set |-> [o \in Shape |-> 0]]
  PROVE  Handles(h, {})
<1>1. h \in HashIndex
  <2>1. <<>> \in Seq(Shape \cup {NoObj}) /\ <<>> \in Seq(Nat)
    OBVIOUS
  <2>2. [c \in Slots |-> {}] \in [Slots -> SUBSET Nat] /\ [o \in Shape |-> 0] \in [Shape -> Nat]
    OBVIOUS
  <2> QED
    BY <2>1, <2>2 DEF HashIndex
<1>2. Len(h.obj) = 0 /\ Len(h.retain) = 0 /\ Len(h.pooled) = 0
  OBVIOUS
<1>3. \A c \in Slots : h.table[c] = {}
  OBVIOUS
<1>4. \A o \in Shape : h.set[o] = 0
  OBVIOUS
<1> QED
  BY <1>1, <1>2, <1>3, <1>4 DEF Handles, HandTyped, Handled, Retained, Pooled, Hands

\* Bins are made for handles of shapes: counts grow with the bins.
LEMMA LinkKeeps ==
  ASSUME NEW h, NEW S, Handles(h, S), NEW added \in [Slots -> SUBSET Hands(h)],
         \A c \in Slots : \A hand \in added[c] : h.obj[hand] # NoObj
  PROVE  LET g == Link(h, added)
         IN  /\ Handles(g, S)
             /\ g.obj = h.obj /\ g.set = h.set
             /\ \A c \in Slots : g.table[c] = h.table[c] \cup added[c]
<1> DEFINE fresh == [c \in DOMAIN added |-> added[c] \ h.table[c]]
           more(hand) == Cardinality(BinsOf(fresh, hand))
           table == [c \in DOMAIN h.table |-> h.table[c] \cup added[c]]
           retain == [hand \in DOMAIN h.retain |-> h.retain[hand] + more(hand)]
           g == [h EXCEPT !.table = table, !.retain = retain]
<1>1. h \in HashIndex /\ DOMAIN h.table = Slots /\ DOMAIN added = Slots /\ DOMAIN fresh = Slots
  BY DEF Handles, HandTyped, HashIndex
<1>2. /\ Len(h.retain) = Len(h.obj) /\ Len(h.obj) \in Nat /\ DOMAIN h.retain = Hands(h)
      /\ \A hand \in Hands(h) : h.retain[hand] \in Nat
  BY DEF Handles, HandTyped, HashIndex, Hands
<1>3. /\ g.table = table /\ g.retain = retain /\ g.obj = h.obj /\ g.set = h.set /\ g.pooled = h.pooled
  BY <1>1 DEF HashIndex
<1>4. \A c \in Slots : table[c] = h.table[c] \cup added[c]
  BY <1>1
<1>5. \A hand : more(hand) \in Nat /\ (more(hand) # 0 => \E c \in Slots : hand \in added[c])
  <2> SUFFICES ASSUME NEW hand
               PROVE  more(hand) \in Nat /\ (more(hand) # 0 => \E c \in Slots : hand \in added[c])
    OBVIOUS
  <2>1. more(hand) \in Nat /\ (more(hand) = 0 <=> BinsOf(fresh, hand) = {})
    BY <1>1, BinsCount
  <2> QED
    BY <1>1, <2>1 DEF BinsOf
<1>6. \A hand \in Hands(h) : Cardinality(BinsOf(table, hand)) = Bins(h, hand) + more(hand)
  <2> SUFFICES ASSUME NEW hand \in Hands(h)
               PROVE  Cardinality(BinsOf(table, hand)) = Bins(h, hand) + more(hand)
    OBVIOUS
  <2>1. DOMAIN table = Slots
    BY <1>1
  <2>2. \A c \in Slots : hand \in table[c] <=> hand \in h.table[c] \/ hand \in fresh[c]
    BY <1>1
  <2>3. \A c \in Slots : ~(hand \in h.table[c] /\ hand \in fresh[c])
    BY <1>1
  <2> HIDE DEF table, fresh
  <2> QED
    BY <1>1, <2>1, <2>2, <2>3, BinsAdd DEF Bins
<1> HIDE DEF more
<1>7. \A hand \in Hands(h) : retain[hand] = h.retain[hand] + more(hand) /\ retain[hand] \in Nat
  BY <1>2, <1>5
<1>8. retain \in Seq(Nat) /\ Len(retain) = Len(h.obj)
  <2>1. retain \in [1 .. Len(h.obj) -> Nat]
    BY <1>2, <1>7 DEF Hands
  <2> QED
    BY <1>2, <2>1
<1>9. HandTyped(g)
  <2>1. table \in [Slots -> SUBSET Nat] /\ \A c \in Slots : table[c] \subseteq Hands(h)
    BY <1>1, <1>4 DEF Handles, HandTyped, Hands
  <2>2. g \in HashIndex
    BY <1>1, <1>8, <2>1 DEF HashIndex
  <2> HIDE DEF table, retain, g
  <2> QED
    BY <1>3, <1>8, <2>1, <2>2 DEF Handles, HandTyped, Hands
<1> HIDE DEF g, table, retain
<1>10. Handled(g, S)
  BY <1>3 DEF Handles, Handled, Hands
<1>11. Retained(g)
  <2> SUFFICES ASSUME NEW hand \in Hands(h)
               PROVE  g.retain[hand] = Bins(g, hand) + (IF g.obj[hand] # NoObj THEN 1 ELSE 0)
    BY <1>3 DEF Retained, Hands
  <2>1. Bins(g, hand) = Bins(h, hand) + more(hand) /\ g.retain[hand] = h.retain[hand] + more(hand)
    BY <1>3, <1>6, <1>7 DEF Bins
  <2>2. h.retain[hand] = Bins(h, hand) + (IF h.obj[hand] # NoObj THEN 1 ELSE 0)
    BY DEF Handles, Retained
  <2>3. Bins(h, hand) \in Nat
    BY <1>1, BinsCount DEF Bins
  <2> QED
    BY <1>3, <1>5, <2>1, <2>2, <2>3
<1>12. Pooled(g)
  <2>1. \A hand \in Hands(h) : g.retain[hand] = 0 <=> h.retain[hand] = 0
    <3> SUFFICES ASSUME NEW hand \in Hands(h) PROVE g.retain[hand] = 0 <=> h.retain[hand] = 0
      OBVIOUS
    <3>1. g.retain[hand] = h.retain[hand] + more(hand) /\ h.retain[hand] \in Nat /\ more(hand) \in Nat
      BY <1>2, <1>3, <1>5, <1>7
    <3>2. CASE more(hand) = 0
      BY <3>1, <3>2
    <3>3. CASE more(hand) # 0
      <4>1. h.obj[hand] # NoObj
        BY <1>5, <3>3
      <4>2. h.retain[hand] = Bins(h, hand) + 1 /\ Bins(h, hand) \in Nat
        BY <1>1, <4>1, BinsCount DEF Handles, Retained, Bins
      <4> QED
        BY <3>1, <4>2
    <3> QED
      BY <3>2, <3>3
  <2> QED
    BY <1>3, <2>1 DEF Handles, Pooled, Hands
<1>13. \A c \in Slots : g.table[c] = h.table[c] \cup added[c]
  BY <1>3, <1>4
<1> QED
  BY <1>3, <1>9, <1>10, <1>11, <1>12, <1>13 DEF Handles, Link, g, fresh, more, table, retain

\* The elements of a finite set, one after the other.
LEMMA Enumerated ==
  ASSUME NEW S, IsFiniteSet(S)
  PROVE  /\ SetToSeq(S) \in Seq(S)
         /\ \A i, j \in 1 .. Len(SetToSeq(S)) : SetToSeq(S)[i] = SetToSeq(S)[j] => i = j
         /\ \A x : x \in S <=> \E i \in 1 .. Len(SetToSeq(S)) : SetToSeq(S)[i] = x
<1> DEFINE n == Cardinality(S)
           f == SetToSeq(S)
<1>1. n \in Nat /\ ExistsBijection(1 .. n, S)
  BY FS_CardinalityType
<1> HIDE DEF n
<1>2. \E g \in [1 .. n -> S] : IsInjective(g)
  BY <1>1 DEF ExistsBijection, Bijection, Injection
<1>3. f \in [1 .. n -> S] /\ IsInjective(f)
  BY <1>2 DEF SetToSeq, n
<1>4. f \in Injection(1 .. n, S)
  BY <1>3 DEF Injection
<1>5. Cardinality(1 .. n) = n
  <2>1. 1 \in Int /\ n \in Int /\ (1 > n => n = 0) /\ n - 1 + 1 = n
    BY <1>1
  <2>2. Cardinality(1 .. n) = IF 1 > n THEN 0 ELSE n - 1 + 1
    BY <2>1, FS_Interval
  <2> QED
    BY <2>1, <2>2
<1>6. f \in Surjection(1 .. n, S)
  BY <1>4, <1>5, FS_Injection DEF n
<1>7. \A x \in S : \E i \in 1 .. n : f[i] = x
  BY <1>6 DEF Surjection
<1> HIDE DEF f
<1>8. f \in Seq(S) /\ Len(f) = n
  BY <1>1, <1>3
<1>9. \A i, j \in 1 .. n : f[i] = f[j] => i = j
  BY <1>3 DEF IsInjective
<1> QED
  BY <1>3, <1>7, <1>8, <1>9 DEF f

\* Bins are recycled: the handles that lose the last of them, and only those, get into
\* the pool, each once.
LEMMA UnlinkKeeps ==
  ASSUME NEW h, NEW S, Handles(h, S), NEW dropped, DOMAIN dropped = Slots,
         \A c \in Slots : dropped[c] \subseteq h.table[c]
  PROVE  LET g == Unlink(h, dropped)
         IN  /\ Handles(g, S)
             /\ g.obj = h.obj /\ g.set = h.set
             /\ \A c \in Slots : g.table[c] = h.table[c] \ dropped[c]
<1> DEFINE less(hand) == Cardinality(BinsOf(dropped, hand))
           table == [c \in DOMAIN h.table |-> h.table[c] \ dropped[c]]
           left == [hand \in DOMAIN h.retain |-> h.retain[hand] - less(hand)]
           free == {hand \in DOMAIN left : BinsOf(dropped, hand) # {} /\ left[hand] = 0}
           more == SetToSeq(free)
           pooled == h.pooled \o more
           g == [h EXCEPT !.table = table, !.retain = left, !.pooled = pooled]
<1>0. g = Unlink(h, dropped)
  BY DEF Unlink
<1>1. h \in HashIndex /\ DOMAIN h.table = Slots
  BY DEF Handles, HandTyped, HashIndex
<1>2. /\ Len(h.retain) = Len(h.obj) /\ Len(h.obj) \in Nat /\ DOMAIN h.retain = Hands(h)
      /\ \A hand \in Hands(h) : h.retain[hand] \in Nat
  BY DEF Handles, HandTyped, HashIndex, Hands
<1>3. /\ g.table = table /\ g.retain = left /\ g.obj = h.obj /\ g.set = h.set /\ g.pooled = pooled
  BY <1>1 DEF HashIndex
<1>4. \A c \in Slots : table[c] = h.table[c] \ dropped[c]
  BY <1>1
<1>5. \A hand : less(hand) \in Nat /\ (less(hand) = 0 <=> BinsOf(dropped, hand) = {})
  BY BinsCount
<1>6. \A hand \in Hands(h) : /\ Bins(h, hand) = Cardinality(BinsOf(table, hand)) + less(hand)
                             /\ Cardinality(BinsOf(table, hand)) \in Nat
  <2> SUFFICES ASSUME NEW hand \in Hands(h)
               PROVE  /\ Bins(h, hand) = Cardinality(BinsOf(table, hand)) + less(hand)
                      /\ Cardinality(BinsOf(table, hand)) \in Nat
    OBVIOUS
  <2>1. DOMAIN table = Slots
    BY <1>1
  <2>2. \A c \in Slots : hand \in h.table[c] <=> hand \in table[c] \/ hand \in dropped[c]
    BY <1>1
  <2>3. \A c \in Slots : ~(hand \in table[c] /\ hand \in dropped[c])
    BY <1>1
  <2> HIDE DEF table
  <2>4. Cardinality(BinsOf(table, hand)) \in Nat
    BY <2>1, BinsCount
  <2> QED
    BY <1>1, <2>1, <2>2, <2>3, <2>4, BinsAdd DEF Bins
<1> HIDE DEF less
<1>7. \A hand \in Hands(h) :
        /\ h.retain[hand] = Cardinality(BinsOf(table, hand)) + less(hand) + (IF h.obj[hand] # NoObj THEN 1 ELSE 0)
        /\ left[hand] = h.retain[hand] - less(hand)
        /\ left[hand] = Cardinality(BinsOf(table, hand)) + (IF h.obj[hand] # NoObj THEN 1 ELSE 0)
        /\ left[hand] \in Nat
  <2> SUFFICES ASSUME NEW hand \in Hands(h)
               PROVE
        /\ h.retain[hand] = Cardinality(BinsOf(table, hand)) + less(hand) + (IF h.obj[hand] # NoObj THEN 1 ELSE 0)
        /\ left[hand] = h.retain[hand] - less(hand)
        /\ left[hand] = Cardinality(BinsOf(table, hand)) + (IF h.obj[hand] # NoObj THEN 1 ELSE 0)
        /\ left[hand] \in Nat
    OBVIOUS
  <2> DEFINE b == Cardinality(BinsOf(table, hand))
             one == IF h.obj[hand] # NoObj THEN 1 ELSE 0
  <2>1. h.retain[hand] = Bins(h, hand) + one
    BY DEF Handles, Retained
  <2>2. Bins(h, hand) = b + less(hand) /\ b \in Nat /\ less(hand) \in Nat /\ one \in Nat
    BY <1>5, <1>6
  <2>3. left[hand] = h.retain[hand] - less(hand)
    BY <1>2
  <2> HIDE DEF b, one, left
  <2>4. h.retain[hand] = b + less(hand) + one /\ left[hand] = b + one /\ left[hand] \in Nat
    BY <2>1, <2>2, <2>3
  <2> QED
    BY <2>3, <2>4 DEF b, one
<1>8. left \in Seq(Nat) /\ Len(left) = Len(h.obj) /\ DOMAIN left = Hands(h)
  <2>1. left \in [1 .. Len(h.obj) -> Nat]
    BY <1>2, <1>7 DEF Hands
  <2> QED
    BY <1>2, <2>1 DEF Hands
<1>9. /\ free \subseteq Hands(h) /\ IsFiniteSet(free)
      /\ \A hand : hand \in free <=> hand \in Hands(h) /\ less(hand) # 0 /\ left[hand] = 0
  <2>1. \A hand : hand \in free <=> hand \in Hands(h) /\ less(hand) # 0 /\ left[hand] = 0
    BY <1>5, <1>8
  <2>2. IsFiniteSet(Hands(h))
    BY <1>2, FS_Interval DEF Hands
  <2> QED
    BY <2>1, <2>2, FS_Subset
<1> HIDE DEF free, left, table
<1>10. /\ more \in Seq(free) /\ Len(more) \in Nat
       /\ \A i, j \in 1 .. Len(more) : more[i] = more[j] => i = j
       /\ \A x : x \in free <=> \E i \in 1 .. Len(more) : more[i] = x
  BY <1>9, Enumerated
<1> HIDE DEF more
<1>11. /\ h.pooled \in Seq(Nat) /\ Len(h.pooled) \in Nat
       /\ \A k \in 1 .. Len(h.pooled) : h.pooled[k] \in Hands(h)
  BY DEF Handles, HandTyped, HashIndex
<1>12. /\ pooled \in Seq(Nat) /\ Len(pooled) = Len(h.pooled) + Len(more)
       /\ \A k \in 1 .. Len(pooled) : pooled[k] = IF k <= Len(h.pooled) THEN h.pooled[k] ELSE more[k - Len(h.pooled)]
  <2>1. more \in Seq(Nat)
    BY <1>9, <1>10 DEF Hands
  <2> QED
    BY <1>11, <2>1, ConcatProperties
<1> HIDE DEF pooled
<1> PICK n \in Nat : n = Len(h.pooled)
  BY <1>11
<1> PICK m \in Nat : m = Len(more)
  BY <1>10
<1>13. /\ \A x : (\E k \in 1 .. Len(pooled) : pooled[k] = x) <=>
                  (\E k \in 1 .. n : h.pooled[k] = x) \/ x \in free
       /\ \A k \in 1 .. Len(pooled) : pooled[k] \in Hands(h)
  <2>1. ASSUME NEW k \in 1 .. Len(pooled)
        PROVE  pooled[k] \in free \/ \E j \in 1 .. n : h.pooled[j] = pooled[k]
    <3>1. CASE k <= n
      BY <1>12, <3>1
    <3>2. CASE k > n
      <4>1. k - n \in 1 .. m /\ pooled[k] = more[k - n]
        BY <1>12, <3>2
      <4> QED
        BY <1>10, <4>1
    <3> QED
      BY <1>12, <3>1, <3>2
  <2>2. \A k \in 1 .. n : k \in 1 .. Len(pooled) /\ pooled[k] = h.pooled[k]
    BY <1>12
  <2>3. ASSUME NEW k \in 1 .. m PROVE n + k \in 1 .. Len(pooled) /\ pooled[n + k] = more[k]
    <3>1. n + k \in 1 .. Len(pooled) /\ ~(n + k <= n) /\ (n + k) - n = k
      BY <1>12
    <3> QED
      BY <1>12, <3>1
  <2>4. ASSUME NEW x, \E k \in 1 .. Len(pooled) : pooled[k] = x
        PROVE  (\E k \in 1 .. n : h.pooled[k] = x) \/ x \in free
    BY <2>1, <2>4
  <2>5. ASSUME NEW x, x \in free PROVE \E k \in 1 .. Len(pooled) : pooled[k] = x
    <3>1. PICK k \in 1 .. m : more[k] = x
      BY <1>10, <2>5
    <3> QED
      BY <2>3, <3>1
  <2>6. ASSUME NEW k \in 1 .. Len(pooled) PROVE pooled[k] \in Hands(h)
    BY <1>9, <1>11, <2>1
  <2> QED
    BY <2>2, <2>4, <2>5, <2>6
<1>14. \A hand \in free : ~\E k \in 1 .. n : h.pooled[k] = hand
  <2> SUFFICES ASSUME NEW hand \in free PROVE ~\E k \in 1 .. n : h.pooled[k] = hand
    OBVIOUS
  <2>1. hand \in Hands(h) /\ left[hand] = 0 /\ less(hand) # 0 /\ less(hand) \in Nat
        /\ left[hand] = h.retain[hand] - less(hand) /\ h.retain[hand] \in Nat
    BY <1>2, <1>5, <1>7, <1>9
  <2>2. h.retain[hand] # 0
    BY <2>1
  <2> QED
    BY <2>1, <2>2 DEF Handles, Pooled
<1> HIDE DEF g
<1>15. HandTyped(g)
  <2>1. table \in [Slots -> SUBSET Nat] /\ \A c \in Slots : table[c] \subseteq Hands(h)
    BY <1>1, <1>4 DEF Handles, HandTyped, Hands, table
  <2>2. g \in HashIndex
    BY <1>1, <1>8, <1>12, <2>1 DEF HashIndex, g
  <2> QED
    BY <1>3, <1>8, <1>13, <2>1, <2>2 DEF HandTyped, Hands
<1>16. Handled(g, S)
  BY <1>3 DEF Handles, Handled, Hands
<1>17. Retained(g)
  BY <1>3, <1>7 DEF Retained, Hands, Bins
<1>18. Pooled(g)
  <2>1. ASSUME NEW hand \in Hands(h)
        PROVE  (\E k \in 1 .. Len(pooled) : pooled[k] = hand) <=> left[hand] = 0
    <3>1. /\ left[hand] = h.retain[hand] - less(hand) /\ h.retain[hand] \in Nat /\ less(hand) \in Nat
          /\ left[hand] \in Nat
      BY <1>2, <1>5, <1>7
    <3>2. (\E k \in 1 .. n : h.pooled[k] = hand) <=> h.retain[hand] = 0
      BY DEF Handles, Pooled
    <3>3. hand \in free <=> less(hand) # 0 /\ left[hand] = 0
      BY <1>9
    <3> QED
      BY <1>13, <3>1, <3>2, <3>3
  <2>2. ASSUME NEW k \in 1 .. Len(pooled), NEW j \in 1 .. Len(pooled), pooled[k] = pooled[j], k < j
        PROVE  FALSE
    <3>1. CASE j <= n
      <4>1. k \in 1 .. n /\ j \in 1 .. n /\ h.pooled[k] = h.pooled[j]
        BY <1>12, <2>2, <3>1
      <4>2. k = j
        BY <4>1 DEF Handles, Pooled
      <4> QED
        BY <2>2, <4>2
    <3>2. CASE k > n
      <4>1. k - n \in 1 .. m /\ j - n \in 1 .. m /\ more[k - n] = more[j - n]
        <5>1. k - n \in 1 .. m /\ j - n \in 1 .. m /\ ~(k <= n) /\ ~(j <= n)
          BY <1>12, <2>2, <3>2
        <5>2. pooled[k] = more[k - n]
          BY <1>12, <5>1
        <5>3. pooled[j] = more[j - n]
          BY <1>12, <5>1
        <5> QED
          BY <2>2, <5>1, <5>2, <5>3
      <4>2. k - n = j - n
        BY <1>10, <4>1
      <4> QED
        BY <2>2, <4>2
    <3>3. CASE k <= n /\ j > n
      <4>0. k \in 1 .. n /\ j - n \in 1 .. m /\ ~(j <= n)
        BY <1>12, <3>3
      <4>1. k \in 1 .. n /\ j - n \in 1 .. m /\ h.pooled[k] = more[j - n]
        <5>1. pooled[k] = h.pooled[k]
          BY <1>12, <3>3
        <5>2. pooled[j] = more[j - n]
          BY <1>12, <3>3
        <5> QED
          BY <2>2, <4>0, <5>1, <5>2
      <4>2. more[j - n] \in free
        BY <1>10, <4>1
      <4> QED
        BY <1>14, <4>1, <4>2
    <3> QED
      BY <1>12, <3>1, <3>2, <3>3
  <2>3. \A k, j \in 1 .. Len(pooled) : pooled[k] = pooled[j] => k = j
    BY <1>12, <2>2
  <2> QED
    BY <1>3, <2>1, <2>3 DEF Pooled, Hands
<1> QED
  BY <1>0, <1>3, <1>4, <1>15, <1>16, <1>17, <1>18 DEF Handles

\* A handle that the pool has is nobody's.
LEMMA PooledIsFree ==
  ASSUME NEW h, NEW S, Handles(h, S), NEW k \in 1 .. Len(h.pooled)
  PROVE  /\ h.pooled[k] \in Hands(h) /\ h.retain[h.pooled[k]] = 0
         /\ h.obj[h.pooled[k]] = NoObj /\ \A c \in Slots : h.pooled[k] \notin h.table[c]
<1>1. h.pooled[k] \in Hands(h) /\ h.retain[h.pooled[k]] = 0
  BY DEF Handles, HandTyped, Pooled
<1>2. DOMAIN h.table = Slots
  BY DEF Handles, HandTyped, HashIndex
<1>3. /\ Bins(h, h.pooled[k]) \in Nat
      /\ Bins(h, h.pooled[k]) = 0 <=> BinsOf(h.table, h.pooled[k]) = {}
  BY <1>2, BinsCount DEF Bins
<1>4. 0 = Bins(h, h.pooled[k]) + (IF h.obj[h.pooled[k]] # NoObj THEN 1 ELSE 0)
  BY <1>1 DEF Handles, Retained
<1>5. h.obj[h.pooled[k]] = NoObj /\ BinsOf(h.table, h.pooled[k]) = {}
  BY <1>3, <1>4
<1> QED
  BY <1>1, <1>2, <1>5 DEF BinsOf

\* A shape that is put into an index gets a handle that no cell has.
LEMMA NewHandleKeeps ==
  ASSUME NEW h, NEW S, S \subseteq Shape, Handles(h, S), NEW o \in Shape, o \notin S
  PROVE  LET g == NewHandle(h, o)
         IN  /\ Handles(g, S \cup {o})
             /\ g.table = h.table
             /\ \A s \in Shape \ {o} : g.set[s] = h.set[s]
             /\ \A c \in Slots : g.set[o] \notin h.table[c]
             /\ \A hand \in Hands(h) : hand # g.set[o] => hand \in Hands(g) /\ g.obj[hand] = h.obj[hand]
<1>1. /\ h \in HashIndex /\ DOMAIN h.table = Slots
      /\ Len(h.retain) = Len(h.obj) /\ Len(h.obj) \in Nat
      /\ h.obj \in Seq(Shape \cup {NoObj}) /\ h.retain \in Seq(Nat) /\ h.pooled \in Seq(Nat)
      /\ h.set \in [Shape -> Nat] /\ \A c \in Slots : h.table[c] \subseteq Hands(h)
      /\ \A k \in 1 .. Len(h.pooled) : h.pooled[k] \in Hands(h)
  BY DEF Handles, HandTyped, HashIndex
<1>2. o # NoObj /\ o \in Nat /\ \A s \in Shape : s # NoObj
  BY IndexAssumption DEF NoObj
<1>3. CASE h.pooled = <<>>
  <2> PICK n \in Nat : n = Len(h.obj)
    BY <1>1
  <2> DEFINE g == [h EXCEPT !.obj = Append(@, o), !.retain = Append(@, 1), !.set[o] = n + 1]
  <2>1. g = NewHandle(h, o)
    BY <1>3 DEF NewHandle
  <2>2. /\ g.table = h.table /\ g.obj = Append(h.obj, o) /\ g.retain = Append(h.retain, 1)
        /\ g.pooled = <<>> /\ g.set = [h.set EXCEPT ![o] = n + 1]
    BY <1>1, <1>3 DEF HashIndex
  <2>3. /\ g.obj \in Seq(Shape \cup {NoObj}) /\ Len(g.obj) = n + 1
        /\ g.retain \in Seq(Nat) /\ Len(g.retain) = n + 1
        /\ g.obj[n + 1] = o /\ g.retain[n + 1] = 1
        /\ \A k \in 1 .. n : g.obj[k] = h.obj[k] /\ g.retain[k] = h.retain[k]
    <3> HIDE DEF g
    <3>1. /\ g.obj \in Seq(Shape \cup {NoObj}) /\ Len(g.obj) = n + 1
          /\ g.obj[n + 1] = o /\ \A k \in 1 .. n : g.obj[k] = h.obj[k]
      BY <1>1, <2>2
    <3>2. /\ g.retain \in Seq(Nat) /\ Len(g.retain) = n + 1
          /\ g.retain[n + 1] = 1 /\ \A k \in 1 .. n : g.retain[k] = h.retain[k]
      BY <1>1, <2>2
    <3> QED
      BY <3>1, <3>2
  <2>4. /\ g.set[o] = n + 1 /\ \A s \in Shape \ {o} : g.set[s] = h.set[s]
        /\ g.set \in [Shape -> Nat]
    BY <1>1, <2>2
  <2>5. Hands(g) = Hands(h) \cup {n + 1} /\ n + 1 \notin Hands(h)
    BY <2>3 DEF Hands
  <2>6. \A c \in Slots : n + 1 \notin h.table[c]
    BY <1>1, <2>5
  <2>7. HandTyped(g)
    <3>1. g \in HashIndex
      BY <1>1, <2>2, <2>3, <2>4 DEF HashIndex
    <3> HIDE DEF g
    <3> QED
      BY <1>1, <1>3, <2>2, <2>3, <2>5, <3>1 DEF HandTyped
  <2> HIDE DEF g
  <2>8. Handled(g, S \cup {o})
    <3>1. \A s \in S \cup {o} : g.set[s] \in Hands(g) /\ g.obj[g.set[s]] = s
      <4>1. \A s \in S : h.set[s] \in 1 .. n /\ h.obj[h.set[s]] = s /\ s \in Shape \ {o}
        BY DEF Handles, Handled, Hands
      <4> SUFFICES ASSUME NEW s \in S \cup {o} PROVE g.set[s] \in Hands(g) /\ g.obj[g.set[s]] = s
        OBVIOUS
      <4>2. CASE s = o
        BY <2>3, <2>4, <2>5, <4>2
      <4>3. CASE s \in S
        <5>1. g.set[s] = h.set[s] /\ h.set[s] \in 1 .. n /\ h.obj[h.set[s]] = s
          BY <2>4, <4>1, <4>3
        <5>2. h.set[s] \in Hands(g)
          BY <2>5, <5>1 DEF Hands
        <5> QED
          BY <2>3, <5>1, <5>2
      <4> QED
        BY <4>2, <4>3
    <3>2. \A s \in Shape \ (S \cup {o}) : g.set[s] = 0
      BY <2>4 DEF Handles, Handled
    <3>3. ASSUME NEW hand \in Hands(g), g.obj[hand] # NoObj
          PROVE  g.obj[hand] \in S \cup {o} /\ g.set[g.obj[hand]] = hand
      <4>1. CASE hand = n + 1
        BY <2>3, <2>4, <4>1
      <4>2. CASE hand \in 1 .. n
        <5>1. g.obj[hand] = h.obj[hand] /\ hand \in Hands(h)
          BY <2>3, <4>2 DEF Hands
        <5>2. h.obj[hand] \in S /\ h.set[h.obj[hand]] = hand
          BY <3>3, <5>1 DEF Handles, Handled
        <5> QED
          BY <2>4, <5>1, <5>2
      <4> QED
        BY <2>5, <4>1, <4>2 DEF Hands
    <3> QED
      BY <3>1, <3>2, <3>3 DEF Handled
  <2>9. Retained(g)
    <3> SUFFICES ASSUME NEW hand \in Hands(g)
                 PROVE  g.retain[hand] = Bins(g, hand) + (IF g.obj[hand] # NoObj THEN 1 ELSE 0)
      BY DEF Retained
    <3>1. CASE hand = n + 1
      <4>1. BinsOf(g.table, hand) = {}
        BY <1>1, <2>2, <2>6, <3>1 DEF BinsOf
      <4>2. Bins(g, hand) = 0
        BY <4>1, FS_EmptySet DEF Bins
      <4> QED
        BY <1>2, <2>3, <3>1, <4>2
    <3>2. CASE hand \in 1 .. n
      BY <2>2, <2>3, <3>2 DEF Handles, Retained, Bins, Hands
    <3> QED
      BY <2>5, <3>1, <3>2 DEF Hands
  <2>10. Pooled(g)
    <3>1. \A hand \in Hands(h) : h.retain[hand] # 0
      BY <1>3 DEF Handles, Pooled
    <3>2. \A hand \in Hands(g) : g.retain[hand] # 0
      <4>1. \A hand \in Hands(h) : hand \in 1 .. n
        BY DEF Hands
      <4> QED
        BY <2>3, <2>5, <3>1, <4>1
    <3>3. Len(g.pooled) = 0
      BY <2>2
    <3> QED
      BY <3>2, <3>3 DEF Pooled
  <2>11. \A hand \in Hands(h) : hand \in Hands(g) /\ g.obj[hand] = h.obj[hand]
    BY <2>3, <2>5 DEF Hands
  <2> QED
    BY <2>1, <2>2, <2>4, <2>6, <2>7, <2>8, <2>9, <2>10, <2>11 DEF Handles
<1>4. CASE h.pooled # <<>>
  <2> PICK n \in Nat : n = Len(h.pooled)
    BY <1>1
  <2>1. n # 0
    BY <1>1, <1>4
  <2> DEFINE hand == h.pooled[n]
             front == Front(h.pooled)
             g == [h EXCEPT !.obj[hand] = o, !.retain[hand] = 1, !.pooled = front, !.set[o] = hand]
  <2>2. g = NewHandle(h, o)
    BY <1>4 DEF NewHandle, Last
  <2>3. /\ hand \in Hands(h) /\ h.retain[hand] = 0 /\ h.obj[hand] = NoObj
        /\ \A c \in Slots : hand \notin h.table[c]
    BY <2>1, PooledIsFree
  <2>4. front \in Seq(Nat) /\ Len(front) = n - 1 /\ \A k \in 1 .. n - 1 : front[k] = h.pooled[k]
    <3>1. \A k \in 1 .. n - 1 : h.pooled[k] \in Nat
      BY <1>1
    <3>2. /\ 1 \in Int /\ n - 1 \in Int /\ (~(1 <= n - 1) => n - 1 = 0)
          /\ n - 1 - 1 + 1 = n - 1
          /\ \A k \in 1 .. n - 1 : 1 + k - 1 = k
      <4>1. n >= 1
        BY <2>1
      <4>0. \A x \in Nat : x >= 1 => x - 1 \in Int /\ (~(1 <= x - 1) => x - 1 = 0)
        OBVIOUS
      <4>2. n - 1 \in Int /\ (~(1 <= n - 1) => n - 1 = 0)
        BY <4>0, <4>1
      <4>3. n - 1 - 1 + 1 = n - 1
        OBVIOUS
      <4>4. \A k \in 1 .. n - 1 : 1 + k - 1 = k
        OBVIOUS
      <4> QED
        BY <4>2, <4>3, <4>4
    <3>3. /\ SubSeq(h.pooled, 1, n - 1) \in Seq(Nat)
          /\ Len(SubSeq(h.pooled, 1, n - 1)) = (IF 1 <= n - 1 THEN n - 1 - 1 + 1 ELSE 0)
          /\ \A k \in 1 .. n - 1 - 1 + 1 : SubSeq(h.pooled, 1, n - 1)[k] = h.pooled[1 + k - 1]
      BY <3>1, <3>2, SubSeqProperties
    <3> QED
      BY <3>2, <3>3 DEF Front
  <2> HIDE DEF front, hand
  <2>5. /\ g.table = h.table /\ g.obj = [h.obj EXCEPT ![hand] = o] /\ g.retain = [h.retain EXCEPT ![hand] = 1]
        /\ g.pooled = front /\ g.set = [h.set EXCEPT ![o] = hand]
    BY <1>1 DEF HashIndex
  <2>6. /\ g.obj \in Seq(Shape \cup {NoObj}) /\ Len(g.obj) = Len(h.obj)
        /\ g.retain \in Seq(Nat) /\ Len(g.retain) = Len(h.obj)
        /\ g.obj[hand] = o /\ g.retain[hand] = 1
        /\ \A k \in Hands(h) \ {hand} : g.obj[k] = h.obj[k] /\ g.retain[k] = h.retain[k]
    BY <1>1, <2>3, <2>5 DEF Hands
  <2>7. /\ g.set[o] = hand /\ \A s \in Shape \ {o} : g.set[s] = h.set[s]
        /\ g.set \in [Shape -> Nat]
    BY <1>1, <2>3, <2>5 DEF Hands
  <2>8. Hands(g) = Hands(h)
    BY <2>6 DEF Hands
  <2>9. HandTyped(g)
    <3>1. g \in HashIndex
      BY <1>1, <2>4, <2>5, <2>6, <2>7 DEF HashIndex
    <3>2. \A k \in 1 .. Len(front) : front[k] \in Hands(h)
      <4> SUFFICES ASSUME NEW k \in 1 .. n - 1 PROVE front[k] \in Hands(h)
        BY <2>4
      <4>1. k \in 1 .. n
        OBVIOUS
      <4>2. h.pooled[k] \in Hands(h)
        BY <1>1, <4>1
      <4> QED
        BY <2>4, <4>2
    <3> HIDE DEF g
    <3> QED
      BY <1>1, <2>5, <2>6, <2>8, <3>1, <3>2 DEF HandTyped
  <2> HIDE DEF g
  <2>10. Handled(g, S \cup {o})
    <3>1. ASSUME NEW s \in S \cup {o} PROVE g.set[s] \in Hands(g) /\ g.obj[g.set[s]] = s
      <4>1. CASE s = o
        BY <2>3, <2>6, <2>7, <2>8, <4>1
      <4>2. CASE s \in S
        <5>1. s \in Shape \ {o} /\ h.set[s] \in Hands(h) /\ h.obj[h.set[s]] = s
          BY <4>2 DEF Handles, Handled
        <5>2. h.set[s] # hand
          BY <1>2, <2>3, <5>1
        <5> QED
          BY <2>6, <2>7, <2>8, <5>1, <5>2
      <4> QED
        BY <4>1, <4>2
    <3>2. \A s \in Shape \ (S \cup {o}) : g.set[s] = 0
      BY <2>7 DEF Handles, Handled
    <3>3. ASSUME NEW k \in Hands(g), g.obj[k] # NoObj
          PROVE  g.obj[k] \in S \cup {o} /\ g.set[g.obj[k]] = k
      <4>1. CASE k = hand
        BY <2>6, <2>7, <4>1
      <4>2. CASE k # hand
        <5>1. g.obj[k] = h.obj[k] /\ k \in Hands(h)
          BY <2>6, <2>8, <4>2
        <5>2. h.obj[k] \in S /\ h.set[h.obj[k]] = k
          BY <3>3, <5>1 DEF Handles, Handled
        <5> QED
          BY <2>7, <5>1, <5>2
      <4> QED
        BY <4>1, <4>2
    <3> QED
      BY <3>1, <3>2, <3>3 DEF Handled
  <2>11. Retained(g)
    <3> SUFFICES ASSUME NEW k \in Hands(g)
                 PROVE  g.retain[k] = Bins(g, k) + (IF g.obj[k] # NoObj THEN 1 ELSE 0)
      BY DEF Retained
    <3>1. CASE k = hand
      <4>1. BinsOf(g.table, k) = {}
        BY <1>1, <2>3, <2>5, <3>1 DEF BinsOf
      <4> QED
        BY <1>2, <2>6, <3>1, <4>1, FS_EmptySet DEF Bins
    <3>2. CASE k # hand
      BY <2>5, <2>6, <2>8, <3>2 DEF Handles, Retained, Bins
    <3> QED
      BY <3>1, <3>2
  <2>12. Pooled(g)
    <3>1. /\ \A x \in Hands(h) : (\E k \in 1 .. n : h.pooled[k] = x) <=> h.retain[x] = 0
          /\ \A k, m \in 1 .. n : h.pooled[k] = h.pooled[m] => k = m
      BY DEF Handles, Pooled
    <3>2. ASSUME NEW x \in Hands(h)
          PROVE  (\E k \in 1 .. n - 1 : front[k] = x) <=> g.retain[x] = 0
      <4>1. CASE x = hand
        <5>1. ASSUME NEW k \in 1 .. n - 1, front[k] = x PROVE FALSE
          <6>1. k \in 1 .. n /\ n \in 1 .. n /\ h.pooled[k] = h.pooled[n] /\ k # n
            BY <2>1, <2>4, <4>1, <5>1 DEF hand
          <6> QED
            BY <3>1, <6>1
        <5> QED
          BY <2>6, <4>1, <5>1
      <4>2. CASE x # hand
        <5>1. (\E k \in 1 .. n - 1 : front[k] = x) <=> (\E k \in 1 .. n : h.pooled[k] = x)
          <6>1. ASSUME NEW k \in 1 .. n, h.pooled[k] = x PROVE k \in 1 .. n - 1
            BY <2>1, <4>2, <6>1 DEF hand
          <6>2. \A k \in 1 .. n - 1 : k \in 1 .. n
            OBVIOUS
          <6> QED
            BY <2>4, <6>1, <6>2
        <5> QED
          BY <2>6, <3>1, <4>2, <5>1
      <4> QED
        BY <4>1, <4>2
    <3>3. \A k, m \in 1 .. n - 1 : front[k] = front[m] => k = m
      <4>1. \A k \in 1 .. n - 1 : k \in 1 .. n
        OBVIOUS
      <4> QED
        BY <2>4, <3>1, <4>1
    <3>4. g.pooled = front /\ Len(front) = n - 1
      BY <2>4, <2>5
    <3>5. \A x \in Hands(g) : (\E k \in 1 .. Len(g.pooled) : g.pooled[k] = x) <=> g.retain[x] = 0
      BY <2>8, <3>2, <3>4
    <3>6. \A k, m \in 1 .. Len(g.pooled) : g.pooled[k] = g.pooled[m] => k = m
      BY <3>3, <3>4
    <3> QED
      BY <3>5, <3>6 DEF Pooled
  <2> QED
    BY <2>2, <2>3, <2>5, <2>6, <2>7, <2>8, <2>9, <2>10, <2>11, <2>12 DEF Handles
<1> QED
  BY <1>3, <1>4

\* A shape that leaves gives its handle back, to the pool if no cell has it.
LEMMA LeftKeeps ==
  ASSUME NEW h, NEW S, S \subseteq Shape, Handles(h, S), NEW o \in S
  PROVE  LET g == HashLeft(h, o)
         IN  /\ Handles(g, S \ {o})
             /\ g.table = h.table /\ Hands(g) = Hands(h)
             /\ \A s \in Shape \ {o} : g.set[s] = h.set[s]
             /\ \A hand \in Hands(h) : g.obj[hand] = IF hand = h.set[o] THEN NoObj ELSE h.obj[hand]
<1> DEFINE hand == h.set[o]
           obj == [h.obj EXCEPT ![hand] = NoObj]
           retain == [h.retain EXCEPT ![hand] = @ - 1]
           pooled == IF h.retain[hand] = 1 THEN Append(h.pooled, hand) ELSE h.pooled
           set == [h.set EXCEPT ![o] = 0]
           empty == [h EXCEPT !.obj[hand] = NoObj]
           r == [empty EXCEPT !.retain[hand] = @ - 1,
                              !.pooled = IF empty.retain[hand] = 1 THEN Append(@, hand) ELSE @]
           g == [r EXCEPT !.set[o] = 0]
<1>1. /\ h \in HashIndex /\ DOMAIN h.table = Slots
      /\ Len(h.retain) = Len(h.obj) /\ Len(h.obj) \in Nat
      /\ h.obj \in Seq(Shape \cup {NoObj}) /\ h.retain \in Seq(Nat) /\ h.pooled \in Seq(Nat)
      /\ h.set \in [Shape -> Nat] /\ \A c \in Slots : h.table[c] \subseteq Hands(h)
      /\ \A k \in 1 .. Len(h.pooled) : h.pooled[k] \in Hands(h)
  BY DEF Handles, HandTyped, HashIndex
<1>2. o \in Shape /\ o # NoObj /\ \A s \in Shape : s # NoObj
  BY IndexAssumption DEF NoObj
<1>3. g = HashLeft(h, o)
  BY DEF HashLeft, Release
<1> HIDE DEF empty, r, g
<1>5. hand \in Hands(h) /\ h.obj[hand] = o
  BY DEF Handles, Handled
<1>6. h.retain[hand] = Bins(h, hand) + 1 /\ Bins(h, hand) \in Nat
  BY <1>1, <1>2, <1>5, BinsCount DEF Handles, Retained, Bins
<1> HIDE DEF hand
<1>7. /\ obj \in Seq(Shape \cup {NoObj}) /\ Len(obj) = Len(h.obj)
      /\ obj[hand] = NoObj /\ \A k \in Hands(h) \ {hand} : obj[k] = h.obj[k]
  BY <1>1, <1>5 DEF Hands
<1>8. /\ retain \in Seq(Nat) /\ Len(retain) = Len(h.obj)
      /\ retain[hand] = Bins(h, hand) /\ \A k \in Hands(h) \ {hand} : retain[k] = h.retain[k]
  <2>1. h.retain[hand] - 1 = Bins(h, hand)
    BY <1>6
  <2> QED
    BY <1>1, <1>5, <1>6, <2>1 DEF Hands
<1>9. set \in [Shape -> Nat] /\ set[o] = 0 /\ \A s \in Shape \ {o} : set[s] = h.set[s]
  BY <1>1, <1>2
<1> HIDE DEF set
<1> PICK n \in Nat : n = Len(h.pooled)
  BY <1>1
<1>10. /\ \A k \in 1 .. n : h.pooled[k] \in Hands(h) /\ h.pooled[k] # hand
       /\ \A x \in Hands(h) : (\E k \in 1 .. n : h.pooled[k] = x) <=> h.retain[x] = 0
       /\ \A k, m \in 1 .. n : h.pooled[k] = h.pooled[m] => k = m
  <2>1. /\ \A x \in Hands(h) : (\E k \in 1 .. n : h.pooled[k] = x) <=> h.retain[x] = 0
        /\ \A k, m \in 1 .. n : h.pooled[k] = h.pooled[m] => k = m
    BY DEF Handles, Pooled
  <2>2. h.retain[hand] # 0
    BY <1>6
  <2> QED
    BY <1>1, <1>5, <2>1, <2>2
<1>11. /\ pooled \in Seq(Nat) /\ \A k \in 1 .. Len(pooled) : pooled[k] \in Hands(h)
       /\ \A x \in Hands(h) : (\E k \in 1 .. Len(pooled) : pooled[k] = x) <=> retain[x] = 0
       /\ \A k, m \in 1 .. Len(pooled) : pooled[k] = pooled[m] => k = m
  <2>1. CASE h.retain[hand] # 1
    <3>1. pooled = h.pooled /\ Len(pooled) = n
      BY <2>1
    <3>2. retain[hand] # 0 /\ h.retain[hand] # 0
      BY <1>6, <1>8, <2>1
    <3>3. \A x \in Hands(h) : retain[x] = 0 <=> h.retain[x] = 0
      BY <1>8, <3>2
    <3> HIDE DEF pooled, retain
    <3> QED
      BY <1>1, <1>10, <3>1, <3>3
  <2>2. CASE h.retain[hand] = 1
    <3>1. pooled = Append(h.pooled, hand)
      BY <2>2
    <3>2. retain[hand] = 0
      BY <1>6, <1>8, <2>2
    <3>3. /\ pooled \in Seq(Nat) /\ Len(pooled) = n + 1 /\ pooled[n + 1] = hand
          /\ \A k \in 1 .. n : pooled[k] = h.pooled[k]
      BY <1>1, <1>5, <3>1 DEF Hands
    <3> HIDE DEF pooled, retain, obj
    <3>4. \A j : j \in 1 .. Len(pooled) <=> j \in 1 .. n \/ j = n + 1
      BY <3>3
    <3>5. \A k \in 1 .. Len(pooled) : pooled[k] \in Hands(h)
      BY <1>5, <1>10, <3>3, <3>4
    <3>6. \A x \in Hands(h) : (\E k \in 1 .. Len(pooled) : pooled[k] = x) <=> retain[x] = 0
      <4> SUFFICES ASSUME NEW x \in Hands(h)
                   PROVE  (\E k \in 1 .. Len(pooled) : pooled[k] = x) <=> retain[x] = 0
        OBVIOUS
      <4>1. CASE x = hand
        BY <3>2, <3>3, <3>4, <4>1
      <4>2. CASE x # hand
        <5>1. retain[x] = 0 <=> \E j \in 1 .. n : h.pooled[j] = x
          BY <1>8, <1>10, <4>2
        <5>2. ASSUME NEW j \in 1 .. Len(pooled), pooled[j] = x PROVE \E i \in 1 .. n : h.pooled[i] = x
          BY <3>3, <3>4, <4>2, <5>2
        <5>3. ASSUME NEW j \in 1 .. n, h.pooled[j] = x PROVE \E i \in 1 .. Len(pooled) : pooled[i] = x
          BY <3>3, <3>4, <5>3
        <5> QED
          BY <5>1, <5>2, <5>3
      <4> QED
        BY <4>1, <4>2
    <3>7. ASSUME NEW j \in 1 .. Len(pooled), NEW m \in 1 .. Len(pooled), pooled[j] = pooled[m] PROVE j = m
      <4>1. CASE j = n + 1
        <5>1. m \notin 1 .. n
          BY <1>10, <3>3, <3>7, <4>1
        <5> QED
          BY <3>4, <4>1, <5>1
      <4>2. CASE j \in 1 .. n
        <5>1. m \in 1 .. n
          <6>1. pooled[j] = h.pooled[j] /\ h.pooled[j] # hand
            BY <1>10, <3>3, <4>2
          <6>2. m # n + 1
            BY <3>3, <3>7, <6>1
          <6> QED
            BY <3>4, <6>2
        <5> QED
          BY <1>10, <3>3, <3>7, <4>2, <5>1
      <4> QED
        BY <3>4, <4>1, <4>2
    <3> QED
      BY <3>3, <3>5, <3>6, <3>7
  <2> QED
    BY <2>1, <2>2
<1>4. /\ g.table = h.table /\ g.obj = obj /\ g.retain = retain /\ g.pooled = pooled /\ g.set = set
      /\ g \in HashIndex
  <2> HIDE DEF obj, retain, pooled
  <2>1. /\ empty \in HashIndex /\ empty.table = h.table /\ empty.obj = obj /\ empty.retain = h.retain
        /\ empty.pooled = h.pooled /\ empty.set = h.set
    BY <1>1, <1>7 DEF empty, HashIndex, obj
  <2>2. /\ r \in HashIndex /\ r.table = h.table /\ r.obj = obj /\ r.retain = retain
        /\ r.pooled = pooled /\ r.set = h.set
    BY <1>8, <1>11, <2>1 DEF r, HashIndex, retain, pooled
  <2> QED
    BY <1>9, <2>2 DEF g, HashIndex, set
<1> HIDE DEF obj, retain, pooled
<1>12. HandTyped(g)
  BY <1>1, <1>4, <1>7, <1>8, <1>11 DEF HandTyped, Hands
<1>13. Hands(g) = Hands(h)
  BY <1>4, <1>7 DEF Hands
<1>14. Handled(g, S \ {o})
  <2>1. ASSUME NEW s \in S \ {o} PROVE g.set[s] \in Hands(g) /\ g.obj[g.set[s]] = s
    <3>1. s \in Shape \ {o} /\ h.set[s] \in Hands(h) /\ h.obj[h.set[s]] = s
      BY DEF Handles, Handled
    <3>2. h.set[s] # hand
      BY <1>5, <2>1, <3>1
    <3> QED
      BY <1>4, <1>7, <1>9, <1>13, <3>1, <3>2
  <2>2. \A s \in Shape \ (S \ {o}) : g.set[s] = 0
    BY <1>4, <1>9 DEF Handles, Handled
  <2>3. ASSUME NEW k \in Hands(g), g.obj[k] # NoObj
        PROVE  g.obj[k] \in S \ {o} /\ g.set[g.obj[k]] = k
    <3>1. k \in Hands(h) /\ k # hand /\ g.obj[k] = h.obj[k]
      BY <1>4, <1>7, <1>13, <2>3
    <3>2. h.obj[k] \in S /\ h.set[h.obj[k]] = k
      BY <2>3, <3>1 DEF Handles, Handled
    <3>3. h.obj[k] # o
      BY <3>1, <3>2 DEF hand
    <3> QED
      BY <1>4, <1>9, <3>1, <3>2, <3>3
  <2> QED
    BY <2>1, <2>2, <2>3 DEF Handled
<1>15. Retained(g)
  <2> SUFFICES ASSUME NEW k \in Hands(h)
               PROVE  g.retain[k] = Bins(g, k) + (IF g.obj[k] # NoObj THEN 1 ELSE 0)
    BY <1>13 DEF Retained
  <2>1. Bins(g, k) = Bins(h, k)
    BY <1>4 DEF Bins
  <2>2. CASE k = hand
    BY <1>4, <1>6, <1>7, <1>8, <2>1, <2>2
  <2>3. CASE k # hand
    BY <1>4, <1>7, <1>8, <2>1, <2>3 DEF Handles, Retained
  <2> QED
    BY <2>2, <2>3
<1>16. Pooled(g)
  BY <1>4, <1>11, <1>13 DEF Pooled
<1> QED
  BY <1>3, <1>4, <1>7, <1>9, <1>12, <1>13, <1>14, <1>15, <1>16 DEF Handles, hand

-----------------------------------------------------------------------------
(* What the operations do to a handled index *)

\* the shape s has a bin in the slot c
HasBin(h, s, c) == h.set[s] \in h.table[c]

LEMMA HandledBins ==
  ASSUME NEW h, NEW S, Handles(h, S)
  PROVE  /\ DOMAIN h.table = Slots /\ \A c \in Slots : h.table[c] \subseteq Hands(h)
         /\ \A s \in S : h.set[s] \in Hands(h) /\ h.obj[h.set[s]] = s
BY DEF Handles, HandTyped, HashIndex, Handled

LEMMA CellsAreSlots == ASSUME NEW bb PROVE CellsOf(bb) \subseteq Slots
<1> SUFFICES ASSUME NEW i \in bb.l \div CellDim .. bb.r \div CellDim PROVE i % Cells \in Slots
  BY DEF CellsOf
<1>1. i \in Int /\ Cells \in Int /\ Cells > 0
  BY HashAssumption
<1> QED
  BY <1>1 DEF Slots

LEMMA ClearKeeps ==
  ASSUME NEW h, NEW S, Handles(h, S)
  PROVE  /\ Handles(ClearTable(h), S)
         /\ ClearTable(h).set = h.set /\ ClearTable(h).obj = h.obj
         /\ \A c \in Slots : ClearTable(h).table[c] = {}
<1>1. DOMAIN h.table = Slots /\ \A c \in Slots : h.table[c] \subseteq h.table[c] /\ h.table[c] \ h.table[c] = {}
  BY HandledBins
<1> QED
  BY <1>1, UnlinkKeeps DEF ClearTable

LEMMA OrphansKeep ==
  ASSUME NEW h, NEW S, S \subseteq Shape, Handles(h, S), NEW C
  PROVE  LET g == RemoveOrphanedHandles(h, C)
         IN  /\ Handles(g, S)
             /\ g.set = h.set /\ g.obj = h.obj
             /\ \A s \in S, c \in Slots : HasBin(g, s, c) <=> HasBin(h, s, c)
<1> DEFINE dropped == [c \in DOMAIN h.table |->
                         IF c \in C THEN {hand \in h.table[c] : h.obj[hand] = NoObj} ELSE {}]
           g == Unlink(h, dropped)
<1>1. DOMAIN dropped = Slots /\ \A c \in Slots : dropped[c] \subseteq h.table[c]
  BY HandledBins
<1>2. \A s \in S, c \in Slots : h.set[s] \notin dropped[c]
  <2>1. \A s \in S : h.obj[h.set[s]] # NoObj
    BY IndexAssumption, HandledBins DEF NoObj
  <2> QED
    BY <2>1, HandledBins
<1> HIDE DEF dropped
<1>3. /\ Handles(g, S) /\ g.obj = h.obj /\ g.set = h.set
      /\ \A c \in Slots : g.table[c] = h.table[c] \ dropped[c]
  BY <1>1, UnlinkKeeps
<1>4. \A s \in S, c \in Slots : HasBin(g, s, c) <=> HasBin(h, s, c)
  BY <1>2, <1>3 DEF HasBin
<1> QED
  BY <1>3, <1>4 DEF RemoveOrphanedHandles, dropped

\* g is h with the handle of o in the slots of C as well.
WithBins(g, h, S, o, C) ==
  /\ Handles(g, S) /\ g.set = h.set
  /\ \A s \in S, c \in Slots : HasBin(g, s, c) <=> HasBin(h, s, c) \/ (s = o /\ c \in C)

LEMMA IntoKeeps ==
  ASSUME NEW h, NEW S, S \subseteq Shape, Handles(h, S), NEW o \in S, NEW C
  PROVE  WithBins(Into(h, h.set[o], C), h, S, o, C)
<1> DEFINE added == [c \in DOMAIN h.table |-> IF c \in C THEN {h.set[o]} ELSE {}]
           g == Link(h, added)
<1>1. h.set[o] \in Hands(h) /\ h.obj[h.set[o]] # NoObj
  BY IndexAssumption, HandledBins DEF NoObj
<1>2. added \in [Slots -> SUBSET Hands(h)] /\ \A c \in Slots : \A hand \in added[c] : h.obj[hand] # NoObj
  BY <1>1, HandledBins
<1>3. \A c \in Slots : \A hand : hand \in added[c] <=> c \in C /\ hand = h.set[o]
  BY HandledBins
<1>4. \A s \in S : h.set[s] = h.set[o] => s = o
  BY HandledBins
<1> HIDE DEF added
<1>5. /\ Handles(g, S) /\ g.obj = h.obj /\ g.set = h.set
      /\ \A c \in Slots : g.table[c] = h.table[c] \cup added[c]
  BY <1>2, LinkKeeps
<1>6. \A s \in S, c \in Slots : HasBin(g, s, c) <=> HasBin(h, s, c) \/ (s = o /\ c \in C)
  BY <1>3, <1>4, <1>5 DEF HasBin
<1>7. WithBins(g, h, S, o, C)
  BY <1>5, <1>6 DEF WithBins
<1> QED
  BY <1>7 DEF Into, added

\* The orphans of a slot go before a handle is put into it.
LEMMA IntoClean ==
  ASSUME NEW h, NEW S, S \subseteq Shape, Handles(h, S), NEW o \in S, NEW C
  PROVE  WithBins(Into(RemoveOrphanedHandles(h, C), h.set[o], C), h, S, o, C)
<1> DEFINE k == RemoveOrphanedHandles(h, C)
<1>1. Handles(k, S) /\ k.set = h.set /\ \A s \in S, c \in Slots : HasBin(k, s, c) <=> HasBin(h, s, c)
  BY OrphansKeep
<1> HIDE DEF k
<1>2. S \subseteq Shape /\ o \in S /\ Handles(k, S)
  BY <1>1
<1>3. WithBins(Into(k, k.set[o], C), k, S, o, C)
  BY <1>2, IntoKeeps
<1>4. WithBins(Into(k, h.set[o], C), k, S, o, C)
  BY <1>1, <1>3
<1> QED
  BY <1>1, <1>4 DEF k, WithBins

LEMMA EnteredKeeps ==
  ASSUME NEW h, NEW S, S \subseteq Shape, Handles(h, S), NEW o \in Shape, o \notin S, NEW p
  PROVE  LET g == HashEntered(h, o, p)
         IN  /\ Handles(g, S \cup {o})
             /\ \A c \in Slots : HasBin(g, o, c) <=> c \in CellsOf(BB(p))
             /\ \A s \in S, c \in Slots : HasBin(g, s, c) <=> HasBin(h, s, c)
<1> DEFINE k == NewHandle(h, o)
           g == Into(k, k.set[o], CellsOf(BB(p)))
<1>1. /\ Handles(k, S \cup {o}) /\ k.table = h.table
      /\ \A s \in Shape \ {o} : k.set[s] = h.set[s]
      /\ \A c \in Slots : k.set[o] \notin h.table[c]
  BY NewHandleKeeps
<1> HIDE DEF k
<1>2. /\ Handles(g, S \cup {o}) /\ g.set = k.set
      /\ \A s \in S \cup {o}, c \in Slots :
           HasBin(g, s, c) <=> HasBin(k, s, c) \/ (s = o /\ c \in CellsOf(BB(p)))
  <2> DEFINE T == S \cup {o}
             C == CellsOf(BB(p))
  <2>1. T \subseteq Shape /\ o \in T /\ Handles(k, T)
    BY <1>1
  <2> HIDE DEF T, C
  <2>2. WithBins(Into(k, k.set[o], C), k, T, o, C)
    BY <2>1, IntoKeeps
  <2> QED
    BY <2>2 DEF T, C, WithBins
<1>3. \A c \in Slots : ~HasBin(k, o, c)
  BY <1>1 DEF HasBin
<1>4. \A s \in S, c \in Slots : HasBin(k, s, c) <=> HasBin(h, s, c)
  BY <1>1 DEF HasBin
<1> HIDE DEF g
<1> QED
  BY <1>2, <1>3, <1>4 DEF HashEntered, k, g

LEMMA RehashedKeeps ==
  ASSUME NEW h, NEW ix, Handles(h, In(ix)), NEW new
  PROVE  LET g == Rehashed(h, ix, new)
         IN  /\ Handles(g, In(ix))
             /\ \A s \in In(ix), c \in Slots : HasBin(g, s, c) <=> c \in CellsOf(BB(new[s]))
<1> DEFINE k == ClearTable(h)
           added == [c \in DOMAIN h.table |-> {h.set[o] : o \in {o \in In(ix) : c \in CellsOf(BB(new[o]))}}]
           g == Link(k, added)
<1>1. Handles(k, In(ix)) /\ k.set = h.set /\ k.obj = h.obj /\ \A c \in Slots : k.table[c] = {}
  BY ClearKeeps
<1>2. \A o \in In(ix) : h.set[o] \in Hands(h) /\ h.obj[h.set[o]] = o /\ o # NoObj
  BY IndexAssumption, HandledBins DEF NoObj, In
<1>3. added \in [Slots -> SUBSET Hands(h)] /\ \A c \in Slots : \A hand \in added[c] : h.obj[hand] # NoObj
  BY <1>2, HandledBins
<1>4. \A s \in In(ix), c \in Slots : h.set[s] \in added[c] <=> c \in CellsOf(BB(new[s]))
  BY <1>2, HandledBins
<1> HIDE DEF added, k
<1>5. added \in [Slots -> SUBSET Hands(k)] /\ \A c \in Slots : \A hand \in added[c] : k.obj[hand] # NoObj
  BY <1>1, <1>3 DEF Hands
<1>6. /\ Handles(g, In(ix)) /\ g.set = k.set
      /\ \A c \in Slots : g.table[c] = k.table[c] \cup added[c]
  BY <1>1, <1>5, LinkKeeps
<1>7. \A s \in In(ix), c \in Slots : HasBin(g, s, c) <=> c \in CellsOf(BB(new[s]))
  BY <1>1, <1>4, <1>6 DEF HasBin
<1> QED
  BY <1>6, <1>7 DEF Rehashed, k, added

\* Each handle of a cell that is not orphaned stands for a shape of the index.
LiveAt(h, c, o, seen) == {hand \in h.table[c] : h.obj[hand] \notin {NoObj, o}} \ seen
Objects(h, met) == {h.obj[hand] : hand \in met}

LEMMA MetAreShapes ==
  ASSUME NEW h, NEW S, S \subseteq Shape, Handles(h, S), NEW c \in Slots, NEW o, NEW seen
  PROVE  /\ \A s : s \in Objects(h, LiveAt(h, c, o, seen)) <=>
                     s \in S /\ s # o /\ HasBin(h, s, c) /\ h.set[s] \notin seen
         /\ \A s \in S : h.set[s] \in LiveAt(h, c, o, seen) <=> s # o /\ HasBin(h, s, c) /\ h.set[s] \notin seen
<1> DEFINE met == {hand \in h.table[c] : h.obj[hand] \notin {NoObj, o}} \ seen
<1>1. \A s \in S : s # NoObj /\ h.obj[h.set[s]] = s
  BY IndexAssumption, HandledBins DEF NoObj
<1>2. \A hand \in h.table[c] : h.obj[hand] # NoObj => h.obj[hand] \in S /\ h.set[h.obj[hand]] = hand
  BY HandledBins DEF Handles, Handled
<1>3. \A s \in S : h.set[s] \in met <=> s # o /\ HasBin(h, s, c) /\ h.set[s] \notin seen
  BY <1>1 DEF HasBin
<1>4. ASSUME NEW hand \in met
      PROVE  h.obj[hand] \in S /\ h.obj[hand] # o /\ HasBin(h, h.obj[hand], c) /\ h.set[h.obj[hand]] \notin seen
  BY <1>2 DEF HasBin
<1>5. \A s \in S : h.set[s] \in met => s \in {h.obj[hand] : hand \in met}
  BY <1>1
<1> QED
  BY <1>3, <1>4, <1>5 DEF LiveAt, Objects

-----------------------------------------------------------------------------
(* What the index is told *)

LEMMA InIsApart ==
  /\ In(STATIC) \cap In(DYNAMIC) = {} /\ \A ix \in Both : In(ix) \subseteq Shape
BY NamesDiffer DEF In, Both

LEMMA EnterIs ==
  ASSUME Placed, NEW o \in Shape, NEW ix \in Both, NEW p \in Position, Enter(o, ix, p)
  PROVE  /\ Placed' /\ \A i \in Both : o \notin In(i)
         /\ \A i \in Both : In(i)' = IF i = ix THEN In(i) \cup {o} ELSE In(i)
         /\ pos'[o] = p /\ \A s \in Shape : s # o => pos'[s] = pos[s]
         /\ calls' = NoCalls
<1>1. /\ index' = [index EXCEPT ![o] = ix] /\ pos' = [pos EXCEPT ![o] = p] /\ calls' = NoCalls
      /\ index[o] \in {NULL, LEFT}
  BY DEF Enter
<1>2. \A i \in Both : o \notin In(i)
  BY <1>1, NamesDiffer DEF In, Both
<1>3. \A i \in Both : In(i)' = IF i = ix THEN In(i) \cup {o} ELSE In(i)
  BY <1>1, <1>2 DEF In, Placed, Both
<1>4. pos'[o] = p /\ \A s \in Shape : s # o => pos'[s] = pos[s]
  BY <1>1 DEF Placed
<1>5. index' \in [Shape -> {NULL, LEFT, STATIC, DYNAMIC}]
  BY <1>1 DEF Placed, Both
<1>6. DOMAIN pos' = Shape /\ \A s \in Shape : index'[s] \in Both => pos'[s] \in Int
  BY <1>1, IndexAssumption DEF Placed
<1> QED
  BY <1>1, <1>2, <1>3, <1>4, <1>5, <1>6 DEF Placed

LEMMA LeaveIs ==
  ASSUME Placed, NEW o \in Shape, Leave(o)
  PROVE  /\ Placed' /\ index[o] \in Both /\ o \in In(index[o])
         /\ \A i \in Both : In(i)' = In(i) \ {o}
         /\ \A s \in Shape : s # o => pos'[s] = pos[s]
         /\ calls' = NoCalls
<1> PICK p : pos' = [pos EXCEPT ![o] = p]
  BY DEF Leave
<1>1. index' = [index EXCEPT ![o] = LEFT] /\ calls' = NoCalls /\ index[o] \in Both
  BY DEF Leave, Both
<1>2. \A i \in Both : In(i)' = In(i) \ {o}
  BY <1>1, NamesDiffer DEF In, Placed, Both
<1>3. index' \in [Shape -> {NULL, LEFT, STATIC, DYNAMIC}]
  BY <1>1 DEF Placed
<1>4. DOMAIN pos' = Shape /\ \A s \in Shape : s # o => pos'[s] = pos[s]
  BY DEF Placed
<1>5. \A s \in Shape : index'[s] \in Both => pos'[s] \in Int
  BY <1>1, <1>4, NamesDiffer DEF Placed, Both
<1> QED
  BY <1>1, <1>2, <1>3, <1>4, <1>5 DEF Placed, In

LEMMA UpdateIs ==
  ASSUME Placed, NEW A, NEW new \in [A -> Position], Update(new)
  PROVE  /\ Placed' /\ \A i \in Both : In(i)' = In(i)
         /\ \A s \in Shape : pos'[s] = IF s \in A THEN new[s] ELSE pos[s]
<1>1. index' = index /\ pos' = [o \in Shape |-> IF o \in A THEN new[o] ELSE pos[o]]
  BY DEF Update
<1>2. DOMAIN pos' = Shape /\ \A s \in Shape : index'[s] \in Both => pos'[s] \in Int
  BY <1>1, IndexAssumption DEF Placed
<1> QED
  BY <1>1, <1>2 DEF Placed, In

-----------------------------------------------------------------------------
(* cpSpaceHash: where a ReindexQuery is *)

From(o) == BB(pos[o]).l \div CellDim
Upto(o) == BB(pos[o]).r \div CellDim
At(o) == CellsOf(BB(pos[o]))

\* the slots of the cells before one of them
Passed(o, cell) == {i % Cells : i \in From(o) .. cell - 1}

\* the pairs of different shapes that share a slot, and those that share one of V
PairsOf(A, B) == {P \in SUBSET Shape : \E a \in A, b \in B : a # b /\ P = {a, b} /\ At(a) \cap At(b) # {}}
PairsWith(o, B, V) == {P \in SUBSET Shape : \E b \in B : P = {o, b} /\ At(b) \cap V # {}}

Current == Foremost(hsh.loop.rest)
Done == In(DYNAMIC) \ hsh.loop.rest
Been == Passed(Current, hsh.loop.cell)

\* what a ReindexQuery has called func for
HashTold ==
  IF hsh.loop.phase = "rehash" THEN PairsOf(Done, Done) \cup PairsWith(Current, Done, Been)
  ELSE IF hsh.loop.phase = "static"
  THEN PairsOf(In(DYNAMIC), In(DYNAMIC)) \cup PairsOf(Done, In(STATIC)) \cup PairsWith(Current, In(STATIC), Been)
  ELSE IF hsh.queried THEN PairsOf(In(DYNAMIC), In(DYNAMIC)) \cup PairsOf(In(DYNAMIC), In(STATIC)) ELSE {}

HashTyped ==
  /\ Placed
  /\ hsh \in [of : [Both -> HashIndex],
              loop : [phase : {"none", "rehash", "static"}, rest : SUBSET Shape, cell : Int, seen : SUBSET Nat],
              queried : BOOLEAN]

InLoop ==
  hsh.loop.phase # "none" =>
    /\ hsh.loop.rest # {} /\ hsh.loop.rest \subseteq In(DYNAMIC) /\ hsh.loop.cell \in From(Current) .. Upto(Current)
    /\ ~hsh.queried

\* The static index has the cells of its shapes.
StaticFiled == \A s \in In(STATIC), c \in Slots : HasBin(hsh.of[STATIC], s, c) <=> c \in At(s)

\* In the first loop the dynamic index has the cells of the shapes that are done and
\* the first ones of the current shape, and those who share them were seen.
Rehashing ==
  hsh.loop.phase = "rehash" =>
    /\ \A s \in In(DYNAMIC), c \in Slots :
         HasBin(hsh.of[DYNAMIC], s, c) <=> (s \in Done /\ c \in At(s)) \/ (s = Current /\ c \in Been)
    /\ \A s \in Done : hsh.of[DYNAMIC].set[s] \in hsh.loop.seen <=> At(s) \cap Been # {}

Asking ==
  hsh.loop.phase = "static" =>
    \A s \in In(STATIC) : hsh.of[STATIC].set[s] \in hsh.loop.seen <=> At(s) \cap Been # {}

\* Handles are in order whatever the program does; if it is careful the static index has
\* its shapes where they are, and the calls are those of the cells the loops have passed.
HashInv ==
  /\ HashTyped
  /\ \A ix \in Both : Handles(hsh.of[ix], In(ix))
  /\ InLoop
  /\ Careful => StaticFiled /\ Rehashing /\ Asking /\ calls = Once(HashTold)

LEMMA NothingCalled == NoCalls = Once({})
BY DEF NoCalls, EmptyBag, SetToBag, Once

LEMMA HashInitHolds == ASSUME IndexInit, HashInit PROVE HashInv
<1> DEFINE h == [table |-> [c \in Slots |-> {}], obj |-> <<>>, retain |-> <<>>,
                 pooled |-> <<>>, set |-> [o \in Shape |-> 0]]
<1>1. hsh = [of |-> [ix \in Both |-> h], loop |-> NoLoop, queried |-> FALSE]
  BY DEF HashInit, Both, Slots
<1>2. Handles(h, {})
  BY FreshHandles
<1>3. h \in HashIndex
  BY <1>2 DEF Handles, HandTyped
<1> HIDE DEF h
<1>4. In(STATIC) = {} /\ In(DYNAMIC) = {}
  BY NamesDiffer DEF IndexInit, In
<1>5. HashTyped
  <2>1. NoLoop \in [phase : {"none", "rehash", "static"}, rest : SUBSET Shape, cell : Int, seen : SUBSET Nat]
    BY DEF NoLoop
  <2>2. Placed
    BY NamesDiffer DEF IndexInit, Placed, Both
  <2> QED
    BY <1>1, <1>3, <2>1, <2>2 DEF HashTyped
<1>6. hsh.loop.phase = "none" /\ hsh.queried = FALSE /\ \A ix \in Both : hsh.of[ix] = h
  BY <1>1 DEF NoLoop
<1>7. \A ix \in Both : Handles(hsh.of[ix], In(ix))
  BY <1>2, <1>4, <1>6 DEF Both
<1>8. calls = Once(HashTold)
  BY <1>6, NothingCalled DEF IndexInit, HashTold
<1> QED
  BY <1>4, <1>5, <1>6, <1>7, <1>8 DEF HashInv, InLoop, StaticFiled, Rehashing, Asking

\* What an operation between two ReindexQuery leaves to show.
LEMMA HashIdleHolds ==
  ASSUME NEW of \in [Both -> HashIndex], HashDone(of), calls' = NoCalls, Placed',
         \A ix \in Both : Handles(of[ix], In(ix)'),
         Careful => \A s \in In(STATIC)', c \in Slots : HasBin(of[STATIC], s, c) <=> c \in CellsOf(BB(pos'[s]))
  PROVE  HashInv'
<1>1. hsh' = [of |-> of, loop |-> NoLoop, queried |-> FALSE]
  BY DEF HashDone
<1>2. hsh'.loop.phase = "none" /\ hsh'.queried = FALSE /\ hsh'.of = of
  BY <1>1 DEF NoLoop
<1>3. HashTyped'
  <2>1. NoLoop \in [phase : {"none", "rehash", "static"}, rest : SUBSET Shape, cell : Int, seen : SUBSET Nat]
    BY DEF NoLoop
  <2> QED
    BY <1>1, <2>1 DEF HashTyped
<1>4. (\A ix \in Both : Handles(hsh.of[ix], In(ix)))'
  BY <1>2 DEF Handles, HandTyped, Handled, Retained, Pooled, Hands, Bins
<1>5. (Careful => StaticFiled)'
  BY <1>2 DEF StaticFiled, At, HasBin
<1>6. (calls = Once(HashTold))'
  BY <1>2, NothingCalled DEF HashTold
<1>7. InLoop' /\ Rehashing' /\ Asking'
  BY <1>2 DEF InLoop, Rehashing, Asking
<1> QED
  BY <1>3, <1>4, <1>5, <1>6, <1>7 DEF HashInv

-----------------------------------------------------------------------------
(* cpSpaceHash: operations between the queries *)

LEMMA IndexesOf ==
  ASSUME HashInv
  PROVE  /\ hsh.of \in [Both -> HashIndex] /\ Placed /\ STATIC \in Both /\ DYNAMIC \in Both
         /\ \A ix \in Both : Handles(hsh.of[ix], In(ix)) /\ In(ix) \subseteq Shape
         /\ hsh.loop.rest \subseteq Shape /\ hsh.loop.cell \in Int /\ hsh.loop.seen \subseteq Nat
         /\ \A ix \in Both : \A o \in In(ix) : o \in Shape /\ pos[o] \in Int
BY InIsApart DEF HashInv, HashTyped, Both, Placed, In

\* One index becomes another.
LEMMA OneIndex ==
  ASSUME HashInv, NEW ix \in Both, NEW h, NEW S, Handles(h, S)
  PROVE  LET of == [hsh.of EXCEPT ![ix] = h]
         IN  of \in [Both -> HashIndex] /\ \A i \in Both : of[i] = IF i = ix THEN h ELSE hsh.of[i]
BY IndexesOf DEF Handles, HandTyped

LEMMA HashInsertHolds ==
  ASSUME HashInv, NEW o \in Shape, NEW ix \in Both, NEW p \in Position, HashInsert(o, ix, p)
  PROVE  HashInv'
<1> DEFINE h == hsh.of[ix]
           g == HashEntered(h, o, p)
           of == [hsh.of EXCEPT ![ix] = g]
<1>1. HashDone(of) /\ Enter(o, ix, p)
  BY DEF HashInsert, HashOne
<1>2. /\ Placed' /\ \A i \in Both : o \notin In(i)
      /\ \A i \in Both : In(i)' = IF i = ix THEN In(i) \cup {o} ELSE In(i)
      /\ pos'[o] = p /\ \A s \in Shape : s # o => pos'[s] = pos[s]
      /\ calls' = NoCalls
  BY <1>1, IndexesOf, EnterIs
<1>3. /\ Handles(g, In(ix) \cup {o})
      /\ \A c \in Slots : HasBin(g, o, c) <=> c \in CellsOf(BB(p))
      /\ \A s \in In(ix), c \in Slots : HasBin(g, s, c) <=> HasBin(h, s, c)
  <2> DEFINE S == In(ix)
  <2>1. S \subseteq Shape /\ Handles(h, S) /\ o \notin S
    BY <1>2, IndexesOf
  <2> HIDE DEF S, h
  <2>2. /\ Handles(g, S \cup {o})
        /\ \A c \in Slots : HasBin(g, o, c) <=> c \in CellsOf(BB(p))
        /\ \A s \in S, c \in Slots : HasBin(g, s, c) <=> HasBin(h, s, c)
    BY <2>1, EnteredKeeps
  <2> QED
    BY <2>2 DEF S
<1> HIDE DEF g
<1>4. of \in [Both -> HashIndex] /\ \A i \in Both : of[i] = IF i = ix THEN g ELSE hsh.of[i]
  BY <1>3, OneIndex
<1> HIDE DEF of
<1>5. \A i \in Both : Handles(of[i], In(i)')
  BY <1>2, <1>3, <1>4, IndexesOf
<1>6. ASSUME Careful, NEW s \in In(STATIC)', NEW c \in Slots
      PROVE  HasBin(of[STATIC], s, c) <=> c \in CellsOf(BB(pos'[s]))
  <2>1. CASE s = o
    <3>1. ix = STATIC
      BY <1>2, <1>6, <2>1 DEF Both
    <3> QED
      BY <1>2, <1>3, <1>4, <2>1, <3>1 DEF Both
  <2>2. CASE s # o
    <3>1. s \in In(STATIC) /\ s \in Shape
      BY <1>2, <1>6, <2>2, IndexesOf
    <3>2. HasBin(of[STATIC], s, c) <=> HasBin(hsh.of[STATIC], s, c)
      BY <1>3, <1>4, <3>1 DEF Both
    <3>3. HasBin(hsh.of[STATIC], s, c) <=> c \in CellsOf(BB(pos[s]))
      BY <1>6, <3>1 DEF HashInv, StaticFiled, At
    <3> QED
      BY <1>2, <2>2, <3>1, <3>2, <3>3
  <2> QED
    BY <2>1, <2>2
<1> QED
  BY <1>1, <1>2, <1>4, <1>5, <1>6, HashIdleHolds

LEMMA HashRemoveHolds ==
  ASSUME HashInv, NEW o \in Shape, HashRemove(o)
  PROVE  HashInv'
<1> DEFINE ix == index[o]
           h == hsh.of[ix]
           g == HashLeft(h, o)
           of == [hsh.of EXCEPT ![ix] = g]
<1>1. HashDone(of) /\ Leave(o)
  BY DEF HashRemove, HashOne
<1>2. /\ Placed' /\ ix \in Both /\ o \in In(ix)
      /\ \A i \in Both : In(i)' = In(i) \ {o}
      /\ \A s \in Shape : s # o => pos'[s] = pos[s]
      /\ calls' = NoCalls
  BY <1>1, IndexesOf, LeaveIs
<1> HIDE DEF ix
<1>3. /\ Handles(g, In(ix) \ {o}) /\ g.table = h.table
      /\ \A s \in Shape \ {o} : g.set[s] = h.set[s]
  BY <1>2, IndexesOf, LeftKeeps
<1> HIDE DEF g
<1>4. of \in [Both -> HashIndex] /\ \A i \in Both : of[i] = IF i = ix THEN g ELSE hsh.of[i]
  BY <1>2, <1>3, OneIndex
<1> HIDE DEF of
<1>5. \A i \in Both : i # ix => In(i) \ {o} = In(i)
  BY <1>2, InIsApart DEF Both
<1>6. \A i \in Both : Handles(of[i], In(i)')
  BY <1>2, <1>3, <1>4, <1>5, IndexesOf
<1>7. ASSUME Careful, NEW s \in In(STATIC)', NEW c \in Slots
      PROVE  HasBin(of[STATIC], s, c) <=> c \in CellsOf(BB(pos'[s]))
  <2>1. s \in In(STATIC) /\ s \in Shape /\ s # o
    BY <1>2, <1>7, IndexesOf
  <2>2. HasBin(of[STATIC], s, c) <=> HasBin(hsh.of[STATIC], s, c)
    BY <1>3, <1>4, <2>1 DEF HasBin, Both
  <2>3. HasBin(hsh.of[STATIC], s, c) <=> c \in CellsOf(BB(pos[s]))
    BY <1>7, <2>1 DEF HashInv, StaticFiled, At
  <2> QED
    BY <1>2, <2>1, <2>2, <2>3
<1> QED
  BY <1>1, <1>2, <1>4, <1>6, <1>7, HashIdleHolds

\* A shape that is moved gives up one handle, with bins at the old place, for another.
LEMMA HashMoveHolds ==
  ASSUME HashInv, NEW o \in Shape, NEW p \in Position, HashReindexObject(o, p)
  PROVE  HashInv'
<1> DEFINE ix == index[o]
           h == hsh.of[ix]
           k == HashLeft(h, o)
           g == HashEntered(k, o, p)
           of == [hsh.of EXCEPT ![ix] = g]
           new == [s \in {o} |-> p]
<1>1. HashDone(of) /\ Update(new) /\ calls' = NoCalls /\ ix \in Both /\ o \in In(ix)
  BY DEF HashReindexObject, HashOne, Both, In
<1>2. /\ Placed' /\ \A i \in Both : In(i)' = In(i)
      /\ pos'[o] = p /\ \A s \in Shape : s # o => pos'[s] = pos[s]
  <2>1. new \in [{o} -> Position]
    OBVIOUS
  <2>2. /\ Placed' /\ \A i \in Both : In(i)' = In(i)
        /\ \A s \in Shape : pos'[s] = IF s \in {o} THEN new[s] ELSE pos[s]
    BY <1>1, <2>1, IndexesOf, UpdateIs
  <2> QED
    BY <2>2
<1> HIDE DEF ix
<1>3. /\ Handles(k, In(ix) \ {o}) /\ k.table = h.table
      /\ \A s \in Shape \ {o} : k.set[s] = h.set[s]
  BY <1>1, IndexesOf, LeftKeeps
<1> HIDE DEF k
<1>4. /\ Handles(g, In(ix))
      /\ \A c \in Slots : HasBin(g, o, c) <=> c \in CellsOf(BB(p))
      /\ \A s \in In(ix) \ {o}, c \in Slots : HasBin(g, s, c) <=> HasBin(k, s, c)
  <2> DEFINE S == In(ix) \ {o}
  <2>1. S \subseteq Shape /\ o \notin S /\ S \cup {o} = In(ix)
    BY <1>1, IndexesOf
  <2> HIDE DEF S
  <2>2. /\ Handles(g, S \cup {o})
        /\ \A c \in Slots : HasBin(g, o, c) <=> c \in CellsOf(BB(p))
        /\ \A s \in S, c \in Slots : HasBin(g, s, c) <=> HasBin(k, s, c)
    BY <1>3, <2>1, EnteredKeeps DEF S
  <2> QED
    BY <2>1, <2>2 DEF S
<1> HIDE DEF g
<1>5. of \in [Both -> HashIndex] /\ \A i \in Both : of[i] = IF i = ix THEN g ELSE hsh.of[i]
  BY <1>1, <1>4, OneIndex
<1> HIDE DEF of
<1>6. \A i \in Both : Handles(of[i], In(i)')
  BY <1>2, <1>4, <1>5, IndexesOf
<1>7. ASSUME Careful, NEW s \in In(STATIC)', NEW c \in Slots
      PROVE  HasBin(of[STATIC], s, c) <=> c \in CellsOf(BB(pos'[s]))
  <2>1. s \in In(STATIC) /\ s \in Shape
    BY <1>2, <1>7, IndexesOf
  <2>2. HasBin(hsh.of[STATIC], s, c) <=> c \in CellsOf(BB(pos[s]))
    BY <1>7, <2>1 DEF HashInv, StaticFiled, At
  <2>3. CASE s = o
    <3>1. ix = STATIC
      BY <1>1, <2>1, <2>3, InIsApart DEF Both
    <3> QED
      BY <1>2, <1>4, <1>5, <2>3, <3>1 DEF Both
  <2>4. CASE s # o
    <3>1. HasBin(of[STATIC], s, c) <=> HasBin(hsh.of[STATIC], s, c)
      <4>1. CASE ix = STATIC
        <5>1. HasBin(k, s, c) <=> HasBin(h, s, c)
          BY <1>3, <2>1, <2>4 DEF HasBin
        <5> QED
          BY <1>4, <1>5, <2>1, <2>4, <4>1, <5>1 DEF Both
      <4>2. CASE ix # STATIC
        BY <1>5, <4>2 DEF Both
      <4> QED
        BY <4>1, <4>2
    <3> QED
      BY <1>2, <2>1, <2>2, <2>4, <3>1
  <2> QED
    BY <2>3, <2>4
<1> QED
  BY <1>1, <1>2, <1>5, <1>6, <1>7, HashIdleHolds

LEMMA HashReindexStaticHolds ==
  ASSUME HashInv, NEW new \in [In(STATIC) -> Position], HashReindexStatic(new)
  PROVE  HashInv'
<1> DEFINE g == Rehashed(hsh.of[STATIC], STATIC, new)
           of == [hsh.of EXCEPT ![STATIC] = g]
<1>1. HashDone(of) /\ Update(new) /\ calls' = NoCalls
  BY DEF HashReindexStatic, HashOne
<1>2. /\ Placed' /\ \A i \in Both : In(i)' = In(i)
      /\ \A s \in Shape : pos'[s] = IF s \in In(STATIC) THEN new[s] ELSE pos[s]
  BY <1>1, IndexesOf, UpdateIs
<1>3. /\ Handles(g, In(STATIC))
      /\ \A s \in In(STATIC), c \in Slots : HasBin(g, s, c) <=> c \in CellsOf(BB(new[s]))
  BY IndexesOf, RehashedKeeps
<1> HIDE DEF g
<1>4. of \in [Both -> HashIndex] /\ \A i \in Both : of[i] = IF i = STATIC THEN g ELSE hsh.of[i]
  BY <1>3, OneIndex DEF Both
<1> HIDE DEF of
<1>5. \A i \in Both : Handles(of[i], In(i)')
  BY <1>2, <1>3, <1>4, IndexesOf
<1>6. \A s \in In(STATIC)', c \in Slots : HasBin(of[STATIC], s, c) <=> c \in CellsOf(BB(pos'[s]))
  <2> SUFFICES ASSUME NEW s \in In(STATIC), NEW c \in Slots
               PROVE  HasBin(of[STATIC], s, c) <=> c \in CellsOf(BB(pos'[s]))
    BY <1>2 DEF Both
  <2>1. pos'[s] = new[s] /\ of[STATIC] = g
    BY <1>2, <1>4, IndexesOf
  <2> QED
    BY <1>3, <2>1
<1> QED
  BY <1>1, <1>2, <1>4, <1>5, <1>6, HashIdleHolds

\* What neither moves a shape nor puts it into an index, and leaves the cells of the
\* static shapes as they are.
LEMMA HashStayHolds ==
  ASSUME HashInv, NEW of \in [Both -> HashIndex], HashDone(of), Stay,
         \A ix \in Both : Handles(of[ix], In(ix)),
         Careful => \A s \in In(STATIC), c \in Slots : HasBin(of[STATIC], s, c) <=> HasBin(hsh.of[STATIC], s, c)
  PROVE  HashInv'
<1>1. index' = index /\ pos' = pos /\ calls' = NoCalls
  BY DEF Stay
<1>2. Placed' /\ \A i \in Both : In(i)' = In(i)
  BY <1>1, IndexesOf DEF Placed, In
<1>3. \A ix \in Both : Handles(of[ix], In(ix)')
  BY <1>2
<1>4. ASSUME Careful, NEW s \in In(STATIC)', NEW c \in Slots
      PROVE  HasBin(of[STATIC], s, c) <=> c \in CellsOf(BB(pos'[s]))
  <2>1. s \in In(STATIC)
    BY <1>2, <1>4 DEF Both
  <2>2. HasBin(hsh.of[STATIC], s, c) <=> c \in CellsOf(BB(pos[s]))
    BY <1>4, <2>1 DEF HashInv, StaticFiled, At
  <2> QED
    BY <1>1, <1>4, <2>1, <2>2
<1> QED
  BY <1>1, <1>2, <1>3, <1>4, HashIdleHolds

LEMMA HashResizeHolds ==
  ASSUME HashInv, HashResize
  PROVE  HashInv'
<1> DEFINE of == [ix \in DOMAIN hsh.of |-> ClearTable(hsh.of[ix])]
<1>1. HashDone(of) /\ Stay /\ (Careful => In(STATIC) = {})
  BY DEF HashResize
<1>2. \A ix \in Both : of[ix] = ClearTable(hsh.of[ix]) /\ Handles(of[ix], In(ix))
  BY IndexesOf, ClearKeeps
<1>3. of \in [Both -> HashIndex]
  BY <1>2, IndexesOf DEF Handles, HandTyped
<1> HIDE DEF of
<1> QED
  BY <1>1, <1>2, <1>3, HashStayHolds

LEMMA HashSegmentHolds ==
  ASSUME HashInv, NEW s, HashSegmentQuery(s)
  PROVE  HashInv'
<1> DEFINE of == SegmentFirst(s).of
<1>1. HashDone(of) /\ Stay
  BY DEF HashSegmentQuery
<1>2. \A h, limit : \E C : HashSegment(h, s, limit).h = RemoveOrphanedHandles(h, C)
  BY DEF HashSegment
<1>3. \E C, D : of = [ix \in Both |-> IF ix = STATIC THEN RemoveOrphanedHandles(hsh.of[STATIC], C)
                                      ELSE RemoveOrphanedHandles(hsh.of[DYNAMIC], D)]
  BY <1>2 DEF SegmentFirst, Both
<1> PICK C, D : of = [ix \in Both |-> IF ix = STATIC THEN RemoveOrphanedHandles(hsh.of[STATIC], C)
                                      ELSE RemoveOrphanedHandles(hsh.of[DYNAMIC], D)]
  BY <1>3
<1> HIDE DEF of
<1>4. /\ of[STATIC] = RemoveOrphanedHandles(hsh.of[STATIC], C)
      /\ of[DYNAMIC] = RemoveOrphanedHandles(hsh.of[DYNAMIC], D)
  BY NamesDiffer DEF Both
<1>5. /\ Handles(of[STATIC], In(STATIC)) /\ Handles(of[DYNAMIC], In(DYNAMIC))
      /\ \A t \in In(STATIC), c \in Slots : HasBin(of[STATIC], t, c) <=> HasBin(hsh.of[STATIC], t, c)
  BY <1>4, IndexesOf, OrphansKeep
<1>6. of \in [Both -> HashIndex] /\ \A ix \in Both : Handles(of[ix], In(ix))
  <2>1. \A ix \in Both : Handles(of[ix], In(ix)) /\ of[ix] \in HashIndex
    BY <1>5 DEF Both, Handles, HandTyped
  <2>2. of = [ix \in Both |-> of[ix]]
    OBVIOUS
  <2> QED
    BY <2>1, <2>2
<1> QED
  BY <1>1, <1>5, <1>6, HashStayHolds

-----------------------------------------------------------------------------
(* Cells and pairs *)

LEMMA Division ==
  ASSUME NEW x \in Int, NEW c \in Nat, c > 0
  PROVE  x \div c \in Int /\ c * (x \div c) <= x /\ x < c * (x \div c) + c
OBVIOUS

LEMMA DivisionGrows ==
  ASSUME NEW a \in Int, NEW b \in Int, a <= b, NEW c \in Nat, c > 0
  PROVE  a \div c <= b \div c
<1> DEFINE d == a \div c
           e == b \div c
<1>1. d \in Int /\ e \in Int /\ c * d <= a /\ b < c * e + c
  BY Division
<1> HIDE DEF d, e
<1>2. ASSUME d > e PROVE FALSE
  <2>1. PICK n \in Nat : d = e + 1 + n
    <3>1. d - e - 1 \in Nat /\ d = e + 1 + (d - e - 1)
      BY <1>1, <1>2
    <3> QED
      BY <3>1
  <2>2. c * d = c * e + c + c * n /\ c * n \in Nat /\ c * e \in Int
    BY <1>1, <2>1
  <2> QED
    BY <1>1, <2>2
<1>3. d <= e
  BY <1>1, <1>2
<1> QED
  BY <1>3 DEF d, e

LEMMA PassedCells ==
  ASSUME NEW o, pos[o] \in Int
  PROVE  /\ From(o) \in Int /\ Upto(o) \in Int /\ From(o) <= Upto(o)
         /\ Passed(o, From(o)) = {}
         /\ Passed(o, Upto(o) + 1) = At(o)
         /\ \A cell \in From(o) .. Upto(o) :
              cell % Cells \in Slots /\ Passed(o, cell + 1) = Passed(o, cell) \cup {cell % Cells}
<1>1. /\ BB(pos[o]).l = pos[o] /\ BB(pos[o]).r = pos[o] + Width
      /\ pos[o] + Width \in Int /\ pos[o] <= pos[o] + Width
  BY IndexAssumption DEF BB
<1>2. From(o) \in Int /\ Upto(o) \in Int /\ From(o) <= Upto(o)
  BY <1>1, HashAssumption, Division, DivisionGrows DEF From, Upto
<1>3. Passed(o, From(o)) = {}
  <2>1. From(o) .. From(o) - 1 = {}
    BY <1>2
  <2> QED
    BY <2>1 DEF Passed
<1>4. Passed(o, Upto(o) + 1) = At(o)
  <2>1. (Upto(o) + 1) - 1 = Upto(o)
    BY <1>2
  <2>2. At(o) = {i % Cells : i \in From(o) .. Upto(o)}
    BY DEF At, CellsOf, From, Upto
  <2>3. Passed(o, Upto(o) + 1) = {i % Cells : i \in From(o) .. (Upto(o) + 1) - 1}
    BY DEF Passed
  <2> QED
    BY <2>1, <2>2, <2>3
<1>5. ASSUME NEW cell \in From(o) .. Upto(o)
      PROVE  cell % Cells \in Slots /\ Passed(o, cell + 1) = Passed(o, cell) \cup {cell % Cells}
  <2>1. cell \in Int /\ From(o) .. cell + 1 - 1 = (From(o) .. cell - 1) \cup {cell}
    BY <1>2
  <2>2. cell % Cells \in Slots
    BY <2>1, HashAssumption DEF Slots
  <2> QED
    BY <2>1, <2>2 DEF Passed
<1> QED
  BY <1>2, <1>3, <1>4, <1>5

\* those that are in a slot and in none of the slots V
NewAt(B, V, c) == {b \in B : c \in At(b) /\ At(b) \cap V = {}}

\* One more slot, one more shape
LEMMA OneMoreSlot ==
  ASSUME NEW o \in Shape, NEW B, B \subseteq Shape, o \notin B, NEW V, NEW c
  PROVE  /\ PairsWith(o, B, V \cup {c}) = PairsWith(o, B, V) \cup With(o, NewAt(B, V, c))
         /\ PairsWith(o, B, V) \cap With(o, NewAt(B, V, c)) = {}
<1> DEFINE N == {b \in B : c \in At(b) /\ At(b) \cap V = {}}
<1>1. \A b : At(b) \cap (V \cup {c}) # {} <=> At(b) \cap V # {} \/ c \in At(b)
  OBVIOUS
<1>2. \A P : P \in With(o, N) <=> \E b \in B : P = {o, b} /\ c \in At(b) /\ At(b) \cap V = {}
  BY DEF With
<1>3. \A b \in B : {o, b} \in SUBSET Shape
  OBVIOUS
<1>4. \A W, P : P \in PairsWith(o, B, W) <=> P \in SUBSET Shape /\ \E b \in B : P = {o, b} /\ At(b) \cap W # {}
  BY DEF PairsWith
<1> HIDE DEF N
<1>5. \A P : P \in PairsWith(o, B, V \cup {c}) <=> P \in PairsWith(o, B, V) \cup With(o, N)
  <2> SUFFICES ASSUME NEW P
               PROVE  P \in PairsWith(o, B, V \cup {c}) <=> P \in PairsWith(o, B, V) \/ P \in With(o, N)
    OBVIOUS
  <2>1. ASSUME P \in PairsWith(o, B, V \cup {c}) PROVE P \in PairsWith(o, B, V) \/ P \in With(o, N)
    <3> PICK b \in B : P = {o, b} /\ At(b) \cap (V \cup {c}) # {}
      BY <1>4, <2>1
    <3> QED
      BY <1>1, <1>2, <1>3, <1>4
  <2>2. ASSUME P \in PairsWith(o, B, V) PROVE P \in PairsWith(o, B, V \cup {c})
    BY <1>1, <1>4, <2>2
  <2>3. ASSUME P \in With(o, N) PROVE P \in PairsWith(o, B, V \cup {c})
    BY <1>1, <1>2, <1>3, <1>4, <2>3
  <2> QED
    BY <2>1, <2>2, <2>3
<1>6. ASSUME NEW P, P \in PairsWith(o, B, V), P \in With(o, N) PROVE FALSE
  <2> PICK a \in B : P = {o, a} /\ At(a) \cap V # {}
    BY <1>4, <1>6
  <2> PICK b \in B : P = {o, b} /\ At(b) \cap V = {}
    BY <1>2, <1>6
  <2>1. a = b
    <3>1. a \in {o, b} /\ a # o
      OBVIOUS
    <3> QED
      BY <3>1
  <2> QED
    BY <2>1
<1> QED
  BY <1>5, <1>6 DEF N, NewAt

LEMMA OneMoreShape ==
  ASSUME NEW A, A \subseteq Shape, NEW o \in Shape
  PROVE  /\ o \notin A => PairsOf(A \cup {o}, A \cup {o}) = PairsOf(A, A) \cup PairsWith(o, A, At(o))
         /\ \A B \in SUBSET Shape : o \notin B => PairsOf(A \cup {o}, B) = PairsOf(A, B) \cup PairsWith(o, B, At(o))
<1>1. \A B, C, P : P \in PairsOf(B, C) <=>
                     P \in SUBSET Shape /\ \E a \in B, b \in C : a # b /\ P = {a, b} /\ At(a) \cap At(b) # {}
  BY DEF PairsOf
<1>2. \A B, P : P \in PairsWith(o, B, At(o)) <=>
                  P \in SUBSET Shape /\ \E b \in B : P = {o, b} /\ At(o) \cap At(b) # {}
  BY DEF PairsWith
<1>3. \A a, b : {a, b} = {b, a} /\ At(a) \cap At(b) = At(b) \cap At(a)
  OBVIOUS
<1>4. ASSUME o \notin A, NEW P
      PROVE  P \in PairsOf(A \cup {o}, A \cup {o}) <=> P \in PairsOf(A, A) \/ P \in PairsWith(o, A, At(o))
  <2>1. ASSUME P \in PairsOf(A \cup {o}, A \cup {o}) PROVE P \in PairsOf(A, A) \/ P \in PairsWith(o, A, At(o))
    <3>1. PICK a \in A \cup {o}, b \in A \cup {o} : a # b /\ P = {a, b} /\ At(a) \cap At(b) # {}
      BY <1>1, <2>1
    <3>2. P \in SUBSET Shape
      BY <1>1, <2>1
    <3>3. CASE a = o
      BY <1>2, <3>1, <3>2, <3>3
    <3>4. CASE b = o
      <4>1. a \in A /\ P = {o, a} /\ At(o) \cap At(a) # {}
        BY <1>3, <3>1, <3>4
      <4> QED
        BY <1>2, <3>2, <4>1
    <3>5. CASE a # o /\ b # o
      BY <1>1, <3>1, <3>2, <3>5
    <3> QED
      BY <3>3, <3>4, <3>5
  <2>2. ASSUME P \in PairsOf(A, A) PROVE P \in PairsOf(A \cup {o}, A \cup {o})
    <3>1. PICK a \in A, b \in A : a # b /\ P = {a, b} /\ At(a) \cap At(b) # {}
      BY <1>1, <2>2
    <3>2. a \in A \cup {o} /\ b \in A \cup {o} /\ P \in SUBSET Shape
      BY <1>1, <2>2
    <3> QED
      BY <1>1, <3>1, <3>2
  <2>3. ASSUME P \in PairsWith(o, A, At(o)) PROVE P \in PairsOf(A \cup {o}, A \cup {o})
    <3>1. PICK b \in A : P = {o, b} /\ At(o) \cap At(b) # {}
      BY <1>2, <2>3
    <3>2. o \in A \cup {o} /\ b \in A \cup {o} /\ P \in SUBSET Shape /\ o # b
      BY <1>2, <1>4, <2>3
    <3> QED
      BY <1>1, <3>1, <3>2
  <2> QED
    BY <2>1, <2>2, <2>3
<1>5. ASSUME NEW B \in SUBSET Shape, o \notin B, NEW P
      PROVE  P \in PairsOf(A \cup {o}, B) <=> P \in PairsOf(A, B) \/ P \in PairsWith(o, B, At(o))
  <2>1. ASSUME P \in PairsOf(A \cup {o}, B) PROVE P \in PairsOf(A, B) \/ P \in PairsWith(o, B, At(o))
    <3>1. PICK a \in A \cup {o}, b \in B : a # b /\ P = {a, b} /\ At(a) \cap At(b) # {}
      BY <1>1, <2>1
    <3>2. P \in SUBSET Shape
      BY <1>1, <2>1
    <3>3. CASE a = o
      BY <1>2, <3>1, <3>2, <3>3
    <3>4. CASE a # o
      BY <1>1, <3>1, <3>2, <3>4
    <3> QED
      BY <3>3, <3>4
  <2>2. ASSUME P \in PairsOf(A, B) PROVE P \in PairsOf(A \cup {o}, B)
    <3>1. PICK a \in A, b \in B : a # b /\ P = {a, b} /\ At(a) \cap At(b) # {}
      BY <1>1, <2>2
    <3>2. a \in A \cup {o} /\ P \in SUBSET Shape
      BY <1>1, <2>2
    <3> QED
      BY <1>1, <3>1, <3>2
  <2>3. ASSUME P \in PairsWith(o, B, At(o)) PROVE P \in PairsOf(A \cup {o}, B)
    <3>1. PICK b \in B : P = {o, b} /\ At(o) \cap At(b) # {}
      BY <1>2, <2>3
    <3>2. o \in A \cup {o} /\ P \in SUBSET Shape /\ o # b
      BY <1>2, <1>5, <2>3
    <3> QED
      BY <1>1, <3>1, <3>2
  <2> QED
    BY <2>1, <2>2, <2>3
<1>6. ASSUME o \notin A PROVE PairsOf(A \cup {o}, A \cup {o}) = PairsOf(A, A) \cup PairsWith(o, A, At(o))
  <2>1. \A P : P \in PairsOf(A \cup {o}, A \cup {o}) <=> P \in PairsOf(A, A) \cup PairsWith(o, A, At(o))
    BY <1>4, <1>6
  <2> QED
    BY <2>1
<1>7. ASSUME NEW B \in SUBSET Shape, o \notin B
      PROVE  PairsOf(A \cup {o}, B) = PairsOf(A, B) \cup PairsWith(o, B, At(o))
  <2>1. \A P : P \in PairsOf(A \cup {o}, B) <=> P \in PairsOf(A, B) \cup PairsWith(o, B, At(o))
    BY <1>5, <1>7
  <2> QED
    BY <2>1
<1> QED
  BY <1>6, <1>7

LEMMA NoPairs ==
  /\ \A o, B : PairsWith(o, B, {}) = {}
  /\ \A B : PairsOf({}, B) = {} /\ PairsOf(B, {}) = {}
  /\ \A o, V : PairsWith(o, {}, V) = {}
BY DEF PairsWith, PairsOf

-----------------------------------------------------------------------------
(* cpSpaceHash: the steps of a ReindexQuery *)

LEMMA ForemostIn == ASSUME NEW S, S # {} PROVE Foremost(S) \in S
BY DEF Foremost

\* The loops are at cell k of the first shape of R.
Looping(of, ph, R, k, seen) ==
  [of |-> of, loop |-> [phase |-> ph, rest |-> R, cell |-> k, seen |-> seen], queried |-> FALSE]

\* What is left to show when they have got there; D are the shapes that are done, V the
\* slots passed.
GotTo(of, ph, R, k, seen, D, V) ==
  /\ of \in [Both -> HashIndex] /\ ph \in {"rehash", "static"} /\ seen \in SUBSET Nat
  /\ R # {} /\ R \subseteq In(DYNAMIC) /\ k \in From(Foremost(R)) .. Upto(Foremost(R))
  /\ \A ix \in Both : Handles(of[ix], In(ix))
  /\ D = In(DYNAMIC) \ R /\ V = Passed(Foremost(R), k)
  /\ Careful => \A s \in In(STATIC), c \in Slots : HasBin(of[STATIC], s, c) <=> c \in At(s)
  /\ Careful /\ ph = "rehash" =>
       /\ \A s \in In(DYNAMIC), c \in Slots :
            HasBin(of[DYNAMIC], s, c) <=> (s \in D /\ c \in At(s)) \/ (s = Foremost(R) /\ c \in V)
       /\ \A s \in D : of[DYNAMIC].set[s] \in seen <=> At(s) \cap V # {}
       /\ calls' = Once(PairsOf(D, D) \cup PairsWith(Foremost(R), D, V))
  /\ Careful /\ ph = "static" =>
       /\ \A s \in In(STATIC) : of[STATIC].set[s] \in seen <=> At(s) \cap V # {}
       /\ calls' = Once(PairsOf(In(DYNAMIC), In(DYNAMIC)) \cup PairsOf(D, In(STATIC))
                          \cup PairsWith(Foremost(R), In(STATIC), V))

LEMMA LoopAt ==
  ASSUME HashInv, index' = index, pos' = pos,
         NEW of, NEW ph, NEW R, NEW k, NEW seen, NEW D, NEW V,
         hsh' = Looping(of, ph, R, k, seen), GotTo(of, ph, R, k, seen, D, V)
  PROVE  HashInv'
<1> USE DEF Looping, GotTo
<1>1. /\ hsh'.of = of /\ hsh'.loop = [phase |-> ph, rest |-> R, cell |-> k, seen |-> seen] /\ hsh'.queried = FALSE
      /\ hsh'.loop.phase = ph /\ hsh'.loop.rest = R /\ hsh'.loop.cell = k /\ hsh'.loop.seen = seen
  OBVIOUS
<1>2. Current' = Foremost(R) /\ (\A i \in Both : In(i)' = In(i)) /\ Done' = D
  BY <1>1, IndexesOf DEF Current, Done, In, Both
<1>3. /\ \A s : At(s)' = At(s) /\ From(s)' = From(s) /\ Upto(s)' = Upto(s)
      /\ Been' = V
  BY <1>1, <1>2 DEF At, From, Upto, Been, Passed
<1>4. HashTyped'
  <2>1. Placed'
    BY IndexesOf DEF Placed
  <2>2. R \in SUBSET Shape /\ k \in Int
    BY IndexesOf
  <2>3. [phase |-> ph, rest |-> R, cell |-> k, seen |-> seen]
          \in [phase : {"none", "rehash", "static"}, rest : SUBSET Shape, cell : Int, seen : SUBSET Nat]
    BY <2>2
  <2>4. hsh' \in [of : [Both -> HashIndex],
                  loop : [phase : {"none", "rehash", "static"}, rest : SUBSET Shape, cell : Int, seen : SUBSET Nat],
                  queried : BOOLEAN]
    BY <2>3
  <2> QED
    BY <2>1, <2>4 DEF HashTyped
<1>5. (\A ix \in Both : Handles(hsh.of[ix], In(ix)))'
  BY <1>1, <1>2 DEF Handles, HandTyped, Handled, Retained, Pooled, Hands, Bins
<1>6. InLoop'
  <2>1. From(Current)' = From(Foremost(R)) /\ Upto(Current)' = Upto(Foremost(R))
    BY <1>2 DEF From, Upto
  <2> QED
    BY <1>1, <1>2, <2>1 DEF InLoop, Both
<1>7. ASSUME Careful PROVE StaticFiled'
  BY <1>1, <1>2, <1>7 DEF StaticFiled, At, HasBin, Both
<1>8. ASSUME Careful PROVE Rehashing'
  <2>1. CASE ph = "rehash"
    BY <1>1, <1>2, <1>3, <1>8, <2>1 DEF Rehashing, At, HasBin, Both
  <2>2. CASE ph # "rehash"
    BY <1>1, <2>2 DEF Rehashing
  <2> QED
    BY <2>1, <2>2
<1>9. ASSUME Careful PROVE Asking'
  <2>1. CASE ph = "static"
    BY <1>1, <1>2, <1>3, <1>9, <2>1 DEF Asking, At, Both
  <2>2. CASE ph # "static"
    BY <1>1, <2>2 DEF Asking
  <2> QED
    BY <2>1, <2>2
<1>10. ASSUME Careful PROVE (calls = Once(HashTold))'
  <2>1. CASE ph = "rehash"
    <3>1. HashTold' = PairsOf(D, D) \cup PairsWith(Foremost(R), D, V)
      BY <1>1, <1>2, <1>3, <2>1 DEF HashTold, PairsOf, PairsWith, At
    <3> QED
      BY <1>10, <2>1, <3>1 DEF Once
  <2>2. CASE ph = "static"
    <3>1. HashTold' = PairsOf(In(DYNAMIC), In(DYNAMIC)) \cup PairsOf(D, In(STATIC))
                        \cup PairsWith(Foremost(R), In(STATIC), V)
      <4>1. HashTold' = (PairsOf(In(DYNAMIC), In(DYNAMIC)) \cup PairsOf(Done, In(STATIC))
                           \cup PairsWith(Current, In(STATIC), Been))'
        BY <1>1, <2>2 DEF HashTold
      <4>2. In(DYNAMIC)' = In(DYNAMIC) /\ In(STATIC)' = In(STATIC)
        BY <1>2 DEF Both
      <4>3. PairsOf(In(DYNAMIC), In(DYNAMIC))' = PairsOf(In(DYNAMIC), In(DYNAMIC))
        BY <4>2 DEF PairsOf, At
      <4>4. PairsOf(Done, In(STATIC))' = PairsOf(D, In(STATIC))
        BY <1>2, <4>2 DEF PairsOf, At
      <4>5. PairsWith(Current, In(STATIC), Been)' = PairsWith(Foremost(R), In(STATIC), V)
        BY <1>2, <1>3, <4>2 DEF PairsWith, At
      <4> QED
        BY <4>1, <4>3, <4>4, <4>5
    <3> QED
      BY <1>10, <2>2, <3>1 DEF Once
  <2> QED
    BY <2>1, <2>2
<1> QED
  BY <1>4, <1>5, <1>6, <1>7, <1>8, <1>9, <1>10 DEF HashInv

\* What is left to show when the loops are over.
LEMMA LoopEnds ==
  ASSUME HashInv, index' = index, pos' = pos,
         NEW of \in [Both -> HashIndex],
         hsh' = [of |-> of, loop |-> NoLoop, queried |-> TRUE],
         \A ix \in Both : Handles(of[ix], In(ix)),
         Careful => \A s \in In(STATIC), c \in Slots : HasBin(of[STATIC], s, c) <=> c \in At(s),
         Careful => calls' = Once(PairsOf(In(DYNAMIC), In(DYNAMIC)) \cup PairsOf(In(DYNAMIC), In(STATIC)))
  PROVE  HashInv'
<1>1. hsh'.of = of /\ hsh'.loop = NoLoop /\ hsh'.queried = TRUE /\ hsh'.loop.phase = "none"
  BY DEF NoLoop
<1>2. \A i \in Both : In(i)' = In(i)
  BY DEF In
<1>3. HashTyped'
  <2>1. Placed'
    BY IndexesOf DEF Placed
  <2>2. NoLoop \in [phase : {"none", "rehash", "static"}, rest : SUBSET Shape, cell : Int, seen : SUBSET Nat]
    BY DEF NoLoop
  <2>3. hsh' \in [of : [Both -> HashIndex],
                  loop : [phase : {"none", "rehash", "static"}, rest : SUBSET Shape, cell : Int, seen : SUBSET Nat],
                  queried : BOOLEAN]
    BY <2>2
  <2> QED
    BY <2>1, <2>3 DEF HashTyped
<1>4. (\A ix \in Both : Handles(hsh.of[ix], In(ix)))'
  BY <1>1, <1>2 DEF Handles, HandTyped, Handled, Retained, Pooled, Hands, Bins
<1>5. (Careful => StaticFiled)'
  BY <1>1, <1>2 DEF StaticFiled, At, HasBin, Both
<1>6. HashTold' = PairsOf(In(DYNAMIC), In(DYNAMIC)) \cup PairsOf(In(DYNAMIC), In(STATIC))
  <2>1. HashTold' = (PairsOf(In(DYNAMIC), In(DYNAMIC)) \cup PairsOf(In(DYNAMIC), In(STATIC)))'
    BY <1>1 DEF HashTold
  <2>2. In(DYNAMIC)' = In(DYNAMIC) /\ In(STATIC)' = In(STATIC)
    BY <1>2 DEF Both
  <2>3. PairsOf(In(DYNAMIC), In(DYNAMIC))' = PairsOf(In(DYNAMIC), In(DYNAMIC))
    BY <2>2 DEF PairsOf, At
  <2>4. PairsOf(In(DYNAMIC), In(STATIC))' = PairsOf(In(DYNAMIC), In(STATIC))
    BY <2>2 DEF PairsOf, At
  <2> QED
    BY <2>1, <2>3, <2>4
<1>7. (Careful => calls = Once(HashTold))'
  BY <1>6 DEF Once
<1>8. InLoop' /\ Rehashing' /\ Asking'
  BY <1>1 DEF InLoop, Rehashing, Asking
<1> QED
  BY <1>3, <1>4, <1>5, <1>7, <1>8 DEF HashInv

LEMMA HashBeginHolds ==
  ASSUME HashInv, NEW new \in [In(DYNAMIC) -> Position], HashBegin(new)
  PROVE  HashInv'
<1> DEFINE g == ClearTable(hsh.of[DYNAMIC])
           of == [hsh.of EXCEPT ![DYNAMIC] = g]
           R == In(DYNAMIC)
           o == Foremost(R)
           k == BB(new[o]).l \div CellDim
<1>1. /\ Update(new) /\ calls' = NoCalls /\ R # {}
      /\ hsh' = [of |-> of, loop |-> LoopOver("rehash", R, new), queried |-> FALSE]
  BY DEF HashBegin
<1>2. LoopOver("rehash", R, new) = [phase |-> "rehash", rest |-> R, cell |-> k, seen |-> {}]
  BY DEF LoopOver
<1>3. /\ Placed' /\ \A i \in Both : In(i)' = In(i)
      /\ \A s \in Shape : pos'[s] = IF s \in R THEN new[s] ELSE pos[s]
  BY <1>1, IndexesOf, UpdateIs
<1>4. Handles(g, R) /\ \A c \in Slots : g.table[c] = {}
  BY IndexesOf, ClearKeeps
<1> HIDE DEF g
<1>5. of \in [Both -> HashIndex] /\ \A i \in Both : of[i] = IF i = DYNAMIC THEN g ELSE hsh.of[i]
  BY <1>4, IndexesOf, OneIndex
<1> HIDE DEF of
<1>6. o \in R /\ o \in Shape /\ pos'[o] = new[o] /\ new[o] \in Int
  <2>1. o \in R /\ o \in Shape
    BY <1>1, ForemostIn, IndexesOf
  <2> QED
    BY <1>3, <2>1, IndexAssumption
<1>7. /\ hsh'.of = of /\ hsh'.queried = FALSE
      /\ hsh'.loop.phase = "rehash" /\ hsh'.loop.rest = R /\ hsh'.loop.cell = k /\ hsh'.loop.seen = {}
  BY <1>1, <1>2
<1>8. k \in Int /\ k <= BB(new[o]).r \div CellDim /\ BB(new[o]).r \div CellDim \in Int
  <2>1. /\ BB(new[o]).l \in Int /\ BB(new[o]).r \in Int /\ BB(new[o]).l <= BB(new[o]).r
    BY <1>6, IndexAssumption DEF BB
  <2> QED
    BY <2>1, HashAssumption, Division, DivisionGrows
<1>9. HashTyped'
  <2>1. LoopOver("rehash", R, new)
          \in [phase : {"none", "rehash", "static"}, rest : SUBSET Shape, cell : Int, seen : SUBSET Nat]
    BY <1>2, <1>8, IndexesOf
  <2>2. hsh' \in [of : [Both -> HashIndex],
                  loop : [phase : {"none", "rehash", "static"}, rest : SUBSET Shape, cell : Int, seen : SUBSET Nat],
                  queried : BOOLEAN]
    BY <1>1, <1>5, <2>1
  <2> QED
    BY <1>3, <2>2 DEF HashTyped
<1>10. Current' = o /\ Done' = {} /\ In(DYNAMIC)' = In(DYNAMIC) /\ In(STATIC)' = In(STATIC)
  BY <1>3, <1>7 DEF Current, Done, Both
<1>11. Been' = {}
  <2>1. Been' = {i % Cells : i \in k .. k - 1}
    BY <1>6, <1>7, <1>10 DEF Been, Passed, From
  <2>2. k .. k - 1 = {}
    BY <1>8
  <2> QED
    BY <2>1, <2>2
<1>12. (\A ix \in Both : Handles(hsh.of[ix], In(ix)))'
  <2>1. \A ix \in Both : Handles(of[ix], In(ix))
    BY <1>4, <1>5, IndexesOf
  <2> QED
    BY <1>3, <1>7, <2>1 DEF Handles, HandTyped, Handled, Retained, Pooled, Hands, Bins
<1>13. InLoop'
  <2>1. From(Current)' = k /\ Upto(Current)' = BB(new[o]).r \div CellDim
    BY <1>6, <1>10 DEF From, Upto
  <2> QED
    BY <1>1, <1>7, <1>8, <1>10, <2>1 DEF InLoop
<1>14. ASSUME Careful PROVE StaticFiled'
  <2> SUFFICES ASSUME NEW s \in In(STATIC), NEW c \in Slots
               PROVE  HasBin(of[STATIC], s, c) <=> c \in CellsOf(BB(pos'[s]))
    BY <1>7, <1>10 DEF StaticFiled, At, HasBin
  <2>1. s \in Shape /\ s \notin R
    BY InIsApart DEF Both
  <2>2. pos'[s] = pos[s]
    BY <1>3, <2>1
  <2>3. of[STATIC] = hsh.of[STATIC]
    BY <1>5, NamesDiffer DEF Both
  <2> QED
    BY <1>14, <2>2, <2>3 DEF HashInv, StaticFiled, At
<1>15. Rehashing'
  <2>1. of[DYNAMIC] = g
    BY <1>5 DEF Both
  <2> QED
    BY <1>4, <1>7, <1>10, <1>11, <2>1 DEF Rehashing, HasBin
<1>16. Asking'
  BY <1>7 DEF Asking
<1>17. (calls = Once(HashTold))'
  <2>1. HashTold' = {}
    BY <1>7, <1>10, <1>11 DEF HashTold, PairsOf, PairsWith
  <2> QED
    BY <1>1, <2>1, NothingCalled DEF Once
<1> QED
  BY <1>9, <1>12, <1>13, <1>14, <1>15, <1>16, <1>17 DEF HashInv

After == Passed(Current, hsh.loop.cell + 1)

\* A step has done a cell: the loops go on to the next one, the next shape or the other
\* index.
LEMMA OnwardsHolds ==
  ASSUME HashInv, hsh.loop.phase # "none", index' = index, pos' = pos,
         NEW of \in [Both -> HashIndex], NEW seen \in SUBSET Nat,
         hsh' = [of |-> of, loop |-> Onwards(seen), queried |-> Onwards(seen) = NoLoop],
         \A ix \in Both : Handles(of[ix], In(ix)),
         Careful => \A s \in In(STATIC), c \in Slots : HasBin(of[STATIC], s, c) <=> c \in At(s),
         Careful /\ hsh.loop.phase = "rehash" =>
           /\ \A s \in In(DYNAMIC), c \in Slots :
                HasBin(of[DYNAMIC], s, c) <=> (s \in Done /\ c \in At(s)) \/ (s = Current /\ c \in After)
           /\ \A s \in Done : of[DYNAMIC].set[s] \in seen <=> At(s) \cap After # {}
           /\ calls' = Once(PairsOf(Done, Done) \cup PairsWith(Current, Done, After)),
         Careful /\ hsh.loop.phase = "static" =>
           /\ \A s \in In(STATIC) : of[STATIC].set[s] \in seen <=> At(s) \cap After # {}
           /\ calls' = Once(PairsOf(In(DYNAMIC), In(DYNAMIC)) \cup PairsOf(Done, In(STATIC))
                              \cup PairsWith(Current, In(STATIC), After))
  PROVE  HashInv'
<1> DEFINE ph == hsh.loop.phase
           R == hsh.loop.rest
           o == Current
           k == hsh.loop.cell
           S == R \ {o}
<1>1. ph \in {"rehash", "static"} /\ R # {} /\ R \subseteq In(DYNAMIC) /\ k \in From(o) .. Upto(o) /\ k \in Int
      /\ hsh.loop = [phase |-> ph, rest |-> R, cell |-> k, seen |-> hsh.loop.seen]
  BY DEF HashInv, InLoop, HashTyped
<1>2. o \in R /\ o \in In(DYNAMIC) /\ o \in Shape /\ pos[o] \in Int /\ o = Foremost(R) /\ o \notin Done /\ o \notin In(STATIC)
  <2>1. o \in R /\ o = Foremost(R)
    BY <1>1, ForemostIn DEF Current
  <2> QED
    BY <1>1, <2>1, IndexesOf, InIsApart DEF Done
<1>3. /\ From(o) \in Int /\ Upto(o) \in Int /\ From(o) <= Upto(o)
      /\ Passed(o, From(o)) = {} /\ Passed(o, Upto(o) + 1) = At(o)
  BY <1>2, PassedCells
<1>4. Done = In(DYNAMIC) \ R /\ Done \subseteq Shape /\ After = Passed(o, k + 1)
  BY IndexesOf DEF Done, After
<1>5. Onwards(seen) = IF k < Upto(o) THEN [hsh.loop EXCEPT !.cell = k + 1, !.seen = seen]
                      ELSE IF S # {} THEN LoopOver(ph, S, pos)
                      ELSE IF ph = "rehash" /\ In(STATIC) # {} THEN LoopOver("static", In(DYNAMIC), pos)
                      ELSE NoLoop
  BY DEF Onwards, Current, Upto
<1>6. \A p, Q : LoopOver(p, Q, pos) = [phase |-> p, rest |-> Q, cell |-> From(Foremost(Q)), seen |-> {}]
  BY DEF LoopOver, From
<1>7. NoLoop.phase = "none"
  BY DEF NoLoop
<1>8. CASE k < Upto(o)
  <2>1. Onwards(seen) = [phase |-> ph, rest |-> R, cell |-> k + 1, seen |-> seen]
    BY <1>1, <1>5, <1>8
  <2>2. Onwards(seen) # NoLoop
    BY <1>1, <1>7, <2>1
  <2>3. k + 1 \in From(Foremost(R)) .. Upto(Foremost(R))
    BY <1>1, <1>2, <1>3, <1>8
  <2>4. After = Passed(Foremost(R), k + 1)
    BY <1>2, <1>4
  <2>5. hsh' = Looping(of, ph, R, k + 1, seen)
    BY <2>1, <2>2 DEF Looping
  <2>6. GotTo(of, ph, R, k + 1, seen, Done, After)
    <3>1. ASSUME Careful, ph = "rehash"
          PROVE  /\ \A s \in In(DYNAMIC), c \in Slots :
                      HasBin(of[DYNAMIC], s, c) <=> (s \in Done /\ c \in At(s)) \/ (s = Foremost(R) /\ c \in After)
                 /\ \A s \in Done : of[DYNAMIC].set[s] \in seen <=> At(s) \cap After # {}
                 /\ calls' = Once(PairsOf(Done, Done) \cup PairsWith(Foremost(R), Done, After))
      BY <1>2, <3>1
    <3>2. ASSUME Careful, ph = "static"
          PROVE  /\ \A s \in In(STATIC) : of[STATIC].set[s] \in seen <=> At(s) \cap After # {}
                 /\ calls' = Once(PairsOf(In(DYNAMIC), In(DYNAMIC)) \cup PairsOf(Done, In(STATIC))
                                    \cup PairsWith(Foremost(R), In(STATIC), After))
      BY <1>2, <3>2
    <3> HIDE DEF ph, R, k, o
    <3> QED
      BY <1>1, <1>4, <2>3, <2>4, <3>1, <3>2 DEF GotTo
  <2> QED
    BY <2>5, <2>6, LoopAt
<1>9. ASSUME ~(k < Upto(o))
      PROVE  /\ k = Upto(o) /\ After = At(o)
             /\ PairsOf(Done \cup {o}, Done \cup {o}) = PairsOf(Done, Done) \cup PairsWith(o, Done, At(o))
             /\ PairsOf(Done \cup {o}, In(STATIC)) = PairsOf(Done, In(STATIC)) \cup PairsWith(o, In(STATIC), At(o))
  <2>1. k = Upto(o)
    BY <1>1, <1>3, <1>9
  <2>2. In(STATIC) \in SUBSET Shape
    BY DEF In
  <2>3. /\ PairsOf(Done \cup {o}, Done \cup {o}) = PairsOf(Done, Done) \cup PairsWith(o, Done, At(o))
        /\ PairsOf(Done \cup {o}, In(STATIC)) = PairsOf(Done, In(STATIC)) \cup PairsWith(o, In(STATIC), At(o))
    <3> HIDE DEF o
    <3>1. PairsOf(Done \cup {o}, Done \cup {o}) = PairsOf(Done, Done) \cup PairsWith(o, Done, At(o))
      BY <1>2, <1>4, OneMoreShape
    <3>2. \A B \in SUBSET Shape : o \notin B => PairsOf(Done \cup {o}, B) = PairsOf(Done, B) \cup PairsWith(o, B, At(o))
      BY <1>2, <1>4, OneMoreShape
    <3> QED
      BY <1>2, <2>2, <3>1, <3>2
  <2> QED
    BY <1>3, <1>4, <2>1, <2>3
<1>10. \A Q \in SUBSET In(DYNAMIC) : Q # {} =>
         From(Foremost(Q)) \in From(Foremost(Q)) .. Upto(Foremost(Q)) /\ Passed(Foremost(Q), From(Foremost(Q))) = {}
  <2> SUFFICES ASSUME NEW Q \in SUBSET In(DYNAMIC), Q # {}
               PROVE  From(Foremost(Q)) \in From(Foremost(Q)) .. Upto(Foremost(Q))
                      /\ Passed(Foremost(Q), From(Foremost(Q))) = {}
    OBVIOUS
  <2>1. pos[Foremost(Q)] \in Int
    BY ForemostIn, IndexesOf
  <2> QED
    BY <2>1, PassedCells
<1>11. CASE ~(k < Upto(o)) /\ S # {}
  <2> DEFINE D == In(DYNAMIC) \ S
             V == Passed(Foremost(S), From(Foremost(S)))
  <2>1. D = Done \cup {o} /\ S \subseteq In(DYNAMIC)
    BY <1>1, <1>2, <1>4
  <2>2. Onwards(seen) = [phase |-> ph, rest |-> S, cell |-> From(Foremost(S)), seen |-> {}]
    BY <1>5, <1>6, <1>11
  <2>3. Onwards(seen) # NoLoop
    BY <1>1, <1>7, <2>2
  <2>4. hsh' = Looping(of, ph, S, From(Foremost(S)), {})
    BY <2>2, <2>3 DEF Looping
  <2>5. V = {} /\ From(Foremost(S)) \in From(Foremost(S)) .. Upto(Foremost(S))
    BY <1>10, <1>11, <2>1
  <2>6. \A T, B : PairsWith(T, B, V) = {}
    BY <2>5, NoPairs
  <2>7. ASSUME Careful, ph = "rehash"
        PROVE  /\ \A s \in In(DYNAMIC), c \in Slots :
                    HasBin(of[DYNAMIC], s, c) <=> (s \in D /\ c \in At(s)) \/ (s = Foremost(S) /\ c \in V)
               /\ \A s \in D : of[DYNAMIC].set[s] \in {} <=> At(s) \cap V # {}
               /\ calls' = Once(PairsOf(D, D) \cup PairsWith(Foremost(S), D, V))
    <3>1. \A s \in In(DYNAMIC), c \in Slots :
            HasBin(of[DYNAMIC], s, c) <=> (s \in D /\ c \in At(s)) \/ (s = Foremost(S) /\ c \in V)
      <4> HIDE DEF D, V, S
      <4> QED
        BY <1>9, <1>11, <2>1, <2>5, <2>7
    <3>2. calls' = Once(PairsOf(Done, Done) \cup PairsWith(o, Done, At(o)))
      BY <1>9, <1>11, <2>7
    <3>3. PairsOf(D, D) \cup PairsWith(Foremost(S), D, V) = PairsOf(Done, Done) \cup PairsWith(o, Done, At(o))
      BY <1>9, <1>11, <2>1, <2>6
    <3> QED
      BY <2>5, <3>1, <3>2, <3>3
  <2>8. ASSUME Careful, ph = "static"
        PROVE  /\ \A s \in In(STATIC) : of[STATIC].set[s] \in {} <=> At(s) \cap V # {}
               /\ calls' = Once(PairsOf(In(DYNAMIC), In(DYNAMIC)) \cup PairsOf(D, In(STATIC))
                                  \cup PairsWith(Foremost(S), In(STATIC), V))
    <3>1. calls' = Once(PairsOf(In(DYNAMIC), In(DYNAMIC)) \cup PairsOf(Done, In(STATIC))
                          \cup PairsWith(o, In(STATIC), At(o)))
      BY <1>9, <1>11, <2>8
    <3>2. PairsOf(In(DYNAMIC), In(DYNAMIC)) \cup PairsOf(D, In(STATIC)) \cup PairsWith(Foremost(S), In(STATIC), V)
            = PairsOf(In(DYNAMIC), In(DYNAMIC)) \cup PairsOf(Done, In(STATIC)) \cup PairsWith(o, In(STATIC), At(o))
      BY <1>9, <1>11, <2>1, <2>6
    <3> QED
      BY <2>5, <3>1, <3>2
  <2> HIDE DEF D, V, S, ph
  <2>9. {} \in SUBSET Nat /\ D = In(DYNAMIC) \ S /\ V = Passed(Foremost(S), From(Foremost(S)))
    BY DEF D, V
  <2>10. GotTo(of, ph, S, From(Foremost(S)), {}, D, V)
    <3> HIDE DEF R, k, o
    <3> QED
      BY <1>1, <1>11, <2>1, <2>5, <2>7, <2>8, <2>9 DEF GotTo
  <2> QED
    BY <2>4, <2>10, LoopAt
<1>12. ASSUME ~(k < Upto(o)), S = {}
       PROVE  Done \cup {o} = In(DYNAMIC)
  BY <1>1, <1>2, <1>4, <1>12
<1>13. CASE ~(k < Upto(o)) /\ S = {} /\ ph = "rehash" /\ In(STATIC) # {}
  <2> DEFINE Q == In(DYNAMIC)
             V == Passed(Foremost(Q), From(Foremost(Q)))
             D == In(DYNAMIC) \ Q
  <2>1. Onwards(seen) = [phase |-> "static", rest |-> Q, cell |-> From(Foremost(Q)), seen |-> {}]
    BY <1>5, <1>6, <1>13
  <2>2. Onwards(seen) # NoLoop
    BY <1>7, <2>1
  <2>3. hsh' = Looping(of, "static", Q, From(Foremost(Q)), {})
    BY <2>1, <2>2 DEF Looping
  <2>4. Q # {} /\ Q \in SUBSET In(DYNAMIC)
    BY <1>2
  <2>5. V = {} /\ From(Foremost(Q)) \in From(Foremost(Q)) .. Upto(Foremost(Q))
    BY <1>10, <2>4
  <2>6. D = {}
    OBVIOUS
  <2>7. ASSUME Careful
        PROVE  calls' = Once(PairsOf(In(DYNAMIC), In(DYNAMIC)) \cup PairsOf(D, In(STATIC))
                               \cup PairsWith(Foremost(Q), In(STATIC), V))
    <3>1. calls' = Once(PairsOf(Done, Done) \cup PairsWith(o, Done, At(o)))
      BY <1>9, <1>13, <2>7
    <3>2. calls' = Once(PairsOf(In(DYNAMIC), In(DYNAMIC)))
      BY <1>9, <1>12, <1>13, <3>1
    <3>3. PairsOf(D, In(STATIC)) = {} /\ PairsWith(Foremost(Q), In(STATIC), V) = {}
      BY <2>5, <2>6, NoPairs
    <3> QED
      BY <3>2, <3>3
  <2>8. ASSUME Careful PROVE \A s \in In(STATIC) : of[STATIC].set[s] \in {} <=> At(s) \cap V # {}
    BY <2>5
  <2> HIDE DEF Q, V, D
  <2>9. {} \in SUBSET Nat /\ D = In(DYNAMIC) \ Q /\ V = Passed(Foremost(Q), From(Foremost(Q))) /\ Q \subseteq In(DYNAMIC)
    BY DEF D, V, Q
  <2>10. "static" \in {"rehash", "static"} /\ "static" # "rehash"
    OBVIOUS
  <2>11. GotTo(of, "static", Q, From(Foremost(Q)), {}, D, V)
    BY <2>4, <2>5, <2>7, <2>8, <2>9, <2>10 DEF GotTo
  <2> QED
    BY <2>3, <2>11, LoopAt
<1>14. CASE ~(k < Upto(o)) /\ S = {} /\ ~(ph = "rehash" /\ In(STATIC) # {})
  <2>1. Onwards(seen) = NoLoop
    BY <1>5, <1>14
  <2>2. hsh' = [of |-> of, loop |-> NoLoop, queried |-> TRUE]
    BY <2>1
  <2>3. ASSUME Careful
        PROVE  calls' = Once(PairsOf(In(DYNAMIC), In(DYNAMIC)) \cup PairsOf(In(DYNAMIC), In(STATIC)))
    <3>1. CASE ph = "rehash"
      <4>1. calls' = Once(PairsOf(Done, Done) \cup PairsWith(o, Done, At(o)))
        BY <1>9, <1>14, <2>3, <3>1
      <4>2. PairsOf(In(DYNAMIC), In(STATIC)) = {}
        BY <1>14, <3>1, NoPairs
      <4>3. PairsOf(In(DYNAMIC), In(DYNAMIC)) = PairsOf(Done, Done) \cup PairsWith(o, Done, At(o))
        BY <1>9, <1>12, <1>14
      <4> QED
        BY <4>1, <4>2, <4>3
    <3>2. CASE ph = "static"
      <4>1. calls' = Once(PairsOf(In(DYNAMIC), In(DYNAMIC)) \cup PairsOf(Done, In(STATIC))
                            \cup PairsWith(o, In(STATIC), At(o)))
        BY <1>9, <1>14, <2>3, <3>2
      <4>2. PairsOf(In(DYNAMIC), In(STATIC)) = PairsOf(Done, In(STATIC)) \cup PairsWith(o, In(STATIC), At(o))
        BY <1>9, <1>12, <1>14
      <4>3. \A X, Y, Z : (X \cup Y) \cup Z = X \cup (Y \cup Z)
        OBVIOUS
      <4> QED
        BY <4>1, <4>2, <4>3
    <3> QED
      BY <1>1, <3>1, <3>2
  <2> QED
    BY <2>2, <2>3, LoopEnds
<1> QED
  BY <1>8, <1>11, <1>13, <1>14

\* The current shape, and the slot of its next cell
LEMMA CellAt ==
  ASSUME HashInv, hsh.loop.phase # "none"
  PROVE  /\ Current \in In(DYNAMIC) /\ Current \in Shape /\ Current \notin Done /\ Current \notin In(STATIC)
         /\ Done \subseteq In(DYNAMIC) /\ Done \subseteq Shape
         /\ hsh.loop.cell % Cells \in Slots
         /\ After = Been \cup {hsh.loop.cell % Cells}
<1>1. Current \in hsh.loop.rest /\ hsh.loop.rest \subseteq In(DYNAMIC) /\ hsh.loop.cell \in From(Current) .. Upto(Current)
  BY ForemostIn DEF HashInv, InLoop, Current
<1>2. Current \in In(DYNAMIC) /\ Current \in Shape /\ Current \notin Done /\ Current \notin In(STATIC) /\ pos[Current] \in Int
  BY <1>1, IndexesOf, InIsApart DEF Done
<1>3. Done \subseteq In(DYNAMIC) /\ Done \subseteq Shape
  BY IndexesOf DEF Done
<1>4. hsh.loop.cell % Cells \in Slots /\ After = Been \cup {hsh.loop.cell % Cells}
  BY <1>1, <1>2, PassedCells DEF After, Been
<1> QED
  BY <1>2, <1>3, <1>4

LEMMA StampedIsTyped ==
  ASSUME HashInv, NEW ix \in Both, NEW c \in Slots, NEW o, NEW met, met \subseteq Met(hsh.of[ix], c, o), NEW nested
  PROVE  Stamped(met, nested) \in SUBSET Nat /\ (~nested => Stamped(met, nested) = hsh.loop.seen \cup met)
<1>1. hsh.of[ix].table[c] \subseteq Nat
  BY IndexesOf DEF HashIndex
<1>2. met \subseteq Nat
  BY <1>1 DEF Met
<1>3. hsh.loop.seen \subseteq Nat
  BY IndexesOf
<1> QED
  BY <1>2, <1>3 DEF Stamped

LEMMA RehashCellHolds ==
  ASSUME HashInv, NEW nested, RehashCell(nested)
  PROVE  HashInv'
<1> DEFINE h == hsh.of[DYNAMIC]
           o == Current
           c == hsh.loop.cell % Cells
           met == IF h.set[o] \in h.table[c] THEN {} ELSE Met(h, c, o)
           seen == Stamped(met, nested)
           k == RemoveOrphanedHandles(h, {c})
           g == IF h.set[o] \in h.table[c] THEN h ELSE Into(k, h.set[o], {c})
           of == [hsh.of EXCEPT ![DYNAMIC] = g]
           N == {b \in Done : c \in At(b) /\ At(b) \cap Been = {}}
<1>1. /\ hsh.loop.phase = "rehash" /\ (nested => ~Careful)
      /\ calls' = Call(calls, o, Objects(h, met))
      /\ index' = index /\ pos' = pos
      /\ hsh' = [of |-> of, loop |-> Onwards(seen), queried |-> Onwards(seen) = NoLoop]
  BY DEF RehashCell, QueryCell, Current, Objects
<1>2. /\ o \in In(DYNAMIC) /\ o \in Shape /\ o \notin Done /\ o \notin In(STATIC)
      /\ Done \subseteq In(DYNAMIC) /\ Done \subseteq Shape
      /\ c \in Slots /\ After = Been \cup {c}
  BY <1>1, CellAt
<1>3. Handles(h, In(DYNAMIC)) /\ In(DYNAMIC) \subseteq Shape
  BY IndexesOf
<1>4. seen \in SUBSET Nat /\ (~nested => seen = hsh.loop.seen \cup met)
  <2>1. met \subseteq Met(h, c, o)
    OBVIOUS
  <2> HIDE DEF met, c, o
  <2> QED
    BY <1>2, <2>1, StampedIsTyped DEF Both
<1> HIDE DEF seen, c, o, h
<1>5. /\ Handles(g, In(DYNAMIC)) /\ g.set = h.set
      /\ \A s \in In(DYNAMIC), d \in Slots : HasBin(g, s, d) <=> HasBin(h, s, d) \/ (s = o /\ d = c)
  <2>1. CASE h.set[o] \in h.table[c]
    BY <1>2, <1>3, <2>1 DEF HasBin
  <2>2. CASE h.set[o] \notin h.table[c]
    <3> DEFINE S == In(DYNAMIC)
               C == {c}
    <3>1. S \subseteq Shape /\ Handles(h, S) /\ o \in S
      BY <1>2, <1>3
    <3>2. g = Into(RemoveOrphanedHandles(h, C), h.set[o], C)
      BY <2>2
    <3> HIDE DEF S, C, g, k, met, seen, N, of
    <3>3. WithBins(Into(RemoveOrphanedHandles(h, C), h.set[o], C), h, S, o, C)
      BY <3>1, IntoClean
    <3>4. WithBins(g, h, S, o, C)
      BY <3>2, <3>3
    <3> QED
      BY <3>4 DEF S, C, WithBins
  <2> QED
    BY <2>1, <2>2
<1> HIDE DEF g
<1>6. of \in [Both -> HashIndex] /\ of[DYNAMIC] = g /\ of[STATIC] = hsh.of[STATIC]
      /\ \A ix \in Both : Handles(of[ix], In(ix))
  <2>1. of \in [Both -> HashIndex] /\ \A i \in Both : of[i] = IF i = DYNAMIC THEN g ELSE hsh.of[i]
    BY <1>5, OneIndex DEF Both
  <2> HIDE DEF of
  <2> QED
    BY <1>5, <2>1, IndexesOf, NamesDiffer DEF Both
<1> HIDE DEF of
<1>7. ASSUME Careful PROVE \A s \in In(STATIC), d \in Slots : HasBin(of[STATIC], s, d) <=> d \in At(s)
  BY <1>6, <1>7 DEF HashInv, StaticFiled
<1>8. ASSUME Careful
      PROVE  /\ \A s \in In(DYNAMIC), d \in Slots : HasBin(h, s, d) <=> (s \in Done /\ d \in At(s)) \/ (s = o /\ d \in Been)
             /\ \A s \in Done : h.set[s] \in hsh.loop.seen <=> At(s) \cap Been # {}
             /\ calls = Once(PairsOf(Done, Done) \cup PairsWith(o, Done, Been))
             /\ seen = hsh.loop.seen \cup met
  BY <1>1, <1>4, <1>8 DEF HashInv, Rehashing, HashTold, h, o
<1>9. ASSUME Careful
      PROVE  /\ \A s : s \in Objects(h, met) <=> s \in N
             /\ \A s \in Done : h.set[s] \in met <=> s \in N
  <2>1. HasBin(h, o, c) <=> c \in Been
    BY <1>2, <1>8, <1>9
  <2>2. CASE c \in Been
    <3>1. met = {}
      BY <2>1, <2>2 DEF HasBin
    <3>2. N = {}
      BY <2>2
    <3> QED
      BY <3>1, <3>2 DEF Objects
  <2>3. CASE c \notin Been
    <3>1. met = LiveAt(h, c, o, hsh.loop.seen)
      BY <2>1, <2>3 DEF HasBin, Met, LiveAt
    <3> HIDE DEF met
    <3>2. /\ \A s : s \in Objects(h, met) <=>
                      s \in In(DYNAMIC) /\ s # o /\ HasBin(h, s, c) /\ h.set[s] \notin hsh.loop.seen
          /\ \A s \in In(DYNAMIC) : h.set[s] \in met <=> s # o /\ HasBin(h, s, c) /\ h.set[s] \notin hsh.loop.seen
      BY <1>2, <1>3, <3>1, MetAreShapes
    <3>3. \A s \in In(DYNAMIC) : s # o /\ HasBin(h, s, c) /\ h.set[s] \notin hsh.loop.seen <=> s \in N
      BY <1>2, <1>8, <1>9, <2>3
    <3>4. N \subseteq Done
      OBVIOUS
    <3> HIDE DEF N
    <3> QED
      BY <1>2, <3>2, <3>3, <3>4
  <2> QED
    BY <2>2, <2>3
<1> HIDE DEF met
<1>10. ASSUME Careful PROVE calls' = Once(PairsOf(Done, Done) \cup PairsWith(o, Done, After))
  <2> DEFINE A == PairsOf(Done, Done) \cup PairsWith(o, Done, Been)
  <2>1. Objects(h, met) = N
    BY <1>9, <1>10
  <2>2. /\ PairsWith(o, Done, After) = PairsWith(o, Done, Been) \cup With(o, N)
        /\ PairsWith(o, Done, Been) \cap With(o, N) = {}
    <3>1. N = NewAt(Done, Been, c)
      BY DEF NewAt
    <3> HIDE DEF N
    <3>2. /\ PairsWith(o, Done, Been \cup {c}) = PairsWith(o, Done, Been) \cup With(o, NewAt(Done, Been, c))
          /\ PairsWith(o, Done, Been) \cap With(o, NewAt(Done, Been, c)) = {}
      BY <1>2, OneMoreSlot
    <3> QED
      BY <1>2, <3>1, <3>2
  <2>3. PairsOf(Done, Done) \cap With(o, N) = {}
    <3> SUFFICES ASSUME NEW P, P \in PairsOf(Done, Done), P \in With(o, N) PROVE FALSE
      OBVIOUS
    <3>1. P \subseteq Done
      BY DEF PairsOf
    <3>2. o \in P
      BY DEF With
    <3> QED
      BY <1>2, <3>1, <3>2
  <2> HIDE DEF N
  <2>4. A \cap With(o, N) = {}
    BY <2>2, <2>3
  <2>5. A \cup With(o, N) = PairsOf(Done, Done) \cup PairsWith(o, Done, After)
    BY <2>2
  <2>6. calls = Once(A)
    BY <1>8, <1>10
  <2> HIDE DEF A
  <2>7. Call(Once(A), o, N) = Once(A \cup With(o, N))
    BY <2>4, CalledMore
  <2>8. calls' = Call(Once(A), o, N)
    BY <1>1, <2>1, <2>6
  <2> QED
    BY <2>5, <2>7, <2>8
<1>11. ASSUME Careful
       PROVE  /\ \A s \in In(DYNAMIC), d \in Slots :
                   HasBin(of[DYNAMIC], s, d) <=> (s \in Done /\ d \in At(s)) \/ (s = Current /\ d \in After)
              /\ \A s \in Done : of[DYNAMIC].set[s] \in seen <=> At(s) \cap After # {}
  <2>1. \A s \in In(DYNAMIC), d \in Slots :
          HasBin(of[DYNAMIC], s, d) <=> (s \in Done /\ d \in At(s)) \/ (s = o /\ d \in After)
    BY <1>2, <1>5, <1>6, <1>8, <1>11
  <2>2. ASSUME NEW s \in Done PROVE of[DYNAMIC].set[s] \in seen <=> At(s) \cap After # {}
    <3>1. of[DYNAMIC].set[s] \in seen <=> At(s) \cap Been # {} \/ s \in N
      BY <1>5, <1>6, <1>8, <1>9, <1>11
    <3>2. s \in N <=> c \in At(s) /\ At(s) \cap Been = {}
      OBVIOUS
    <3>3. At(s) \cap After # {} <=> At(s) \cap Been # {} \/ c \in At(s)
      BY <1>2
    <3> QED
      BY <3>1, <3>2, <3>3
  <2> QED
    BY <2>1, <2>2 DEF o
<1>12. hsh.loop.phase # "none" /\ hsh.loop.phase # "static"
  BY <1>1
<1> HIDE DEF N
<1> QED
  BY <1>1, <1>4, <1>6, <1>7, <1>10, <1>11, <1>12, OnwardsHolds DEF o

LEMMA StaticCellHolds ==
  ASSUME HashInv, NEW nested, StaticCell(nested)
  PROVE  HashInv'
<1> DEFINE h == hsh.of[STATIC]
           o == Current
           c == hsh.loop.cell % Cells
           met == Met(h, c, o)
           seen == Stamped(met, nested)
           g == RemoveOrphanedHandles(h, {c})
           of == [hsh.of EXCEPT ![STATIC] = g]
           N == {b \in In(STATIC) : c \in At(b) /\ At(b) \cap Been = {}}
<1>1. /\ hsh.loop.phase = "static" /\ (nested => ~Careful)
      /\ calls' = Call(calls, o, Objects(h, met))
      /\ index' = index /\ pos' = pos
      /\ hsh' = [of |-> of, loop |-> Onwards(seen), queried |-> Onwards(seen) = NoLoop]
  BY DEF StaticCell, QueryCell, Current, Objects
<1>2. /\ o \in In(DYNAMIC) /\ o \in Shape /\ o \notin Done /\ o \notin In(STATIC)
      /\ Done \subseteq In(DYNAMIC) /\ Done \subseteq Shape
      /\ c \in Slots /\ After = Been \cup {c}
  BY <1>1, CellAt
<1>3. Handles(h, In(STATIC)) /\ In(STATIC) \subseteq Shape
  BY IndexesOf
<1>4. seen \in SUBSET Nat /\ (~nested => seen = hsh.loop.seen \cup met)
  <2>1. met \subseteq Met(h, c, o)
    OBVIOUS
  <2> HIDE DEF met, c, o
  <2> QED
    BY <1>2, <2>1, StampedIsTyped DEF Both
<1> HIDE DEF seen, c, o, h
<1>5. /\ Handles(g, In(STATIC)) /\ g.set = h.set
      /\ \A s \in In(STATIC), d \in Slots : HasBin(g, s, d) <=> HasBin(h, s, d)
  BY <1>3, OrphansKeep
<1> HIDE DEF g
<1>6. of \in [Both -> HashIndex] /\ of[STATIC] = g
      /\ \A ix \in Both : Handles(of[ix], In(ix))
  <2>1. of \in [Both -> HashIndex] /\ \A i \in Both : of[i] = IF i = STATIC THEN g ELSE hsh.of[i]
    BY <1>5, OneIndex DEF Both
  <2> HIDE DEF of
  <2> QED
    BY <1>5, <2>1, IndexesOf, NamesDiffer DEF Both
<1> HIDE DEF of
<1>7. ASSUME Careful
      PROVE  /\ \A s \in In(STATIC), d \in Slots : HasBin(h, s, d) <=> d \in At(s)
             /\ \A s \in In(STATIC), d \in Slots : HasBin(of[STATIC], s, d) <=> d \in At(s)
             /\ \A s \in In(STATIC) : h.set[s] \in hsh.loop.seen <=> At(s) \cap Been # {}
             /\ seen = hsh.loop.seen \cup met
  BY <1>1, <1>4, <1>5, <1>6, <1>7 DEF HashInv, StaticFiled, Asking, h
<1>8. ASSUME Careful
      PROVE  calls = Once(PairsOf(In(DYNAMIC), In(DYNAMIC)) \cup PairsOf(Done, In(STATIC))
                            \cup PairsWith(o, In(STATIC), Been))
  BY <1>1, <1>8 DEF HashInv, HashTold, o
<1>9. ASSUME Careful
      PROVE  /\ \A s : s \in Objects(h, met) <=> s \in N
             /\ \A s \in In(STATIC) : h.set[s] \in met <=> s \in N
  <2>1. met = LiveAt(h, c, o, hsh.loop.seen)
    BY DEF Met, LiveAt
  <2> HIDE DEF met
  <2>2. /\ \A s : s \in Objects(h, met) <=>
                    s \in In(STATIC) /\ s # o /\ HasBin(h, s, c) /\ h.set[s] \notin hsh.loop.seen
        /\ \A s \in In(STATIC) : h.set[s] \in met <=> s # o /\ HasBin(h, s, c) /\ h.set[s] \notin hsh.loop.seen
    BY <1>2, <1>3, <2>1, MetAreShapes
  <2>3. \A s \in In(STATIC) : s # o /\ HasBin(h, s, c) /\ h.set[s] \notin hsh.loop.seen <=> s \in N
    BY <1>2, <1>7, <1>9
  <2>4. N \subseteq In(STATIC)
    OBVIOUS
  <2> HIDE DEF N
  <2> QED
    BY <2>2, <2>3, <2>4
<1> HIDE DEF met
<1>10. ASSUME Careful
       PROVE  calls' = Once(PairsOf(In(DYNAMIC), In(DYNAMIC)) \cup PairsOf(Done, In(STATIC))
                              \cup PairsWith(o, In(STATIC), After))
  <2> DEFINE A == PairsOf(In(DYNAMIC), In(DYNAMIC)) \cup PairsOf(Done, In(STATIC)) \cup PairsWith(o, In(STATIC), Been)
  <2>1. Objects(h, met) = N
    BY <1>9, <1>10
  <2>2. /\ PairsWith(o, In(STATIC), After) = PairsWith(o, In(STATIC), Been) \cup With(o, N)
        /\ PairsWith(o, In(STATIC), Been) \cap With(o, N) = {}
    <3> DEFINE S == In(STATIC)
    <3>1. S \subseteq Shape /\ o \notin S
      BY <1>2, <1>3
    <3>2. N = NewAt(S, Been, c)
      BY DEF NewAt
    <3> HIDE DEF N, S
    <3>3. /\ PairsWith(o, S, Been \cup {c}) = PairsWith(o, S, Been) \cup With(o, NewAt(S, Been, c))
          /\ PairsWith(o, S, Been) \cap With(o, NewAt(S, Been, c)) = {}
      BY <1>2, <3>1, OneMoreSlot
    <3> QED
      BY <1>2, <3>2, <3>3 DEF S
  <2>3. (PairsOf(In(DYNAMIC), In(DYNAMIC)) \cup PairsOf(Done, In(STATIC))) \cap With(o, N) = {}
    <3> SUFFICES ASSUME NEW P, P \in PairsOf(In(DYNAMIC), In(DYNAMIC)) \/ P \in PairsOf(Done, In(STATIC)), P \in With(o, N)
                 PROVE  FALSE
      OBVIOUS
    <3>1. PICK b \in In(STATIC) : P = {o, b}
      BY DEF With
    <3>2. o \in P /\ b \in P /\ b \notin In(DYNAMIC) /\ b \notin Done
      BY <1>2, <3>1, InIsApart
    <3>3. CASE P \in PairsOf(In(DYNAMIC), In(DYNAMIC))
      <4>1. P \subseteq In(DYNAMIC)
        BY <3>3 DEF PairsOf
      <4> QED
        BY <3>2, <4>1
    <3>4. CASE P \in PairsOf(Done, In(STATIC))
      <4>1. P \subseteq Done \cup In(STATIC)
        BY <3>4 DEF PairsOf
      <4> QED
        BY <1>2, <3>2, <4>1
    <3> QED
      BY <3>3, <3>4
  <2> HIDE DEF N
  <2>4. A \cap With(o, N) = {}
    BY <2>2, <2>3
  <2>5. A \cup With(o, N) = PairsOf(In(DYNAMIC), In(DYNAMIC)) \cup PairsOf(Done, In(STATIC)) \cup PairsWith(o, In(STATIC), After)
    BY <2>2
  <2>6. calls = Once(A)
    BY <1>8, <1>10
  <2> HIDE DEF A
  <2>7. Call(Once(A), o, N) = Once(A \cup With(o, N))
    BY <2>4, CalledMore
  <2>8. calls' = Call(Once(A), o, N)
    BY <1>1, <2>1, <2>6
  <2> QED
    BY <2>5, <2>7, <2>8
<1>11. ASSUME Careful, NEW s \in In(STATIC)
       PROVE  of[STATIC].set[s] \in seen <=> At(s) \cap After # {}
  <2>1. of[STATIC].set[s] \in seen <=> At(s) \cap Been # {} \/ s \in N
    BY <1>5, <1>6, <1>7, <1>9, <1>11
  <2>2. s \in N <=> c \in At(s) /\ At(s) \cap Been = {}
    OBVIOUS
  <2>3. At(s) \cap After # {} <=> At(s) \cap Been # {} \/ c \in At(s)
    BY <1>2
  <2> QED
    BY <2>1, <2>2, <2>3
<1>12. hsh.loop.phase # "none" /\ hsh.loop.phase # "rehash"
  BY <1>1
<1> HIDE DEF N
<1> QED
  BY <1>1, <1>4, <1>6, <1>7, <1>10, <1>11, <1>12, OnwardsHolds DEF o

LEMMA HashBeginNoneHolds == ASSUME HashInv, HashBeginNone PROVE HashInv'
<1> DEFINE g == ClearTable(hsh.of[DYNAMIC])
           of == [hsh.of EXCEPT ![DYNAMIC] = g]
<1>1. /\ index' = index /\ pos' = pos /\ calls' = NoCalls /\ In(DYNAMIC) = {}
      /\ hsh' = [of |-> of, loop |-> NoLoop, queried |-> TRUE]
  BY DEF HashBeginNone, Stay
<1>2. Handles(g, In(DYNAMIC))
  BY IndexesOf, ClearKeeps
<1> HIDE DEF g
<1>3. of \in [Both -> HashIndex] /\ \A i \in Both : of[i] = IF i = DYNAMIC THEN g ELSE hsh.of[i]
  BY <1>2, OneIndex DEF Both
<1> HIDE DEF of
<1>4. \A ix \in Both : Handles(of[ix], In(ix))
  BY <1>2, <1>3, IndexesOf
<1>5. of[STATIC] = hsh.of[STATIC]
  BY <1>3, NamesDiffer DEF Both
<1>6. Careful => \A s \in In(STATIC), c \in Slots : HasBin(of[STATIC], s, c) <=> c \in At(s)
  BY <1>5 DEF HashInv, StaticFiled
<1>7. PairsOf(In(DYNAMIC), In(DYNAMIC)) \cup PairsOf(In(DYNAMIC), In(STATIC)) = {}
  BY <1>1 DEF PairsOf
<1>8. calls' = Once(PairsOf(In(DYNAMIC), In(DYNAMIC)) \cup PairsOf(In(DYNAMIC), In(STATIC)))
  BY <1>1, <1>7, NothingCalled
<1> QED
  BY <1>1, <1>3, <1>4, <1>6, <1>8, LoopEnds

LEMMA HashNextHolds == HashInv /\ [HashNext]_<<indexVars, hsh>> => HashInv'
<1> SUFFICES ASSUME HashInv, [HashNext]_<<indexVars, hsh>> PROVE HashInv'
  OBVIOUS
<1>1. CASE \E o \in Shape, ix \in {STATIC, DYNAMIC}, p \in Position : HashInsert(o, ix, p)
  BY <1>1, HashInsertHolds DEF Both
<1>2. CASE \E o \in Shape : HashRemove(o)
  BY <1>2, HashRemoveHolds
<1>3. CASE \E o \in Shape, p \in Position : HashReindexObject(o, p)
  BY <1>3, HashMoveHolds
<1>4. CASE \E new \in [In(STATIC) -> Position] : HashReindexStatic(new)
  BY <1>4, HashReindexStaticHolds
<1>5. CASE \E new \in [In(DYNAMIC) -> Position] : HashBegin(new)
  BY <1>5, HashBeginHolds
<1>6. CASE \E nested \in BOOLEAN : RehashCell(nested) \/ StaticCell(nested)
  BY <1>6, RehashCellHolds, StaticCellHolds
<1>7. CASE \E s \in Segment : HashSegmentQuery(s)
  BY <1>7, HashSegmentHolds
<1>8. CASE HashResize
  BY <1>8, HashResizeHolds
<1>9. CASE HashBeginNone
  BY <1>9, HashBeginNoneHolds
<1>10. CASE UNCHANGED <<indexVars, hsh>>
  <2>1. index' = index /\ pos' = pos /\ calls' = calls /\ hsh' = hsh
    BY <1>10 DEF indexVars
  <2>2. In(STATIC)' = In(STATIC) /\ In(DYNAMIC)' = In(DYNAMIC) /\ \A i \in Both : In(i)' = In(i)
    BY <2>1 DEF In
  <2>3. /\ Done' = Done /\ Current' = Current /\ Been' = Been
        /\ From(Current)' = From(Current) /\ Upto(Current)' = Upto(Current)
        /\ \A s : At(s)' = At(s)
    BY <2>1, <2>2 DEF Done, Current, Been, Passed, From, Upto, At
  <2>4. HashTyped'
    BY <2>1 DEF HashInv, HashTyped, Placed
  <2>5. (\A ix \in Both : Handles(hsh.of[ix], In(ix)))'
    <3>1. \A ix \in Both : Handles(hsh.of[ix], In(ix))
      BY DEF HashInv
    <3> SUFFICES ASSUME NEW ix \in Both PROVE Handles(hsh.of[ix], In(ix))'
      OBVIOUS
    <3>2. Handles(hsh.of[ix], In(ix)) /\ hsh'.of[ix] = hsh.of[ix] /\ In(ix)' = In(ix)
      BY <2>1, <2>2, <3>1
    <3>3. HandTyped(hsh.of[ix])'
      BY <3>2 DEF Handles, HandTyped, Hands
    <3>4. Handled(hsh.of[ix], In(ix))'
      BY <3>2 DEF Handles, Handled, Hands
    <3>5. Retained(hsh.of[ix])'
      BY <3>2 DEF Handles, Retained, Hands, Bins
    <3>6. Pooled(hsh.of[ix])'
      BY <3>2 DEF Handles, Pooled, Hands
    <3> QED
      BY <3>3, <3>4, <3>5, <3>6 DEF Handles
  <2>6. InLoop'
    BY <2>1, <2>2, <2>3 DEF HashInv, InLoop
  <2>7. ASSUME Careful PROVE StaticFiled' /\ Rehashing' /\ Asking'
    <3>1. StaticFiled'
      BY <2>1, <2>2, <2>3, <2>7 DEF HashInv, StaticFiled, HasBin
    <3>2. Rehashing'
      BY <2>1, <2>2, <2>3, <2>7 DEF HashInv, Rehashing, HasBin
    <3>3. Asking'
      BY <2>1, <2>2, <2>3, <2>7 DEF HashInv, Asking
    <3> QED
      BY <3>1, <3>2, <3>3
  <2>8. HashTold' = HashTold
    <3>1. /\ PairsOf(Done, Done)' = PairsOf(Done, Done)
          /\ PairsOf(In(DYNAMIC), In(DYNAMIC))' = PairsOf(In(DYNAMIC), In(DYNAMIC))
          /\ PairsOf(In(DYNAMIC), In(STATIC))' = PairsOf(In(DYNAMIC), In(STATIC))
          /\ PairsOf(Done, In(STATIC))' = PairsOf(Done, In(STATIC))
      BY <2>1, <2>2, <2>3 DEF PairsOf, At
    <3>2. /\ PairsWith(Current, Done, Been)' = PairsWith(Current, Done, Been)
          /\ PairsWith(Current, In(STATIC), Been)' = PairsWith(Current, In(STATIC), Been)
      BY <2>1, <2>2, <2>3 DEF PairsWith, At
    <3> QED
      BY <2>1, <3>1, <3>2 DEF HashTold
  <2>9. ASSUME Careful PROVE (calls = Once(HashTold))'
    BY <2>1, <2>8, <2>9 DEF HashInv, Once
  <2> QED
    BY <2>4, <2>5, <2>6, <2>7, <2>9 DEF HashInv
<1> QED
  BY <1>1, <1>2, <1>3, <1>4, <1>5, <1>6, <1>7, <1>8, <1>9, <1>10 DEF HashNext

LEMMA HashInvariance == HashSpec => []HashInv
<1>1. IndexInit /\ HashInit => HashInv
  BY HashInitHolds
<1> QED
  BY <1>1, HashNextHolds, PTL DEF HashSpec

-----------------------------------------------------------------------------
(* cpSpaceHash: what it says of the handles and of the calls *)

LEMMA HandlesInOrder == ASSUME HashInv PROVE HandlesCounted
<1> SUFFICES ASSUME NEW ix \in Both
             PROVE  LET h == hsh.of[ix] IN
                    /\ \A hand \in DOMAIN h.obj :
                         LET bins == Cardinality(BinsOf(h.table, hand))
                             held == IF \E o \in Shape : h.set[o] = hand THEN 1 ELSE 0
                         IN  /\ h.retain[hand] = bins + held
                             /\ Contains(h.pooled, hand) <=> bins + held = 0
                             /\ held = 1 <=> h.obj[hand] # NoObj
                    /\ IsInjective(h.pooled)
  BY IndexesOf DEF HandlesCounted
<1> DEFINE h == hsh.of[ix]
           S == In(ix)
<1>1. Handles(h, S) /\ S \subseteq Shape /\ h \in HashIndex
  BY IndexesOf
<1> HIDE DEF h, S
<1>2. /\ DOMAIN h.obj = Hands(h) /\ DOMAIN h.pooled = 1 .. Len(h.pooled) /\ DOMAIN h.table = Slots
      /\ Hands(h) \subseteq Nat \ {0}
  BY <1>1 DEF HashIndex, Hands
<1>3. ASSUME NEW hand \in DOMAIN h.obj
      PROVE  LET bins == Cardinality(BinsOf(h.table, hand))
                 held == IF \E o \in Shape : h.set[o] = hand THEN 1 ELSE 0
             IN  /\ h.retain[hand] = bins + held
                 /\ Contains(h.pooled, hand) <=> bins + held = 0
                 /\ held = 1 <=> h.obj[hand] # NoObj
  <2> DEFINE bins == Cardinality(BinsOf(h.table, hand))
             held == IF \E o \in Shape : h.set[o] = hand THEN 1 ELSE 0
  <2>1. hand \in Hands(h) /\ hand # 0
    BY <1>2
  <2>2. (\E o \in Shape : h.set[o] = hand) <=> h.obj[hand] # NoObj
    <3>1. ASSUME NEW o \in Shape, h.set[o] = hand PROVE h.obj[hand] # NoObj
      BY <1>1, <2>1, <3>1, IndexAssumption DEF Handles, Handled, NoObj
    <3>2. ASSUME h.obj[hand] # NoObj PROVE \E o \in Shape : h.set[o] = hand
      BY <1>1, <2>1, <3>2 DEF Handles, Handled
    <3> QED
      BY <3>1, <3>2
  <2>3. h.retain[hand] = bins + held
    BY <1>1, <2>1, <2>2 DEF Handles, Retained, Bins
  <2>4. Contains(h.pooled, hand) <=> \E k \in 1 .. Len(h.pooled) : h.pooled[k] = hand
    BY DEF Contains
  <2>5. Contains(h.pooled, hand) <=> h.retain[hand] = 0
    BY <1>1, <2>1, <2>4 DEF Handles, Pooled
  <2>6. held = 1 <=> h.obj[hand] # NoObj
    BY <2>2
  <2> HIDE DEF bins, held
  <2>7. Contains(h.pooled, hand) <=> bins + held = 0
    BY <2>3, <2>5
  <2> QED
    BY <2>3, <2>6, <2>7 DEF bins, held
<1>4. IsInjective(h.pooled)
  BY <1>1, <1>2 DEF IsInjective, Handles, Pooled
<1> QED
  BY <1>3, <1>4 DEF h

\* The cell that the later one of two overlapping boxes begins in is one of both.
LEMMA OverlapShares ==
  ASSUME NEW o, NEW s, pos[o] \in Int, pos[s] \in Int,
         BB(pos[o]).l < BB(pos[s]).r, BB(pos[s]).l < BB(pos[o]).r
  PROVE  At(o) \cap At(s) # {}
<1>1. /\ BB(pos[o]).l = pos[o] /\ BB(pos[o]).r = pos[o] + Width /\ pos[o] + Width \in Int
      /\ BB(pos[s]).l = pos[s] /\ BB(pos[s]).r = pos[s] + Width /\ pos[s] + Width \in Int
  BY IndexAssumption DEF BB
<1>2. /\ From(o) \in Int /\ Upto(o) \in Int /\ From(o) <= Upto(o)
      /\ From(s) \in Int /\ Upto(s) \in Int /\ From(s) <= Upto(s)
  BY PassedCells
<1>3. From(o) <= Upto(s) /\ From(s) <= Upto(o)
  <2>1. pos[o] <= pos[s] + Width /\ pos[s] <= pos[o] + Width
    BY <1>1
  <2> QED
    BY <1>1, <2>1, HashAssumption, DivisionGrows DEF From, Upto
<1>4. /\ At(o) = {i % Cells : i \in From(o) .. Upto(o)}
      /\ At(s) = {i % Cells : i \in From(s) .. Upto(s)}
  BY DEF At, CellsOf, From, Upto
<1>5. PICK i \in Int : i \in From(o) .. Upto(o) /\ i \in From(s) .. Upto(s)
  <2>1. CASE From(o) <= From(s)
    BY <1>2, <1>3, <2>1
  <2>2. CASE From(s) <= From(o)
    BY <1>2, <1>3, <2>2
  <2> QED
    BY <1>2, <2>1, <2>2
<1> QED
  BY <1>4, <1>5

LEMMA SharersTold ==
  ASSUME HashInv, Careful, hsh.queried, NEW P \in Overlapping
  PROVE  P \in HashTold
<1>1. PICK o \in In(DYNAMIC), s \in In(DYNAMIC) \cup In(STATIC) :
        /\ P = {o, s} /\ Cardinality(P) = 2
        /\ \A a, b \in P : BB(pos[a]).l < BB(pos[b]).r
  BY DEF Overlapping
<1>2. o # s /\ o \in Shape /\ s \in Shape /\ P \in SUBSET Shape
  BY <1>1, Pairs DEF In
<1>3. pos[o] \in Int /\ pos[s] \in Int /\ BB(pos[o]).l < BB(pos[s]).r /\ BB(pos[s]).l < BB(pos[o]).r
  BY <1>1, IndexesOf
<1>4. At(o) \cap At(s) # {}
  BY <1>3, OverlapShares
<1>5. P \in PairsOf(In(DYNAMIC), In(DYNAMIC)) \cup PairsOf(In(DYNAMIC), In(STATIC))
  BY <1>1, <1>2, <1>4 DEF PairsOf
<1>6. hsh.loop.phase = "none"
  BY DEF HashInv, InLoop
<1> QED
  BY <1>5, <1>6 DEF HashTold

LEMMA SharersAreTwo ==
  ASSUME HashInv, NEW P \in HashTold
  PROVE  Cardinality(P) = 2
<1>1. ASSUME NEW A, NEW B, P \in PairsOf(A, B) PROVE Cardinality(P) = 2
  BY <1>1, Pairs DEF PairsOf
<1>2. ASSUME NEW o, NEW B, NEW V, o \notin B, P \in PairsWith(o, B, V) PROVE Cardinality(P) = 2
  <2>1. PICK b \in B : P = {o, b}
    BY <1>2 DEF PairsWith
  <2> QED
    BY <1>2, <2>1, Pairs
<1>3. hsh.loop.phase # "none" => Current \notin Done /\ Current \notin In(STATIC)
  BY CellAt
<1>4. CASE hsh.loop.phase = "rehash"
  BY <1>1, <1>2, <1>3, <1>4 DEF HashTold
<1>5. CASE hsh.loop.phase = "static"
  BY <1>1, <1>2, <1>3, <1>5 DEF HashTold
<1>6. CASE hsh.loop.phase # "rehash" /\ hsh.loop.phase # "static"
  BY <1>1, <1>6 DEF HashTold
<1> QED
  BY <1>4, <1>5, <1>6

\* Whatever a program does with a cpSpaceHash, a handle is retained by the bins it is in
\* and by the set, it has a shape exactly while the set has it, and the pool has those
\* that nobody retains, once each: none comes back to another shape while a cell has it.
\* And if the program neither queries from func nor resizes the table with shapes in it,
\* each ReindexQuery calls func for every two shapes whose boxes overlap, not both static,
\* and never twice for a pair or for one shape.  For any shapes, places, cell width and
\* table size, so however many cells share a slot.
THEOREM HashKeepsCount == HashSpec => []HashExact
<1>1. HashInv => HashExact
  <2> SUFFICES ASSUME HashInv PROVE HashExact
    OBVIOUS
  <2>1. HandlesCounted
    BY HandlesInOrder
  <2>2. ASSUME Careful PROVE MissesNone(hsh.queried) /\ CalledOnce
    <3>1. calls = Once(HashTold) /\ DOMAIN calls = HashTold
      BY <2>2 DEF HashInv, Once
    <3>2. ASSUME hsh.queried, NEW P \in Overlapping PROVE BagIn(P, calls)
      BY <2>2, <3>1, <3>2, SharersTold DEF BagIn, BagToSet
    <3>3. ASSUME NEW P \in HashTold PROVE calls[P] = 1 /\ Cardinality(P) = 2
      BY <3>1, <3>3, SharersAreTwo DEF Once
    <3> QED
      BY <3>1, <3>2, <3>3 DEF MissesNone, CalledOnce, BagToSet
  <2> QED
    BY <2>1, <2>2 DEF HashExact, HashReportsOnce
<1> QED
  BY <1>1, HashInvariance, PTL
=============================================================================
