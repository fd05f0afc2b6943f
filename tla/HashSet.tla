------------------------------- MODULE HashSet -------------------------------
(***************************************************************************)
(* cpHashSet: the table behind the cached arbiters, the collision handlers,*)
(* the leaves of a tree and the handles of a spatial hash.  Bins come from *)
(* a pool that grows by buffers and never shrinks; the table grows to the  *)
(* next prime when it is full.  The loops that go through the chains take  *)
(* a step for each bin; between two steps of cpHashSetFilter(), or of      *)
(* cpHashSetEach(), the callback may look elements up.                     *)
(***************************************************************************)
EXTENDS Integers, Sequences, FiniteSets

CONSTANTS
  Key,            \* what is put in; its own hash
  Prime,          \* the first entries of primes[]
  BinsPerBuffer   \* CP_BUFFER_BYTES / sizeof(cpHashSetBin)

ASSUME HashSetAssumption ==
  /\ Key \subseteq Nat /\ IsFiniteSet(Key) /\ BinsPerBuffer \in Nat \ {0}
  /\ Prime \in Seq(Nat \ {0}) /\ Prime # <<>> /\ Prime[Len(Prime)] > Cardinality(Key)
  /\ \A i, j \in DOMAIN Prime : i < j => Prime[i] < Prime[j]

VARIABLES
  hset,    \* table: the chain of each slot; pooled: how many bins are in the pool
  given,   \* the keys put in and not taken out since
  loop     \* op: the loop that runs; i: its slot; at: its bin in the chain; due: what it
           \* has still to meet; size, table: those a resizing fills

setVars == <<hset, given, loop>>

\* hash % size
Slot(k, size) == k % size

\* next_prime(): the first entry that is large enough
NextPrime(n) ==
  Prime[CHOOSE i \in DOMAIN Prime : Prime[i] >= n /\ \A j \in 1 .. i - 1 : Prime[j] < n]

EmptyTable(size) == [i \in 0 .. size - 1 |-> <<>>]

NoLoop == [op |-> "none", i |-> 0, at |-> 1, due |-> {}, size |-> 0, table |-> EmptyTable(0)]

\* A bin in front of a chain, and a chain without its bin p
InFront(k, c) == <<k>> \o c
Without(c, p) == [j \in 1 .. Len(c) - 1 |-> IF j < p THEN c[j] ELSE c[j + 1]]

\* cpHashSetFind(): TRUE for the element, FALSE for the default value
SetFind(s, k) == \E j \in DOMAIN s.table[Slot(k, s.size)] : s.table[Slot(k, s.size)][j] = k

SetFull(s) == s.entries >= s.size

\* getUnusedBin(): an empty pool gets the bins of one more buffer.
UnusedBin(s) ==
  IF s.pooled > 0 THEN [s EXCEPT !.pooled = @ - 1]
  ELSE [s EXCEPT !.buffers = @ + 1, !.pooled = BinsPerBuffer - 1]

\* The bin p of chain i goes back to the pool.
RecycleBin(s, i, p) ==
  [s EXCEPT !.table[i] = Without(@, p), !.entries = @ - 1, !.pooled = @ + 1]

-----------------------------------------------------------------------------
(* Insertion and removal *)

\* cpHashSetInsert() of what is not there; a full table is resized.
Create(s, k) == [s EXCEPT !.table[Slot(k, s.size)] = InFront(k, @), !.entries = @ + 1]
Resize(size) == [NoLoop EXCEPT !.op = "resize", !.size = size, !.table = EmptyTable(size)]

SetInsert(k) ==
  /\ loop.op = "none"
  /\ given' = given \cup {k}
  /\ IF SetFind(hset, k) THEN UNCHANGED <<hset, loop>>
     ELSE /\ hset' = Create(UnusedBin(hset), k)
          /\ loop' = IF SetFull(hset') THEN Resize(NextPrime(hset.size + 1)) ELSE loop

\* (faulty: the slots are those of the old table)
MoveBinOld(k) ==
  /\ hset' = [hset EXCEPT !.table[loop.i] = Tail(@)]
  /\ loop' = [loop EXCEPT !.table[Slot(k, hset.size)] = InFront(k, @)]

\* cpHashSetResize(): a bin goes in front of its new chain as it is met.
MoveBin(k) ==
  /\ hset' = [hset EXCEPT !.table[loop.i] = Tail(@)]
  /\ loop' = [loop EXCEPT !.table[Slot(k, loop.size)] = InFront(k, @)]

ResizeStep ==
  /\ loop.op = "resize"
  /\ UNCHANGED given
  /\ IF loop.i = hset.size
     THEN /\ hset' = [hset EXCEPT !.size = loop.size, !.table = loop.table]
          /\ loop' = NoLoop
     ELSE IF hset.table[loop.i] = <<>>
     THEN loop' = [loop EXCEPT !.i = @ + 1] /\ UNCHANGED hset
     ELSE MoveBin(Head(hset.table[loop.i]))

\* cpHashSetRemove(), also of what is not there
SetRemove(k) ==
  LET i == Slot(k, hset.size)
  IN  /\ loop.op = "none"
      /\ given' = given \ {k}
      /\ \/ /\ ~SetFind(hset, k) /\ UNCHANGED hset
         \/ \E p \in DOMAIN hset.table[i] : hset.table[i][p] = k /\ hset' = RecycleBin(hset, i, p)
      /\ UNCHANGED loop

-----------------------------------------------------------------------------
(* cpHashSetFilter(), and cpHashSetEach(), which keeps everything *)

SetFilter ==
  /\ loop.op = "none"
  /\ loop' = [NoLoop EXCEPT !.op = "filter", !.due = given]
  /\ UNCHANGED <<hset, given>>

FilterBin(keep) ==
  LET k == hset.table[loop.i][loop.at]
  IN  /\ loop.op = "filter" /\ loop.i < hset.size /\ loop.at \in DOMAIN hset.table[loop.i]
      /\ hset' = IF keep THEN hset ELSE RecycleBin(hset, loop.i, loop.at)
      /\ given' = IF keep THEN given ELSE given \ {k}
      /\ loop' = [loop EXCEPT !.at = IF keep THEN @ + 1 ELSE @, !.due = @ \ {k}]

FilterNext ==
  /\ loop.op = "filter"
  /\ IF loop.i = hset.size THEN loop' = NoLoop
     ELSE /\ loop.at > Len(hset.table[loop.i])
          /\ loop' = [loop EXCEPT !.i = @ + 1, !.at = 1]
  /\ UNCHANGED <<hset, given>>

-----------------------------------------------------------------------------

\* cpHashSetNew(0)
SetInit ==
  /\ hset = [size |-> NextPrime(0), table |-> EmptyTable(NextPrime(0)),
             entries |-> 0, pooled |-> 0, buffers |-> 0]
  /\ given = {} /\ loop = NoLoop

SetNext ==
  \/ \E k \in Key : SetInsert(k) \/ SetRemove(k)
  \/ ResizeStep
  \/ SetFilter \/ (\E keep \in BOOLEAN : FilterBin(keep)) \/ FilterNext

SetSpec == SetInit /\ [][SetNext]_setVars

-----------------------------------------------------------------------------
(* Properties *)

\* The table is the set that was put in, through collisions, resizing and
\* filtering: what was given and not taken is found and nothing else, also by the
\* callback of a filter, which meets each once; the table is never full, and no bin
\* of a buffer gets lost.
SetFaithful ==
  /\ loop.op # "resize" => ~SetFull(hset) /\ \A k \in Key : SetFind(hset, k) <=> k \in given
  /\ loop.op = "filter" =>
       IF loop.i = hset.size THEN loop.due = {}
       ELSE loop.at \in DOMAIN hset.table[loop.i] => hset.table[loop.i][loop.at] \in loop.due
  /\ hset.entries = Cardinality(given)
  /\ hset.entries + hset.pooled = hset.buffers * BinsPerBuffer
=============================================================================
