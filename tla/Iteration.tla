------------------------------ MODULE Iteration ------------------------------
(***************************************************************************)
(* cpSpaceEachBody() and the arrays it walks through, while the function   *)
(* it calls wakes bodies.  A space is its lists of bodies: those awake,    *)
(* the static ones, and the components that sleep, each as the chain of    *)
(* its root, the root first.                                               *)
(***************************************************************************)
EXTENDS Integers, Sequences

CONSTANTS
  Sleeper,      \* dynamic bodies
  Ground        \* static bodies

NOBODY == 0

ASSUME IterationAssumption == Sleeper \cap Ground = {} /\ NOBODY \notin Sleeper \cup Ground

\* at: the array being walked through, or where the space is otherwise; destroy: it is
\* cpSpaceDestroy() that does; i, body: the variables of the loops; roused:
\* space->rousedBodies.  History: called, the bodies func was called for; all, rested:
\* those that were in the space, and asleep, at the beginning; woke: func woke somebody.
VARIABLE itr

Elements(s) == {s[k] : k \in DOMAIN s}
SleepersIn(chains) == UNION {Elements(chains[k]) : k \in DOMAIN chains}
Asleep(r) == SleepersIn(r.asleep)
InSpace(r) == Elements(r.dynamic) \cup Elements(r.static) \cup Asleep(r)

-----------------------------------------------------------------------------
(* Arrays *)

\* (faulty: the array does not become shorter)
DeleteObjKept(s, k) == [s EXCEPT ![k] = s[Len(s)]]

\* cpArrayDeleteObj() of the element at k: the last one takes its place.
DeleteObj(s, k) == [j \in 1 .. Len(s) - 1 |-> IF j = k THEN s[Len(s)] ELSE s[j]]

Delete(s, x) == LET k == CHOOSE k \in DOMAIN s : s[k] = x IN DeleteObj(s, k)

-----------------------------------------------------------------------------
(* Waking *)

\* cpBodyActivate() of a body of component k: its bodies wake, one after the other, or
\* are put aside until the space is unlocked, and the component leaves the array.
Activated(r, k) ==
  LET awake == IF r.at = "unlocked" THEN [r EXCEPT !.dynamic = @ \o r.asleep[k]]
               ELSE [r EXCEPT !.roused = @ \o r.asleep[k]]
  IN  [awake EXCEPT !.asleep = DeleteObj(@, k), !.woke = @ \/ r.at # "unlocked"]

\* cpBodyActivate() of an awake or static body, or of none, does nothing here.
BodyActivated(r, b) ==
  IF b \in Asleep(r) THEN Activated(r, CHOOSE k \in DOMAIN r.asleep : b \in Elements(r.asleep[k]))
  ELSE r

\* cpSpaceUnlock(), the last one
Unlocked(r, at) == [r EXCEPT !.at = at, !.dynamic = @ \o r.roused, !.roused = <<>>]

-----------------------------------------------------------------------------
(* Between iterations *)

\* cpSpaceAddBody()
Arrive(b) ==
  /\ itr.at = "unlocked" /\ b \notin InSpace(itr)
  /\ itr' = IF b \in Ground THEN [itr EXCEPT !.static = Append(@, b)]
            ELSE [itr EXCEPT !.dynamic = Append(@, b)]

\* cpSpaceRemoveBody(): the body is woken first.
Depart(b) ==
  LET r == BodyActivated(itr, b)
  IN  /\ itr.at = "unlocked" /\ b \in InSpace(itr)
      /\ itr' = IF b \in Ground THEN [r EXCEPT !.static = Delete(@, b)]
                ELSE [r EXCEPT !.dynamic = Delete(@, b)]

\* cpBodyActivate(), from the game
WakeBody(b) ==
  /\ itr.at = "unlocked" /\ b \in Asleep(itr)
  /\ itr' = BodyActivated(itr, b)

\* cpBodySleep()
SleepAlone(b) ==
  /\ itr.at = "unlocked" /\ b \in Elements(itr.dynamic)
  /\ itr' = [itr EXCEPT !.dynamic = Delete(@, b), !.asleep = Append(@, <<b>>)]

\* The body follows the root.
BehindRoot(chain, b) == <<Head(chain), b>> \o Tail(chain)

\* cpBodySleepWithGroup(), the group being component k
SleepWith(b, k) ==
  /\ itr.at = "unlocked" /\ b \in Elements(itr.dynamic)
  /\ itr' = [itr EXCEPT !.dynamic = Delete(@, b),
               !.asleep[k] = BehindRoot(@, b)]

-----------------------------------------------------------------------------
(* An iteration *)

\* cpSpaceEachBody(), and cpSpaceDestroy() to that call: the space is locked.
EachBody(destroy) ==
  /\ itr.at = "unlocked"
  /\ itr' = [itr EXCEPT !.at = "dynamic", !.destroy = destroy, !.i = 1, !.called = <<>>,
               !.all = InSpace(itr), !.rested = Asleep(itr), !.woke = FALSE]

\* func(b), which wakes w; that of cpSpaceDestroy(), cpBodyActivateWrap(), wakes b.
FuncCalled(r, b, w) ==
  [BodyActivated(r, IF r.destroy THEN b ELSE w) EXCEPT !.called = Append(@, b)]

CallDynamic(w) ==
  /\ itr.at = "dynamic" /\ itr.i <= Len(itr.dynamic)
  /\ itr' = [FuncCalled(itr, itr.dynamic[itr.i], w) EXCEPT !.i = @ + 1]

CallStatic(w) ==
  /\ itr.at = "static" /\ itr.i <= Len(itr.static)
  /\ itr' = [FuncCalled(itr, itr.static[itr.i], w) EXCEPT !.i = @ + 1]

\* The end of the first and the second loop
NextArray ==
  \/ /\ itr.at = "dynamic" /\ itr.i > Len(itr.dynamic)
     /\ itr' = [itr EXCEPT !.at = "static", !.i = 1]
  \/ /\ itr.at = "static" /\ itr.i > Len(itr.static)
     /\ itr' = [itr EXCEPT !.at = "components", !.i = 1]

\* body->sleeping.next; waking clears it.
Following(r, b) ==
  IF \E k \in DOMAIN r.asleep : \E p \in 2 .. Len(r.asleep[k]) : r.asleep[k][p - 1] = b
  THEN CHOOSE n \in Sleeper : \E k \in DOMAIN r.asleep :
         \E p \in 2 .. Len(r.asleep[k]) : r.asleep[k][p - 1] = b /\ r.asleep[k][p] = n
  ELSE NOBODY

\* The next of the component that has been begun, or the root of the next component:
\* its successor is read before func is called.
CallSleeping(w) ==
  LET b == IF itr.body # NOBODY THEN itr.body ELSE itr.asleep[itr.i][1]
      next == Following(itr, b)
  IN  /\ itr.at = "components"
      /\ itr.body # NOBODY \/ itr.i <= Len(itr.asleep)
      /\ itr' = [FuncCalled(itr, b, w) EXCEPT !.body = next,
                   !.i = IF next = NOBODY THEN @ + 1 ELSE @]

\* The end of cpSpaceEachBody(); cpSpaceDestroy() frees the arrays.
Return ==
  /\ itr.at = "components" /\ itr.body = NOBODY /\ itr.i > Len(itr.asleep)
  /\ itr' = Unlocked(itr, IF itr.destroy THEN "destroyed" ELSE "unlocked")

EachInit ==
  itr = [at |-> "unlocked", destroy |-> FALSE, i |-> 1, body |-> NOBODY,
         dynamic |-> <<>>, static |-> <<>>, asleep |-> <<>>, roused |-> <<>>,
         called |-> <<>>, all |-> {}, rested |-> {}, woke |-> FALSE]

EachNext ==
  \/ \E b \in Sleeper \cup Ground : Arrive(b) \/ Depart(b)
  \/ \E b \in Sleeper : \/ WakeBody(b) \/ SleepAlone(b)
                        \/ \E k \in DOMAIN itr.asleep : SleepWith(b, k)
  \/ \E destroy \in BOOLEAN : EachBody(destroy)
  \/ \E w \in Sleeper \cup {NOBODY} : CallDynamic(w) \/ CallStatic(w) \/ CallSleeping(w)
  \/ NextArray
  \/ Return

EachSpec == EachInit /\ [][EachNext]_itr

-----------------------------------------------------------------------------
(* Properties *)

\* cpSpaceEachBody() calls func for no body twice, whatever func wakes, and misses
\* only bodies that slept, and those only if func woke somebody.
EachCalledOnce ==
  /\ \A j, k \in DOMAIN itr.called : itr.called[j] = itr.called[k] => j = k
  /\ itr.at \in {"unlocked", "destroyed"} =>
       \A b \in itr.all : b \in Elements(itr.called) \/ (itr.woke /\ b \in itr.rested)
=============================================================================
