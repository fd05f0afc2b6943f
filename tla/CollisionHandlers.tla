-------------------------- MODULE CollisionHandlers --------------------------
(***************************************************************************)
(* Which collision handlers hear of the collision of two shapes, and in    *)
(* which order they see the shapes.  The arbiter caches the handlers it    *)
(* found when the shapes touched last; the default handler is one struct   *)
(* of the space that all arbiters point to, and it is overwritten.         *)
(***************************************************************************)
EXTENDS Integers, FiniteSets, Sequences

CONSTANTS
  Type,          \* collision types of the shapes "x" and "y"
  Persistence,   \* space->collisionPersistence
  HandlersKept   \* the user sets up handlers and types only between collisions

ASSUME HandlersAssumption == Type \subseteq Nat \ {0} /\ Persistence \in Nat \ {0}

WILDCARD == 0
Handler == Type \X (Type \cup {WILDCARD})

\* A handler is a pair of types; the default handler has two wildcards.  The user's
\* functions call those of the wildcards, as DefaultBegin() and the others do.
DEFAULT == <<WILDCARD, WILDCARD>>
NOTHING == <<-1, -1>>      \* cpCollisionHandlerDoNothing
NOHANDLER == <<-2, -2>>    \* a null pointer

\* hnd: the handlers that were added; usesWildcards; the type of each shape.
\* harb: the arbiter: its shapes in order, the handlers it points to, and their
\* types at that time.  told: the callbacks of the last step; open: the wildcard
\* handlers that were told of a begin and not yet of the end.
VARIABLES hnd, harb, told, open

handlerVars == <<hnd, harb, told, open>>

Apart == harb.state \in {"none", "cached"}
NewArbiter == [state |-> "none", age |-> 0, shapes |-> <<"x", "y">>, types |-> <<0, 0>>,
               swapped |-> FALSE, handler |-> NOHANDLER, A |-> NOHANDLER, B |-> NOHANDLER]

-----------------------------------------------------------------------------

Swap(p) == <<p[2], p[1]>>

\* cpSpaceLookupHandler(): handlerSetEql() does not mind the order.
LookupHandler(a, b, default) ==
  IF \E h \in hnd.added : h \in {<<a, b>>, <<b, a>>}
  THEN CHOOSE h \in hnd.added : h \in {<<a, b>>, <<b, a>>} ELSE default

\* (faulty: the wildcard handlers are not swapped with the main one)
UpdateUnswapped(arb, shapes) ==
  LET t == [i \in 1 .. 2 |-> hnd.type[shapes[i]]]
      h == LookupHandler(t[1], t[2], DEFAULT)
      found == h # DEFAULT \/ hnd.usesWildcards
  IN  [arb EXCEPT !.shapes = shapes, !.types = t, !.handler = h,
        !.swapped = t[1] # h[1] /\ h[1] # WILDCARD,
        !.A = IF found THEN LookupHandler(t[1], WILDCARD, NOTHING) ELSE @,
        !.B = IF found THEN LookupHandler(t[2], WILDCARD, NOTHING) ELSE @,
        !.state = IF @ \in {"none", "cached"} THEN "first" ELSE @, !.age = 0]

\* cpArbiterUpdate(): the handler of the pair decides the order of the shapes, and
\* with it which wildcard handler is which.
HandlersUpdate(arb, shapes) ==
  LET t == [i \in 1 .. 2 |-> hnd.type[shapes[i]]]
      h == LookupHandler(t[1], t[2], DEFAULT)
      swapped == t[1] # h[1] /\ h[1] # WILDCARD
      u == IF swapped THEN Swap(t) ELSE t
      found == h # DEFAULT \/ hnd.usesWildcards
  IN  [arb EXCEPT !.shapes = shapes, !.types = t, !.handler = h, !.swapped = swapped,
        !.A = IF found THEN LookupHandler(u[1], WILDCARD, NOTHING) ELSE @,
        !.B = IF found THEN LookupHandler(u[2], WILDCARD, NOTHING) ELSE @,
        !.state = IF @ \in {"none", "cached"} THEN "first" ELSE @, !.age = 0]

\* cpArbiterGetShapes(), of types: what a callback sees
SeenTypes(arb) == IF arb.swapped THEN Swap(arb.types) ELSE arb.types

\* handler->beginFunc() and the others, with cpArbiterCallWildcard...A() and, the
\* arbiter turned over, ...B().  The do-nothing default handler calls no one.
Callbacks(arb, func) ==
  LET say(h, seen) == [handler |-> h, func |-> func, types |-> seen]
      seen == SeenTypes(arb)
  IN  IF arb.handler = DEFAULT /\ ~hnd.usesWildcards THEN {}
      ELSE {say(arb.handler, seen), say(arb.A, seen), say(arb.B, Swap(seen))}

\* cpSpaceCollideShapes() from the arbiter on, and cpSpaceStep() to the end: the
\* shapes touch; begins and solves say what the callbacks return together.
Touch(shapes, begins, solves, ignored) ==
  LET arb == HandlersUpdate(harb, shapes)
      began == arb.state = "first"
      kept == arb.state # "ignore" /\ (began => begins)
      ignore == ~kept \/ ignored            \* cpArbiterIgnore()
      processed == kept /\ solves /\ ~ignored
  IN  /\ told' = (IF began THEN Callbacks(arb, "begin") ELSE {})
                 \cup (IF kept THEN Callbacks(arb, "preSolve") ELSE {})
                 \cup (IF processed THEN Callbacks(arb, "postSolve") ELSE {})
      /\ harb' = [arb EXCEPT !.state = IF ignore THEN "ignore" ELSE "normal"]
      /\ open' = IF began THEN open \cup ({arb.A, arb.B} \cap hnd.added) ELSE open
      /\ UNCHANGED hnd

\* cpSpaceArbiterSetFilter(): a step in which the shapes do not touch.
StayApart ==
  LET separates == harb.state # "cached"
      arb == IF harb.age + 1 >= Persistence THEN NewArbiter
             ELSE [harb EXCEPT !.state = "cached", !.age = @ + 1]
  IN  /\ harb.state # "none"
      /\ told' = IF separates THEN Callbacks(harb, "separate") ELSE {}
      /\ open' = IF separates THEN {h \in open : h \notin {c.handler : c \in told'}} ELSE open
      /\ harb' = arb
      /\ UNCHANGED hnd

\* cpSpaceUseWildcardDefaultHandler(): the default handler of a space is rewritten
\* under the arbiters that point to it.
UseWildcards == HandlersKept => hnd.usesWildcards \/ Apart

\* cpSpaceAddDefaultCollisionHandler()
AddDefaultCollisionHandler ==
  /\ UseWildcards
  /\ hnd' = [hnd EXCEPT !.usesWildcards = TRUE]
  /\ UNCHANGED <<harb, open>> /\ told' = {}

\* cpSpaceAddCollisionHandler(): a pair is there once, whatever its order
AddCollisionHandler(a, b) ==
  /\ hnd' = [hnd EXCEPT !.added = @ \cup {LookupHandler(a, b, <<a, b>>)}]
  /\ UNCHANGED <<harb, open>> /\ told' = {}

\* cpSpaceAddWildcardHandler()
AddWildcardHandler(t) ==
  /\ UseWildcards
  /\ hnd' = [hnd EXCEPT !.usesWildcards = TRUE, !.added = @ \cup {<<t, WILDCARD>>}]
  /\ UNCHANGED <<harb, open>> /\ told' = {}

\* cpShapeSetCollisionType(): the arbiter learns of it when the shapes touch next.
SetCollisionType(s, t) ==
  /\ HandlersKept => Apart
  /\ hnd' = [hnd EXCEPT !.type[s] = t]
  /\ UNCHANGED <<harb, open>> /\ told' = {}

HandlersInit ==
  /\ \E t \in [{"x", "y"} -> Type] : hnd = [added |-> {}, usesWildcards |-> FALSE, type |-> t]
  /\ harb = NewArbiter /\ told = {} /\ open = {}

HandlersNext ==
  \/ \E shapes \in {<<"x", "y">>, <<"y", "x">>}, begins, solves, ignored \in BOOLEAN :
       Touch(shapes, begins, solves, ignored)
  \/ StayApart
  \/ AddDefaultCollisionHandler
  \/ \E a, b \in Type : AddCollisionHandler(a, b)
  \/ \E t \in Type : AddWildcardHandler(t) \/ \E s \in {"x", "y"} : SetCollisionType(s, t)

HandlersSpec == HandlersInit /\ [][HandlersNext]_handlerVars

-----------------------------------------------------------------------------
(* Properties *)

\* Callbacks go through handlers that exist, see the shape of the handler's own type
\* first whatever the order in which the shapes were found, and a wildcard handler
\* that was told of a begin is told of the end.
HandlersTold ==
  /\ \A c \in told : /\ c.handler # NOHANDLER
                     /\ c.handler \in hnd.added => c.types[1] = c.handler[1]
                     /\ c.handler \in Type \X Type => c.types[2] = c.handler[2]
  /\ Apart => open = {}
=============================================================================
