----------------------------- MODULE EngineProofs -----------------------------
(***************************************************************************)
(* Proofs about five of the parts that do not depend on one another: whom  *)
(* the arbiter of a pair calls, what a joint pushes its bodies with, whom  *)
(* cpSpaceEachBody() calls its function for, what cpHashSet keeps, and     *)
(* what a body weighs.                                                     *)
(***************************************************************************)
EXTENDS CollisionHandlers, Joints, Iteration, HashSet, BodyMass, FiniteSetTheorems,
        SequenceTheorems, WellFoundedInduction, TLAPS

-----------------------------------------------------------------------------
(* Collision handlers *)

Orders == {<<"x", "y">>, <<"y", "x">>}
Contacted == {"normal", "ignore"}
Found == Handler \cup {DEFAULT, NOHANDLER}
Wild == (Type \X {WILDCARD}) \cup {NOTHING, NOHANDLER}

Number == Int
Pairs == Int \X Int
Arbiters(states) ==
  [state : states, age : Number, shapes : Orders, types : Pairs, swapped : BOOLEAN,
   handler : Found, A : Wild, B : Wild]

HandlersTypeOK ==
  /\ hnd \in [added : SUBSET Handler, usesWildcards : BOOLEAN, type : [{"x", "y"} -> Type]]
  /\ harb \in Arbiters({"none", "cached"} \cup Contacted)
  /\ open \subseteq Handler

\* The handler h may be shown shapes of the types seen.
Shown(h, seen) ==
  /\ h # NOHANDLER
  /\ h \in Handler => seen[1] = h[1]
  /\ h \in Type \X Type => seen[2] = h[2]

\* The arbiter a calls somebody, and whom it calls may be shown what it shows.
Silent(a) == a.handler = DEFAULT /\ ~hnd.usesWildcards
Presents(a) ==
  \/ Silent(a)
  \/ /\ Shown(a.handler, SeenTypes(a)) /\ Shown(a.A, SeenTypes(a))
     /\ Shown(a.B, Swap(SeenTypes(a)))

\* The wildcard handlers of the types of x and y.
OfTypes == {<<hnd.type["x"], WILDCARD>>, <<hnd.type["y"], WILDCARD>>}

\* While the shapes touch, the open wildcard handlers are still those of their types,
\* and the arbiter points to them.
HandlersInv ==
  /\ HandlersTypeOK
  /\ \A h \in hnd.added : h[2] = WILDCARD => hnd.usesWildcards
  /\ IF Apart THEN open = {}
     ELSE Presents(harb) /\ open \subseteq OfTypes \cap hnd.added \cap {harb.A, harb.B}
  /\ HandlersTold

LEMMA ArbiterTyped ==
  ASSUME NEW S, NEW x \in Arbiters(S), NEW R, NEW state \in R, NEW age \in Number,
         NEW shapes \in Orders, NEW types \in Pairs, NEW swapped \in BOOLEAN,
         NEW handler \in Found, NEW a \in Wild, NEW b \in Wild
  PROVE  [x EXCEPT !.shapes = shapes, !.types = types, !.handler = handler,
            !.swapped = swapped, !.A = a, !.B = b, !.state = state, !.age = age] \in Arbiters(R)
BY DEF Arbiters

LEMMA TypesPositive == \A t \in Type : t \in Int /\ t > 0
BY HandlersAssumption

\* What cpSpaceLookupHandler() finds for two types, and for one.
LEMMA LooksUp ==
  ASSUME HandlersTypeOK, NEW a \in Type, NEW b \in Type, NEW h, h = LookupHandler(a, b, DEFAULT)
  PROVE  \/ h = DEFAULT
         \/ h \in hnd.added /\ (h = <<a, b>> \/ h = <<b, a>>)
BY DEF LookupHandler

LEMMA LooksUpWildcard ==
  ASSUME HandlersTypeOK, NEW a \in Type, NEW h, h = LookupHandler(a, WILDCARD, NOTHING)
  PROVE  /\ h \in {NOTHING, <<a, WILDCARD>>}
         /\ h = <<a, WILDCARD>> <=> <<a, WILDCARD>> \in hnd.added
<1>1. hnd.added \subseteq Handler
  BY DEF HandlersTypeOK
<1>2. <<WILDCARD, a>> \notin Handler
  BY TypesPositive DEF Handler, WILDCARD
<1>3. CASE \E g \in hnd.added : g \in {<<a, WILDCARD>>, <<WILDCARD, a>>}
  <2>1. h \in hnd.added /\ h \in {<<a, WILDCARD>>, <<WILDCARD, a>>}
    BY <1>3 DEF LookupHandler
  <2> QED BY <2>1, <1>1, <1>2
<1>4. CASE ~\E g \in hnd.added : g \in {<<a, WILDCARD>>, <<WILDCARD, a>>}
  <2>1. h = NOTHING
    BY <1>4 DEF LookupHandler
  <2>2. NOTHING # <<a, WILDCARD>>
    BY TypesPositive DEF NOTHING, WILDCARD
  <2> QED BY <2>1, <2>2, <1>4
<1> QED BY <1>3, <1>4

\* The arbiter that cpArbiterUpdate() makes calls the right handlers.
LEMMA Updated ==
  ASSUME HandlersInv, NEW shapes \in Orders, NEW arb,
         arb = HandlersUpdate(harb, shapes)
  PROVE  /\ arb \in Arbiters({"first"} \cup Contacted)
         /\ arb.state = "first" <=> Apart
         /\ Presents(arb)
         /\ ~Silent(arb) => OfTypes \cap hnd.added = {arb.A, arb.B} \cap hnd.added
<1> USE DEF HandlersInv, HandlersTypeOK
<1> DEFINE t == [i \in 1 .. 2 |-> hnd.type[shapes[i]]]
           h == LookupHandler(t[1], t[2], DEFAULT)
           swapped == t[1] # h[1] /\ h[1] # WILDCARD
           u == IF swapped THEN Swap(t) ELSE t
           found == h # DEFAULT \/ hnd.usesWildcards
           a == IF found THEN LookupHandler(u[1], WILDCARD, NOTHING) ELSE harb.A
           b == IF found THEN LookupHandler(u[2], WILDCARD, NOTHING) ELSE harb.B
<1>1. arb = [harb EXCEPT !.shapes = shapes, !.types = t, !.handler = h, !.swapped = swapped,
               !.A = a, !.B = b,
               !.state = IF @ \in {"none", "cached"} THEN "first" ELSE @, !.age = 0]
  BY DEF HandlersUpdate
<1>2. /\ t \in Type \X Type /\ t = <<t[1], t[2]>>
      /\ {<<t[1], WILDCARD>>, <<t[2], WILDCARD>>} = OfTypes
  BY DEF OfTypes, Orders
<1>3. \/ h = DEFAULT
      \/ h \in hnd.added /\ (h = <<t[1], t[2]>> \/ h = <<t[2], t[1]>>)
  BY <1>2, LooksUp
<1>4. u \in Type \X Type /\ {u[1], u[2]} = {t[1], t[2]} /\ (h # DEFAULT => h = <<u[1], u[2]>>)
  <2> HIDE DEF t, h
  <2>0. t[1] \in Type /\ t[2] \in Type
    BY <1>2
  <2>1. u = (IF swapped THEN <<t[2], t[1]>> ELSE t)
    BY DEF Swap
  <2> HIDE DEF u
  <2>2. u \in Type \X Type /\ {u[1], u[2]} = {t[1], t[2]}
    BY <1>2, <2>0, <2>1
  <2>3. ASSUME h # DEFAULT PROVE h = <<u[1], u[2]>>
    <3>1. h = <<t[1], t[2]>> \/ h = <<t[2], t[1]>>
      BY <1>3, <2>3
    <3>2. t[1] # WILDCARD /\ t[2] # WILDCARD
      BY <2>0, TypesPositive DEF WILDCARD
    <3>3. swapped <=> t[1] # h[1]
      BY <3>1, <3>2
    <3> QED BY <2>1, <3>1, <3>3
  <2> QED BY <2>2, <2>3
<1> HIDE DEF t, h, u
<1>5. found => /\ a \in {NOTHING, <<u[1], WILDCARD>>}
               /\ a = <<u[1], WILDCARD>> <=> <<u[1], WILDCARD>> \in hnd.added
               /\ b \in {NOTHING, <<u[2], WILDCARD>>}
               /\ b = <<u[2], WILDCARD>> <=> <<u[2], WILDCARD>> \in hnd.added
  BY <1>4, LooksUpWildcard
<1>6. h \in Found /\ a \in Wild /\ b \in Wild
  BY <1>3, <1>4, <1>5 DEF Found, Wild, Handler, Arbiters
<1> HIDE DEF a, b
<1>7. SeenTypes(arb) = u
  BY <1>1 DEF SeenTypes, u, Arbiters
<1>8. arb.handler = h /\ arb.A = a /\ arb.B = b
  BY <1>1
<1>9. Silent(arb) <=> ~found
  BY <1>8 DEF Silent
<1>10. found => Shown(h, u)
  <2>1. h = DEFAULT => h \notin Handler /\ h \notin Type \X Type
    BY TypesPositive DEF DEFAULT, Handler, WILDCARD
  <2>2. h # NOHANDLER
    BY <1>3, <1>4, TypesPositive DEF DEFAULT, NOHANDLER, WILDCARD
  <2> QED BY <2>1, <2>2, <1>4 DEF Shown
<1>11. found => Shown(a, u) /\ Shown(b, Swap(u))
  <2>1. \A x \in Type : /\ <<x, WILDCARD>> # NOHANDLER /\ <<x, WILDCARD>> \notin Type \X Type
                        /\ <<x, WILDCARD>>[1] = x
    BY TypesPositive DEF NOHANDLER, WILDCARD
  <2>2. NOTHING # NOHANDLER /\ NOTHING \notin Handler /\ NOTHING \notin Type \X Type
    BY TypesPositive DEF NOTHING, NOHANDLER, Handler
  <2>3. Swap(u)[1] = u[2]
    BY DEF Swap
  <2> QED BY <2>1, <2>2, <2>3, <1>4, <1>5 DEF Shown
<1>12. Presents(arb)
  BY <1>7, <1>8, <1>9, <1>10, <1>11 DEF Presents
<1>13. ~Silent(arb) => OfTypes \cap hnd.added = {arb.A, arb.B} \cap hnd.added
  <2>1. OfTypes = {<<u[1], WILDCARD>>, <<u[2], WILDCARD>>}
    BY <1>2, <1>4
  <2>2. NOTHING \notin hnd.added
    BY TypesPositive DEF NOTHING, Handler
  <2> QED BY <2>1, <2>2, <1>5, <1>8, <1>9
<1>14. arb.state = "first" <=> Apart
  BY <1>1 DEF Apart, Contacted, Arbiters
<1>15. arb \in Arbiters({"first"} \cup Contacted)
  <2> DEFINE state == IF harb.state \in {"none", "cached"} THEN "first" ELSE harb.state
  <2>1. t \in Pairs /\ 0 \in Number
    BY <1>2, TypesPositive DEF Pairs, Number
  <2>2. harb.state \in {"none", "cached"} \cup Contacted
    BY DEF Arbiters
  <2>3. state \in {"first"} \cup Contacted
    BY <2>2 DEF Contacted
  <2>4. swapped \in BOOLEAN
    OBVIOUS
  <2>5. harb \in Arbiters({"none", "cached"} \cup Contacted)
    OBVIOUS
  <2> HIDE DEF swapped, state, HandlersInv, HandlersTypeOK
  <2>6. arb = [harb EXCEPT !.shapes = shapes, !.types = t, !.handler = h, !.swapped = swapped,
                 !.A = a, !.B = b, !.state = state, !.age = 0]
    BY <1>1 DEF state
  <2>7. shapes \in Orders
    OBVIOUS
  <2>8. [harb EXCEPT !.shapes = shapes, !.types = t, !.handler = h, !.swapped = swapped,
           !.A = a, !.B = b, !.state = state, !.age = 0] \in Arbiters({"first"} \cup Contacted)
    BY <2>1, <2>3, <2>4, <2>5, <2>7, <1>6, ArbiterTyped, Zenon
  <2> QED BY <2>6, <2>8, Zenon
<1> QED BY <1>12, <1>13, <1>14, <1>15

\* Whom an arbiter calls it shows what they are to see.
LEMMA CallsRight ==
  ASSUME HandlersInv, NEW arb, Presents(arb), NEW func, NEW c \in Callbacks(arb, func)
  PROVE  /\ c.handler # NOHANDLER
         /\ c.handler \in hnd.added => c.types[1] = c.handler[1]
         /\ c.handler \in Type \X Type => c.types[2] = c.handler[2]
<1>1. ~Silent(arb)
  BY DEF Callbacks, Silent
<1>2. hnd.added \subseteq Handler
  BY DEF HandlersInv, HandlersTypeOK
<1> QED BY <1>1, <1>2 DEF Callbacks, Silent, Presents, Shown

LEMMA CallsAll ==
  ASSUME NEW arb, ~Silent(arb), NEW func
  PROVE  {arb.A, arb.B} \subseteq {c.handler : c \in Callbacks(arb, func)}
BY DEF Callbacks, Silent

\* Wildcard handlers are there only if usesWildcards is set.
LEMMA NoWildcards ==
  ASSUME HandlersInv, ~hnd.usesWildcards
  PROVE  Wild \cap hnd.added = {}
<1>1. \A h \in hnd.added : h \in Handler /\ h[2] # WILDCARD
  BY DEF HandlersInv, HandlersTypeOK
<1>2. NOTHING \notin Handler /\ NOHANDLER \notin Handler
  BY TypesPositive DEF NOTHING, NOHANDLER, Handler
<1>3. \A h \in Type \X {WILDCARD} : h[2] = WILDCARD
  OBVIOUS
<1> QED BY <1>1, <1>2, <1>3 DEF Wild

LEMMA TouchHolds ==
  ASSUME HandlersInv, NEW shapes \in Orders, NEW begins \in BOOLEAN, NEW solves \in BOOLEAN,
         NEW ignored \in BOOLEAN, Touch(shapes, begins, solves, ignored)
  PROVE  HandlersInv'
<1> DEFINE arb == HandlersUpdate(harb, shapes)
<1>1. /\ arb \in Arbiters({"first"} \cup Contacted)
      /\ arb.state = "first" <=> Apart
      /\ Presents(arb)
      /\ ~Silent(arb) => OfTypes \cap hnd.added = {arb.A, arb.B} \cap hnd.added
  BY Updated
<1>2. PICK state \in Contacted : harb' = [arb EXCEPT !.state = state]
  BY DEF Touch, Contacted
<1>3. /\ \A c \in told' : \E func : c \in Callbacks(arb, func)
      /\ open' = IF arb.state = "first" THEN open \cup ({arb.A, arb.B} \cap hnd.added) ELSE open
      /\ hnd' = hnd
  BY DEF Touch
<1> HIDE DEF arb
<1>4. harb' \in Arbiters(Contacted)
  BY <1>1, <1>2 DEF Arbiters
<1>5. harb'.state \in Contacted
  BY <1>4 DEF Arbiters
<1>6. ~Apart'
  BY <1>5 DEF Apart, Contacted
<1>7. /\ harb'.handler = arb.handler /\ harb'.A = arb.A /\ harb'.B = arb.B
      /\ harb'.types = arb.types /\ harb'.swapped = arb.swapped
  BY <1>1, <1>2 DEF Arbiters
<1>8. Presents(harb)' /\ Silent(harb)' = Silent(arb)
  BY <1>1, <1>3, <1>7 DEF Presents, Silent, Shown, SeenTypes
<1>9. arb.A \in Wild /\ arb.B \in Wild
  BY <1>1 DEF Arbiters
<1>10. open' \subseteq OfTypes \cap hnd.added \cap {arb.A, arb.B}
  <2>1. CASE Silent(arb)
    <3>1. ~hnd.usesWildcards
      BY <2>1 DEF Silent
    <3>2. Wild \cap hnd.added = {}
      BY <3>1, NoWildcards
    <3>3. open \subseteq Wild \cap hnd.added
      BY DEF HandlersInv, HandlersTypeOK, OfTypes, Wild
    <3> QED BY <3>2, <3>3, <1>3, <1>9
  <2>2. CASE ~Silent(arb)
    <3>1. CASE Apart
      <4>1. open = {}
        BY <3>1 DEF HandlersInv
      <4>2. {arb.A, arb.B} \cap hnd.added \subseteq OfTypes
        BY <2>2, <1>1
      <4> QED BY <4>1, <4>2, <1>1, <1>3, <3>1
    <3>2. CASE ~Apart
      BY <3>2, <2>2, <1>1, <1>3 DEF HandlersInv
    <3> QED BY <3>1, <3>2
  <2> QED BY <2>1, <2>2
<1>11. HandlersTold'
  BY <1>3, <1>1, <1>6, CallsRight DEF HandlersTold
<1>12. HandlersTypeOK'
  <2>1. open' \subseteq Handler
    BY <1>10 DEF HandlersInv, HandlersTypeOK
  <2> QED BY <1>3, <1>4, <2>1 DEF HandlersInv, HandlersTypeOK, Arbiters
<1> QED BY <1>3, <1>6, <1>7, <1>8, <1>10, <1>11, <1>12 DEF HandlersInv, OfTypes

LEMMA StayApartHolds ==
  ASSUME HandlersInv, StayApart
  PROVE  HandlersInv'
<1> DEFINE separates == harb.state # "cached"
           said == IF separates THEN Callbacks(harb, "separate") ELSE {}
<1>1. /\ harb.state # "none" /\ told' = said /\ hnd' = hnd
      /\ open' = IF separates THEN {h \in open : h \notin {c.handler : c \in said}} ELSE open
      /\ \/ harb' = NewArbiter
         \/ harb' = [harb EXCEPT !.state = "cached", !.age = harb.age + 1]
  BY DEF StayApart
<1>2. harb' \in Arbiters({"none", "cached"})
  <2>1. NewArbiter \in Arbiters({"none", "cached"})
    BY DEF NewArbiter, Arbiters, Number, Pairs, Orders, Found, Wild
  <2>2. [harb EXCEPT !.state = "cached", !.age = harb.age + 1] \in Arbiters({"none", "cached"})
    <3>1. harb.age + 1 \in Number
      BY DEF HandlersInv, HandlersTypeOK, Arbiters, Number
    <3> QED BY <3>1 DEF HandlersInv, HandlersTypeOK, Arbiters
  <2> QED BY <1>1, <2>1, <2>2
<1>3. Apart'
  BY <1>2 DEF Apart, Arbiters
<1>4. CASE Apart
  <2>1. told' = {} /\ open' = {}
    BY <1>1, <1>4 DEF Apart, HandlersInv
  <2> QED BY <2>1, <1>1, <1>2, <1>3 DEF HandlersInv, HandlersTypeOK, HandlersTold, Arbiters
<1>5. CASE ~Apart
  <2>1. separates /\ Presents(harb) /\ open \subseteq {harb.A, harb.B} \cap Wild \cap hnd.added
    BY <1>5 DEF Apart, HandlersInv, HandlersTypeOK, Arbiters
  <2>2. open' = {}
    <3>1. CASE Silent(harb)
      BY <3>1, <1>1, <2>1, NoWildcards DEF Silent
    <3>2. CASE ~Silent(harb)
      BY <3>2, <1>1, <2>1, CallsAll
    <3> QED BY <3>1, <3>2
  <2>3. HandlersTold'
    BY <1>1, <2>1, <2>2, CallsRight DEF HandlersTold
  <2> QED BY <2>2, <2>3, <1>1, <1>2, <1>3 DEF HandlersInv, HandlersTypeOK, Arbiters
<1> QED BY <1>4, <1>5

\* Handlers are added and types changed only between collisions, or where the arbiter
\* does not mind.
LEMMA SetUpHolds ==
  ASSUME HandlersInv, UNCHANGED <<harb, open>>, told' = {},
         hnd' \in [added : SUBSET Handler, usesWildcards : BOOLEAN, type : [{"x", "y"} -> Type]],
         hnd.added \subseteq hnd'.added,
         \A h \in hnd'.added : h[2] = WILDCARD => hnd'.usesWildcards,
         Apart \/ (hnd'.type = hnd.type /\ hnd'.usesWildcards = hnd.usesWildcards)
  PROVE  HandlersInv'
<1>1. HandlersTypeOK'
  BY DEF HandlersInv, HandlersTypeOK
<1>2. HandlersTold'
  BY DEF HandlersInv, HandlersTold, Apart
<1>3. CASE Apart
  BY <1>1, <1>2, <1>3 DEF HandlersInv, Apart
<1>4. CASE ~Apart
  BY <1>1, <1>2, <1>4 DEF HandlersInv, Apart, Presents, Silent, Shown, SeenTypes, OfTypes
<1> QED BY <1>3, <1>4

LEMMA HandlersNextHolds ==
  ASSUME HandlersKept, HandlersInv, [HandlersNext]_handlerVars
  PROVE  HandlersInv'
<1> DEFINE Setups == [added : SUBSET Handler, usesWildcards : BOOLEAN, type : [{"x", "y"} -> Type]]
<1>0. hnd \in Setups /\ \A h \in hnd.added : h[2] = WILDCARD => hnd.usesWildcards
  BY DEF HandlersInv, HandlersTypeOK
<1>1. ASSUME NEW shapes \in {<<"x", "y">>, <<"y", "x">>}, NEW begins \in BOOLEAN,
             NEW solves \in BOOLEAN, NEW ignored \in BOOLEAN,
             Touch(shapes, begins, solves, ignored)
      PROVE  HandlersInv'
  BY <1>1, TouchHolds DEF Orders
<1>2. ASSUME StayApart PROVE HandlersInv'
  BY <1>2, StayApartHolds
<1>3. ASSUME AddDefaultCollisionHandler PROVE HandlersInv'
  <2>1. hnd' = [hnd EXCEPT !.usesWildcards = TRUE]
    BY <1>3 DEF AddDefaultCollisionHandler
  <2>2. Apart \/ hnd.usesWildcards
    BY <1>3 DEF AddDefaultCollisionHandler, UseWildcards
  <2>3. /\ hnd' \in Setups /\ hnd'.added = hnd.added
        /\ hnd'.usesWildcards = TRUE /\ hnd'.type = hnd.type
    BY <2>1, <1>0
  <2>4. Apart \/ (hnd'.type = hnd.type /\ hnd'.usesWildcards = hnd.usesWildcards)
    BY <2>3, <2>2, <1>0
  <2>5. UNCHANGED <<harb, open>> /\ told' = {}
    BY <1>3 DEF AddDefaultCollisionHandler
  <2>6. \A h \in hnd'.added : h[2] = WILDCARD => hnd'.usesWildcards
    BY <2>3
  <2>7. hnd' \in Setups /\ hnd.added \subseteq hnd'.added
    BY <2>3
  <2> QED BY <2>4, <2>5, <2>6, <2>7, SetUpHolds
<1>4. ASSUME NEW a \in Type, NEW b \in Type, AddCollisionHandler(a, b) PROVE HandlersInv'
  <2> DEFINE h == LookupHandler(a, b, <<a, b>>)
  <2>1. hnd' = [hnd EXCEPT !.added = @ \cup {h}]
    BY <1>4 DEF AddCollisionHandler
  <2>2. h \in hnd.added \/ h = <<a, b>>
    BY DEF LookupHandler
  <2>3. <<a, b>> \in Handler /\ <<a, b>>[2] # WILDCARD
    BY TypesPositive DEF Handler, WILDCARD
  <2> HIDE DEF h
  <2> QED BY <2>1, <2>2, <2>3, <1>0, <1>4, SetUpHolds DEF AddCollisionHandler
<1>5. ASSUME NEW t \in Type, AddWildcardHandler(t) PROVE HandlersInv'
  <2>1. hnd' = [hnd EXCEPT !.usesWildcards = TRUE, !.added = @ \cup {<<t, WILDCARD>>}]
    BY <1>5 DEF AddWildcardHandler
  <2>2. Apart \/ hnd.usesWildcards
    BY <1>5 DEF AddWildcardHandler, UseWildcards
  <2>3. <<t, WILDCARD>> \in Handler
    BY DEF Handler
  <2>4. /\ hnd' \in Setups /\ hnd'.added = hnd.added \cup {<<t, WILDCARD>>}
        /\ hnd'.usesWildcards = TRUE /\ hnd'.type = hnd.type
    BY <2>1, <2>3, <1>0
  <2>5. Apart \/ (hnd'.type = hnd.type /\ hnd'.usesWildcards = hnd.usesWildcards)
    BY <2>4, <2>2, <1>0
  <2>6. UNCHANGED <<harb, open>> /\ told' = {}
    BY <1>5 DEF AddWildcardHandler
  <2>7. \A h \in hnd'.added : h[2] = WILDCARD => hnd'.usesWildcards
    BY <2>4
  <2>8. hnd' \in Setups /\ hnd.added \subseteq hnd'.added
    BY <2>4
  <2> QED BY <2>5, <2>6, <2>7, <2>8, SetUpHolds
<1>6. ASSUME NEW s \in {"x", "y"}, NEW t \in Type, SetCollisionType(s, t) PROVE HandlersInv'
  <2>1. hnd' = [hnd EXCEPT !.type[s] = t] /\ Apart
    BY <1>6 DEF SetCollisionType
  <2> QED BY <2>1, <1>0, <1>6, SetUpHolds DEF SetCollisionType
<1>7. CASE UNCHANGED handlerVars
  BY <1>7 DEF HandlersInv, HandlersTypeOK, HandlersTold, Apart, Presents, Silent, Shown, SeenTypes,
              OfTypes, handlerVars
<1> QED BY <1>1, <1>2, <1>3, <1>4, <1>5, <1>6, <1>7 DEF HandlersNext

LEMMA HandlersInitHolds == HandlersInit => HandlersInv
<1> SUFFICES ASSUME HandlersInit PROVE HandlersInv
  OBVIOUS
<1>1. NewArbiter \in Arbiters({"none", "cached"} \cup Contacted)
  BY DEF NewArbiter, Arbiters, Number, Pairs, Orders, Found, Wild
<1> QED BY <1>1 DEF HandlersInit, HandlersInv, HandlersTypeOK, HandlersTold, Apart, NewArbiter

\* Callbacks go through handlers that exist and see the shape of the handler's type
\* first, and who is told of a begin is told of the end, for any types, if handlers
\* and types are set up between collisions.
THEOREM HandlersHear == HandlersKept => (HandlersSpec => []HandlersTold)
<1> SUFFICES ASSUME HandlersKept PROVE HandlersSpec => []HandlersTold
  OBVIOUS
<1>1. HandlersInit => HandlersInv
  BY HandlersInitHolds
<1>2. HandlersInv /\ [HandlersNext]_handlerVars => HandlersInv'
  BY HandlersNextHolds
<1>3. HandlersInv => HandlersTold
  BY DEF HandlersInv
<1> QED BY <1>1, <1>2, <1>3, PTL DEF HandlersSpec

-----------------------------------------------------------------------------
(* Joints *)

Whole == Int
Natural == Nat
Sided == {-1, 0, 1}

Joint == [kind : Kinds, acc : Whole, bias : Whole, n : Sided, angle : Whole, target : Whole,
          maxForce : Natural, min : Whole, max : Whole, goal : Whole,
          dt : Natural, coef : Whole, warm : Whole,
          pushed : Whole, phase : {"user", "cached", "solve"}, left : Whole,
          coincide : BOOLEAN, set : BOOLEAN]

\* What the joint has pushed, once the cached impulse is applied, is its sum and what
\* the sum does not say.
Owed(j) == One * j.acc + Unsaid(j)
Summed(j) ==
  /\ j.kind \in Spring => j.warm = 0
  /\ IF j.phase = "cached" /\ j.kind \notin Spring THEN j.pushed = 0
     ELSE j.kind # "dampedRotarySpring" => j.pushed = Along(j) * Owed(j)

\* Only coinciding anchors leave a joint without a direction, unless it is a limit
\* that is not reached, which has no impulse and had none when the step began.
Directed(j) ==
  /\ j.kind \in {"pin", "dampedSpring"} => j.n # 0 \/ j.coincide
  /\ j.kind = "slide" => j.n # 0 \/ j.coincide \/ j.acc = 0
  /\ j.kind = "ratchet" => j.n # 0
  /\ j.kind \in {"rotaryLimit", "ratchet"} => j.bias # 0 \/ (j.acc = 0 /\ j.warm = 0)

\* The sum is within the limits of the kind.
Within(j) ==
  /\ j.set \/ (-Most(j) <= j.acc /\ j.acc <= Most(j))
  /\ j.kind = "slide" => j.acc <= 0
  /\ j.kind = "rotaryLimit" => /\ j.bias < 0 => j.acc >= 0
                               /\ j.bias > 0 => j.acc <= 0
  /\ j.kind = "ratchet" => \/ j.set
                           \/ j.n = 1 /\ j.acc >= 0
                           \/ j.n = -1 /\ j.acc <= 0
  /\ j.kind = "groove" => \/ j.n = 0 /\ j.acc = 0
                          \/ j.n = 1 /\ j.acc >= 0
                          \/ j.n = -1 /\ j.acc <= 0

LostOf(j) == j.kind \in {"pin", "slide", "dampedSpring"} /\ j.coincide

\* It is within them when the solver has been at the joint once.
Solvedly(j) ==
  \/ j.phase = "cached" \/ (j.phase = "solve" /\ j.left = Iterations)
  \/ j.kind \in Spring \/ LostOf(j) \/ Within(j)

JointInv ==
  /\ jnt \in Joint /\ Summed(jnt) /\ Directed(jnt) /\ Solvedly(jnt)
  /\ jnt.set => jnt.phase = "user"
  /\ jnt.phase = "solve" => jnt.left >= 1

-----------------------------------------------------------------------------

LEMMA Signs ==
  ASSUME NEW x \in Int
  PROVE  /\ Sign(x) \in Sided /\ (Sign(x) = 0 <=> x = 0)
         /\ -Sign(x) \in Sided /\ (-Sign(x) = 0 <=> x = 0)
         /\ Abs1(x) \in Int /\ Bias(x) \in Int /\ Bias(-x) \in Int
<1>1. Sign(x) \in Sided /\ (Sign(x) = 0 <=> x = 0)
  BY DEF Sign, Sided
<1>2. -Sign(x) \in Sided /\ (-Sign(x) = 0 <=> x = 0)
  <2>1. Sign(x) \in {-1, 0, 1}
    BY <1>1 DEF Sided
  <2> QED BY <1>1, <2>1 DEF Sided
<1>3. Abs1(x) \in Int
  BY DEF Abs1
<1>4. \A y \in Int : Bias(y) \in Int
  BY JointAssumption DEF Bias, Clamped
<1> QED BY <1>1, <1>2, <1>3, <1>4

LEMMA Fields ==
  ASSUME NEW j \in Joint
  PROVE  /\ j.acc \in Int /\ j.bias \in Int /\ j.angle \in Int /\ j.target \in Int
         /\ j.pushed \in Int /\ j.left \in Int /\ j.maxForce \in Int /\ j.maxForce >= 0
         /\ j.n \in Int /\ j.n \in {-1, 0, 1} /\ j.kind \in Kinds
         /\ j.min \in Int /\ j.max \in Int /\ j.goal \in Int
         /\ j.dt \in Int /\ j.dt >= 0 /\ j.coef \in Int /\ j.warm \in Int
         /\ j.set \in BOOLEAN /\ j.coincide \in BOOLEAN
BY DEF Joint, Whole, Natural, Sided

LEMMA MostIs ==
  ASSUME NEW j \in Joint
  PROVE  Most(j) \in Int /\ Most(j) >= 0
<1>1. PICK m \in Nat : m = j.maxForce
  BY DEF Joint, Natural
<1>2. PICK d \in Nat : d = j.dt
  BY DEF Joint, Natural
<1>3. m * d \in Nat
  OBVIOUS
<1> QED BY <1>1, <1>2, <1>3 DEF Most

\* Nothing is unsaid of a joint that started from nothing.
LEMMA OwedIs ==
  ASSUME NEW j \in Joint
  PROVE  /\ Unsaid(j) \in Int /\ Owed(j) \in Int
         /\ j.warm = 0 => Unsaid(j) = 0 /\ Owed(j) = One * j.acc
<1>1. PICK c \in Int, w \in Int, a \in Int : c = j.coef /\ w = j.warm /\ a = j.acc
  BY Fields
<1>2. (c - One) * w \in Int /\ One * a \in Int /\ (w = 0 => (c - One) * w = 0)
  BY DEF One
<1>3. Unsaid(j) = (c - One) * w /\ One * j.acc = One * a
  BY <1>1 DEF Unsaid
<1>4. PICK u \in Int, o \in Int : u = Unsaid(j) /\ o = One * j.acc /\ (j.warm = 0 => u = 0)
  BY <1>1, <1>2, <1>3
<1>5. Owed(j) = o + u
  BY <1>4 DEF Owed
<1> QED BY <1>4, <1>5

\* A step gives a joint a bias, and perhaps another direction, angle and sum.
LEMMA JointTyped ==
  ASSUME NEW j \in Joint
  PROVE  /\ \A b \in Whole : [j EXCEPT !.bias = b] \in Joint
         /\ \A n \in Sided, b \in Whole : [j EXCEPT !.n = n, !.bias = b] \in Joint
         /\ \A n \in Sided, b \in Whole, a \in Whole :
              [j EXCEPT !.n = n, !.bias = b, !.acc = a] \in Joint
         /\ \A b \in Whole, a \in Whole : [j EXCEPT !.bias = b, !.angle = a] \in Joint
         /\ \A a \in Whole : [j EXCEPT !.acc = a] \in Joint
         /\ \A p \in Whole : [j EXCEPT !.pushed = p] \in Joint
         /\ \A w \in Whole, p \in Whole : [j EXCEPT !.warm = w, !.pushed = p] \in Joint
         /\ \A n \in Sided, t \in Whole, a \in Whole :
              [j EXCEPT !.n = n, !.target = t, !.acc = a] \in Joint
         /\ \A t \in Whole, a \in Whole : [j EXCEPT !.target = t, !.acc = a] \in Joint
<1>1. \A b \in Whole : [j EXCEPT !.bias = b] \in Joint
  BY DEF Joint
<1>2. \A n \in Sided, b \in Whole : [j EXCEPT !.n = n, !.bias = b] \in Joint
  BY DEF Joint
<1>3. \A n \in Sided, b \in Whole, a \in Whole :
        [j EXCEPT !.n = n, !.bias = b, !.acc = a] \in Joint
  BY DEF Joint
<1>4. \A b \in Whole, a \in Whole : [j EXCEPT !.bias = b, !.angle = a] \in Joint
  BY DEF Joint
<1>5. \A a \in Whole : [j EXCEPT !.acc = a] \in Joint
  BY DEF Joint
<1>6. \A p \in Whole : [j EXCEPT !.pushed = p] \in Joint
  BY DEF Joint
<1>7. \A n \in Sided, t \in Whole, a \in Whole :
        [j EXCEPT !.n = n, !.target = t, !.acc = a] \in Joint
  BY DEF Joint
<1>8. \A t \in Whole, a \in Whole : [j EXCEPT !.target = t, !.acc = a] \in Joint
  BY DEF Joint
<1>9. \A w \in Whole, p \in Whole : [j EXCEPT !.warm = w, !.pushed = p] \in Joint
  BY DEF Joint
<1> QED BY <1>1, <1>2, <1>3, <1>4, <1>5, <1>6, <1>7, <1>8, <1>9, Zenon

-----------------------------------------------------------------------------
(* preStep() *)

\* The joint when the step has looked at it.
Begins(j) == j \in Joint /\ j.phase = "cached" /\ ~j.set /\ j.warm = 0
Prepared(k, j) ==
  /\ Begins(k) /\ Summed(k) /\ Directed(k)
  /\ k.kind = j.kind

LEMMA LinearPreStep ==
  ASSUME NEW j, Begins(j), j.pushed = 0, NEW x \in Int, j.coincide <=> x = 0
  PROVE  /\ j.kind = "pin" => Prepared(PinPreStep(j, x), j)
         /\ j.kind = "slide" => Prepared(SlidePreStep(j, x), j)
         /\ j.kind = "pivot" => Prepared(PivotPreStep(j, x), j)
         /\ j.kind = "groove" => Prepared(GroovePreStep(j, x), j)
         /\ j.kind = "dampedSpring" => Prepared(DampedSpringPreStep(j, x), j)
<1> USE DEF Begins
<1>0. Abs1(x) \in Int /\ Sign(x) \in Sided /\ -Sign(x) \in Sided /\ (Sign(x) = 0 <=> x = 0)
  BY Signs
<1>r. j.min \in Int /\ j.max \in Int /\ j.goal \in Int
  BY Fields
<1>1. ASSUME j.kind = "pin" PROVE Prepared(PinPreStep(j, x), j)
  <2> DEFINE b == Bias(j.goal - Abs1(x))
             k == [j EXCEPT !.n = Sign(x), !.bias = b]
  <2>1. b \in Whole
    BY <1>0, <1>r, Signs DEF Whole
  <2> HIDE DEF b
  <2>2. k \in Joint
    BY <1>0, <2>1, JointTyped, Zenon
  <2>3. /\ k.kind = "pin" /\ k.phase = "cached" /\ ~k.set /\ k.warm = 0 /\ k.pushed = 0
        /\ k.n = Sign(x) /\ k.coincide = j.coincide
    BY <1>1 DEF Joint
  <2> HIDE DEF k
  <2>4. Prepared(k, j)
    BY <1>0, <1>1, <2>2, <2>3 DEF Prepared, Summed, Directed, Spring
  <2> QED BY <2>4 DEF PinPreStep, k, b
<1>2. ASSUME j.kind = "slide" PROVE Prepared(SlidePreStep(j, x), j)
  <2> DEFINE d == Abs1(x)
  <2>1. /\ Bias(j.max - d) \in Whole /\ Bias(d - j.min) \in Whole
        /\ 0 \in Whole /\ 0 \in Sided
    BY <1>0, <1>r, Signs DEF Whole, Sided
  <2>2. ASSUME NEW n \in Sided, NEW b \in Whole, n # 0 \/ j.coincide
        PROVE  Prepared([j EXCEPT !.n = n, !.bias = b], j)
    <3> DEFINE k == [j EXCEPT !.n = n, !.bias = b]
    <3>1. k \in Joint
      BY JointTyped, Zenon
    <3>2. /\ k.kind = "slide" /\ k.phase = "cached" /\ ~k.set /\ k.warm = 0 /\ k.pushed = 0
          /\ k.n = n /\ k.coincide = j.coincide
      BY <1>2 DEF Joint
    <3> HIDE DEF k
    <3>3. Prepared(k, j)
      BY <1>2, <2>2, <3>1, <3>2 DEF Prepared, Summed, Directed, Spring
    <3> QED BY <3>3 DEF k
  <2>3. Prepared([j EXCEPT !.n = 0, !.bias = 0, !.acc = 0], j)
    <3> DEFINE k == [j EXCEPT !.n = 0, !.bias = 0, !.acc = 0]
    <3>1. k \in Joint
      BY <2>1, JointTyped, Zenon
    <3>2. /\ k.kind = "slide" /\ k.phase = "cached" /\ ~k.set /\ k.warm = 0 /\ k.pushed = 0
          /\ k.acc = 0
      BY <1>2 DEF Joint
    <3> HIDE DEF k
    <3>3. Prepared(k, j)
      BY <1>2, <3>1, <3>2 DEF Prepared, Summed, Directed, Spring
    <3> QED BY <3>3 DEF k
  <2>4. Sign(x) # 0 \/ j.coincide
    BY <1>0
  <2>5. -Sign(x) # 0 \/ j.coincide
    BY <1>0 DEF Sign
  <2> HIDE DEF d
  <2>6. /\ Prepared([j EXCEPT !.n = Sign(x), !.bias = Bias(j.max - d)], j)
        /\ Prepared([j EXCEPT !.n = -Sign(x), !.bias = Bias(d - j.min)], j)
    BY <1>0, <2>1, <2>2, <2>4, <2>5, Zenon
  <2> QED BY <2>3, <2>6, Zenon DEF SlidePreStep, d
<1>3. ASSUME j.kind = "pivot" PROVE Prepared(PivotPreStep(j, x), j)
  <2> DEFINE b == Bias(-x)
             k == [j EXCEPT !.bias = b]
  <2>1. b \in Whole
    BY Signs DEF Whole
  <2> HIDE DEF b
  <2>2. k \in Joint
    BY <2>1, JointTyped, Zenon
  <2>3. k.kind = "pivot" /\ k.phase = "cached" /\ ~k.set /\ k.warm = 0 /\ k.pushed = 0
    BY <1>3 DEF Joint
  <2> HIDE DEF k
  <2>4. Prepared(k, j)
    BY <1>3, <2>2, <2>3 DEF Prepared, Summed, Directed, Spring
  <2> QED BY <2>4 DEF PivotPreStep, k, b
<1>4. ASSUME j.kind = "groove" PROVE Prepared(GroovePreStep(j, x), j)
  <2> DEFINE b == Bias(Clamped(x, j.min, j.max) - x)
             n == IF x <= j.min THEN 1 ELSE IF x >= j.max THEN -1 ELSE 0
             k == [j EXCEPT !.n = n, !.bias = b]
  <2>1. n \in Sided /\ b \in Whole
    BY <1>r, Signs DEF Clamped, Whole, Sided
  <2> HIDE DEF n, b
  <2>2. k \in Joint
    BY <2>1, JointTyped, Zenon
  <2>3. k.kind = "groove" /\ k.phase = "cached" /\ ~k.set /\ k.warm = 0 /\ k.pushed = 0
    BY <1>4 DEF Joint
  <2> HIDE DEF k
  <2>4. Prepared(k, j)
    BY <1>4, <2>2, <2>3 DEF Prepared, Summed, Directed, Spring
  <2> QED BY <2>4 DEF GroovePreStep, k, b, n
<1>5. ASSUME j.kind = "dampedSpring" PROVE Prepared(DampedSpringPreStep(j, x), j)
  <2> DEFINE f == (j.goal - Abs1(x)) * j.dt
             q == One * (Sign(x) * f)
             i == [j EXCEPT !.n = Sign(x), !.target = 0, !.acc = f]
             k == [i EXCEPT !.pushed = @ + q]
  <2>0. f \in Int
    <3>1. PICK g \in Int, d \in Int : g = j.goal - Abs1(x) /\ d = j.dt
      BY <1>0, <1>r, Fields
    <3>2. g * d \in Int
      OBVIOUS
    <3> QED BY <3>1, <3>2
  <2> HIDE DEF f
  <2>1. f \in Whole /\ 0 \in Whole /\ q \in Int /\ q = Sign(x) * (One * f)
    BY <1>0, <2>0 DEF Whole, Sided, One
  <2> HIDE DEF q
  <2>2. i \in Joint
    BY <1>0, <2>1, JointTyped, Zenon
  <2>3. /\ i.kind = "dampedSpring" /\ i.phase = "cached" /\ ~i.set /\ i.warm = 0 /\ i.pushed = 0
        /\ i.n = Sign(x) /\ i.acc = f /\ i.coincide = j.coincide
    BY <1>5 DEF Joint
  <2> HIDE DEF i
  <2>4. i.pushed + q \in Whole
    BY <2>1, <2>3 DEF Whole
  <2>5. k \in Joint
    BY <2>2, <2>4, JointTyped, Zenon
  <2>6. /\ k.kind = "dampedSpring" /\ k.phase = "cached" /\ ~k.set /\ k.warm = 0 /\ k.pushed = 0 + q
        /\ k.n = Sign(x) /\ k.acc = f /\ k.coincide = j.coincide
    BY <2>2, <2>3 DEF Joint
  <2> HIDE DEF k
  <2>7. Summed(k)
    <3>1. Along(k) = Sign(x)
      BY <2>6 DEF Along
    <3>2. k.pushed = Sign(x) * (One * f) /\ Owed(k) = One * f
      BY <2>1, <2>5, <2>6, OwedIs
    <3>3. k.pushed = Along(k) * Owed(k)
      BY <3>1, <3>2
    <3> QED BY <3>3, <2>6 DEF Summed, Spring
  <2>8. Directed(k)
    BY <1>0, <2>6 DEF Directed
  <2>9. Prepared(k, j)
    BY <1>5, <2>5, <2>6, <2>7, <2>8 DEF Prepared
  <2> QED BY <2>9 DEF DampedSpringPreStep, Push, k, i, q, f
<1> QED BY <1>1, <1>2, <1>3, <1>4, <1>5

LEMMA UnbiasedIs ==
  ASSUME NEW j, Begins(j), j.pushed = 0, j.kind \in {"rotaryLimit", "ratchet"},
         j.kind = "ratchet" => j.n # 0
  PROVE  Prepared(Unbiased(j), j)
<1> DEFINE i == [j EXCEPT !.acc = 0]
<1>1. CASE j.bias = 0
  <2>1. 0 \in Whole
    BY DEF Whole
  <2>2. i \in Joint
    BY <2>1, JointTyped, Zenon DEF Begins
  <2>3. /\ i.kind = j.kind /\ i.phase = "cached" /\ ~i.set /\ i.warm = 0 /\ i.pushed = 0
        /\ i.n = j.n /\ i.acc = 0
    BY DEF Joint, Begins
  <2> HIDE DEF i
  <2>4. Prepared(i, j)
    BY <2>2, <2>3 DEF Begins, Prepared, Summed, Directed, Spring
  <2> QED BY <1>1, <2>4 DEF Unbiased, i
<1>2. CASE j.bias # 0
  BY <1>2 DEF Unbiased, Begins, Prepared, Summed, Directed, Spring
<1> QED BY <1>1, <1>2

LEMMA AngularPreStep ==
  ASSUME NEW j, Begins(j), j.pushed = 0, NEW x \in Int, j.kind = "ratchet" => j.n # 0
  PROVE  /\ j.kind = "rotaryLimit" => Prepared(RotaryLimitPreStep(j, x), j)
         /\ j.kind = "ratchet" => Prepared(RatchetPreStep(j, x), j)
         /\ j.kind = "gear" => Prepared(GearPreStep(j, x), j)
         /\ j.kind = "motor" => Prepared(MotorPreStep(j, x), j)
         /\ j.kind = "dampedRotarySpring" => Prepared(DampedRotarySpringPreStep(j, x), j)
<1> USE DEF Begins
<1>r. j.min \in Int /\ j.max \in Int /\ j.goal \in Int
  BY Fields
<1>0. ASSUME NEW b \in Whole
      PROVE  /\ Begins([j EXCEPT !.bias = b]) /\ [j EXCEPT !.bias = b].pushed = 0
             /\ [j EXCEPT !.bias = b].kind = j.kind /\ [j EXCEPT !.bias = b].n = j.n
             /\ [j EXCEPT !.bias = b].bias = b /\ [j EXCEPT !.bias = b].acc = j.acc
  <2>1. [j EXCEPT !.bias = b] \in Joint
    BY JointTyped, Zenon
  <2> QED BY <2>1 DEF Joint
<1>1. ASSUME j.kind = "rotaryLimit" PROVE Prepared(RotaryLimitPreStep(j, x), j)
  <2> DEFINE pdist == IF x > j.max THEN j.max - x ELSE IF x < j.min THEN j.min - x ELSE 0
             b == Bias(-pdist)
             i == [j EXCEPT !.bias = b]
  <2>1. pdist \in Int
    BY <1>r
  <2> HIDE DEF pdist
  <2>2. b \in Whole
    BY <2>1, Signs DEF Whole
  <2> HIDE DEF b
  <2>3. Begins(i) /\ i.pushed = 0 /\ i.kind = "rotaryLimit"
    BY <1>0, <1>1, <2>2
  <2> HIDE DEF i
  <2>4. Prepared(Unbiased(i), i)
    BY <2>3, UnbiasedIs
  <2>5. Prepared(Unbiased(i), j)
    BY <1>1, <2>3, <2>4 DEF Prepared
  <2> QED BY <2>5 DEF RotaryLimitPreStep, i, b, pdist
<1>2. ASSUME j.kind = "ratchet" PROVE Prepared(RatchetPreStep(j, x), j)
  <2> DEFINE diff == j.angle - x
             r == j.n * Tooth
             a == ((j.n * (x - j.goal)) \div Tooth) * r + j.goal
  <2>1. j.n \in Int /\ j.angle \in Int /\ j.n # 0
    BY <1>2, Fields
  <2> DEFINE y == j.n * (x - j.goal)
  <2>2. diff \in Int /\ y \in Int /\ r \in Int
    BY <1>r, <2>1 DEF Tooth
  <2> HIDE DEF y
  <2>3. (y \div Tooth) \in Int
    BY <2>2 DEF Tooth
  <2>4. Bias(-diff) \in Whole /\ a \in Whole /\ 0 \in Whole
    <3>1. (y \div Tooth) * r + j.goal \in Whole
      BY <1>r, <2>2, <2>3 DEF Whole
    <3> QED BY <2>2, <3>1, Signs DEF Whole, y
  <2> HIDE DEF diff, a, r
  <2>5. ASSUME NEW i, Begins(i), i.pushed = 0, i.kind = "ratchet", i.n # 0
        PROVE  Prepared(Unbiased(i), j)
    BY <1>2, <2>5, UnbiasedIs DEF Prepared
  <2>6. Prepared(Unbiased([j EXCEPT !.bias = Bias(-diff)]), j)
    BY <1>0, <1>2, <2>1, <2>4, <2>5
  <2>7. Prepared(Unbiased([j EXCEPT !.bias = 0, !.angle = a]), j)
    <3> DEFINE i == [j EXCEPT !.bias = 0, !.angle = a]
    <3>1. i \in Joint
      BY <2>4, JointTyped, Zenon
    <3>2. Begins(i) /\ i.pushed = 0 /\ i.kind = "ratchet" /\ i.n # 0
      BY <1>2, <2>1, <3>1 DEF Joint
    <3> HIDE DEF i
    <3>3. Prepared(Unbiased(i), j)
      BY <2>5, <3>2
    <3> QED BY <3>3 DEF i
  <2> QED BY <2>6, <2>7 DEF RatchetPreStep, diff, a, r
<1>3. ASSUME j.kind = "gear" PROVE Prepared(GearPreStep(j, x), j)
  <2>1. Bias(j.goal - x) \in Whole
    BY <1>r, Signs DEF Whole
  <2> QED BY <1>0, <1>3, <2>1 DEF GearPreStep, Prepared, Summed, Directed, Spring
<1>4. ASSUME j.kind = "motor" PROVE Prepared(MotorPreStep(j, x), j)
  BY <1>4 DEF MotorPreStep, Prepared, Summed, Directed, Spring
<1>5. ASSUME j.kind = "dampedRotarySpring" PROVE Prepared(DampedRotarySpringPreStep(j, x), j)
  <2> DEFINE f == (x - j.goal) * j.dt
             q == One * f
             i == [j EXCEPT !.target = 0, !.acc = f]
             k == [i EXCEPT !.pushed = @ + q]
  <2>0. f \in Int
    <3>1. PICK g \in Int, d \in Int : g = x - j.goal /\ d = j.dt
      BY <1>r, Fields
    <3>2. g * d \in Int
      OBVIOUS
    <3> QED BY <3>1, <3>2
  <2> HIDE DEF f
  <2>1. f \in Whole /\ 0 \in Whole /\ q \in Int
    BY <2>0 DEF Whole, One
  <2> HIDE DEF q
  <2>2. i \in Joint
    BY <2>1, JointTyped, Zenon
  <2>3. i.kind = "dampedRotarySpring" /\ i.phase = "cached" /\ ~i.set /\ i.warm = 0 /\ i.pushed = 0
    BY <1>5 DEF Joint
  <2> HIDE DEF i
  <2>4. i.pushed + q \in Whole
    BY <2>1, <2>3 DEF Whole
  <2>5. k \in Joint
    BY <2>2, <2>4, JointTyped, Zenon
  <2>6. k.kind = "dampedRotarySpring" /\ k.phase = "cached" /\ ~k.set /\ k.warm = 0
    BY <2>2, <2>3 DEF Joint
  <2> HIDE DEF k
  <2>7. Prepared(k, j)
    BY <1>5, <2>5, <2>6 DEF Prepared, Summed, Directed, Spring
  <2> QED BY <2>7 DEF DampedRotarySpringPreStep, Push, k, i, q, f
<1> QED BY <1>1, <1>2, <1>3, <1>4, <1>5

LEMMA DtCoefIs ==
  ASSUME NEW dt \in Dt, NEW prev \in Dt \cup {0}
  PROVE  DtCoef(dt, prev) \in Int
<1>1. PICK d \in Int, p \in Nat : d = One * dt /\ p = prev
  BY JointAssumption DEF One
<1>2. p # 0 => (d \div p) \in Int
  OBVIOUS
<1> QED BY <1>1, <1>2 DEF DtCoef

LEMMA PreStepHolds ==
  ASSUME JointInv, NEW x \in Int, NEW dt \in Dt, NEW prev \in Dt \cup {0}, PreStep(x, dt, prev)
  PROVE  JointInv'
<1> DEFINE f == DtCoef(dt, prev)
           c == (x = 0)
           j == [jnt EXCEPT !.pushed = 0, !.phase = "cached", !.set = FALSE, !.coincide = c,
                            !.dt = dt, !.coef = f, !.warm = 0]
<1>0. f \in Whole /\ dt \in Natural /\ 0 \in Whole /\ c \in BOOLEAN
  BY DtCoefIs, JointAssumption DEF Whole, Natural
<1>4. jnt' = CASE j.kind = "pin" -> PinPreStep(j, x)
               [] j.kind = "slide" -> SlidePreStep(j, x)
               [] j.kind = "pivot" -> PivotPreStep(j, x)
               [] j.kind = "groove" -> GroovePreStep(j, x)
               [] j.kind = "rotaryLimit" -> RotaryLimitPreStep(j, x)
               [] j.kind = "ratchet" -> RatchetPreStep(j, x)
               [] j.kind = "gear" -> GearPreStep(j, x)
               [] j.kind = "motor" -> MotorPreStep(j, x)
               [] j.kind = "dampedSpring" -> DampedSpringPreStep(j, x)
               [] j.kind = "dampedRotarySpring" -> DampedRotarySpringPreStep(j, x)
  BY DEF PreStep
<1>c. c <=> x = 0
  OBVIOUS
<1> HIDE DEF f, c
<1>1. j \in Joint
  <2>1. \A i \in Joint, p \in Whole, b \in BOOLEAN :
          [i EXCEPT !.pushed = p, !.phase = "cached", !.set = FALSE, !.coincide = b] \in Joint
    BY DEF Joint
  <2>2. \A i \in Joint, d \in Natural, e \in Whole, w \in Whole :
          [i EXCEPT !.dt = d, !.coef = e, !.warm = w] \in Joint
    BY DEF Joint
  <2> DEFINE i == [jnt EXCEPT !.pushed = 0, !.phase = "cached", !.set = FALSE, !.coincide = c]
  <2>3. j = [i EXCEPT !.dt = dt, !.coef = f, !.warm = 0]
    OBVIOUS
  <2>4. i \in Joint
    BY <1>0, <2>1, Zenon DEF JointInv
  <2> HIDE DEF i, j
  <2> QED BY <1>0, <2>2, <2>3, <2>4, Zenon
<1>2. /\ j.kind = jnt.kind /\ j.kind \in Kinds /\ j.pushed = 0 /\ j.phase = "cached" /\ ~j.set
      /\ j.warm = 0 /\ (j.coincide <=> x = 0)
      /\ j.n = jnt.n
  BY <1>c DEF JointInv, Joint
<1>3. j.kind = "ratchet" => j.n # 0
  BY <1>2 DEF JointInv, Directed
<1> HIDE DEF j
<1>5. Begins(j)
  BY <1>1, <1>2 DEF Begins
<1>6. Prepared(jnt', j)
  BY <1>2, <1>3, <1>4, <1>5, LinearPreStep, AngularPreStep DEF Kinds, Spring
<1> QED BY <1>6 DEF Prepared, Begins, JointInv, Solvedly

-----------------------------------------------------------------------------
(* applyImpulse() *)

\* A joint in an iteration, and the joint after it.
Ready(j) ==
  /\ j \in Joint /\ ~j.set /\ Directed(j)
  /\ j.kind \in Spring => j.warm = 0
  /\ j.kind # "dampedRotarySpring" => j.pushed = Along(j) * Owed(j)
Pushed(k, j) ==
  /\ Ready(k)
  /\ k.kind \in Spring \/ LostOf(k) \/ Within(k)
  /\ k.phase = j.phase /\ k.left = j.left

LEMMA SolvedIs ==
  ASSUME NEW j, Ready(j), j.kind \notin Spring, NEW imp \in Int, NEW l \in Int, NEW u \in Int, l <= u,
         NEW k, k = Solved(j, imp, l, u)
  PROVE  /\ k \in Joint /\ l <= k.acc /\ k.acc <= u /\ k.pushed = Along(k) * Owed(k)
         /\ k.warm = j.warm /\ Most(k) = Most(j)
         /\ k.kind = j.kind /\ k.n = j.n /\ k.bias = j.bias /\ k.maxForce = j.maxForce
         /\ k.phase = j.phase /\ k.left = j.left /\ k.coincide = j.coincide /\ ~k.set
<1> DEFINE acc == Clamped(j.acc + imp, l, u)
           i == [j EXCEPT !.acc = acc]
           s == One * (Along(j) * (acc - j.acc))
           e == Along(j) * (One * acc + Unsaid(j))
           m == [i EXCEPT !.pushed = @ + s]
<1>0. /\ j \in Joint /\ j.acc \in Int /\ j.pushed \in Int /\ Along(j) \in {-1, 0, 1} /\ ~j.set
      /\ j.pushed = Along(j) * (One * j.acc + Unsaid(j)) /\ Unsaid(j) \in Int
  BY Fields, OwedIs DEF Ready, Along, Spring, Owed
<1>1. acc \in Whole /\ l <= acc /\ acc <= u
  BY <1>0 DEF Clamped, Whole
<1>2. acc \in Int
  BY <1>1 DEF Whole
<1> HIDE DEF acc
<1>3. j.pushed + s = e /\ j.pushed + s \in Whole
  <2>1. PICK d \in Int : d = Unsaid(j)
    BY <1>0
  <2>2. CASE Along(j) = -1
    BY <1>0, <1>2, <2>1, <2>2 DEF Whole, One
  <2>3. CASE Along(j) = 0
    BY <1>0, <1>2, <2>1, <2>3 DEF Whole, One
  <2>4. CASE Along(j) = 1
    BY <1>0, <1>2, <2>1, <2>4 DEF Whole, One
  <2> QED BY <1>0, <2>2, <2>3, <2>4
<1> HIDE DEF s, e
<1>4. /\ i \in Joint /\ i.pushed = j.pushed /\ i.acc = acc /\ i.kind = j.kind /\ i.n = j.n
      /\ i.bias = j.bias /\ i.maxForce = j.maxForce /\ i.phase = j.phase /\ i.left = j.left
      /\ i.coincide = j.coincide /\ ~i.set
      /\ i.dt = j.dt /\ i.coef = j.coef /\ i.warm = j.warm
  <2>1. i \in Joint
    BY <1>0, <1>1, JointTyped, Zenon
  <2> QED BY <2>1, <1>0 DEF Joint
<1> HIDE DEF i
<1>5. m \in Joint
  <2>1. i.pushed + s \in Whole
    BY <1>3, <1>4
  <2> QED BY <1>4, <2>1, JointTyped, Zenon
<1>6. /\ m.pushed = j.pushed + s /\ m.acc = acc /\ m.kind = j.kind /\ m.n = j.n
      /\ m.bias = j.bias /\ m.maxForce = j.maxForce /\ m.phase = j.phase /\ m.left = j.left
      /\ m.coincide = j.coincide /\ ~m.set
      /\ m.dt = j.dt /\ m.coef = j.coef /\ m.warm = j.warm
  BY <1>4 DEF Joint
<1>7. k = m
  BY DEF Solved, Push, m, i, s, acc
<1> HIDE DEF m
<1>8. Along(m) = Along(j) /\ Most(m) = Most(j) /\ Owed(m) = One * acc + Unsaid(j)
  BY <1>6 DEF Along, Most, Owed, Unsaid
<1>9. m.pushed = Along(m) * Owed(m)
  BY <1>3, <1>6, <1>8 DEF e
<1> QED BY <1>1, <1>5, <1>6, <1>7, <1>8, <1>9

\* What stays of an iteration that clamps to the limits of the kind.
LEMMA SolvedPushed ==
  ASSUME NEW j, Ready(j), j.kind \notin Spring, NEW imp \in Int, NEW l \in Int, NEW u \in Int, l <= u,
         -Most(j) <= l, u <= Most(j),
         j.kind \in {"rotaryLimit", "ratchet"} => j.bias # 0,
         j.kind = "slide" => j.n # 0 /\ u <= 0,
         j.kind = "rotaryLimit" => (j.bias < 0 => l >= 0) /\ (j.bias > 0 => u <= 0),
         j.kind = "ratchet" => (j.n = 1 /\ l >= 0) \/ (j.n = -1 /\ u <= 0),
         j.kind = "groove" => (j.n = 0 /\ l = 0 /\ u = 0) \/ (j.n = 1 /\ l >= 0) \/ (j.n = -1 /\ u <= 0)
  PROVE  Pushed(Solved(j, imp, l, u), j)
<1> DEFINE k == Solved(j, imp, l, u)
<1>1. /\ k \in Joint /\ l <= k.acc /\ k.acc <= u /\ k.pushed = Along(k) * Owed(k)
      /\ k.warm = j.warm /\ Most(k) = Most(j)
      /\ k.kind = j.kind /\ k.n = j.n /\ k.bias = j.bias /\ k.maxForce = j.maxForce
      /\ k.phase = j.phase /\ k.left = j.left /\ k.coincide = j.coincide /\ ~k.set
  BY SolvedIs
<1> HIDE DEF k
<1>2. k.acc \in Int /\ Most(k) \in Int /\ k.n \in Int /\ k.bias \in Int
  BY <1>1, Fields, MostIs
<1>3. Directed(k) /\ k.kind \notin Spring
  BY <1>1 DEF Directed, Ready
<1>4. Within(k)
  <2>1. -Most(k) <= k.acc /\ k.acc <= Most(k)
    BY <1>1, <1>2
  <2>2. k.kind = "slide" => k.acc <= 0
    BY <1>1, <1>2
  <2>3. k.kind = "rotaryLimit" => (k.bias < 0 => k.acc >= 0) /\ (k.bias > 0 => k.acc <= 0)
    BY <1>1, <1>2
  <2>4. k.kind = "ratchet" => (k.n = 1 /\ k.acc >= 0) \/ (k.n = -1 /\ k.acc <= 0)
    BY <1>1, <1>2
  <2>5. k.kind = "groove" => \/ k.n = 0 /\ k.acc = 0
                             \/ k.n = 1 /\ k.acc >= 0
                             \/ k.n = -1 /\ k.acc <= 0
    BY <1>1, <1>2
  <2> QED BY <2>1, <2>2, <2>3, <2>4, <2>5 DEF Within
<1>5. Pushed(k, j)
  BY <1>1, <1>3, <1>4 DEF Pushed, Ready
<1> QED BY <1>5 DEF k

\* An iteration that does nothing, where there is nothing to do.
LEMMA UnmovedPushed ==
  ASSUME NEW j, Ready(j),
         \/ j.kind = "slide" /\ j.n = 0
         \/ j.kind \in {"rotaryLimit", "ratchet"} /\ j.bias = 0
  PROVE  Pushed(j, j)
<1>1. /\ j.acc \in Int /\ j.bias \in Int /\ Most(j) \in Int /\ Most(j) >= 0
      /\ j.n \in {-1, 0, 1}
  BY Fields, MostIs DEF Ready
<1>2. LostOf(j) \/ j.acc = 0
  BY DEF LostOf, Ready, Directed
<1>3. j.kind = "ratchet" => j.n # 0
  BY DEF Ready, Directed
<1>4. j.acc = 0 => Within(j)
  BY <1>1, <1>3 DEF Within
<1> QED BY <1>2, <1>4 DEF Pushed

LEMMA LinearApply ==
  ASSUME NEW j, Ready(j), NEW v \in Int
  PROVE  /\ j.kind = "pin" => Pushed(PinApplyImpulse(j, v), j)
         /\ j.kind = "slide" => Pushed(SlideApplyImpulse(j, v), j)
         /\ j.kind = "pivot" => Pushed(PivotApplyImpulse(j, v), j)
         /\ j.kind = "groove" => Pushed(GrooveApplyImpulse(j, v), j)
<1>0. /\ j \in Joint /\ Most(j) \in Int /\ Most(j) >= 0 /\ j.bias \in Int /\ j.n \in Int
      /\ j.n \in {-1, 0, 1} /\ j.n * v \in Int
  BY Fields, MostIs DEF Ready
<1>1. ASSUME j.kind = "pin" PROVE Pushed(PinApplyImpulse(j, v), j)
  <2> DEFINE imp == j.bias - j.n * v
  <2>1. imp \in Int
    BY <1>0
  <2> HIDE DEF imp
  <2>2. Pushed(Solved(j, imp, -Most(j), Most(j)), j)
    BY <1>0, <1>1, <2>1, SolvedPushed DEF Spring
  <2> QED BY <2>2 DEF PinApplyImpulse, Solved2, imp
<1>2. ASSUME j.kind = "slide" PROVE Pushed(SlideApplyImpulse(j, v), j)
  <2>1. CASE j.n = 0
    BY <1>2, <2>1, UnmovedPushed DEF SlideApplyImpulse
  <2>2. CASE j.n # 0
    BY <1>0, <1>2, <2>2, SolvedPushed DEF SlideApplyImpulse, Spring
  <2> QED BY <2>1, <2>2
<1>3. ASSUME j.kind = "pivot" PROVE Pushed(PivotApplyImpulse(j, v), j)
  BY <1>0, <1>3, SolvedPushed DEF PivotApplyImpulse, Solved2, Spring
<1>4. ASSUME j.kind = "groove" PROVE Pushed(GrooveApplyImpulse(j, v), j)
  <2> DEFINE l == IF j.n = -1 THEN -Most(j) ELSE 0
             u == IF j.n = 1 THEN Most(j) ELSE 0
  <2>1. /\ l \in Int /\ u \in Int /\ l <= u /\ -Most(j) <= l /\ u <= Most(j)
        /\ (j.n = 0 /\ l = 0 /\ u = 0) \/ (j.n = 1 /\ l >= 0) \/ (j.n = -1 /\ u <= 0)
    BY <1>0
  <2> HIDE DEF l, u
  <2>2. Pushed(Solved(j, j.bias - v, l, u), j)
    BY <1>0, <1>4, <2>1, SolvedPushed DEF Spring
  <2> QED BY <2>2 DEF GrooveApplyImpulse, l, u
<1> QED BY <1>1, <1>2, <1>3, <1>4

LEMMA AngularApply ==
  ASSUME NEW j, Ready(j), NEW v \in Int
  PROVE  /\ j.kind = "rotaryLimit" => Pushed(RotaryLimitApplyImpulse(j, v), j)
         /\ j.kind = "ratchet" => Pushed(RatchetApplyImpulse(j, v), j)
         /\ j.kind = "gear" => Pushed(GearApplyImpulse(j, v), j)
         /\ j.kind = "motor" => Pushed(MotorApplyImpulse(j, v), j)
<1>0. /\ j \in Joint /\ Most(j) \in Int /\ Most(j) >= 0 /\ j.bias \in Int
      /\ j.n \in {-1, 0, 1} /\ -(j.bias + v) \in Int /\ -(v + j.goal) \in Int
  BY Fields, MostIs DEF Ready
<1>1. ASSUME j.kind = "rotaryLimit" PROVE Pushed(RotaryLimitApplyImpulse(j, v), j)
  <2>1. CASE j.bias = 0
    BY <1>1, <2>1, UnmovedPushed DEF RotaryLimitApplyImpulse
  <2>2. CASE j.bias < 0
    BY <1>0, <1>1, <2>2, SolvedPushed DEF RotaryLimitApplyImpulse, Spring
  <2>3. CASE j.bias > 0
    BY <1>0, <1>1, <2>3, SolvedPushed DEF RotaryLimitApplyImpulse, Spring
  <2> QED BY <1>0, <2>1, <2>2, <2>3
<1>2. ASSUME j.kind = "ratchet" PROVE Pushed(RatchetApplyImpulse(j, v), j)
  <2>0. j.n # 0
    BY <1>2 DEF Ready, Directed
  <2>1. CASE j.bias = 0
    BY <1>2, <2>1, UnmovedPushed DEF RatchetApplyImpulse
  <2>2. CASE j.bias # 0 /\ j.n = 1
    BY <1>0, <1>2, <2>2, SolvedPushed DEF RatchetApplyImpulse, Spring
  <2>3. CASE j.bias # 0 /\ j.n = -1
    BY <1>0, <1>2, <2>3, SolvedPushed DEF RatchetApplyImpulse, Spring
  <2> QED BY <1>0, <2>0, <2>1, <2>2, <2>3
<1>3. ASSUME j.kind = "gear" PROVE Pushed(GearApplyImpulse(j, v), j)
  BY <1>0, <1>3, SolvedPushed DEF GearApplyImpulse, Solved2, Spring
<1>4. ASSUME j.kind = "motor" PROVE Pushed(MotorApplyImpulse(j, v), j)
  BY <1>0, <1>4, SolvedPushed DEF MotorApplyImpulse, Solved2, Spring
<1> QED BY <1>1, <1>2, <1>3, <1>4

\* A spring pushes more, and its sum grows by what it pushes along its direction.
LEMMA SpringPushed ==
  ASSUME NEW j, Ready(j), j.kind \in Spring, NEW t \in Int, NEW a \in Int, NEW s \in Int,
         j.kind = "dampedSpring" => s = j.n * a,
         NEW k, k = Push([j EXCEPT !.target = t, !.acc = @ + a], s)
  PROVE  Pushed(k, j)
<1> DEFINE b == j.acc + a
           i == [j EXCEPT !.target = t, !.acc = b]
           q == One * s
           m == [i EXCEPT !.pushed = @ + q]
<1>0. /\ j \in Joint /\ j.acc \in Int /\ j.pushed \in Int /\ j.n \in {-1, 0, 1} /\ ~j.set
      /\ j.warm = 0
      /\ j.kind = "dampedSpring" => j.pushed = j.n * (One * j.acc)
  BY Fields, OwedIs DEF Ready, Along
<1>1. b \in Whole /\ t \in Whole
  BY <1>0 DEF Whole
<1>2. q \in Int /\ (j.kind = "dampedSpring" => j.pushed + q = j.n * (One * b))
  <2>1. CASE j.n = -1
    BY <1>0, <2>1 DEF One
  <2>2. CASE j.n = 0
    BY <1>0, <2>2 DEF One
  <2>3. CASE j.n = 1
    BY <1>0, <2>3 DEF One
  <2> QED BY <1>0, <2>1, <2>2, <2>3
<1> HIDE DEF b, q
<1>3. /\ i \in Joint /\ i.pushed = j.pushed /\ i.acc = b /\ i.kind = j.kind /\ i.n = j.n
      /\ i.bias = j.bias /\ i.phase = j.phase /\ i.left = j.left /\ i.coincide = j.coincide /\ ~i.set
      /\ i.warm = 0
  <2>1. i \in Joint
    BY <1>0, <1>1, JointTyped, Zenon
  <2> QED BY <2>1, <1>0 DEF Joint
<1> HIDE DEF i
<1>4. m \in Joint
  <2>1. i.pushed + q \in Whole
    BY <1>0, <1>2, <1>3 DEF Whole
  <2> QED BY <1>3, <2>1, JointTyped, Zenon
<1>5. /\ m.pushed = j.pushed + q /\ m.warm = 0 /\ m.acc = b /\ m.kind = j.kind /\ m.n = j.n
      /\ m.bias = j.bias /\ m.phase = j.phase /\ m.left = j.left /\ m.coincide = j.coincide /\ ~m.set
  BY <1>3 DEF Joint
<1>6. k = m
  BY DEF Push, m, i, q, b
<1> HIDE DEF m
<1>7. Directed(m)
  BY <1>5 DEF Directed, Ready, Spring
<1>8. m.kind = "dampedSpring" => m.pushed = Along(m) * Owed(m)
  <2>1. Owed(m) = One * m.acc
    BY <1>4, <1>5, OwedIs
  <2> QED BY <1>2, <1>5, <2>1 DEF Along
<1> QED BY <1>4, <1>5, <1>6, <1>7, <1>8 DEF Pushed, Ready, Spring

LEMMA SpringApply ==
  ASSUME NEW j, Ready(j), NEW v \in Int
  PROVE  /\ j.kind = "dampedSpring" => Pushed(DampedSpringApplyImpulse(j, v), j)
         /\ j.kind = "dampedRotarySpring" => Pushed(DampedRotarySpringApplyImpulse(j, v), j)
<1>0. j.n \in Int /\ j.n \in {-1, 0, 1} /\ j.target \in Int
  BY Fields DEF Ready
<1>1. j.n * v \in Int
  BY <1>0
<1>2. ASSUME j.kind = "dampedSpring" PROVE Pushed(DampedSpringApplyImpulse(j, v), j)
  <2> DEFINE damp == j.target - j.n * v
             t == j.n * v + damp
             s == j.n * damp
  <2>1. damp \in Int /\ t \in Int /\ s \in Int
    BY <1>0, <1>1
  <2>2. DampedSpringApplyImpulse(j, v) = Push([j EXCEPT !.target = t, !.acc = @ + damp], s)
    BY DEF DampedSpringApplyImpulse
  <2>3. j.kind \in Spring
    BY <1>2 DEF Spring
  <2>4. s = j.n * damp
    OBVIOUS
  <2> HIDE DEF damp, t, s
  <2> QED BY <2>1, <2>2, <2>3, <2>4, SpringPushed, Zenon
<1>3. ASSUME j.kind = "dampedRotarySpring" PROVE Pushed(DampedRotarySpringApplyImpulse(j, v), j)
  <2> DEFINE damp == j.target + v
             t == damp - v
             s == -damp
  <2>1. damp \in Int /\ t \in Int /\ s \in Int
    BY <1>0
  <2>2. DampedRotarySpringApplyImpulse(j, v) = Push([j EXCEPT !.target = t, !.acc = @ + damp], s)
    BY DEF DampedRotarySpringApplyImpulse
  <2>3. j.kind \in Spring
    BY <1>3 DEF Spring
  <2> HIDE DEF damp, t, s
  <2>4. j.kind # "dampedSpring"
    BY <1>3
  <2> QED BY <2>1, <2>2, <2>3, <2>4, SpringPushed, Zenon
<1> QED BY <1>2, <1>3

LEMMA ApplyImpulseHolds ==
  ASSUME JointInv, NEW v \in Int, ApplyImpulse(v)
  PROVE  JointInv'
<1> DEFINE p == IF jnt.left = 1 THEN "user" ELSE jnt.phase
           l == jnt.left - 1
           j == [jnt EXCEPT !.left = l, !.phase = p]
<1>0. jnt \in Joint /\ jnt.phase = "solve" /\ jnt.left \in Int /\ jnt.left >= 1
  BY Fields DEF JointInv, ApplyImpulse
<1>1. l \in Whole /\ p \in {"user", "cached", "solve"} /\ (p = "user" \/ (p = "solve" /\ l >= 1))
  BY <1>0 DEF Whole
<1>2. p # "cached"
  BY <1>1
<1>3. j = [jnt EXCEPT !.left = @ - 1, !.phase = IF jnt.left = 1 THEN "user" ELSE @]
  BY <1>0 DEF Joint
<1> HIDE DEF l, p
<1>4. j \in Joint
  BY <1>0, <1>1 DEF Joint
<1>5. /\ j.kind = jnt.kind /\ j.kind \in Kinds /\ j.pushed = jnt.pushed /\ j.acc = jnt.acc
      /\ j.n = jnt.n /\ j.bias = jnt.bias /\ j.coincide = jnt.coincide /\ j.set = jnt.set
      /\ j.phase = p /\ j.left = l /\ j.coef = jnt.coef /\ j.warm = jnt.warm
  BY <1>0 DEF Joint
<1>6. jnt' = CASE j.kind = "pin" -> PinApplyImpulse(j, v)
               [] j.kind = "slide" -> SlideApplyImpulse(j, v)
               [] j.kind = "pivot" -> PivotApplyImpulse(j, v)
               [] j.kind = "groove" -> GrooveApplyImpulse(j, v)
               [] j.kind = "rotaryLimit" -> RotaryLimitApplyImpulse(j, v)
               [] j.kind = "ratchet" -> RatchetApplyImpulse(j, v)
               [] j.kind = "gear" -> GearApplyImpulse(j, v)
               [] j.kind = "motor" -> MotorApplyImpulse(j, v)
               [] j.kind = "dampedSpring" -> DampedSpringApplyImpulse(j, v)
               [] j.kind = "dampedRotarySpring" -> DampedRotarySpringApplyImpulse(j, v)
  BY <1>3 DEF ApplyImpulse
<1> HIDE DEF j
<1>7. Ready(j)
  <2>1. Directed(j)
    BY <1>5 DEF Directed, JointInv
  <2>2. Along(j) = Along(jnt) /\ Owed(j) = Owed(jnt)
    BY <1>5 DEF Along, Owed, Unsaid
  <2>3. /\ j.kind \in Spring => j.warm = 0
        /\ j.kind # "dampedRotarySpring" => j.pushed = Along(j) * Owed(j)
    BY <1>0, <1>5, <2>2 DEF Summed, JointInv
  <2>4. ~j.set
    BY <1>0, <1>5 DEF JointInv
  <2> QED BY <1>4, <2>1, <2>3, <2>4 DEF Ready
<1>8. Pushed(jnt', j)
  BY <1>5, <1>6, <1>7, LinearApply, AngularApply, SpringApply DEF Kinds, Spring
<1>9. jnt' \in Joint /\ Summed(jnt') /\ Directed(jnt') /\ Solvedly(jnt')
  BY <1>1, <1>2, <1>5, <1>8 DEF Pushed, Ready, Summed, Solvedly
<1> QED BY <1>1, <1>5, <1>8, <1>9 DEF Pushed, Ready, JointInv

LEMMA ApplyCachedImpulseHolds ==
  ASSUME JointInv, ApplyCachedImpulse
  PROVE  JointInv'
<1> DEFINE c == ApplyCached(jnt)
           k == [c EXCEPT !.phase = "solve", !.left = Iterations]
<1>0. /\ jnt \in Joint /\ jnt.phase = "cached" /\ ~jnt.set
      /\ jnt.acc \in Int /\ jnt.pushed \in Int /\ jnt.n \in {-1, 0, 1} /\ Along(jnt) \in {-1, 0, 1}
      /\ jnt.coef \in Int
  BY Fields DEF JointInv, ApplyCachedImpulse, Along
<1>1. c \in Joint /\ (c.kind \in Spring => c.warm = 0)
      /\ (c.kind # "dampedRotarySpring" => c.pushed = Along(jnt) * Owed(c))
      /\ (c.acc = 0 => c.warm = 0 \/ c.warm = jnt.warm)
      /\ c.acc = jnt.acc /\ c.kind = jnt.kind /\ c.n = jnt.n /\ c.bias = jnt.bias
      /\ c.coincide = jnt.coincide /\ c.set = jnt.set
  <2>1. CASE jnt.kind \in Spring
    BY <1>0, <2>1 DEF ApplyCached, JointInv, Summed
  <2>2. CASE jnt.kind \notin Spring
    <3> DEFINE e == jnt.coef * jnt.acc
               q == jnt.pushed + Along(jnt) * e
               a == jnt.acc
    <3>1. e \in Int /\ jnt.pushed = 0
      <4>1. PICK f \in Int, w \in Int : f = jnt.coef /\ w = jnt.acc
        BY <1>0
      <4>2. f * w \in Int
        OBVIOUS
      <4> QED BY <1>0, <2>2, <4>1, <4>2 DEF JointInv, Summed
    <3>2. c = [jnt EXCEPT !.warm = a, !.pushed = q]
      BY <1>0, <2>2 DEF ApplyCached, Joint
    <3>3. e = One * jnt.acc + (jnt.coef - One) * jnt.acc
      <4>1. PICK f \in Int, w \in Int : f = jnt.coef /\ w = jnt.acc
        BY <1>0
      <4>2. f * w = One * w + (f - One) * w
        BY DEF One
      <4> QED BY <4>1, <4>2
    <3> HIDE DEF e
    <3>4. q \in Whole /\ q = Along(jnt) * e /\ a \in Whole
      BY <1>0, <3>1 DEF Whole
    <3> HIDE DEF q, a
    <3> HIDE DEF c
    <3>5. c \in Joint
      BY <1>0, <3>2, <3>4, JointTyped, Zenon
    <3>6. c.pushed = q /\ c.warm = a /\ c.coef = jnt.coef /\ c.acc = jnt.acc /\ c.kind = jnt.kind
          /\ c.n = jnt.n /\ c.bias = jnt.bias /\ c.coincide = jnt.coincide /\ c.set = jnt.set
      BY <1>0, <3>2 DEF Joint
    <3>7. Owed(c) = e
      BY <3>3, <3>6 DEF Owed, Unsaid, a
    <3> QED BY <2>2, <3>4, <3>5, <3>6, <3>7 DEF a
  <2> QED BY <2>1, <2>2
<1> HIDE DEF c
<1>2. Iterations \in Whole /\ Iterations >= 1
  BY JointAssumption DEF Whole
<1>3. k \in Joint
  BY <1>1, <1>2 DEF Joint
<1>4. /\ k.pushed = c.pushed /\ k.acc = c.acc /\ k.kind = c.kind /\ k.n = c.n /\ k.bias = c.bias
      /\ k.coincide = c.coincide /\ k.set = c.set /\ k.phase = "solve" /\ k.left = Iterations
      /\ k.warm = c.warm /\ k.coef = c.coef
  BY <1>1 DEF Joint
<1>5. jnt' = k
  BY DEF ApplyCachedImpulse, k, c
<1> HIDE DEF k
<1>6. Summed(k)
  <2>1. Along(k) = Along(jnt) /\ Owed(k) = Owed(c)
    BY <1>1, <1>4 DEF Along, Owed, Unsaid
  <2> QED BY <1>1, <1>4, <2>1 DEF Summed
<1>7. Directed(k)
  BY <1>1, <1>4 DEF Directed, JointInv
<1> QED BY <1>0, <1>1, <1>2, <1>3, <1>4, <1>5, <1>6, <1>7 DEF JointInv, Solvedly

LEMMA SetMaxForceHolds ==
  ASSUME JointInv, NEW m \in MaxForce, SetMaxForce(m)
  PROVE  JointInv'
<1> DEFINE k == [jnt EXCEPT !.maxForce = m, !.set = TRUE]
<1>1. jnt \in Joint /\ jnt.phase = "user" /\ m \in Natural /\ jnt' = k
  BY JointAssumption DEF JointInv, SetMaxForce, Natural
<1>2. k \in Joint
  BY <1>1 DEF Joint
<1>3. /\ k.pushed = jnt.pushed /\ k.acc = jnt.acc /\ k.kind = jnt.kind /\ k.n = jnt.n
      /\ k.bias = jnt.bias /\ k.coincide = jnt.coincide /\ k.set /\ k.phase = "user"
      /\ k.coef = jnt.coef /\ k.warm = jnt.warm
  BY <1>1 DEF Joint
<1> HIDE DEF k
<1>4. Summed(k) /\ Directed(k)
  BY <1>1, <1>3 DEF JointInv, Summed, Directed, Along, Owed, Unsaid
<1>5. Within(jnt) => Within(k)
  BY <1>3 DEF Within
<1>6. Solvedly(k)
  BY <1>1, <1>3, <1>5 DEF JointInv, Solvedly, LostOf
<1> QED BY <1>1, <1>2, <1>3, <1>4, <1>6 DEF JointInv

LEMMA SetRatchetHolds ==
  ASSUME JointInv, SetRatchet
  PROVE  JointInv'
<1> DEFINE n == -jnt.n
           k == [jnt EXCEPT !.n = n, !.set = TRUE]
<1>0. jnt \in Joint /\ jnt.phase = "user" /\ jnt.kind = "ratchet" /\ jnt' = k
  BY DEF JointInv, SetRatchet, Joint
<1>1. n \in Sided /\ n # 0
  <2>1. jnt.n \in {-1, 0, 1} /\ jnt.n # 0
    BY <1>0, Fields DEF JointInv, Directed
  <2> QED BY <2>1 DEF Sided
<1> HIDE DEF n
<1>2. k \in Joint
  BY <1>0, <1>1 DEF Joint
<1>3. /\ k.pushed = jnt.pushed /\ k.acc = jnt.acc /\ k.kind = "ratchet" /\ k.n = n
      /\ k.bias = jnt.bias /\ k.set /\ k.phase = "user"
      /\ k.coef = jnt.coef /\ k.warm = jnt.warm
  BY <1>0 DEF Joint
<1> HIDE DEF k
<1>4. Summed(k) /\ Directed(k)
  BY <1>0, <1>1, <1>3 DEF JointInv, Summed, Directed, Along, Owed, Unsaid
<1>5. Solvedly(k)
  BY <1>3 DEF Solvedly, Within
<1> QED BY <1>0, <1>2, <1>3, <1>4, <1>5 DEF JointInv

\* What a constructor or a setter gives a joint leaves what it pushed alone.
Alike(k, j) ==
  /\ k \in Joint
  /\ k.kind = j.kind /\ k.acc = j.acc /\ k.bias = j.bias /\ k.n = j.n /\ k.maxForce = j.maxForce
  /\ k.dt = j.dt /\ k.coef = j.coef /\ k.warm = j.warm
  /\ k.pushed = j.pushed /\ k.phase = j.phase /\ k.left = j.left
  /\ k.coincide = j.coincide /\ k.set = j.set

LEMMA ParametersAlike ==
  ASSUME NEW j \in Joint, NEW lu \in Limits, NEW g \in Int, NEW x \in Int
  PROVE  Alike(Parameters(j, lu, g, x), j)
<1>1. lu[1] \in Whole /\ lu[2] \in Whole /\ g \in Whole /\ x \in Whole
  BY JointAssumption DEF Whole
<1>2. \A l \in Whole, u \in Whole : Alike([j EXCEPT !.min = l, !.max = u], j)
  BY DEF Alike, Joint
<1>3. \A a \in Whole : Alike([j EXCEPT !.goal = a], j)
  BY DEF Alike, Joint
<1>4. \A a \in Whole, b \in Whole : Alike([j EXCEPT !.goal = a, !.angle = b], j)
  BY DEF Alike, Joint
<1>5. Alike(PivotSet(j), j)
  BY DEF Alike, PivotSet
<1>6. /\ Alike(PinSet(j, g), j) /\ Alike(GearSet(j, g), j) /\ Alike(MotorSet(j, g), j)
      /\ Alike(DampedSpringSet(j, g), j) /\ Alike(DampedRotarySpringSet(j, g), j)
  BY <1>1, <1>3, Zenon DEF PinSet, GearSet, MotorSet, DampedSpringSet, DampedRotarySpringSet
<1>7. Alike(SlideSet(j, lu[1], lu[2]), j) /\ Alike(RotaryLimitSet(j, lu[1], lu[2]), j)
  BY <1>1, <1>2, Zenon DEF SlideSet, RotaryLimitSet
<1>8. Alike(GrooveSet(j, lu[1], lu[2]), j)
  BY <1>1, <1>2, Zenon DEF GrooveSet
<1>9. Alike(RatchetSet(j, g, x), j)
  BY <1>1, <1>4, Zenon DEF RatchetSet
<1>10. j.kind \in Kinds
  BY DEF Joint
<1> QED BY <1>5, <1>6, <1>7, <1>8, <1>9, <1>10 DEF Parameters, Kinds, Spring

LEMMA AlikeHolds ==
  ASSUME NEW j \in Joint, NEW k, Alike(k, j)
  PROVE  /\ Summed(j) => Summed(k)
         /\ Directed(j) => Directed(k)
         /\ Solvedly(j) => Solvedly(k)
BY DEF Alike, Summed, Along, Owed, Unsaid, Directed, Solvedly, LostOf, Within, Most

LEMMA SetParametersHolds ==
  ASSUME JointInv, NEW lu \in Limits, NEW g \in Goal, NEW x \in Int, SetParameters(lu, g, x)
  PROVE  JointInv'
<1> DEFINE k == Parameters(jnt, lu, g, x)
<1>1. jnt \in Joint /\ g \in Int /\ jnt' = k
  BY JointAssumption DEF JointInv, SetParameters
<1>2. Alike(k, jnt)
  BY <1>1, ParametersAlike
<1> HIDE DEF k
<1>3. Summed(k) /\ Directed(k) /\ Solvedly(k)
  BY <1>1, <1>2, AlikeHolds DEF JointInv
<1> QED BY <1>1, <1>2, <1>3 DEF JointInv, Alike

\* A joint before its constructor gave it its parameters.
Fresh(kind, m) ==
  [kind |-> kind, acc |-> 0, bias |-> 0, n |-> 1, angle |-> 0, target |-> 0, maxForce |-> m,
   min |-> 0, max |-> 0, goal |-> 0,
   dt |-> 0, coef |-> One, warm |-> 0,
   pushed |-> 0, phase |-> "user", left |-> 0, coincide |-> FALSE, set |-> FALSE]

LEMMA FreshHolds ==
  ASSUME NEW kind \in JointKind, NEW m \in MaxForce
  PROVE  /\ Fresh(kind, m) \in Joint
         /\ Summed(Fresh(kind, m)) /\ Directed(Fresh(kind, m)) /\ Solvedly(Fresh(kind, m))
         /\ ~Fresh(kind, m).set /\ Fresh(kind, m).phase = "user"
<1> DEFINE j == Fresh(kind, m)
<1>1. kind \in Kinds /\ m \in Natural /\ 0 \in Whole /\ 1 \in Sided /\ m \in Int /\ m >= 0
      /\ 0 \in Natural /\ One \in Whole
  BY JointAssumption DEF Natural, Whole, Sided, One
<1>2. j \in Joint
  <2>1. \A w \in Whole, s \in Sided, d \in Natural, e \in Whole :
          [kind |-> kind, acc |-> w, bias |-> w, n |-> s, angle |-> w, target |-> w, maxForce |-> m,
           min |-> w, max |-> w, goal |-> w,
           dt |-> d, coef |-> e, warm |-> w,
           pushed |-> w, phase |-> "user", left |-> w, coincide |-> FALSE, set |-> FALSE] \in Joint
    BY <1>1 DEF Joint
  <2> QED BY <1>1, <2>1, Zenon DEF Fresh
<1>3. /\ j.kind = kind /\ j.acc = 0 /\ j.bias = 0 /\ j.n = 1 /\ j.maxForce = m
      /\ j.dt = 0 /\ j.warm = 0 /\ j.pushed = 0 /\ j.phase = "user" /\ ~j.set
  BY DEF Fresh
<1> HIDE DEF j
<1>4. Summed(j) /\ Directed(j)
  <2>1. Owed(j) = 0
    BY <1>2, <1>3, OwedIs DEF One
  <2> QED BY <1>1, <1>3, <2>1 DEF Summed, Directed, Along
<1>5. Within(j)
  <2>1. Most(j) = 0
    BY <1>1, <1>3 DEF Most
  <2> QED BY <1>1, <1>3, <2>1 DEF Within
<1> QED BY <1>2, <1>3, <1>4, <1>5 DEF j, Solvedly

LEMMA JointInitHolds == JointInit => JointInv
<1> SUFFICES ASSUME JointInit PROVE JointInv
  OBVIOUS
<1>1. PICK kind \in JointKind, m \in MaxForce, lu \in Limits, g \in Goal, x \in Inputs :
        jnt = Parameters(Fresh(kind, m), lu, IF kind = "pin" THEN Abs1(x) ELSE g, x)
  BY DEF JointInit, Fresh
<1> DEFINE h == IF kind = "pin" THEN Abs1(x) ELSE g
<1>2. x \in Int /\ h \in Int
  BY JointAssumption DEF Inputs, Abs1
<1> HIDE DEF h
<1>3. Alike(Parameters(Fresh(kind, m), lu, h, x), Fresh(kind, m))
  BY <1>2, FreshHolds, ParametersAlike
<1>4. Alike(jnt, Fresh(kind, m))
  BY <1>1, <1>3 DEF h
<1>5. Summed(jnt) /\ Directed(jnt) /\ Solvedly(jnt)
  BY <1>4, FreshHolds, AlikeHolds
<1> QED BY <1>4, <1>5, FreshHolds DEF JointInv, Alike

LEMMA JointNextHolds == JointInv /\ [JointNext]_jnt => JointInv'
<1> SUFFICES ASSUME JointInv, [JointNext]_jnt PROVE JointInv'
  OBVIOUS
<1>0. \A x \in Inputs : x \in Int
  BY JointAssumption DEF Inputs
<1>1. ASSUME NEW x \in Inputs, NEW dt \in Dt, NEW prev \in Dt \cup {0}, PreStep(x, dt, prev)
      PROVE  JointInv'
  BY <1>0, <1>1, PreStepHolds
<1>2. ASSUME NEW x \in Inputs, ApplyImpulse(x) PROVE JointInv'
  BY <1>0, <1>2, ApplyImpulseHolds
<1>3. CASE ApplyCachedImpulse
  BY <1>3, ApplyCachedImpulseHolds
<1>4. ASSUME NEW m \in MaxForce, SetMaxForce(m) PROVE JointInv'
  BY <1>4, SetMaxForceHolds
<1>5. CASE SetRatchet
  BY <1>5, SetRatchetHolds
<1>6. ASSUME NEW lu \in Limits, NEW g \in Goal, NEW x \in Inputs, SetParameters(lu, g, x)
      PROVE  JointInv'
  BY <1>0, <1>6, SetParametersHolds
<1>7. CASE UNCHANGED jnt
  BY <1>7 DEF JointInv
<1> QED BY <1>1, <1>2, <1>3, <1>4, <1>5, <1>6, <1>7 DEF JointNext

\* The invariant says what the property asks of a joint between two steps.
LEMMA WithinPushed == JointInv => ImpulseIsWhatWasPushed
<1> DEFINE a == jnt.acc
           p == jnt.pushed
           n == jnt.n
           u == Unsaid(jnt)
<1> SUFFICES ASSUME JointInv, jnt.phase = "user", ~Lost, jnt.kind # "dampedRotarySpring"
             PROVE  /\ p = Along(jnt) * (One * a + u)
                    /\ jnt.kind \notin Spring /\ ~jnt.set => Abs1(a) <= Most(jnt)
                    /\ jnt.kind \in {"rotaryLimit", "ratchet"} /\ jnt.bias = 0 => p = 0
                    /\ jnt.kind = "slide" /\ n = 0 => p = 0
                    /\ u = 0 =>
                         /\ Abs1(p) = One * Abs1(GetImpulse(jnt))
                         /\ jnt.kind = "slide" => n * p <= 0
                         /\ jnt.kind = "rotaryLimit" => jnt.bias * p <= 0
                         /\ jnt.kind = "ratchet" /\ ~jnt.set => n * p >= 0
                         /\ jnt.kind = "groove" => n * p >= 0 /\ (n = 0 => p = 0)
  BY DEF ImpulseIsWhatWasPushed
<1>0. /\ a \in Int /\ p \in Int /\ n \in Int /\ n \in {-1, 0, 1} /\ jnt.bias \in Int
      /\ Most(jnt) \in Int /\ jnt.kind \in Kinds /\ u \in Int /\ jnt \in Joint
  BY Fields, MostIs, OwedIs DEF JointInv
<1>1. p = Along(jnt) * (One * a + u) /\ Along(jnt) \in {-1, 0, 1}
  BY <1>0 DEF JointInv, Summed, Along, Owed
<1>2. Directed(jnt) /\ (jnt.kind \in Spring \/ Within(jnt)) /\ ~LostOf(jnt)
  BY DEF JointInv, Solvedly, Lost, LostOf
<1>3. jnt.kind \notin Spring /\ ~jnt.set => Abs1(a) <= Most(jnt)
  BY <1>0, <1>2 DEF Within, Abs1
<1>4. ASSUME jnt.kind \in {"rotaryLimit", "ratchet"}, jnt.bias = 0 PROVE p = 0
  <2>1. a = 0 /\ u = 0
    BY <1>0, <1>2, <1>4, OwedIs DEF Directed
  <2> HIDE DEF a, u
  <2> QED BY <1>1, <2>1 DEF One
<1>5. ASSUME jnt.kind = "slide" PROVE Along(jnt) = n /\ (n = 0 => p = 0)
  <2>1. Along(jnt) = n
    BY <1>5 DEF Along
  <2> HIDE DEF a, u, n, p
  <2> QED BY <1>0, <1>1, <2>1 DEF One
<1>6. ASSUME u = 0
      PROVE  /\ Abs1(p) = One * Abs1(GetImpulse(jnt))
             /\ jnt.kind = "slide" => n * p <= 0
             /\ jnt.kind = "rotaryLimit" => jnt.bias * p <= 0
             /\ jnt.kind = "ratchet" /\ ~jnt.set => n * p >= 0
             /\ jnt.kind = "groove" => n * p >= 0 /\ (n = 0 => p = 0)
  <2>1. p = Along(jnt) * (One * a)
    <3> HIDE DEF a, u, p
    <3> QED BY <1>0, <1>1, <1>6 DEF One
  <2>2. Along(jnt) # 0 \/ a = 0
    BY <1>2 DEF Along, Directed, LostOf
  <2>3. p = One * a \/ p = -(One * a)
    <3> HIDE DEF a, p
    <3>1. CASE Along(jnt) = -1
      BY <1>0, <2>1, <3>1 DEF One
    <3>2. CASE Along(jnt) = 1
      BY <1>0, <2>1, <3>2 DEF One
    <3>3. CASE Along(jnt) = 0
      BY <1>0, <2>1, <2>2, <3>3 DEF One
    <3> QED BY <1>1, <3>1, <3>2, <3>3
  <2>4. Abs1(p) = One * Abs1(GetImpulse(jnt))
    <3>1. GetImpulse(jnt) = a \/ GetImpulse(jnt) = -a
      BY <1>0 DEF GetImpulse, Abs1
    <3> HIDE DEF a, p
    <3> QED BY <1>0, <2>3, <3>1 DEF Abs1, One
  <2>5. ASSUME jnt.kind = "slide" PROVE n * p <= 0
    <3>1. a <= 0 /\ Along(jnt) = n
      BY <1>2, <1>5, <2>5 DEF Within, Spring
    <3> HIDE DEF a, p, n
    <3>2. CASE n = -1
      BY <1>0, <2>1, <3>1, <3>2 DEF One
    <3>3. CASE n = 0
      BY <1>0, <3>3
    <3>4. CASE n = 1
      BY <1>0, <2>1, <3>1, <3>4 DEF One
    <3> QED BY <1>0, <3>2, <3>3, <3>4
  <2>6. ASSUME jnt.kind \in {"rotaryLimit", "ratchet", "groove"} PROVE p = One * a /\ Within(jnt)
    <3>1. Along(jnt) = 1 /\ Within(jnt)
      BY <1>2, <2>6 DEF Along, Spring
    <3> HIDE DEF a, p
    <3> QED BY <1>0, <2>1, <3>1 DEF One
  <2>7. ASSUME jnt.kind = "rotaryLimit" PROVE jnt.bias * p <= 0
    <3>1. (jnt.bias < 0 => p >= 0) /\ (jnt.bias > 0 => p <= 0)
      BY <1>0, <2>6, <2>7 DEF Within, One
    <3>2. CASE jnt.bias < 0
      BY <1>0, <3>1, <3>2
    <3>3. CASE jnt.bias = 0
      BY <1>0, <3>3
    <3>4. CASE jnt.bias > 0
      BY <1>0, <3>1, <3>4
    <3> QED BY <1>0, <3>2, <3>3, <3>4
  <2>8. ASSUME jnt.kind = "ratchet", ~jnt.set PROVE n * p >= 0
    <3>1. (n = 1 /\ p >= 0) \/ (n = -1 /\ p <= 0)
      BY <1>0, <2>6, <2>8 DEF Within, One
    <3> QED BY <1>0, <3>1
  <2>9. ASSUME jnt.kind = "groove" PROVE n * p >= 0 /\ (n = 0 => p = 0)
    <3>1. (n = 0 /\ p = 0) \/ (n = 1 /\ p >= 0) \/ (n = -1 /\ p <= 0)
      BY <1>0, <2>6, <2>9 DEF Within, One
    <3> QED BY <1>0, <3>1
  <2> QED BY <2>4, <2>5, <2>7, <2>8, <2>9
<1> HIDE DEF a, p, n, u
<1> QED BY <1>1, <1>3, <1>4, <1>5, <1>6

\* After every step of the solver, for every maxForce, maxBias, number of iterations,
\* sequence of dt and parameters it is given and whatever else moves the bodies
\* meanwhile, each joint has pushed its two bodies with the sum it keeps, which is
\* within maxForce times dt, and with what the warm start scaled by dt_coef added to
\* it, and nothing else; with an unchanged dt, or nothing to start from, that is the
\* impulse it reports, and it has the sign a limit allows.
THEOREM ImpulsesTrue == JointSpec => []ImpulseIsWhatWasPushed
<1>1. JointSpec => []JointInv
  BY JointInitHolds, JointNextHolds, PTL DEF JointSpec
<1> QED BY <1>1, WithinPushed, PTL

-----------------------------------------------------------------------------
(* Iteration over the bodies *)

Body == Sleeper \cup Ground
Slots == {"unlocked", "dynamic", "static", "components", "destroyed"}
ItrFields == {"at", "destroy", "i", "body", "dynamic", "static", "asleep", "roused",
              "called", "all", "rested", "woke"}

\* t is r but for the fields F.
Same(t, r, F) == DOMAIN r = ItrFields /\ DOMAIN t = ItrFields
                 /\ \A f \in ItrFields \ F : t[f] = r[f]

Chain == Seq(Sleeper)
Once(s) == \A j, k \in DOMAIN s : s[j] = s[k] => j = k

ItrTyped(r) ==
  /\ DOMAIN r = ItrFields
  /\ r.at \in Slots /\ r.destroy \in BOOLEAN /\ r.i \in Nat \ {0}
  /\ r.body \in Sleeper \cup {NOBODY}
  /\ r.dynamic \in Seq(Sleeper) /\ r.static \in Seq(Ground) /\ r.roused \in Seq(Sleeper)
  /\ r.asleep \in Seq(Chain) /\ r.called \in Seq(Body)
  /\ r.rested \subseteq Sleeper /\ r.all \subseteq Body /\ r.woke \in BOOLEAN

\* No body is in two places.
Placing(r) ==
  /\ Once(r.dynamic) /\ Once(r.static) /\ Once(r.roused)
  /\ \A k \in DOMAIN r.asleep : r.asleep[k] # <<>> /\ Once(r.asleep[k])
  /\ \A j, k \in DOMAIN r.asleep :
       j # k => Elements(r.asleep[j]) \cap Elements(r.asleep[k]) = {}
  /\ Elements(r.dynamic) \cap Elements(r.roused) = {}
  /\ (Elements(r.dynamic) \cup Elements(r.roused)) \cap Asleep(r) = {}

\* Nobody who is still to come was called: neither in the components not begun yet nor
\* in the rest of the one that was begun, which may have moved forward or be gone.
Uncalled(r) == \A k \in DOMAIN r.asleep :
  k > r.i \/ (k = r.i /\ r.body = NOBODY) => Elements(r.asleep[k]) \cap Elements(r.called) = {}
Begun(r) ==
  r.body # NOBODY =>
    /\ r.body \notin Elements(r.called)
    /\ \A k \in DOMAIN r.asleep : \A p \in DOMAIN r.asleep[k] :
         r.asleep[k][p] = r.body =>
           k <= r.i /\ \A q \in DOMAIN r.asleep[k] :
                         q >= p => r.asleep[k][q] \notin Elements(r.called)

\* As long as nobody was woken, all who slept sleep, and those passed by were called.
Passed(r) ==
  /\ \A k \in DOMAIN r.asleep : k < r.i => Elements(r.asleep[k]) \subseteq Elements(r.called)
  /\ r.body # NOBODY =>
       /\ r.i \in DOMAIN r.asleep
       /\ \E p \in DOMAIN r.asleep[r.i] :
            /\ r.asleep[r.i][p] = r.body
            /\ \A q \in DOMAIN r.asleep[r.i] : q < p => r.asleep[r.i][q] \in Elements(r.called)

First(s, i) == {s[j] : j \in {k \in DOMAIN s : k < i}}

Walking(r) ==
  /\ r.at = "dynamic" => r.body = NOBODY /\ Elements(r.called) = First(r.dynamic, r.i)
  /\ r.at = "static" => /\ r.body = NOBODY
                        /\ Elements(r.called) = Elements(r.dynamic) \cup First(r.static, r.i)
  /\ r.at = "components" =>
       /\ Elements(r.dynamic) \cup Elements(r.static) \subseteq Elements(r.called)
       /\ Uncalled(r) /\ Begun(r)
       /\ ~r.woke => Passed(r)
  /\ r.at \in {"dynamic", "static", "components"} =>
       /\ r.all \subseteq Elements(r.dynamic) \cup Elements(r.static) \cup r.rested
       /\ ~r.woke => r.rested \subseteq Asleep(r)
  /\ r.at = "unlocked" => r.body = NOBODY /\ r.roused = <<>>

Reached(r) ==
  r.at \in {"unlocked", "destroyed"} =>
    \A b \in r.all : b \in Elements(r.called) \/ (r.woke /\ b \in r.rested)

IterationInv ==
  /\ ItrTyped(itr) /\ Placing(itr) /\ Once(itr.called) /\ Walking(itr) /\ Reached(itr)
(* Lists *)

\* An element less: the last one takes its place.
LEMMA Deleted ==
  ASSUME NEW S, NEW s \in Seq(S), NEW k \in DOMAIN s, NEW d, d = DeleteObj(s, k)
  PROVE  /\ d \in Seq(S) /\ Len(d) = Len(s) - 1 /\ Len(s) \in Nat
         /\ DOMAIN s = 1 .. Len(s) /\ DOMAIN d = 1 .. Len(s) - 1
         /\ \A j \in DOMAIN d : d[j] = IF j = k THEN s[Len(s)] ELSE s[j]
<1> DEFINE n == Len(s)
<1>1. n \in Nat /\ DOMAIN s = 1 .. n /\ \A j \in 1 .. n : s[j] \in S
  OBVIOUS
<1>2. n - 1 \in Nat /\ n \in 1 .. n
  BY <1>1
<1>3. d = [j \in 1 .. n - 1 |-> IF j = k THEN s[n] ELSE s[j]]
  BY DEF DeleteObj
<1> HIDE DEF n
<1>4. \A j \in 1 .. n - 1 : j \in 1 .. n
  BY <1>1
<1>5. d \in [1 .. n - 1 -> S]
  BY <1>1, <1>2, <1>3, <1>4
<1>6. d \in Seq(S) /\ Len(d) = n - 1
  BY <1>2, <1>5
<1> QED BY <1>1, <1>3, <1>6 DEF n

LEMMA DeletedOnce ==
  ASSUME NEW S, NEW s \in Seq(S), Once(s), NEW k \in DOMAIN s, NEW d, d = DeleteObj(s, k)
  PROVE  d \in Seq(S) /\ Once(d) /\ Elements(d) = Elements(s) \ {s[k]}
<1> DEFINE n == Len(s)
<1>1. /\ d \in Seq(S) /\ n \in Nat /\ DOMAIN s = 1 .. n /\ DOMAIN d = 1 .. n - 1
      /\ \A j \in DOMAIN d : d[j] = IF j = k THEN s[n] ELSE s[j]
  BY Deleted
<1> HIDE DEF n
<1>2. n \in DOMAIN s /\ k \in 1 .. n
  BY <1>1
<1>3. \A j \in DOMAIN d : j \in DOMAIN s /\ j # n
  BY <1>1
<1>4. Once(d)
  BY <1>1, <1>2, <1>3 DEF Once
<1>5. ASSUME NEW x \in Elements(d) PROVE x \in Elements(s) \ {s[k]}
  BY <1>1, <1>2, <1>3 DEF Elements, Once
<1>6. ASSUME NEW x \in Elements(s) \ {s[k]} PROVE x \in Elements(d)
  <2>1. PICK m \in DOMAIN s : s[m] = x /\ m # k
    BY DEF Elements
  <2>2. CASE m = n
    <3>1. k \in DOMAIN d
      BY <1>1, <1>2, <2>1, <2>2
    <3> QED BY <1>1, <2>1, <2>2, <3>1 DEF Elements
  <2>3. CASE m # n
    <3>1. m \in DOMAIN d
      BY <1>1, <2>1, <2>3
    <3> QED BY <1>1, <2>1, <3>1 DEF Elements
  <2> QED BY <2>2, <2>3
<1> QED BY <1>1, <1>4, <1>5, <1>6

LEMMA DeletedValue ==
  ASSUME NEW S, NEW s \in Seq(S), Once(s), NEW x \in Elements(s), NEW d, d = Delete(s, x)
  PROVE  d \in Seq(S) /\ Once(d) /\ Elements(d) = Elements(s) \ {x}
<1> DEFINE k == CHOOSE k \in DOMAIN s : s[k] = x
<1>1. k \in DOMAIN s /\ s[k] = x
  BY DEF Elements
<1>2. d = DeleteObj(s, k)
  BY DEF Delete
<1> QED BY <1>1, <1>2, DeletedOnce

\* One list after another.
LEMMA Joined ==
  ASSUME NEW S, NEW s \in Seq(S), NEW t \in Seq(S), Once(s), Once(t),
         Elements(s) \cap Elements(t) = {}
  PROVE  s \o t \in Seq(S) /\ Once(s \o t) /\ Elements(s \o t) = Elements(s) \cup Elements(t)
<1> DEFINE u == s \o t
           m == Len(s)
           n == Len(t)
<1>1. /\ u \in Seq(S) /\ DOMAIN u = 1 .. m + n /\ m \in Nat /\ n \in Nat
      /\ DOMAIN s = 1 .. m /\ DOMAIN t = 1 .. n
      /\ \A i \in 1 .. m + n : u[i] = IF i <= m THEN s[i] ELSE t[i - m]
  BY ConcatProperties
<1> HIDE DEF u, m, n
<1>2. \A i \in DOMAIN s : i \in DOMAIN u /\ u[i] = s[i]
  BY <1>1
<1>3. \A i \in DOMAIN t : i + m \in DOMAIN u /\ u[i + m] = t[i]
  <2> SUFFICES ASSUME NEW i \in DOMAIN t PROVE i + m \in DOMAIN u /\ u[i + m] = t[i]
    OBVIOUS
  <2>1. i + m \in 1 .. m + n /\ ~(i + m <= m) /\ (i + m) - m = i
    BY <1>1
  <2> QED BY <1>1, <2>1
<1>4. \A i \in DOMAIN u : (i \in DOMAIN s /\ i <= m) \/ (i - m \in DOMAIN t /\ ~(i <= m))
  BY <1>1
<1>5. Elements(u) = Elements(s) \cup Elements(t)
  <2>1. \A x \in Elements(u) : x \in Elements(s) \cup Elements(t)
    BY <1>1, <1>4 DEF Elements
  <2>2. \A x \in Elements(s) \cup Elements(t) : x \in Elements(u)
    BY <1>2, <1>3 DEF Elements
  <2> QED BY <2>1, <2>2
<1>6. ASSUME NEW i \in DOMAIN u, NEW j \in DOMAIN u, u[i] = u[j] PROVE i = j
  <2>1. CASE i <= m /\ j <= m
    BY <1>1, <1>6, <2>1 DEF Once
  <2>2. CASE ~(i <= m) /\ ~(j <= m)
    <3>1. i - m = j - m
      BY <1>1, <1>4, <1>6, <2>2 DEF Once
    <3> QED BY <1>1, <3>1
  <2>3. CASE i <= m /\ ~(j <= m)
    <3>1. s[i] \in Elements(s) /\ t[j - m] \in Elements(t) /\ s[i] = t[j - m]
      BY <1>1, <1>4, <1>6, <2>3 DEF Elements
    <3> QED BY <3>1
  <2>4. CASE ~(i <= m) /\ j <= m
    <3>1. t[i - m] \in Elements(t) /\ s[j] \in Elements(s) /\ s[j] = t[i - m]
      BY <1>1, <1>4, <1>6, <2>4 DEF Elements
    <3> QED BY <3>1
  <2> QED BY <2>1, <2>2, <2>3, <2>4
<1>7. Once(u)
  BY <1>6 DEF Once
<1> QED BY <1>1, <1>5, <1>7 DEF u

LEMMA Single ==
  ASSUME NEW S, NEW x \in S
  PROVE  <<x>> \in Seq(S) /\ Once(<<x>>) /\ Elements(<<x>>) = {x}
BY DEF Once, Elements

LEMMA Grown ==
  ASSUME NEW S, NEW s \in Seq(S), Once(s), NEW x \in S, x \notin Elements(s)
  PROVE  /\ Append(s, x) \in Seq(S) /\ Once(Append(s, x))
         /\ Elements(Append(s, x)) = Elements(s) \cup {x}
<1> DEFINE u == Append(s, x)
           n == Len(s)
<1>1. /\ u \in Seq(S) /\ n \in Nat /\ DOMAIN s = 1 .. n /\ DOMAIN u = 1 .. n + 1
      /\ (\A i \in 1 .. n : u[i] = s[i]) /\ u[n + 1] = x
  OBVIOUS
<1> HIDE DEF u, n
<1>2. n + 1 \in DOMAIN u /\ \A i \in DOMAIN u : i \in DOMAIN s \/ i = n + 1
  BY <1>1
<1>3. DOMAIN s \subseteq DOMAIN u
  BY <1>1
<1>4. Elements(u) = Elements(s) \cup {x}
  <2>1. \A y \in Elements(u) : y \in Elements(s) \cup {x}
    BY <1>1, <1>2 DEF Elements
  <2>2. \A y \in Elements(s) \cup {x} : y \in Elements(u)
    BY <1>1, <1>2, <1>3 DEF Elements
  <2> QED BY <2>1, <2>2
<1>5. Once(u)
  BY <1>1, <1>2 DEF Once, Elements
<1> QED BY <1>1, <1>4, <1>5 DEF u
-----------------------------------------------------------------------------
(* Waking *)

\* The components of t are some of r's, none of them further back.
Shrunk(t, r) ==
  \A j \in DOMAIN t.asleep : \E k \in DOMAIN r.asleep : t.asleep[j] = r.asleep[k] /\ j <= k

LEMMA Waking ==
  ASSUME NEW r, ItrTyped(r), Placing(r), NEW k \in DOMAIN r.asleep, NEW t, t = Activated(r, k)
  PROVE  /\ ItrTyped(t) /\ Placing(t) /\ Same(t, r, {"dynamic", "roused", "asleep", "woke"})
         /\ Shrunk(t, r) /\ Asleep(t) = Asleep(r) \ Elements(r.asleep[k])
         /\ r.at = "unlocked" =>
              /\ t.roused = r.roused /\ t.woke = r.woke
              /\ Elements(t.dynamic) = Elements(r.dynamic) \cup Elements(r.asleep[k])
         /\ r.at # "unlocked" => t.dynamic = r.dynamic /\ t.woke
<1> DEFINE chain == r.asleep[k]
           n == Len(r.asleep)
<1>1. /\ DOMAIN r = ItrFields /\ r.asleep \in Seq(Chain) /\ chain \in Chain
      /\ r.dynamic \in Seq(Sleeper) /\ r.roused \in Seq(Sleeper) /\ Once(chain)
      /\ Once(r.dynamic) /\ Once(r.roused) /\ Elements(chain) \subseteq Asleep(r)
  BY DEF ItrTyped, Placing, Asleep, SleepersIn
<1>2. /\ Same(t, r, {"dynamic", "roused", "asleep", "woke"})
      /\ t.asleep = DeleteObj(r.asleep, k)
      /\ t.woke = (r.woke \/ r.at # "unlocked")
      /\ t.dynamic = IF r.at = "unlocked" THEN r.dynamic \o chain ELSE r.dynamic
      /\ t.roused = IF r.at = "unlocked" THEN r.roused ELSE r.roused \o chain
  BY <1>1 DEF Activated, Same, ItrFields
<1>3. /\ t.asleep \in Seq(Chain) /\ n \in Nat /\ DOMAIN r.asleep = 1 .. n
      /\ DOMAIN t.asleep = 1 .. n - 1
      /\ \A j \in DOMAIN t.asleep : t.asleep[j] = IF j = k THEN r.asleep[n] ELSE r.asleep[j]
  <2> DEFINE c == r.asleep
             d == t.asleep
  <2>1. c \in Seq(Chain) /\ k \in DOMAIN c /\ d = DeleteObj(c, k)
    BY <1>1, <1>2
  <2> HIDE DEF c, d
  <2>2. /\ d \in Seq(Chain) /\ Len(c) \in Nat /\ DOMAIN c = 1 .. Len(c)
        /\ DOMAIN d = 1 .. Len(c) - 1
        /\ \A j \in DOMAIN d : d[j] = IF j = k THEN c[Len(c)] ELSE c[j]
    BY <2>1, Deleted
  <2> QED BY <2>2 DEF c, d
<1> HIDE DEF n, chain
<1>4. n \in DOMAIN r.asleep /\ k \in 1 .. n
  BY <1>3
<1>5. ASSUME NEW j \in DOMAIN t.asleep
      PROVE  \E m \in DOMAIN r.asleep : /\ t.asleep[j] = r.asleep[m] /\ j <= m /\ m # k
                                        /\ m = IF j = k THEN n ELSE j
  BY <1>3, <1>4
<1>6. Shrunk(t, r)
  BY <1>5 DEF Shrunk
<1>7. \A j \in DOMAIN t.asleep : Elements(t.asleep[j]) \cap Elements(chain) = {}
  BY <1>5 DEF Placing, chain
<1>8. Asleep(t) = Asleep(r) \ Elements(chain)
  <2>1. ASSUME NEW b \in Asleep(t) PROVE b \in Asleep(r) \ Elements(chain)
    <3>1. PICK j \in DOMAIN t.asleep : b \in Elements(t.asleep[j])
      BY DEF Asleep, SleepersIn
    <3> QED BY <1>5, <1>7, <3>1 DEF Asleep, SleepersIn
  <2>2. ASSUME NEW b \in Asleep(r) \ Elements(chain) PROVE b \in Asleep(t)
    <3>1. PICK m \in DOMAIN r.asleep : b \in Elements(r.asleep[m])
      BY DEF Asleep, SleepersIn
    <3>2. m # k
      BY <3>1 DEF chain
    <3>3. \E j \in DOMAIN t.asleep : t.asleep[j] = r.asleep[m]
      <4>1. CASE m = n
        <5>1. k \in DOMAIN t.asleep
          BY <1>3, <1>4, <3>2, <4>1
        <5> QED BY <1>3, <4>1, <5>1
      <4>2. CASE m # n
        <5>1. m \in DOMAIN t.asleep
          BY <1>3, <4>2
        <5> QED BY <1>3, <3>2, <5>1
      <4> QED BY <4>1, <4>2
    <3> QED BY <3>1, <3>3 DEF Asleep, SleepersIn
  <2> QED BY <2>1, <2>2
<1>9. /\ Elements(chain) \cap Elements(r.dynamic) = {}
      /\ Elements(chain) \cap Elements(r.roused) = {}
      /\ Elements(r.dynamic) \cap Elements(r.roused) = {}
  BY <1>1 DEF Placing
<1>10. /\ t.dynamic \in Seq(Sleeper) /\ t.roused \in Seq(Sleeper)
       /\ Once(t.dynamic) /\ Once(t.roused)
       /\ Elements(t.dynamic) \cap Elements(t.roused) = {}
       /\ Elements(t.dynamic) \cup Elements(t.roused)
            = Elements(r.dynamic) \cup Elements(r.roused) \cup Elements(chain)
       /\ r.at = "unlocked" => Elements(t.dynamic) = Elements(r.dynamic) \cup Elements(chain)
  <2>1. CASE r.at = "unlocked"
    <3>1. /\ t.dynamic \in Seq(Sleeper) /\ Once(t.dynamic)
          /\ Elements(t.dynamic) = Elements(r.dynamic) \cup Elements(chain)
      BY <1>1, <1>2, <1>9, <2>1, Joined DEF Chain
    <3> QED BY <1>1, <1>2, <1>9, <2>1, <3>1
  <2>2. CASE r.at # "unlocked"
    <3>1. /\ t.roused \in Seq(Sleeper) /\ Once(t.roused)
          /\ Elements(t.roused) = Elements(r.roused) \cup Elements(chain)
      BY <1>1, <1>2, <1>9, <2>2, Joined DEF Chain
    <3> QED BY <1>1, <1>2, <1>9, <2>2, <3>1
  <2> QED BY <2>1, <2>2
<1>11. ItrTyped(t)
  BY <1>2, <1>3, <1>10 DEF ItrTyped, Same, ItrFields
<1>12. Placing(t)
  <2>1. t.static = r.static
    BY <1>2 DEF Same, ItrFields
  <2>2. \A j \in DOMAIN t.asleep : t.asleep[j] # <<>> /\ Once(t.asleep[j])
    BY <1>5 DEF Placing
  <2>3. ASSUME NEW i \in DOMAIN t.asleep, NEW j \in DOMAIN t.asleep, i # j
        PROVE  Elements(t.asleep[i]) \cap Elements(t.asleep[j]) = {}
    <3>1. PICK l \in DOMAIN r.asleep : /\ t.asleep[i] = r.asleep[l] /\ l # k
                                       /\ l = IF i = k THEN n ELSE i
      BY <1>5
    <3>2. PICK m \in DOMAIN r.asleep : /\ t.asleep[j] = r.asleep[m] /\ m # k
                                       /\ m = IF j = k THEN n ELSE j
      BY <1>5
    <3>3. i # n /\ j # n
      BY <1>3
    <3>4. l # m
      BY <2>3, <3>1, <3>2, <3>3
    <3> QED BY <3>1, <3>2, <3>4 DEF Placing
  <2>4. (Elements(t.dynamic) \cup Elements(t.roused)) \cap Asleep(t) = {}
    BY <1>8, <1>10 DEF Placing
  <2> QED BY <1>10, <2>1, <2>2, <2>3, <2>4 DEF Placing
<1>13. /\ r.at = "unlocked" => t.roused = r.roused /\ (r.woke \in BOOLEAN => t.woke = r.woke)
       /\ r.at # "unlocked" => t.dynamic = r.dynamic /\ t.woke
  BY <1>2
<1>14. r.woke \in BOOLEAN
  BY DEF ItrTyped
<1> QED BY <1>2, <1>6, <1>8, <1>10, <1>11, <1>12, <1>13, <1>14 DEF chain

LEMMA BodyWaking ==
  ASSUME NEW r, ItrTyped(r), Placing(r), NEW b, NEW t, t = BodyActivated(r, b)
  PROVE  /\ ItrTyped(t) /\ Placing(t) /\ Same(t, r, {"dynamic", "roused", "asleep", "woke"})
         /\ Shrunk(t, r) /\ Asleep(t) \subseteq Asleep(r)
         /\ r.at = "unlocked" =>
              /\ t.roused = r.roused /\ t.woke = r.woke /\ b \notin Asleep(t)
              /\ Elements(t.dynamic) \subseteq Elements(r.dynamic) \cup Asleep(r)
              /\ Elements(r.dynamic) \subseteq Elements(t.dynamic)
              /\ b \in Asleep(r) => b \in Elements(t.dynamic)
         /\ r.at # "unlocked" => t.dynamic = r.dynamic /\ (t.woke \/ t = r)
<1>1. CASE b \in Asleep(r)
  <2> DEFINE k == CHOOSE k \in DOMAIN r.asleep : b \in Elements(r.asleep[k])
  <2>1. k \in DOMAIN r.asleep /\ b \in Elements(r.asleep[k])
    BY <1>1 DEF Asleep, SleepersIn
  <2>2. t = Activated(r, k)
    BY <1>1 DEF BodyActivated
  <2>3. Elements(r.asleep[k]) \subseteq Asleep(r)
    BY <2>1 DEF Asleep, SleepersIn
  <2> HIDE DEF k
  <2>4. /\ ItrTyped(t) /\ Placing(t) /\ Same(t, r, {"dynamic", "roused", "asleep", "woke"})
        /\ Shrunk(t, r) /\ Asleep(t) = Asleep(r) \ Elements(r.asleep[k])
        /\ r.at = "unlocked" =>
             /\ t.roused = r.roused /\ t.woke = r.woke
             /\ Elements(t.dynamic) = Elements(r.dynamic) \cup Elements(r.asleep[k])
        /\ r.at # "unlocked" => t.dynamic = r.dynamic /\ t.woke
    BY <2>1, <2>2, Waking
  <2> QED BY <2>1, <2>3, <2>4
<1>2. CASE b \notin Asleep(r)
  <2>1. t = r
    BY <1>2 DEF BodyActivated
  <2>2. Shrunk(r, r)
    <3>1. DOMAIN r.asleep \subseteq Nat
      BY DEF ItrTyped
    <3> QED BY <3>1 DEF Shrunk
  <2>3. Same(r, r, {"dynamic", "roused", "asleep", "woke"})
    BY DEF Same, ItrTyped
  <2> QED BY <1>2, <2>1, <2>2, <2>3
<1> QED BY <1>1, <1>2
-----------------------------------------------------------------------------
(* Between iterations *)

\* What a step leaves alone.
LEMMA ItrFrame ==
  ASSUME NEW t, NEW r, NEW F, Same(t, r, F), ItrTyped(r), Placing(r),
         {"dynamic", "static", "roused", "asleep"} \cap F = {}
  PROVE  Placing(t) /\ Asleep(t) = Asleep(r)
<1>1. /\ t.dynamic = r.dynamic /\ t.static = r.static /\ t.roused = r.roused
      /\ t.asleep = r.asleep
  BY DEF Same, ItrFields
<1> QED BY <1>1 DEF Placing, Asleep

\* What happened is not undone while the space is not being walked through.
LEMMA StaysReached ==
  ASSUME NEW t, NEW r, ItrTyped(r), Reached(r), r.at = "unlocked", Once(r.called), Walking(r),
         Same(t, r, {"dynamic", "static", "roused", "asleep", "woke"}),
         t.roused = r.roused, t.woke = r.woke
  PROVE  Once(t.called) /\ Walking(t) /\ Reached(t)
<1>1. /\ t.at = "unlocked" /\ t.body = r.body /\ t.called = r.called /\ t.all = r.all
      /\ t.rested = r.rested
  BY DEF Same, ItrFields
<1>2. Walking(t)
  BY <1>1 DEF Walking
<1>3. Reached(t)
  BY <1>1 DEF Reached
<1> QED BY <1>1, <1>2, <1>3

LEMMA InSpaceTyped ==
  ASSUME NEW r, ItrTyped(r)
  PROVE  /\ Elements(r.dynamic) \subseteq Sleeper /\ Elements(r.static) \subseteq Ground
         /\ Asleep(r) \subseteq Sleeper /\ Elements(r.roused) \subseteq Sleeper
         /\ InSpace(r) \subseteq Body
<1>1. Elements(r.dynamic) \subseteq Sleeper /\ Elements(r.roused) \subseteq Sleeper
  BY DEF ItrTyped, Elements
<1>2. Elements(r.static) \subseteq Ground
  BY DEF ItrTyped, Elements
<1>3. Asleep(r) \subseteq Sleeper
  <2> SUFFICES ASSUME NEW k \in DOMAIN r.asleep PROVE Elements(r.asleep[k]) \subseteq Sleeper
    BY DEF Asleep, SleepersIn
  <2>1. r.asleep[k] \in Chain
    BY DEF ItrTyped
  <2> QED BY <2>1 DEF Elements, Chain
<1> QED BY <1>1, <1>2, <1>3 DEF InSpace, Body

LEMMA ArriveKeeps ==
  ASSUME IterationInv, NEW b \in Body, Arrive(b)
  PROVE  IterationInv'
<1> USE IterationAssumption DEF IterationInv
<1>1. itr.at = "unlocked" /\ DOMAIN itr = ItrFields /\ b \notin InSpace(itr)
  BY DEF Arrive, ItrTyped
<1>2. CASE b \in Ground
  <2>1. Same(itr', itr, {"static"}) /\ itr'.static = Append(itr.static, b)
    BY <1>1, <1>2 DEF Arrive, Same, ItrFields
  <2>2. /\ itr'.static \in Seq(Ground) /\ Once(itr'.static)
    <3>1. itr.static \in Seq(Ground) /\ Once(itr.static) /\ b \notin Elements(itr.static)
      BY <1>1 DEF ItrTyped, Placing, InSpace
    <3> QED BY <1>2, <2>1, <3>1, Grown
  <2>3. ItrTyped(itr')
    BY <2>1, <2>2 DEF ItrTyped, Same, ItrFields
  <2>4. Placing(itr')
    BY <2>1, <2>2 DEF Placing, Same, ItrFields, Asleep
  <2>5. Same(itr', itr, {"dynamic", "static", "roused", "asleep", "woke"})
        /\ itr'.roused = itr.roused /\ itr'.woke = itr.woke
    BY <2>1 DEF Same, ItrFields
  <2> QED BY <1>1, <2>3, <2>4, <2>5, StaysReached
<1>3. CASE b \notin Ground
  <2>0. b \in Sleeper
    BY <1>3 DEF Body
  <2>1. Same(itr', itr, {"dynamic"}) /\ itr'.dynamic = Append(itr.dynamic, b)
    BY <1>1, <1>3 DEF Arrive, Same, ItrFields
  <2>2. /\ itr'.dynamic \in Seq(Sleeper) /\ Once(itr'.dynamic)
        /\ Elements(itr'.dynamic) = Elements(itr.dynamic) \cup {b}
    <3>1. itr.dynamic \in Seq(Sleeper) /\ Once(itr.dynamic) /\ b \notin Elements(itr.dynamic)
      BY <1>1 DEF ItrTyped, Placing, InSpace
    <3> QED BY <2>0, <2>1, <3>1, Grown
  <2>3. ItrTyped(itr')
    BY <2>1, <2>2 DEF ItrTyped, Same, ItrFields
  <2>4. itr'.roused = <<>> /\ itr'.asleep = itr.asleep /\ itr'.static = itr.static
        /\ itr.roused = <<>> /\ b \notin Asleep(itr)
    BY <1>1, <2>1 DEF Same, ItrFields, Walking, InSpace
  <2>5. Placing(itr')
    <3>1. Elements(itr'.dynamic) \cap Elements(itr'.roused) = {}
      BY <2>4 DEF Elements
    <3>2. (Elements(itr'.dynamic) \cup Elements(itr'.roused)) \cap Asleep(itr') = {}
      BY <2>2, <2>4 DEF Placing, Asleep
    <3> QED BY <2>2, <2>4, <3>1, <3>2 DEF Placing
  <2>6. Same(itr', itr, {"dynamic", "static", "roused", "asleep", "woke"})
        /\ itr'.roused = itr.roused /\ itr'.woke = itr.woke
    BY <2>1 DEF Same, ItrFields
  <2> QED BY <1>1, <2>3, <2>5, <2>6, StaysReached
<1> QED BY <1>2, <1>3

LEMMA DepartKeeps ==
  ASSUME IterationInv, NEW b \in Body, Depart(b)
  PROVE  IterationInv'
<1> USE IterationAssumption DEF IterationInv
<1> DEFINE r == BodyActivated(itr, b)
<1>1. /\ itr.at = "unlocked" /\ b \in InSpace(itr)
      /\ itr' = IF b \in Ground THEN [r EXCEPT !.static = Delete(@, b)]
                ELSE [r EXCEPT !.dynamic = Delete(@, b)]
  BY DEF Depart
<1>2. /\ ItrTyped(r) /\ Placing(r) /\ Same(r, itr, {"dynamic", "roused", "asleep", "woke"})
      /\ r.roused = itr.roused /\ r.woke = itr.woke
      /\ b \in Asleep(itr) => b \in Elements(r.dynamic)
      /\ Elements(itr.dynamic) \subseteq Elements(r.dynamic)
  BY <1>1, BodyWaking
<1>3. r.static = itr.static /\ DOMAIN r = ItrFields
  BY <1>2 DEF Same, ItrFields
<1> HIDE DEF r
<1>4. CASE b \in Ground
  <2>1. Same(itr', r, {"static"}) /\ itr'.static = Delete(r.static, b)
    BY <1>1, <1>3, <1>4 DEF Same, ItrFields
  <2>2. b \in Elements(r.static)
    BY <1>1, <1>3, <1>4, InSpaceTyped DEF InSpace
  <2>3. itr'.static \in Seq(Ground) /\ Once(itr'.static)
    <3>1. r.static \in Seq(Ground) /\ Once(r.static)
      BY <1>2 DEF ItrTyped, Placing
    <3> QED BY <2>1, <2>2, <3>1, DeletedValue
  <2>4. ItrTyped(itr')
    BY <1>2, <2>1, <2>3 DEF ItrTyped, Same, ItrFields
  <2>5. Placing(itr')
    BY <1>2, <2>1, <2>3 DEF Placing, Same, ItrFields, Asleep
  <2>6. Same(itr', itr, {"dynamic", "static", "roused", "asleep", "woke"})
        /\ itr'.roused = itr.roused /\ itr'.woke = itr.woke
    BY <1>2, <2>1 DEF Same, ItrFields
  <2> QED BY <1>1, <2>4, <2>5, <2>6, StaysReached
<1>5. CASE b \notin Ground
  <2>1. Same(itr', r, {"dynamic"}) /\ itr'.dynamic = Delete(r.dynamic, b)
    BY <1>1, <1>3, <1>5 DEF Same, ItrFields
  <2>2. b \in Elements(r.dynamic)
    BY <1>1, <1>2, <1>5, InSpaceTyped DEF InSpace
  <2>3. /\ itr'.dynamic \in Seq(Sleeper) /\ Once(itr'.dynamic)
        /\ Elements(itr'.dynamic) \subseteq Elements(r.dynamic)
    <3>1. r.dynamic \in Seq(Sleeper) /\ Once(r.dynamic)
      BY <1>2 DEF ItrTyped, Placing
    <3> QED BY <2>1, <2>2, <3>1, DeletedValue
  <2>4. ItrTyped(itr')
    BY <1>2, <2>1, <2>3 DEF ItrTyped, Same, ItrFields
  <2>5. Placing(itr')
    BY <1>2, <2>1, <2>3 DEF Placing, Same, ItrFields, Asleep
  <2>6. Same(itr', itr, {"dynamic", "static", "roused", "asleep", "woke"})
        /\ itr'.roused = itr.roused /\ itr'.woke = itr.woke
    BY <1>2, <2>1 DEF Same, ItrFields
  <2> QED BY <1>1, <2>4, <2>5, <2>6, StaysReached
<1> QED BY <1>4, <1>5

LEMMA WakeBodyKeeps ==
  ASSUME IterationInv, NEW b \in Sleeper, WakeBody(b)
  PROVE  IterationInv'
<1> USE DEF IterationInv
<1>1. itr.at = "unlocked" /\ itr' = BodyActivated(itr, b)
  BY DEF WakeBody
<1>2. /\ ItrTyped(itr') /\ Placing(itr')
      /\ Same(itr', itr, {"dynamic", "roused", "asleep", "woke"})
      /\ itr'.roused = itr.roused /\ itr'.woke = itr.woke
  BY <1>1, BodyWaking
<1>3. Same(itr', itr, {"dynamic", "static", "roused", "asleep", "woke"})
  BY <1>2 DEF Same
<1> QED BY <1>1, <1>2, <1>3, StaysReached

LEMMA SleepAloneKeeps ==
  ASSUME IterationInv, NEW b \in Sleeper, SleepAlone(b)
  PROVE  IterationInv'
<1> USE DEF IterationInv
<1>1. /\ itr.at = "unlocked" /\ b \in Elements(itr.dynamic) /\ DOMAIN itr = ItrFields
      /\ itr.dynamic \in Seq(Sleeper) /\ Once(itr.dynamic) /\ itr.asleep \in Seq(Chain)
      /\ itr.roused = <<>>
  BY DEF SleepAlone, ItrTyped, Placing, Walking
<1>2. /\ Same(itr', itr, {"dynamic", "asleep"}) /\ itr'.dynamic = Delete(itr.dynamic, b)
      /\ itr'.asleep = Append(itr.asleep, <<b>>)
  BY <1>1 DEF SleepAlone, Same, ItrFields
<1>3. /\ itr'.dynamic \in Seq(Sleeper) /\ Once(itr'.dynamic)
      /\ Elements(itr'.dynamic) = Elements(itr.dynamic) \ {b}
  BY <1>1, <1>2, DeletedValue
<1> DEFINE n == Len(itr.asleep)
<1>4. /\ itr'.asleep \in Seq(Chain) /\ n \in Nat /\ DOMAIN itr.asleep = 1 .. n
      /\ DOMAIN itr'.asleep = 1 .. n + 1 /\ itr'.asleep[n + 1] = <<b>>
      /\ \A k \in 1 .. n : itr'.asleep[k] = itr.asleep[k]
  <2>1. <<b>> \in Chain
    BY Single DEF Chain
  <2> QED BY <1>1, <1>2, <2>1
<1> HIDE DEF n
<1>5. \A k \in DOMAIN itr'.asleep : k \in DOMAIN itr.asleep \/ k = n + 1
  BY <1>4
<1>6. Elements(<<b>>) = {b} /\ Once(<<b>>) /\ <<b>> # <<>>
  BY Single
<1>7. ItrTyped(itr')
  BY <1>2, <1>3, <1>4 DEF ItrTyped, Same, ItrFields
<1>8. \A k \in DOMAIN itr.asleep : itr'.asleep[k] = itr.asleep[k] /\ b \notin Elements(itr.asleep[k])
  BY <1>1, <1>4 DEF Placing, Asleep, SleepersIn
<1>9. Asleep(itr') \subseteq Asleep(itr) \cup {b}
  BY <1>4, <1>5, <1>6, <1>8 DEF Asleep, SleepersIn
<1>10. Placing(itr')
  <2>1. itr'.static = itr.static /\ itr'.roused = <<>>
    BY <1>1, <1>2 DEF Same, ItrFields
  <2>2. \A k \in DOMAIN itr'.asleep : itr'.asleep[k] # <<>> /\ Once(itr'.asleep[k])
    BY <1>4, <1>5, <1>6, <1>8 DEF Placing
  <2>3. \A j, k \in DOMAIN itr'.asleep :
          j # k => Elements(itr'.asleep[j]) \cap Elements(itr'.asleep[k]) = {}
    <3>1. Elements(itr'.asleep[n + 1]) = {b}
      BY <1>4, <1>6
    <3>2. \A k \in DOMAIN itr.asleep :
            /\ Elements(itr'.asleep[k]) = Elements(itr.asleep[k])
            /\ b \notin Elements(itr'.asleep[k])
      BY <1>8
    <3>3. \A j, k \in DOMAIN itr.asleep :
            j # k => Elements(itr'.asleep[j]) \cap Elements(itr'.asleep[k]) = {}
      BY <3>2 DEF Placing
    <3> SUFFICES ASSUME NEW j \in DOMAIN itr'.asleep, NEW k \in DOMAIN itr'.asleep, j # k
                 PROVE  Elements(itr'.asleep[j]) \cap Elements(itr'.asleep[k]) = {}
      OBVIOUS
    <3>4. CASE j \in DOMAIN itr.asleep /\ k \in DOMAIN itr.asleep
      BY <3>3, <3>4
    <3>5. CASE j = n + 1 /\ k \in DOMAIN itr.asleep
      BY <3>1, <3>2, <3>5
    <3>6. CASE j \in DOMAIN itr.asleep /\ k = n + 1
      BY <3>1, <3>2, <3>6
    <3> QED BY <1>5, <3>4, <3>5, <3>6
  <2>4. Elements(<<>>) = {} /\ Once(<<>>)
    BY DEF Elements, Once
  <2> QED BY <1>3, <1>9, <2>1, <2>2, <2>3, <2>4 DEF Placing
<1>11. Same(itr', itr, {"dynamic", "static", "roused", "asleep", "woke"})
       /\ itr'.roused = itr.roused /\ itr'.woke = itr.woke
  BY <1>2 DEF Same, ItrFields
<1> QED BY <1>1, <1>7, <1>10, <1>11, StaysReached
\* A body put behind the root of a chain.
LEMMA Followed ==
  ASSUME NEW S, NEW s \in Seq(S), s # <<>>, Once(s), NEW b \in S, b \notin Elements(s),
         NEW t, t = BehindRoot(s, b)
  PROVE  t \in Seq(S) /\ t # <<>> /\ Once(t) /\ Elements(t) = Elements(s) \cup {b}
<1> DEFINE n == Len(s)
           z == Tail(s)
<1>1. /\ n \in Nat /\ n > 0 /\ DOMAIN s = 1 .. n /\ Head(s) = s[1] /\ Head(s) \in S
      /\ z \in Seq(S) /\ Len(z) = n - 1 /\ \A i \in 1 .. n - 1 : z[i] = s[i + 1]
  BY EmptySeq, HeadTailProperties
<1>2. /\ <<Head(s), b>> \in Seq(S) /\ Len(<<Head(s), b>>) = 2
  BY <1>1
<1> DEFINE a == <<Head(s), b>>
<1>3. a[1] = s[1] /\ a[2] = b
  BY <1>1
<1>4. t = a \o z
  BY DEF BehindRoot
<1> HIDE DEF a, z, n
<1>5. /\ t \in Seq(S) /\ Len(t) = 2 + (n - 1)
      /\ \A i \in 1 .. 2 + (n - 1) : t[i] = IF i <= 2 THEN a[i] ELSE z[i - 2]
  BY <1>1, <1>2, <1>4, ConcatProperties DEF a
<1>6. DOMAIN t = 1 .. n + 1 /\ 1 \in DOMAIN t
  <2>1. DOMAIN t = 1 .. Len(t) /\ 2 + (n - 1) = n + 1
    BY <1>1, <1>5
  <2> QED BY <1>1, <1>5, <2>1
<1>7. t[1] = s[1] /\ t[2] = b
  BY <1>1, <1>3, <1>5
<1>8. \A i \in DOMAIN t : i = 1 \/ i = 2 \/ (i - 1 \in DOMAIN s /\ i - 1 # 1 /\ t[i] = s[i - 1])
  <2> SUFFICES ASSUME NEW i \in DOMAIN t, i # 1, i # 2
               PROVE  i - 1 \in DOMAIN s /\ i - 1 # 1 /\ t[i] = s[i - 1]
    OBVIOUS
  <2>1. i \in 3 .. n + 1 /\ i - 2 \in 1 .. n - 1 /\ (i - 2) + 1 = i - 1 /\ ~(i <= 2)
    BY <1>1, <1>6
  <2>2. t[i] = z[i - 2]
    BY <1>1, <1>5, <2>1
  <2> QED BY <1>1, <2>1, <2>2
<1>9. Elements(t) = Elements(s) \cup {b}
  <2>1. \A x \in Elements(t) : x \in Elements(s) \cup {b}
    BY <1>1, <1>7, <1>8 DEF Elements
  <2>2. ASSUME NEW m \in DOMAIN s PROVE s[m] \in Elements(t)
    <3>1. CASE m = 1
      BY <1>6, <1>7, <3>1 DEF Elements
    <3>2. CASE m # 1
      <4>1. m + 1 \in DOMAIN t /\ m + 1 # 1 /\ m + 1 # 2 /\ (m + 1) - 1 = m
        BY <1>1, <1>6, <3>2
      <4> QED BY <1>8, <4>1 DEF Elements
    <3> QED BY <3>1, <3>2
  <2>3. b \in Elements(t)
    <3>1. 2 \in DOMAIN t
      BY <1>1, <1>6
    <3> QED BY <1>7, <3>1 DEF Elements
  <2> QED BY <2>1, <2>2, <2>3 DEF Elements
<1>10. Once(t)
  <2> SUFFICES ASSUME NEW i \in DOMAIN t, NEW j \in DOMAIN t, t[i] = t[j], i # j PROVE FALSE
    BY DEF Once
  <2>1. \A l \in DOMAIN s : s[l] # b
    BY DEF Elements
  <2>2. 1 \in DOMAIN s
    BY <1>1
  <2>3. CASE i = 1
    BY <1>7, <1>8, <2>1, <2>2, <2>3 DEF Once
  <2>4. CASE i = 2
    BY <1>7, <1>8, <2>1, <2>2, <2>4
  <2>5. CASE i # 1 /\ i # 2
    <3>1. i - 1 \in DOMAIN s /\ i - 1 # 1 /\ t[i] = s[i - 1]
      BY <1>8, <2>5
    <3>2. j # 1 /\ j # 2
      BY <1>7, <2>1, <2>2, <3>1 DEF Once
    <3>3. j - 1 \in DOMAIN s /\ t[j] = s[j - 1]
      BY <1>8, <3>2
    <3>4. i - 1 = j - 1
      BY <3>1, <3>3 DEF Once
    <3> QED BY <1>6, <3>4
  <2> QED BY <2>3, <2>4, <2>5
<1>11. t # <<>>
  BY <1>1, <1>5, EmptySeq
<1> QED BY <1>5, <1>9, <1>10, <1>11

LEMMA SleepWithKeeps ==
  ASSUME IterationInv, NEW b \in Sleeper, NEW k \in DOMAIN itr.asleep, SleepWith(b, k)
  PROVE  IterationInv'
<1> USE DEF IterationInv
<1>1. /\ itr.at = "unlocked" /\ b \in Elements(itr.dynamic) /\ DOMAIN itr = ItrFields
      /\ itr.dynamic \in Seq(Sleeper) /\ Once(itr.dynamic) /\ itr.asleep \in Seq(Chain)
      /\ itr.roused = <<>>
  BY DEF SleepWith, ItrTyped, Placing, Walking
<1> DEFINE old == itr.asleep[k]
           new == BehindRoot(old, b)
<1>2. /\ Same(itr', itr, {"dynamic", "asleep"}) /\ itr'.dynamic = Delete(itr.dynamic, b)
      /\ itr'.asleep = [itr.asleep EXCEPT ![k] = new]
  BY <1>1 DEF SleepWith, Same, ItrFields
<1>3. /\ itr'.dynamic \in Seq(Sleeper) /\ Once(itr'.dynamic)
      /\ Elements(itr'.dynamic) = Elements(itr.dynamic) \ {b}
  BY <1>1, <1>2, DeletedValue
<1>4. \A j \in DOMAIN itr.asleep : b \notin Elements(itr.asleep[j])
  BY <1>1 DEF Placing, Asleep, SleepersIn
<1>5. old \in Seq(Sleeper) /\ old # <<>> /\ Once(old)
  BY <1>1 DEF Placing, Chain
<1> HIDE DEF old
<1>6. new \in Seq(Sleeper) /\ new # <<>> /\ Once(new) /\ Elements(new) = Elements(old) \cup {b}
  <2>1. b \notin Elements(old)
    BY <1>4 DEF old
  <2> QED BY <1>5, <2>1, Followed
<1> HIDE DEF new
<1>7. /\ itr'.asleep \in Seq(Chain) /\ DOMAIN itr'.asleep = DOMAIN itr.asleep
      /\ \A j \in DOMAIN itr.asleep : itr'.asleep[j] = IF j = k THEN new ELSE itr.asleep[j]
  BY <1>1, <1>2, <1>6 DEF Chain
<1>8. \A j \in DOMAIN itr.asleep :
        Elements(itr'.asleep[j]) = IF j = k THEN Elements(itr.asleep[j]) \cup {b}
                                   ELSE Elements(itr.asleep[j])
  BY <1>6, <1>7 DEF old
<1>9. ItrTyped(itr')
  BY <1>2, <1>3, <1>7 DEF ItrTyped, Same, ItrFields
<1>10. Asleep(itr') \subseteq Asleep(itr) \cup {b}
  <2> SUFFICES ASSUME NEW x \in Asleep(itr') PROVE x \in Asleep(itr) \cup {b}
    OBVIOUS
  <2>1. PICK j \in DOMAIN itr.asleep : x \in Elements(itr'.asleep[j])
    BY <1>7 DEF Asleep, SleepersIn
  <2>2. x \in Elements(itr.asleep[j]) \cup {b}
    BY <1>8, <2>1
  <2> QED BY <2>2 DEF Asleep, SleepersIn
<1>11. Placing(itr')
  <2>1. itr'.static = itr.static /\ itr'.roused = <<>>
    BY <1>1, <1>2 DEF Same, ItrFields
  <2>2. \A j \in DOMAIN itr'.asleep : itr'.asleep[j] # <<>> /\ Once(itr'.asleep[j])
    BY <1>6, <1>7 DEF Placing
  <2>3. \A i, j \in DOMAIN itr'.asleep :
          i # j => Elements(itr'.asleep[i]) \cap Elements(itr'.asleep[j]) = {}
    <3>1. \A i, j \in DOMAIN itr.asleep :
            i # j => Elements(itr.asleep[i]) \cap Elements(itr.asleep[j]) = {}
      BY DEF Placing
    <3> SUFFICES ASSUME NEW i \in DOMAIN itr.asleep, NEW j \in DOMAIN itr.asleep, i # j
                 PROVE  Elements(itr'.asleep[i]) \cap Elements(itr'.asleep[j]) = {}
      BY <1>7
    <3>2. Elements(itr.asleep[i]) \cap Elements(itr.asleep[j]) = {}
      BY <3>1
    <3> QED BY <1>4, <1>8, <3>2
  <2>4. Elements(<<>>) = {} /\ Once(<<>>)
    BY DEF Elements, Once
  <2> QED BY <1>3, <1>10, <2>1, <2>2, <2>3, <2>4 DEF Placing
<1>12. Same(itr', itr, {"dynamic", "static", "roused", "asleep", "woke"})
       /\ itr'.roused = itr.roused /\ itr'.woke = itr.woke
  BY <1>2 DEF Same, ItrFields
<1> QED BY <1>1, <1>9, <1>11, <1>12, StaysReached
-----------------------------------------------------------------------------
(* An iteration *)

LEMMA EachBodyKeeps ==
  ASSUME IterationInv, NEW destroy \in BOOLEAN, EachBody(destroy)
  PROVE  IterationInv'
<1> USE DEF IterationInv
<1>1. itr.at = "unlocked" /\ DOMAIN itr = ItrFields /\ itr.body = NOBODY /\ itr.roused = <<>>
  BY DEF EachBody, ItrTyped, Walking
<1>2. /\ Same(itr', itr, {"at", "destroy", "i", "called", "all", "rested", "woke"})
      /\ itr'.at = "dynamic" /\ itr'.destroy = destroy /\ itr'.i = 1 /\ itr'.called = <<>>
      /\ itr'.all = InSpace(itr) /\ itr'.rested = Asleep(itr) /\ itr'.woke = FALSE
  BY <1>1 DEF EachBody, Same, ItrFields
<1>3. ItrTyped(itr')
  <2>1. itr'.all \subseteq Body /\ itr'.rested \subseteq Sleeper
    BY <1>2, InSpaceTyped
  <2>2. itr'.called \in Seq(Body)
    BY <1>2, EmptySeq
  <2>3. itr'.at \in Slots /\ itr'.i \in Nat \ {0}
    BY <1>2 DEF Slots
  <2>5. itr'.destroy \in BOOLEAN /\ itr'.woke \in BOOLEAN
    BY <1>2, Zenon
  <2>4. /\ DOMAIN itr' = ItrFields /\ itr'.body = itr.body /\ itr'.dynamic = itr.dynamic
        /\ itr'.static = itr.static /\ itr'.roused = itr.roused /\ itr'.asleep = itr.asleep
    BY <1>2 DEF Same, ItrFields
  <2> QED BY <2>1, <2>2, <2>3, <2>4, <2>5 DEF ItrTyped
<1>4. Placing(itr') /\ Asleep(itr') = Asleep(itr)
  BY <1>2, ItrFrame
<1>5. Once(itr'.called) /\ Reached(itr')
  BY <1>2 DEF Once, Reached
<1>6. Walking(itr')
  <2>1. First(itr'.dynamic, 1) = {} /\ Elements(<<>>) = {}
    <3>0. itr'.dynamic \in Seq(Sleeper)
      BY <1>3 DEF ItrTyped
    <3>1. DOMAIN itr'.dynamic \subseteq Nat \ {0}
      BY <3>0
    <3>2. \A j \in DOMAIN itr'.dynamic : ~(j < 1)
      BY <3>1
    <3> QED BY <3>2 DEF First, Elements
  <2>2. itr'.body = NOBODY /\ itr'.dynamic = itr.dynamic /\ itr'.static = itr.static
    BY <1>1, <1>2 DEF Same, ItrFields
  <2>3. itr'.all \subseteq Elements(itr'.dynamic) \cup Elements(itr'.static) \cup itr'.rested
    BY <1>2, <2>2 DEF InSpace
  <2> QED BY <1>2, <1>4, <2>1, <2>2, <2>3 DEF Walking
<1> QED BY <1>3, <1>4, <1>5, <1>6

\* What func's waking leaves of the walk: it may only take from the components to come.
LEMMA WakingWalks ==
  ASSUME NEW r, ItrTyped(r), Placing(r), Walking(r),
         r.at \in {"dynamic", "static", "components"},
         NEW b, NEW t, t = BodyActivated(r, b)
  PROVE  Walking(t)
<1>1. /\ ItrTyped(t) /\ Same(t, r, {"dynamic", "roused", "asleep", "woke"})
      /\ Shrunk(t, r) /\ t.dynamic = r.dynamic /\ (t.woke \/ t = r)
  BY BodyWaking
<1>2. /\ t.at = r.at /\ t.body = r.body /\ t.called = r.called /\ t.static = r.static
      /\ t.i = r.i /\ t.all = r.all /\ t.rested = r.rested /\ t.dynamic = r.dynamic
  BY <1>1 DEF Same, ItrFields
<1>3. CASE t = r
  BY <1>3
<1>4. CASE t.woke
  <2>1. /\ DOMAIN t.asleep \subseteq Nat /\ DOMAIN r.asleep \subseteq Nat /\ r.i \in Nat
    <3>1. t.asleep \in Seq(Chain) /\ r.asleep \in Seq(Chain) /\ r.i \in Nat \ {0}
      BY <1>1 DEF ItrTyped
    <3> QED BY <3>1
  <2>2. ASSUME r.at = "components" PROVE Uncalled(t)
    <3> SUFFICES ASSUME NEW j \in DOMAIN t.asleep, j > r.i \/ (j = r.i /\ r.body = NOBODY)
                 PROVE  Elements(t.asleep[j]) \cap Elements(r.called) = {}
      BY <1>2 DEF Uncalled
    <3>1. PICK k \in DOMAIN r.asleep : t.asleep[j] = r.asleep[k] /\ j <= k
      BY <1>1 DEF Shrunk
    <3>2. k > r.i \/ (k = r.i /\ r.body = NOBODY)
      BY <2>1, <3>1
    <3> QED BY <2>2, <3>1, <3>2 DEF Walking, Uncalled
  <2>3. ASSUME r.at = "components" PROVE Begun(t)
    <3> SUFFICES ASSUME r.body # NOBODY
                 PROVE  /\ r.body \notin Elements(r.called)
                        /\ \A j \in DOMAIN t.asleep : \A p \in DOMAIN t.asleep[j] :
                             t.asleep[j][p] = r.body =>
                               j <= r.i /\ \A q \in DOMAIN t.asleep[j] :
                                 q >= p => t.asleep[j][q] \notin Elements(r.called)
      BY <1>2 DEF Begun
    <3>1. Begun(r)
      BY <2>3 DEF Walking
    <3>2. ASSUME NEW j \in DOMAIN t.asleep, NEW p \in DOMAIN t.asleep[j],
                 t.asleep[j][p] = r.body
          PROVE  j <= r.i /\ \A q \in DOMAIN t.asleep[j] :
                               q >= p => t.asleep[j][q] \notin Elements(r.called)
      <4>1. PICK k \in DOMAIN r.asleep : t.asleep[j] = r.asleep[k] /\ j <= k
        BY <1>1 DEF Shrunk
      <4>2. k <= r.i /\ \A q \in DOMAIN r.asleep[k] :
                          q >= p => r.asleep[k][q] \notin Elements(r.called)
        BY <3>1, <3>2, <4>1 DEF Begun
      <4> QED BY <2>1, <4>1, <4>2
    <3> QED BY <3>1, <3>2 DEF Begun
  <2> QED BY <1>2, <1>4, <2>2, <2>3 DEF Walking
<1> QED BY <1>1, <1>3, <1>4

LEMMA NextArrayKeeps ==
  ASSUME IterationInv, NextArray
  PROVE  IterationInv'
<1> USE DEF IterationInv
<1>1. DOMAIN itr = ItrFields /\ itr.i \in Nat \ {0} /\ itr.dynamic \in Seq(Sleeper)
      /\ itr.static \in Seq(Ground) /\ itr.asleep \in Seq(Chain)
  BY DEF ItrTyped
<1>2. Same(itr', itr, {"at", "i"}) /\ itr'.i = 1 /\ itr'.at \in {"static", "components"}
      /\ itr.at \in {"dynamic", "static"} /\ (itr'.at = "static" <=> itr.at = "dynamic")
  BY <1>1 DEF NextArray, Same, ItrFields
<1>3. ItrTyped(itr')
  BY <1>2 DEF ItrTyped, Same, ItrFields, Slots
<1>4. Placing(itr') /\ Asleep(itr') = Asleep(itr)
  BY <1>2, ItrFrame
<1>5. /\ itr'.called = itr.called /\ itr'.all = itr.all /\ itr'.rested = itr.rested
      /\ itr'.woke = itr.woke /\ itr'.body = itr.body /\ itr'.dynamic = itr.dynamic
      /\ itr'.static = itr.static /\ itr'.asleep = itr.asleep /\ itr.body = NOBODY
  BY <1>2 DEF Same, ItrFields, Walking
<1>6. Once(itr'.called) /\ Reached(itr')
  BY <1>2, <1>5 DEF Reached
<1>7. ASSUME NEW s, NEW S, s \in Seq(S), itr.i > Len(s) PROVE First(s, itr.i) = Elements(s)
  <2>1. \A k \in DOMAIN s : k < itr.i
    BY <1>1, <1>7
  <2> QED BY <2>1 DEF First, Elements
<1>8. CASE itr.at = "dynamic"
  <2>1. Elements(itr.called) = Elements(itr.dynamic)
    BY <1>1, <1>2, <1>7, <1>8 DEF Walking, NextArray
  <2>2. First(itr.static, 1) = {}
    <3>1. \A k \in DOMAIN itr.static : ~(k < 1)
      BY <1>1
    <3> QED BY <3>1 DEF First
  <2> QED BY <1>2, <1>3, <1>4, <1>5, <1>6, <1>8, <2>1, <2>2 DEF Walking
<1>9. CASE itr.at = "static"
  <2>1. Elements(itr.called) = Elements(itr.dynamic) \cup Elements(itr.static)
    BY <1>1, <1>2, <1>7, <1>9 DEF Walking, NextArray
  <2>2. Elements(itr.called) \cap Asleep(itr) = {}
    BY <2>1, InSpaceTyped, IterationAssumption DEF Placing
  <2>3. Uncalled(itr') /\ Begun(itr')
    BY <1>5, <2>2 DEF Uncalled, Begun, Asleep, SleepersIn
  <2>4. Passed(itr')
    <3>1. \A k \in DOMAIN itr.asleep : ~(k < 1)
      BY <1>1
    <3> QED BY <1>2, <1>5, <3>1 DEF Passed
  <2>5. itr'.at = "components"
    BY <1>2, <1>9
  <2> QED BY <1>2, <1>3, <1>4, <1>5, <1>6, <1>9, <2>1, <2>3, <2>4, <2>5 DEF Walking
<1> QED BY <1>2, <1>8, <1>9

LEMMA ReturnKeeps ==
  ASSUME IterationInv, Return
  PROVE  IterationInv'
<1> USE DEF IterationInv
<1>1. /\ DOMAIN itr = ItrFields /\ itr.at = "components" /\ itr.body = NOBODY
      /\ itr.i > Len(itr.asleep) /\ itr.asleep \in Seq(Chain) /\ itr.i \in Nat
      /\ itr.dynamic \in Seq(Sleeper) /\ itr.roused \in Seq(Sleeper)
      /\ itr' = Unlocked(itr, IF itr.destroy THEN "destroyed" ELSE "unlocked")
  BY DEF Return, ItrTyped
<1>2. /\ Same(itr', itr, {"at", "dynamic", "roused"}) /\ itr'.roused = <<>>
      /\ itr'.at \in {"unlocked", "destroyed"} /\ itr'.dynamic = itr.dynamic \o itr.roused
  BY <1>1 DEF Unlocked, Same, ItrFields
<1>3. /\ itr'.dynamic \in Seq(Sleeper) /\ Once(itr'.dynamic)
      /\ Elements(itr'.dynamic) = Elements(itr.dynamic) \cup Elements(itr.roused)
  <2>1. Once(itr.dynamic) /\ Once(itr.roused) /\ Elements(itr.dynamic) \cap Elements(itr.roused) = {}
    BY DEF Placing
  <2> DEFINE s == itr.dynamic
             t == itr.roused
  <2>2. s \in Seq(Sleeper) /\ t \in Seq(Sleeper) /\ Once(s) /\ Once(t)
        /\ Elements(s) \cap Elements(t) = {}
    BY <1>1, <2>1
  <2> HIDE DEF s, t
  <2>3. s \o t \in Seq(Sleeper) /\ Once(s \o t) /\ Elements(s \o t) = Elements(s) \cup Elements(t)
    BY <2>2, Joined
  <2> QED BY <1>2, <2>3 DEF s, t
<1>4. /\ itr'.called = itr.called /\ itr'.all = itr.all /\ itr'.rested = itr.rested
      /\ itr'.woke = itr.woke /\ itr'.body = NOBODY
      /\ itr'.static = itr.static /\ itr'.asleep = itr.asleep
  BY <1>1, <1>2 DEF Same, ItrFields
<1>5. ItrTyped(itr')
  <2>1. <<>> \in Seq(Sleeper)
    BY EmptySeq
  <2> QED BY <1>2, <1>3, <2>1 DEF ItrTyped, Same, ItrFields, Slots
<1>6. Placing(itr')
  <2>1. Elements(<<>>) = {} /\ Once(<<>>)
    BY DEF Elements, Once
  <2> QED BY <1>2, <1>3, <1>4, <2>1 DEF Placing, Asleep
<1>7. Once(itr'.called)
  BY <1>4
<1>8. Walking(itr')
  BY <1>2, <1>4 DEF Walking
<1>9. Reached(itr')
  <2>1. ASSUME NEW b \in itr.all PROVE b \in Elements(itr.called) \/ (itr.woke /\ b \in itr.rested)
    <3>1. /\ Elements(itr.dynamic) \cup Elements(itr.static) \subseteq Elements(itr.called)
          /\ itr.all \subseteq Elements(itr.dynamic) \cup Elements(itr.static) \cup itr.rested
          /\ ~itr.woke => Passed(itr) /\ itr.rested \subseteq Asleep(itr)
      BY <1>1 DEF Walking
    <3>2. ASSUME ~itr.woke PROVE Asleep(itr) \subseteq Elements(itr.called)
      <4>1. \A k \in DOMAIN itr.asleep : k < itr.i
        BY <1>1
      <4> QED BY <3>1, <3>2, <4>1 DEF Passed, Asleep, SleepersIn
    <3> QED BY <3>1, <3>2
  <2> QED BY <1>4, <2>1 DEF Reached
<1> QED BY <1>5, <1>6, <1>7, <1>8, <1>9
\* A call of func: t is the walk as its waking leaves it, c has one more who was called.
CallOf(t, c, r, b) ==
  /\ ItrTyped(t) /\ Placing(t) /\ Walking(t) /\ Shrunk(t, r) /\ (t.woke \/ t = r)
  /\ Same(t, r, {"dynamic", "roused", "asleep", "woke"}) /\ t.dynamic = r.dynamic
  /\ Same(c, t, {"called"}) /\ c.called \in Seq(Body) /\ Once(c.called)
  /\ Elements(c.called) = Elements(r.called) \cup {b}

LEMMA Calling ==
  ASSUME NEW r, ItrTyped(r), Placing(r), Once(r.called), Walking(r),
         r.at \in {"dynamic", "static", "components"},
         NEW b \in Body, b \notin Elements(r.called), NEW w, NEW c, c = FuncCalled(r, b, w)
  PROVE  \E t : CallOf(t, c, r, b)
<1> DEFINE v == IF r.destroy THEN b ELSE w
           t == BodyActivated(r, v)
<1>1. /\ ItrTyped(t) /\ Placing(t) /\ Shrunk(t, r) /\ (t.woke \/ t = r)
      /\ Same(t, r, {"dynamic", "roused", "asleep", "woke"}) /\ t.dynamic = r.dynamic
  <2> HIDE DEF v
  <2> QED BY BodyWaking
<1>2. Walking(t)
  <2> HIDE DEF v
  <2> QED BY WakingWalks
<1>3. c = [t EXCEPT !.called = Append(@, b)]
  BY DEF FuncCalled
<1> HIDE DEF t
<1>4. t.called = r.called /\ DOMAIN t = ItrFields /\ r.called \in Seq(Body)
  BY <1>1 DEF Same, ItrFields, ItrTyped
<1>5. Same(c, t, {"called"}) /\ c.called = Append(r.called, b)
  BY <1>3, <1>4 DEF Same, ItrFields
<1>6. /\ c.called \in Seq(Body) /\ Once(c.called)
      /\ Elements(c.called) = Elements(r.called) \cup {b}
  BY <1>4, <1>5, Grown
<1>7. CallOf(t, c, r, b)
  BY <1>1, <1>2, <1>5, <1>6 DEF CallOf
<1> QED BY <1>7

LEMMA WalkTyped ==
  ASSUME NEW t, NEW r, ItrTyped(r), Placing(r), Same(t, r, {"called", "i", "body"}),
         t.called \in Seq(Body), t.i \in Nat \ {0}, t.body \in Sleeper \cup {NOBODY}
  PROVE  ItrTyped(t) /\ Placing(t) /\ Asleep(t) = Asleep(r)
<1>1. ItrTyped(t)
  BY DEF ItrTyped, Same, ItrFields
<1> QED BY <1>1, ItrFrame

LEMMA CallDynamicKeeps ==
  ASSUME IterationInv, NEW w, CallDynamic(w)
  PROVE  IterationInv'
<1> USE DEF IterationInv
<1> DEFINE b == itr.dynamic[itr.i]
           c == FuncCalled(itr, b, w)
<1>1. /\ itr.at = "dynamic" /\ itr.i \in DOMAIN itr.dynamic /\ itr.i \in Nat \ {0}
      /\ itr.dynamic \in Seq(Sleeper) /\ Once(itr.dynamic) /\ itr.body = NOBODY
      /\ Elements(itr.called) = First(itr.dynamic, itr.i)
      /\ itr' = [c EXCEPT !.i = @ + 1]
  BY DEF CallDynamic, ItrTyped, Placing, Walking
<1>2. b \in Sleeper /\ b \in Body
  BY <1>1 DEF Body
<1>3. b \notin Elements(itr.called)
  <2>1. \A j \in DOMAIN itr.dynamic : j < itr.i => itr.dynamic[j] # b
    BY <1>1 DEF Once
  <2> QED BY <1>1, <2>1 DEF First
<1> HIDE DEF c
<1>c. PICK t : CallOf(t, c, itr, b)
  <2>1. itr.at \in {"dynamic", "static", "components"} /\ c = FuncCalled(itr, b, w)
    BY <1>1 DEF c
  <2> HIDE DEF b
  <2> QED BY <1>2, <1>3, <2>1, Calling
<1>4. /\ ItrTyped(t) /\ Placing(t) /\ Walking(t) /\ Shrunk(t, itr) /\ (t.woke \/ t = itr)
      /\ Same(t, itr, {"dynamic", "roused", "asleep", "woke"}) /\ t.dynamic = itr.dynamic
      /\ Same(c, t, {"called"}) /\ c.called \in Seq(Body) /\ Once(c.called)
      /\ Elements(c.called) = Elements(itr.called) \cup {b}
  <2> HIDE DEF b
  <2> QED BY <1>c DEF CallOf
<1>5. /\ Same(itr', t, {"called", "i"}) /\ itr'.called = c.called /\ itr'.i = itr.i + 1
  <2>1. c.i = itr.i
    BY <1>4 DEF Same, ItrFields
  <2> QED BY <1>1, <1>4, <2>1 DEF Same, ItrFields
<1>6. /\ itr'.at = "dynamic" /\ itr'.body = NOBODY /\ itr'.dynamic = itr.dynamic
      /\ itr'.static = t.static /\ itr'.all = t.all /\ itr'.rested = t.rested
      /\ itr'.woke = t.woke /\ t.at = "dynamic"
  BY <1>1, <1>4, <1>5 DEF Same, ItrFields
<1>7. ItrTyped(itr') /\ Placing(itr') /\ Asleep(itr') = Asleep(t)
  <2>1. Same(itr', t, {"called", "i", "body"}) /\ itr.i + 1 \in Nat \ {0}
    BY <1>1, <1>5 DEF Same
  <2> QED BY <1>4, <1>5, <1>6, <2>1, WalkTyped
<1>9. First(itr.dynamic, itr.i + 1) = First(itr.dynamic, itr.i) \cup {b}
  <2>1. \A j \in DOMAIN itr.dynamic : j < itr.i + 1 <=> j < itr.i \/ j = itr.i
    BY <1>1
  <2> QED BY <1>1, <2>1 DEF First
<1>10. Walking(itr')
  BY <1>1, <1>4, <1>5, <1>6, <1>7, <1>9 DEF Walking
<1> QED BY <1>4, <1>5, <1>6, <1>7, <1>10 DEF Reached

LEMMA CallStaticKeeps ==
  ASSUME IterationInv, NEW w, CallStatic(w)
  PROVE  IterationInv'
<1> USE DEF IterationInv
<1> DEFINE b == itr.static[itr.i]
           c == FuncCalled(itr, b, w)
<1>1. /\ itr.at = "static" /\ itr.i \in DOMAIN itr.static /\ itr.i \in Nat \ {0}
      /\ itr.static \in Seq(Ground) /\ Once(itr.static) /\ itr.body = NOBODY
      /\ Elements(itr.called) = Elements(itr.dynamic) \cup First(itr.static, itr.i)
      /\ itr' = [c EXCEPT !.i = @ + 1]
  BY DEF CallStatic, ItrTyped, Placing, Walking
<1>2. b \in Ground /\ b \in Body
  BY <1>1 DEF Body
<1>3. b \notin Elements(itr.called)
  <2>1. \A j \in DOMAIN itr.static : j < itr.i => itr.static[j] # b
    BY <1>1 DEF Once
  <2>2. b \notin Elements(itr.dynamic)
    BY <1>2, InSpaceTyped, IterationAssumption
  <2> QED BY <1>1, <2>1, <2>2 DEF First
<1> HIDE DEF c
<1>c. PICK t : CallOf(t, c, itr, b)
  <2>1. itr.at \in {"dynamic", "static", "components"} /\ c = FuncCalled(itr, b, w)
    BY <1>1 DEF c
  <2> HIDE DEF b
  <2> QED BY <1>2, <1>3, <2>1, Calling
<1>4. /\ ItrTyped(t) /\ Placing(t) /\ Walking(t) /\ Shrunk(t, itr) /\ (t.woke \/ t = itr)
      /\ Same(t, itr, {"dynamic", "roused", "asleep", "woke"}) /\ t.dynamic = itr.dynamic
      /\ Same(c, t, {"called"}) /\ c.called \in Seq(Body) /\ Once(c.called)
      /\ Elements(c.called) = Elements(itr.called) \cup {b}
  <2> HIDE DEF b
  <2> QED BY <1>c DEF CallOf
<1>5. /\ Same(itr', t, {"called", "i"}) /\ itr'.called = c.called /\ itr'.i = itr.i + 1
  <2>1. c.i = itr.i
    BY <1>4 DEF Same, ItrFields
  <2> QED BY <1>1, <1>4, <2>1 DEF Same, ItrFields
<1>6. /\ itr'.at = "static" /\ itr'.body = NOBODY /\ itr'.dynamic = itr.dynamic
      /\ itr'.static = itr.static /\ itr'.all = t.all /\ itr'.rested = t.rested
      /\ itr'.woke = t.woke /\ t.at = "static" /\ t.dynamic = itr.dynamic /\ t.static = itr.static
  <2>1. t.at = "static" /\ t.body = NOBODY /\ t.dynamic = itr.dynamic /\ t.static = itr.static
    BY <1>1, <1>4 DEF Same, ItrFields
  <2>2. /\ itr'.at = t.at /\ itr'.body = t.body /\ itr'.dynamic = t.dynamic
        /\ itr'.static = t.static /\ itr'.all = t.all /\ itr'.rested = t.rested
        /\ itr'.woke = t.woke
    BY <1>5 DEF Same, ItrFields
  <2> QED BY <2>1, <2>2
<1>7. ItrTyped(itr') /\ Placing(itr') /\ Asleep(itr') = Asleep(t)
  <2>1. Same(itr', t, {"called", "i", "body"}) /\ itr.i + 1 \in Nat \ {0}
    BY <1>1, <1>5 DEF Same
  <2> QED BY <1>4, <1>5, <1>6, <2>1, WalkTyped
<1>9. First(itr.static, itr.i + 1) = First(itr.static, itr.i) \cup {b}
  <2>1. \A j \in DOMAIN itr.static : j < itr.i + 1 <=> j < itr.i \/ j = itr.i
    BY <1>1
  <2> QED BY <1>1, <2>1 DEF First
<1>10. Walking(itr')
  BY <1>1, <1>4, <1>5, <1>6, <1>7, <1>9 DEF Walking
<1> QED BY <1>4, <1>5, <1>6, <1>7, <1>10 DEF Reached

\* What body->sleeping.next is in the chains.
LEMMA FollowingIs ==
  ASSUME NEW r, ItrTyped(r), NEW b
  PROVE  LET n == Following(r, b)
         IN  \/ /\ n \in Sleeper
                /\ \E k \in DOMAIN r.asleep : \E p \in 2 .. Len(r.asleep[k]) :
                     r.asleep[k][p - 1] = b /\ r.asleep[k][p] = n
             \/ /\ n = NOBODY
                /\ \A k \in DOMAIN r.asleep : \A p \in 2 .. Len(r.asleep[k]) :
                     r.asleep[k][p - 1] # b
<1> DEFINE Is(n) == \E k \in DOMAIN r.asleep : \E p \in 2 .. Len(r.asleep[k]) :
                      r.asleep[k][p - 1] = b /\ r.asleep[k][p] = n
<1>1. CASE \E k \in DOMAIN r.asleep : \E p \in 2 .. Len(r.asleep[k]) : r.asleep[k][p - 1] = b
  <2>0. PICK k \in DOMAIN r.asleep : \E p \in 2 .. Len(r.asleep[k]) : r.asleep[k][p - 1] = b
    BY <1>1
  <2>1. PICK p \in 2 .. Len(r.asleep[k]) : r.asleep[k][p - 1] = b
    BY <2>0
  <2>2. r.asleep[k][p] \in Sleeper
    <3>1. r.asleep[k] \in Seq(Sleeper)
      BY DEF ItrTyped, Chain
    <3>2. p \in 1 .. Len(r.asleep[k])
      BY <3>1
    <3> QED BY <3>1, <3>2, ElementOfSeq
  <2>3. \E n \in Sleeper : Is(n)
    BY <2>1, <2>2
  <2>4. Following(r, b) = CHOOSE n \in Sleeper : Is(n)
    BY <1>1 DEF Following
  <2> QED BY <2>3, <2>4
<1>2. CASE ~\E k \in DOMAIN r.asleep : \E p \in 2 .. Len(r.asleep[k]) : r.asleep[k][p - 1] = b
  BY <1>2 DEF Following
<1> QED BY <1>1, <1>2
LEMMA CallSleepingKeeps ==
  ASSUME IterationInv, NEW w, CallSleeping(w)
  PROVE  IterationInv'
<1> USE DEF IterationInv
<1> DEFINE A == itr.asleep
           i == itr.i
           C == Elements(itr.called)
           b == IF itr.body # NOBODY THEN itr.body ELSE itr.asleep[itr.i][1]
           n == Following(itr, b)
           c == FuncCalled(itr, b, w)
<1>1. /\ itr.at = "components" /\ i \in Nat \ {0} /\ A \in Seq(Chain)
      /\ DOMAIN A = 1 .. Len(A)
      /\ itr.body # NOBODY \/ i \in DOMAIN A
      /\ itr.body # NOBODY => itr.body \in Sleeper
      /\ itr' = [c EXCEPT !.body = n, !.i = IF n = NOBODY THEN @ + 1 ELSE @]
  BY DEF CallSleeping, ItrTyped
<1>2. \A k \in DOMAIN A : A[k] \in Seq(Sleeper) /\ DOMAIN A[k] = 1 .. Len(A[k])
                          /\ Len(A[k]) \in Nat /\ 1 \in DOMAIN A[k] /\ Once(A[k])
  <2> SUFFICES ASSUME NEW k \in DOMAIN A
               PROVE  /\ A[k] \in Seq(Sleeper) /\ DOMAIN A[k] = 1 .. Len(A[k])
                      /\ Len(A[k]) \in Nat /\ 1 \in DOMAIN A[k] /\ Once(A[k])
    OBVIOUS
  <2>1. A[k] \in Seq(Sleeper) /\ A[k] # <<>> /\ Once(A[k])
    BY <1>1 DEF Chain, Placing
  <2> HIDE DEF A
  <2> QED BY <2>1, EmptySeq
<1>3. b \in Sleeper
  <2>1. CASE itr.body # NOBODY
    BY <1>1, <2>1
  <2>2. CASE itr.body = NOBODY
    BY <1>1, <1>2, <2>2, ElementOfSeq
  <2> QED BY <2>1, <2>2
<1>4. /\ Uncalled(itr) /\ Begun(itr) /\ (~itr.woke => Passed(itr))
      /\ Elements(itr.dynamic) \cup Elements(itr.static) \subseteq C
  BY <1>1 DEF Walking
\* Chains have no body in common.
<1>5. \A j, k \in DOMAIN A : \A p \in DOMAIN A[j], q \in DOMAIN A[k] :
        A[j][p] = A[k][q] => j = k /\ p = q
  <2> SUFFICES ASSUME NEW j \in DOMAIN A, NEW k \in DOMAIN A, NEW p \in DOMAIN A[j],
                      NEW q \in DOMAIN A[k], A[j][p] = A[k][q]
               PROVE  j = k /\ p = q
    OBVIOUS
  <2>1. A[j][p] \in Elements(A[j]) \cap Elements(A[k])
    BY DEF Elements
  <2>2. j = k
    BY <2>1 DEF Placing
  <2> QED BY <1>2, <2>2 DEF Once
\* Where b may be, and that neither it nor anybody behind it was called.
<1>6. b \notin C
  <2>1. CASE itr.body # NOBODY
    BY <1>4, <2>1 DEF Begun
  <2>2. CASE itr.body = NOBODY
    <3>1. b \in Elements(A[i])
      BY <1>1, <1>2, <2>2 DEF Elements
    <3> QED BY <1>1, <1>4, <2>2, <3>1 DEF Uncalled
  <2> QED BY <2>1, <2>2
<1>7. ASSUME NEW k \in DOMAIN A, NEW p \in DOMAIN A[k], A[k][p] = b
      PROVE  k <= i /\ \A q \in DOMAIN A[k] : q >= p => A[k][q] \notin C
  <2>1. CASE itr.body # NOBODY
    BY <1>4, <1>7, <2>1 DEF Begun
  <2>2. CASE itr.body = NOBODY
    <3>1. k = i
      BY <1>1, <1>2, <1>5, <1>7, <2>2
    <3>2. \A q \in DOMAIN A[i] : A[i][q] \notin C
      BY <1>1, <1>4, <2>2 DEF Uncalled, Elements
    <3> QED BY <1>1, <3>1, <3>2
  <2> QED BY <2>1, <2>2
<1>8. ASSUME NEW k \in DOMAIN A, k > i PROVE Elements(A[k]) \cap (C \cup {b}) = {}
  <2>1. Elements(A[k]) \cap C = {}
    BY <1>4, <1>8 DEF Uncalled
  <2>2. k \in Nat
    BY <1>1
  <2>3. ASSUME NEW p \in DOMAIN A[k] PROVE A[k][p] # b
    <3>1. ~(k <= i)
      BY <1>1, <1>8, <2>2
    <3> QED BY <1>7, <3>1
  <2> QED BY <2>1, <2>3 DEF Elements
<1> HIDE DEF c, n, b
<1>9. \/ /\ n \in Sleeper /\ n # NOBODY
         /\ \E k \in DOMAIN A : \E p \in 2 .. Len(A[k]) : A[k][p - 1] = b /\ A[k][p] = n
      \/ /\ n = NOBODY
         /\ \A k \in DOMAIN A : \A p \in 2 .. Len(A[k]) : A[k][p - 1] # b
  BY FollowingIs, IterationAssumption DEF n
<1>c. PICK t : CallOf(t, c, itr, b)
  <2>1. itr.at \in {"dynamic", "static", "components"} /\ c = FuncCalled(itr, b, w) /\ b \in Body
    BY <1>1, <1>3 DEF c, Body
  <2> QED BY <1>6, <2>1, Calling
<1>10. /\ ItrTyped(t) /\ Placing(t) /\ Walking(t) /\ Shrunk(t, itr) /\ (t.woke \/ t = itr)
       /\ Same(t, itr, {"dynamic", "roused", "asleep", "woke"}) /\ t.dynamic = itr.dynamic
       /\ Same(c, t, {"called"}) /\ c.called \in Seq(Body) /\ Once(c.called)
       /\ Elements(c.called) = C \cup {b}
  BY <1>c DEF CallOf
<1>11. /\ Same(itr', t, {"called", "i", "body"}) /\ itr'.called = c.called /\ itr'.body = n
       /\ itr'.i = IF n = NOBODY THEN i + 1 ELSE i
  <2>1. c.i = itr.i
    BY <1>10 DEF Same, ItrFields
  <2> QED BY <1>1, <1>10, <2>1 DEF Same, ItrFields
<1>12. /\ itr'.at = "components" /\ itr'.asleep = t.asleep /\ itr'.dynamic = itr.dynamic
       /\ itr'.static = itr.static /\ itr'.all = t.all /\ itr'.rested = t.rested
       /\ itr'.woke = t.woke /\ t.at = "components" /\ t.static = itr.static
  BY <1>1, <1>10, <1>11 DEF Same, ItrFields
<1>13. /\ ItrTyped(itr') /\ Placing(itr') /\ Asleep(itr') = Asleep(t)
  <2>1. itr'.i \in Nat \ {0} /\ itr'.body \in Sleeper \cup {NOBODY}
    BY <1>1, <1>9, <1>11
  <2> QED BY <1>10, <1>11, <2>1, WalkTyped
<1>14. DOMAIN t.asleep \subseteq Nat /\ DOMAIN A \subseteq Nat
  BY <1>1, <1>10 DEF ItrTyped
<1> HIDE DEF A, C, i
<1>15. \A j \in DOMAIN t.asleep : \E k \in DOMAIN A : t.asleep[j] = A[k] /\ j <= k
  BY <1>10 DEF Shrunk, A
<1>16. Elements(itr'.called) = C \cup {b}
  BY <1>10, <1>11
<1>17. Uncalled(itr')
  <2> SUFFICES ASSUME NEW j \in DOMAIN t.asleep, j > itr'.i \/ (j = itr'.i /\ n = NOBODY)
               PROVE  Elements(t.asleep[j]) \cap (C \cup {b}) = {}
    BY <1>11, <1>12, <1>16 DEF Uncalled
  <2>1. PICK k \in DOMAIN A : t.asleep[j] = A[k] /\ j <= k
    BY <1>15
  <2>2. k > i
    BY <1>1, <1>11, <1>14, <2>1
  <2> QED BY <1>8, <2>1, <2>2
<1>18. Begun(itr')
  <2> SUFFICES ASSUME n # NOBODY
               PROVE  /\ n \notin C \cup {b}
                      /\ \A j \in DOMAIN t.asleep : \A p \in DOMAIN t.asleep[j] :
                           t.asleep[j][p] = n =>
                             j <= i /\ \A q \in DOMAIN t.asleep[j] :
                                         q >= p => t.asleep[j][q] \notin C \cup {b}
    BY <1>11, <1>12, <1>16 DEF Begun
  <2>1. PICK l \in DOMAIN A : \E p \in 2 .. Len(A[l]) : A[l][p - 1] = b /\ A[l][p] = n
    BY <1>9
  <2>2. PICK o \in 2 .. Len(A[l]) : A[l][o - 1] = b /\ A[l][o] = n
    BY <2>1
  <2>3. o \in DOMAIN A[l] /\ o - 1 \in DOMAIN A[l] /\ o \in Nat
    BY <1>2
  <2>4. l <= i /\ \A q \in DOMAIN A[l] : q >= o - 1 => A[l][q] \notin C
    BY <1>7, <2>2, <2>3
  <2>5. \A q \in DOMAIN A[l] : q >= o => A[l][q] \notin C \cup {b}
    <3> SUFFICES ASSUME NEW q \in DOMAIN A[l], q >= o PROVE A[l][q] \notin C \cup {b}
      OBVIOUS
    <3>1. q \in Nat /\ q >= o - 1 /\ q # o - 1
      BY <1>2, <2>3
    <3>2. A[l][q] # b
      BY <1>5, <2>2, <2>3, <3>1
    <3> QED BY <2>4, <3>1, <3>2
  <2>6. n \notin C \cup {b}
    BY <2>2, <2>3, <2>5
  <2>7. ASSUME NEW j \in DOMAIN t.asleep, NEW p \in DOMAIN t.asleep[j], t.asleep[j][p] = n
        PROVE  j <= i /\ \A q \in DOMAIN t.asleep[j] : q >= p => t.asleep[j][q] \notin C \cup {b}
    <3>1. PICK k \in DOMAIN A : t.asleep[j] = A[k] /\ j <= k
      BY <1>15
    <3>2. k = l /\ p = o
      BY <1>5, <2>2, <2>3, <2>7, <3>1
    <3>3. j <= i
      BY <1>1, <1>14, <2>4, <3>1, <3>2 DEF i
    <3> QED BY <2>5, <3>1, <3>2, <3>3
  <2> QED BY <2>6, <2>7
<1>19. ASSUME ~itr'.woke PROVE Passed(itr')
  <2>1. t = itr /\ ~itr.woke /\ t.asleep = A
    BY <1>10, <1>12, <1>19 DEF A
  <2>2. \A k \in DOMAIN A : k < i => Elements(A[k]) \subseteq C
    BY <1>4, <2>1 DEF Passed, A, i, C
  <2>3. i \in DOMAIN A /\ \E p \in DOMAIN A[i] :
          A[i][p] = b /\ \A q \in DOMAIN A[i] : q < p => A[i][q] \in C
    <3>1. CASE itr.body # NOBODY
      BY <1>4, <2>1, <3>1 DEF Passed, A, i, C, b
    <3>2. CASE itr.body = NOBODY
      <4>1. i \in DOMAIN A /\ 1 \in DOMAIN A[i] /\ A[i][1] = b
        BY <1>1, <1>2, <3>2 DEF A, i, b
      <4>2. \A q \in DOMAIN A[i] : ~(q < 1)
        BY <1>2, <4>1
      <4> QED BY <4>1, <4>2
    <3> QED BY <3>1, <3>2
  <2>4. PICK p \in DOMAIN A[i] : A[i][p] = b /\ \A q \in DOMAIN A[i] : q < p => A[i][q] \in C
    BY <2>3
  <2>5. DOMAIN A[i] = 1 .. Len(A[i]) /\ Len(A[i]) \in Nat /\ p \in Nat
    BY <1>2, <2>3
  <2>6. CASE n # NOBODY
    <3>1. PICK l \in DOMAIN A : \E o \in 2 .. Len(A[l]) : A[l][o - 1] = b /\ A[l][o] = n
      BY <1>9, <2>6
    <3>2. PICK o \in 2 .. Len(A[l]) : A[l][o - 1] = b /\ A[l][o] = n
      BY <3>1
    <3>3. o \in DOMAIN A[l] /\ o - 1 \in DOMAIN A[l]
      BY <1>2
    <3>4. l = i /\ o - 1 = p
      BY <1>5, <2>3, <2>4, <3>2, <3>3
    <3>5. \A q \in DOMAIN A[i] : q < o => A[i][q] \in C \cup {b}
      <4> SUFFICES ASSUME NEW q \in DOMAIN A[i], q < o PROVE A[i][q] \in C \cup {b}
        OBVIOUS
      <4>1. q < p \/ q = p
        BY <2>5, <3>4
      <4> QED BY <2>4, <4>1
    <3>6. itr'.i = i /\ itr'.body = n
      BY <1>11, <2>6
    <3> QED BY <1>12, <1>16, <2>1, <2>2, <2>3, <3>2, <3>3, <3>4, <3>5, <3>6 DEF Passed
  <2>7. CASE n = NOBODY
    <3>1. \A q \in DOMAIN A[i] : A[i][q] \in C \cup {b}
      <4> SUFFICES ASSUME NEW q \in DOMAIN A[i] PROVE A[i][q] \in C \cup {b}
        OBVIOUS
      <4>1. ~(q > p)
        <5> SUFFICES ASSUME q > p PROVE FALSE
          OBVIOUS
        <5>1. p + 1 \in 2 .. Len(A[i]) /\ (p + 1) - 1 = p
          BY <2>5
        <5>2. \A o \in 2 .. Len(A[i]) : A[i][o - 1] # b
          BY <1>9, <2>3, <2>7, IterationAssumption
        <5> QED BY <2>4, <5>1, <5>2
      <4>2. q < p \/ q = p
        BY <2>5, <4>1
      <4> QED BY <2>4, <4>2
    <3>2. itr'.i = i + 1 /\ itr'.body = NOBODY
      BY <1>11, <2>7
    <3>3. ASSUME NEW k \in DOMAIN A, k < i + 1 PROVE Elements(A[k]) \subseteq C \cup {b}
      <4>1. k < i \/ k = i
        BY <1>1, <1>14, <3>3 DEF i
      <4> QED BY <2>2, <3>1, <4>1 DEF Elements
    <3> QED BY <1>12, <1>16, <2>1, <3>2, <3>3 DEF Passed
  <2> QED BY <2>6, <2>7
<1>20. Walking(itr')
  <2>1. /\ t.all \subseteq Elements(t.dynamic) \cup Elements(t.static) \cup t.rested
        /\ ~t.woke => t.rested \subseteq Asleep(t)
    BY <1>12, <1>10 DEF Walking
  <2>2. Elements(itr.dynamic) \cup Elements(itr.static) \subseteq C
    BY <1>4 DEF C
  <2> QED BY <1>10, <1>12, <1>13, <1>16, <1>17, <1>18, <1>19, <2>1, <2>2 DEF Walking
<1> QED BY <1>10, <1>11, <1>12, <1>13, <1>20 DEF Reached

-----------------------------------------------------------------------------

LEMMA IterationInit == EachInit => IterationInv
<1> SUFFICES ASSUME EachInit PROVE IterationInv
  OBVIOUS
<1>1. /\ DOMAIN itr = ItrFields /\ itr.at = "unlocked" /\ itr.destroy = FALSE /\ itr.i = 1
      /\ itr.body = NOBODY /\ itr.dynamic = <<>> /\ itr.static = <<>> /\ itr.asleep = <<>>
      /\ itr.roused = <<>> /\ itr.called = <<>> /\ itr.all = {} /\ itr.rested = {}
      /\ itr.woke = FALSE
  BY DEF EachInit, ItrFields
<1>2. Elements(<<>>) = {} /\ Once(<<>>) /\ DOMAIN <<>> = {}
  BY DEF Elements, Once
<1>3. ItrTyped(itr)
  <2>1. itr.destroy \in BOOLEAN /\ itr.woke \in BOOLEAN
    BY <1>1, Zenon
  <2>2. itr.at \in Slots /\ itr.i \in Nat \ {0}
    BY <1>1 DEF Slots
  <2>3. /\ itr.dynamic \in Seq(Sleeper) /\ itr.static \in Seq(Ground)
        /\ itr.roused \in Seq(Sleeper) /\ itr.asleep \in Seq(Chain) /\ itr.called \in Seq(Body)
    BY <1>1, EmptySeq
  <2> QED BY <1>1, <2>1, <2>2, <2>3 DEF ItrTyped
<1>4. Asleep(itr) = {}
  BY <1>1, <1>2 DEF Asleep, SleepersIn
<1>5. Placing(itr)
  BY <1>1, <1>2, <1>4 DEF Placing
<1>6. Walking(itr) /\ Reached(itr)
  BY <1>1 DEF Walking, Reached
<1> QED BY <1>1, <1>2, <1>3, <1>5, <1>6 DEF IterationInv

LEMMA IterationNext == IterationInv /\ [EachNext]_itr => IterationInv'
<1> SUFFICES ASSUME IterationInv, [EachNext]_itr PROVE IterationInv'
  OBVIOUS
<1>1. ASSUME NEW b \in Sleeper \cup Ground, Arrive(b) \/ Depart(b) PROVE IterationInv'
  BY <1>1, ArriveKeeps, DepartKeeps DEF Body
<1>2. ASSUME NEW b \in Sleeper,
             WakeBody(b) \/ SleepAlone(b) \/ \E k \in DOMAIN itr.asleep : SleepWith(b, k)
      PROVE  IterationInv'
  BY <1>2, WakeBodyKeeps, SleepAloneKeeps, SleepWithKeeps
<1>3. ASSUME NEW destroy \in BOOLEAN, EachBody(destroy) PROVE IterationInv'
  BY <1>3, EachBodyKeeps
<1>4. ASSUME NEW w \in Sleeper \cup {NOBODY}, CallDynamic(w) \/ CallStatic(w) \/ CallSleeping(w)
      PROVE  IterationInv'
  BY <1>4, CallDynamicKeeps, CallStaticKeeps, CallSleepingKeeps
<1>5. CASE NextArray \/ Return
  BY <1>5, NextArrayKeeps, ReturnKeeps
<1>6. CASE UNCHANGED itr
  <2>1. itr' = itr
    BY <1>6
  <2> QED BY <2>1 DEF IterationInv
<1> QED BY <1>1, <1>2, <1>3, <1>4, <1>5, <1>6 DEF EachNext

\* cpSpaceEachBody() calls func for no body twice and misses only bodies that slept, if
\* func wakes any: for any number of bodies, however they sleep and whoever is woken.
THEOREM EachBodyOnce == EachSpec => []EachCalledOnce
<1>1. IterationInv => EachCalledOnce
  BY DEF IterationInv, EachCalledOnce, Once, Reached
<1>2. EachSpec => []IterationInv
  BY IterationInit, IterationNext, PTL DEF EachSpec
<1> QED BY <1>1, <1>2, PTL

-----------------------------------------------------------------------------
(* The hash set *)

KeyChain == Seq(Key)
InChain(c, k) == \E j \in DOMAIN c : c[j] = k
OnceEach(c) == \A j, l \in DOMAIN c : c[j] = c[l] => j = l

\* A table of n slots: each chain has keys of its slot, once each.
Table(t, n) ==
  /\ t \in [0 .. n - 1 -> KeyChain]
  /\ \A i \in 0 .. n - 1 : OnceEach(t[i]) /\ \A k \in Key : InChain(t[i], k) => Slot(k, n) = i
Stores(t, n, k) == InChain(t[Slot(k, n)], k)

SizeOf(n) == \E x \in DOMAIN Prime : n = Prime[x]

SetTyped ==
  /\ DOMAIN hset = {"size", "table", "entries", "pooled", "buffers"}
  /\ DOMAIN loop = {"op", "i", "at", "due", "size", "table"}
  /\ loop.op \in {"none", "resize", "filter"}
  /\ hset.size \in Nat \ {0} /\ SizeOf(hset.size)
  /\ hset.entries \in Nat /\ hset.pooled \in Nat /\ hset.buffers \in Nat
  /\ Table(hset.table, hset.size)
  /\ given \subseteq Key

Counted ==
  /\ hset.entries = Cardinality(given)
  /\ hset.entries + hset.pooled = hset.buffers * BinsPerBuffer

Settled ==
  /\ hset.entries < hset.size
  /\ \A k \in Key : Stores(hset.table, hset.size, k) <=> k \in given

\* While the table is resized each key is in the old table or in the new one, and the
\* slots that the loop has left are empty.
Resizing ==
  /\ loop.i \in 0 .. hset.size
  /\ loop.size \in Nat \ {0} /\ SizeOf(loop.size) /\ hset.entries < loop.size
  /\ Table(loop.table, loop.size)
  /\ \A k \in Key : /\ k \in given <=> \/ Stores(hset.table, hset.size, k)
                                       \/ Stores(loop.table, loop.size, k)
                    /\ ~(Stores(hset.table, hset.size, k) /\ Stores(loop.table, loop.size, k))
  /\ \A j \in 0 .. hset.size - 1 : j < loop.i => hset.table[j] = <<>>

\* A filter has still to meet the keys of later slots, and those from its bin on.
Ahead(k) ==
  /\ k \in given
  /\ \/ Slot(k, hset.size) > loop.i
     \/ loop.i < hset.size /\ \E j \in DOMAIN hset.table[loop.i] :
                                j >= loop.at /\ hset.table[loop.i][j] = k
Filtering ==
  /\ loop.i \in 0 .. hset.size /\ loop.at \in Nat \ {0}
  /\ loop.due \subseteq Key
  /\ \A k \in Key : k \in loop.due <=> Ahead(k)

SetInv ==
  /\ SetTyped /\ Counted
  /\ loop.op # "resize" => Settled
  /\ loop.op = "resize" => Resizing
  /\ loop.op = "filter" => Filtering
  /\ loop.op = "none" => loop = NoLoop

-----------------------------------------------------------------------------

LEMMA SlotIn ==
  ASSUME NEW k \in Key, NEW n \in Nat \ {0}
  PROVE  Slot(k, n) \in 0 .. n - 1
BY HashSetAssumption DEF Slot

LEMMA SizesPositive == \A n : SizeOf(n) => n \in Nat \ {0}
BY HashSetAssumption DEF SizeOf

\* The next prime is found as long as the table is no larger than all keys.
LEMMA NextPrimeIs ==
  /\ SizeOf(NextPrime(0))
  /\ \A n : SizeOf(n) /\ n <= Cardinality(Key) => SizeOf(NextPrime(n + 1)) /\ NextPrime(n + 1) > n
<1> DEFINE FirstFrom(n, i) == Prime[i] >= n /\ \A j \in 1 .. i - 1 : Prime[j] < n
<1>0. /\ Len(Prime) \in Nat /\ DOMAIN Prime = 1 .. Len(Prime) /\ Len(Prime) >= 1
      /\ \A i \in DOMAIN Prime : Prime[i] \in Nat \ {0}
      /\ Cardinality(Key) \in Nat
  BY HashSetAssumption, FS_CardinalityType
<1>1. \A n : NextPrime(n) = Prime[CHOOSE i \in DOMAIN Prime : FirstFrom(n, i)]
  BY DEF NextPrime
<1>2. ASSUME NEW n, NEW i \in DOMAIN Prime, FirstFrom(n, i)
      PROVE  SizeOf(NextPrime(n)) /\ NextPrime(n) >= n
  <2> DEFINE c == CHOOSE j \in DOMAIN Prime : FirstFrom(n, j)
  <2>1. c \in DOMAIN Prime /\ FirstFrom(n, c)
    BY <1>2
  <2>2. NextPrime(n) = Prime[c]
    BY <1>1
  <2> HIDE DEF c
  <2> QED BY <2>1, <2>2 DEF SizeOf
<1>3. FirstFrom(0, 1) /\ 1 \in DOMAIN Prime
  BY <1>0
<1>4. ASSUME NEW n, SizeOf(n), n <= Cardinality(Key)
      PROVE  SizeOf(NextPrime(n + 1)) /\ NextPrime(n + 1) > n
  <2>1. PICK x \in DOMAIN Prime : n = Prime[x]
    BY <1>4 DEF SizeOf
  <2>2. x # Len(Prime)
    BY <1>0, <1>4, <2>1, HashSetAssumption
  <2>3. x \in Nat /\ x + 1 \in DOMAIN Prime /\ n \in Nat
    BY <1>0, <2>1, <2>2
  <2>4. Prime[x + 1] > n
    BY <1>0, <2>1, <2>3, HashSetAssumption
  <2>5. ASSUME NEW j \in 1 .. (x + 1) - 1 PROVE Prime[j] < n + 1
    <3>1. j \in DOMAIN Prime /\ (j < x \/ j = x)
      BY <1>0, <2>3
    <3>2. j < x => Prime[j] < Prime[x]
      BY <2>1, <3>1, HashSetAssumption
    <3> QED BY <1>0, <2>1, <3>1, <3>2
  <2>6. FirstFrom(n + 1, x + 1)
    BY <1>0, <2>3, <2>4, <2>5
  <2> HIDE DEF FirstFrom
  <2>7. SizeOf(NextPrime(n + 1)) /\ NextPrime(n + 1) >= n + 1
    BY <1>2, <2>3, <2>6
  <2>8. NextPrime(n + 1) \in Nat
    BY <2>7, SizesPositive
  <2> QED BY <2>3, <2>7, <2>8
<1> HIDE DEF FirstFrom
<1> QED BY <1>2, <1>3, <1>4

LEMMA InFrontIs ==
  ASSUME NEW c \in KeyChain, NEW k \in Key, OnceEach(c), ~InChain(c, k)
  PROVE  /\ InFront(k, c) \in KeyChain /\ OnceEach(InFront(k, c))
         /\ \A x : InChain(InFront(k, c), x) <=> x = k \/ InChain(c, x)
<1> DEFINE d == InFront(k, c)
<1>1. /\ d \in Seq(Key) /\ Len(d) = Len(c) + 1 /\ d[1] = k
      /\ \A j \in 1 .. Len(c) : d[j + 1] = c[j]
  BY DEF InFront, KeyChain
<1>2. /\ DOMAIN d = 1 .. Len(c) + 1 /\ DOMAIN c = 1 .. Len(c) /\ Len(c) \in Nat
  BY <1>1 DEF KeyChain
<1>3. \A j \in DOMAIN d : j = 1 \/ (j - 1 \in DOMAIN c /\ d[j] = c[j - 1])
  BY <1>1, <1>2
<1> HIDE DEF d
<1>4. OnceEach(d)
  <2> SUFFICES ASSUME NEW j \in DOMAIN d, NEW l \in DOMAIN d, d[j] = d[l] PROVE j = l
    BY DEF OnceEach
  <2>1. \A a \in DOMAIN c : c[a] # k
    BY DEF InChain
  <2>2. CASE j = 1 \/ l = 1
    BY <1>1, <1>3, <2>1, <2>2
  <2>3. CASE j # 1 /\ l # 1
    <3>1. j - 1 \in DOMAIN c /\ l - 1 \in DOMAIN c /\ c[j - 1] = c[l - 1]
      BY <1>3, <2>3
    <3>2. j - 1 = l - 1
      BY <3>1 DEF OnceEach
    <3> QED BY <1>2, <3>2
  <2> QED BY <2>2, <2>3
<1>5. ASSUME NEW x PROVE InChain(d, x) <=> x = k \/ InChain(c, x)
  <2>1. InChain(d, x) => x = k \/ InChain(c, x)
    BY <1>1, <1>3 DEF InChain
  <2>2. x = k => InChain(d, x)
    BY <1>1, <1>2 DEF InChain
  <2>3. InChain(c, x) => InChain(d, x)
    <3> SUFFICES ASSUME NEW j \in DOMAIN c, c[j] = x PROVE InChain(d, x)
      BY DEF InChain
    <3>1. j + 1 \in DOMAIN d /\ d[j + 1] = x
      BY <1>1, <1>2
    <3> QED BY <3>1 DEF InChain
  <2> QED BY <2>1, <2>2, <2>3
<1> QED BY <1>1, <1>4, <1>5 DEF d, KeyChain

LEMMA WithoutIs ==
  ASSUME NEW c \in KeyChain, NEW p \in DOMAIN c, OnceEach(c)
  PROVE  /\ Without(c, p) \in KeyChain /\ OnceEach(Without(c, p))
         /\ \A x : InChain(Without(c, p), x) <=> InChain(c, x) /\ x # c[p]
         /\ \A j \in DOMAIN Without(c, p) : j \in Nat /\ (j >= p => j + 1 \in DOMAIN c /\ Without(c, p)[j] = c[j + 1])
         /\ \A j \in DOMAIN c : j > p => j - 1 \in DOMAIN Without(c, p) /\ j - 1 >= p /\ Without(c, p)[j - 1] = c[j]
<1> DEFINE d == Without(c, p)
           f == [j \in 1 .. Len(c) - 1 |-> IF j < p THEN j ELSE j + 1]
<1>1. /\ Len(c) \in Nat /\ DOMAIN c = 1 .. Len(c) /\ \A j \in DOMAIN c : c[j] \in Key
      /\ p \in Nat /\ Len(c) - 1 \in Nat
  BY DEF KeyChain
<1>2. \A j \in 1 .. Len(c) - 1 :
        /\ f[j] \in DOMAIN c /\ f[j] # p /\ d[j] = c[f[j]] /\ j \in Nat
        /\ j < p => f[j] = j
        /\ j >= p => f[j] = j + 1
  BY <1>1 DEF Without
<1>3. DOMAIN d = 1 .. Len(c) - 1
  BY DEF Without
<1>4. d \in KeyChain
  <2>1. d = [j \in 1 .. Len(c) - 1 |-> d[j]]
    BY DEF Without
  <2>2. \A j \in 1 .. Len(c) - 1 : d[j] \in Key
    BY <1>1, <1>2
  <2> HIDE DEF d
  <2>3. d \in [1 .. Len(c) - 1 -> Key]
    BY <2>1, <2>2, Zenon
  <2> QED BY <1>1, <2>3 DEF KeyChain
<1> HIDE DEF d, f
<1>5. ASSUME NEW j \in DOMAIN d, NEW l \in DOMAIN d, d[j] = d[l] PROVE j = l
  <2>1. f[j] = f[l]
    BY <1>2, <1>3, <1>5 DEF OnceEach
  <2>2. \A m \in DOMAIN d : /\ m \in Nat /\ (m < p \/ m >= p)
                            /\ m < p => f[m] = m
                            /\ m >= p => f[m] = m + 1
    <3> TAKE m \in DOMAIN d
    <3>1. m \in 1 .. Len(c) - 1
      BY <1>3
    <3>2. m < p \/ m >= p
      BY <1>1, <3>1
    <3> QED BY <1>2, <3>1, <3>2
  <2>3. j \in Nat /\ ((f[j] = j /\ j < p) \/ (f[j] = j + 1 /\ j >= p))
    BY <2>2, Zenon
  <2>4. l \in Nat /\ ((f[l] = l /\ l < p) \/ (f[l] = l + 1 /\ l >= p))
    BY <2>2, Zenon
  <2>5. p \in Nat
    BY <1>1
  <2> DEFINE a == f[j]
             b == f[l]
  <2>6. a = b /\ ((a = j /\ j < p) \/ (a = j + 1 /\ j >= p)) /\ ((b = l /\ l < p) \/ (b = l + 1 /\ l >= p))
    BY <2>1, <2>3, <2>4
  <2> HIDE DEF a, b
  <2> QED BY <2>3, <2>4, <2>5, <2>6
<1>6. \A j \in DOMAIN c : /\ j < p => j \in DOMAIN d /\ d[j] = c[j]
                          /\ j > p => j - 1 \in DOMAIN d /\ j - 1 >= p /\ d[j - 1] = c[j]
  <2> TAKE j \in DOMAIN c
  <2>1. CASE j < p
    BY <1>1, <1>2, <1>3, <2>1
  <2>2. CASE j > p
    <3>1. j - 1 \in 1 .. Len(c) - 1 /\ j - 1 >= p
      BY <1>1, <2>2
    <3>2. f[j - 1] = (j - 1) + 1
      BY <1>2, <3>1
    <3> QED BY <1>1, <1>2, <1>3, <2>2, <3>1, <3>2
  <2>3. CASE j = p
    BY <1>1, <2>3
  <2> QED BY <1>1, <2>1, <2>2, <2>3
<1>7. ASSUME NEW x PROVE InChain(d, x) <=> InChain(c, x) /\ x # c[p]
  <2>1. InChain(d, x) => InChain(c, x) /\ x # c[p]
    BY <1>2, <1>3 DEF InChain, OnceEach
  <2>2. ASSUME InChain(c, x), x # c[p] PROVE InChain(d, x)
    <3>1. PICK j \in DOMAIN c : c[j] = x
      BY <2>2 DEF InChain
    <3>2. j < p \/ j > p
      BY <1>1, <2>2, <3>1
    <3> QED BY <1>6, <3>1, <3>2 DEF InChain
  <2> QED BY <2>1, <2>2
<1>8. \A j \in DOMAIN d : j \in Nat /\ (j >= p => j + 1 \in DOMAIN c /\ d[j] = c[j + 1])
  BY <1>2, <1>3
<1> QED BY <1>4, <1>5, <1>6, <1>7, <1>8 DEF OnceEach, d

LEMMA TailIs ==
  ASSUME NEW c \in KeyChain, c # <<>>, OnceEach(c)
  PROVE  /\ Tail(c) \in KeyChain /\ OnceEach(Tail(c)) /\ Head(c) \in Key /\ InChain(c, Head(c))
         /\ \A x : InChain(Tail(c), x) <=> InChain(c, x) /\ x # Head(c)
<1> DEFINE d == Tail(c)
<1>1. /\ Len(c) \in Nat /\ Len(c) >= 1 /\ DOMAIN c = 1 .. Len(c) /\ Head(c) = c[1] /\ c[1] \in Key
      /\ d \in Seq(Key) /\ DOMAIN d = 1 .. Len(c) - 1
      /\ \A j \in 1 .. Len(c) - 1 : d[j] = c[j + 1]
  BY DEF KeyChain
<1> HIDE DEF d
<1>2. \A j \in DOMAIN d : j + 1 \in DOMAIN c /\ j + 1 # 1 /\ d[j] = c[j + 1] /\ j \in Nat
  BY <1>1
<1>3. ASSUME NEW j \in DOMAIN d, NEW l \in DOMAIN d, d[j] = d[l] PROVE j = l
  <2>1. j + 1 = l + 1
    BY <1>2, <1>3 DEF OnceEach
  <2> QED BY <1>2, <2>1
<1>4. ASSUME NEW x PROVE InChain(d, x) <=> InChain(c, x) /\ x # Head(c)
  <2>1. InChain(d, x) => InChain(c, x) /\ x # c[1]
    BY <1>1, <1>2 DEF InChain, OnceEach
  <2>2. ASSUME InChain(c, x), x # c[1] PROVE InChain(d, x)
    <3>1. PICK j \in DOMAIN c : c[j] = x
      BY <2>2 DEF InChain
    <3>2. j - 1 \in DOMAIN d /\ d[j - 1] = c[(j - 1) + 1] /\ (j - 1) + 1 = j
      BY <1>1, <2>2, <3>1
    <3> QED BY <3>1, <3>2 DEF InChain
  <2> QED BY <1>1, <2>1, <2>2
<1> QED BY <1>1, <1>3, <1>4 DEF OnceEach, InChain, KeyChain, d

-----------------------------------------------------------------------------
(* Chains in tables *)

LEMMA TableIn ==
  ASSUME NEW n \in Nat \ {0}, NEW t, Table(t, n), NEW k \in Key, ~Stores(t, n, k),
         NEW u, u = [t EXCEPT ![Slot(k, n)] = InFront(k, @)]
  PROVE  Table(u, n) /\ \A x \in Key : Stores(u, n, x) <=> x = k \/ Stores(t, n, x)
<1> DEFINE i == Slot(k, n)
           d == InFront(k, t[i])
<1>1. i \in 0 .. n - 1 /\ t[i] \in KeyChain /\ OnceEach(t[i]) /\ ~InChain(t[i], k)
  BY SlotIn DEF Table, Stores
<1>2. d \in KeyChain /\ OnceEach(d) /\ \A x : InChain(d, x) <=> x = k \/ InChain(t[i], x)
  BY <1>1, InFrontIs
<1>3. u = [t EXCEPT ![i] = d] /\ t \in [0 .. n - 1 -> KeyChain]
  BY DEF Table
<1> HIDE DEF i, d
<1>4. u \in [0 .. n - 1 -> KeyChain] /\ u[i] = d /\ \A j \in 0 .. n - 1 : j # i => u[j] = t[j]
  BY <1>1, <1>2, <1>3
<1>5. Table(u, n)
  BY <1>1, <1>2, <1>4 DEF Table, i
<1>6. ASSUME NEW x \in Key PROVE Stores(u, n, x) <=> x = k \/ Stores(t, n, x)
  <2>1. CASE Slot(x, n) = i
    BY <1>2, <1>4, <2>1 DEF Stores
  <2>2. CASE Slot(x, n) # i
    BY <1>4, <2>2, SlotIn DEF Stores, i
  <2> QED BY <2>1, <2>2
<1> QED BY <1>5, <1>6

LEMMA TableOut ==
  ASSUME NEW n \in Nat \ {0}, NEW t, Table(t, n), NEW i \in 0 .. n - 1, NEW d \in KeyChain, OnceEach(d),
         NEW h \in Key, InChain(t[i], h),
         \A x : InChain(d, x) <=> InChain(t[i], x) /\ x # h,
         NEW u, u = [t EXCEPT ![i] = d]
  PROVE  Table(u, n) /\ Slot(h, n) = i /\ \A x \in Key : Stores(u, n, x) <=> Stores(t, n, x) /\ x # h
<1>1. t \in [0 .. n - 1 -> KeyChain] /\ Slot(h, n) = i
  BY DEF Table
<1>2. u \in [0 .. n - 1 -> KeyChain] /\ u[i] = d /\ \A j \in 0 .. n - 1 : j # i => u[j] = t[j]
  BY <1>1
<1>3. Table(u, n)
  BY <1>2 DEF Table
<1>4. ASSUME NEW x \in Key PROVE Stores(u, n, x) <=> Stores(t, n, x) /\ x # h
  <2>1. CASE Slot(x, n) = i
    BY <1>2, <2>1 DEF Stores
  <2>2. CASE Slot(x, n) # i
    BY <1>1, <1>2, <2>2, SlotIn DEF Stores
  <2> QED BY <2>1, <2>2
<1> QED BY <1>1, <1>3, <1>4

LEMMA EmptyIs ==
  ASSUME NEW n \in Nat \ {0}
  PROVE  Table(EmptyTable(n), n) /\ \A k \in Key : ~Stores(EmptyTable(n), n, k)
<1>1. <<>> \in KeyChain /\ DOMAIN <<>> = {}
  BY DEF KeyChain
<1>2. \A x : ~InChain(<<>>, x)
  BY <1>1 DEF InChain
<1>3. \A i \in 0 .. n - 1 : EmptyTable(n)[i] = <<>>
  BY DEF EmptyTable
<1>4. Table(EmptyTable(n), n)
  BY <1>1, <1>2, <1>3 DEF Table, EmptyTable, OnceEach
<1> QED BY <1>2, <1>3, <1>4, SlotIn DEF Stores

-----------------------------------------------------------------------------
(* The steps *)

LEMMA FindIs == \A s, k : SetFind(s, k) <=> Stores(s.table, s.size, k)
BY DEF SetFind, Stores, InChain

LEMMA KeysFinite ==
  ASSUME NEW S, S \subseteq Key
  PROVE  IsFiniteSet(S) /\ Cardinality(S) \in Nat /\ Cardinality(S) <= Cardinality(Key)
BY HashSetAssumption, FS_Subset, FS_CardinalityType

LEMMA GivenFinite ==
  ASSUME given \subseteq Key
  PROVE  IsFiniteSet(given) /\ Cardinality(given) \in Nat /\ Cardinality(given) <= Cardinality(Key)
BY KeysFinite

LEMMA UnusedBinIs ==
  ASSUME SetInv, NEW s, s = UnusedBin(hset)
  PROVE  /\ DOMAIN s = DOMAIN hset /\ s.table = hset.table /\ s.size = hset.size
         /\ s.entries = hset.entries /\ s.pooled \in Nat /\ s.buffers \in Nat
         /\ s.entries + 1 + s.pooled = s.buffers * BinsPerBuffer
<1>0. /\ DOMAIN hset = {"size", "table", "entries", "pooled", "buffers"}
      /\ hset.entries \in Nat /\ hset.pooled \in Nat /\ hset.buffers \in Nat
      /\ hset.entries + hset.pooled = hset.buffers * BinsPerBuffer
      /\ BinsPerBuffer \in Nat \ {0}
  BY HashSetAssumption DEF SetInv, SetTyped, Counted
<1>1. CASE hset.pooled > 0
  <2>1. s = [hset EXCEPT !.pooled = @ - 1]
    BY <1>1 DEF UnusedBin
  <2>2. /\ DOMAIN s = DOMAIN hset /\ s.table = hset.table /\ s.size = hset.size
        /\ s.entries = hset.entries /\ s.pooled = hset.pooled - 1 /\ s.buffers = hset.buffers
    BY <1>0, <2>1
  <2> QED BY <1>0, <1>1, <2>2
<1>2. CASE ~(hset.pooled > 0)
  <2>1. s = [hset EXCEPT !.buffers = @ + 1, !.pooled = BinsPerBuffer - 1]
    BY <1>2 DEF UnusedBin
  <2>2. /\ DOMAIN s = DOMAIN hset /\ s.table = hset.table /\ s.size = hset.size
        /\ s.entries = hset.entries /\ s.pooled = BinsPerBuffer - 1 /\ s.buffers = hset.buffers + 1
    BY <1>0, <2>1
  <2>3. (hset.buffers + 1) * BinsPerBuffer = hset.buffers * BinsPerBuffer + BinsPerBuffer
    BY <1>0
  <2>4. hset.pooled = 0
    BY <1>0, <1>2
  <2> DEFINE m == hset.buffers * BinsPerBuffer
  <2>5. m = hset.entries /\ s.buffers * BinsPerBuffer = m + BinsPerBuffer
    BY <1>0, <2>2, <2>3, <2>4
  <2> HIDE DEF m
  <2>6. s.entries + 1 + s.pooled = s.buffers * BinsPerBuffer
    BY <1>0, <2>2, <2>5
  <2> QED BY <1>0, <2>2, <2>6
<1> QED BY <1>1, <1>2

\* What is created is stored, counted, and takes a bin.
LEMMA CreateHolds ==
  ASSUME SetInv, loop.op = "none", NEW k \in Key, ~SetFind(hset, k),
         hset' = Create(UnusedBin(hset), k), given' = given \cup {k}
  PROVE  /\ SetTyped' \/ DOMAIN loop' # DOMAIN loop \/ loop'.op \notin {"none", "resize", "filter"}
         /\ Counted' /\ hset'.entries = hset.entries + 1 /\ hset'.size = hset.size
         /\ \A x \in Key : Stores(hset'.table, hset'.size, x) <=> x \in given'
<1> DEFINE s == UnusedBin(hset)
           i == Slot(k, hset.size)
<1>1. /\ DOMAIN s = {"size", "table", "entries", "pooled", "buffers"}
      /\ s.table = hset.table /\ s.size = hset.size
      /\ s.entries = hset.entries /\ s.pooled \in Nat /\ s.buffers \in Nat
      /\ s.entries + 1 + s.pooled = s.buffers * BinsPerBuffer
  BY UnusedBinIs DEF SetInv, SetTyped
<1>2. hset' = [s EXCEPT !.table[Slot(k, s.size)] = InFront(k, @), !.entries = @ + 1]
  BY DEF Create
<1> HIDE DEF s
<1>3. /\ DOMAIN hset' = {"size", "table", "entries", "pooled", "buffers"}
      /\ hset'.table = [hset.table EXCEPT ![i] = InFront(k, @)]
      /\ hset'.entries = hset.entries + 1 /\ hset'.size = hset.size
      /\ hset'.pooled = s.pooled /\ hset'.buffers = s.buffers
  BY <1>1, <1>2
<1>4. /\ hset.size \in Nat \ {0} /\ SizeOf(hset.size) /\ hset.entries \in Nat
      /\ Table(hset.table, hset.size) /\ given \subseteq Key /\ ~Stores(hset.table, hset.size, k)
      /\ \A x \in Key : Stores(hset.table, hset.size, x) <=> x \in given
  BY FindIs DEF SetInv, SetTyped, Settled
<1>5. /\ Table(hset'.table, hset.size)
      /\ \A x \in Key : Stores(hset'.table, hset.size, x) <=> x = k \/ Stores(hset.table, hset.size, x)
  BY <1>3, <1>4, TableIn
<1>6. k \notin given /\ given' \subseteq Key
  BY <1>4
<1>7. Cardinality(given') = Cardinality(given) + 1
  BY <1>4, <1>6, GivenFinite, FS_AddElement
<1>8. Counted'
  BY <1>1, <1>3, <1>7 DEF SetInv, Counted
<1>9. SetTyped' \/ DOMAIN loop' # DOMAIN loop \/ loop'.op \notin {"none", "resize", "filter"}
  BY <1>1, <1>3, <1>4, <1>5, <1>6 DEF SetTyped, SetInv
<1>10. \A x \in Key : Stores(hset'.table, hset'.size, x) <=> x \in given'
  BY <1>3, <1>4, <1>5
<1> QED BY <1>3, <1>8, <1>9, <1>10

LEMMA InsertKeeps ==
  ASSUME SetInv, NEW k \in Key, SetInsert(k)
  PROVE  SetInv'
<1>0. loop.op = "none" /\ given' = given \cup {k} /\ loop = NoLoop
  BY DEF SetInsert, SetInv
<1>1. CASE SetFind(hset, k)
  <2>1. UNCHANGED <<hset, loop>>
    BY <1>1 DEF SetInsert
  <2>2. given' = given
    BY <1>0, <1>1, FindIs DEF SetInv, Settled
  <2> QED BY <2>1, <2>2 DEF SetInv, SetTyped, Counted, Settled, Resizing, Filtering, Ahead
<1>2. CASE ~SetFind(hset, k)
  <2>1. /\ hset' = Create(UnusedBin(hset), k)
        /\ loop' = IF SetFull(hset') THEN Resize(NextPrime(hset.size + 1)) ELSE loop
    BY <1>2 DEF SetInsert
  <2>2. /\ SetTyped' \/ DOMAIN loop' # DOMAIN loop \/ loop'.op \notin {"none", "resize", "filter"}
        /\ Counted' /\ hset'.entries = hset.entries + 1 /\ hset'.size = hset.size
        /\ \A x \in Key : Stores(hset'.table, hset'.size, x) <=> x \in given'
    BY <1>0, <1>2, <2>1, CreateHolds
  <2>3. hset.entries \in Nat /\ hset.size \in Nat \ {0} /\ hset.entries < hset.size /\ SizeOf(hset.size)
        /\ DOMAIN loop = {"op", "i", "at", "due", "size", "table"}
    BY <1>0 DEF SetInv, SetTyped, Settled
  <2>4. CASE ~SetFull(hset')
    <3>1. loop' = loop
      BY <2>1, <2>4
    <3>2. Settled'
      BY <2>2, <2>3, <2>4 DEF SetFull, Settled
    <3>3. SetTyped'
      BY <1>0, <2>2, <3>1
    <3> QED BY <1>0, <2>2, <3>1, <3>2, <3>3 DEF SetInv
  <2>5. CASE SetFull(hset')
    <3> DEFINE n == NextPrime(hset.size + 1)
    <3>1. hset'.entries = hset.size
      BY <2>2, <2>3, <2>5 DEF SetFull
    <3>2. SetTyped' => hset.size <= Cardinality(Key)
      <4> SUFFICES ASSUME SetTyped' PROVE hset.size <= Cardinality(Key)
        OBVIOUS
      <4>1. given' \subseteq Key
        BY DEF SetTyped
      <4>2. Cardinality(given') <= Cardinality(Key)
        BY <4>1, KeysFinite
      <4>3. hset'.entries = Cardinality(given')
        BY <2>2 DEF Counted
      <4> QED BY <3>1, <4>2, <4>3
    <3>3. loop' = [NoLoop EXCEPT !.op = "resize", !.size = n, !.table = EmptyTable(n)]
      BY <2>1, <2>5 DEF Resize
    <3> HIDE DEF n
    <3>4. /\ DOMAIN loop' = DOMAIN loop /\ loop'.op = "resize" /\ loop'.i = 0
          /\ loop'.size = n /\ loop'.table = EmptyTable(n)
      BY <1>0, <3>3 DEF NoLoop
    <3>5. SetTyped'
      BY <2>2, <3>4
    <3>6. SizeOf(n) /\ n > hset.size /\ n \in Nat \ {0}
      BY <2>3, <3>2, <3>5, NextPrimeIs, SizesPositive DEF n
    <3>7. Table(EmptyTable(n), n) /\ \A x \in Key : ~Stores(EmptyTable(n), n, x)
      BY <3>6, EmptyIs
    <3>8. Resizing'
      <4>1. loop'.i \in 0 .. hset'.size /\ \A j \in 0 .. hset'.size - 1 : ~(j < loop'.i)
        BY <2>2, <2>3, <3>4
      <4> QED BY <2>2, <3>1, <3>4, <3>6, <3>7, <4>1 DEF Resizing
    <3> QED BY <2>2, <3>4, <3>5, <3>8 DEF SetInv
  <2> QED BY <2>4, <2>5
<1> QED BY <1>1, <1>2

\* A bin that goes back to the pool takes its key with it, and nothing else.
LEMMA RecycleHolds ==
  ASSUME SetInv, loop.op # "resize", NEW i \in 0 .. hset.size - 1, NEW p \in DOMAIN hset.table[i],
         hset' = RecycleBin(hset, i, p), given' = given \ {hset.table[i][p]}
  PROVE  /\ hset'.table = [hset.table EXCEPT ![i] = Without(@, p)] /\ hset'.size = hset.size
         /\ Table(hset.table, hset.size) /\ Table(hset'.table, hset'.size)
         /\ hset.table[i] \in KeyChain /\ OnceEach(hset.table[i])
         /\ hset.table[i][p] \in given /\ hset.table[i][p] \in Key
         /\ Slot(hset.table[i][p], hset.size) = i
         /\ Counted' /\ Settled'
         /\ SetTyped' \/ DOMAIN loop' # DOMAIN loop \/ loop'.op \notin {"none", "resize", "filter"}
<1> DEFINE c == hset.table[i]
           h == c[p]
           d == Without(c, p)
<1>1. /\ DOMAIN hset = {"size", "table", "entries", "pooled", "buffers"}
      /\ hset.size \in Nat \ {0} /\ SizeOf(hset.size) /\ hset.entries \in Nat /\ hset.pooled \in Nat
      /\ hset.buffers \in Nat /\ Table(hset.table, hset.size) /\ given \subseteq Key
      /\ hset.entries < hset.size
      /\ \A k \in Key : Stores(hset.table, hset.size, k) <=> k \in given
      /\ hset.entries = Cardinality(given)
      /\ hset.entries + hset.pooled = hset.buffers * BinsPerBuffer
  BY DEF SetInv, SetTyped, Settled, Counted
<1>2. c \in KeyChain /\ OnceEach(c) /\ InChain(c, h)
  BY <1>1 DEF Table, InChain
<1>3. h \in Key
  BY <1>2 DEF KeyChain
<1>4. d \in KeyChain /\ OnceEach(d) /\ \A x : InChain(d, x) <=> InChain(c, x) /\ x # h
  BY <1>2, WithoutIs
<1>5. /\ DOMAIN hset' = DOMAIN hset
      /\ hset'.table = [hset.table EXCEPT ![i] = Without(@, p)]
      /\ hset'.size = hset.size /\ hset'.entries = hset.entries - 1
      /\ hset'.pooled = hset.pooled + 1 /\ hset'.buffers = hset.buffers
  BY <1>1 DEF RecycleBin
<1>6. hset'.table = [hset.table EXCEPT ![i] = d]
  BY <1>1, <1>5 DEF Table
<1> HIDE DEF c, d, h
<1>7. /\ Table(hset'.table, hset.size) /\ Slot(h, hset.size) = i
      /\ \A x \in Key : Stores(hset'.table, hset.size, x) <=> Stores(hset.table, hset.size, x) /\ x # h
  BY <1>1, <1>2, <1>3, <1>4, <1>6, TableOut DEF c
<1>8. h \in given
  BY <1>1, <1>2, <1>3, <1>7 DEF Stores, c
<1>9. Cardinality(given \ {h}) = Cardinality(given) - 1 /\ Cardinality(given) \in Nat
  BY <1>1, <1>8, GivenFinite, FS_RemoveElement
<1>10. hset.entries >= 1
  <2>1. given # {} /\ IsFiniteSet(given)
    BY <1>1, <1>8, GivenFinite
  <2>2. Cardinality(given) # 0
    BY <2>1, FS_EmptySet
  <2> QED BY <1>1, <2>2
<1>11. given' = given \ {h}
  BY DEF h, c
<1>12. Counted'
  <2>1. hset'.entries + hset'.pooled = hset'.buffers * BinsPerBuffer
    BY <1>1, <1>5
  <2> QED BY <1>1, <1>5, <1>9, <1>11, <2>1 DEF Counted
<1>13. Settled'
  BY <1>1, <1>5, <1>7, <1>11 DEF Settled
<1>14. SetTyped' \/ DOMAIN loop' # DOMAIN loop \/ loop'.op \notin {"none", "resize", "filter"}
  BY <1>1, <1>5, <1>7, <1>10, <1>11 DEF SetTyped, SetInv
<1> QED BY <1>1, <1>2, <1>3, <1>5, <1>7, <1>8, <1>12, <1>13, <1>14 DEF c, h

LEMMA RemoveKeeps ==
  ASSUME SetInv, NEW k \in Key, SetRemove(k)
  PROVE  SetInv'
<1> DEFINE i == Slot(k, hset.size)
<1>0. loop.op = "none" /\ given' = given \ {k} /\ loop' = loop /\ loop = NoLoop
  BY DEF SetRemove, SetInv
<1>1. CASE ~SetFind(hset, k) /\ UNCHANGED hset
  <2>1. given' = given
    BY <1>0, <1>1, FindIs DEF SetInv, Settled
  <2> QED BY <1>0, <1>1, <2>1 DEF SetInv, SetTyped, Counted, Settled
<1>2. ASSUME NEW p \in DOMAIN hset.table[i], hset.table[i][p] = k, hset' = RecycleBin(hset, i, p)
      PROVE  SetInv'
  <2>1. i \in 0 .. hset.size - 1
    BY SlotIn DEF SetInv, SetTyped
  <2> HIDE DEF i
  <2>2. /\ Counted' /\ Settled'
        /\ SetTyped' \/ DOMAIN loop' # DOMAIN loop \/ loop'.op \notin {"none", "resize", "filter"}
    BY <1>0, <1>2, <2>1, RecycleHolds
  <2>3. SetTyped'
    BY <1>0, <2>2
  <2> QED BY <1>0, <2>2, <2>3 DEF SetInv
<1> QED BY <1>1, <1>2 DEF SetRemove

LEMMA ResizeKeeps ==
  ASSUME SetInv, ResizeStep
  PROVE  SetInv'
<1>0. /\ DOMAIN hset = {"size", "table", "entries", "pooled", "buffers"}
      /\ DOMAIN loop = {"op", "i", "at", "due", "size", "table"}
      /\ loop.op = "resize" /\ given' = given
      /\ hset.size \in Nat \ {0} /\ SizeOf(hset.size)
      /\ Table(hset.table, hset.size) /\ SetTyped /\ Counted /\ Resizing
      /\ loop.i \in 0 .. hset.size /\ loop.size \in Nat \ {0} /\ Table(loop.table, loop.size)
  BY DEF SetInv, SetTyped, Resizing, ResizeStep
<1>1. CASE loop.i = hset.size
  <2>1. hset' = [hset EXCEPT !.size = loop.size, !.table = loop.table] /\ loop' = NoLoop
    BY <1>1 DEF ResizeStep
  <2>2. /\ DOMAIN hset' = DOMAIN hset /\ hset'.size = loop.size /\ hset'.table = loop.table
        /\ hset'.entries = hset.entries /\ hset'.pooled = hset.pooled /\ hset'.buffers = hset.buffers
    BY <1>0, <2>1
  <2>3. DOMAIN loop' = DOMAIN loop /\ loop'.op = "none"
    BY <1>0, <2>1 DEF NoLoop
  <2>4. \A k \in Key : ~Stores(hset.table, hset.size, k)
    <3> TAKE k \in Key
    <3>1. Slot(k, hset.size) \in 0 .. hset.size - 1 /\ Slot(k, hset.size) < loop.i
      BY <1>0, <1>1, SlotIn
    <3>2. hset.table[Slot(k, hset.size)] = <<>>
      BY <1>0, <3>1 DEF Resizing
    <3> QED BY <3>2 DEF Stores, InChain
  <2>5. Settled'
    BY <1>0, <2>2, <2>4 DEF Resizing, Settled
  <2>6. SetTyped' /\ Counted'
    BY <1>0, <2>2, <2>3 DEF SetTyped, Counted, Resizing
  <2> QED BY <2>1, <2>3, <2>5, <2>6 DEF SetInv
<1>2. CASE loop.i # hset.size /\ hset.table[loop.i] = <<>>
  <2>1. loop' = [loop EXCEPT !.i = @ + 1] /\ hset' = hset
    BY <1>2 DEF ResizeStep
  <2>2. /\ DOMAIN loop' = DOMAIN loop /\ loop'.op = "resize" /\ loop'.i = loop.i + 1
        /\ loop'.size = loop.size /\ loop'.table = loop.table
    BY <1>0, <2>1
  <2>3. loop'.i \in 0 .. hset.size
    BY <1>0, <1>2, <2>2
  <2>4. \A j \in 0 .. hset.size - 1 : j < loop'.i => hset.table[j] = <<>>
    <3> SUFFICES ASSUME NEW j \in 0 .. hset.size - 1, j < loop'.i PROVE hset.table[j] = <<>>
      OBVIOUS
    <3>1. j < loop.i \/ j = loop.i
      BY <1>0, <2>2
    <3> QED BY <1>0, <1>2, <3>1 DEF Resizing
  <2>5. Resizing'
    BY <1>0, <2>1, <2>2, <2>3, <2>4 DEF Resizing
  <2>6. SetTyped' /\ Counted'
    BY <1>0, <2>1, <2>2 DEF SetTyped, Counted
  <2> QED BY <2>2, <2>5, <2>6 DEF SetInv
<1>3. CASE loop.i # hset.size /\ hset.table[loop.i] # <<>>
  <2> DEFINE c == hset.table[loop.i]
             h == Head(c)
             d == Tail(c)
  <2>1. /\ hset' = [hset EXCEPT !.table[loop.i] = Tail(@)]
        /\ loop' = [loop EXCEPT !.table[Slot(h, loop.size)] = InFront(h, @)]
    BY <1>3 DEF ResizeStep, MoveBin
  <2>2. loop.i \in 0 .. hset.size - 1
    BY <1>0, <1>3
  <2>3. c \in KeyChain /\ OnceEach(c) /\ hset.table \in [0 .. hset.size - 1 -> KeyChain]
    BY <1>0, <2>2 DEF Table
  <2>4. /\ d \in KeyChain /\ OnceEach(d) /\ h \in Key /\ InChain(c, h)
        /\ \A x : InChain(d, x) <=> InChain(c, x) /\ x # h
    BY <1>3, <2>3, TailIs
  <2>5. /\ DOMAIN hset' = DOMAIN hset /\ hset'.table = [hset.table EXCEPT ![loop.i] = d]
        /\ hset'.size = hset.size
        /\ hset'.entries = hset.entries /\ hset'.pooled = hset.pooled /\ hset'.buffers = hset.buffers
    BY <1>0, <2>1, <2>2, <2>3
  <2>6. /\ DOMAIN loop' = DOMAIN loop /\ loop'.op = "resize" /\ loop'.i = loop.i
        /\ loop'.size = loop.size
        /\ loop'.table = [loop.table EXCEPT ![Slot(h, loop.size)] = InFront(h, @)]
    BY <1>0, <2>1
  <2> HIDE DEF d, h
  <2>7. /\ Table(hset'.table, hset.size) /\ Slot(h, hset.size) = loop.i
        /\ \A x \in Key : Stores(hset'.table, hset.size, x) <=> Stores(hset.table, hset.size, x) /\ x # h
    BY <1>0, <2>2, <2>4, <2>5, TableOut
  <2>8. Stores(hset.table, hset.size, h)
    BY <2>4, <2>7 DEF Stores
  <2>9. ~Stores(loop.table, loop.size, h) /\ h \in given
    BY <1>0, <2>4, <2>8 DEF Resizing
  <2>10. /\ Table(loop'.table, loop.size)
         /\ \A x \in Key : Stores(loop'.table, loop.size, x) <=> x = h \/ Stores(loop.table, loop.size, x)
    BY <1>0, <2>4, <2>6, <2>9, TableIn
  <2>11. \A k \in Key : /\ k \in given' <=> \/ Stores(hset'.table, hset'.size, k)
                                            \/ Stores(loop'.table, loop'.size, k)
                        /\ ~(Stores(hset'.table, hset'.size, k) /\ Stores(loop'.table, loop'.size, k))
    <3> TAKE k \in Key
    <3>1. /\ k \in given <=> Stores(hset.table, hset.size, k) \/ Stores(loop.table, loop.size, k)
          /\ ~(Stores(hset.table, hset.size, k) /\ Stores(loop.table, loop.size, k))
      BY <1>0 DEF Resizing
    <3>2. Stores(hset'.table, hset'.size, k) <=> Stores(hset.table, hset.size, k) /\ k # h
      BY <2>5, <2>7
    <3>3. Stores(loop'.table, loop'.size, k) <=> k = h \/ Stores(loop.table, loop.size, k)
      BY <2>6, <2>10
    <3> QED BY <1>0, <2>8, <2>9, <3>1, <3>2, <3>3
  <2>12. \A j \in 0 .. hset.size - 1 : j < loop.i => hset'.table[j] = <<>>
    <3> SUFFICES ASSUME NEW j \in 0 .. hset.size - 1, j < loop.i PROVE hset'.table[j] = <<>>
      OBVIOUS
    <3>1. hset.table[j] = <<>> /\ j # loop.i
      BY <1>0 DEF Resizing
    <3> QED BY <2>3, <2>5, <3>1
  <2>13. Resizing'
    BY <1>0, <2>5, <2>6, <2>10, <2>11, <2>12 DEF Resizing
  <2>14. SetTyped' /\ Counted'
    BY <1>0, <2>5, <2>6, <2>7 DEF SetTyped, Counted
  <2> QED BY <2>6, <2>13, <2>14 DEF SetInv
<1> QED BY <1>1, <1>2, <1>3

LEMMA FilterKeeps ==
  ASSUME SetInv, SetFilter
  PROVE  SetInv'
<1>0. /\ loop.op = "none" /\ hset' = hset /\ given' = given
      /\ loop' = [NoLoop EXCEPT !.op = "filter", !.due = given]
  BY DEF SetFilter
<1>1. /\ DOMAIN loop' = {"op", "i", "at", "due", "size", "table"}
      /\ loop'.op = "filter" /\ loop'.i = 0 /\ loop'.at = 1 /\ loop'.due = given
  BY <1>0 DEF NoLoop
<1>2. SetTyped' /\ Counted' /\ Settled'
  BY <1>0, <1>1 DEF SetInv, SetTyped, Counted, Settled
<1>3. /\ hset.size \in Nat \ {0} /\ given \subseteq Key /\ Table(hset.table, hset.size)
      /\ \A k \in Key : Stores(hset.table, hset.size, k) <=> k \in given
  BY <1>0 DEF SetInv, SetTyped, Settled
<1>4. ASSUME NEW k \in given PROVE Ahead(k)'
  <2>1. k \in Key /\ Slot(k, hset.size) \in 0 .. hset.size - 1 /\ InChain(hset.table[Slot(k, hset.size)], k)
    BY <1>3, SlotIn DEF Stores
  <2>2. CASE Slot(k, hset.size) = 0
    <3>1. PICK j \in DOMAIN hset.table[0] : hset.table[0][j] = k
      BY <2>1, <2>2 DEF InChain
    <3>2. hset.table[0] \in Seq(Key) /\ 0 < hset.size
      BY <1>3 DEF Table, KeyChain
    <3>3. j >= 1
      BY <3>1, <3>2
    <3> QED BY <1>0, <1>1, <3>1, <3>2, <3>3 DEF Ahead
  <2>3. CASE Slot(k, hset.size) # 0
    BY <1>0, <1>1, <1>3, <2>1, <2>3 DEF Ahead
  <2> QED BY <2>2, <2>3
<1>5. Filtering'
  <2>1. loop'.i \in 0 .. hset'.size /\ loop'.at \in Nat \ {0} /\ loop'.due \subseteq Key
    BY <1>0, <1>1, <1>3
  <2>2. \A k \in Key : k \in loop'.due <=> Ahead(k)'
    BY <1>0, <1>1, <1>4 DEF Ahead
  <2> QED BY <2>1, <2>2 DEF Filtering
<1> QED BY <1>1, <1>2, <1>5 DEF SetInv

LEMMA FilterBinKeeps ==
  ASSUME SetInv, NEW keep \in BOOLEAN, FilterBin(keep)
  PROVE  SetInv'
<1> DEFINE c == hset.table[loop.i]
           k == c[loop.at]
<1>0. /\ DOMAIN loop = {"op", "i", "at", "due", "size", "table"}
      /\ loop.op = "filter" /\ loop.i < hset.size /\ loop.at \in DOMAIN c
      /\ hset.size \in Nat \ {0} /\ loop.i \in 0 .. hset.size /\ given \subseteq Key
      /\ Table(hset.table, hset.size) /\ loop.at \in Nat \ {0} /\ loop.due \subseteq Key
      /\ \A x \in Key : x \in loop.due <=> Ahead(x)
      /\ \A x \in Key : Stores(hset.table, hset.size, x) <=> x \in given
  BY DEF FilterBin, SetInv, SetTyped, Filtering, Settled
<1>1. loop.i \in 0 .. hset.size - 1
  BY <1>0
<1>2. loop' = [loop EXCEPT !.at = IF keep THEN @ + 1 ELSE @, !.due = @ \ {k}]
  BY DEF FilterBin
<1>3. /\ DOMAIN loop' = DOMAIN loop /\ loop'.op = "filter" /\ loop'.i = loop.i
      /\ loop'.at = (IF keep THEN loop.at + 1 ELSE loop.at) /\ loop'.due = loop.due \ {k}
  BY <1>0, <1>2
<1>4. c \in KeyChain /\ OnceEach(c) /\ InChain(c, k) /\ c \in Seq(Key)
  BY <1>0, <1>1 DEF Table, InChain, KeyChain
<1>5. k \in Key /\ Slot(k, hset.size) = loop.i
  <2>1. k \in Key
    BY <1>0, <1>4
  <2> QED BY <1>0, <1>1, <1>4, <2>1 DEF Table
<1>6. ASSUME NEW x \in Key
      PROVE  Ahead(x) /\ x # k <=>
               /\ x \in given /\ x # k
               /\ \/ Slot(x, hset.size) > loop.i
                  \/ \E j \in DOMAIN c : j > loop.at /\ c[j] = x
  <2> DEFINE later == \E j \in DOMAIN c : j > loop.at /\ c[j] = x
             from  == \E j \in DOMAIN c : j >= loop.at /\ c[j] = x
  <2>1. x # k => (from <=> later)
    <3>1. \A j \in DOMAIN c : j \in Nat
      BY <1>4
    <3>2. ASSUME x # k, from PROVE later
      <4>1. PICK j \in DOMAIN c : j >= loop.at /\ c[j] = x
        BY <3>2
      <4>2. j # loop.at /\ j \in Nat
        BY <3>1, <3>2, <4>1
      <4> QED BY <1>0, <4>1, <4>2
    <3>3. later => from
      BY <1>0, <3>1
    <3> QED BY <3>2, <3>3
  <2>2. Ahead(x) <=> x \in given /\ (Slot(x, hset.size) > loop.i \/ from)
    BY <1>0 DEF Ahead
  <2> QED BY <2>1, <2>2
<1>7. CASE keep
  <2>1. hset' = hset /\ given' = given /\ loop'.at = loop.at + 1
    BY <1>3, <1>7 DEF FilterBin
  <2>2. SetTyped' /\ Counted' /\ Settled'
    BY <1>0, <1>3, <2>1 DEF SetInv, SetTyped, Counted, Settled
  <2>3. ASSUME NEW x \in Key PROVE x \in loop'.due <=> Ahead(x)'
    <3> DEFINE later == \E j \in DOMAIN c : j > loop.at /\ c[j] = x
               from  == \E j \in DOMAIN c : j >= loop.at + 1 /\ c[j] = x
    <3>1. from <=> later
      <4>1. \A j \in DOMAIN c : j \in Nat
        BY <1>4
      <4> QED BY <1>0, <4>1
    <3>2. Ahead(x)' <=> x \in given /\ (Slot(x, hset.size) > loop.i \/ from)
      BY <1>0, <1>3, <2>1 DEF Ahead
    <3>3. ~(Slot(k, hset.size) > loop.i)
      BY <1>0, <1>5
    <3>4. x = k => ~later
      <4> SUFFICES ASSUME NEW j \in DOMAIN c, j > loop.at, c[j] = k PROVE FALSE
        OBVIOUS
      <4>1. j = loop.at
        BY <1>0, <1>4 DEF OnceEach
      <4> QED BY <1>0, <4>1
    <3>5. x \in loop'.due <=> Ahead(x) /\ x # k
      BY <1>0, <1>3
    <3>6. Ahead(x) /\ x # k <=> x \in given /\ x # k /\ (Slot(x, hset.size) > loop.i \/ later)
      BY <1>6
    <3> HIDE DEF later, from, k
    <3> QED BY <3>1, <3>2, <3>3, <3>4, <3>5, <3>6
  <2>4. Filtering'
    <3>1. loop'.i \in 0 .. hset'.size /\ loop'.at \in Nat \ {0} /\ loop'.due \subseteq Key
      BY <1>0, <1>3, <2>1
    <3>2. \A x \in Key : x \in loop'.due <=> Ahead(x)'
      BY <2>3
    <3> QED BY <3>1, <3>2 DEF Filtering
  <2> QED BY <1>3, <2>2, <2>4 DEF SetInv
<1>8. CASE ~keep
  <2> DEFINE d == Without(c, loop.at)
  <2>1. hset' = RecycleBin(hset, loop.i, loop.at) /\ given' = given \ {k} /\ loop'.at = loop.at
    BY <1>3, <1>8 DEF FilterBin
  <2>2. /\ hset'.table = [hset.table EXCEPT ![loop.i] = Without(@, loop.at)] /\ hset'.size = hset.size
        /\ Counted' /\ Settled'
        /\ SetTyped' \/ DOMAIN loop' # DOMAIN loop \/ loop'.op \notin {"none", "resize", "filter"}
    BY <1>0, <1>1, <2>1, RecycleHolds
  <2>3. SetTyped'
    BY <1>3, <2>2
  <2>4. hset'.table[loop.i] = d
    BY <1>0, <1>1, <2>2 DEF Table
  <2>5. /\ \A j \in DOMAIN d : j \in Nat /\ (j >= loop.at => j + 1 \in DOMAIN c /\ d[j] = c[j + 1])
        /\ \A j \in DOMAIN c : j > loop.at => j - 1 \in DOMAIN d /\ j - 1 >= loop.at /\ d[j - 1] = c[j]
    BY <1>0, <1>4, WithoutIs
  <2> HIDE DEF d
  <2>6. ASSUME NEW x \in Key PROVE x \in loop'.due <=> Ahead(x)'
    <3> DEFINE later == \E j \in DOMAIN c : j > loop.at /\ c[j] = x
               from  == \E j \in DOMAIN d : j >= loop.at /\ d[j] = x
    <3>1. from => later
      <4> SUFFICES ASSUME NEW j \in DOMAIN d, j >= loop.at, d[j] = x PROVE later
        OBVIOUS
      <4>1. j \in Nat /\ j + 1 \in DOMAIN c /\ c[j + 1] = x
        BY <2>5
      <4>2. j + 1 > loop.at
        BY <1>0, <4>1
      <4> QED BY <4>1, <4>2
    <3>2. later => from
      BY <2>5
    <3>3. Ahead(x)' <=> x \in given /\ x # k /\ (Slot(x, hset.size) > loop.i \/ from)
      BY <1>0, <1>3, <2>1, <2>2, <2>4 DEF Ahead
    <3>4. x \in loop'.due <=> Ahead(x) /\ x # k
      BY <1>0, <1>3
    <3>5. Ahead(x) /\ x # k <=> x \in given /\ x # k /\ (Slot(x, hset.size) > loop.i \/ later)
      BY <1>6
    <3> HIDE DEF later, from, k
    <3> QED BY <3>1, <3>2, <3>3, <3>4, <3>5
  <2>7. Filtering'
    <3>1. loop'.i \in 0 .. hset'.size /\ loop'.at \in Nat \ {0} /\ loop'.due \subseteq Key
      BY <1>0, <1>3, <2>1, <2>2
    <3>2. \A x \in Key : x \in loop'.due <=> Ahead(x)'
      BY <2>6
    <3> QED BY <3>1, <3>2 DEF Filtering
  <2> QED BY <1>3, <2>2, <2>3, <2>7 DEF SetInv
<1> QED BY <1>7, <1>8

LEMMA FilterNextKeeps ==
  ASSUME SetInv, FilterNext
  PROVE  SetInv'
<1>0. /\ DOMAIN loop = {"op", "i", "at", "due", "size", "table"}
      /\ loop.op = "filter" /\ hset' = hset /\ given' = given
      /\ hset.size \in Nat \ {0} /\ loop.i \in 0 .. hset.size /\ given \subseteq Key
      /\ Table(hset.table, hset.size) /\ loop.at \in Nat \ {0} /\ loop.due \subseteq Key
      /\ \A x \in Key : x \in loop.due <=> Ahead(x)
      /\ \A x \in Key : Stores(hset.table, hset.size, x) <=> x \in given
  BY DEF FilterNext, SetInv, SetTyped, Filtering, Settled
<1>1. Counted' /\ Settled'
  BY <1>0 DEF SetInv, Counted, Settled
<1>2. CASE loop.i = hset.size
  <2>1. loop' = NoLoop
    BY <1>2 DEF FilterNext
  <2>2. DOMAIN loop' = DOMAIN loop /\ loop'.op = "none"
    BY <1>0, <2>1 DEF NoLoop
  <2>3. SetTyped'
    BY <1>0, <2>2 DEF SetInv, SetTyped
  <2> QED BY <1>1, <2>1, <2>2, <2>3 DEF SetInv
<1>3. CASE loop.i # hset.size
  <2> DEFINE c == hset.table[loop.i]
             d == hset.table[loop.i + 1]
  <2>1. loop.at > Len(c) /\ loop' = [loop EXCEPT !.i = @ + 1, !.at = 1]
    BY <1>3 DEF FilterNext
  <2>2. /\ DOMAIN loop' = DOMAIN loop /\ loop'.op = "filter" /\ loop'.i = loop.i + 1
        /\ loop'.at = 1 /\ loop'.due = loop.due
    BY <1>0, <2>1
  <2>3. loop.i \in 0 .. hset.size - 1
    BY <1>0, <1>3
  <2>4. c \in Seq(Key) /\ \A j \in DOMAIN c : ~(j >= loop.at)
    <3>1. c \in Seq(Key)
      BY <1>0, <2>3 DEF Table, KeyChain
    <3> QED BY <1>0, <2>1, <3>1
  <2>5. SetTyped'
    BY <1>0, <2>2 DEF SetInv, SetTyped
  <2>6. ASSUME NEW x \in Key PROVE Ahead(x) <=> Ahead(x)'
    <3> DEFINE from == \E j \in DOMAIN d : j >= 1 /\ d[j] = x
               n == Slot(x, hset.size)
    <3>1. Ahead(x) <=> x \in given /\ n > loop.i
      BY <1>0, <2>4 DEF Ahead
    <3>2. Ahead(x)' <=> x \in given /\ (n > loop.i + 1 \/ (loop.i + 1 < hset.size /\ from))
      BY <1>0, <2>2 DEF Ahead
    <3>3. n \in 0 .. hset.size - 1
      BY <1>0, SlotIn
    <3>4. ASSUME x \in given, n = loop.i + 1 PROVE loop.i + 1 < hset.size /\ from
      <4>1. loop.i + 1 \in 0 .. hset.size - 1
        BY <3>3, <3>4
      <4>2. d \in Seq(Key) /\ InChain(d, x)
        BY <1>0, <3>4, <4>1 DEF Table, KeyChain, Stores
      <4>3. PICK j \in DOMAIN d : d[j] = x
        BY <4>2 DEF InChain
      <4>4. j >= 1
        BY <4>2, <4>3
      <4> QED BY <1>0, <4>1, <4>3, <4>4
    <3>5. ASSUME loop.i + 1 < hset.size, from PROVE n = loop.i + 1
      <4>1. loop.i + 1 \in 0 .. hset.size - 1
        BY <1>0, <3>5
      <4>2. InChain(d, x)
        BY <3>5 DEF InChain
      <4> QED BY <1>0, <4>1, <4>2 DEF Table
    <3> HIDE DEF n, from
    <3> QED BY <1>0, <3>1, <3>2, <3>3, <3>4, <3>5
  <2>7. Filtering'
    <3>1. loop'.i \in 0 .. hset'.size /\ loop'.at \in Nat \ {0} /\ loop'.due \subseteq Key
      BY <1>0, <2>2, <2>3
    <3>2. \A x \in Key : x \in loop'.due <=> Ahead(x)'
      BY <1>0, <2>2, <2>6
    <3> QED BY <3>1, <3>2 DEF Filtering
  <2> QED BY <1>1, <2>2, <2>5, <2>7 DEF SetInv
<1> QED BY <1>2, <1>3

LEMMA SetInitHolds == SetInit => SetInv
<1> SUFFICES ASSUME SetInit PROVE SetInv
  OBVIOUS
<1> DEFINE n == NextPrime(0)
<1>1. /\ hset = [size |-> n, table |-> EmptyTable(n), entries |-> 0, pooled |-> 0, buffers |-> 0]
      /\ given = {} /\ loop = NoLoop
  BY DEF SetInit
<1>2. SizeOf(n) /\ n \in Nat \ {0}
  BY NextPrimeIs, SizesPositive
<1> HIDE DEF n
<1>3. Table(EmptyTable(n), n) /\ \A k \in Key : ~Stores(EmptyTable(n), n, k)
  BY <1>2, EmptyIs
<1>4. DOMAIN loop = {"op", "i", "at", "due", "size", "table"} /\ loop.op = "none"
  BY <1>1 DEF NoLoop
<1>5. /\ DOMAIN hset = {"size", "table", "entries", "pooled", "buffers"}
      /\ hset.size = n /\ hset.table = EmptyTable(n)
      /\ hset.entries = 0 /\ hset.pooled = 0 /\ hset.buffers = 0
  BY <1>1
<1>6. SetTyped
  BY <1>1, <1>2, <1>3, <1>4, <1>5 DEF SetTyped
<1>7. Counted
  <2>1. Cardinality(given) = 0
    BY <1>1, FS_EmptySet
  <2>2. 0 + 0 = 0 * BinsPerBuffer
    BY HashSetAssumption
  <2> QED BY <1>5, <2>1, <2>2 DEF Counted
<1>8. Settled
  BY <1>1, <1>2, <1>3, <1>5 DEF Settled
<1> QED BY <1>1, <1>4, <1>6, <1>7, <1>8 DEF SetInv

LEMMA SetNextHolds == SetInv /\ [SetNext]_setVars => SetInv'
<1> SUFFICES ASSUME SetInv, [SetNext]_setVars PROVE SetInv'
  OBVIOUS
<1>1. CASE \E k \in Key : SetInsert(k)
  BY <1>1, InsertKeeps
<1>2. CASE \E k \in Key : SetRemove(k)
  BY <1>2, RemoveKeeps
<1>3. CASE ResizeStep
  BY <1>3, ResizeKeeps
<1>4. CASE SetFilter
  BY <1>4, FilterKeeps
<1>5. CASE \E keep \in BOOLEAN : FilterBin(keep)
  BY <1>5, FilterBinKeeps
<1>6. CASE FilterNext
  BY <1>6, FilterNextKeeps
<1>7. CASE UNCHANGED setVars
  BY <1>7 DEF setVars, SetInv, SetTyped, Counted, Settled, Resizing, Filtering, Ahead
<1> QED BY <1>1, <1>2, <1>3, <1>4, <1>5, <1>6, <1>7 DEF SetNext

LEMMA SetInvFaithful == SetInv => SetFaithful
<1> SUFFICES ASSUME SetInv PROVE SetFaithful
  OBVIOUS
<1>0. hset.size \in Nat \ {0} /\ hset.entries \in Nat /\ Table(hset.table, hset.size) /\ given \subseteq Key
  BY DEF SetInv, SetTyped
<1>1. ASSUME loop.op # "resize"
      PROVE  ~SetFull(hset) /\ \A k \in Key : SetFind(hset, k) <=> k \in given
  BY <1>0, <1>1, FindIs DEF SetInv, Settled, SetFull
<1>2. ASSUME loop.op = "filter"
      PROVE  IF loop.i = hset.size THEN loop.due = {}
             ELSE loop.at \in DOMAIN hset.table[loop.i] => hset.table[loop.i][loop.at] \in loop.due
  <2>0. /\ loop.i \in 0 .. hset.size /\ loop.at \in Nat \ {0} /\ loop.due \subseteq Key
        /\ \A k \in Key : k \in loop.due <=> Ahead(k)
        /\ \A k \in Key : Stores(hset.table, hset.size, k) <=> k \in given
    BY <1>2 DEF SetInv, Filtering, Settled
  <2>1. ASSUME loop.i = hset.size PROVE loop.due = {}
    <3> SUFFICES ASSUME NEW k \in loop.due PROVE FALSE
      OBVIOUS
    <3>1. k \in Key /\ Ahead(k)
      BY <2>0
    <3>2. Slot(k, hset.size) \in 0 .. hset.size - 1
      BY <1>0, <3>1, SlotIn
    <3>3. Slot(k, hset.size) > hset.size
      BY <1>0, <2>1, <3>1 DEF Ahead
    <3> QED BY <1>0, <3>2, <3>3
  <2>2. ASSUME loop.i # hset.size, loop.at \in DOMAIN hset.table[loop.i]
        PROVE  hset.table[loop.i][loop.at] \in loop.due
    <3> DEFINE k == hset.table[loop.i][loop.at]
    <3>1. loop.i \in 0 .. hset.size - 1 /\ loop.i < hset.size
      BY <1>0, <2>0, <2>2
    <3>2. hset.table[loop.i] \in Seq(Key) /\ InChain(hset.table[loop.i], k)
      BY <1>0, <2>2, <3>1 DEF Table, KeyChain, InChain
    <3>3. k \in Key
      BY <2>2, <3>2
    <3>4. Slot(k, hset.size) = loop.i
      BY <1>0, <3>1, <3>2, <3>3 DEF Table
    <3>5. k \in given
      BY <2>0, <3>2, <3>3, <3>4 DEF Stores
    <3>6. Ahead(k)
      BY <2>0, <2>2, <3>1, <3>5 DEF Ahead
    <3> QED BY <2>0, <3>3, <3>6
  <2> QED BY <2>1, <2>2
<1>3. /\ hset.entries = Cardinality(given)
      /\ hset.entries + hset.pooled = hset.buffers * BinsPerBuffer
  BY DEF SetInv, Counted
<1> QED BY <1>1, <1>2, <1>3 DEF SetFaithful

\* The table of bins is the set that was put in, through collisions, resizing and
\* filtering, and no bin of the pool gets lost (cpHashSet.c).
THEOREM SetKept == SetSpec => []SetFaithful
<1>1. SetSpec => []SetInv
  BY SetInitHolds, SetNextHolds, PTL DEF SetSpec
<1> QED BY <1>1, SetInvFaithful, PTL

-----------------------------------------------------------------------------
(* The mass of a body *)

Less == {p \in Nat \X Nat : p[1] < p[2]}

\* Induction, for a set of numbers: a set with 0 and with every successor of its
\* members holds all of Nat.
LEMMA NumbersOf ==
  ASSUME NEW S, 0 \in S, \A n \in Nat : n \in S => n + 1 \in S
  PROVE  Nat \subseteq S
<1> SUFFICES ASSUME Nat \ S # {} PROVE FALSE
  OBVIOUS
<1> DEFINE T == Nat \ S
<1>1. T \subseteq Nat /\ T # {}
  OBVIOUS
<1> HIDE DEF T
<1>2. Less = OpToRel(<, Nat)
  BY Zenon DEF Less, OpToRel
<1>3. \E x \in T : \A y \in T : ~(<<y, x>> \in Less)
  BY <1>1, <1>2, NatLessThanWellFounded, WFMin, Zenon
<1>4. PICK x \in T : \A y \in T : ~(<<y, x>> \in Less)
  BY <1>3
<1>5. x \in Nat /\ x \notin S
  BY DEF T
<1>6. x # 0 /\ x - 1 \in Nat /\ x - 1 \notin S
  BY <1>5
<1>7. x - 1 \in T /\ <<x - 1, x>> \in Less
  BY <1>5, <1>6 DEF T, Less
<1> QED BY <1>4, <1>7

\* f[k] is the sum of the first k weights, up to n.
Prefix(n, w, f) == f[0] = 0 /\ \A k \in 1 .. n : f[k] = f[k - 1] + w[k]

\* There are such sums.
LEMMA PrefixExists ==
  ASSUME NEW w \in [Piece -> Int], BodyMassAssumption
  PROVE  \E f \in [0 .. MaxPiece -> Int] : Prefix(MaxPiece, w, f)
<1> DEFINE S == {n \in Nat : n <= MaxPiece => \E f \in [0 .. n -> Int] : Prefix(n, w, f)}
<1>0. MaxPiece \in Nat
  BY DEF BodyMassAssumption
<1>1. 0 \in S
  <2>1. [k \in 0 .. 0 |-> 0] \in [0 .. 0 -> Int] /\ Prefix(0, w, [k \in 0 .. 0 |-> 0])
    BY DEF Prefix
  <2> QED BY <2>1
<1>2. ASSUME NEW n \in Nat, n \in S PROVE n + 1 \in S
  <2> SUFFICES ASSUME n + 1 <= MaxPiece
               PROVE  \E f \in [0 .. n + 1 -> Int] : Prefix(n + 1, w, f)
    OBVIOUS
  <2>1. PICK f \in [0 .. n -> Int] : Prefix(n, w, f)
    BY <1>0, <1>2
  <2> DEFINE g == [k \in 0 .. n + 1 |-> IF k = n + 1 THEN f[n] + w[n + 1] ELSE f[k]]
  <2>2. w[n + 1] \in Int
    BY <1>0 DEF Piece
  <2>3. g \in [0 .. n + 1 -> Int]
    BY <2>1, <2>2
  <2>4. Prefix(n + 1, w, g)
    <3>1. g[0] = 0
      BY <2>1 DEF Prefix
    <3>2. ASSUME NEW k \in 1 .. n + 1 PROVE g[k] = g[k - 1] + w[k]
      <4>1. k \in 0 .. n + 1 /\ k - 1 \in 0 .. n + 1 /\ k - 1 # n + 1
        OBVIOUS
      <4>2. CASE k = n + 1
        <5>1. k - 1 = n
          BY <4>2
        <5> QED BY <4>1, <4>2, <5>1
      <4>3. CASE k # n + 1
        <5>1. k \in 1 .. n
          BY <4>3
        <5>2. f[k] = f[k - 1] + w[k]
          BY <2>1, <5>1 DEF Prefix
        <5> QED BY <4>1, <4>3, <5>2
      <4> QED BY <4>2, <4>3
    <3> QED BY <3>1, <3>2 DEF Prefix
  <2> QED BY <2>3, <2>4
<1>3. Nat \subseteq S
  <2> HIDE DEF S
  <2> QED BY <1>1, <1>2, NumbersOf
<1> QED BY <1>0, <1>3

\* Two functions that are sums of the same weights agree.
LEMMA PrefixUnique ==
  ASSUME NEW w \in [Piece -> Int], BodyMassAssumption, NEW f, NEW g,
         Prefix(MaxPiece, w, f), Prefix(MaxPiece, w, g)
  PROVE  f[MaxPiece] = g[MaxPiece]
<1> DEFINE S == {n \in Nat : n <= MaxPiece => f[n] = g[n]}
<1>0. MaxPiece \in Nat
  BY DEF BodyMassAssumption
<1>1. 0 \in S
  BY DEF Prefix
<1>2. ASSUME NEW n \in Nat, n \in S PROVE n + 1 \in S
  <2> SUFFICES ASSUME n + 1 <= MaxPiece PROVE f[n + 1] = g[n + 1]
    OBVIOUS
  <2>1. n + 1 \in 1 .. MaxPiece /\ (n + 1) - 1 = n /\ f[n] = g[n]
    BY <1>0, <1>2
  <2> QED BY <2>1 DEF Prefix
<1>3. Nat \subseteq S
  <2> HIDE DEF S
  <2> QED BY <1>1, <1>2, NumbersOf
<1> QED BY <1>0, <1>3

\* Total() is what any function of prefix sums ends with.
LEMMA TotalIs ==
  ASSUME NEW w \in [Piece -> Int], BodyMassAssumption,
         NEW f, Prefix(MaxPiece, w, f)
  PROVE  Total(w) = f[MaxPiece]
<1>0. MaxPiece \in Nat
  BY DEF BodyMassAssumption
<1> DEFINE Rule(h) == [k \in 0 .. MaxPiece |-> IF k = 0 THEN 0 ELSE h[k - 1] + w[k]]
           U == CHOOSE h : h = Rule(h)
<1>1. Total(w) = U[MaxPiece]
  BY Zenon DEF Total
<1>2. PICK g \in [0 .. MaxPiece -> Int] : Prefix(MaxPiece, w, g)
  BY PrefixExists
<1>3. g = Rule(g)
  <2>1. \A k \in 0 .. MaxPiece : g[k] = IF k = 0 THEN 0 ELSE g[k - 1] + w[k]
    BY <1>0, <1>2 DEF Prefix
  <2> QED BY <1>2, <2>1
<1>4. U = Rule(U)
  BY <1>3, Zenon
<1>5. Prefix(MaxPiece, w, U)
  <2> HIDE DEF U
  <2>1. \A k \in 0 .. MaxPiece : U[k] = IF k = 0 THEN 0 ELSE U[k - 1] + w[k]
    BY <1>4
  <2> QED BY <1>0, <2>1 DEF Prefix
<1> HIDE DEF U
<1> QED BY <1>1, <1>5, PrefixUnique

\* The total is the last of the sums.
LEMMA TotalSum ==
  ASSUME NEW w \in [Piece -> Int], BodyMassAssumption
  PROVE  /\ Total(w) \in Int
         /\ \E f \in [0 .. MaxPiece -> Int] :
              Prefix(MaxPiece, w, f) /\ Total(w) = f[MaxPiece]
<1>1. PICK f \in [0 .. MaxPiece -> Int] : Prefix(MaxPiece, w, f)
  BY PrefixExists
<1>2. Total(w) = f[MaxPiece]
  BY <1>1, TotalIs
<1> QED BY <1>1, <1>2 DEF BodyMassAssumption

\* What the total does when one weight changes, when all are zero, and when they are
\* a combination of others.
LEMMA TotalChanged ==
  ASSUME NEW w \in [Piece -> Int], BodyMassAssumption, NEW s \in Piece, NEW x \in Int
  PROVE  Total([w EXCEPT ![s] = x]) = Total(w) + x - w[s]
<1>0. MaxPiece \in Nat
  BY DEF BodyMassAssumption
<1> DEFINE v == [w EXCEPT ![s] = x]
<1>1. PICK f \in [0 .. MaxPiece -> Int] : Prefix(MaxPiece, w, f) /\ Total(w) = f[MaxPiece]
  BY TotalSum
<1> DEFINE g == [k \in 0 .. MaxPiece |-> IF k < s THEN f[k] ELSE f[k] + x - w[s]]
<1>2. v \in [Piece -> Int]
  OBVIOUS
<1>3. Prefix(MaxPiece, v, g)
  <2>1. g[0] = 0
    BY <1>0, <1>1 DEF Prefix, Piece
  <2>2. ASSUME NEW k \in 1 .. MaxPiece PROVE g[k] = g[k - 1] + v[k]
    <3>1. f[k] = f[k - 1] + w[k]
      BY <1>1 DEF Prefix
    <3>2. /\ k \in 0 .. MaxPiece /\ k - 1 \in 0 .. MaxPiece /\ k \in Piece
          /\ f[k] \in Int /\ f[k - 1] \in Int /\ w[k] \in Int /\ w[s] \in Int /\ s \in Int
      BY <1>0 DEF Piece
    <3>3. v[k] = IF k = s THEN x ELSE w[k]
      BY <3>2
    <3> QED BY <3>1, <3>2, <3>3
  <2> QED BY <2>1, <2>2 DEF Prefix
<1>4. Total(v) = g[MaxPiece]
  BY <1>2, <1>3, TotalIs
<1>5. s \in 1 .. MaxPiece /\ w[s] \in Int /\ f[MaxPiece] \in Int
  BY <1>0 DEF Piece
<1> QED BY <1>0, <1>1, <1>4, <1>5

\* Weights that are all zero add up to zero.
LEMMA TotalZero ==
  ASSUME BodyMassAssumption
  PROVE  Total([s \in Piece |-> 0]) = 0
<1>0. MaxPiece \in Nat
  BY DEF BodyMassAssumption
<1> DEFINE w == [s \in Piece |-> 0]
           g == [k \in 0 .. MaxPiece |-> 0]
<1>1. Prefix(MaxPiece, w, g)
  BY <1>0 DEF Prefix, Piece
<1>2. w \in [Piece -> Int]
  OBVIOUS
<1>3. Total(w) = g[MaxPiece]
  <2> HIDE DEF g, w
  <2> QED BY <1>1, <1>2, TotalIs
<1> QED BY <1>0, <1>3

\* c is the combination of u, v and w that the parallel axis theorem takes, and so are
\* the totals.
Combined(c, u, v, w, a, b) == \A s \in Piece : c[s] = u[s] + a * v[s] + b * w[s]
TotalsCombined(c, u, v, w, a, b) == Total(c) = Total(u) + a * Total(v) + b * Total(w)

\* The total of a combination is the combination of the totals.
LEMMA TotalCombined ==
  ASSUME NEW u \in [Piece -> Int], NEW v \in [Piece -> Int], NEW w \in [Piece -> Int],
         NEW a \in Int, NEW b \in Int, BodyMassAssumption,
         NEW c \in [Piece -> Int], Combined(c, u, v, w, a, b)
  PROVE  TotalsCombined(c, u, v, w, a, b)
<1>0. MaxPiece \in Nat
  BY DEF BodyMassAssumption
<1>1. PICK f \in [0 .. MaxPiece -> Int] : Prefix(MaxPiece, u, f) /\ Total(u) = f[MaxPiece]
  BY TotalSum
<1>2. PICK g \in [0 .. MaxPiece -> Int] : Prefix(MaxPiece, v, g) /\ Total(v) = g[MaxPiece]
  BY TotalSum
<1>3. PICK h \in [0 .. MaxPiece -> Int] : Prefix(MaxPiece, w, h) /\ Total(w) = h[MaxPiece]
  BY TotalSum
<1> DEFINE e == [k \in 0 .. MaxPiece |-> f[k] + a * g[k] + b * h[k]]
<1>5. Prefix(MaxPiece, c, e)
  <2>1. e[0] = 0
    <3>1. f[0] = 0 /\ g[0] = 0 /\ h[0] = 0
      BY <1>1, <1>2, <1>3 DEF Prefix
    <3>2. e[0] = 0 + a * 0 + b * 0
      BY <1>0, <3>1
    <3> QED BY <3>2
  <2>2. ASSUME NEW k \in 1 .. MaxPiece PROVE e[k] = e[k - 1] + c[k]
    <3>1. f[k] = f[k - 1] + u[k] /\ g[k] = g[k - 1] + v[k] /\ h[k] = h[k - 1] + w[k]
      BY <1>1, <1>2, <1>3 DEF Prefix
    <3>2. k \in 0 .. MaxPiece /\ k - 1 \in 0 .. MaxPiece /\ k \in Piece
      BY <1>0 DEF Piece
    <3>3. /\ f[k - 1] \in Int /\ g[k - 1] \in Int /\ h[k - 1] \in Int
          /\ u[k] \in Int /\ v[k] \in Int /\ w[k] \in Int
      BY <3>2
    <3>5. e[k] = (f[k - 1] + u[k]) + a * (g[k - 1] + v[k]) + b * (h[k - 1] + w[k])
      BY <3>1, <3>2
    <3>6. e[k - 1] = f[k - 1] + a * g[k - 1] + b * h[k - 1]
      BY <3>2
    <3>7. c[k] = u[k] + a * v[k] + b * w[k]
      BY <3>2 DEF Combined
    <3>8. (f[k - 1] + u[k]) + a * (g[k - 1] + v[k]) + b * (h[k - 1] + w[k])
          = (f[k - 1] + a * g[k - 1] + b * h[k - 1]) + (u[k] + a * v[k] + b * w[k])
      <4>1. PICK i \in Int, j \in Int, l \in Int, p \in Int, q \in Int, r \in Int :
              /\ i = f[k - 1] /\ j = g[k - 1] /\ l = h[k - 1]
              /\ p = u[k] /\ q = v[k] /\ r = w[k]
        BY <3>3
      <4>2. (i + p) + a * (j + q) + b * (l + r) = (i + a * j + b * l) + (p + a * q + b * r)
        OBVIOUS
      <4> QED BY <4>1, <4>2, Zenon
    <3> QED BY <3>5, <3>6, <3>7, <3>8, Zenon
  <2> QED BY <2>1, <2>2 DEF Prefix
<1>6. Total(c) = e[MaxPiece]
  <2> HIDE DEF e
  <2> QED BY <1>5, TotalIs
<1> QED BY <1>0, <1>1, <1>2, <1>3, <1>6 DEF TotalsCombined

\* A quotient that is exact
LEMMA DivExact ==
  ASSUME NEW n \in Nat \ {0}, NEW k \in Int
  PROVE  (n * k) \div n = k
OBVIOUS

\* Products are multiples of the unit of lengths, which every mass divides.
Exact(M, q, g, c, U, z, y, f) == M * g = z * U /\ c = y * U /\ (M + q) * f = U
HeavyIs(M, q, g, c, i, mom) ==
  LET N == M + q
      d == c - g
      e == (d * q) \div N
  IN  /\ e \in Int
      /\ (d * d * q * M) \div N \in Int
      /\ N * (g + e) = M * g + q * c
      /\ i + q * mom + (d * d * q * M) \div N + N * ((g + e) * (g + e))
         = (i + M * (g * g)) + q * (mom + c * c)

\* The arithmetic of one step of the loop: a body of mass M, with its centre at g and the
\* moment i, and a shape of mass q at c become one body, with no remainder in its divisions.
LEMMA Heavy ==
  ASSUME NEW M \in Nat, NEW q \in Nat \ {0}, NEW g \in Int, NEW c \in Int, NEW i \in Int,
         NEW U \in Int, NEW z \in Int, NEW y \in Int, NEW f \in Int, NEW mom \in Int,
         Exact(M, q, g, c, U, z, y, f)
  PROVE  HeavyIs(M, q, g, c, i, mom)
<1>0. M * g = z * U /\ c = y * U /\ (M + q) * f = U
  BY DEF Exact
<1> DEFINE N == M + q
           d == c - g
           k == (z + q * y) * f - g
           e == (d * q) \div N
<1>1. N \in Nat \ {0} /\ d \in Int /\ k \in Int
  OBVIOUS
<1>2. N * k = d * q
  <2>1. (M + q) * ((z + q * y) * f) = (z + q * y) * ((M + q) * f)
    OBVIOUS
  <2>2. (z + q * y) * U = z * U + q * (y * U)
    OBVIOUS
  <2>3. N * k = N * ((z + q * y) * f) - N * g
    OBVIOUS
  <2>4. N * k = (M * g + q * c) - N * g
    BY <1>0, <2>1, <2>2, <2>3
  <2>5. N * g = M * g + q * g /\ d * q = q * c - q * g
    OBVIOUS
  <2> QED BY <2>4, <2>5
<1>3. e = k
  <2> HIDE DEF N, k, d
  <2>1. (N * k) \div N = k
    BY <1>1, DivExact
  <2> QED BY <1>2, <2>1
<1>4. (d * d * q * M) \div N = d * k * M
  <2>1. d * d * q * M = N * (d * k * M)
    <3> HIDE DEF N, k, d
    <3>1. d * d * q * M = d * (d * q) * M
      BY <1>1
    <3>2. d * (N * k) * M = N * (d * k * M)
      BY <1>1
    <3> QED BY <3>1, <3>2, <1>2
  <2>2. d * k * M \in Int
    BY <1>1
  <2> HIDE DEF N, k, d
  <2>3. (N * (d * k * M)) \div N = d * k * M
    BY <2>2, <1>1, DivExact
  <2> QED BY <2>1, <2>3
<1>5. N * (g + k) = M * g + q * c
  BY <1>2
<1>6. i + q * mom + d * k * M + N * ((g + k) * (g + k)) = (i + M * (g * g)) + q * (mom + c * c)
  <2>1. N * ((g + k) * (g + k)) = N * (g * g) + 2 * (g * (N * k)) + k * (N * k)
    <3> HIDE DEF N, k
    <3> QED BY <1>1
  <2>2. d * k * M + k * (d * q) = d * (N * k)
    <3> HIDE DEF k, d
    <3> QED BY <1>1
  <2>3. d * (d * q) + 2 * (g * (d * q)) + q * (g * g) = q * (c * c)
    OBVIOUS
  <2>4. N * (g * g) = M * (g * g) + q * (g * g)
    OBVIOUS
  <2>5. q * (mom + c * c) = q * mom + q * (c * c)
    OBVIOUS
  <2>6. d * (d * q) + (2 * (g * (d * q)) + q * (g * g)) + i + q * mom + M * (g * g) =
         (i + M * (g * g)) + q * (mom + c * c)
    BY <2>3, <2>5
  <2>7. N * ((g + k) * (g + k)) = N * (g * g) + 2 * (g * (d * q)) + k * (d * q)
    BY <2>1, <1>2
  <2>8. d * k * M + k * (d * q) = d * (d * q)
    BY <2>2, <1>2
  <2>9. PICK A \in Int, B \in Int, G \in Int, D \in Int :
           A = d * k * M /\ B = k * (d * q) /\ G = g * (d * q) /\ D = d * (d * q)
    <3> HIDE DEF k, d
    <3> QED BY <1>1
  <2>10. PICK P \in Int, S \in Int, X \in Int, Y \in Int, Z \in Int :
           /\ P = N * (g * g) /\ S = M * (g * g) /\ X = q * (g * g)
           /\ Y = q * mom /\ Z = q * (mom + c * c)
    OBVIOUS
  <2>11. P = S + X
    BY <2>4, <2>10
  <2>12. D + (2 * G + X) + i + Y + S = (i + S) + Z
    BY <2>6, <2>9, <2>10, Zenon
  <2>13. A + B = D
    BY <2>8, <2>9, Zenon
  <2>14. i + Y + A + (P + 2 * G + B) = (i + S) + Z
    BY <2>11, <2>12, <2>13
  <2>15. N * ((g + k) * (g + k)) = P + 2 * G + B
    BY <2>7, <2>9, <2>10, Zenon
  <2> QED BY <2>9, <2>10, <2>14, <2>15, Zenon
<1>7. e \in Int
  BY <1>1, <1>3, Zenon
<1>8. (d * d * q * M) \div N \in Int
  <2> HIDE DEF k, d
  <2> QED BY <1>1, <1>4
<1>9. N * (g + e) = M * g + q * c
  BY <1>3, <1>5, Zenon
<1>10. i + q * mom + (d * d * q * M) \div N + N * ((g + e) * (g + e))
       = (i + M * (g * g)) + q * (mom + c * c)
  BY <1>3, <1>4, <1>6, Zenon
<1> QED BY <1>7, <1>8, <1>9, <1>10, Zenon DEF HeavyIs

-----------------------------------------------------------------------------
Places == 0 .. MaxPiece
BodyRecords ==
  [type : {"dynamic", "kinematic", "static"}, m : Int, i : Int, cog : Int, p : Int,
   rot : {1, -1}, tx : Int, head : Places, own : BOOLEAN, synced : BOOLEAN]
PieceRecords == [m : Mass, c : {0, Unit}, next : Places, prev : Places, listed : BOOLEAN]
SumRecords == [on : BOOLEAN, at : Places, pos : Int]

MassTypeOK == body \in BodyRecords /\ piece \in [Piece -> PieceRecords] /\ sum \in SumRecords

\* The body b has the mass, centre and moment of the shapes in S.
Weighed(b, pc, S) ==
  /\ b.m = MassOf(pc, S)
  /\ b.m * b.cog = LeverOf(pc, S)
  /\ b.i + b.m * (b.cog * b.cog) = MomentOf(pc, S, 0)

\* The loop has seen the first j shapes of the list.
Seen(b, pc, u, n, q, j) ==
  /\ u.at = IF j = n THEN NIL ELSE q[j + 1]
  /\ Weighed(b, pc, {q[k] : k \in 1 .. j})
  /\ b.m \in 0 .. j * MaxMass
  /\ \E z \in Int : b.m * b.cog = z * Unit

OthersFree == \A s \in Piece \ Attached : piece[s].next = NIL /\ piece[s].prev = NIL
InList == OthersFree /\ \E n \in Places : \E q \in [1 .. n -> Piece] : InOrder(n, q)
ListKept ==
  /\ \E n \in Places : \E q \in [1 .. n -> Piece] :
       InOrder(n, q) /\ (sum.on => \E j \in 0 .. n : Seen(body, piece, sum, n, q, j))
  /\ OthersFree

LoopKept == sum.on => body.type = "dynamic" /\ ~body.own /\ ~body.synced /\ sum.pos = Place(body)
IdleKept == ~sum.on /\ body.type = "dynamic" /\ ~body.own => Weighed(body, piece, Attached)
PlaceTrue(b) == b.synced => b.tx = b.p - b.rot * b.cog

MassInv == MassTypeOK /\ ListKept /\ LoopKept /\ IdleKept /\ PlaceTrue(body)

\* The sums over the shapes are numbers.
LEMMA SumsTyped ==
  ASSUME BodyMassAssumption, NEW pc \in [Piece -> PieceRecords], NEW S, NEW x \in Int
  PROVE  /\ [s \in Piece |-> IF s \in S THEN pc[s].m ELSE 0] \in [Piece -> Int]
         /\ [s \in Piece |-> IF s \in S THEN pc[s].m * pc[s].c ELSE 0] \in [Piece -> Int]
         /\ [s \in Piece |->
               IF s \in S THEN pc[s].m * (Moment + (pc[s].c - x) * (pc[s].c - x)) ELSE 0]
            \in [Piece -> Int]
         /\ MassOf(pc, S) \in Int /\ LeverOf(pc, S) \in Int /\ MomentOf(pc, S, x) \in Int
<1>1. \A s \in Piece : pc[s].m \in Int /\ pc[s].c \in Int
  BY DEF PieceRecords, Mass, BodyMassAssumption
<1>2. [s \in Piece |-> IF s \in S THEN pc[s].m ELSE 0] \in [Piece -> Int]
  BY <1>1
<1>3. [s \in Piece |-> IF s \in S THEN pc[s].m * pc[s].c ELSE 0] \in [Piece -> Int]
  <2>1. \A s \in Piece : pc[s].m * pc[s].c \in Int
    BY <1>1
  <2> QED BY <2>1
<1>4. [s \in Piece |->
        IF s \in S THEN pc[s].m * (Moment + (pc[s].c - x) * (pc[s].c - x)) ELSE 0]
      \in [Piece -> Int]
  <2>1. \A i, j \in Int : i * (Moment + (j - x) * (j - x)) \in Int
    BY DEF Moment
  <2>2. \A s \in Piece : pc[s].m * (Moment + (pc[s].c - x) * (pc[s].c - x)) \in Int
    BY <1>1, <2>1
  <2> QED BY <2>2
<1>5. MassOf(pc, S) \in Int
  BY <1>2, TotalSum DEF MassOf
<1>6. LeverOf(pc, S) \in Int
  BY <1>3, TotalSum DEF LeverOf
<1>7. MomentOf(pc, S, x) \in Int
  BY <1>4, TotalSum DEF MomentOf
<1> QED BY <1>2, <1>3, <1>4, <1>5, <1>6, <1>7

\* The sums of no shapes
LEMMA SumsOfNone ==
  ASSUME BodyMassAssumption, NEW pc
  PROVE  MassOf(pc, {}) = 0 /\ LeverOf(pc, {}) = 0 /\ MomentOf(pc, {}, 0) = 0
<1>1. [s \in Piece |-> IF s \in {} THEN pc[s].m ELSE 0] = [s \in Piece |-> 0]
  OBVIOUS
<1>2. [s \in Piece |-> IF s \in {} THEN pc[s].m * pc[s].c ELSE 0] = [s \in Piece |-> 0]
  OBVIOUS
<1>3. [s \in Piece |->
        IF s \in {} THEN pc[s].m * (Moment + (pc[s].c - 0) * (pc[s].c - 0)) ELSE 0]
      = [s \in Piece |-> 0]
  OBVIOUS
<1> QED BY <1>1, <1>2, <1>3, TotalZero, Zenon DEF MassOf, LeverOf, MomentOf

\* The sums of one shape more
LEMMA SumsOfMore ==
  ASSUME BodyMassAssumption, NEW pc \in [Piece -> PieceRecords], NEW S, NEW s \in Piece, s \notin S
  PROVE  /\ MassOf(pc, S \cup {s}) = MassOf(pc, S) + pc[s].m
         /\ LeverOf(pc, S \cup {s}) = LeverOf(pc, S) + pc[s].m * pc[s].c
         /\ MomentOf(pc, S \cup {s}, 0) = MomentOf(pc, S, 0) + pc[s].m * (Moment + pc[s].c * pc[s].c)
<1>1. \A t \in Piece : pc[t].m \in Int /\ pc[t].c \in Int
  BY DEF PieceRecords, Mass, BodyMassAssumption
<1>2. MassOf(pc, S \cup {s}) = MassOf(pc, S) + pc[s].m
  <2> DEFINE w == [t \in Piece |-> IF t \in S THEN pc[t].m ELSE 0]
             v == [t \in Piece |-> IF t \in S \cup {s} THEN pc[t].m ELSE 0]
  <2>1. w \in [Piece -> Int] /\ w[s] = 0 /\ v = [w EXCEPT ![s] = pc[s].m]
    <3>1. w \in [Piece -> Int]
      BY <1>1
    <3>2. w[s] = 0
      OBVIOUS
    <3>3. v = [w EXCEPT ![s] = pc[s].m]
      <4>1. ASSUME NEW t \in Piece PROVE v[t] = [w EXCEPT ![s] = pc[s].m][t]
        OBVIOUS
      <4> QED BY <4>1
    <3> QED BY <3>1, <3>2, <3>3
  <2>2. Total(w) \in Int
    <3> HIDE DEF w
    <3> QED BY <2>1, TotalSum
  <2>3. Total(v) = Total(w) + pc[s].m - w[s]
    <3> HIDE DEF w, v
    <3> QED BY <1>1, <2>1, TotalChanged
  <2>4. Total(v) = Total(w) + pc[s].m
    <3> HIDE DEF w, v
    <3> QED BY <1>1, <2>1, <2>2, <2>3
  <2> QED BY <2>4, Zenon DEF MassOf
<1>3. LeverOf(pc, S \cup {s}) = LeverOf(pc, S) + pc[s].m * pc[s].c
  <2> DEFINE w == [t \in Piece |-> IF t \in S THEN pc[t].m * pc[t].c ELSE 0]
             v == [t \in Piece |-> IF t \in S \cup {s} THEN pc[t].m * pc[t].c ELSE 0]
             x == pc[s].m * pc[s].c
  <2>0. x \in Int /\ \A t \in Piece : pc[t].m * pc[t].c \in Int
    BY <1>1
  <2>1. w \in [Piece -> Int] /\ w[s] = 0 /\ v = [w EXCEPT ![s] = x]
    <3>1. w \in [Piece -> Int]
      BY <2>0
    <3>2. w[s] = 0
      OBVIOUS
    <3>3. v = [w EXCEPT ![s] = x]
      <4>1. ASSUME NEW t \in Piece PROVE v[t] = [w EXCEPT ![s] = x][t]
        OBVIOUS
      <4> HIDE DEF x
      <4> QED BY <4>1
    <3> QED BY <3>1, <3>2, <3>3
  <2>2. Total(w) \in Int
    <3> HIDE DEF w
    <3> QED BY <2>1, TotalSum
  <2>3. Total(v) = Total(w) + x - w[s]
    <3> HIDE DEF w, v, x
    <3> QED BY <2>0, <2>1, TotalChanged
  <2>4. Total(v) = Total(w) + x
    <3> HIDE DEF w, v, x
    <3> QED BY <2>0, <2>1, <2>2, <2>3
  <2> QED BY <2>4, Zenon DEF LeverOf
<1>4. MomentOf(pc, S \cup {s}, 0) = MomentOf(pc, S, 0) + pc[s].m * (Moment + pc[s].c * pc[s].c)
  <2> DEFINE of(t) == pc[t].m * (Moment + (pc[t].c - 0) * (pc[t].c - 0))
             w == [t \in Piece |-> IF t \in S THEN of(t) ELSE 0]
             v == [t \in Piece |-> IF t \in S \cup {s} THEN of(t) ELSE 0]
  <2>7. \A t \in Piece : of(t) \in Int
    BY <1>1 DEF Moment
  <2>0. of(s) \in Int /\ of(s) = pc[s].m * (Moment + pc[s].c * pc[s].c)
    BY <1>1 DEF Moment
  <2>1. w \in [Piece -> Int]
    <3> HIDE DEF of
    <3> QED BY <2>7
  <2>5. w[s] = 0 /\ v = [w EXCEPT ![s] = of(s)]
    <3> HIDE DEF of
    <3> QED OBVIOUS
  <2>2. Total(w) \in Int
    <3> HIDE DEF w
    <3> QED BY <2>1, TotalSum
  <2>3. Total(v) = Total(w) + of(s) - w[s]
    <3> HIDE DEF w, v, of
    <3> QED BY <2>0, <2>1, <2>5, TotalChanged
  <2>4. Total(v) = Total(w) + of(s)
    <3> HIDE DEF w, v, of
    <3> QED BY <2>0, <2>5, <2>2, <2>3
  <2>6. MomentOf(pc, S, 0) = Total(w) /\ MomentOf(pc, S \cup {s}, 0) = Total(v)
    BY Zenon DEF MomentOf
  <2> QED BY <2>0, <2>4, <2>6, Zenon
<1> QED BY <1>2, <1>3, <1>4

\* The moment about another point
LEMMA MomentAbout ==
  ASSUME BodyMassAssumption, NEW pc \in [Piece -> PieceRecords], NEW S, NEW x \in Int
  PROVE  MomentOf(pc, S, x) = MomentOf(pc, S, 0) + (-2 * x) * LeverOf(pc, S) + (x * x) * MassOf(pc, S)
<1> DEFINE u == [s \in Piece |->
                  IF s \in S THEN pc[s].m * (Moment + (pc[s].c - 0) * (pc[s].c - 0)) ELSE 0]
           v == [s \in Piece |-> IF s \in S THEN pc[s].m * pc[s].c ELSE 0]
           w == [s \in Piece |-> IF s \in S THEN pc[s].m ELSE 0]
           o == [s \in Piece |->
                  IF s \in S THEN pc[s].m * (Moment + (pc[s].c - x) * (pc[s].c - x)) ELSE 0]
           a == -2 * x
           b == x * x
<1>1. u \in [Piece -> Int] /\ v \in [Piece -> Int] /\ w \in [Piece -> Int]
  BY SumsTyped
<1>2. a \in Int /\ b \in Int
  OBVIOUS
<1>3. o \in [Piece -> Int]
  <2>1. \A i, j \in Int : i * (Moment + (j - x) * (j - x)) \in Int
    BY DEF Moment
  <2>2. \A s \in Piece : pc[s].m \in Int /\ pc[s].c \in Int
    BY DEF PieceRecords, Mass, BodyMassAssumption
  <2>3. \A s \in Piece : pc[s].m * (Moment + (pc[s].c - x) * (pc[s].c - x)) \in Int
    BY <2>1, <2>2
  <2> QED BY <2>3
<1>6. \A s \in Piece : o[s] = u[s] + a * v[s] + b * w[s]
  <2>1. ASSUME NEW s \in Piece PROVE o[s] = u[s] + a * v[s] + b * w[s]
    <3>1. PICK i \in Int, j \in Int : i = pc[s].m /\ j = pc[s].c
      BY DEF PieceRecords, Mass, BodyMassAssumption
    <3>2. CASE s \in S
      <4>1. u[s] = i * (Moment + (j - 0) * (j - 0)) /\ v[s] = i * j /\ w[s] = i
            /\ o[s] = i * (Moment + (j - x) * (j - x))
        BY <3>1, <3>2
      <4>2. i * (Moment + (j - x) * (j - x))
            = i * (Moment + (j - 0) * (j - 0)) + (-2 * x) * (i * j) + (x * x) * i
        <5>1. (j - x) * (j - x) = j * j + (-2 * x) * j + x * x /\ (j - 0) * (j - 0) = j * j
          OBVIOUS
        <5>2. PICK A \in Int, B \in Int, C \in Int : A = j * j /\ B = (-2 * x) * j /\ C = x * x
          OBVIOUS
        <5>3. i * (Moment + (A + B + C)) = i * (Moment + A) + i * B + i * C
          BY DEF Moment
        <5>4. i * ((-2 * x) * j) = (-2 * x) * (i * j) /\ i * (x * x) = (x * x) * i
          OBVIOUS
        <5> QED BY <5>1, <5>2, <5>3, <5>4, Zenon
      <4> QED BY <4>1, <4>2, Zenon
    <3>3. CASE s \notin S
      <4>1. u[s] = 0 /\ v[s] = 0 /\ w[s] = 0 /\ o[s] = 0
        BY <3>3
      <4>2. 0 = 0 + a * 0 + b * 0
        BY <1>2
      <4> QED BY <4>1, <4>2, Zenon
    <3> QED BY <3>2, <3>3
  <2> HIDE DEF u, v, w, a, b
  <2> QED BY <2>1
<1>4. Total(o) = Total(u) + a * Total(v) + b * Total(w)
  <2> HIDE DEF u, v, w, o, a, b
  <2>1. Combined(o, u, v, w, a, b)
    BY <1>6, Zenon DEF Combined
  <2>2. TotalsCombined(o, u, v, w, a, b)
    BY <1>1, <1>2, <1>3, <2>1, TotalCombined
  <2> QED BY <2>2, Zenon DEF TotalsCombined
<1>5. /\ MomentOf(pc, S, x) = Total(o) /\ MomentOf(pc, S, 0) = Total(u)
      /\ LeverOf(pc, S) = Total(v) /\ MassOf(pc, S) = Total(w)
  BY Zenon DEF MomentOf, LeverOf, MassOf
<1> QED BY <1>4, <1>5, Zenon

-----------------------------------------------------------------------------
\* How many numbers there are up to n
LEMMA CountTo ==
  ASSUME NEW n \in Nat
  PROVE  IsFiniteSet(1 .. n) /\ Cardinality(1 .. n) = n
BY FS_Interval

\* More places than shapes would hold a shape twice.
LEMMA Crowded ==
  ASSUME NEW m \in Nat, NEW n \in Nat, NEW f \in [1 .. n -> 1 .. m],
         \A j, k \in 1 .. n : f[j] = f[k] => j = k
  PROVE  n <= m
<1>1. IsFiniteSet(1 .. n) /\ Cardinality(1 .. n) = n /\ IsFiniteSet(1 .. m) /\ Cardinality(1 .. m) = m
  BY CountTo
<1>2. ASSUME m < n PROVE FALSE
  <2>1. \E j, k \in 1 .. n : j # k /\ f[j] = f[k]
    <3> DEFINE S == 1 .. n
               T == 1 .. m
    <3>1. IsFiniteSet(S) /\ IsFiniteSet(T) /\ Cardinality(T) < Cardinality(S) /\ f \in [S -> T]
      BY <1>1, <1>2
    <3> HIDE DEF S, T
    <3>2. \E j, k \in S : j # k /\ f[j] = f[k]
      BY <3>1, FS_PigeonHole
    <3> QED BY <3>2 DEF S
  <2> QED BY <2>1
<1> QED BY <1>2

\* The list with a shape more in front
LEMMA ListGrows ==
  ASSUME BodyMassAssumption, MassTypeOK, NEW n \in Places, NEW q \in [1 .. n -> Piece],
         InOrder(n, q), OthersFree, NEW s \in Piece, ~piece[s].listed,
         piece' = [Linked(body, piece, s) EXCEPT ![s].listed = TRUE], body'.head = s
  PROVE  InList'
<1> DEFINE r == [k \in 1 .. n + 1 |-> IF k = 1 THEN s ELSE q[k - 1]]
<1>1. MaxPiece \in Nat /\ n \in Nat /\ NIL \notin Piece
  BY DEF BodyMassAssumption, Places, Piece, NIL
<1>0. s \notin Attached /\ piece[s].prev = NIL
  BY DEF Attached, OthersFree
<1>2. \A t \in Piece : DOMAIN piece[t] = {"m", "c", "next", "prev", "listed"}
  BY DEF MassTypeOK, PieceRecords
<1>3. \A k \in 1 .. n : q[k] \in Attached /\ q[k] # s /\ q[k] \in Piece
  BY DEF InOrder, Attached
<1>4. /\ piece'[s].next = body.head /\ piece'[s].prev = NIL /\ piece'[s].listed
      /\ \A t \in Piece \ {s} : /\ piece'[t].next = piece[t].next
                                /\ piece'[t].listed = piece[t].listed
                                /\ piece'[t].prev = IF t = body.head THEN s ELSE piece[t].prev
  <2> DEFINE L == Linked(body, piece, s)
  <2>1. L[s] = [piece[s] EXCEPT !.next = body.head]
    BY DEF Linked
  <2>2. \A t \in Piece \ {s} : L[t] = IF t = body.head THEN [piece[t] EXCEPT !.prev = s] ELSE piece[t]
    BY DEF Linked
  <2>3. DOMAIN L = Piece /\ piece' = [L EXCEPT ![s].listed = TRUE]
    BY DEF Linked
  <2> HIDE DEF L
  <2>4. piece'[s] = [L[s] EXCEPT !.listed = TRUE] /\ \A t \in Piece \ {s} : piece'[t] = L[t]
    BY <2>3
  <2>5. piece'[s].next = body.head /\ piece'[s].prev = NIL /\ piece'[s].listed
    <3>0. DOMAIN L[s] = {"m", "c", "next", "prev", "listed"}
      BY <1>2, <2>1
    <3>1. piece'[s].next = L[s].next /\ piece'[s].prev = L[s].prev
      BY <2>4, <3>0
    <3>3. L[s].next = body.head /\ L[s].prev = piece[s].prev
      BY <1>2, <2>1
    <3>2. piece'[s].listed = TRUE
      BY <1>2, <2>1, <2>4
    <3> QED BY <1>0, <3>1, <3>2, <3>3, Zenon
  <2>6. ASSUME NEW t \in Piece \ {s}
        PROVE  /\ piece'[t].next = piece[t].next
               /\ piece'[t].listed = piece[t].listed
               /\ piece'[t].prev = IF t = body.head THEN s ELSE piece[t].prev
    <3>1. piece'[t] = IF t = body.head THEN [piece[t] EXCEPT !.prev = s] ELSE piece[t]
      BY <2>2, <2>4
    <3> QED BY <1>2, <3>1
  <2> QED BY <2>5, <2>6
<1>5. Attached' = Attached \cup {s}
  BY <1>4 DEF Attached
<1>6. r \in [1 .. n + 1 -> Piece]
  BY <1>1
<1>7. \A j, k \in 1 .. n + 1 : r[j] = r[k] => j = k
  <2> SUFFICES ASSUME NEW j \in 1 .. n + 1, NEW k \in 1 .. n + 1, r[j] = r[k] PROVE j = k
    OBVIOUS
  <2>1. j # 1 => j - 1 \in 1 .. n /\ r[j] = q[j - 1]
    BY <1>1
  <2>2. k # 1 => k - 1 \in 1 .. n /\ r[k] = q[k - 1]
    BY <1>1
  <2>3. (j = 1 => r[j] = s) /\ (k = 1 => r[k] = s)
    OBVIOUS
  <2>4. CASE j = 1 \/ k = 1
    BY <1>3, <2>1, <2>2, <2>3, <2>4
  <2>5. CASE j # 1 /\ k # 1
    <3>1. j - 1 = k - 1
      BY <2>1, <2>2, <2>5 DEF InOrder
    <3> QED BY <3>1, <1>1
  <2> QED BY <2>4, <2>5
<1>8. n + 1 \in Places
  <2>1. r \in [1 .. n + 1 -> 1 .. MaxPiece] /\ n + 1 \in Nat
    BY <1>1, <1>6 DEF Piece
  <2>2. n + 1 <= MaxPiece
    <3> HIDE DEF r
    <3> QED BY <1>1, <1>7, <2>1, Crowded
  <2> QED BY <1>1, <2>2 DEF Places
<1>9. Attached' = {r[k] : k \in 1 .. n + 1}
  <2>1. ASSUME NEW t \in Attached PROVE \E k \in 1 .. n + 1 : r[k] = t
    <3>1. PICK k \in 1 .. n : q[k] = t
      BY DEF InOrder
    <3>2. k + 1 \in 1 .. n + 1 /\ r[k + 1] = q[k]
      BY <1>1
    <3> QED BY <3>1, <3>2
  <2>2. 1 \in 1 .. n + 1 /\ r[1] = s
    BY <1>1
  <2>3. \A k \in 1 .. n + 1 : r[k] \in Attached \cup {s}
    <3> SUFFICES ASSUME NEW k \in 1 .. n + 1 PROVE r[k] \in Attached \cup {s}
      OBVIOUS
    <3>1. k # 1 => k - 1 \in 1 .. n /\ r[k] = q[k - 1]
      BY <1>1
    <3> QED BY <1>3, <2>2, <3>1
  <2> HIDE DEF r
  <2> QED BY <1>5, <2>1, <2>2, <2>3
<1>10. ASSUME NEW k \in 1 .. n + 1
       PROVE  /\ piece'[r[k]].next = IF k = n + 1 THEN NIL ELSE r[k + 1]
              /\ piece'[r[k]].prev = IF k = 1 THEN NIL ELSE r[k - 1]
  <2>1. CASE k = 1
    <3>1. r[k] = s /\ (n # 0 => r[2] = q[1])
      BY <1>1, <2>1
    <3>2. body.head = IF n = 0 THEN NIL ELSE q[1]
      BY DEF InOrder
    <3> QED BY <1>1, <1>4, <2>1, <3>1, <3>2
  <2>2. CASE k # 1
    <3>1. k - 1 \in 1 .. n /\ r[k] = q[k - 1] /\ q[k - 1] \in Piece \ {s}
      BY <1>1, <1>3, <2>2
    <3>2. (k # n + 1 => r[k + 1] = q[k]) /\ (k # 2 => r[k - 1] = q[k - 2])
      <4>1. (k + 1) - 1 = k /\ (k - 1) - 1 = k - 2
        OBVIOUS
      <4>0. k \in Int /\ n \in Int /\ 1 <= k /\ k <= n + 1
        BY <1>1
      <4>2. k # n + 1 => k + 1 \in 1 .. n + 1 /\ k + 1 # 1
        BY <4>0
      <4>3. k # 2 => k - 1 \in 1 .. n + 1 /\ k - 1 # 1
        BY <4>0, <2>2
      <4> QED BY <4>1, <4>2, <4>3
    <3>3. /\ piece[q[k - 1]].next = IF k - 1 = n THEN NIL ELSE q[k]
          /\ piece[q[k - 1]].prev = IF k - 1 = 1 THEN NIL ELSE q[k - 2]
      <4>1. (k - 1) + 1 = k /\ (k - 1) - 1 = k - 2
        OBVIOUS
      <4>2. \A j \in 1 .. n : /\ piece[q[j]].next = IF j = n THEN NIL ELSE q[j + 1]
                              /\ piece[q[j]].prev = IF j = 1 THEN NIL ELSE q[j - 1]
        BY DEF InOrder
      <4> QED BY <3>1, <4>1, <4>2
    <3>4. body.head = q[1] /\ (q[k - 1] = q[1] <=> k = 2)
      <4>1. n # 0 /\ 1 \in 1 .. n
        BY <1>1, <3>1
      <4>2. q[k - 1] = q[1] => k - 1 = 1
        BY <3>1, <4>1 DEF InOrder
      <4>3. body.head = q[1]
        BY <4>1 DEF InOrder
      <4> QED BY <4>2, <4>3
    <3>5. r[1] = s
      BY <1>1
    <3>6. piece'[r[k]].next = IF k = n + 1 THEN NIL ELSE r[k + 1]
      BY <1>1, <1>4, <3>1, <3>2, <3>3
    <3>7. piece'[r[k]].prev = IF k = 1 THEN NIL ELSE r[k - 1]
      <4> HIDE DEF r
      <4> QED BY <1>4, <2>2, <3>1, <3>2, <3>3, <3>4, <3>5
    <3> QED BY <3>6, <3>7
  <2> QED BY <2>1, <2>2
<1>11. body'.head = IF n + 1 = 0 THEN NIL ELSE r[1]
  BY <1>1
<1>12. InOrder(n + 1, r)'
  <2> HIDE DEF r
  <2> QED BY <1>7, <1>9, <1>10, <1>11 DEF InOrder
<1>13. OthersFree'
  <2> SUFFICES ASSUME NEW t \in Piece, t \notin Attached, t # s
               PROVE  piece'[t].next = NIL /\ piece'[t].prev = NIL
    BY <1>5 DEF OthersFree
  <2>1. t # body.head
    <3>1. n # 0 => body.head = q[1] /\ 1 \in 1 .. n
      BY <1>1 DEF InOrder
    <3>2. n = 0 => body.head = NIL
      BY DEF InOrder
    <3> QED BY <1>1, <1>3, <3>1, <3>2
  <2>2. piece[t].next = NIL /\ piece[t].prev = NIL
    BY DEF OthersFree
  <2> QED BY <1>4, <2>1, <2>2
<1> QED BY <1>6, <1>8, <1>12, <1>13 DEF InList

\* The list without one of its shapes
LEMMA ListShrinks ==
  ASSUME BodyMassAssumption, MassTypeOK, NEW n \in Places, NEW q \in [1 .. n -> Piece],
         InOrder(n, q), OthersFree, NEW s \in Piece, piece[s].listed,
         piece' = [Unlinked(body, piece, s) EXCEPT ![s].listed = FALSE],
         body'.head = IF piece[s].prev = NIL THEN piece[s].next ELSE body.head
  PROVE  InList'
<1>1. MaxPiece \in Nat /\ n \in Nat /\ NIL \notin Piece
  BY DEF BodyMassAssumption, Places, Piece, NIL
<1>2. \A t \in Piece : DOMAIN piece[t] = {"m", "c", "next", "prev", "listed"}
  BY DEF MassTypeOK, PieceRecords
<1>3. PICK i \in 1 .. n : q[i] = s
  <2>1. s \in Attached
    BY DEF Attached
  <2> QED BY <2>1 DEF InOrder
<1> DEFINE r == [k \in 1 .. n - 1 |-> IF k < i THEN q[k] ELSE q[k + 1]]
<1>0. \A j, k \in 1 .. n : q[j] = q[k] => j = k
  BY DEF InOrder
<1>4. \A k \in 1 .. n : /\ piece[q[k]].next = IF k = n THEN NIL ELSE q[k + 1]
                        /\ piece[q[k]].prev = IF k = 1 THEN NIL ELSE q[k - 1]
                        /\ q[k] \in Piece /\ q[k] \in Attached
  <2>1. \A k \in 1 .. n : /\ piece[q[k]].next = IF k = n THEN NIL ELSE q[k + 1]
                          /\ piece[q[k]].prev = IF k = 1 THEN NIL ELSE q[k - 1]
    BY Zenon DEF InOrder
  <2>2. \A k \in 1 .. n : q[k] \in Attached
    BY DEF InOrder
  <2>3. \A k \in 1 .. n : q[k] \in Piece
    OBVIOUS
  <2> QED BY <2>1, <2>2, <2>3, Zenon
<1>5. piece[s].next = (IF i = n THEN NIL ELSE q[i + 1]) /\ piece[s].prev = (IF i = 1 THEN NIL ELSE q[i - 1])
  BY <1>3, <1>4, Zenon
<1>6. /\ piece'[s].next = NIL /\ piece'[s].prev = NIL /\ ~piece'[s].listed
      /\ \A t \in Piece \ {s} :
           /\ piece'[t].listed = piece[t].listed
           /\ piece'[t].next = IF t = piece[s].prev THEN piece[s].next ELSE piece[t].next
           /\ t # piece[s].prev =>
                piece'[t].prev = IF t = piece[s].next THEN piece[s].prev ELSE piece[t].prev
           /\ t = piece[s].prev => piece'[t].prev = piece[t].prev
  <2> DEFINE L == Unlinked(body, piece, s)
  <2>1. L[s] = [piece[s] EXCEPT !.next = NIL, !.prev = NIL]
    BY DEF Unlinked
  <2>2. \A t \in Piece \ {s} :
          L[t] = IF t = piece[s].prev THEN [piece[t] EXCEPT !.next = piece[s].next]
                 ELSE IF t = piece[s].next THEN [piece[t] EXCEPT !.prev = piece[s].prev] ELSE piece[t]
    BY DEF Unlinked
  <2>3. DOMAIN L = Piece /\ piece' = [L EXCEPT ![s].listed = FALSE]
    BY DEF Unlinked
  <2> HIDE DEF L
  <2>4. piece'[s] = [L[s] EXCEPT !.listed = FALSE] /\ \A t \in Piece \ {s} : piece'[t] = L[t]
    BY <2>3
  <2>5. piece'[s].next = NIL /\ piece'[s].prev = NIL /\ ~piece'[s].listed
    <3>1. DOMAIN L[s] = {"m", "c", "next", "prev", "listed"} /\ L[s].next = NIL /\ L[s].prev = NIL
      BY <1>2, <2>1
    <3>2. piece'[s].next = NIL /\ piece'[s].prev = NIL
      BY <2>4, <3>1
    <3>3. piece'[s].listed = FALSE
      BY <2>4, <3>1
    <3> QED BY <3>2, <3>3, Zenon
  <2>6. ASSUME NEW t \in Piece \ {s}
        PROVE  /\ piece'[t].listed = piece[t].listed
               /\ piece'[t].next = IF t = piece[s].prev THEN piece[s].next ELSE piece[t].next
               /\ t # piece[s].prev =>
                    piece'[t].prev = IF t = piece[s].next THEN piece[s].prev ELSE piece[t].prev
               /\ t = piece[s].prev => piece'[t].prev = piece[t].prev
    <3>1. piece'[t] = IF t = piece[s].prev THEN [piece[t] EXCEPT !.next = piece[s].next]
                      ELSE IF t = piece[s].next THEN [piece[t] EXCEPT !.prev = piece[s].prev]
                      ELSE piece[t]
      BY <2>2, <2>4
    <3> QED BY <1>2, <3>1
  <2> QED BY <2>5, <2>6
<1>7. Attached' = Attached \ {s}
  <2>1. \A t \in Piece : t # s => piece'[t].listed = piece[t].listed
    BY <1>6
  <2>2. ~piece'[s].listed
    BY <1>6
  <2> QED BY <2>1, <2>2 DEF Attached
<1>8. \A k \in 1 .. n - 1 : /\ k \in 1 .. n /\ k + 1 \in 1 .. n
                            /\ k < i => r[k] = q[k] /\ k # i
                            /\ ~(k < i) => r[k] = q[k + 1] /\ k + 1 # i
  <2> SUFFICES ASSUME NEW k \in 1 .. n - 1
               PROVE  /\ k \in 1 .. n /\ k + 1 \in 1 .. n
                      /\ k < i => r[k] = q[k] /\ k # i
                      /\ ~(k < i) => r[k] = q[k + 1] /\ k + 1 # i
    OBVIOUS
  <2>1. i \in Int /\ n \in Int /\ k \in Int /\ 1 <= k /\ k <= n - 1
    BY <1>1
  <2>2. k \in 1 .. n /\ k + 1 \in 1 .. n
    BY <2>1
  <2>3. k < i => k # i
    BY <2>1
  <2>4. ~(k < i) => k + 1 # i
    BY <2>1
  <2>5. r[k] = IF k < i THEN q[k] ELSE q[k + 1]
    OBVIOUS
  <2> HIDE DEF r
  <2> QED BY <2>2, <2>3, <2>4, <2>5
<1>9. r \in [1 .. n - 1 -> Piece] /\ n - 1 \in Places
  <2>1. n - 1 \in Places
    BY <1>1, <1>3 DEF Places
  <2>2. \A k \in 1 .. n - 1 : r[k] \in Piece
    BY <1>4, <1>8
  <2> QED BY <2>1, <2>2
<1> HIDE DEF r
<1>10. ASSUME NEW j \in 1 .. n - 1, NEW k \in 1 .. n - 1, r[j] = r[k] PROVE j = k
  <2>1. CASE j < i /\ k < i
    BY <1>0, <1>8, <1>10, <2>1
  <2>2. CASE ~(j < i) /\ ~(k < i)
    <3>1. j + 1 = k + 1
      BY <1>0, <1>8, <1>10, <2>2
    <3> QED BY <3>1
  <2>3. CASE j < i /\ ~(k < i)
    <3>1. j = k + 1
      BY <1>0, <1>8, <1>10, <2>3
    <3> QED BY <3>1, <2>3
  <2>4. CASE ~(j < i) /\ k < i
    <3>1. j + 1 = k
      BY <1>0, <1>8, <1>10, <2>4
    <3> QED BY <3>1, <2>4
  <2> QED BY <2>1, <2>2, <2>3, <2>4
<1>11. Attached' = {r[k] : k \in 1 .. n - 1}
  <2>1. ASSUME NEW k \in 1 .. n - 1 PROVE r[k] \in Attached \ {s}
    <3>1. \A j \in 1 .. n : j # i => q[j] \in Attached \ {s}
      BY <1>0, <1>3, <1>4
    <3> QED BY <1>8, <3>1
  <2>2. ASSUME NEW t \in Attached, t # s PROVE \E k \in 1 .. n - 1 : r[k] = t
    <3>1. PICK j \in 1 .. n : q[j] = t
      BY DEF InOrder
    <3>2. j # i
      BY <1>3, <2>2, <3>1
    <3>3. CASE j < i
      <4>1. j \in 1 .. n - 1
        BY <1>1, <3>3
      <4> QED BY <1>8, <3>1, <3>3, <4>1
    <3>4. CASE ~(j < i)
      <4>1. j - 1 \in 1 .. n - 1 /\ ~(j - 1 < i) /\ (j - 1) + 1 = j
        BY <1>1, <3>2, <3>4
      <4> QED BY <1>8, <3>1, <4>1
    <3> QED BY <3>3, <3>4
  <2> QED BY <1>7, <2>1, <2>2
<1>12. ASSUME NEW k \in 1 .. n - 1
       PROVE  /\ piece'[r[k]].next = IF k = n - 1 THEN NIL ELSE r[k + 1]
              /\ piece'[r[k]].prev = IF k = 1 THEN NIL ELSE r[k - 1]
  <2>0. \A j \in 1 .. n : /\ j # i => q[j] \in Piece \ {s} /\ q[j] # NIL
                          /\ q[j] = piece[s].prev <=> i # 1 /\ j = i - 1
                          /\ q[j] = piece[s].next <=> i # n /\ j = i + 1
    <3>1. ASSUME NEW j \in 1 .. n PROVE q[j] = piece[s].prev <=> i # 1 /\ j = i - 1
      <4>1. CASE i = 1
        BY <1>1, <1>4, <1>5, <4>1
      <4>2. CASE i # 1
        <5>1. i - 1 \in 1 .. n /\ piece[s].prev = q[i - 1]
          BY <1>1, <1>5, <4>2
        <5> QED BY <1>0, <4>2, <5>1
      <4> QED BY <4>1, <4>2
    <3>2. ASSUME NEW j \in 1 .. n PROVE q[j] = piece[s].next <=> i # n /\ j = i + 1
      <4>1. CASE i = n
        BY <1>1, <1>4, <1>5, <4>1
      <4>2. CASE i # n
        <5>1. i + 1 \in 1 .. n /\ piece[s].next = q[i + 1]
          BY <1>1, <1>5, <4>2
        <5> QED BY <1>0, <4>2, <5>1
      <4> QED BY <4>1, <4>2
    <3>3. \A j \in 1 .. n : j # i => q[j] \in Piece \ {s} /\ q[j] # NIL
      BY <1>0, <1>1, <1>3, <1>4
    <3> QED BY <3>1, <3>2, <3>3
  <2>1. CASE k < i
    <3>1. /\ r[k] = q[k] /\ k \in 1 .. n /\ k # i /\ k # n /\ k # i + 1
          /\ q[k] # piece[s].next
      BY <1>1, <1>8, <2>0, <2>1
    <3>2. k # 1 => k - 1 \in 1 .. n - 1 /\ r[k - 1] = q[k - 1]
      BY <1>1, <1>8, <2>1
    <3>3. piece'[r[k]].prev = IF k = 1 THEN NIL ELSE r[k - 1]
      BY <1>4, <1>6, <2>0, <3>1, <3>2
    <3>4. CASE k = i - 1
      <4>1. piece'[r[k]].next = piece[s].next /\ k + 1 = i
        BY <1>6, <2>0, <3>1, <3>4
      <4>0. k \in Int /\ n \in Int /\ i \in Int /\ 1 <= k /\ k <= n - 1
        BY <1>1
      <4>5. k + 1 = i /\ (k # n - 1 => i \in 1 .. n - 1 /\ ~(i < i) /\ i # n)
        BY <3>4, <4>0
      <4>2. k # n - 1 => r[i] = q[i + 1] /\ i # n
        BY <1>8, <4>5
      <4>6. r[k + 1] = r[i]
        BY <4>5, Zenon
      <4>3. k = n - 1 => i = n
        BY <3>4, <4>0
      <4>7. piece'[r[k]].next = IF k = n - 1 THEN NIL ELSE r[i]
        BY <1>5, <4>1, <4>2, <4>3
      <4> QED BY <3>3, <4>6, <4>7, Zenon
    <3>5. CASE k # i - 1
      <4>1. piece'[r[k]].next = q[k + 1]
        BY <1>4, <1>6, <2>0, <3>1, <3>5
      <4>2. k + 1 \in 1 .. n - 1 /\ k + 1 < i /\ k # n - 1
        BY <1>1, <2>1, <3>5
      <4>3. r[k + 1] = q[k + 1]
        BY <1>8, <4>2
      <4> QED BY <3>3, <4>1, <4>2, <4>3
    <3> QED BY <3>4, <3>5
  <2>2. CASE ~(k < i)
    <3>1. r[k] = q[k + 1] /\ k + 1 \in 1 .. n /\ k + 1 # i /\ (k + 1) - 1 = k
      BY <1>8, <2>2
    <3>2. q[k + 1] # piece[s].prev
      BY <1>1, <2>0, <2>2, <3>1
    <3>3. piece'[r[k]].next = IF k + 1 = n THEN NIL ELSE q[(k + 1) + 1]
      BY <1>4, <1>6, <2>0, <3>1, <3>2
    <3>4. piece'[r[k]].next = IF k = n - 1 THEN NIL ELSE r[k + 1]
      <4>1. k + 1 = n <=> k = n - 1
        BY <1>1, SMTT(30)
      <4>0. k \in Int /\ n \in Int /\ i \in Int /\ 1 <= k /\ k <= n - 1
        BY <1>1
      <4>2. ASSUME k # n - 1 PROVE k + 1 \in 1 .. n - 1 /\ ~(k + 1 < i)
        <5>1. k + 1 <= n - 1 /\ i <= k
          BY <2>2, <4>0, <4>2, SMTT(30)
        <5> QED BY <4>0, <5>1
      <4>3. k # n - 1 => r[k + 1] = q[(k + 1) + 1]
        BY <1>8, <4>2
      <4> QED BY <3>3, <4>1, <4>3
    <3>5. CASE k = i
      <4>1. piece'[r[k]].prev = piece[s].prev
        BY <1>1, <1>6, <2>0, <3>1, <3>2, <3>5
      <4>2. k # 1 => k - 1 \in 1 .. n - 1 /\ k - 1 < i
        BY <1>1, <3>5
      <4>3. k # 1 => r[k - 1] = q[k - 1]
        BY <1>8, <4>2
      <4> QED BY <1>5, <3>4, <3>5, <4>1, <4>3
    <3>6. CASE k # i
      <4>1. piece'[r[k]].prev = q[k]
        BY <1>1, <1>4, <1>6, <2>0, <2>2, <3>1, <3>2, <3>6
      <4>2. k - 1 \in 1 .. n - 1 /\ ~(k - 1 < i) /\ (k - 1) + 1 = k /\ k # 1
        BY <1>1, <2>2, <3>6
      <4>3. r[k - 1] = q[k]
        BY <1>8, <4>2
      <4> QED BY <3>4, <4>1, <4>2, <4>3
    <3> QED BY <3>5, <3>6
  <2> QED BY <2>1, <2>2
<1>13. body'.head = IF n - 1 = 0 THEN NIL ELSE r[1]
  <2>1. body.head = q[1]
    BY <1>1, <1>3 DEF InOrder
  <2>2. n - 1 # 0 => 1 \in 1 .. n - 1
    BY <1>1
  <2>3. CASE i = 1
    BY <1>1, <1>5, <1>8, <2>2, <2>3
  <2>4. CASE i # 1
    <3>1. i - 1 \in 1 .. n /\ piece[s].prev = q[i - 1] /\ q[i - 1] # NIL
      BY <1>1, <1>4, <1>5, <2>4
    <3> QED BY <1>1, <1>8, <2>1, <2>2, <2>4, <3>1
  <2> QED BY <2>3, <2>4
<1>14. InOrder(n - 1, r)'
  <2> QED BY <1>10, <1>11, <1>12, <1>13 DEF InOrder
<1>15. OthersFree'
  <2> SUFFICES ASSUME NEW t \in Piece, t \notin Attached \/ t = s
               PROVE  piece'[t].next = NIL /\ piece'[t].prev = NIL
    BY <1>7 DEF OthersFree
  <2>1. CASE t = s
    BY <1>6, <2>1
  <2>2. CASE t # s
    <3>1. t # piece[s].prev /\ t # piece[s].next
      <4>1. i # 1 => i - 1 \in 1 .. n
        BY <1>1
      <4>2. i # n => i + 1 \in 1 .. n
        BY <1>1
      <4> QED BY <1>1, <1>4, <1>5, <2>2, <4>1, <4>2
    <3>2. piece[t].next = NIL /\ piece[t].prev = NIL
      BY <2>2 DEF OthersFree
    <3> QED BY <1>6, <2>2, <3>1, <3>2
  <2> QED BY <2>1, <2>2
<1> QED BY <1>9, <1>14, <1>15 DEF InList

\* Masses and centres do not matter to the list.
LEMMA ListStays ==
  ASSUME BodyMassAssumption, InList, body'.head = body.head,
         \A t \in Piece : /\ piece'[t].next = piece[t].next /\ piece'[t].prev = piece[t].prev
                          /\ piece'[t].listed = piece[t].listed
  PROVE  InList' /\ Attached' = Attached
<1>0. PICK n \in Places : \E q \in [1 .. n -> Piece] : InOrder(n, q)
  BY DEF InList
<1>1. PICK q \in [1 .. n -> Piece] : InOrder(n, q)
  BY <1>0
<1>2. Attached' = Attached
  BY DEF Attached
<1>3. InOrder(n, q)'
  <2>1. \A k \in 1 .. n : q[k] \in Piece
    OBVIOUS
  <2> QED BY <1>1, <1>2, <2>1 DEF InOrder
<1>4. OthersFree'
  BY <1>2 DEF InList, OthersFree
<1> QED BY <1>2, <1>3, <1>4 DEF InList

\* The sums do not notice a shape without mass.
LEMMA SumsKept ==
  ASSUME BodyMassAssumption, NEW pc \in [Piece -> PieceRecords], NEW qc \in [Piece -> PieceRecords],
         NEW S, NEW T, NEW b,
         \A t \in Piece : \/ (t \in S <=> t \in T) /\ pc[t].m = qc[t].m /\ pc[t].c = qc[t].c
                          \/ pc[t].m = 0 /\ qc[t].m = 0,
         Weighed(b, pc, S)
  PROVE  Weighed(b, qc, T)
<1>1. \A t \in Piece : pc[t].m \in Int /\ pc[t].c \in Int /\ qc[t].m \in Int /\ qc[t].c \in Int
  BY DEF PieceRecords, Mass, BodyMassAssumption
<1>2. \A j \in Int : 0 * j = 0
  OBVIOUS
<1>3. \A j \in Int : j * j \in Int /\ Moment + (j - 0) * (j - 0) \in Int
  BY DEF Moment
<1>4. MassOf(pc, S) = MassOf(qc, T)
  <2>1. ASSUME NEW t \in Piece
        PROVE  (IF t \in S THEN pc[t].m ELSE 0) = (IF t \in T THEN qc[t].m ELSE 0)
    OBVIOUS
  <2> QED BY <2>1 DEF MassOf
<1>5. LeverOf(pc, S) = LeverOf(qc, T)
  <2>1. ASSUME NEW t \in Piece
        PROVE  (IF t \in S THEN pc[t].m * pc[t].c ELSE 0) = (IF t \in T THEN qc[t].m * qc[t].c ELSE 0)
    BY <1>1, <1>2
  <2> QED BY <2>1 DEF LeverOf
<1>6. MomentOf(pc, S, 0) = MomentOf(qc, T, 0)
  <2>1. ASSUME NEW t \in Piece
        PROVE  (IF t \in S THEN pc[t].m * (Moment + (pc[t].c - 0) * (pc[t].c - 0)) ELSE 0)
               = (IF t \in T THEN qc[t].m * (Moment + (qc[t].c - 0) * (qc[t].c - 0)) ELSE 0)
    BY <1>1, <1>2, <1>3
  <2> QED BY <2>1 DEF MomentOf
<1> QED BY <1>4, <1>5, <1>6 DEF Weighed

\* A record of a body with another value in a field is one.
LEMMA FieldSet ==
  ASSUME NEW r \in BodyRecords
  PROVE  /\ \A x \in Int : /\ [r EXCEPT !.m = x] \in BodyRecords /\ [r EXCEPT !.i = x] \in BodyRecords
                           /\ [r EXCEPT !.cog = x] \in BodyRecords /\ [r EXCEPT !.p = x] \in BodyRecords
                           /\ [r EXCEPT !.tx = x] \in BodyRecords
         /\ \A x \in {1, -1} : [r EXCEPT !.rot = x] \in BodyRecords
         /\ \A x \in Places : [r EXCEPT !.head = x] \in BodyRecords
         /\ \A x \in {"dynamic", "kinematic", "static"} : [r EXCEPT !.type = x] \in BodyRecords
         /\ [r EXCEPT !.own = FALSE] \in BodyRecords /\ [r EXCEPT !.own = TRUE] \in BodyRecords
         /\ [r EXCEPT !.synced = FALSE] \in BodyRecords /\ [r EXCEPT !.synced = TRUE] \in BodyRecords
<1>1. \A x \in Int : [r EXCEPT !.m = x] \in BodyRecords
  BY DEF BodyRecords
<1>2. \A x \in Int : [r EXCEPT !.i = x] \in BodyRecords
  BY DEF BodyRecords
<1>3. \A x \in Int : [r EXCEPT !.cog = x] \in BodyRecords
  BY DEF BodyRecords
<1>4. \A x \in Int : [r EXCEPT !.p = x] \in BodyRecords
  BY DEF BodyRecords
<1>5. \A x \in Int : [r EXCEPT !.tx = x] \in BodyRecords
  BY DEF BodyRecords
<1>6. \A x \in {1, -1} : [r EXCEPT !.rot = x] \in BodyRecords
  BY DEF BodyRecords
<1>7. \A x \in Places : [r EXCEPT !.head = x] \in BodyRecords
  BY DEF BodyRecords
<1>8. \A x \in {"dynamic", "kinematic", "static"} : [r EXCEPT !.type = x] \in BodyRecords
  BY DEF BodyRecords
<1>9. [r EXCEPT !.own = FALSE] \in BodyRecords
  BY DEF BodyRecords
<1>10. [r EXCEPT !.own = TRUE] \in BodyRecords
  BY DEF BodyRecords
<1>11. [r EXCEPT !.synced = FALSE] \in BodyRecords
  BY DEF BodyRecords
<1>12. [r EXCEPT !.synced = TRUE] \in BodyRecords
  BY DEF BodyRecords
<1> QED BY <1>1, <1>2, <1>3, <1>4, <1>5, <1>6, <1>7, <1>8, <1>9, <1>10, <1>11, <1>12

\* A body that is turned keeps its mass, and its transform is true to the place.
LEMMA TurnedIs ==
  ASSUME NEW b \in BodyRecords, NEW p \in Int, NEW rot \in {1, -1}
  PROVE  /\ Turned(b, p, rot) \in BodyRecords
         /\ Turned(b, p, rot).type = b.type /\ Turned(b, p, rot).m = b.m /\ Turned(b, p, rot).i = b.i
         /\ Turned(b, p, rot).cog = b.cog /\ Turned(b, p, rot).own = b.own
         /\ Turned(b, p, rot).head = b.head
         /\ Turned(b, p, rot).tx = p - rot * b.cog /\ PlaceTrue(Turned(b, p, rot))
<1>1. b.cog \in Int /\ DOMAIN b = {"type", "m", "i", "cog", "p", "rot", "tx", "head", "own", "synced"}
  BY DEF BodyRecords
<1>2. rot * b.cog \in Int
  BY <1>1
<1>3. p - rot * b.cog \in Int
  BY <1>2
<1>4. PICK x \in Int : x = p - rot * b.cog
  BY <1>3
<1>5. Turned(b, p, rot) = [b EXCEPT !.p = p, !.rot = rot, !.tx = x, !.synced = TRUE]
  BY <1>4, Zenon DEF Turned
<1>6. Turned(b, p, rot) \in BodyRecords
  <2>1. PICK r1, r2, r3 :
          r1 = [b EXCEPT !.p = p] /\ r2 = [r1 EXCEPT !.rot = rot] /\ r3 = [r2 EXCEPT !.tx = x]
    OBVIOUS
  <2>2. Turned(b, p, rot) = [r3 EXCEPT !.synced = TRUE]
    BY <1>5, <2>1
  <2>3. r1 \in BodyRecords
    BY <2>1, FieldSet
  <2>4. r2 \in BodyRecords
    BY <2>1, <2>3, FieldSet
  <2>5. r3 \in BodyRecords
    BY <2>1, <2>4, FieldSet
  <2> QED BY <2>2, <2>5, FieldSet
<1> DEFINE T == Turned(b, p, rot)
<1>7. /\ T.type = b.type /\ T.m = b.m /\ T.i = b.i /\ T.cog = b.cog /\ T.own = b.own
      /\ T.head = b.head /\ T.tx = x /\ T.p = p /\ T.rot = rot
  BY <1>1, <1>5
<1> HIDE DEF T
<1>8. PlaceTrue(T)
  BY <1>4, <1>7 DEF PlaceTrue
<1> QED BY <1>4, <1>6, <1>7, <1>8 DEF T

\* Moving a body takes it there.
LEMMA PlaceSet ==
  ASSUME NEW b \in BodyRecords, NEW x \in Int
  PROVE  /\ SetPlace(b, x) \in BodyRecords
         /\ SetPlace(b, x).type = b.type /\ SetPlace(b, x).m = b.m /\ SetPlace(b, x).i = b.i
         /\ SetPlace(b, x).cog = b.cog /\ SetPlace(b, x).own = b.own /\ SetPlace(b, x).head = b.head
         /\ SetPlace(b, x).tx = x /\ PlaceTrue(SetPlace(b, x))
<1>1. b.cog \in Int /\ b.rot \in {1, -1}
  BY DEF BodyRecords
<1>2. PICK y \in Int : y = b.rot * b.cog
  BY <1>1
<1>3. PICK w \in Int : w = y + x
  OBVIOUS
<1> DEFINE T == Turned(b, w, b.rot)
<1>4. /\ T \in BodyRecords /\ PlaceTrue(T)
      /\ T.type = b.type /\ T.m = b.m /\ T.i = b.i /\ T.cog = b.cog /\ T.own = b.own
      /\ T.head = b.head /\ T.tx = w - b.rot * b.cog
  BY <1>1, TurnedIs, ZenonT(60)
<1>5. SetPlace(b, x) = T
  BY <1>2, <1>3, Zenon DEF SetPlace
<1> HIDE DEF T
<1>6. T.tx = w - y
  BY <1>2, <1>4, Zenon
<1>7. w - y = x
  BY <1>3
<1> QED BY <1>4, <1>5, <1>6, <1>7

\* An operation that begins to add up masses
LEMMA BeginsLoop ==
  ASSUME BodyMassAssumption, NEW b \in BodyRecords, Accumulate(b), PlaceTrue(b),
         sum \in SumRecords, ~sum.on, piece' \in [Piece -> PieceRecords], InList'
  PROVE  MassInv'
<1>1. CASE b.type # "dynamic"
  <2>1. body' = b /\ sum' = sum
    BY <1>1 DEF Accumulate
  <2>2. MassTypeOK' /\ ListKept'
    BY <2>1 DEF MassTypeOK, ListKept, InList
  <2>3. LoopKept' /\ IdleKept' /\ PlaceTrue(body)'
    BY <1>1, <2>1 DEF LoopKept, IdleKept, PlaceTrue
  <2> QED BY <2>2, <2>3 DEF MassInv
<1>2. CASE b.type = "dynamic"
  <2>1. /\ body' = [b EXCEPT !.m = 0, !.i = 0, !.cog = 0, !.own = FALSE, !.synced = FALSE]
        /\ sum' = [on |-> TRUE, at |-> b.head, pos |-> Place(b)]
    BY <1>2 DEF Accumulate
  <2>2. /\ body'.m = 0 /\ body'.i = 0 /\ body'.cog = 0 /\ body'.own = FALSE /\ body'.synced = FALSE
        /\ body'.type = "dynamic" /\ body'.head = b.head /\ body'.tx = b.tx
    BY <1>2, <2>1 DEF BodyRecords
  <2>3. MassTypeOK'
    <3>1. body' \in BodyRecords
      <4>2. PICK r1, r2, r3, r4 :
              /\ r1 = [b EXCEPT !.m = 0] /\ r2 = [r1 EXCEPT !.i = 0] /\ r3 = [r2 EXCEPT !.cog = 0]
              /\ r4 = [r3 EXCEPT !.own = FALSE]
        OBVIOUS
      <4>3. body' = [r4 EXCEPT !.synced = FALSE]
        BY <2>1, <4>2
      <4>4. 0 \in Int
        OBVIOUS
      <4>5. r1 \in BodyRecords
        BY <4>2, <4>4, FieldSet
      <4>6. r2 \in BodyRecords
        BY <4>2, <4>4, <4>5, FieldSet
      <4>7. r3 \in BodyRecords
        BY <4>2, <4>4, <4>6, FieldSet
      <4>8. r4 \in BodyRecords
        BY <4>2, <4>7, FieldSet
      <4> QED BY <4>3, <4>8, FieldSet
    <3>2. sum' \in SumRecords
      BY <2>1 DEF BodyRecords, SumRecords, Place
    <3> QED BY <3>1, <3>2 DEF MassTypeOK
  <2>0. PICK n \in Places : \E q \in [1 .. n -> Piece] : InOrder(n, q)'
    BY DEF InList
  <2>4. PICK q \in [1 .. n -> Piece] : InOrder(n, q)'
    BY <2>0
  <2>5. Seen(body', piece', sum', n, q, 0)
    <3>1. {q[k] : k \in 1 .. 0} = {}
      OBVIOUS
    <3>2. Weighed(body', piece', {})
      <4>1. MassOf(piece', {}) = 0 /\ LeverOf(piece', {}) = 0 /\ MomentOf(piece', {}, 0) = 0
        BY SumsOfNone
      <4> QED BY <2>2, <4>1 DEF Weighed
    <3>3. sum'.at = IF 0 = n THEN NIL ELSE q[0 + 1]
      BY <2>1, <2>2, <2>4 DEF InOrder
    <3>4. body'.m \in 0 .. 0 * MaxMass /\ body'.m * body'.cog = 0 * Unit
      BY <2>2 DEF BodyMassAssumption
    <3>5. Weighed(body', piece', {q[k] : k \in 1 .. 0})
      BY <3>1, <3>2, Zenon
    <3>6. 0 \in Int
      OBVIOUS
    <3> QED BY <3>3, <3>4, <3>5, <3>6, Zenon DEF Seen
  <2>6. ListKept'
    <3>1. 0 \in 0 .. n
      BY DEF Places
    <3> QED BY <2>4, <2>5, <3>1 DEF ListKept, InList
  <2>7. LoopKept' /\ IdleKept' /\ PlaceTrue(body)'
    BY <2>1, <2>2 DEF LoopKept, IdleKept, PlaceTrue, Place
  <2> QED BY <2>3, <2>6, <2>7 DEF MassInv
<1> QED BY <1>1, <1>2

\* An operation that does not
LEMMA StaysIdle ==
  ASSUME BodyMassAssumption, MassInv, ~sum.on, sum' = sum, body' \in BodyRecords,
         piece' \in [Piece -> PieceRecords], InList', PlaceTrue(body'),
         body'.type = "dynamic" /\ ~body'.own =>
           /\ body.type = "dynamic" /\ ~body.own
           /\ body'.m = body.m /\ body'.i = body.i /\ body'.cog = body.cog
           /\ \A t \in Piece :
                \/ /\ t \in Attached <=> t \in Attached'
                   /\ piece[t].m = piece'[t].m /\ piece[t].c = piece'[t].c
                \/ piece[t].m = 0 /\ piece'[t].m = 0
  PROVE  MassInv'
<1>1. MassTypeOK'
  BY DEF MassInv, MassTypeOK
<1>2. ListKept' /\ LoopKept' /\ PlaceTrue(body)'
  BY DEF InList, ListKept, LoopKept, PlaceTrue
<1>3. IdleKept'
  <2> SUFFICES ASSUME body'.type = "dynamic", ~body'.own PROVE Weighed(body', piece', Attached')
    BY DEF IdleKept
  <2>1. Weighed(body, piece, Attached)
    BY DEF MassInv, IdleKept
  <2>2. piece \in [Piece -> PieceRecords]
    BY DEF MassInv, MassTypeOK
  <2>3. Weighed(body, piece', Attached')
    BY <2>1, <2>2, SumsKept
  <2> QED BY <2>3 DEF Weighed
<1> QED BY <1>1, <1>2, <1>3 DEF MassInv

\* The links of a shape that comes or goes leave masses and centres as they are.
LEMMA LinkedTyped ==
  ASSUME BodyMassAssumption, MassTypeOK, NEW s \in Piece
  PROVE  /\ Linked(body, piece, s) \in [Piece -> PieceRecords]
         /\ \A t \in Piece : /\ Linked(body, piece, s)[t].m = piece[t].m
                             /\ Linked(body, piece, s)[t].c = piece[t].c
                             /\ Linked(body, piece, s)[t].listed = piece[t].listed
<1>1. body.head \in Places /\ s \in Places /\ piece \in [Piece -> PieceRecords]
  BY DEF MassTypeOK, BodyRecords, Places, Piece, BodyMassAssumption
<1>2. \A r \in PieceRecords : \A x \in Places :
        /\ [r EXCEPT !.next = x] \in PieceRecords /\ [r EXCEPT !.prev = x] \in PieceRecords
        /\ [r EXCEPT !.next = x].m = r.m /\ [r EXCEPT !.next = x].c = r.c
        /\ [r EXCEPT !.next = x].listed = r.listed
        /\ [r EXCEPT !.prev = x].m = r.m /\ [r EXCEPT !.prev = x].c = r.c
        /\ [r EXCEPT !.prev = x].listed = r.listed
  BY DEF PieceRecords
<1>3. ASSUME NEW t \in Piece
      PROVE  \/ Linked(body, piece, s)[t] = [piece[t] EXCEPT !.next = body.head]
             \/ Linked(body, piece, s)[t] = [piece[t] EXCEPT !.prev = s]
             \/ Linked(body, piece, s)[t] = piece[t]
  BY DEF Linked
<1>4. ASSUME NEW t \in Piece
      PROVE  /\ Linked(body, piece, s)[t] \in PieceRecords
             /\ Linked(body, piece, s)[t].m = piece[t].m /\ Linked(body, piece, s)[t].c = piece[t].c
             /\ Linked(body, piece, s)[t].listed = piece[t].listed
  <2>1. piece[t] \in PieceRecords
    BY <1>1
  <2>2. CASE Linked(body, piece, s)[t] = [piece[t] EXCEPT !.next = body.head]
    <3>1. PICK w : w = [piece[t] EXCEPT !.next = body.head]
      OBVIOUS
    <3>2. w \in PieceRecords /\ w.m = piece[t].m /\ w.c = piece[t].c /\ w.listed = piece[t].listed
      BY <1>1, <1>2, <2>1, <3>1
    <3>3. Linked(body, piece, s)[t] = w
      BY <2>2, <3>1
    <3> QED BY <3>2, <3>3, Zenon
  <2>3. CASE Linked(body, piece, s)[t] = [piece[t] EXCEPT !.prev = s]
    <3>1. PICK w : w = [piece[t] EXCEPT !.prev = s]
      OBVIOUS
    <3>2. w \in PieceRecords /\ w.m = piece[t].m /\ w.c = piece[t].c /\ w.listed = piece[t].listed
      BY <1>1, <1>2, <2>1, <3>1
    <3>3. Linked(body, piece, s)[t] = w
      BY <2>3, <3>1
    <3> QED BY <3>2, <3>3, Zenon
  <2>4. CASE Linked(body, piece, s)[t] = piece[t]
    BY <2>1, <2>4, Zenon
  <2> QED BY <1>3, <2>2, <2>3, <2>4, Zenon
<1>5. Linked(body, piece, s) = [t \in Piece |-> Linked(body, piece, s)[t]]
  BY DEF Linked
<1> QED BY <1>4, <1>5

\* The same of a shape that goes
LEMMA UnlinkedTyped ==
  ASSUME BodyMassAssumption, MassTypeOK, NEW s \in Piece
  PROVE  /\ Unlinked(body, piece, s) \in [Piece -> PieceRecords]
         /\ \A t \in Piece : /\ Unlinked(body, piece, s)[t].m = piece[t].m
                             /\ Unlinked(body, piece, s)[t].c = piece[t].c
                             /\ Unlinked(body, piece, s)[t].listed = piece[t].listed
<1>1. /\ NIL \in Places /\ piece[s].next \in Places /\ piece[s].prev \in Places
      /\ piece \in [Piece -> PieceRecords]
  BY DEF MassTypeOK, PieceRecords, Places, BodyMassAssumption, NIL
<1>2. \A r \in PieceRecords : \A x \in Places :
      /\ [r EXCEPT !.next = x] \in PieceRecords /\ [r EXCEPT !.prev = x] \in PieceRecords
      /\ [r EXCEPT !.next = x].m = r.m /\ [r EXCEPT !.next = x].c = r.c
      /\ [r EXCEPT !.next = x].listed = r.listed
      /\ [r EXCEPT !.prev = x].m = r.m /\ [r EXCEPT !.prev = x].c = r.c
      /\ [r EXCEPT !.prev = x].listed = r.listed
  BY DEF PieceRecords
<1>3. ASSUME NEW t \in Piece
      PROVE  \/ Unlinked(body, piece, s)[t] = [[piece[t] EXCEPT !.next = NIL] EXCEPT !.prev = NIL]
             \/ Unlinked(body, piece, s)[t] = [piece[t] EXCEPT !.next = piece[s].next]
             \/ Unlinked(body, piece, s)[t] = [piece[t] EXCEPT !.prev = piece[s].prev]
             \/ Unlinked(body, piece, s)[t] = piece[t]
  <2>1. [[piece[t] EXCEPT !.next = NIL] EXCEPT !.prev = NIL] = [piece[t] EXCEPT !.next = NIL, !.prev = NIL]
    OBVIOUS
  <2> QED BY <2>1 DEF Unlinked
<1>4. ASSUME NEW t \in Piece
      PROVE  /\ Unlinked(body, piece, s)[t] \in PieceRecords
             /\ Unlinked(body, piece, s)[t].m = piece[t].m /\ Unlinked(body, piece, s)[t].c = piece[t].c
             /\ Unlinked(body, piece, s)[t].listed = piece[t].listed
  <2>1. piece[t] \in PieceRecords
    BY <1>1
  <2>2. PICK r : r = [piece[t] EXCEPT !.next = NIL]
    OBVIOUS
  <2>3. r \in PieceRecords /\ r.m = piece[t].m /\ r.c = piece[t].c /\ r.listed = piece[t].listed
    BY <1>1, <1>2, <2>1, <2>2
  <2>4. CASE Unlinked(body, piece, s)[t] = [[piece[t] EXCEPT !.next = NIL] EXCEPT !.prev = NIL]
    <3>1. Unlinked(body, piece, s)[t] = [r EXCEPT !.prev = NIL]
      BY <2>2, <2>4
    <3>2. /\ [r EXCEPT !.prev = NIL] \in PieceRecords
          /\ [r EXCEPT !.prev = NIL].m = r.m /\ [r EXCEPT !.prev = NIL].c = r.c
          /\ [r EXCEPT !.prev = NIL].listed = r.listed
      BY <1>1, <1>2, <2>3, Zenon
    <3> QED BY <2>3, <3>1, <3>2, Zenon
  <2>5. CASE Unlinked(body, piece, s)[t] = [piece[t] EXCEPT !.next = piece[s].next]
    <3>1. PICK w : w = [piece[t] EXCEPT !.next = piece[s].next]
      OBVIOUS
    <3>2. w \in PieceRecords /\ w.m = piece[t].m /\ w.c = piece[t].c /\ w.listed = piece[t].listed
      BY <1>1, <1>2, <2>1, <3>1
    <3>3. Unlinked(body, piece, s)[t] = w
      BY <2>5, <3>1
    <3> QED BY <3>2, <3>3, Zenon
  <2>6. CASE Unlinked(body, piece, s)[t] = [piece[t] EXCEPT !.prev = piece[s].prev]
    <3>1. PICK w : w = [piece[t] EXCEPT !.prev = piece[s].prev]
      OBVIOUS
    <3>2. w \in PieceRecords /\ w.m = piece[t].m /\ w.c = piece[t].c /\ w.listed = piece[t].listed
      BY <1>1, <1>2, <2>1, <3>1
    <3>3. Unlinked(body, piece, s)[t] = w
      BY <2>6, <3>1
    <3> QED BY <3>2, <3>3, Zenon
  <2>7. CASE Unlinked(body, piece, s)[t] = piece[t]
    BY <2>1, <2>7, Zenon
  <2> QED BY <1>3, <2>4, <2>5, <2>6, <2>7, Zenon
<1>5. Unlinked(body, piece, s) = [t \in Piece |-> Unlinked(body, piece, s)[t]]
  BY DEF Unlinked
<1> QED BY <1>4, <1>5

\* And it is marked as one that is there, or is not.
LEMMA Marked ==
  ASSUME NEW L \in [Piece -> PieceRecords], NEW s \in Piece, NEW v \in BOOLEAN
  PROVE  /\ [L EXCEPT ![s].listed = v] \in [Piece -> PieceRecords]
         /\ \A t \in Piece : /\ [L EXCEPT ![s].listed = v][t].m = L[t].m
                             /\ [L EXCEPT ![s].listed = v][t].c = L[t].c
                             /\ t # s => [L EXCEPT ![s].listed = v][t] = L[t]
<1>1. /\ [L[s] EXCEPT !.listed = v] \in PieceRecords
      /\ [L[s] EXCEPT !.listed = v].m = L[s].m /\ [L[s] EXCEPT !.listed = v].c = L[s].c
  BY DEF PieceRecords
<1>2. PICK r \in PieceRecords : r = [L[s] EXCEPT !.listed = v]
  BY <1>1
<1>3. [L EXCEPT ![s].listed = v] = [L EXCEPT ![s] = r]
  BY <1>2
<1> QED BY <1>1, <1>2, <1>3

\* Adding up masses takes neither the body nor its list away.
LEMMA AccumulateKeeps ==
  ASSUME NEW b \in BodyRecords, Accumulate(b)
  PROVE  body'.head = b.head /\ body'.tx = b.tx
<1>1. DOMAIN b = {"type", "m", "i", "cog", "p", "rot", "tx", "head", "own", "synced"}
  BY DEF BodyRecords
<1> QED BY <1>1 DEF Accumulate

\* One step of the loop: a shape with mass makes the body that of one shape more.
LEMMA OneMore ==
  ASSUME BodyMassAssumption, NEW b \in BodyRecords, NEW pc \in [Piece -> PieceRecords],
         NEW S, NEW s \in Piece, s \notin S, Weighed(b, pc, S),
         NEW j \in Nat, j + 1 <= MaxPiece, b.m \in 0 .. j * MaxMass,
         \E z \in Int : b.m * b.cog = z * Unit
  PROVE  LET h == Heavier(b, pc[s])
         IN  /\ h \in BodyRecords /\ Weighed(h, pc, S \cup {s})
             /\ h.m \in 0 .. (j + 1) * MaxMass /\ \E z \in Int : h.m * h.cog = z * Unit
             /\ h.type = b.type /\ h.own = b.own /\ h.synced = b.synced /\ h.tx = b.tx
             /\ h.head = b.head
<1> DEFINE h == Heavier(b, pc[s])
<1>1. PICK M \in Nat, q \in Nat, g \in Int, c \in Int, i \in Int :
         M = b.m /\ q = pc[s].m /\ g = b.cog /\ c = pc[s].c /\ i = b.i
  <2>1. pc[s].m \in Nat /\ pc[s].c \in Int
    BY DEF PieceRecords, Mass, BodyMassAssumption
  <2>2. b.cog \in Int /\ b.i \in Int /\ b.m \in Nat
    BY DEF BodyRecords
  <2> QED BY <2>1, <2>2
<1>2. /\ MassOf(pc, S \cup {s}) = M + q
      /\ LeverOf(pc, S \cup {s}) = M * g + q * c
      /\ MomentOf(pc, S \cup {s}, 0) = (i + M * (g * g)) + q * (Moment + c * c)
  <2>1. MassOf(pc, S) = M /\ LeverOf(pc, S) = M * g /\ MomentOf(pc, S, 0) = i + M * (g * g)
    BY <1>1, Zenon DEF Weighed
  <2>2. /\ MassOf(pc, S \cup {s}) = MassOf(pc, S) + q
        /\ LeverOf(pc, S \cup {s}) = LeverOf(pc, S) + q * c
        /\ MomentOf(pc, S \cup {s}, 0) = MomentOf(pc, S, 0) + q * (Moment + c * c)
    BY <1>1, SumsOfMore, Zenon
  <2> QED BY <2>1, <2>2, Zenon
<1>3. PICK z \in Int : M * g = z * Unit
  BY <1>1, Zenon
<1>4. q <= MaxMass /\ M <= j * MaxMass /\ MaxMass \in Nat /\ MaxPiece \in Nat /\ Unit \in Nat
  <2>1. pc[s].m <= MaxMass
    BY DEF PieceRecords, Mass, BodyMassAssumption
  <2>2. b.m <= j * MaxMass
    BY DEF BodyMassAssumption
  <2> QED BY <1>1, <2>1, <2>2 DEF BodyMassAssumption
<1>5. M + q <= (j + 1) * MaxMass
  <2>1. (j + 1) * MaxMass = j * MaxMass + MaxMass
    BY <1>4
  <2>2. PICK J \in Int : J = j * MaxMass
    BY <1>4
  <2> QED BY <1>4, <2>1, <2>2
<1>6. CASE q = 0
  <2>1. h = b
    BY <1>1, <1>6 DEF Heavier
  <2>2. q * c = 0 /\ q * (Moment + c * c) = 0
    <3>1. \A x \in Int : 0 * x = 0
      OBVIOUS
    <3>2. Moment + c * c \in Int
      BY DEF Moment
    <3> QED BY <1>6, <3>1, <3>2
  <2>3. Weighed(b, pc, S \cup {s})
    <3>1. M * g \in Int /\ i + M * (g * g) \in Int
      OBVIOUS
    <3>2. \A x \in Int : x + 0 = x
      OBVIOUS
    <3>5. M + q = M
      BY <1>6
    <3>3. M + q = M /\ M * g + q * c = M * g
      BY <2>2, <3>1, <3>2, <3>5, Zenon
    <3>4. (i + M * (g * g)) + q * (Moment + c * c) = i + M * (g * g)
      BY <2>2, <3>1, <3>2, Zenon
    <3> QED BY <1>1, <1>2, <3>3, <3>4, Zenon DEF Weighed
  <2>4. b.m \in 0 .. (j + 1) * MaxMass
    <3>1. PICK J \in Int : J = (j + 1) * MaxMass
      BY <1>4
    <3> QED BY <1>1, <1>5, <1>6, <3>1
  <2> QED BY <2>1, <2>3, <2>4, Zenon
<1>7. CASE q # 0
  <2> DEFINE N == M + q
             d == c - g
             g1 == g + (d * q) \div N
             i1 == i + q * Moment + (d * d * q * M) \div N
  <2>1. PICK y \in Int : c = y * Unit
    <3>1. c = 0 * Unit \/ c = 1 * Unit
      BY <1>1, <1>4 DEF PieceRecords
    <3> QED BY <3>1
  <2>2. PICK f \in Int : N * f = Unit
    <3>1. (j + 1) * MaxMass <= MaxPiece * MaxMass
      <4>1. \A x, y1, w \in Nat : x <= y1 => x * w <= y1 * w
        <5> SUFFICES ASSUME NEW x \in Nat, NEW y1 \in Nat, NEW w \in Nat, x <= y1
                     PROVE  x * w <= y1 * w
          OBVIOUS
        <5>1. PICK e \in Nat : y1 = x + e
          <6>1. y1 - x \in Nat /\ y1 = x + (y1 - x)
            OBVIOUS
          <6> QED BY <6>1
        <5>2. y1 * w = x * w + e * w
          BY <5>1
        <5>3. e * w \in Nat /\ x * w \in Nat
          OBVIOUS
        <5> QED BY <5>2, <5>3
      <4> QED BY <1>4, <4>1
    <3>2. PICK J \in Int, P \in Int : J = (j + 1) * MaxMass /\ P = MaxPiece * MaxMass
      BY <1>4
    <3>3. N \in 1 .. P
      BY <1>5, <1>7, <3>1, <3>2
    <3>4. \A m \in 1 .. P : \E n \in 1 .. Unit : m * n = Unit
      BY <3>2 DEF BodyMassAssumption
    <3>5. \A n \in 1 .. Unit : n \in Int
      BY <1>4
    <3> QED BY <3>3, <3>4, <3>5, Zenon
  <2>3. Moment \in Int /\ Unit \in Int /\ q \in Nat \ {0}
    BY <1>4, <1>7 DEF Moment
  <2>4. /\ (d * q) \div N \in Int /\ (d * d * q * M) \div N \in Int
        /\ N * g1 = M * g + q * c
        /\ i1 + N * (g1 * g1) = (i + M * (g * g)) + q * (Moment + c * c)
    <3>1. Exact(M, q, g, c, Unit, z, y, f)
      BY <1>3, <2>1, <2>2, Zenon DEF Exact
    <3>2. HeavyIs(M, q, g, c, i, Moment)
      <4> HIDE DEF N, d, g1, i1
      <4> QED BY <2>3, <3>1, Heavy
    <3> QED BY <3>2, Zenon DEF HeavyIs
  <2>5. N \in Int /\ g1 \in Int /\ i1 \in Int
    <3> HIDE DEF d
    <3> QED BY <2>3, <2>4
  <2>6. PICK g2 \in Int, i2 \in Int, N2 \in Int : g2 = g1 /\ i2 = i1 /\ N2 = N
    BY <2>5
  <2>7. h = [b EXCEPT !.m = N2, !.i = i2, !.cog = g2]
    <3>1. h = [b EXCEPT !.m = N, !.i = i1, !.cog = g1]
      BY <1>1, <1>7, Zenon DEF Heavier
    <3> QED BY <2>6, <3>1, Zenon
  <2> HIDE DEF h, N, d, g1, i1
  <2>8. h \in BodyRecords
    <3>1. PICK r1, r2 : r1 = [b EXCEPT !.m = N2] /\ r2 = [r1 EXCEPT !.i = i2]
      OBVIOUS
    <3>2. h = [r2 EXCEPT !.cog = g2]
      BY <2>7, <3>1
    <3>3. r1 \in BodyRecords
      BY <3>1, FieldSet
    <3>4. r2 \in BodyRecords
      BY <3>1, <3>3, FieldSet
    <3> QED BY <3>2, <3>4, FieldSet
  <2>9. /\ h.m = N2 /\ h.i = i2 /\ h.cog = g2
        /\ h.type = b.type /\ h.own = b.own /\ h.synced = b.synced /\ h.tx = b.tx /\ h.head = b.head
    <3>1. DOMAIN b = {"type", "m", "i", "cog", "p", "rot", "tx", "head", "own", "synced"}
      BY DEF BodyRecords
    <3> QED BY <2>7, <3>1
  <2>10. Weighed(h, pc, S \cup {s})
    <3>1. N2 = M + q
      BY <2>6 DEF N
    <3>2. N2 * g2 = M * g + q * c
      BY <2>4, <2>6, Zenon
    <3>3. i2 + N2 * (g2 * g2) = (i + M * (g * g)) + q * (Moment + c * c)
      BY <2>4, <2>6, Zenon
    <3> QED BY <1>2, <2>9, <3>1, <3>2, <3>3, Zenon DEF Weighed
  <2>11. h.m \in 0 .. (j + 1) * MaxMass
    <3>1. PICK J \in Int : J = (j + 1) * MaxMass
      BY <1>4
    <3> QED BY <1>5, <2>6, <2>9, <3>1 DEF N
  <2>12. N2 * g2 = (z + q * y) * Unit /\ z + q * y \in Int
    <3>1. (z + q * y) * Unit = z * Unit + q * (y * Unit)
      BY <2>3
    <3>2. N2 * g2 = M * g + q * c
      BY <2>4, <2>6, Zenon
    <3>3. z + q * y \in Int
      BY <2>3
    <3> QED BY <1>3, <2>1, <3>1, <3>2, <3>3, Zenon
  <2> QED BY <2>8, <2>9, <2>10, <2>11, <2>12, Zenon DEF h
<1> QED BY <1>6, <1>7

\* The state while the loop is at some shape of the list
LEMMA LoopAt ==
  ASSUME BodyMassAssumption, MassInv, sum.on
  PROVE  \E n \in Places : \E q \in [1 .. n -> Piece] : \E j \in 0 .. n :
           InOrder(n, q) /\ Seen(body, piece, sum, n, q, j)
BY DEF MassInv, ListKept

\* The loop goes on by a shape.
LEMMA ShapeStep ==
  ASSUME BodyMassAssumption, MassInv, AccumulateShape
  PROVE  MassInv' /\ Place(body') = Place(body)
<1>1. PICK n \in Places : \E q \in [1 .. n -> Piece] : \E j \in 0 .. n :
             InOrder(n, q) /\ Seen(body, piece, sum, n, q, j)
  BY LoopAt DEF AccumulateShape
<1>2. PICK q \in [1 .. n -> Piece] : \E j \in 0 .. n : InOrder(n, q) /\ Seen(body, piece, sum, n, q, j)
  BY <1>1
<1>3. PICK j \in 0 .. n : InOrder(n, q) /\ Seen(body, piece, sum, n, q, j)
  BY <1>2
<1>4. /\ n \in Nat /\ j \in Nat /\ j # n /\ j + 1 \in 1 .. n /\ j + 1 <= MaxPiece
      /\ sum.at = q[j + 1] /\ q[j + 1] \in Piece
  <2>1. n \in Nat /\ j \in Nat /\ j <= n /\ n <= MaxPiece
    BY DEF Places, BodyMassAssumption
  <2>2. j # n /\ sum.at = q[j + 1]
    BY <1>3 DEF AccumulateShape, Seen
  <2>3. j + 1 \in 1 .. n
    BY <2>1, <2>2
  <2> QED BY <2>1, <2>2, <2>3
<1>5. /\ body \in BodyRecords /\ piece \in [Piece -> PieceRecords] /\ sum \in SumRecords
      /\ body' = Heavier(body, piece[q[j + 1]]) /\ sum' = [sum EXCEPT !.at = piece[q[j + 1]].next]
      /\ piece' = piece /\ sum.on
  BY <1>4 DEF MassInv, MassTypeOK, AccumulateShape
<1> DEFINE s == q[j + 1]
           S == {q[k] : k \in 1 .. j}
<1>6. s \notin S
  <2>1. ASSUME NEW k \in 1 .. j PROVE q[k] # s
    <3>1. k \in 1 .. n /\ k # j + 1
      BY <1>4
    <3> QED BY <1>3, <1>4, <3>1 DEF InOrder
  <2> QED BY <2>1
<1>7. S \cup {s} = {q[k] : k \in 1 .. j + 1}
  <2>1. \A k : k \in 1 .. j + 1 <=> k \in 1 .. j \/ k = j + 1
    BY <1>4
  <2> QED BY <2>1
<1>8. /\ body' \in BodyRecords /\ Weighed(body', piece, S \cup {s})
      /\ body'.m \in 0 .. (j + 1) * MaxMass /\ \E z \in Int : body'.m * body'.cog = z * Unit
      /\ body'.type = body.type /\ body'.own = body.own /\ body'.synced = body.synced
      /\ body'.tx = body.tx /\ body'.head = body.head
  <2>1. /\ Weighed(body, piece, S) /\ body.m \in 0 .. j * MaxMass
        /\ \E z \in Int : body.m * body.cog = z * Unit
    BY <1>3, Zenon DEF Seen
  <2> HIDE DEF S
  <2>2. s \in Piece
    BY <1>4
  <2>3. body' = Heavier(body, piece[s])
    BY <1>5
  <2>4. body \in BodyRecords /\ piece \in [Piece -> PieceRecords] /\ j \in Nat /\ j + 1 <= MaxPiece
    BY <1>4, <1>5
  <2> HIDE DEF s
  <2>5. LET h == Heavier(body, piece[s])
        IN  /\ h \in BodyRecords /\ Weighed(h, piece, S \cup {s})
            /\ h.m \in 0 .. (j + 1) * MaxMass /\ \E z \in Int : h.m * h.cog = z * Unit
            /\ h.type = body.type /\ h.own = body.own /\ h.synced = body.synced /\ h.tx = body.tx
            /\ h.head = body.head
    BY <1>6, <2>1, <2>2, <2>4, OneMore, ZenonT(60)
  <2> QED BY <2>3, <2>5, Zenon
<1>9. Attached' = Attached
  BY <1>5 DEF Attached
<1>10. InOrder(n, q)'
  BY <1>3, <1>5, <1>8, <1>9 DEF InOrder
<1>11. Seen(body', piece', sum', n, q, j + 1)
  <2>1. sum'.at = piece[s].next
    BY <1>5 DEF SumRecords
  <2>2. piece[s].next = IF j + 1 = n THEN NIL ELSE q[(j + 1) + 1]
    BY <1>3, <1>4 DEF InOrder
  <2>3. Weighed(body', piece', {q[k] : k \in 1 .. j + 1})
    BY <1>5, <1>7, <1>8, Zenon
  <2> HIDE DEF s
  <2>4. sum'.at = IF j + 1 = n THEN NIL ELSE q[(j + 1) + 1]
    BY <2>1, <2>2, Zenon
  <2> QED BY <1>8, <2>3, <2>4, Zenon DEF Seen
<1>12. ListKept'
  <2>1. OthersFree'
    BY <1>5, <1>9 DEF MassInv, ListKept, OthersFree
  <2>2. j + 1 \in 0 .. n
    BY <1>4
  <2> QED BY <1>10, <1>11, <2>1, <2>2 DEF ListKept
<1>13. sum' \in SumRecords /\ sum'.on /\ sum'.pos = sum.pos
  <2>1. piece[q[j + 1]].next \in Places
    BY <1>4, <1>5 DEF PieceRecords
  <2> QED BY <1>5, <2>1 DEF SumRecords
<1>14. MassTypeOK'
  BY <1>5, <1>8, <1>13 DEF MassTypeOK
<1>15. LoopKept' /\ IdleKept' /\ PlaceTrue(body)'
  BY <1>5, <1>8, <1>13 DEF MassInv, LoopKept, IdleKept, PlaceTrue, Place
<1> QED BY <1>8, <1>12, <1>14, <1>15 DEF MassInv, Place

\* The loop ends, and the body is put back to its place.
LEMMA EndStep ==
  ASSUME BodyMassAssumption, MassInv, AccumulateEnd
  PROVE  MassInv' /\ Place(body') = Place(body)
<1>1. PICK n \in Places : \E q \in [1 .. n -> Piece] : \E j \in 0 .. n :
             InOrder(n, q) /\ Seen(body, piece, sum, n, q, j)
  BY LoopAt DEF AccumulateEnd
<1>2. PICK q \in [1 .. n -> Piece] : \E j \in 0 .. n : InOrder(n, q) /\ Seen(body, piece, sum, n, q, j)
  BY <1>1
<1>3. PICK j \in 0 .. n : InOrder(n, q) /\ Seen(body, piece, sum, n, q, j)
  BY <1>2
<1>4. j = n
  <2>1. n \in Nat /\ j \in Nat /\ j <= n
    BY DEF Places, BodyMassAssumption
  <2>2. j # n => j + 1 \in 1 .. n
    BY <2>1
  <2>3. j # n => q[j + 1] = NIL /\ q[j + 1] \in Piece
    BY <1>3, <2>2 DEF AccumulateEnd, Seen
  <2> QED BY <2>3 DEF Piece, NIL
<1>5. Weighed(body, piece, Attached)
  <2>1. Weighed(body, piece, {q[k] : k \in 1 .. j}) /\ Attached = {q[k] : k \in 1 .. n}
    BY <1>3, Zenon DEF Seen, InOrder
  <2> QED BY <1>4, <2>1, Zenon
<1>6. /\ body \in BodyRecords /\ sum.pos \in Int /\ body' = SetPlace(body, sum.pos)
      /\ sum' = [sum EXCEPT !.on = FALSE, !.pos = 0] /\ piece' = piece /\ sum \in SumRecords /\ sum.on = TRUE
  <2>1. sum.pos \in Int /\ sum.on \in BOOLEAN
    BY DEF MassInv, MassTypeOK, SumRecords
  <2> QED BY <2>1 DEF MassInv, MassTypeOK, AccumulateEnd, Realigned
<1>7. /\ body' \in BodyRecords /\ body'.type = body.type /\ body'.m = body.m /\ body'.i = body.i
      /\ body'.cog = body.cog /\ body'.own = body.own /\ body'.head = body.head
      /\ body'.tx = sum.pos /\ PlaceTrue(body')
  BY <1>6, PlaceSet
<1>8. sum' \in SumRecords /\ sum'.on = FALSE
  <2>1. sum' = [on |-> FALSE, at |-> sum.at, pos |-> 0] /\ sum.at \in Places
    BY <1>6 DEF SumRecords
  <2> QED BY <2>1 DEF SumRecords
<1>9. Attached' = Attached
  BY <1>6 DEF Attached
<1>10. InOrder(n, q)' /\ OthersFree'
  BY <1>3, <1>6, <1>7, <1>9 DEF InOrder, MassInv, ListKept, OthersFree
<1>11. MassTypeOK' /\ ListKept' /\ LoopKept'
  BY <1>6, <1>7, <1>8, <1>10 DEF MassInv, MassTypeOK, ListKept, LoopKept
<1>12. IdleKept'
  <2>1. Weighed(body', piece', Attached')
    BY <1>5, <1>6, <1>7, <1>9 DEF Weighed
  <2> QED BY <2>1 DEF IdleKept
<1>13. PlaceTrue(body)' /\ Place(body') = Place(body)
  BY <1>6, <1>7 DEF PlaceTrue, MassInv, LoopKept, Place
<1> QED BY <1>11, <1>12, <1>13 DEF MassInv

\* A shape is added, in front of the list.
LEMMA AddStep ==
  ASSUME BodyMassAssumption, MassInv, ~sum.on, NEW s \in Piece, AddPiece(s)
  PROVE  MassInv' /\ Place(body') = Place(body)
<1> DEFINE b == [body EXCEPT !.head = s]
           L == Linked(body, piece, s)
<1>1. /\ body \in BodyRecords /\ piece \in [Piece -> PieceRecords] /\ sum \in SumRecords
      /\ MassTypeOK /\ PlaceTrue(body) /\ ~piece[s].listed
      /\ piece' = [L EXCEPT ![s].listed = TRUE]
      /\ IF piece[s].m > 0 THEN Accumulate(b) ELSE body' = b /\ sum' = sum
  BY DEF MassInv, MassTypeOK, AddPiece
<1>2. s \in Places
  BY DEF Places, Piece, BodyMassAssumption
<1>3. /\ b \in BodyRecords /\ b.head = s /\ b.type = body.type /\ b.own = body.own /\ b.m = body.m
      /\ b.i = body.i /\ b.cog = body.cog /\ b.tx = body.tx /\ PlaceTrue(b)
  <2>1. b \in BodyRecords
    BY <1>1, <1>2, FieldSet
  <2>2. DOMAIN body = {"type", "m", "i", "cog", "p", "rot", "tx", "head", "own", "synced"}
    BY <1>1 DEF BodyRecords
  <2>3. /\ b.head = s /\ b.type = body.type /\ b.own = body.own /\ b.m = body.m /\ b.i = body.i
        /\ b.cog = body.cog /\ b.synced = body.synced /\ b.tx = body.tx /\ b.p = body.p
        /\ b.rot = body.rot
    BY <2>2
  <2> HIDE DEF b
  <2>4. PlaceTrue(b)
    BY <1>1, <2>3 DEF PlaceTrue
  <2> QED BY <2>1, <2>3, <2>4
<1>4. L \in [Piece -> PieceRecords] /\ \A t \in Piece : L[t].m = piece[t].m /\ L[t].c = piece[t].c
  BY <1>1, LinkedTyped
<1> HIDE DEF b
<1>5. body'.head = s /\ body'.tx = body.tx
  BY <1>1, <1>3, AccumulateKeeps
<1>6. InList'
  <2>1. PICK n \in Places : \E q \in [1 .. n -> Piece] : InOrder(n, q)
    BY DEF MassInv, ListKept
  <2>2. PICK q \in [1 .. n -> Piece] : InOrder(n, q)
    BY <2>1
  <2>3. OthersFree
    BY DEF MassInv, ListKept
  <2> QED BY <1>1, <1>5, <2>2, <2>3, ListGrows
<1> HIDE DEF L
<1>7. /\ piece' \in [Piece -> PieceRecords]
      /\ \A t \in Piece : piece'[t].m = piece[t].m /\ piece'[t].c = piece[t].c
  <2>1. TRUE \in BOOLEAN
    OBVIOUS
  <2>2. /\ [L EXCEPT ![s].listed = TRUE] \in [Piece -> PieceRecords]
        /\ \A t \in Piece : /\ [L EXCEPT ![s].listed = TRUE][t].m = L[t].m
                            /\ [L EXCEPT ![s].listed = TRUE][t].c = L[t].c
    BY <1>4, <2>1, Marked, ZenonT(60)
  <2> QED BY <1>1, <1>4, <2>2
<1>8. \A t \in Piece : t # s => (t \in Attached <=> t \in Attached')
  <2>1. \A t \in Piece : t # s => piece'[t].listed = piece[t].listed
    <3>1. \A t \in Piece : L[t].listed = piece[t].listed
      BY <1>1, LinkedTyped DEF L
    <3>2. \A t \in Piece : t # s => piece'[t] = L[t]
      BY <1>1, <1>4
    <3> QED BY <3>1, <3>2
  <2> QED BY <2>1 DEF Attached
<1>9. ASSUME piece[s].m > 0 PROVE MassInv'
  BY <1>1, <1>3, <1>6, <1>7, <1>9, BeginsLoop
<1>10. ASSUME ~(piece[s].m > 0) PROVE MassInv'
  <2>1. piece[s].m = 0 /\ piece'[s].m = 0
    BY <1>1, <1>7, <1>10 DEF PieceRecords, Mass, BodyMassAssumption
  <2>2. body' = b /\ sum' = sum
    BY <1>1, <1>10
  <2>3. \A t \in Piece : \/ /\ t \in Attached <=> t \in Attached'
                            /\ piece[t].m = piece'[t].m /\ piece[t].c = piece'[t].c
                         \/ piece[t].m = 0 /\ piece'[t].m = 0
    BY <1>7, <1>8, <2>1
  <2> QED BY <1>3, <1>6, <1>7, <2>2, <2>3, StaysIdle
<1> QED BY <1>5, <1>9, <1>10 DEF Place

\* A shape is taken out of the list, wherever it is.
LEMMA RemoveStep ==
  ASSUME BodyMassAssumption, MassInv, ~sum.on, NEW s \in Piece, RemovePiece(s)
  PROVE  MassInv' /\ Place(body') = Place(body)
<1> DEFINE b == IF piece[s].prev = NIL THEN [body EXCEPT !.head = piece[s].next] ELSE body
           L == Unlinked(body, piece, s)
<1>1. /\ body \in BodyRecords /\ piece \in [Piece -> PieceRecords] /\ sum \in SumRecords
      /\ MassTypeOK /\ PlaceTrue(body) /\ piece[s].listed
      /\ piece' = [L EXCEPT ![s].listed = FALSE]
      /\ IF piece[s].m > 0 THEN Accumulate(b) ELSE body' = b /\ sum' = sum
  BY DEF MassInv, MassTypeOK, RemovePiece
<1>2. piece[s].next \in Places
  BY <1>1 DEF PieceRecords
<1>3. /\ b \in BodyRecords
      /\ b.head = IF piece[s].prev = NIL THEN piece[s].next ELSE body.head
      /\ b.type = body.type /\ b.own = body.own /\ b.m = body.m
      /\ b.i = body.i /\ b.cog = body.cog /\ b.tx = body.tx /\ PlaceTrue(b)
  <2>1. CASE piece[s].prev # NIL
    BY <1>1, <2>1
  <2>2. CASE piece[s].prev = NIL
    <3>1. b \in BodyRecords
      BY <1>1, <1>2, <2>2, FieldSet
    <3>2. DOMAIN body = {"type", "m", "i", "cog", "p", "rot", "tx", "head", "own", "synced"}
      BY <1>1 DEF BodyRecords
    <3>3. /\ b.head = piece[s].next /\ b.type = body.type /\ b.own = body.own /\ b.m = body.m
          /\ b.i = body.i /\ b.cog = body.cog /\ b.synced = body.synced /\ b.tx = body.tx
          /\ b.p = body.p /\ b.rot = body.rot
      BY <2>2, <3>2
    <3> HIDE DEF b
    <3>4. PlaceTrue(b)
      BY <1>1, <3>3 DEF PlaceTrue
    <3> QED BY <2>2, <3>1, <3>3, <3>4
  <2> QED BY <2>1, <2>2
<1>4. L \in [Piece -> PieceRecords] /\ \A t \in Piece : L[t].m = piece[t].m /\ L[t].c = piece[t].c
  BY <1>1, UnlinkedTyped
<1> HIDE DEF b
<1>5. body'.head = b.head /\ body'.tx = body.tx
  BY <1>1, <1>3, AccumulateKeeps
<1>6. InList'
  <2>1. PICK n \in Places : \E q \in [1 .. n -> Piece] : InOrder(n, q)
    BY DEF MassInv, ListKept
  <2>2. PICK q \in [1 .. n -> Piece] : InOrder(n, q)
    BY <2>1
  <2>3. OthersFree
    BY DEF MassInv, ListKept
  <2>4. body'.head = IF piece[s].prev = NIL THEN piece[s].next ELSE body.head
    BY <1>3, <1>5
  <2> QED BY <1>1, <2>2, <2>3, <2>4, ListShrinks
<1> HIDE DEF L
<1>7. /\ piece' \in [Piece -> PieceRecords]
      /\ \A t \in Piece : piece'[t].m = piece[t].m /\ piece'[t].c = piece[t].c
  <2>1. FALSE \in BOOLEAN
    OBVIOUS
  <2>2. /\ [L EXCEPT ![s].listed = FALSE] \in [Piece -> PieceRecords]
        /\ \A t \in Piece : /\ [L EXCEPT ![s].listed = FALSE][t].m = L[t].m
                            /\ [L EXCEPT ![s].listed = FALSE][t].c = L[t].c
    BY <1>4, <2>1, Marked, ZenonT(60)
  <2> QED BY <1>1, <1>4, <2>2
<1>8. \A t \in Piece : t # s => (t \in Attached <=> t \in Attached')
  <2>1. \A t \in Piece : t # s => piece'[t].listed = piece[t].listed
    <3>1. \A t \in Piece : L[t].listed = piece[t].listed
      BY <1>1, UnlinkedTyped DEF L
    <3>2. \A t \in Piece : t # s => piece'[t] = L[t]
      BY <1>1, <1>4
    <3> QED BY <3>1, <3>2
  <2> QED BY <2>1 DEF Attached
<1>9. ASSUME piece[s].m > 0 PROVE MassInv'
  BY <1>1, <1>3, <1>6, <1>7, <1>9, BeginsLoop
<1>10. ASSUME ~(piece[s].m > 0) PROVE MassInv'
  <2>1. piece[s].m = 0 /\ piece'[s].m = 0
    BY <1>1, <1>7, <1>10 DEF PieceRecords, Mass, BodyMassAssumption
  <2>2. body' = b /\ sum' = sum
    BY <1>1, <1>10
  <2>3. \A t \in Piece :
          \/ /\ t \in Attached <=> t \in Attached'
             /\ piece[t].m = piece'[t].m /\ piece[t].c = piece'[t].c
          \/ piece[t].m = 0 /\ piece'[t].m = 0
    BY <1>7, <1>8, <2>1
  <2> QED BY <1>3, <1>6, <1>7, <2>2, <2>3, StaysIdle
<1> QED BY <1>5, <1>9, <1>10 DEF Place

\* Operations that leave the shapes as they are
LEMMA BodyOnly ==
  ASSUME BodyMassAssumption, MassInv, ~sum.on, sum' = sum, piece' = piece, body' \in BodyRecords,
         body'.head = body.head, PlaceTrue(body'),
         body'.type = "dynamic" /\ ~body'.own =>
           /\ body.type = "dynamic" /\ ~body.own
           /\ body'.m = body.m /\ body'.i = body.i /\ body'.cog = body.cog
  PROVE  MassInv'
<1>1. InList' /\ Attached' = Attached /\ piece' \in [Piece -> PieceRecords]
  <2>1. InList
    BY DEF MassInv, ListKept, InList
  <2>2. piece' \in [Piece -> PieceRecords]
    BY DEF MassInv, MassTypeOK
  <2> QED BY <2>1, <2>2, ListStays
<1>2. \A t \in Piece :
        \/ /\ t \in Attached <=> t \in Attached'
           /\ piece[t].m = piece'[t].m /\ piece[t].c = piece'[t].c
        \/ piece[t].m = 0 /\ piece'[t].m = 0
  BY <1>1
<1> QED BY <1>1, <1>2, StaysIdle

\* The mass of a shape is set, which begins the loop even if it is in no list.
LEMMA ShapeSetMassStep ==
  ASSUME BodyMassAssumption, MassInv, ~sum.on, NEW s \in Piece, NEW m \in Mass, ShapeSetMass(s, m)
  PROVE  MassInv' /\ Place(body') = Place(body)
<1>1. /\ body \in BodyRecords /\ piece \in [Piece -> PieceRecords] /\ sum \in SumRecords
      /\ PlaceTrue(body) /\ InList
      /\ piece' = [piece EXCEPT ![s].m = m] /\ Accumulate(body)
  BY DEF MassInv, MassTypeOK, ListKept, InList, ShapeSetMass
<1>2. /\ piece' \in [Piece -> PieceRecords]
      /\ \A t \in Piece : /\ piece'[t].next = piece[t].next /\ piece'[t].prev = piece[t].prev
                          /\ piece'[t].listed = piece[t].listed
  <2>1. PICK r : r = [piece[s] EXCEPT !.m = m]
    OBVIOUS
  <2>2. /\ r \in PieceRecords /\ r.next = piece[s].next /\ r.prev = piece[s].prev
        /\ r.listed = piece[s].listed
    BY <1>1, <2>1 DEF PieceRecords
  <2>3. piece' = [piece EXCEPT ![s] = r]
    BY <1>1, <2>1
  <2> QED BY <1>1, <2>2, <2>3
<1>3. body'.head = body.head /\ body'.tx = body.tx
  BY <1>1, AccumulateKeeps
<1>4. InList'
  BY <1>1, <1>2, <1>3, ListStays
<1> QED BY <1>1, <1>2, <1>3, <1>4, BeginsLoop DEF Place

\* The centre of a shape is set, which begins the loop if it has mass.
LEMMA SetOffsetStep ==
  ASSUME BodyMassAssumption, MassInv, ~sum.on, NEW s \in Piece, NEW c \in {0, Unit}, SetOffset(s, c)
  PROVE  MassInv' /\ Place(body') = Place(body)
<1>1. /\ body \in BodyRecords /\ piece \in [Piece -> PieceRecords] /\ sum \in SumRecords
      /\ PlaceTrue(body) /\ InList /\ piece' = [piece EXCEPT ![s].c = c]
      /\ IF piece[s].m > 0 THEN Accumulate(body) ELSE body' = body /\ sum' = sum
  BY DEF MassInv, MassTypeOK, ListKept, InList, SetOffset
<1>2. /\ piece' \in [Piece -> PieceRecords]
      /\ \A t \in Piece : /\ piece'[t].next = piece[t].next /\ piece'[t].prev = piece[t].prev
                          /\ piece'[t].listed = piece[t].listed /\ piece'[t].m = piece[t].m
                          /\ t # s => piece'[t].c = piece[t].c
  <2>1. PICK r : r = [piece[s] EXCEPT !.c = c]
    OBVIOUS
  <2>2. /\ r \in PieceRecords /\ r.next = piece[s].next /\ r.prev = piece[s].prev
        /\ r.listed = piece[s].listed /\ r.m = piece[s].m
    BY <1>1, <2>1 DEF PieceRecords
  <2>3. piece' = [piece EXCEPT ![s] = r]
    BY <1>1, <2>1
  <2> QED BY <1>1, <2>2, <2>3
<1>3. body'.head = body.head /\ body'.tx = body.tx
  BY <1>1, AccumulateKeeps
<1>4. InList' /\ Attached' = Attached
  BY <1>1, <1>2, <1>3, ListStays
<1>5. CASE piece[s].m > 0
  BY <1>1, <1>2, <1>3, <1>4, <1>5, BeginsLoop DEF Place
<1>6. CASE ~(piece[s].m > 0)
  <2>1. piece[s].m = 0 /\ piece'[s].m = 0
    BY <1>1, <1>2, <1>6 DEF PieceRecords, Mass, BodyMassAssumption
  <2>2. \A t \in Piece :
          \/ /\ t \in Attached <=> t \in Attached'
             /\ piece[t].m = piece'[t].m /\ piece[t].c = piece'[t].c
          \/ piece[t].m = 0 /\ piece'[t].m = 0
    BY <1>2, <1>4, <2>1
  <2>3. body' = body /\ sum' = sum
    BY <1>1, <1>6
  <2> QED BY <1>1, <1>2, <1>3, <1>4, <2>2, <2>3, StaysIdle DEF Place
<1> QED BY <1>5, <1>6

\* Mass and moment are set by hand.
LEMMA BodySetMassStep ==
  ASSUME BodyMassAssumption, MassInv, ~sum.on, NEW m \in Mass, BodySetMass(m)
  PROVE  MassInv' /\ Place(body') = Place(body)
<1>1. /\ body \in BodyRecords /\ PlaceTrue(body) /\ piece' = piece /\ sum' = sum
      /\ body' = [body EXCEPT !.m = m, !.i = m * Moment, !.own = TRUE]
  BY DEF MassInv, MassTypeOK, BodySetMass
<1>2. PICK i \in Int : i = m * Moment
  BY DEF Mass, Moment, BodyMassAssumption
<1>3. m \in Int
  BY DEF Mass, BodyMassAssumption
<1>4. body' = [body EXCEPT !.m = m, !.i = i, !.own = TRUE]
  BY <1>1, <1>2
<1>5. body' \in BodyRecords
  <2>1. PICK r1, r2 : r1 = [body EXCEPT !.m = m] /\ r2 = [r1 EXCEPT !.i = i]
    OBVIOUS
  <2>2. body' = [r2 EXCEPT !.own = TRUE]
    BY <1>4, <2>1
  <2>3. r1 \in BodyRecords
    BY <1>1, <1>3, <2>1, FieldSet
  <2>4. r2 \in BodyRecords
    BY <2>1, <2>3, FieldSet
  <2> QED BY <2>2, <2>4, FieldSet
<1>6. /\ body'.own = TRUE /\ body'.head = body.head /\ body'.tx = body.tx /\ body'.p = body.p
      /\ body'.rot = body.rot /\ body'.cog = body.cog /\ body'.synced = body.synced
  BY <1>1, <1>4 DEF BodyRecords
<1>7. PlaceTrue(body')
  BY <1>1, <1>6 DEF PlaceTrue
<1> QED BY <1>1, <1>5, <1>6, <1>7, BodyOnly DEF Place

\* A body becomes dynamic, and adds up its masses, or stops being dynamic.
LEMMA BodySetTypeStep ==
  ASSUME BodyMassAssumption, MassInv, ~sum.on, NEW type \in {"dynamic", "kinematic", "static"},
         BodySetType(type)
  PROVE  MassInv' /\ Place(body') = Place(body)
<1> DEFINE b(x) == [body EXCEPT !.type = type, !.m = x, !.i = x]
<1>1. /\ body \in BodyRecords /\ PlaceTrue(body) /\ piece' = piece /\ sum \in SumRecords
      /\ piece \in [Piece -> PieceRecords] /\ InList
      /\ IF type = "dynamic" THEN Accumulate(b(0)) ELSE body' = b(FOREVER) /\ sum' = sum
  BY DEF MassInv, MassTypeOK, ListKept, InList, BodySetType
<1>2. ASSUME NEW x \in Int
      PROVE  /\ b(x) \in BodyRecords /\ b(x).type = type /\ b(x).head = body.head
             /\ b(x).tx = body.tx /\ PlaceTrue(b(x))
  <2>1. PICK r1, r2 : r1 = [body EXCEPT !.type = type] /\ r2 = [r1 EXCEPT !.m = x]
    OBVIOUS
  <2>2. b(x) = [r2 EXCEPT !.i = x]
    BY <2>1
  <2>3. b(x) \in BodyRecords
    <3>1. r1 \in BodyRecords
      BY <1>1, <2>1, FieldSet
    <3>2. r2 \in BodyRecords
      BY <2>1, <3>1, FieldSet
    <3> HIDE DEF b
    <3> QED BY <2>2, <3>2, FieldSet
  <2>4. /\ b(x).type = type /\ b(x).head = body.head /\ b(x).tx = body.tx /\ b(x).p = body.p
        /\ b(x).rot = body.rot /\ b(x).cog = body.cog /\ b(x).synced = body.synced
    BY <1>1 DEF BodyRecords
  <2> HIDE DEF b
  <2>5. PlaceTrue(b(x))
    BY <1>1, <2>4 DEF PlaceTrue
  <2> QED BY <2>3, <2>4, <2>5
<1> HIDE DEF b
<1>3. CASE type = "dynamic"
  <2>1. Accumulate(b(0)) /\ 0 \in Int
    BY <1>1, <1>3
  <2>2. body'.head = body.head /\ body'.tx = body.tx
    <3>1. body'.head = b(0).head /\ body'.tx = b(0).tx
      BY <1>2, <2>1, AccumulateKeeps
    <3> QED BY <1>2, <2>1, <3>1
  <2>3. InList'
    BY <1>1, <2>2, ListStays
  <2>4. MassInv'
    <3>1. b(0) \in BodyRecords /\ PlaceTrue(b(0)) /\ piece' \in [Piece -> PieceRecords]
      BY <1>1, <1>2, <2>1
    <3> QED BY <1>1, <2>1, <2>3, <3>1, BeginsLoop
  <2> QED BY <2>2, <2>4 DEF Place
<1>4. CASE type # "dynamic"
  <2>1. body' = b(FOREVER) /\ sum' = sum /\ FOREVER \in Int
    BY <1>1, <1>4 DEF FOREVER
  <2>2. /\ body' \in BodyRecords /\ body'.type # "dynamic" /\ body'.head = body.head
        /\ body'.tx = body.tx /\ PlaceTrue(body')
    BY <1>2, <1>4, <2>1
  <2> QED BY <1>1, <2>1, <2>2, BodyOnly DEF Place
<1> QED BY <1>3, <1>4

\* A body is turned or moved on.
LEMMA TurnStep ==
  ASSUME BodyMassAssumption, MassInv, ~sum.on, NEW p \in Int, NEW rot \in {1, -1},
         body' = Turned(body, p, rot), piece' = piece, sum' = sum
  PROVE  MassInv' /\ body'.cog = body.cog /\ body'.m = body.m
<1>1. body \in BodyRecords
  BY DEF MassInv, MassTypeOK
<1>2. /\ body' \in BodyRecords /\ body'.type = body.type /\ body'.m = body.m /\ body'.i = body.i
      /\ body'.cog = body.cog /\ body'.own = body.own /\ body'.head = body.head
      /\ PlaceTrue(body')
  BY <1>1, TurnedIs
<1> QED BY <1>2, BodyOnly

\* A body is put somewhere.
LEMMA SetPlaceStep ==
  ASSUME BodyMassAssumption, MassInv, ~sum.on, NEW x \in Int, BodySetPosition(x)
  PROVE  MassInv' /\ piece' = piece /\ body'.cog = body.cog /\ body'.m = body.m
<1>1. body \in BodyRecords /\ body' = SetPlace(body, x) /\ piece' = piece /\ sum' = sum
  BY DEF MassInv, MassTypeOK, BodySetPosition
<1>2. /\ body' \in BodyRecords /\ body'.type = body.type /\ body'.m = body.m /\ body'.i = body.i
      /\ body'.cog = body.cog /\ body'.own = body.own /\ body'.head = body.head
      /\ PlaceTrue(body')
  BY <1>1, PlaceSet
<1> QED BY <1>1, <1>2, BodyOnly

\* The centre of gravity is set by hand, and the transform is not told.
LEMMA CenterStep ==
  ASSUME BodyMassAssumption, MassInv, ~sum.on, NEW c \in Int, SetCenterOfGravity(c)
  PROVE  MassInv' /\ Place(body') = Place(body)
<1>1. /\ body \in BodyRecords /\ piece' = piece /\ sum' = sum
      /\ body' = [body EXCEPT !.cog = c, !.own = TRUE, !.synced = FALSE]
  BY DEF MassInv, MassTypeOK, SetCenterOfGravity
<1>2. body' \in BodyRecords
  <2>1. PICK r1, r2 : r1 = [body EXCEPT !.cog = c] /\ r2 = [r1 EXCEPT !.own = TRUE]
    OBVIOUS
  <2>2. body' = [r2 EXCEPT !.synced = FALSE]
    BY <1>1, <2>1
  <2>3. r1 \in BodyRecords
    BY <1>1, <2>1, FieldSet
  <2>4. r2 \in BodyRecords
    BY <2>1, <2>3, FieldSet
  <2> QED BY <2>2, <2>4, FieldSet
<1>3. body'.own = TRUE /\ body'.synced = FALSE /\ body'.head = body.head /\ body'.tx = body.tx
  BY <1>1 DEF BodyRecords
<1>4. PlaceTrue(body')
  BY <1>3 DEF PlaceTrue
<1> QED BY <1>1, <1>2, <1>3, <1>4, BodyOnly DEF Place

\* Every step keeps the invariant, and the place of the body unless it moves it.
LEMMA MassStep ==
  ASSUME BodyMassAssumption, MassInv, [MassNext]_massVars
  PROVE  /\ MassInv'
         /\ \/ Place(body') = Place(body)
            \/ ~sum.on /\ piece' = piece /\ body'.cog = body.cog /\ body'.m = body.m
<1>0. CASE UNCHANGED massVars
  <2>1. body' = body /\ piece' = piece /\ sum' = sum
    BY <1>0 DEF massVars
  <2>2. MassTypeOK' /\ Attached' = Attached
    BY <2>1 DEF MassInv, MassTypeOK, Attached
  <2>3. ListKept'
    <3>1. \A n, q : InOrder(n, q) => InOrder(n, q)'
      BY <2>1, <2>2 DEF InOrder
    <3> QED BY <2>1, <2>2, <3>1 DEF MassInv, ListKept, OthersFree
  <2>4. LoopKept' /\ IdleKept' /\ PlaceTrue(body)'
    BY <2>1, <2>2 DEF MassInv, LoopKept, IdleKept, PlaceTrue
  <2> QED BY <2>1, <2>2, <2>3, <2>4 DEF MassInv
<1>1. CASE AccumulateShape
  BY <1>1, ShapeStep
<1>2. CASE AccumulateEnd
  BY <1>2, EndStep
<1>3. ASSUME ~sum.on, NEW s \in Piece, AddPiece(s) PROVE MassInv' /\ Place(body') = Place(body)
  BY <1>3, AddStep
<1>4. ASSUME ~sum.on, NEW s \in Piece, RemovePiece(s) PROVE MassInv' /\ Place(body') = Place(body)
  BY <1>4, RemoveStep
<1>5. ASSUME ~sum.on, NEW s \in Piece, NEW m \in Mass, ShapeSetMass(s, m)
      PROVE  MassInv' /\ Place(body') = Place(body)
  BY <1>5, ShapeSetMassStep
<1>6. ASSUME ~sum.on, NEW s \in Piece, NEW c \in {0, Unit}, SetOffset(s, c)
      PROVE  MassInv' /\ Place(body') = Place(body)
  BY <1>6, SetOffsetStep
<1>7. ASSUME ~sum.on, NEW m \in Mass, BodySetMass(m) PROVE MassInv' /\ Place(body') = Place(body)
  BY <1>7, BodySetMassStep
<1>8. ASSUME ~sum.on, NEW type \in {"dynamic", "kinematic", "static"}, BodySetType(type)
      PROVE  MassInv' /\ Place(body') = Place(body)
  BY <1>8, BodySetTypeStep
<1>9. ASSUME ~sum.on, BodySetPosition(0)
      PROVE  MassInv' /\ piece' = piece /\ body'.cog = body.cog /\ body'.m = body.m
  <2>1. 0 \in Int
    OBVIOUS
  <2> QED BY <1>9, <2>1, SetPlaceStep
<1>10. ASSUME ~sum.on, SetCenterOfGravity(Unit) PROVE MassInv' /\ Place(body') = Place(body)
  <2>1. Unit \in Int
    BY DEF BodyMassAssumption
  <2> QED BY <1>10, <2>1, CenterStep
<1>11. ASSUME ~sum.on, BodySetAngle(-1)
       PROVE  MassInv' /\ piece' = piece /\ body'.cog = body.cog /\ body'.m = body.m
  <2>1. /\ body.p \in Int /\ -1 \in {1, -1} /\ body' = Turned(body, body.p, -1)
        /\ piece' = piece /\ sum' = sum
    BY <1>11 DEF BodySetAngle, MassInv, MassTypeOK, BodyRecords
  <2> QED BY <1>11, <2>1, TurnStep
<1>12. ASSUME ~sum.on, UpdatePosition(Unit)
       PROVE  MassInv' /\ piece' = piece /\ body'.cog = body.cog /\ body'.m = body.m
  <2>1. /\ body.p + Unit \in Int /\ body.rot \in {1, -1}
        /\ body' = Turned(body, body.p + Unit, body.rot) /\ piece' = piece /\ sum' = sum
    BY <1>12 DEF UpdatePosition, MassInv, MassTypeOK, BodyRecords, BodyMassAssumption
  <2> QED BY <1>12, <2>1, TurnStep
<1> QED BY <1>0, <1>1, <1>2, <1>3, <1>4, <1>5, <1>6, <1>7, <1>8, <1>9, <1>10, <1>11, <1>12 DEF MassNext

\* A new body has no shapes and a mass of its own.
LEMMA MassStarts ==
  ASSUME BodyMassAssumption, MassInit
  PROVE  MassInv
<1>1. MassTypeOK
  <2>1. body \in BodyRecords
    BY DEF MassInit, BodyRecords, Places, Moment, NIL, BodyMassAssumption
  <2>2. piece \in [Piece -> PieceRecords]
    <3>1. \A s \in Piece : (s % 2) * Unit \in {0, Unit}
      <4>1. \A s \in Piece : s % 2 = 0 \/ s % 2 = 1
        BY DEF Piece, BodyMassAssumption
      <4>2. 0 * Unit = 0 /\ 1 * Unit = Unit
        BY DEF BodyMassAssumption
      <4> QED BY <4>1, <4>2
    <3> QED BY <3>1 DEF MassInit, PieceRecords, Places, Mass, NIL, BodyMassAssumption
  <2>3. sum \in SumRecords
    BY DEF MassInit, SumRecords, Places, NIL, BodyMassAssumption
  <2> QED BY <2>1, <2>2, <2>3 DEF MassTypeOK
<1>2. Attached = {} /\ OthersFree
  BY DEF MassInit, Attached, OthersFree
<1>3. ListKept
  <2> DEFINE q == [k \in 1 .. 0 |-> 0]
  <2>1. 0 \in Places /\ q \in [1 .. 0 -> Piece]
    BY DEF Places, BodyMassAssumption
  <2>2. InOrder(0, q)
    BY <1>2 DEF InOrder, MassInit
  <2>3. ~sum.on
    BY DEF MassInit
  <2> HIDE DEF q
  <2> QED BY <1>2, <2>1, <2>2, <2>3 DEF ListKept
<1>4. LoopKept /\ IdleKept /\ PlaceTrue(body)
  BY DEF MassInit, LoopKept, IdleKept, PlaceTrue
<1> QED BY <1>1, <1>3, <1>4 DEF MassInv

\* The moment the loop leaves, taken about where the centre has come to, is that of
\* the shapes.
LEMMA MassFollows ==
  ASSUME BodyMassAssumption, MassInv
  PROVE  MassOfShapes
<1>1. /\ body \in BodyRecords /\ piece \in [Piece -> PieceRecords]
  BY DEF MassInv, MassTypeOK
<1>2. \E n \in 0 .. MaxPiece : \E q \in [1 .. n -> Piece] : InOrder(n, q)
  BY DEF MassInv, ListKept, Places
<1>3. \A s \in Piece \ Attached : piece[s].next = NIL /\ piece[s].prev = NIL
  BY DEF MassInv, ListKept, OthersFree
<1>4. body.synced => body.tx = body.p - body.rot * body.cog
  BY DEF MassInv, PlaceTrue
<1>5. ASSUME ~sum.on, body.type = "dynamic", ~body.own
      PROVE  /\ body.m = MassOf(piece, Attached)
             /\ body.m * body.cog = LeverOf(piece, Attached)
             /\ body.i = MomentOf(piece, Attached, body.cog)
  <2>1. Weighed(body, piece, Attached)
    BY <1>5 DEF MassInv, IdleKept
  <2>2. PICK m \in Int, g \in Int, i \in Int : m = body.m /\ g = body.cog /\ i = body.i
    BY <1>1 DEF BodyRecords
  <2>3. /\ m = MassOf(piece, Attached) /\ m * g = LeverOf(piece, Attached)
        /\ i + m * (g * g) = MomentOf(piece, Attached, 0)
    BY <2>1, <2>2, Zenon DEF Weighed
  <2>4. MomentOf(piece, Attached, g) = (i + m * (g * g)) + (-2 * g) * (m * g) + (g * g) * m
    <3>1. MomentOf(piece, Attached, g)
          = MomentOf(piece, Attached, 0) + (-2 * g) * LeverOf(piece, Attached) + (g * g) * MassOf(piece, Attached)
      BY <1>1, MomentAbout, Zenon
    <3> QED BY <2>3, <3>1, Zenon
  <2>5. (i + m * (g * g)) + (-2 * g) * (m * g) + (g * g) * m = i
    <3>1. (-2 * g) * (m * g) = -2 * (m * (g * g)) /\ (g * g) * m = m * (g * g)
      OBVIOUS
    <3>2. PICK M \in Int : M = m * (g * g)
      OBVIOUS
    <3> QED BY <3>1, <3>2
  <2> QED BY <2>2, <2>3, <2>4, <2>5, Zenon
<1> QED BY <1>2, <1>3, <1>4, <1>5, Zenon DEF MassOfShapes

\* However shapes come, go and change, the mass, centre and moment of a dynamic body
\* that computes them are those of the shapes in its list, which is whole.
THEOREM MassTrue == MassSpec => []MassOfShapes
<1>1. MassInit => MassInv
  BY BodyMassAssumption, MassStarts
<1>2. MassInv /\ [MassNext]_massVars => MassInv'
  BY BodyMassAssumption, MassStep
<1>3. MassInv => MassOfShapes
  BY BodyMassAssumption, MassFollows
<1> QED BY <1>1, <1>2, <1>3, PTL DEF MassSpec

\* Only moving or turning the body takes it from its place.
THEOREM PlaceStays == MassSpec => PlaceKept
<1>1. MassInit => MassInv
  BY BodyMassAssumption, MassStarts
<1>2. MassInv /\ [MassNext]_massVars => MassInv'
  BY BodyMassAssumption, MassStep
<1>3. MassInv /\ [MassNext]_massVars =>
        [Place(body') # Place(body) =>
           ~sum.on /\ piece' = piece /\ body'.cog = body.cog /\ body'.m = body.m]_massVars
  BY BodyMassAssumption, MassStep
<1> QED BY <1>1, <1>2, <1>3, PTL DEF MassSpec, PlaceKept
=============================================================================
