------------------------------- MODULE ZigSpace -------------------------------
(***************************************************************************)
(* cpSpace of the Zig port and its stepper.  It has no lock and no contact *)
(* graph: a step finds the touching pairs anew, keeps what it knows of a   *)
(* pair in arbiter_cache, and groups bodies by the arbiters and            *)
(* constraints of this step.  Which shapes touch, which bodies are slow    *)
(* and what the handlers return are inputs of a step.  The loops of a step *)
(* and of removeBody() take a step each time round.                        *)
(***************************************************************************)
EXTENDS Integers, SequencesExt

CONSTANTS
  ZBody,        \* bodies
  Owner,        \* the body of each shape; shapes are their addresses
  Link,         \* the two bodies of each constraint
  ZPersistence, \* collision_persistence
  ZThreshold,   \* sleep_time_threshold, in steps
  ZMaxOps,      \* bound: calls of the game between steps
  ZCareful      \* the game avoids the calls that removeBody() and setType() do not bear

ASSUME ZigSpaceAssumption ==
  /\ IsFiniteSet(ZBody) /\ IsFiniteSet(DOMAIN Owner) /\ IsFiniteSet(DOMAIN Link)
  /\ DOMAIN Owner \subseteq Nat /\ \A s \in DOMAIN Owner : Owner[s] \in ZBody
  /\ \A j \in DOMAIN Link : Link[j] \in ZBody \X ZBody
  /\ ZPersistence \in Nat \ {0} /\ ZThreshold \in Nat \ {0} /\ ZMaxOps \in Nat /\ ZCareful \in BOOLEAN

\* The lists and indexes of the space; of the bodies their type, list of constraints,
\* sleep and idle_time; arbs: the pairs in arbiters; cache: arbiter_cache, with the
\* age of each entry; begun: pairs told of a begin and not yet of the separation;
\* early: a pair was told so in the last step though it touches; phase: the loop that
\* runs, or who has control; panic: an unsigned index went below zero; ops: calls of
\* the game.  Of a step: touching: the pairs that overlap; slept: the bodies that slept
\* when it began; todo: what the indexes have still to report; rests: the bodies that
\* should sleep.  Of removeBody(): leaving: its body, while it runs; at: the index of
\* its loop.
VARIABLE zsp

Control == zsp.phase \in {"user", "stepped"}   \* of the game, perhaps after a step
Dynamic(s, b) == s.type[b] = "dynamic"
Listed(s) == ToSet(s.shapes)
BodiesOf(j) == {Link[j][1], Link[j][2]}

\* removePtr(): the first of them goes, the others close up.
RemovePtr(seq, x) ==
  IF x \notin ToSet(seq) THEN seq
  ELSE RemoveAt(seq, CHOOSE i \in DOMAIN seq : seq[i] = x /\ \A k \in 1 .. i - 1 : seq[k] # x)

-----------------------------------------------------------------------------
(* Waking *)

\* wakeBody()
Wake(s, B) == [s EXCEPT !.sleeping = @ \ B, !.idle = [b \in ZBody |-> IF b \in B THEN 0 ELSE @[b]]]

\* activateBody(): only the neighbours by constraints.  This stepper leaves arbiter_list
\* empty; that of cpHastySpace, which fills it (attachArbitersToBodies()) and so wakes
\* neighbours by arbiters as well, is not modelled.
Activate(s, b) ==
  LET across == {o \in s.sleeping : \E j \in s.linked[b] : BodiesOf(j) = {b, o}}
  IN  Wake(s, IF Dynamic(s, b) THEN {b} \cup {o \in across : Dynamic(s, o)} ELSE {b})

-----------------------------------------------------------------------------
(* A step *)

\* The i-th dynamic shape asks the dynamic index in query 2i - 1, for the
\* shapes after it in memory, and the static index in query 2i.
Queries(s) ==
  UNION {LET o == s.dynamic[i]
         IN  ({2 * i - 1} \X {o} \X {x \in s.dynIndex : x > o})
             \cup ({2 * i} \X {o} \X (s.statIndex \ {o})) : i \in DOMAIN s.dynamic}

PairKey(o, x) == {o, x}      \* makePairKey()

\* (faulty: an entry that is found keeps its flag)
FetchKeeping(s, P) ==
  [s EXCEPT !.cache = [Q \in DOMAIN @ \cup {P} |->
     IF Q # P THEN @[Q] ELSE [age |-> 0, separated |-> P \in DOMAIN @ /\ @[P].separated]]]

\* fetchArbiter()
FetchArbiter(s, P) ==
  [s EXCEPT !.cache = [Q \in DOMAIN @ \cup {P} |->
     IF Q # P THEN @[Q] ELSE [age |-> 0, separated |-> FALSE]]]

Aged(entry) == [entry EXCEPT !.age = IF @ < ZPersistence THEN @ + 1 ELSE @]

\* step() up to broadPhase()
BroadPhase(touching) ==
  /\ Control
  /\ zsp' = [zsp EXCEPT !.phase = "query", !.early = FALSE, !.arbs = {},
               !.touching = touching, !.slept = zsp.sleeping, !.todo = Queries(zsp),
               !.cache = [P \in DOMAIN @ |-> Aged(@[P])]]

\* (faulty: one sleeper is enough)
PassedOverByOne(s, o, x) == {Owner[o], Owner[x]} \cap s.sleeping # {}

\* Two sleepers are not looked at.
PassedOver(s, o, x) == {Owner[o], Owner[x]} \subseteq s.sleeping

\* queryPairs(): an index reports what it finds in any order.  begin is called in every
\* step of contact, and may refuse it.
QueryPairs(q, o, x, accepts) ==
  LET P == PairKey(o, x)
      s == [zsp EXCEPT !.todo = @ \ {<<q, o, x>>}]
      met == [FetchArbiter(Activate(Activate(s, Owner[o]), Owner[x]), P) EXCEPT !.begun = @ \cup {P}]
  IN  /\ zsp.phase = "query" /\ <<q, o, x>> \in zsp.todo /\ \A t \in zsp.todo : q <= t[1]
      /\ zsp' = IF PassedOver(zsp, o, x) \/ P \notin zsp.touching THEN s
                ELSE IF accepts THEN [met EXCEPT !.arbs = @ \cup {P}] ELSE met

\* What the arbiters and the constraints of the space hold together.
Held(s) == {{Owner[o] : o \in P} : P \in s.arbs} \cup {BodiesOf(j) : j \in ToSet(s.joints)}

ListedDynamic(s) == {b \in ToSet(s.bodies) : Dynamic(s, b)}

\* (faulty: only the bodies that b itself is held together with)
ComponentNear(dyn, held, b) == {b} \cup UNION {h \in held : b \in h /\ h \subseteq dyn}

\* The union-find of processComponents(): the least set of bodies around b that nothing
\* is held together with.
Component(dyn, held, b) ==
  LET whole(S) == \A h \in held : h \subseteq dyn => h \cap S = {} \/ h \subseteq S
  IN  {c \in dyn : \A S \in SUBSET dyn : b \in S /\ whole(S) => c \in S}

\* processComponents(), up to the loop that wakes: touching what is not dynamic keeps a
\* component awake; nobody rests if sleep_time_threshold is infinite.
ProcessComponents(restless, sleeps) ==
  LET dyn == ListedDynamic(zsp)
      held == Held(zsp)
      idle == [b \in ZBody |-> IF b \notin dyn THEN zsp.idle[b]
                               ELSE IF ~sleeps \/ b \in restless \ zsp.sleeping THEN 0
                               ELSE IF zsp.idle[b] < ZThreshold THEN zsp.idle[b] + 1 ELSE ZThreshold]
      sleepy(C) == /\ \A h \in held : h \cap C # {} => h \subseteq dyn
                   /\ \A b \in C : idle[b] >= ZThreshold
      rests == {b \in dyn : sleeps /\ sleepy(Component(dyn, held, b))}
  IN  /\ zsp.phase = "query" /\ zsp.todo = {}
      /\ zsp' = [zsp EXCEPT !.phase = "wake", !.idle = idle, !.rests = rests,
                   !.sleeping = @ \cup rests]

\* Those that sleep and should not; the next of them is woken, in the order of the list.
Disturbed(s) == (ListedDynamic(s) \ s.rests) \cap s.sleeping
WakeNext(b) ==
  /\ zsp.phase = "wake" /\ b \in Disturbed(zsp)
  /\ \E i \in DOMAIN zsp.bodies :
       zsp.bodies[i] = b /\ \A k \in 1 .. i - 1 : zsp.bodies[k] \notin Disturbed(zsp)
  /\ zsp' = Activate(zsp, b)

Separated(entry) == [entry EXCEPT !.separated = TRUE]

\* pruneArbiterCache(): a pair that was not found is told of its separation, once,
\* and forgotten later, unless it rests.
PruneArbiterCache ==
  LET rests(P) == \A o \in P : zsp.type[Owner[o]] = "static" \/ Owner[o] \in zsp.sleeping
      told == {P \in DOMAIN zsp.cache :
                 ~rests(P) /\ zsp.cache[P].age >= 1 /\ ~zsp.cache[P].separated}
      stale == {P \in DOMAIN zsp.cache : ~rests(P) /\ zsp.cache[P].age >= ZPersistence}
  IN  /\ zsp.phase = "wake" /\ Disturbed(zsp) = {}
      /\ zsp' = [zsp EXCEPT !.phase = "stepped", !.rests = {},
                   !.cache = [P \in DOMAIN @ \ stale |->
                                IF P \in told THEN Separated(@[P]) ELSE @[P]],
                   !.begun = @ \ told, !.early = told \cap zsp.touching # {}]

-----------------------------------------------------------------------------
(* Adding and removing *)

Called(s) ==
  [s EXCEPT !.phase = "user", !.early = FALSE, !.touching = {}, !.slept = {}, !.ops = @ + 1]
Changing == Control /\ zsp.ops < ZMaxOps

\* filterArbitersWithShape() and filterArbitersWithBody(): a pair in arbiters is also
\* in the cache, and separate is called for both.
FilterArbiters(s, gone) ==
  [s EXCEPT !.arbs = {P \in @ : P \cap gone = {}}, !.begun = {P \in @ : P \cap gone = {}},
            !.cache = [P \in {Q \in DOMAIN @ : Q \cap gone = {}} |-> @[P]]]

DynamicRemoved(s, o) == [s EXCEPT !.dynamic = RemovePtr(@, o), !.dynIndex = @ \ {o}]

\* (faulty: the shape stays in the index)
StaticUnlisted(s, o) == [s EXCEPT !.static = RemovePtr(@, o)]

StaticRemoved(s, o) == [s EXCEPT !.static = RemovePtr(@, o), !.statIndex = @ \ {o}]

\* removeShape()
ShapeRemoved(s, o) ==
  LET t == FilterArbiters([s EXCEPT !.shapes = RemovePtr(@, o)], {o})
  IN  IF s.type[Owner[o]] = "static" THEN StaticRemoved(t, o) ELSE DynamicRemoved(t, o)

JointRemoved(s, j) ==
  [s EXCEPT !.joints = RemovePtr(@, j), !.linked = [b \in ZBody |-> @[b] \ {j}]]

\* addBody() empties the lists of the body.
AddBody(b) ==
  /\ Changing /\ b \notin ToSet(zsp.bodies)
  /\ ZCareful => \A j \in ToSet(zsp.joints) : b \notin BodiesOf(j)
  /\ zsp' = Called(Wake([zsp EXCEPT !.bodies = Append(@, b), !.linked[b] = {}], {b}))

\* removeBody() up to its loops
RemoveBody(b) ==
  /\ Changing /\ b \in ToSet(zsp.bodies)
  /\ ZCareful => /\ Len(zsp.shapes) >= 2 => \E i \in 1 .. 2 : Owner[zsp.shapes[i]] # b
                 /\ zsp.joints # <<>> => b \notin BodiesOf(zsp.joints[1])
  /\ LET s == FilterArbiters([zsp EXCEPT !.bodies = RemovePtr(@, b)],
                             {o \in DOMAIN Owner : Owner[o] = b})
     IN  zsp' = [Called(s) EXCEPT !.phase = "shapes", !.leaving = {b}, !.at = 1]

\* What takes the place of a first shape that was removed is passed over.
RemoveShapeOfBody ==
  LET theirs == {i \in DOMAIN zsp.shapes : zsp.at <= i /\ Owner[zsp.shapes[i]] \in zsp.leaving}
  IN  /\ zsp.phase = "shapes"
      /\ \/ \E i \in theirs :
              /\ \A k \in theirs : i <= k
              /\ zsp' = [ShapeRemoved(zsp, zsp.shapes[i]) EXCEPT !.at = IF i > 1 THEN i ELSE 2]
         \/ theirs = {} /\ zsp' = [zsp EXCEPT !.phase = "joints", !.at = 1]

\* The second loop counts below zero there.
RemoveJointOfBody ==
  LET theirs == {i \in DOMAIN zsp.joints :
                   zsp.at <= i /\ BodiesOf(zsp.joints[i]) \cap zsp.leaving # {}}
  IN  /\ zsp.phase = "joints"
      /\ \/ \E i \in theirs :
              LET s == JointRemoved(zsp, zsp.joints[i])
              IN  /\ \A k \in theirs : i <= k
                  /\ zsp' = IF i > 1 THEN [s EXCEPT !.at = i]
                            ELSE [s EXCEPT !.phase = "user", !.leaving = {}, !.panic = TRUE]
         \/ theirs = {} /\ zsp' = [zsp EXCEPT !.phase = "user", !.leaving = {}]

AddShape(o) ==
  /\ Changing /\ o \notin Listed(zsp)
  /\ ZCareful => Owner[o] \in ToSet(zsp.bodies)
  /\ zsp' = Called(IF zsp.type[Owner[o]] = "static"
                   THEN [zsp EXCEPT !.shapes = Append(@, o), !.static = Append(@, o),
                                    !.statIndex = @ \cup {o}]
                   ELSE [zsp EXCEPT !.shapes = Append(@, o), !.dynamic = Append(@, o),
                                    !.dynIndex = @ \cup {o}])

RemoveShape(o) == Changing /\ o \in Listed(zsp) /\ zsp' = Called(ShapeRemoved(zsp, o))

AddConstraint(j) ==
  /\ Changing /\ j \notin ToSet(zsp.joints)
  /\ ZCareful => BodiesOf(j) \subseteq ToSet(zsp.bodies)
  /\ zsp' = Called([zsp EXCEPT !.joints = Append(@, j),
                      !.linked = [b \in ZBody |-> IF b \in BodiesOf(j) THEN @[b] \cup {j} ELSE @[b]]])

RemoveConstraint(j) == Changing /\ j \in ToSet(zsp.joints) /\ zsp' = Called(JointRemoved(zsp, j))

ActivateBody(b) == Changing /\ b \in zsp.sleeping /\ zsp' = Called(Activate(zsp, b))

\* cpBody.setType() knows nothing of the space.
SetType(b, type) ==
  /\ Changing /\ zsp.type[b] # type
  /\ ZCareful => b \notin zsp.sleeping /\ \A o \in Listed(zsp) : Owner[o] # b
  /\ zsp' = Called([zsp EXCEPT !.type[b] = type])

\* reindexShape() goes by the type of now; useSpatialHash() rebuilds both indexes.
ReindexShape(o) ==
  /\ Changing /\ o \in Listed(zsp)
  /\ zsp' = Called(IF zsp.type[Owner[o]] = "static" THEN [zsp EXCEPT !.statIndex = @ \cup {o}]
                   ELSE [zsp EXCEPT !.dynIndex = @ \cup {o}])
UseSpatialHash ==
  /\ Changing
  /\ zsp' = Called([zsp EXCEPT !.dynIndex = ToSet(zsp.dynamic), !.statIndex = ToSet(zsp.static)])

\* A space to which all bodies, shapes and constraints were added; one body may be static.
Lists(S) == {q \in [1 .. Cardinality(S) -> S] :
               ToSet(q) = S /\ \A i, k \in DOMAIN q : i < k => q[i] < q[k]}
ZigSpaceInit ==
  \E type \in {t \in [ZBody -> {"dynamic", "static"}] :
               Cardinality({b \in ZBody : t[b] = "static"}) <= 1} :
    LET fixed == {o \in DOMAIN Owner : type[Owner[o]] = "static"}
        moves == DOMAIN Owner \ fixed
    IN  \E bodies \in Lists(ZBody), shapes \in Lists(DOMAIN Owner), dynamic \in Lists(moves),
           static \in Lists(fixed), joints \in Lists(DOMAIN Link) :
          zsp = [bodies |-> bodies, shapes |-> shapes, dynamic |-> dynamic, static |-> static,
                 dynIndex |-> moves, statIndex |-> fixed, joints |-> joints, type |-> type,
                 linked |-> [b \in ZBody |-> {j \in DOMAIN Link : b \in BodiesOf(j)}],
                 sleeping |-> {}, idle |-> [b \in ZBody |-> 0], arbs |-> {}, cache |-> <<>>,
                 begun |-> {}, early |-> FALSE, phase |-> "user", touching |-> {}, slept |-> {},
                 todo |-> {}, rests |-> {}, leaving |-> {}, at |-> 1,
                 panic |-> FALSE, ops |-> 0]

ZigSpaceNext ==
  \/ \E touching \in SUBSET {PairKey(t[2], t[3]) : t \in Queries(zsp)} : BroadPhase(touching)
  \/ \E t \in zsp.todo, accepts \in BOOLEAN : QueryPairs(t[1], t[2], t[3], accepts)
  \/ \E restless \in SUBSET (ListedDynamic(zsp) \ zsp.sleeping), sleeps \in BOOLEAN :
       ProcessComponents(restless, sleeps)
  \/ \E b \in ZBody : WakeNext(b)
  \/ PruneArbiterCache
  \/ RemoveShapeOfBody \/ RemoveJointOfBody
  \/ \E b \in ZBody : AddBody(b) \/ RemoveBody(b) \/ ActivateBody(b)
                      \/ \E type \in {"dynamic", "static"} : SetType(b, type)
  \/ \E o \in DOMAIN Owner : AddShape(o) \/ RemoveShape(o) \/ ReindexShape(o)
  \/ \E j \in DOMAIN Link : AddConstraint(j) \/ RemoveConstraint(j)
  \/ UseSpatialHash

ZigSpaceSpec == ZigSpaceInit /\ [][ZigSpaceNext]_zsp

-----------------------------------------------------------------------------
(* Properties *)

\* The lists, the indexes and the caches agree on what is in the space: each shape is
\* in the list and the index of its body's type, arbiters and cached pairs are of
\* shapes in the space, a body is linked to the constraints that are there, and what
\* shapes and constraints are of is in the space, or leaving it.
ZigListsAgree ==
  /\ zsp.dynIndex = ToSet(zsp.dynamic) /\ zsp.statIndex = ToSet(zsp.static)
  /\ ToSet(zsp.static) = {o \in Listed(zsp) : zsp.type[Owner[o]] = "static"}
  /\ ToSet(zsp.dynamic) = {o \in Listed(zsp) : zsp.type[Owner[o]] # "static"}
  /\ \A P \in DOMAIN zsp.cache : P \subseteq Listed(zsp)
  /\ zsp.arbs \subseteq DOMAIN zsp.cache
  /\ \A b \in ZBody : zsp.linked[b] = {j \in ToSet(zsp.joints) : b \in BodiesOf(j)}
  /\ \A o \in Listed(zsp) : Owner[o] \in ToSet(zsp.bodies) \cup zsp.leaving
  /\ \A j \in ToSet(zsp.joints) : BodiesOf(j) \subseteq ToSet(zsp.bodies) \cup zsp.leaving
  /\ ~zsp.panic

\* Pairs that were found in this step and whose begin or preSolve refused them.
Refused == {P \in DOMAIN zsp.cache : zsp.cache[P].age = 0 /\ P \notin zsp.arbs}
FellAsleep == zsp.sleeping \ zsp.slept

\* When a step ends, the bodies that an arbiter of this step or a constraint holds
\* together sleep all or not at all, and none sleeps that is held together with what is
\* not dynamic.  Nor does a body fall asleep in a step unless all that its shapes touch
\* sleep too, but for what a handler refused.  Two that slept before the step are
\* another matter: queryPairs() passes over their pair, so that of two that touch one
\* may be woken and the other left asleep.
ZigSleepTogether ==
  zsp.phase = "stepped" =>
    /\ \A h \in Held(zsp) : h \cap zsp.sleeping = {} \/ h \subseteq zsp.sleeping
    /\ \A P \in zsp.touching \ Refused : \A o \in P :
         Owner[o] \in FellAsleep => \A x \in P : Owner[x] \in zsp.sleeping

\* The space owes the handlers a separation for every pair they were told of: the
\* entry is there, and not marked as told, until it is made good.
ZigSeparateOwed == \A P \in zsp.begun : P \in DOMAIN zsp.cache /\ ~zsp.cache[P].separated

\* Handlers hear of a separation only when shapes separate: "Fire `separate` callbacks
\* only on contact exit; avoid per-step separate calls while bodies still overlap"
\* (ParityTaskList.md:9).
SeparateOnExit == ~zsp.early
=============================================================================
