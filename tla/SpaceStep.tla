------------------------------ MODULE SpaceStep ------------------------------
(***************************************************************************)
(* One cpSpace: its bodies, shapes and joints, the arbiters that persist   *)
(* between steps, the contact graph, and the sleeping components, through  *)
(* the phases of cpSpaceStep() and the calls a game makes between steps.   *)
(*                                                                         *)
(* Arrays and linked lists whose order nothing depends on are sets; an     *)
(* arbiter is identified by the pair of shapes it is for; time is counted  *)
(* in steps; which pairs overlap, which bodies move and what the user's    *)
(* callbacks answer are inputs.                                            *)
(***************************************************************************)
EXTENDS Integers, FiniteSets

CONSTANTS
  Body, Shape, Joint,     \* identities
  BodyOf,                 \* Shape -> Body           (shape->body)
  Ends,                   \* Joint -> set of two bodies
  JointA,                 \* Joint -> its first body (constraint->a)
  Pair,                   \* the pairs of shapes that can come to overlap
  Sensor,                 \* the sensor shapes
  InitType,               \* Body -> cpBodyType when the space is set up
  NoBody,                 \* NULL
  CollisionPersistence,   \* space->collisionPersistence, in steps
  SleepTimeThreshold,     \* space->sleepTimeThreshold, in steps
  Ops,                    \* the calls the game makes between steps
  WakeFrom,               \* the callbacks that call cpBodyActivate()
  Careless                \* the calls it makes whatever the state: "sleep",
                          \* "type" or neither, see there

Type == {"dynamic", "kinematic", "static"}
ArbiterState == {"first", "normal", "ignore", "cached"}

ASSUME IdentityAssumption ==
  /\ NoBody \notin Body
  /\ BodyOf \in [Shape -> Body]
  /\ JointA \in [Joint -> Body] /\ \A j \in Joint : JointA[j] \in Ends[j]
  /\ Ends \in [Joint -> SUBSET Body]
  /\ InitType \in [Body -> Type]
  /\ Pair \subseteq SUBSET Shape

ASSUME PairAssumption ==
  \A p \in Pair : \E s, t \in p : p = {s, t} /\ BodyOf[s] # BodyOf[t]

ASSUME ParameterAssumption ==
  /\ CollisionPersistence \in Nat \ {0}
  /\ SleepTimeThreshold \in Nat

VARIABLES
  phase,              \* where cpSpaceStep() is; "user" between steps
  todo,               \* what the loop of that phase has still to visit
  bodyType,           \* cpBodyGetType() of each body
  inSpace,            \* the bodies whose body->space is the space
  dynamicBodies,      \* space->dynamicBodies: awake dynamic and kinematic
  staticBodies,       \* space->staticBodies
  dynamicShapes,      \* space->dynamicShapes
  staticShapes,       \* space->staticShapes: also of sleeping bodies
  root,               \* body->sleeping.root
  sleepingComponents, \* space->sleepingComponents, by their roots
  idleTime,           \* body->sleeping.idleTime, up to the threshold
  rousedBodies,       \* space->rousedBodies
  joints,             \* the joints in the bodies' constraintLists
  constraints,        \* space->constraints
  touching,           \* the pairs of shapes that overlap now
  arbiters,           \* space->arbiters: the contacts of this step
  cached,             \* space->cachedArbiters
  threaded,           \* the arbiters linked in their bodies' arbiterLists
  arb,                \* the fields of each pair's arbiter
  begun,              \* history: begin called and separate not yet called
  broken              \* the internal contracts that failed, if any

placeVars == <<bodyType, inSpace, staticBodies, joints>>
sleepVars == <<root, sleepingComponents, idleTime>>
indexVars == <<dynamicShapes, staticShapes>>
awakeVars == <<dynamicBodies, indexVars, constraints>>
arbVars == <<arbiters, cached, arb>>
vars == <<phase, todo, placeVars, sleepVars, rousedBodies, awakeVars, touching,
          arbVars, threaded, begun, broken>>

-----------------------------------------------------------------------------
(* Reading the state *)

\* an arbiter in the pool; the values of its fields are never read
Pooled == [state |-> "first", age |-> 0, a |-> NoBody, contacts |-> "none",
           bufAge |-> 0]

Bodies(p) == {BodyOf[s] : s \in p}
A(p) == arb[p].a          \* arb->body_a: which of the two is a can change

IsSleeping(b) == root[b] # NoBody
Asleep == {b \in Body : IsSleeping(b)}
Component(b) == {x \in Asleep : root[x] = root[b]}

\* (faulty: only the body itself leaves its component)
WokenAlone(S) == {b \in S : bodyType[b] = "dynamic" /\ IsSleeping(b)}

\* the bodies that cpBodyActivate() of each body of S takes out of its
\* component
Woken(S) == UNION {Component(b) : b \in {x \in S : bodyType[x] = "dynamic"}}

\* the bodies the contact graph links to b
Neighbours(b) == UNION {Bodies(p) \ {b} : p \in {q \in threaded : b \in Bodies(q)}}

\* who restores and saves what two bodies share: a, or the other if a is static
OwnsArbiter(b, p) == b \in Bodies(p) /\ (b = A(p) \/ bodyType[A(p)] = "static")
OwnsJointIfA(b, j) == b \in Ends[j] /\ b = JointA[j]     \* (faulty)
OwnsJoint(b, j) == b \in Ends[j] /\ (b = JointA[j] \/ bodyType[JointA[j]] = "static")
Owned(W) == {p \in threaded : \E b \in W : OwnsArbiter(b, p)}
OwnedJoints(W) == {j \in joints : \E b \in W : OwnsJoint(b, j)}

Added == dynamicShapes \cup staticShapes
ShapesOf(W) == {s \in Added : BodyOf[s] \in W}
Resting(p) == \A b \in Bodies(p) : bodyType[b] = "static" \/ IsSleeping(b)
Min(x, y) == IF x < y THEN x ELSE y

-----------------------------------------------------------------------------
(* cpBodyActivate() and cpSpaceActivateBody() *)

\* (faulty: the timers are not reset)
IdleGoesOn(S) == [b \in Body |-> IF b \in Woken(S) THEN idleTime[b] + 1 ELSE idleTime[b]]

\* idle timers after cpBodyActivate() of each body of S: what they touch stays
\* awake with them
IdleAfterActivate(S) ==
  LET D == {x \in S : bodyType[x] = "dynamic"}
      N == {x \in UNION {Neighbours(d) : d \in D} : bodyType[x] # "static"}
  IN  [b \in Body |-> IF b \in D \cup N \cup Woken(S) THEN 0 ELSE idleTime[b]]

\* the components of the bodies S are dissolved
Unsleep(S) ==
  /\ root' = [b \in Body |-> IF b \in Woken(S) THEN NoBody ELSE root[b]]
  /\ sleepingComponents' = sleepingComponents \ {root[b] : b \in Woken(S)}
  /\ idleTime' = IdleAfterActivate(S)

\* (faulty: the shapes are not removed from the static index)
ShapesInBoth(W) ==
  /\ dynamicShapes' = dynamicShapes \cup ShapesOf(W)
  /\ staticShapes' = staticShapes

ShapesAwake(W) ==
  /\ dynamicShapes' = dynamicShapes \cup ShapesOf(W)
  /\ staticShapes' = staticShapes \ ShapesOf(W)

\* (faulty: the arbiter is not put back in this step's list, its stamp is not
\* renewed, its contacts are not copied back)
ArbitersAsBefore(W) == arbiters \ (Owned(W) \ cached)
ArbStale(W) ==
  [p \in Pair |-> IF p \in Owned(W)
                  THEN [arb[p] EXCEPT !.age = CollisionPersistence + 1, !.contacts = "ring"]
                  ELSE arb[p]]
ArbNotCopied(W) ==
  [p \in Pair |-> IF p \in Owned(W) THEN [arb[p] EXCEPT !.age = 0] ELSE arb[p]]

\* The contacts saved while asleep go back to the contact buffer, and the
\* arbiters to the cache and to this step's list.
RestoredCached(W) == cached \cup Owned(W)
RestoredArbiters(W) == arbiters \cup Owned(W)
RestoredArb(W) ==
  [p \in Pair |-> IF p \in Owned(W)
                  THEN [arb[p] EXCEPT !.age = 0, !.contacts = "ring", !.bufAge = 0]
                  ELSE arb[p]]
RestoredConstraints(W) == constraints \cup OwnedJoints(W)

\* The contracts of cpSpaceActivateBody(): what it asserts, and that what it
\* frees and pushes is what cpSpaceDeactivateBody() allocated and took away.
ActivateErrors(W) ==
  (IF \E b \in W : bodyType[b] # "dynamic"
   THEN {"activates a non-dynamic body"} ELSE {}) \cup
  (IF \E p \in Owned(W) : arb[p].contacts # "heap"
   THEN {"frees contacts it did not save"} ELSE {}) \cup
  (IF Owned(W) \cap cached # {} THEN {"two arbiters of a pair"} ELSE {}) \cup
  (IF OwnedJoints(W) \cap constraints # {} THEN {"joint listed twice"} ELSE {})

\* cpSpaceActivateBody() of each body of W in an unlocked space
ActivateBodies(W) ==
  /\ dynamicBodies' = dynamicBodies \cup W
  /\ ShapesAwake(W)
  /\ constraints' = RestoredConstraints(W)
  /\ arbiters' = RestoredArbiters(W)
  /\ cached' = RestoredCached(W)
  /\ arb' = RestoredArb(W)
  /\ broken' = broken \cup ActivateErrors(W)

\* (faulty: the locked space forgets them)
WakeForgotten(kind, W) ==
  /\ W # {} => kind \in WakeFrom
  /\ Unsleep(W)
  /\ UNCHANGED rousedBodies

\* cpBodyActivate() of the bodies W that a callback picks, in a locked space:
\* cpSpaceActivateBody() is put off to cpSpaceUnlock()
WakeLocked(kind, W) ==
  /\ W # {} => kind \in WakeFrom
  /\ Unsleep(W)
  /\ rousedBodies' = rousedBodies \cup Woken(W)

-----------------------------------------------------------------------------
(* cpSpaceDeactivateBody() *)

DeactivateErrors(W) ==
  IF \E b \in W : bodyType[b] # "dynamic" THEN {"deactivates a non-dynamic body"} ELSE {}

\* cpSpaceDeactivateBody() of each body of W; contacts are copied out of the
\* contact buffer so that they do not time out
DeactivateBodies(W) ==
  /\ dynamicBodies' = dynamicBodies \ W
  /\ dynamicShapes' = dynamicShapes \ ShapesOf(W)
  /\ staticShapes' = staticShapes \cup ShapesOf(W)
  /\ constraints' = constraints \ OwnedJoints(W)
  /\ arbiters' = arbiters \ Owned(W)
  /\ cached' = cached \ Owned(W)
  /\ arb' = [p \in Pair |-> IF p \in Owned(W)
                            THEN [arb[p] EXCEPT !.contacts = "heap", !.bufAge = 0]
                            ELSE arb[p]]

-----------------------------------------------------------------------------
(* What the game calls between steps *)

UserCall(op) ==
  /\ phase = "user" /\ op \in Ops /\ broken = {}
  /\ UNCHANGED <<phase, todo, rousedBodies>>

\* cpBodyActivate()
BodyActivate(b) ==
  /\ UserCall("activate")
  /\ Unsleep({b}) /\ ActivateBodies(Woken({b}))
  /\ UNCHANGED <<placeVars, touching, threaded, begun>>

\* what b shares with another body that is not static
Attached(b) ==
  \/ \E p \in cached \cup threaded :
       b \in Bodies(p) /\ \E x \in Bodies(p) \ {b} : bodyType[x] # "static"
  \/ \E j \in joints : b \in Ends[j]

\* cpBodySleepWithGroup(); cpBodySleep() gives no group.  A careful game only
\* puts to sleep a body that nothing awake is attached to.
BodySleepWithGroup(b, group) ==
  /\ UserCall("sleep")
  /\ bodyType[b] = "dynamic" /\ b \in dynamicBodies
  /\ group # NoBody => IsSleeping(group)
  /\ "sleep" \in Careless \/ ~Attached(b)
  /\ DeactivateBodies({b})
  /\ root' = [root EXCEPT ![b] = IF group = NoBody THEN b ELSE root[group]]
  /\ sleepingComponents' = sleepingComponents \cup (IF group = NoBody THEN {b} ELSE {})
  /\ idleTime' = [idleTime EXCEPT ![b] = 0]
  /\ UNCHANGED <<placeVars, touching, threaded, begun, broken>>

\* The loop of cpSpaceSetGravity() takes the next index of an array that the
\* activation has just shortened by moving the last root into the hole: it
\* visits half of the components, rounded up.
SpaceSetGravity ==
  /\ UserCall("gravity")
  /\ \E R \in SUBSET sleepingComponents :
       /\ Cardinality(R) = (Cardinality(sleepingComponents) + 1) \div 2
       /\ Unsleep(R) /\ ActivateBodies(Woken(R))
  /\ UNCHANGED <<placeVars, touching, threaded, begun>>

\* cpSpaceAddBody()
SpaceAddBody(b) ==
  /\ UserCall("body")
  /\ b \notin inSpace
  /\ inSpace' = inSpace \cup {b}
  /\ IF bodyType[b] = "static"
     THEN staticBodies' = staticBodies \cup {b} /\ UNCHANGED dynamicBodies
     ELSE dynamicBodies' = dynamicBodies \cup {b} /\ UNCHANGED staticBodies
  /\ UNCHANGED <<bodyType, joints, sleepVars, indexVars, constraints, touching,
                 arbVars, threaded, begun, broken>>

\* cpSpaceRemoveBody(), of a body whose shapes and joints were removed before
SpaceRemoveBody(b) ==
  LET W == Woken({b})
  IN  /\ UserCall("body")
      /\ b \in inSpace
      /\ inSpace' = inSpace \ {b}
      /\ ShapesOf({b}) = {} /\ \A j \in joints : b \notin Ends[j]
      /\ Unsleep({b})
      /\ dynamicBodies' = (dynamicBodies \cup W) \ {b}
      /\ staticBodies' = staticBodies \ {b}
      /\ ShapesAwake(W)
      /\ constraints' = RestoredConstraints(W)
      /\ arbiters' = RestoredArbiters(W)
      /\ cached' = RestoredCached(W)
      /\ arb' = RestoredArb(W)
      /\ broken' = broken \cup ActivateErrors(W)
      /\ UNCHANGED <<bodyType, joints, touching, threaded, begun>>

\* cpSpaceAddShape(); the new shape may overlap others at once
SpaceAddShape(s) ==
  LET b == BodyOf[s]
      isStatic == bodyType[b] = "static"
      S == IF isStatic THEN {} ELSE {b}
      W == Woken(S)
  IN  /\ UserCall("shape")
      /\ b \in inSpace /\ s \notin Added
      /\ Unsleep(S)
      /\ dynamicBodies' = dynamicBodies \cup W
      /\ dynamicShapes' = dynamicShapes \cup ShapesOf(W) \cup (IF isStatic THEN {} ELSE {s})
      /\ staticShapes' = (staticShapes \ ShapesOf(W)) \cup (IF isStatic THEN {s} ELSE {})
      /\ constraints' = RestoredConstraints(W)
      /\ arbiters' = RestoredArbiters(W)
      /\ cached' = RestoredCached(W)
      /\ arb' = RestoredArb(W)
      /\ broken' = broken \cup ActivateErrors(W)
      /\ \E T \in SUBSET {p \in Pair : s \in p /\ p \ {s} \subseteq Added} :
           touching' = touching \cup T
      /\ UNCHANGED <<placeVars, threaded, begun>>

\* cpSpaceRemoveShape(): wake what rests on the shape, then cachedArbitersFilter()
\* calls separate for its arbiters, which may activate the bodies V once the space
\* is unlocked again, and puts them back in the pool
SpaceRemoveShape(s, V) ==
  LET b == BodyOf[s]
      isStatic == bodyType[b] = "static"
      S == IF isStatic
           THEN UNION {Bodies(p) \ {b} : p \in {q \in threaded : s \in q}}
           ELSE {b}
      F == {p \in RestoredCached(Woken(S)) : s \in p}
      told == {p \in F : arb[p].state # "cached"}
      W == Woken(S \cup V)
  IN  /\ UserCall("shape")
      /\ s \in Added
      /\ V # {} => "separate" \in WakeFrom /\ told # {}
      /\ Unsleep(S \cup V)
      /\ dynamicBodies' = dynamicBodies \cup W
      /\ dynamicShapes' = (dynamicShapes \cup ShapesOf(W)) \ {s}
      /\ staticShapes' = (staticShapes \ ShapesOf(W)) \ {s}
      /\ constraints' = RestoredConstraints(W)
      /\ arbiters' = RestoredArbiters(W) \ F
      /\ cached' = RestoredCached(W) \ F
      /\ threaded' = threaded \ F
      /\ arb' = [p \in Pair |-> IF p \in F THEN Pooled ELSE RestoredArb(W)[p]]
      /\ begun' = begun \ told
      /\ touching' = {p \in touching : s \notin p}
      /\ broken' = broken \cup ActivateErrors(W)
      /\ UNCHANGED placeVars

\* cpSpaceAddConstraint() and cpSpaceRemoveConstraint()
ChangeJoints(j, added, listed) ==
  LET W == Woken(Ends[j])
  IN  /\ Unsleep(Ends[j])
      /\ dynamicBodies' = dynamicBodies \cup W
      /\ ShapesAwake(W)
      /\ constraints' = listed
      /\ joints' = added
      /\ arbiters' = RestoredArbiters(W)
      /\ cached' = RestoredCached(W)
      /\ arb' = RestoredArb(W)
      /\ broken' = broken \cup ActivateErrors(W)
      /\ UNCHANGED <<bodyType, inSpace, staticBodies, touching, threaded, begun>>

SpaceAddConstraint(j) ==
  /\ UserCall("joint")
  /\ j \notin joints /\ Ends[j] \subseteq inSpace
  /\ ChangeJoints(j, joints \cup {j}, RestoredConstraints(Woken(Ends[j])) \cup {j})

SpaceRemoveConstraint(j) ==
  /\ UserCall("joint")
  /\ j \in joints
  /\ ChangeJoints(j, joints \ {j}, RestoredConstraints(Woken(Ends[j])) \ {j})

\* Somebody asleep relies on b being what it is.
RestsOn(b) ==
  \/ IsSleeping(b)
  \/ \E x \in Neighbours(b) : IsSleeping(x)
  \/ \E j \in joints : b \in Ends[j] /\ \E x \in Ends[j] : IsSleeping(x)

\* cpBodySetType() of a body in a space.  It changes the type before it calls
\* cpBodyActivate(), which then looks at the new type; cpBodyAccumulateMassFromShapes()
\* calls it as well, for whatever becomes dynamic.
BodySetType(b, type) ==
  LET old == bodyType[b]
      reset == IF type = "dynamic"
               THEN {b} \cup {x \in Neighbours(b) : bodyType[x] # "static"} ELSE {b}
  IN  /\ UserCall("type")
      /\ type # old /\ b \in inSpace
      /\ "type" \in Careless \/ ~RestsOn(b)
      /\ bodyType' = [bodyType EXCEPT ![b] = type]
      /\ idleTime' = [x \in Body |-> IF x \in reset THEN 0 ELSE idleTime[x]]
      /\ IF type = "static"
         THEN /\ staticBodies' = staticBodies \cup {b}
              /\ dynamicBodies' = dynamicBodies \ {b}
              /\ staticShapes' = staticShapes \cup ShapesOf({b})
              /\ dynamicShapes' = dynamicShapes \ ShapesOf({b})
              /\ broken' = broken \cup (IF ShapesOf({b}) \subseteq dynamicShapes THEN {}
                                       ELSE {"removes a shape that is not in the index"})
         ELSE IF old = "static"
         THEN /\ staticBodies' = staticBodies \ {b}
              /\ dynamicBodies' = dynamicBodies \cup {b}
              /\ staticShapes' = staticShapes \ ShapesOf({b})
              /\ dynamicShapes' = dynamicShapes \cup ShapesOf({b})
              /\ UNCHANGED broken
         ELSE UNCHANGED <<staticBodies, dynamicBodies, indexVars, broken>>
      /\ UNCHANGED <<inSpace, root, sleepingComponents, constraints, joints, touching,
                     arbVars, threaded, begun>>

-----------------------------------------------------------------------------
(* cpSpaceStep() *)

InStep(p) == phase = p /\ broken = {}

\* Forget the last step's contacts; move the awake bodies; find what overlaps
\* with at least one shape in the dynamic index.
StepBegin ==
  LET Movable == {p \in Pair : p \subseteq Added /\ Bodies(p) \cap dynamicBodies # {}}
  IN  /\ InStep("user")
      /\ arb' = [p \in Pair |->
                  IF p \notin cached THEN arb[p]
                  ELSE [arb[p] EXCEPT
                    !.state = IF p \in arbiters THEN "normal" ELSE @,
                    !.age = Min(@ + 1, CollisionPersistence + 1),
                    !.bufAge = IF arb[p].contacts = "ring"
                               THEN Min(@ + 1, CollisionPersistence + 1) ELSE @]]
      /\ threaded' = threaded \ {p \in arbiters : \A b \in Bodies(p) : ~IsSleeping(b)}
      /\ arbiters' = {}
      /\ \E T \in SUBSET Movable : touching' = (touching \ Movable) \cup T
      /\ todo' = {p \in touching' : p \cap dynamicShapes # {}}
      /\ phase' = "narrow"
      /\ UNCHANGED <<placeVars, sleepVars, rousedBodies, awakeVars, cached, begun, broken>>

\* (faulty: a cached arbiter is not marked as new)
FoundCached(p) == IF p \in cached THEN arb[p].state ELSE Pooled.state

\* A new arbiter if the pair has none, and cpArbiterUpdate(): "mark it as new if
\* it's been cached"
Found(p) ==
  LET state == IF p \in cached THEN arb[p].state ELSE Pooled.state
  IN  IF state = "cached" THEN "first" ELSE state

\* cpSpaceCollideShapes() of two overlapping shapes: first is the answer of
\* beginFunc, verdict that of preSolveFunc ("ignore": it called cpArbiterIgnore()),
\* W what the callbacks activate.
CollideShapes(p, first, verdict, W) ==
  LET found == Found(p)
      asked == IF found = "first" /\ ~first THEN "ignore" ELSE found
      state == IF asked # "ignore" /\ verdict = "ignore" THEN "ignore" ELSE asked
      active == /\ state # "ignore" /\ verdict = "accept"
                /\ p \cap Sensor = {}
                /\ \E b \in Bodies(p) : bodyType[b] = "dynamic"
  IN  /\ InStep("narrow") /\ p \in todo
      /\ found # "first" => first
      /\ asked = "ignore" => verdict = "reject"
      /\ W # {} => found = "first" \/ asked # "ignore"
      /\ WakeLocked("narrow", W)
      /\ \E a \in Bodies(p) :
           arb' = [arb EXCEPT ![p] =
             [state |-> IF active \/ state = "ignore" THEN state ELSE "normal",
              age |-> 0, a |-> a, bufAge |-> 0,
              contacts |-> IF active THEN "ring" ELSE "none"]]
      /\ cached' = cached \cup {p}
      /\ arbiters' = IF active THEN arbiters \cup {p} ELSE arbiters
      /\ begun' = IF found = "first" THEN begun \cup {p} ELSE begun
      /\ broken' = IF p \in threaded \ cached THEN broken \cup {"two arbiters of a pair"}
                   ELSE broken
      /\ todo' = todo \ {p}
      /\ UNCHANGED <<phase, placeVars, awakeVars, touching, threaded>>

\* cpSpaceUnlock() activates the bodies roused by the callbacks; then
\* cpSpaceProcessComponents() counts how long each body has been idle (moving
\* are those above the energy threshold).
EndNarrowPhase(moving) ==
  LET W == rousedBodies
      D == {b \in dynamicBodies \cup W : bodyType[b] = "dynamic"}
  IN  /\ InStep("narrow") /\ todo = {}
      /\ moving \subseteq D
      /\ dynamicBodies' = dynamicBodies \cup W
      /\ ShapesAwake(W)
      /\ constraints' = RestoredConstraints(W)
      /\ arbiters' = RestoredArbiters(W)
      /\ cached' = RestoredCached(W)
      /\ arb' = RestoredArb(W)
      /\ broken' = broken \cup ActivateErrors(W)
                   \cup (IF \E b \in dynamicBodies \cup W : IsSleeping(b)
                         THEN {"dangling root pointer"} ELSE {})
      /\ rousedBodies' = {}
      /\ idleTime' = [b \in Body |->
                        IF b \in moving THEN 0
                        ELSE IF b \in D THEN Min(idleTime[b] + 1, SleepTimeThreshold)
                        ELSE idleTime[b]]
      /\ todo' = RestoredArbiters(W)
      /\ phase' = "thread"
      /\ UNCHANGED <<placeVars, root, sleepingComponents, touching, threaded, begun>>

\* (faulty: a kinematic body keeps nobody awake)
TouchedAsleep(p) == {b \in Bodies(p) : IsSleeping(b)}

\* A contact wakes the body that is asleep, and keeps awake the one a kinematic
\* body touches
Touched(p) ==
  {b \in Bodies(p) :
     IsSleeping(b) \/ \E x \in Bodies(p) \ {b} : bodyType[x] = "kinematic"}

\* then the arbiter is pushed on both bodies' arbiterLists.
PushArbiter(p) ==
  LET S == Touched(p)
      W == Woken(S)
  IN  /\ InStep("thread") /\ p \in todo
      /\ Unsleep(S)
      /\ dynamicBodies' = dynamicBodies \cup W
      /\ ShapesAwake(W)
      /\ constraints' = RestoredConstraints(W)
      /\ arbiters' = RestoredArbiters(W)
      /\ cached' = RestoredCached(W)
      /\ arb' = RestoredArb(W)
      /\ threaded' = threaded \cup {p}
      /\ broken' = broken \cup ActivateErrors(W)
                   \cup (IF p \in threaded THEN {"dangling contact graph pointers"} ELSE {})
      /\ todo' = todo \ {p}
      /\ UNCHANGED <<phase, placeVars, rousedBodies, touching, begun>>

\* Joints to kinematic bodies hold their other body awake.
HoldJointed ==
  LET S == {b \in Body : \E j \in constraints :
              b \in Ends[j] /\ \E x \in Ends[j] \ {b} : bodyType[x] = "kinematic"}
  IN  /\ InStep("thread") /\ todo = {}
      /\ Unsleep(S) /\ ActivateBodies(Woken(S))
      /\ phase' = "components"
      /\ UNCHANGED <<todo, placeVars, rousedBodies, touching, threaded, begun>>

\* (faulty: joints are not followed)
LinkedByContact(b, c) ==
  /\ bodyType[b] = "dynamic" /\ bodyType[c] = "dynamic"
  /\ \E p \in threaded : b \in Bodies(p) /\ c \in Bodies(p)

\* what FloodFillComponent() follows from a dynamic body
Linked(b, c) ==
  /\ bodyType[b] = "dynamic" /\ bodyType[c] = "dynamic"
  /\ \/ \E p \in threaded : b \in Bodies(p) /\ c \in Bodies(p)
     \/ \E j \in joints : b \in Ends[j] /\ c \in Ends[j]
Closed(C) == \A b \in C : \A c \in Body : Linked(b, c) => c \in C
Flooded(b) == {x \in Body : \A C \in SUBSET Body : b \in C /\ Closed(C) => x \in C}

\* Put to sleep each component in which nobody moved for long enough; its root
\* is the body the loop meets first.
ProcessComponents ==
  LET Idle(C) == \A b \in C : idleTime[b] >= SleepTimeThreshold
      sleepers == {C \in {Flooded(b) : b \in dynamicBodies} : Idle(C)}
      W == UNION sleepers
  IN  /\ InStep("components")
      /\ \E first \in [sleepers -> dynamicBodies] :
           /\ \A C \in sleepers : first[C] \in C
           /\ root' = [b \in Body |-> IF b \in W
                                      THEN first[CHOOSE C \in sleepers : b \in C] ELSE root[b]]
           /\ sleepingComponents' = sleepingComponents \cup {first[C] : C \in sleepers}
      /\ DeactivateBodies(W)
      /\ broken' = broken \cup DeactivateErrors(W)
                   \cup (IF \E b \in dynamicBodies : \E x \in Flooded(b) : IsSleeping(x)
                         THEN {"inconsistent contact graph"} ELSE {})
      /\ todo' = cached'
      /\ phase' = "filter"
      /\ UNCHANGED <<placeVars, idleTime, rousedBodies, touching, threaded, begun>>

\* (faulty: only an arbiter one step old separates)
SeparatesAtOnce(p) == ~Resting(p) /\ arb[p].age = 1 /\ arb[p].state # "cached"

\* cpSpaceArbiterSetFilter(); W is what separateFunc activates
Separates(p) == ~Resting(p) /\ arb[p].age >= 1 /\ arb[p].state # "cached"
Expires(p) == ~Resting(p) /\ arb[p].age >= CollisionPersistence

FilterArbiter(p, W) ==
  LET separates == Separates(p)
      expires == Expires(p)
  IN  /\ InStep("filter") /\ p \in todo
      /\ W # {} => separates
      /\ WakeLocked("separate", W)
      /\ begun' = IF separates THEN begun \ {p} ELSE begun
      /\ cached' = IF expires THEN cached \ {p} ELSE cached
      /\ arb' = [arb EXCEPT ![p] = IF expires THEN Pooled
                                   ELSE IF separates THEN [@ EXCEPT !.state = "cached"]
                                   ELSE @]
      /\ todo' = todo \ {p}
      /\ UNCHANGED <<phase, placeVars, awakeVars, touching, arbiters, threaded, broken>>

\* (faulty: the roused bodies are dropped)
WakingNow(W) == Woken(W)

\* whom cpSpaceUnlock() activates after callbacks picked the bodies W
Waking(W) == rousedBodies \cup Woken(W)

\* The solver, which changes nothing here; the postSolve callbacks, which ignore
\* the arbiters I and activate the bodies W; and the last cpSpaceUnlock().
StepEnd(I, W) ==
  LET R == Waking(W)
      new == RestoredArb(R)
  IN  /\ InStep("filter") /\ todo = {}
      /\ I \subseteq arbiters
      /\ W # {} => "postSolve" \in WakeFrom /\ arbiters # {}
      /\ Unsleep(W)
      /\ dynamicBodies' = dynamicBodies \cup R
      /\ ShapesAwake(R)
      /\ constraints' = RestoredConstraints(R)
      /\ arbiters' = RestoredArbiters(R)
      /\ cached' = RestoredCached(R)
      /\ arb' = [p \in Pair |-> IF p \in I THEN [new[p] EXCEPT !.state = "ignore"] ELSE new[p]]
      /\ broken' = broken \cup ActivateErrors(R)
      /\ rousedBodies' = {}
      /\ phase' = "user"
      /\ UNCHANGED <<todo, placeVars, touching, threaded, begun>>

-----------------------------------------------------------------------------

Init ==
  /\ phase = "user" /\ todo = {}
  /\ bodyType = InitType /\ inSpace = Body
  /\ dynamicBodies = {b \in Body : bodyType[b] # "static"}
  /\ staticBodies = {b \in Body : bodyType[b] = "static"}
  /\ dynamicShapes = {s \in Shape : bodyType[BodyOf[s]] # "static"}
  /\ staticShapes = {s \in Shape : bodyType[BodyOf[s]] = "static"}
  /\ root = [b \in Body |-> NoBody]
  /\ sleepingComponents = {}
  /\ idleTime = [b \in Body |-> 0]
  /\ rousedBodies = {}
  /\ joints = Joint /\ constraints = Joint
  /\ touching = {}
  /\ arbiters = {} /\ cached = {} /\ threaded = {}
  /\ arb = [p \in Pair |-> Pooled]
  /\ begun = {}
  /\ broken = {}

\* A bound: a callback activates one body at most.
CallbackWakes == {{}} \cup {{b} : b \in Body}

UserNext ==
  \/ \E b \in Body : BodyActivate(b) \/ SpaceAddBody(b) \/ SpaceRemoveBody(b)
  \/ \E b \in Body, g \in Body \cup {NoBody} : BodySleepWithGroup(b, g)
  \/ \E b \in Body, t \in Type : BodySetType(b, t)
  \/ \E s \in Shape : SpaceAddShape(s) \/ \E V \in CallbackWakes : SpaceRemoveShape(s, V)
  \/ \E j \in Joint : SpaceAddConstraint(j) \/ SpaceRemoveConstraint(j)
  \/ SpaceSetGravity

\* what remains of a step once it has begun
StepRest ==
  \/ \E p \in Pair, first \in BOOLEAN, verdict \in {"accept", "reject", "ignore"},
        W \in CallbackWakes : CollideShapes(p, first, verdict, W)
  \/ \E moving \in SUBSET Body : EndNarrowPhase(moving)
  \/ \E p \in Pair : PushArbiter(p)
  \/ HoldJointed
  \/ ProcessComponents
  \/ \E p \in Pair, W \in CallbackWakes : FilterArbiter(p, W)
  \/ \E I \in SUBSET Pair, W \in CallbackWakes : StepEnd(I, W)

Next == UserNext \/ StepBegin \/ StepRest

Spec == Init /\ [][Next]_vars

\* A step that has begun is carried to its end, and the game keeps stepping.
FairSpec == Spec /\ WF_vars(StepRest) /\ WF_vars(StepBegin)

-----------------------------------------------------------------------------
(* Properties *)

TypeOK ==
  /\ phase \in {"user", "narrow", "thread", "components", "filter"}
  /\ todo \subseteq Pair /\ touching \subseteq Pair
  /\ bodyType \in [Body -> Type]
  /\ inSpace \subseteq Body
  /\ dynamicBodies \subseteq Body /\ staticBodies \subseteq Body
  /\ dynamicShapes \subseteq Shape /\ staticShapes \subseteq Shape
  /\ root \in [Body -> Body \cup {NoBody}]
  /\ sleepingComponents \subseteq Body
  /\ idleTime \in [Body -> 0..SleepTimeThreshold]
  /\ rousedBodies \subseteq Body
  /\ joints \subseteq Joint /\ constraints \subseteq Joint
  /\ arbiters \subseteq Pair /\ cached \subseteq Pair /\ threaded \subseteq Pair
  /\ begun \subseteq Pair
  /\ arb \in [Pair -> [state : ArbiterState, age : 0..(CollisionPersistence + 1),
                       a : Body \cup {NoBody}, contacts : {"none", "ring", "heap"},
                       bufAge : 0..(CollisionPersistence + 1)]]

\* None of the assertions inside the sleeping code fails, nothing is freed or
\* listed twice: cpSpaceActivateBody(), cpBodyPushArbiter(), FloodFillComponent()
\* and cpSpaceProcessComponents() find what they expect.
NoInternalError == broken = {}

\* A body added to the space is in exactly one of dynamicBodies, staticBodies, a
\* sleeping component and rousedBodies, at every point of a step, and a body
\* that is not is in none: waking and sleeping neither lose nor duplicate one.
BodyInOnePlace ==
  /\ inSpace = dynamicBodies \cup staticBodies \cup rousedBodies \cup Asleep
  /\ dynamicBodies \cap staticBodies = {} /\ dynamicBodies \cap rousedBodies = {}
  /\ dynamicBodies \cap Asleep = {} /\ staticBodies \cap rousedBodies = {}
  /\ staticBodies \cap Asleep = {} /\ rousedBodies \cap Asleep = {}

\* The dynamic index holds the shapes of the awake bodies and the static index
\* those of all others, so that every pair with an awake body gets tested.
ShapeIndexFollowsBody ==
  /\ \A s \in dynamicShapes : BodyOf[s] \in dynamicBodies
  /\ \A s \in staticShapes : BodyOf[s] \in inSpace \ dynamicBodies

\* A sleeping component is closed under the contact graph: what a sleeping body
\* touches or is joined to is static or sleeps in the same component, whose root
\* is listed.
ComponentsClosed ==
  /\ sleepingComponents = {b \in Body : root[b] = b}
  /\ \A b \in Body : IsSleeping(b) => root[b] \in sleepingComponents
  /\ \A p \in threaded : \A b, c \in Bodies(p) :
       IsSleeping(b) => bodyType[c] = "static" \/ root[c] = root[b]
  /\ \A j \in joints : \A b, c \in Ends[j] :
       IsSleeping(b) => bodyType[c] = "static" \/ root[c] = root[b]

\* An arbiter in this step's list is cached and between bodies that are awake,
\* and its contacts are in a buffer young enough not to have been reused: the
\* solver never works on a pooled arbiter or on recycled contacts.
ActiveArbiterSound ==
  \A p \in arbiters :
    /\ p \in cached
    /\ arb[p].contacts = "ring" /\ arb[p].bufAge <= CollisionPersistence
    /\ phase \notin {"narrow", "thread"} => \A b \in Bodies(p) : ~IsSleeping(b)

\* A copy of the contacts exists exactly for the arbiters taken out of the cache
\* while they stay linked to sleeping bodies: nothing leaks or is freed twice.
SavedIffDetached ==
  \A p \in Pair : (arb[p].contacts = "heap") <=> (p \in threaded \ cached)

\* begin and separate alternate for each pair: when begin is about to be called
\* the user has not been told of the pair, and when separate is, he has.
BeginSeparateAlternate ==
  /\ phase = "narrow" =>
       \A p \in todo : (p \in begun) <=> (p \in cached /\ arb[p].state \notin {"first", "cached"})
  /\ \A p \in cached : (p \in begun) <=> (arb[p].state # "cached")

\* A joint is solved exactly while no body on it sleeps.
JointListedIffAwake ==
  \A j \in joints : (j \in constraints) <=>
    (\A b \in Ends[j] : ~IsSleeping(b) /\ b \notin rousedBodies)

\* A body whose activation was put off while the space was locked is back in
\* dynamicBodies by the end of the step.
RousedAwake == \A b \in Body : (b \in rousedBodies) ~> (b \in dynamicBodies)

\* Bodies fall asleep and wake as whole islands: the components implement the
\* abstract specification, a roused body counting as awake.
Islands == INSTANCE SleepingIslands WITH islands <- {Component(b) : b \in Asleep}
SleepsByIsland == Islands!Spec

\* The user is told that a pair separated, unless it touches again, comes to
\* rest, or the arbiter goes with its shape.
SeparateFollows ==
  \A p \in Pair : (p \in begun /\ p \notin touching /\ ~Resting(p))
                    ~> (p \notin begun \/ p \in touching \/ Resting(p))

-----------------------------------------------------------------------------
(* What comments, assertions and the header say, and the code does not keep *)

\* cpBodyPushArbiter()'s assertions (A), (B) and (C): an arbiter pushed on the
\* arbiterLists is not in them already.  A callback of the narrow phase that
\* calls cpBodyActivate() on a sleeping body breaks it.
NoDanglingThreads == "dangling contact graph pointers" \notin broken

\* The comment in cpSpaceSetGravity(): "Wake up all of the bodies since the
\* gravity changed."
GravityWakesAll == [][SpaceSetGravity => sleepingComponents' = {}]_vars

\* The comment in cpSpaceArbiterSetFilter(): what it preserves for sleeping bodies
\* prevents errant separate callbacks, that is, those of shapes that still overlap.
SeparateOnlyApart ==
  [][\A p \in begun \ begun' : phase = "filter" => p \notin touching]_vars

\* The comment in cpSpacePushFreshContactBuffer(), "The tail buffer is available":
\* an arbiter still has its contacts when its shapes touch again and
\* cpArbiterUpdate() reads them.  Both bodies asleep, it is kept in the cache
\* longer than its contacts are kept in the buffer.
OldContactsKept ==
  phase = "narrow" => \A p \in todo \cap cached :
    arb[p].contacts = "ring" => arb[p].bufAge <= CollisionPersistence
=============================================================================
