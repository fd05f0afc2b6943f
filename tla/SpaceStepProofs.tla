--------------------------- MODULE SpaceStepProofs ---------------------------
(***************************************************************************)
(* Proofs about SpaceStep, for all bodies, shapes, joints and parameters.  *)
(***************************************************************************)
EXTENDS SpaceStep, TLAPS

-----------------------------------------------------------------------------
(* The operators of the model stay within the sets they are meant for. *)

\* A body belongs to the world if a shape of a pair is attached to it.
LEMMA BodiesInWorld == \A p \in Pair : Bodies(p) \subseteq Body
BY IdentityAssumption DEF Bodies

\* Who wakes is a body, what is restored an arbiter of the contact graph, a joint
\* of the space or a shape of an index.
LEMMA Selections ==
  ASSUME TypeOK, NEW S
  PROVE  /\ Woken(S) \subseteq Asleep /\ Asleep \subseteq Body
         /\ Owned(S) \subseteq threaded /\ Owned(S) \subseteq Pair
         /\ OwnedJoints(S) \subseteq joints /\ OwnedJoints(S) \subseteq Joint
         /\ ShapesOf(S) \subseteq Added /\ ShapesOf(S) \subseteq Shape
BY DEF TypeOK, Woken, Component, Asleep, Owned, OwnedJoints, ShapesOf, Added

\* The saturated counters stay in range.
LEMMA Saturates ==
  ASSUME NEW n \in Nat, NEW x \in 0..n
  PROVE  /\ Min(x + 1, n) \in 0..n /\ 0 \in 0..n
BY DEF Min

\* the records that arb holds
ArbRecord == [state : ArbiterState, age : 0..(CollisionPersistence + 1),
              a : Body \cup {NoBody}, contacts : {"none", "ring", "heap"},
              bufAge : 0..(CollisionPersistence + 1)]

\* Giving a record of the right kind a new age, buffer or state keeps its kind.
LEMMA ArbRecords ==
  ASSUME NEW r \in ArbRecord, NEW n \in 0..(CollisionPersistence + 1),
         NEW k \in 0..(CollisionPersistence + 1),
         NEW c \in {"none", "ring", "heap"}, NEW s \in ArbiterState
  PROVE  /\ [r EXCEPT !.age = n, !.contacts = c, !.bufAge = k] \in ArbRecord
         /\ [r EXCEPT !.contacts = c, !.bufAge = k] \in ArbRecord
         /\ [r EXCEPT !.state = s, !.age = n, !.bufAge = k] \in ArbRecord
         /\ [r EXCEPT !.state = s] \in ArbRecord
BY DEF ArbRecord

LEMMA ZeroAge == /\ 0 \in 0..(CollisionPersistence + 1) /\ CollisionPersistence \in Nat
                 /\ Pooled \in ArbRecord
BY ParameterAssumption DEF ArbRecord, Pooled, ArbiterState

\* What waking puts back is of the right type.
LEMMA RestoredType ==
  ASSUME TypeOK, NEW W
  PROVE  /\ RestoredCached(W) \subseteq Pair /\ RestoredArbiters(W) \subseteq Pair
         /\ RestoredConstraints(W) \subseteq Joint
         /\ RestoredArb(W) \in [Pair -> ArbRecord]
<1>1. /\ RestoredCached(W) \subseteq Pair /\ RestoredArbiters(W) \subseteq Pair
      /\ RestoredConstraints(W) \subseteq Joint
  BY Selections DEF TypeOK, RestoredCached, RestoredArbiters, RestoredConstraints
<1>2. RestoredArb(W) \in [Pair -> ArbRecord]
  <2>1. \A p \in Pair : arb[p] \in ArbRecord
    BY DEF TypeOK, ArbRecord
  <2>2. \A p \in Pair : [arb[p] EXCEPT !.age = 0, !.contacts = "ring", !.bufAge = 0] \in ArbRecord
    BY <2>1, ZeroAge, ArbRecords DEF ArbiterState
  <2> QED BY <2>1, <2>2 DEF RestoredArb
<1> QED BY <1>1, <1>2

\* Waking keeps the type of what it changes.
LEMMA UnsleepType ==
  ASSUME TypeOK, NEW S, Unsleep(S)
  PROVE  /\ root' \in [Body -> Body \cup {NoBody}]
         /\ sleepingComponents' \subseteq Body
         /\ idleTime' \in [Body -> 0..SleepTimeThreshold]
<1>1. IdleAfterActivate(S) \in [Body -> 0..SleepTimeThreshold]
  BY ParameterAssumption DEF TypeOK, IdleAfterActivate
<1> QED BY <1>1 DEF TypeOK, Unsleep

LEMMA ShapesAwakeType ==
  ASSUME TypeOK, NEW W, ShapesAwake(W)
  PROVE  dynamicShapes' \subseteq Shape /\ staticShapes' \subseteq Shape
BY Selections DEF TypeOK, ShapesAwake

\* cpSpaceActivateBody() keeps the type of what it changes.
LEMMA ActivateBodiesType ==
  ASSUME TypeOK, NEW W, W \subseteq Body, ActivateBodies(W)
  PROVE  /\ dynamicBodies' \subseteq Body
         /\ dynamicShapes' \subseteq Shape /\ staticShapes' \subseteq Shape
         /\ constraints' \subseteq Joint
         /\ arbiters' \subseteq Pair /\ cached' \subseteq Pair
         /\ arb' \in [Pair -> ArbRecord]
BY RestoredType, ShapesAwakeType DEF TypeOK, ActivateBodies

\* So does cpSpaceDeactivateBody().
LEMMA DeactivateBodiesType ==
  ASSUME TypeOK, NEW W, DeactivateBodies(W)
  PROVE  /\ dynamicBodies' \subseteq Body
         /\ dynamicShapes' \subseteq Shape /\ staticShapes' \subseteq Shape
         /\ constraints' \subseteq Joint
         /\ arbiters' \subseteq Pair /\ cached' \subseteq Pair
         /\ arb' \in [Pair -> ArbRecord]
<1>1. \A p \in Pair : arb[p] \in ArbRecord
  BY DEF TypeOK, ArbRecord
<1>2. \A p \in Pair : [arb[p] EXCEPT !.contacts = "heap", !.bufAge = 0] \in ArbRecord
  BY <1>1, ZeroAge, ArbRecords DEF ArbiterState
<1>3. arb' \in [Pair -> ArbRecord]
  BY <1>1, <1>2 DEF DeactivateBodies
<1> QED
  BY <1>3, Selections DEF TypeOK, DeactivateBodies

-----------------------------------------------------------------------------
(* Every action preserves TypeOK. *)

\* Initially the types are those the assumptions give.
LEMMA InitType1 == Init => TypeOK
<1> SUFFICES ASSUME Init PROVE TypeOK
  OBVIOUS
<1>1. arb \in [Pair -> ArbRecord]
  BY ZeroAge DEF Init
<1>2. 0 \in 0..SleepTimeThreshold
  BY ParameterAssumption
<1> QED
  BY <1>1, <1>2, IdentityAssumption DEF Init, TypeOK, ArbRecord

\* The calls that wake, add and remove.
LEMMA WakingCallsType ==
  ASSUME TypeOK,
         \/ \E b \in Body : BodyActivate(b) \/ SpaceAddBody(b) \/ SpaceRemoveBody(b)
         \/ \E j \in Joint : SpaceAddConstraint(j) \/ SpaceRemoveConstraint(j)
         \/ SpaceSetGravity
  PROVE  TypeOK'
<1>a. \A S : Woken(S) \subseteq Body
  BY Selections
<1>1. ASSUME NEW b \in Body, BodyActivate(b) PROVE TypeOK'
  <2>1. Unsleep({b}) /\ ActivateBodies(Woken({b}))
    BY <1>1 DEF BodyActivate
  <2> QED
    BY <1>1, <1>a, <2>1, UnsleepType, ActivateBodiesType
    DEF BodyActivate, UserCall, TypeOK, ArbRecord, placeVars
<1>2. ASSUME NEW b \in Body, SpaceAddBody(b) PROVE TypeOK'
  BY <1>2 DEF SpaceAddBody, UserCall, TypeOK, sleepVars, indexVars, arbVars
<1>3. ASSUME NEW b \in Body, SpaceRemoveBody(b) PROVE TypeOK'
  <2> DEFINE W == Woken({b})
  <2>1. Unsleep({b}) /\ ShapesAwake(W)
    BY <1>3 DEF SpaceRemoveBody
  <2>2. /\ constraints' \subseteq Joint /\ arbiters' \subseteq Pair /\ cached' \subseteq Pair
        /\ arb' \in [Pair -> ArbRecord]
    BY <1>3, RestoredType DEF SpaceRemoveBody
  <2> QED
    BY <1>3, <1>a, <2>1, <2>2, UnsleepType, ShapesAwakeType
    DEF SpaceRemoveBody, UserCall, TypeOK, ArbRecord
<1>4. ASSUME NEW j \in Joint, NEW added, NEW listed, added \subseteq Joint, listed \subseteq Joint,
             UserCall("joint"), ChangeJoints(j, added, listed)
      PROVE  TypeOK'
  <2> DEFINE W == Woken(Ends[j])
  <2>1. Unsleep(Ends[j]) /\ ShapesAwake(W)
    BY <1>4 DEF ChangeJoints
  <2>2. /\ arbiters' \subseteq Pair /\ cached' \subseteq Pair
        /\ arb' \in [Pair -> ArbRecord]
    BY <1>4, RestoredType DEF ChangeJoints
  <2> QED
    BY <1>4, <1>a, <2>1, <2>2, UnsleepType, ShapesAwakeType
    DEF ChangeJoints, UserCall, TypeOK, ArbRecord
<1>5. ASSUME NEW j \in Joint, SpaceAddConstraint(j) \/ SpaceRemoveConstraint(j) PROVE TypeOK'
  <2>1. joints \cup {j} \subseteq Joint /\ joints \ {j} \subseteq Joint
    BY DEF TypeOK
  <2>2. \A W : RestoredConstraints(W) \subseteq Joint
    BY RestoredType
  <2> QED
    BY <1>4, <1>5, <2>1, <2>2 DEF SpaceAddConstraint, SpaceRemoveConstraint
<1>6. ASSUME SpaceSetGravity PROVE TypeOK'
  <2>1. PICK R : Unsleep(R) /\ ActivateBodies(Woken(R))
    BY <1>6 DEF SpaceSetGravity
  <2> QED
    BY <1>6, <1>a, <2>1, UnsleepType, ActivateBodiesType
    DEF SpaceSetGravity, UserCall, TypeOK, ArbRecord, placeVars
<1> QED
  BY <1>1, <1>2, <1>3, <1>5, <1>6

\* Putting a body to sleep.
LEMMA BodySleepType ==
  ASSUME TypeOK, NEW b \in Body, NEW group \in Body \cup {NoBody}, BodySleepWithGroup(b, group)
  PROVE  TypeOK'
<1>1. DeactivateBodies({b})
  BY DEF BodySleepWithGroup
<1>2. /\ root' \in [Body -> Body \cup {NoBody}] /\ sleepingComponents' \subseteq Body
      /\ idleTime' \in [Body -> 0..SleepTimeThreshold]
  BY ParameterAssumption DEF BodySleepWithGroup, TypeOK
<1> QED
  BY <1>1, <1>2, DeactivateBodiesType
  DEF BodySleepWithGroup, UserCall, TypeOK, ArbRecord, placeVars

\* Changing a body's type.
LEMMA BodySetTypeType ==
  ASSUME TypeOK, NEW b \in Body, NEW type \in Type, BodySetType(b, type)
  PROVE  TypeOK'
<1>1. bodyType' \in [Body -> Type] /\ idleTime' \in [Body -> 0..SleepTimeThreshold]
  <2>1. bodyType' = [bodyType EXCEPT ![b] = type]
    BY DEF BodySetType
  <2>2. PICK reset : idleTime' = [x \in Body |-> IF x \in reset THEN 0 ELSE idleTime[x]]
    BY Zenon DEF BodySetType
  <2> QED
    BY <2>1, <2>2, ParameterAssumption DEF TypeOK
<1>2. /\ staticBodies' \subseteq Body /\ dynamicBodies' \subseteq Body
      /\ staticShapes' \subseteq Shape /\ dynamicShapes' \subseteq Shape
  BY Selections DEF BodySetType, TypeOK, indexVars
<1> QED
  BY <1>1, <1>2 DEF BodySetType, UserCall, TypeOK, arbVars

\* Adding and removing a shape.
LEMMA ShapeCallsType ==
  ASSUME TypeOK, NEW s \in Shape, NEW V, SpaceAddShape(s) \/ SpaceRemoveShape(s, V)
  PROVE  TypeOK'
<1>a. \A S : Woken(S) \subseteq Body
  BY Selections
<1>1. CASE SpaceAddShape(s)
  <2>1. PICK S : /\ Unsleep(S)
                 /\ dynamicBodies' = dynamicBodies \cup Woken(S)
                 /\ dynamicShapes' \subseteq dynamicShapes \cup ShapesOf(Woken(S)) \cup {s}
                 /\ staticShapes' \subseteq staticShapes \cup {s}
                 /\ constraints' = RestoredConstraints(Woken(S))
                 /\ arbiters' = RestoredArbiters(Woken(S))
                 /\ cached' = RestoredCached(Woken(S))
                 /\ arb' = RestoredArb(Woken(S))
    BY <1>1 DEF SpaceAddShape
  <2>2. touching' \subseteq Pair
    BY <1>1 DEF SpaceAddShape, TypeOK
  <2> QED
    BY <1>1, <1>a, <2>1, <2>2, UnsleepType, Selections, RestoredType
    DEF SpaceAddShape, UserCall, TypeOK, ArbRecord, placeVars
<1>2. CASE SpaceRemoveShape(s, V)
  <2> DEFINE b == BodyOf[s]
             S == IF bodyType[b] = "static"
                  THEN UNION {Bodies(p) \ {b} : p \in {q \in threaded : s \in q}}
                  ELSE {b}
             F == {p \in RestoredCached(Woken(S)) : s \in p}
             W == Woken(S \cup V)
  <2>1. /\ Unsleep(S \cup V)
        /\ dynamicBodies' = dynamicBodies \cup W
        /\ dynamicShapes' = (dynamicShapes \cup ShapesOf(W)) \ {s}
        /\ staticShapes' = (staticShapes \ ShapesOf(W)) \ {s}
        /\ constraints' = RestoredConstraints(W)
        /\ arbiters' = RestoredArbiters(W) \ F
        /\ cached' = RestoredCached(W) \ F
        /\ arb' = [p \in Pair |-> IF p \in F THEN Pooled ELSE RestoredArb(W)[p]]
    BY <1>2 DEF SpaceRemoveShape
  <2> HIDE DEF S, F
  <2>2. arb' \in [Pair -> ArbRecord]
    BY <2>1, RestoredType, ZeroAge
  <2>3. threaded' \subseteq Pair /\ begun' \subseteq Pair /\ touching' \subseteq Pair
    BY <1>2 DEF SpaceRemoveShape, TypeOK
  <2> QED
    BY <1>2, <1>a, <2>1, <2>2, <2>3, UnsleepType, Selections, RestoredType
    DEF SpaceRemoveShape, UserCall, TypeOK, ArbRecord, placeVars
<1> QED
  BY <1>1, <1>2

\* The beginning of a step ages the arbiters.
LEMMA StepBeginType == ASSUME TypeOK, StepBegin PROVE TypeOK'
<1>1. arb' \in [Pair -> ArbRecord]
  <2>1. \A n \in 0..(CollisionPersistence + 1) :
          Min(n + 1, CollisionPersistence + 1) \in 0..(CollisionPersistence + 1)
    BY ZeroAge DEF Min
  <2>2. \A p \in Pair : /\ arb[p] \in ArbRecord
                        /\ arb[p].state \in ArbiterState
                        /\ arb[p].age \in 0..(CollisionPersistence + 1)
                        /\ arb[p].bufAge \in 0..(CollisionPersistence + 1)
    BY DEF TypeOK, ArbRecord
  <2> DEFINE state(p) == IF p \in arbiters THEN "normal" ELSE arb[p].state
             bufAge(p) == IF arb[p].contacts = "ring"
                          THEN Min(arb[p].bufAge + 1, CollisionPersistence + 1) ELSE arb[p].bufAge
             aged(p) == [arb[p] EXCEPT !.state = state(p),
                           !.age = Min(arb[p].age + 1, CollisionPersistence + 1),
                           !.bufAge = bufAge(p)]
  <2>3. ASSUME NEW p \in Pair PROVE aged(p) \in ArbRecord
    <3>1. state(p) \in ArbiterState /\ bufAge(p) \in 0..(CollisionPersistence + 1)
      BY <2>1, <2>2 DEF ArbiterState
    <3> HIDE DEF state, bufAge
    <3> QED
      BY <2>1, <2>2, <3>1 DEF ArbRecord
  <2>4. arb' = [p \in Pair |-> IF p \notin cached THEN arb[p] ELSE aged(p)]
    BY DEF StepBegin
  <2> QED
    BY <2>2, <2>3, <2>4
<1>2. touching' \subseteq Pair /\ todo' \subseteq Pair
  BY DEF StepBegin, TypeOK
<1> QED
  BY <1>1, <1>2 DEF StepBegin, InStep, TypeOK, ArbRecord, placeVars, sleepVars, awakeVars, indexVars

\* A collision gives the pair's arbiter a record of the right kind.
LEMMA CollideShapesType ==
  ASSUME TypeOK, NEW p \in Pair, NEW first \in BOOLEAN, NEW verdict, NEW W,
         CollideShapes(p, first, verdict, W)
  PROVE  TypeOK'
<1>1. WakeLocked("narrow", W) /\ Unsleep(W)
  BY Zenon DEF CollideShapes, WakeLocked
<1>2. arb' \in [Pair -> ArbRecord]
  <2>1. PICK a \in Bodies(p), state \in ArbiterState, active \in BOOLEAN :
             arb' = [arb EXCEPT ![p] =
               [state |-> IF active \/ state = "ignore" THEN state ELSE "normal",
                age |-> 0, a |-> a, bufAge |-> 0,
                contacts |-> IF active THEN "ring" ELSE "none"]]
    <3> DEFINE found == Found(p)
               asked == IF found = "first" /\ ~first THEN "ignore" ELSE found
               state == IF asked # "ignore" /\ verdict = "ignore" THEN "ignore" ELSE asked
               active == /\ state # "ignore" /\ verdict = "accept"
                         /\ p \cap Sensor = {}
                         /\ \E b \in Bodies(p) : bodyType[b] = "dynamic"
    <3>1. found \in ArbiterState
      BY DEF TypeOK, Found, Pooled, ArbiterState
    <3>2. state \in ArbiterState /\ active \in BOOLEAN
      BY <3>1 DEF ArbiterState
    <3>3. \E a \in Bodies(p) : arb' = [arb EXCEPT ![p] =
             [state |-> IF active \/ state = "ignore" THEN state ELSE "normal",
              age |-> 0, a |-> a, bufAge |-> 0,
              contacts |-> IF active THEN "ring" ELSE "none"]]
      BY DEF CollideShapes
    <3> HIDE DEF state, active
    <3> QED
      BY <3>2, <3>3
  <2>2. a \in Body \cup {NoBody}
    BY BodiesInWorld
  <2>3. [state |-> IF active \/ state = "ignore" THEN state ELSE "normal",
         age |-> 0, a |-> a, bufAge |-> 0,
         contacts |-> IF active THEN "ring" ELSE "none"] \in ArbRecord
    BY <2>1, <2>2, ZeroAge DEF ArbRecord, ArbiterState
  <2>4. arb \in [Pair -> ArbRecord]
    BY DEF TypeOK, ArbRecord
  <2> QED
    BY <2>1, <2>3, <2>4
<1>3. /\ cached' = cached \cup {p} /\ todo' = todo \ {p}
      /\ arbiters' \subseteq arbiters \cup {p} /\ begun' \subseteq begun \cup {p}
  BY DEF CollideShapes
<1>4. UNCHANGED <<phase, placeVars, awakeVars, touching, threaded>>
  BY Zenon DEF CollideShapes
<1>5. rousedBodies' \subseteq Body
  BY <1>1, Selections DEF WakeLocked, TypeOK
<1> QED
  BY <1>1, <1>2, <1>3, <1>4, <1>5, UnsleepType
  DEF TypeOK, ArbRecord, placeVars, awakeVars, indexVars

\* The other phases of the step.
LEMMA EndNarrowPhaseType ==
  ASSUME TypeOK, NEW moving, EndNarrowPhase(moving) PROVE TypeOK'
<1>1. ShapesAwake(rousedBodies)
  BY DEF EndNarrowPhase
<1>2. idleTime' \in [Body -> 0..SleepTimeThreshold]
  <2>1. PICK D : idleTime' = [b \in Body |->
                   IF b \in moving THEN 0
                   ELSE IF b \in D THEN Min(idleTime[b] + 1, SleepTimeThreshold)
                   ELSE idleTime[b]]
    BY Zenon DEF EndNarrowPhase
  <2>2. \A b \in Body : idleTime[b] \in 0..SleepTimeThreshold
    BY DEF TypeOK
  <2>3. \A b \in Body : Min(idleTime[b] + 1, SleepTimeThreshold) \in 0..SleepTimeThreshold
    BY <2>2, Saturates, ParameterAssumption
  <2>4. 0 \in 0..SleepTimeThreshold
    BY ParameterAssumption
  <2> QED
    BY <2>1, <2>2, <2>3, <2>4
<1> QED
  BY <1>1, <1>2, ShapesAwakeType, RestoredType
  DEF EndNarrowPhase, TypeOK, ArbRecord, placeVars

LEMMA PushArbiterType ==
  ASSUME TypeOK, NEW p \in Pair, PushArbiter(p) PROVE TypeOK'
<1>1. PICK S : /\ Unsleep(S) /\ ShapesAwake(Woken(S))
               /\ dynamicBodies' = dynamicBodies \cup Woken(S)
               /\ constraints' = RestoredConstraints(Woken(S))
               /\ arbiters' = RestoredArbiters(Woken(S))
               /\ cached' = RestoredCached(Woken(S))
               /\ arb' = RestoredArb(Woken(S))
  BY Zenon DEF PushArbiter
<1>2. Woken(S) \subseteq Body
  BY Selections
<1>3. /\ threaded' \subseteq Pair /\ todo' \subseteq Pair
      /\ UNCHANGED <<phase, placeVars, rousedBodies, touching, begun>>
  BY DEF PushArbiter, TypeOK
<1> QED
  BY <1>1, <1>2, <1>3, UnsleepType, ShapesAwakeType, RestoredType
  DEF TypeOK, ArbRecord, placeVars

LEMMA HoldJointedType == ASSUME TypeOK, HoldJointed PROVE TypeOK'
<1>1. PICK S : Unsleep(S) /\ ActivateBodies(Woken(S))
  BY Zenon DEF HoldJointed
<1>2. Woken(S) \subseteq Body
  BY Selections
<1> QED
  BY <1>1, <1>2, UnsleepType, ActivateBodiesType
  DEF HoldJointed, TypeOK, ArbRecord, placeVars

LEMMA ProcessComponentsType == ASSUME TypeOK, ProcessComponents PROVE TypeOK'
<1> DEFINE Idle(C) == \A b \in C : idleTime[b] >= SleepTimeThreshold
           sleepers == {C \in {Flooded(b) : b \in dynamicBodies} : Idle(C)}
<1>1. PICK first \in [sleepers -> dynamicBodies] :
        /\ root' = [b \in Body |-> IF b \in UNION sleepers
                                   THEN first[CHOOSE C \in sleepers : b \in C] ELSE root[b]]
        /\ sleepingComponents' = sleepingComponents \cup {first[C] : C \in sleepers}
        /\ DeactivateBodies(UNION sleepers)
  BY Zenon DEF ProcessComponents
<1> HIDE DEF sleepers
<1>2. \A C \in sleepers : first[C] \in Body
  BY <1>1 DEF TypeOK
<1>3. \A b \in UNION sleepers : (CHOOSE C \in sleepers : b \in C) \in sleepers
  OBVIOUS
<1>4. root' \in [Body -> Body \cup {NoBody}] /\ sleepingComponents' \subseteq Body
  BY <1>1, <1>2, <1>3 DEF TypeOK
<1>5. todo' = cached' /\ phase' = "filter"
      /\ UNCHANGED <<placeVars, idleTime, rousedBodies, touching, threaded, begun>>
  BY Zenon DEF ProcessComponents
<1> QED
  BY <1>1, <1>4, <1>5, DeactivateBodiesType DEF TypeOK, ArbRecord, placeVars

LEMMA FilterArbiterType ==
  ASSUME TypeOK, NEW p \in Pair, NEW W, FilterArbiter(p, W) PROVE TypeOK'
<1>1. Unsleep(W) /\ rousedBodies' = rousedBodies \cup Woken(W)
  BY DEF FilterArbiter, WakeLocked
<1>2. /\ begun' \subseteq begun /\ cached' \subseteq cached /\ todo' \subseteq todo
      /\ UNCHANGED <<phase, placeVars, awakeVars, touching, arbiters, threaded>>
  BY DEF FilterArbiter
<1>3. arb' \in [Pair -> ArbRecord]
  <2>1. PICK expires \in BOOLEAN, separates \in BOOLEAN :
          arb' = [arb EXCEPT ![p] = IF expires THEN Pooled
                                    ELSE IF separates THEN [arb[p] EXCEPT !.state = "cached"]
                                    ELSE arb[p]]
    BY Zenon DEF FilterArbiter
  <2>2. arb \in [Pair -> ArbRecord]
    BY DEF TypeOK, ArbRecord
  <2>3. [arb[p] EXCEPT !.state = "cached"] \in ArbRecord
    BY <2>2 DEF ArbRecord, ArbiterState
  <2> QED
    BY <2>1, <2>2, <2>3, ZeroAge
<1>4. rousedBodies' \subseteq Body
  BY <1>1, Selections DEF TypeOK
<1> QED
  BY <1>1, <1>2, <1>3, <1>4, UnsleepType
  DEF TypeOK, ArbRecord, placeVars, awakeVars, indexVars

LEMMA StepEndType ==
  ASSUME TypeOK, NEW I, NEW W, StepEnd(I, W) PROVE TypeOK'
<1> DEFINE R == Waking(W)
<1>1. /\ Unsleep(W) /\ ShapesAwake(R)
      /\ dynamicBodies' = dynamicBodies \cup R
      /\ constraints' = RestoredConstraints(R)
      /\ arbiters' = RestoredArbiters(R)
      /\ cached' = RestoredCached(R)
      /\ rousedBodies' = {} /\ phase' = "user"
      /\ UNCHANGED <<todo, placeVars, touching, threaded, begun>>
  BY DEF StepEnd
<1>2. R \subseteq Body
  BY Selections DEF TypeOK, Waking
<1>3. arb' \in [Pair -> ArbRecord]
  <2> DEFINE new == RestoredArb(R)
  <2>1. arb' = [p \in Pair |-> IF p \in I THEN [new[p] EXCEPT !.state = "ignore"] ELSE new[p]]
    BY DEF StepEnd
  <2>2. new \in [Pair -> ArbRecord]
    BY RestoredType
  <2> HIDE DEF new
  <2>3. \A p \in Pair : [new[p] EXCEPT !.state = "ignore"] \in ArbRecord
    BY <2>2 DEF ArbRecord, ArbiterState
  <2> QED
    BY <2>1, <2>2, <2>3
<1> HIDE DEF R
<1> QED
  BY <1>1, <1>2, <1>3, UnsleepType, ShapesAwakeType, RestoredType
  DEF TypeOK, ArbRecord, placeVars

-----------------------------------------------------------------------------

\* Every step keeps the types.
LEMMA StepType ==
  ASSUME TypeOK, [Next]_vars PROVE TypeOK'
<1>1. CASE UserNext
  BY <1>1, WakingCallsType, BodySleepType, BodySetTypeType, ShapeCallsType DEF UserNext
<1>2. CASE StepBegin
  BY <1>2, StepBeginType
<1>3. CASE StepRest
  BY <1>3, CollideShapesType, EndNarrowPhaseType, PushArbiterType, HoldJointedType,
     ProcessComponentsType, FilterArbiterType, StepEndType DEF StepRest
<1>4. CASE UNCHANGED vars
  BY <1>4 DEF vars, placeVars, sleepVars, indexVars, awakeVars, arbVars, TypeOK
<1> QED
  BY <1>1, <1>2, <1>3, <1>4 DEF Next

\* Every step of a cpSpace, whatever its bodies, shapes, joints and parameters,
\* keeps each field within its type: lists of bodies hold bodies, components have
\* bodies for roots, ages and idle times stay within their bounds.
THEOREM TypeCorrect == Spec => []TypeOK
BY InitType1, StepType, PTL DEF Spec
=============================================================================
