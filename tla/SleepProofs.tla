----------------------------- MODULE SleepProofs -----------------------------
(***************************************************************************)
(* The invariant of the sleeping code of SpaceStep, proved for all bodies, *)
(* shapes, joints and parameters, of a game that plays by the rules.       *)
(*                                                                         *)
(* The conditions are stated of the values they relate, not of the         *)
(* variables, because most actions are two changes in one step: bodies     *)
(* leave their components (they are roused), then they are put back in the *)
(* lists of the space.  A lemma for each half is then used by every action *)
(* that wakes somebody.                                                    *)
(***************************************************************************)
EXTENDS SpaceStepProofs

\* The game puts to sleep nothing that is attached to something awake, changes
\* the type of nothing a sleeper rests on, and wakes nobody from the callbacks of
\* the narrow phase; and the threshold is not so short that what has just moved
\* may fall asleep.
Careful == Careless = {} /\ "narrow" \notin WakeFrom /\ SleepTimeThreshold # 0

-----------------------------------------------------------------------------
(* The invariant.  rt, sc and rs stand for root, sleepingComponents and       *)
(* rousedBodies, and so on.                                                   *)

\* the bodies that are in none of the lists of the space
Away(rt, rs) == {b \in Body : rt[b] # NoBody} \cup rs

Places(bt, sp, sb, db, rt, rs) ==
  /\ sp = db \cup sb \cup Away(rt, rs)
  /\ sb = {b \in sp : bt[b] = "static"}
  /\ db \cap sb = {} /\ db \cap Away(rt, rs) = {}
  /\ \A b \in rs : rt[b] = NoBody
  /\ \A b \in Away(rt, rs) : bt[b] = "dynamic"

Roots(rt, sc) ==
  /\ sc = {b \in Body : rt[b] = b}
  /\ \A b \in Body : rt[b] # NoBody => rt[b] \in sc

Index(sp, db, ds, ss) ==
  /\ \A s \in ds : BodyOf[s] \in db
  /\ \A s \in ss : BodyOf[s] \in sp \ db

\* Bodies that touch or are joined leave and come back together.
Together(bt, rt, rs, E) ==
  \A b, c \in E : bt[c] # "static" =>
    /\ rt[b] # NoBody => rt[c] = rt[b]
    /\ b \in rs => c \in rs

Joined(bt, sp, rt, rs, js, cs) ==
  /\ cs \subseteq js
  /\ \A j \in js : /\ Ends[j] \subseteq sp
                   /\ Together(bt, rt, rs, Ends[j])
                   /\ (j \in cs) <=> (Ends[j] \cap Away(rt, rs) = {})

Linkage(bt, rt, rs, th, ca) ==
  \A p \in th : /\ Together(bt, rt, rs, Bodies(p))
                /\ (p \in ca) <=> (Bodies(p) \cap Away(rt, rs) = {})

\* The fields of the arbiters.
Fields(th, ca, ar, ab) ==
  /\ ar \subseteq ca /\ th \cap ca \subseteq ar
  /\ \A p \in th \cup ca : ab[p].a \in Bodies(p)
  /\ \A p \in ar : ab[p].age = 0 /\ ab[p].contacts = "ring" /\ ab[p].bufAge = 0
  /\ \A p \in Pair : (ab[p].contacts = "heap") <=> (p \in th \ ca)

OnShapes(P, ds, ss) == \A p \in P : p \subseteq ds \cup ss

\* what holds when the components are rt and sc and the bodies rs are roused
Core(rt, sc, rs) ==
  /\ Places(bodyType, inSpace, staticBodies, dynamicBodies, rt, rs)
  /\ Roots(rt, sc)
  /\ Index(inSpace, dynamicBodies, dynamicShapes, staticShapes)
  /\ Joined(bodyType, inSpace, rt, rs, joints, constraints)
  /\ Linkage(bodyType, rt, rs, threaded, cached)
  /\ Fields(threaded, cached, arbiters, arb)
  /\ OnShapes(threaded \cup cached \cup touching, dynamicShapes, staticShapes)

\* Only dynamic bodies get tired.
Rested == \A b \in Body : bodyType[b] # "dynamic" => idleTime[b] = 0

\* A kinematic body keeps the dynamic bodies of E from being tired.
Held(E) == \A b, c \in E : bodyType[b] = "dynamic" /\ bodyType[c] = "kinematic" => idleTime[b] = 0
HeldByContact == \A p \in threaded : Held(Bodies(p))
HeldByJoint == \A j \in constraints : Held(Ends[j])

Progress ==
  /\ rousedBodies # {} => phase = "filter"
  /\ phase = "user" => todo = {} /\ arbiters \subseteq threaded
  /\ phase = "narrow" =>
       /\ threaded \cap cached = {} /\ todo \subseteq touching /\ todo \cap arbiters = {}
       /\ \A p \in todo : p \cap dynamicShapes # {}
  /\ phase = "thread" => /\ todo \subseteq arbiters /\ todo \cap threaded = {}
                         /\ arbiters \ todo \subseteq threaded
                         /\ HeldByContact
  /\ phase = "components" => /\ todo = {} /\ arbiters \subseteq threaded
                             /\ HeldByContact /\ HeldByJoint
  /\ phase = "filter" => arbiters \subseteq threaded /\ todo \subseteq cached

SleepInv ==
  /\ TypeOK /\ broken = {} /\ Rested /\ Progress
  /\ Core(root, sleepingComponents, rousedBodies)

-----------------------------------------------------------------------------
(* Waking: the bodies S leave their components, with those they sleep with.   *)

\* Everybody in a component is dynamic, so waking S takes out whole components.
LEMMA WokenComponents ==
  ASSUME TypeOK, Places(bodyType, inSpace, staticBodies, dynamicBodies, root, rousedBodies),
         NEW S
  PROVE  /\ Woken(S) \subseteq Asleep
         /\ \A b \in Woken(S) : \A x \in Body : root[x] = root[b] => x \in Woken(S)
         /\ \A b \in S : b \in Asleep => b \in Woken(S)
BY DEF Woken, Component, Asleep, IsSleeping, Places, Away, TypeOK

\* Rousing: the components are dissolved, their bodies are not yet in the lists.
LEMMA Rouse ==
  ASSUME TypeOK, Core(root, sleepingComponents, rousedBodies), NEW S, Unsleep(S)
  PROVE  /\ Core(root', sleepingComponents', rousedBodies \cup Woken(S))
         /\ Away(root', rousedBodies \cup Woken(S)) = Away(root, rousedBodies)
<1> DEFINE X == Woken(S)
<1>1. /\ X \subseteq Asleep /\ X \subseteq Body
      /\ \A b \in X : \A x \in Body : root[x] = root[b] => x \in X
      /\ Asleep = {b \in Body : root[b] # NoBody}
  BY WokenComponents, Selections DEF Core, Asleep, IsSleeping
<1>2. /\ root' = [b \in Body |-> IF b \in X THEN NoBody ELSE root[b]]
      /\ sleepingComponents' = sleepingComponents \ {root[b] : b \in X}
  BY DEF Unsleep
<1>3. NoBody \notin Body /\ root \in [Body -> Body \cup {NoBody}] /\ rousedBodies \subseteq Body
  BY IdentityAssumption DEF TypeOK
<1> HIDE DEF X
<1>4. Away(root', rousedBodies \cup X) = Away(root, rousedBodies)
  BY <1>1, <1>2, <1>3 DEF Away
<1>5. Places(bodyType, inSpace, staticBodies, dynamicBodies, root', rousedBodies \cup X)
  BY <1>1, <1>2, <1>3, <1>4 DEF Core, Places
<1>6. Roots(root', sleepingComponents')
  BY <1>1, <1>2, <1>3 DEF Core, Roots
<1>7. ASSUME NEW E, E \subseteq Body, Together(bodyType, root, rousedBodies, E)
      PROVE  Together(bodyType, root', rousedBodies \cup X, E)
  <2> SUFFICES ASSUME NEW b \in E, NEW c \in E, bodyType[c] # "static"
               PROVE  /\ root'[b] # NoBody => root'[c] = root'[b]
                      /\ b \in rousedBodies \cup X => c \in rousedBodies \cup X
    BY DEF Together
  <2>1. /\ root[b] # NoBody => root[c] = root[b]
        /\ b \in rousedBodies => c \in rousedBodies
        /\ b \in Body /\ c \in Body
    BY <1>7 DEF Together
  <2> QED
    BY <1>1, <1>2, <1>3, <2>1
<1>8. \A j \in joints : Ends[j] \subseteq Body
  BY IdentityAssumption DEF TypeOK
<1>9. Joined(bodyType, inSpace, root', rousedBodies \cup X, joints, constraints)
  BY <1>4, <1>7, <1>8 DEF Core, Joined
<1>10. \A p \in threaded : Bodies(p) \subseteq Body
  BY BodiesInWorld DEF TypeOK
<1>11. Linkage(bodyType, root', rousedBodies \cup X, threaded, cached)
  BY <1>4, <1>7, <1>10 DEF Core, Linkage
<1> QED
  BY <1>4, <1>5, <1>6, <1>9, <1>11 DEF Core, X

\* Each arbiter and each joint of bodies that leave or come back together has one
\* of them for owner: what cpSpaceActivateBody() restores and what
\* cpSpaceDeactivateBody() saves is all that they share.
LEMMA OwnedMeets ==
  ASSUME TypeOK, NEW W, \A b \in W : bodyType[b] # "static",
         \A p \in threaded : A(p) \in Bodies(p),
         \A p \in threaded : \A b, c \in Bodies(p) : b \in W => bodyType[c] = "static" \/ c \in W
  PROVE  Owned(W) = {p \in threaded : Bodies(p) \cap W # {}}
BY DEF Owned, OwnsArbiter

LEMMA OwnedJointsMeet ==
  ASSUME TypeOK, NEW W, \A b \in W : bodyType[b] # "static",
         \A j \in joints : \A b, c \in Ends[j] : b \in W => bodyType[c] = "static" \/ c \in W
  PROVE  OwnedJoints(W) = {j \in joints : Ends[j] \cap W # {}}
BY IdentityAssumption DEF OwnedJoints, OwnsJoint, TypeOK

\* What the roused bodies W own is what they touch and are joined to.
LEMMA RousedOwn ==
  ASSUME TypeOK, NEW rt, NEW sc, NEW W, Core(rt, sc, W)
  PROVE  /\ Owned(W) = {p \in threaded : Bodies(p) \cap W # {}}
         /\ OwnedJoints(W) = {j \in joints : Ends[j] \cap W # {}}
<1>1. \A b \in W : bodyType[b] = "dynamic"
  BY DEF Core, Places, Away
<1>2. \A p \in threaded : A(p) \in Bodies(p)
  BY DEF Core, Fields, A
<1>3. \A p \in threaded : \A b, c \in Bodies(p) : b \in W => bodyType[c] = "static" \/ c \in W
  BY DEF Core, Linkage, Together
<1>4. \A j \in joints : \A b, c \in Ends[j] : b \in W => bodyType[c] = "static" \/ c \in W
  BY DEF Core, Joined, Together
<1> QED
  BY <1>1, <1>2, <1>3, <1>4, OwnedMeets, OwnedJointsMeet

\* Activation: all the roused bodies W are put back, and nothing goes wrong.
LEMMA Activate ==
  ASSUME TypeOK, NEW rt \in [Body -> Body \cup {NoBody}], NEW sc, NEW W, W \subseteq Body,
         Core(rt, sc, W)
  PROVE  /\ ActivateErrors(W) = {}
         /\ Places(bodyType, inSpace, staticBodies, dynamicBodies \cup W, rt, {})
         /\ Roots(rt, sc)
         /\ Index(inSpace, dynamicBodies \cup W, dynamicShapes \cup ShapesOf(W),
                  staticShapes \ ShapesOf(W))
         /\ Joined(bodyType, inSpace, rt, {}, joints, RestoredConstraints(W))
         /\ Linkage(bodyType, rt, {}, threaded, RestoredCached(W))
         /\ Fields(threaded, RestoredCached(W), RestoredArbiters(W), RestoredArb(W))
         /\ Added = (dynamicShapes \cup ShapesOf(W)) \cup (staticShapes \ ShapesOf(W))
         /\ OnShapes(threaded \cup RestoredCached(W) \cup touching,
                     dynamicShapes \cup ShapesOf(W), staticShapes \ ShapesOf(W))
<1> DEFINE O == Owned(W)
           J == OwnedJoints(W)
<1>1. /\ O = {p \in threaded : Bodies(p) \cap W # {}}
      /\ J = {j \in joints : Ends[j] \cap W # {}}
  BY RousedOwn
<1>2. Away(rt, W) = Away(rt, {}) \cup W /\ Away(rt, {}) \cap W = {}
  BY DEF Away, Core, Places
<1>3. O \cap cached = {} /\ J \cap constraints = {}
  BY <1>1, <1>2 DEF Core, Linkage, Joined
<1>4. \A p \in O : arb[p].contacts = "heap"
  BY <1>1, <1>3 DEF Core, Fields, TypeOK
<1>5. \A b \in W : bodyType[b] = "dynamic"
  BY DEF Core, Places, Away
<1>6. ActivateErrors(W) = {}
  BY <1>3, <1>4, <1>5 DEF ActivateErrors
<1>7. Places(bodyType, inSpace, staticBodies, dynamicBodies \cup W, rt, {})
  BY <1>2, <1>5 DEF Core, Places
<1>8. Index(inSpace, dynamicBodies \cup W, dynamicShapes \cup ShapesOf(W),
            staticShapes \ ShapesOf(W))
  BY DEF Core, Index, ShapesOf, Added
<1>9. ASSUME NEW E, E \subseteq Body, Together(bodyType, rt, W, E)
      PROVE  /\ Together(bodyType, rt, {}, E)
             /\ E \cap W # {} => E \cap Away(rt, {}) = {}
  BY <1>2, <1>5, <1>9 DEF Core, Together, Away, Places
<1> HIDE DEF O, J
<1>10. Joined(bodyType, inSpace, rt, {}, joints, constraints \cup J)
  <2>1. constraints \cup J \subseteq joints
    BY <1>1 DEF Core, Joined
  <2>2. ASSUME NEW j \in joints
        PROVE  /\ Ends[j] \subseteq inSpace
               /\ Together(bodyType, rt, {}, Ends[j])
               /\ (j \in constraints \cup J) <=> (Ends[j] \cap Away(rt, {}) = {})
    <3>1. /\ Ends[j] \subseteq inSpace /\ inSpace \subseteq Body
          /\ Together(bodyType, rt, W, Ends[j])
          /\ (j \in constraints) <=> (Ends[j] \cap Away(rt, W) = {})
      BY DEF Core, Joined, TypeOK
    <3> QED
      BY <1>1, <1>2, <1>9, <3>1
  <2> QED
    BY <2>1, <2>2 DEF Joined
<1>11. Linkage(bodyType, rt, {}, threaded, cached \cup O)
  <2> SUFFICES ASSUME NEW p \in threaded
               PROVE  /\ Together(bodyType, rt, {}, Bodies(p))
                      /\ (p \in cached \cup O) <=> (Bodies(p) \cap Away(rt, {}) = {})
    BY DEF Linkage
  <2>1. /\ Bodies(p) \subseteq Body
        /\ Together(bodyType, rt, W, Bodies(p))
        /\ (p \in cached) <=> (Bodies(p) \cap Away(rt, W) = {})
    BY BodiesInWorld DEF Core, Linkage, TypeOK
  <2> QED
    BY <1>1, <1>2, <1>9, <2>1
<1>12. Fields(threaded, cached \cup O, arbiters \cup O, RestoredArb(W))
  <2>1. \A p \in Pair : RestoredArb(W)[p] =
          IF p \in O THEN [arb[p] EXCEPT !.age = 0, !.contacts = "ring", !.bufAge = 0] ELSE arb[p]
    BY DEF RestoredArb, O
  <2>2. \A p \in Pair : arb[p] \in ArbRecord
    BY DEF TypeOK, ArbRecord
  <2>3. \A p \in Pair : LET r == RestoredArb(W)[p]
                        IN  /\ r.a = arb[p].a
                            /\ p \in O => r.age = 0 /\ r.contacts = "ring" /\ r.bufAge = 0
                            /\ p \notin O => r = arb[p]
    BY <2>1, <2>2 DEF ArbRecord
  <2>4. threaded \subseteq Pair /\ cached \subseteq Pair /\ O \subseteq threaded
    BY <1>1 DEF TypeOK
  <2> QED
    BY <1>3, <1>4, <2>3, <2>4 DEF Core, Fields
<1>13. /\ Added = (dynamicShapes \cup ShapesOf(W)) \cup (staticShapes \ ShapesOf(W))
       /\ O \subseteq threaded
  BY <1>1 DEF Added, ShapesOf
<1>14. OnShapes(threaded \cup (cached \cup O) \cup touching,
                dynamicShapes \cup ShapesOf(W), staticShapes \ ShapesOf(W))
  BY <1>13 DEF Core, OnShapes, Added
<1> QED
  BY <1>6, <1>7, <1>8, <1>10, <1>11, <1>12, <1>13, <1>14
  DEF Core, RestoredConstraints, RestoredCached, RestoredArbiters, O, J

\* Waking while the space is not locked: both halves at once.
LEMMA Wake ==
  ASSUME SleepInv, rousedBodies = {}, NEW S, Unsleep(S)
  PROVE  LET W == Woken(S)
         IN  /\ root' \in [Body -> Body \cup {NoBody}]
             /\ W \subseteq Body
             /\ ActivateErrors(W) = {}
             /\ Places(bodyType, inSpace, staticBodies, dynamicBodies \cup W, root', {})
             /\ Roots(root', sleepingComponents')
             /\ Index(inSpace, dynamicBodies \cup W, dynamicShapes \cup ShapesOf(W),
                      staticShapes \ ShapesOf(W))
             /\ Joined(bodyType, inSpace, root', {}, joints, RestoredConstraints(W))
             /\ Linkage(bodyType, root', {}, threaded, RestoredCached(W))
             /\ Fields(threaded, RestoredCached(W), RestoredArbiters(W), RestoredArb(W))
             /\ Added = (dynamicShapes \cup ShapesOf(W)) \cup (staticShapes \ ShapesOf(W))
             /\ OnShapes(threaded \cup RestoredCached(W) \cup touching,
                         dynamicShapes \cup ShapesOf(W), staticShapes \ ShapesOf(W))
<1>1. TypeOK /\ Core(root, sleepingComponents, rousedBodies)
  BY DEF SleepInv
<1>2. Core(root', sleepingComponents', Woken(S))
  <2>1. Core(root', sleepingComponents', rousedBodies \cup Woken(S))
    BY <1>1, Rouse
  <2>2. rousedBodies \cup Woken(S) = Woken(S)
    OBVIOUS
  <2> QED
    BY <2>1, <2>2
<1>3. root' \in [Body -> Body \cup {NoBody}] /\ Woken(S) \subseteq Body
  BY <1>1, UnsleepType, Selections
<1> QED
  BY <1>1, <1>2, <1>3, Activate

\* Who wakes is not tired, nor is what he touches, and nobody else changes.
LEMMA WokenIdle ==
  ASSUME TypeOK, NEW S, Unsleep(S)
  PROVE  /\ \A b \in Body : idleTime'[b] = 0 \/ idleTime'[b] = idleTime[b]
         /\ \A b \in S \cap Body : bodyType[b] = "dynamic" => idleTime'[b] = 0
BY DEF Unsleep, IdleAfterActivate

\* A step that begins and ends outside cpSpaceStep() keeps the invariant if it
\* keeps its parts.
LEMMA UserStep ==
  ASSUME SleepInv, TypeOK', phase = "user", UNCHANGED <<phase, todo, rousedBodies>>,
         broken' = {}, arbiters' \subseteq threaded',
         \A b \in Body : bodyType'[b] = "dynamic" \/ idleTime'[b] = 0,
         Places(bodyType', inSpace', staticBodies', dynamicBodies', root', {}),
         Roots(root', sleepingComponents'),
         Index(inSpace', dynamicBodies', dynamicShapes', staticShapes'),
         Joined(bodyType', inSpace', root', {}, joints', constraints'),
         Linkage(bodyType', root', {}, threaded', cached'),
         Fields(threaded', cached', arbiters', arb'),
         OnShapes(threaded' \cup cached' \cup touching', dynamicShapes', staticShapes')
  PROVE  SleepInv'
<1>1. rousedBodies = {} /\ rousedBodies' = {}
  BY DEF SleepInv, Progress
<1>2. Core(root, sleepingComponents, rousedBodies)'
  BY <1>1 DEF Core
<1>3. Rested' /\ Progress'
  BY <1>1 DEF Rested, Progress, SleepInv
<1> QED
  BY <1>2, <1>3 DEF SleepInv

-----------------------------------------------------------------------------
(* The calls between steps                                                    *)

\* cpBodyActivate() and cpSpaceSetGravity()
LEMMA WakingCall ==
  ASSUME SleepInv, TypeOK', phase = "user", NEW S, Unsleep(S), ActivateBodies(Woken(S)),
         UNCHANGED <<phase, todo, rousedBodies, bodyType, inSpace, staticBodies, joints,
                     touching, threaded>>
  PROVE  SleepInv'
<1> DEFINE W == Woken(S)
<1>1. TypeOK /\ rousedBodies = {} /\ arbiters \subseteq threaded /\ broken = {} /\ Rested
  BY DEF SleepInv, Progress
<1>2. RestoredArbiters(W) \subseteq threaded
  BY <1>1, Selections DEF RestoredArbiters
<1>3. \A x \in Body : bodyType'[x] = "dynamic" \/ idleTime'[x] = 0
  BY <1>1, WokenIdle DEF Rested
<1> HIDE DEF W
<1> QED
  BY <1>1, <1>2, <1>3, Wake, UserStep DEF ActivateBodies, ShapesAwake, W

LEMMA ActivateInv ==
  ASSUME SleepInv, TypeOK', (\E b \in Body : BodyActivate(b)) \/ SpaceSetGravity
  PROVE  SleepInv'
<1>1. PICK S : Unsleep(S) /\ ActivateBodies(Woken(S))
  BY DEF BodyActivate, SpaceSetGravity
<1> QED
  BY <1>1, WakingCall DEF BodyActivate, SpaceSetGravity, UserCall, placeVars

\* cpSpaceAddBody()
LEMMA AddBodyInv ==
  ASSUME SleepInv, TypeOK', NEW b \in Body, SpaceAddBody(b) PROVE SleepInv'
<1>1. /\ phase = "user" /\ b \notin inSpace /\ inSpace' = inSpace \cup {b}
      /\ IF bodyType[b] = "static"
         THEN staticBodies' = staticBodies \cup {b} /\ dynamicBodies' = dynamicBodies
         ELSE dynamicBodies' = dynamicBodies \cup {b} /\ staticBodies' = staticBodies
      /\ UNCHANGED <<phase, todo, rousedBodies, bodyType, joints, root, sleepingComponents,
                     idleTime, dynamicShapes, staticShapes, constraints, touching, arbiters,
                     cached, arb, threaded, broken>>
  BY DEF SpaceAddBody, UserCall, sleepVars, indexVars, arbVars
<1>2. /\ rousedBodies = {} /\ arbiters \subseteq threaded /\ broken = {}
      /\ \A x \in Body : bodyType[x] = "dynamic" \/ idleTime[x] = 0
      /\ Core(root, sleepingComponents, {})
  BY <1>1 DEF SleepInv, Progress, Rested
<1>3. Places(bodyType, inSpace', staticBodies', dynamicBodies', root, {})
  BY <1>1, <1>2 DEF Core, Places
<1>4. Index(inSpace', dynamicBodies', dynamicShapes, staticShapes)
  BY <1>1, <1>2 DEF Core, Index, Places
<1>5. Joined(bodyType, inSpace', root, {}, joints, constraints)
  BY <1>1, <1>2 DEF Core, Joined
<1> QED
  BY <1>1, <1>2, <1>3, <1>4, <1>5, UserStep DEF Core

\* cpSpaceRemoveBody(): nothing is left that refers to the body.
LEMMA RemoveBodyInv ==
  ASSUME SleepInv, TypeOK', NEW b \in Body, SpaceRemoveBody(b) PROVE SleepInv'
<1> DEFINE W == Woken({b})
<1>1. /\ phase = "user" /\ b \in inSpace /\ inSpace' = inSpace \ {b}
      /\ ShapesOf({b}) = {} /\ \A j \in joints : b \notin Ends[j]
      /\ Unsleep({b})
      /\ dynamicBodies' = (dynamicBodies \cup W) \ {b}
      /\ staticBodies' = staticBodies \ {b}
      /\ ShapesAwake(W)
      /\ constraints' = RestoredConstraints(W)
      /\ arbiters' = RestoredArbiters(W)
      /\ cached' = RestoredCached(W)
      /\ arb' = RestoredArb(W)
      /\ broken' = broken \cup ActivateErrors(W)
      /\ UNCHANGED <<phase, todo, rousedBodies, bodyType, joints, touching, threaded>>
  BY DEF SpaceRemoveBody, UserCall
<1>2. /\ TypeOK /\ rousedBodies = {} /\ arbiters \subseteq threaded /\ broken = {} /\ Rested
      /\ Core(root, sleepingComponents, rousedBodies)
  BY <1>1 DEF SleepInv, Progress
<1>3. RestoredArbiters(W) \subseteq threaded
  BY <1>2, Selections DEF RestoredArbiters
<1>4. \A x \in Body : bodyType'[x] = "dynamic" \/ idleTime'[x] = 0
  BY <1>1, <1>2, WokenIdle DEF Rested
<1>5. root'[b] = NoBody
  BY <1>1, <1>2, WokenComponents DEF Unsleep, Core, Places, Away, Asleep, IsSleeping, TypeOK
<1> HIDE DEF W
<1>6. Places(bodyType, inSpace', staticBodies', dynamicBodies', root', {})
  <2>1. Places(bodyType, inSpace, staticBodies, dynamicBodies \cup W, root', {})
    BY <1>1, <1>2, Wake DEF W
  <2> QED
    BY <1>1, <1>5, <2>1 DEF Places, Away
<1>7. Index(inSpace', dynamicBodies', dynamicShapes', staticShapes')
  <2>1. /\ Index(inSpace, dynamicBodies \cup W, dynamicShapes', staticShapes')
        /\ dynamicShapes' \cup staticShapes' = Added
    BY <1>1, <1>2, Wake DEF ShapesAwake, W
  <2>2. \A s \in Added : BodyOf[s] # b
    BY <1>1 DEF ShapesOf
  <2> QED
    BY <1>1, <2>1, <2>2 DEF Index
<1>8. Joined(bodyType, inSpace', root', {}, joints', constraints')
  <2>1. Joined(bodyType, inSpace, root', {}, joints, constraints')
    BY <1>1, <1>2, Wake DEF W
  <2> QED
    BY <1>1, <2>1 DEF Joined
<1> QED
  BY <1>1, <1>2, <1>3, <1>4, <1>6, <1>7, <1>8, Wake, UserStep DEF ShapesAwake, W

\* cpSpaceAddShape(): the body is awake when its shape joins the dynamic index.
LEMMA AddShapeInv ==
  ASSUME SleepInv, TypeOK', NEW s \in Shape, SpaceAddShape(s) PROVE SleepInv'
<1> DEFINE b == BodyOf[s]
           isStatic == bodyType[b] = "static"
           S == IF isStatic THEN {} ELSE {b}
           W == Woken(S)
<1>1. /\ phase = "user" /\ b \in inSpace /\ Unsleep(S)
      /\ dynamicBodies' = dynamicBodies \cup W
      /\ dynamicShapes' = dynamicShapes \cup ShapesOf(W) \cup (IF isStatic THEN {} ELSE {s})
      /\ staticShapes' = (staticShapes \ ShapesOf(W)) \cup (IF isStatic THEN {s} ELSE {})
      /\ constraints' = RestoredConstraints(W)
      /\ arbiters' = RestoredArbiters(W)
      /\ cached' = RestoredCached(W)
      /\ arb' = RestoredArb(W)
      /\ broken' = broken \cup ActivateErrors(W)
      /\ \E T : touching' = touching \cup T /\ \A p \in T : p \ {s} \subseteq Added
      /\ UNCHANGED <<phase, todo, rousedBodies, bodyType, inSpace, staticBodies, joints, threaded>>
  BY DEF SpaceAddShape, UserCall, placeVars
<1>2. /\ TypeOK /\ rousedBodies = {} /\ arbiters \subseteq threaded /\ broken = {} /\ Rested
      /\ Core(root, sleepingComponents, rousedBodies) /\ b \in Body
  BY <1>1, IdentityAssumption DEF SleepInv, Progress
<1>3. RestoredArbiters(W) \subseteq threaded
  BY <1>2, Selections DEF RestoredArbiters
<1>4. \A x \in Body : bodyType'[x] = "dynamic" \/ idleTime'[x] = 0
  BY <1>1, <1>2, WokenIdle DEF Rested
<1>5. ~isStatic => root'[b] = NoBody
  BY <1>1, <1>2, WokenComponents DEF Unsleep, Core, Asleep, IsSleeping, TypeOK
<1> HIDE DEF W, S
<1>6. Places(bodyType, inSpace, staticBodies, dynamicBodies', root', {})
  BY <1>1, <1>2, Wake DEF W
<1>7. b \in dynamicBodies' <=> ~isStatic
  BY <1>1, <1>5, <1>6 DEF Places, Away
<1>8. Index(inSpace', dynamicBodies', dynamicShapes', staticShapes')
  <2>1. Index(inSpace, dynamicBodies \cup W, dynamicShapes \cup ShapesOf(W),
              staticShapes \ ShapesOf(W))
    BY <1>1, <1>2, Wake DEF W
  <2> QED
    BY <1>1, <1>7, <2>1 DEF Index
<1>9. OnShapes(threaded \cup cached' \cup touching', dynamicShapes', staticShapes')
  <2>1. /\ OnShapes(threaded \cup RestoredCached(W) \cup touching,
                    dynamicShapes \cup ShapesOf(W), staticShapes \ ShapesOf(W))
        /\ Added = (dynamicShapes \cup ShapesOf(W)) \cup (staticShapes \ ShapesOf(W))
    BY <1>1, <1>2, Wake DEF W
  <2>2. dynamicShapes' \cup staticShapes' = Added \cup {s}
    BY <1>1, <2>1
  <2> QED
    BY <1>1, <2>1, <2>2 DEF OnShapes
<1> QED
  BY <1>1, <1>2, <1>3, <1>4, <1>6, <1>8, <1>9, Wake, UserStep DEF W

\* While nobody is roused, what the bodies S wake own is what they touch.
LEMMA WokenOwn ==
  ASSUME TypeOK, Core(root, sleepingComponents, {}), rousedBodies = {}, NEW S
  PROVE  Owned(Woken(S)) = {p \in threaded : Bodies(p) \cap Woken(S) # {}}
<1>1. /\ Woken(S) \subseteq Asleep
      /\ \A b \in Woken(S) : \A x \in Body : root[x] = root[b] => x \in Woken(S)
  BY WokenComponents DEF Core
<1>2. \A b \in Woken(S) : bodyType[b] # "static" /\ root[b] # NoBody
  BY <1>1 DEF Core, Places, Away, Asleep, IsSleeping
<1>3. \A p \in threaded : A(p) \in Bodies(p)
  BY DEF Core, Fields, A
<1>4. \A p \in threaded : Bodies(p) \subseteq Body
  BY BodiesInWorld DEF TypeOK
<1>5. \A p \in threaded : \A b, c \in Bodies(p) :
        b \in Woken(S) => bodyType[c] = "static" \/ c \in Woken(S)
  BY <1>1, <1>2, <1>4 DEF Core, Linkage, Together
<1> HIDE DEF Woken
<1> QED
  BY <1>2, <1>3, <1>5, OwnedMeets

\* cpSpaceRemoveShape() wakes all that rests on the shape, so that each arbiter of
\* the shape that is still linked to a body is in the cache again, and goes.
LEMMA RemoveShapeInv ==
  ASSUME SleepInv, TypeOK', NEW s \in Shape, NEW V, SpaceRemoveShape(s, V) PROVE SleepInv'
<1> DEFINE b == BodyOf[s]
           S == IF bodyType[b] = "static"
                THEN UNION {Bodies(p) \ {b} : p \in {q \in threaded : s \in q}}
                ELSE {b}
           F == {p \in RestoredCached(Woken(S)) : s \in p}
           W == Woken(S \cup V)
<1>1. /\ phase = "user" /\ Unsleep(S \cup V)
      /\ dynamicBodies' = dynamicBodies \cup W
      /\ dynamicShapes' = (dynamicShapes \cup ShapesOf(W)) \ {s}
      /\ staticShapes' = (staticShapes \ ShapesOf(W)) \ {s}
      /\ constraints' = RestoredConstraints(W)
      /\ arbiters' = RestoredArbiters(W) \ F
      /\ cached' = RestoredCached(W) \ F
      /\ threaded' = threaded \ F
      /\ arb' = [p \in Pair |-> IF p \in F THEN Pooled ELSE RestoredArb(W)[p]]
      /\ touching' = {p \in touching : s \notin p}
      /\ broken' = broken \cup ActivateErrors(W)
      /\ UNCHANGED <<phase, todo, rousedBodies, bodyType, inSpace, staticBodies, joints>>
  BY DEF SpaceRemoveShape, UserCall, placeVars
<1>2. /\ TypeOK /\ rousedBodies = {} /\ arbiters \subseteq threaded /\ broken = {} /\ Rested
      /\ Core(root, sleepingComponents, {}) /\ b \in Body
  BY <1>1, IdentityAssumption DEF SleepInv, Progress
<1>3. RestoredArbiters(W) \subseteq threaded
  BY <1>2, Selections DEF RestoredArbiters
<1>4. \A x \in Body : bodyType'[x] = "dynamic" \/ idleTime'[x] = 0
  BY <1>1, <1>2, WokenIdle DEF Rested
<1>5. \A p \in threaded : s \in p => p \in F
  <2> SUFFICES ASSUME NEW p \in threaded, s \in p, p \notin cached
               PROVE  Bodies(p) \cap Woken(S) # {}
    BY <1>2, WokenOwn DEF RestoredCached
  <2>1. PICK c \in Bodies(p) : c \in Asleep /\ bodyType[c] = "dynamic"
    BY <1>2 DEF Core, Linkage, Away, Places, Asleep, IsSleeping
  <2>2. b \in Bodies(p)
    BY DEF Bodies
  <2>3. \A x \in S : x \in Asleep => x \in Woken(S)
    BY <1>2, WokenComponents DEF Core
  <2>4. CASE bodyType[b] = "static"
    <3>1. c \in S
      BY <2>1, <2>4
    <3> QED
      BY <2>1, <2>3, <3>1
  <2>5. CASE bodyType[b] # "static"
    <3>1. root[b] = root[c] /\ root[c] # NoBody
      BY <1>2, <2>1, <2>2, <2>5 DEF Core, Linkage, Together, Asleep, IsSleeping
    <3>2. b \in Asleep
      BY <1>2, <3>1 DEF Asleep, IsSleeping
    <3> QED
      BY <2>2, <2>3, <2>5, <3>2
  <2> QED
    BY <2>4, <2>5
<1>6. F \subseteq Pair
  BY <1>2, RestoredType
<1> HIDE DEF S, F, W
<1>7. Linkage(bodyType, root', {}, threaded', cached')
  <2>1. Linkage(bodyType, root', {}, threaded, RestoredCached(W))
    BY <1>1, <1>2, Wake DEF W
  <2> QED
    BY <1>1, <2>1 DEF Linkage
<1>8. Fields(threaded', cached', arbiters', arb')
  <2>1. Fields(threaded, RestoredCached(W), RestoredArbiters(W), RestoredArb(W))
    BY <1>1, <1>2, Wake DEF W
  <2>2. threaded \subseteq Pair /\ RestoredCached(W) \subseteq Pair /\ RestoredArbiters(W) \subseteq Pair
    BY <1>2, RestoredType DEF TypeOK
  <2>3. \A p \in Pair : p \notin F => arb'[p] = RestoredArb(W)[p]
    BY <1>1
  <2>4. \A p \in F : arb'[p].contacts # "heap"
    BY <1>1, <1>6 DEF Pooled
  <2> QED
    BY <1>1, <1>6, <2>1, <2>2, <2>3, <2>4 DEF Fields
<1>9. Index(inSpace', dynamicBodies', dynamicShapes', staticShapes')
  <2>1. Index(inSpace, dynamicBodies \cup W, dynamicShapes \cup ShapesOf(W),
              staticShapes \ ShapesOf(W))
    BY <1>1, <1>2, Wake DEF W
  <2> QED
    BY <1>1, <2>1 DEF Index
<1>10. OnShapes(threaded' \cup cached' \cup touching', dynamicShapes', staticShapes')
  <2>1. OnShapes(threaded \cup RestoredCached(W) \cup touching,
                 dynamicShapes \cup ShapesOf(W), staticShapes \ ShapesOf(W))
    BY <1>1, <1>2, Wake DEF W
  <2>2. \A p \in threaded' \cup cached' \cup touching' : s \notin p
    <3>1. \A p \in RestoredCached(W) : p \in cached \/ p \in threaded
      BY <1>2, Selections DEF RestoredCached
    <3>2. \A p \in cached : s \in p => p \in F
      BY DEF F, RestoredCached
    <3> QED
      BY <1>1, <1>5, <3>1, <3>2
  <2> QED
    BY <1>1, <2>1, <2>2 DEF OnShapes
<1>11. arbiters' \subseteq threaded'
  BY <1>1, <1>3
<1>12. /\ Places(bodyType, inSpace, staticBodies, dynamicBodies', root', {})
       /\ Roots(root', sleepingComponents')
       /\ Joined(bodyType, inSpace, root', {}, joints, constraints')
       /\ ActivateErrors(W) = {}
  BY <1>1, <1>2, Wake DEF W
<1> QED
  BY <1>1, <1>2, <1>4, <1>7, <1>8, <1>9, <1>10, <1>11, <1>12, UserStep

\* cpSpaceAddConstraint() and cpSpaceRemoveConstraint(): both ends are awake.
LEMMA ChangeJointsInv ==
  ASSUME SleepInv, TypeOK', NEW j \in Joint, SpaceAddConstraint(j) \/ SpaceRemoveConstraint(j)
  PROVE  SleepInv'
<1> DEFINE W == Woken(Ends[j])
<1>1. /\ phase = "user" /\ Unsleep(Ends[j]) /\ ShapesAwake(W)
      /\ dynamicBodies' = dynamicBodies \cup W
      /\ \/ /\ Ends[j] \subseteq inSpace /\ joints' = joints \cup {j}
            /\ constraints' = RestoredConstraints(W) \cup {j}
         \/ joints' = joints \ {j} /\ constraints' = RestoredConstraints(W) \ {j}
      /\ arbiters' = RestoredArbiters(W)
      /\ cached' = RestoredCached(W)
      /\ arb' = RestoredArb(W)
      /\ broken' = broken \cup ActivateErrors(W)
      /\ UNCHANGED <<phase, todo, rousedBodies, bodyType, inSpace, staticBodies, touching,
                     threaded>>
  BY DEF SpaceAddConstraint, SpaceRemoveConstraint, ChangeJoints, UserCall
<1>2. /\ TypeOK /\ rousedBodies = {} /\ arbiters \subseteq threaded /\ broken = {} /\ Rested
      /\ Core(root, sleepingComponents, rousedBodies) /\ Ends[j] \subseteq Body
  BY <1>1, IdentityAssumption DEF SleepInv, Progress
<1>3. RestoredArbiters(W) \subseteq threaded
  BY <1>2, Selections DEF RestoredArbiters
<1>4. \A x \in Body : bodyType'[x] = "dynamic" \/ idleTime'[x] = 0
  BY <1>1, <1>2, WokenIdle DEF Rested
<1>5. \A b \in Ends[j] : root'[b] = NoBody
  BY <1>1, <1>2, WokenComponents DEF Unsleep, Core, Asleep, IsSleeping, TypeOK
<1> HIDE DEF W
<1>6. Joined(bodyType, inSpace, root', {}, joints', constraints')
  <2>1. Joined(bodyType, inSpace, root', {}, joints, RestoredConstraints(W))
    BY <1>1, <1>2, Wake DEF W
  <2>2. Ends[j] \cap Away(root', {}) = {} /\ Together(bodyType, root', {}, Ends[j])
    BY <1>5 DEF Away, Together
  <2> QED
    BY <1>1, <2>1, <2>2 DEF Joined
<1> QED
  BY <1>1, <1>2, <1>3, <1>4, <1>6, Wake, UserStep DEF ShapesAwake, W

\* cpBodySetType() of a body that nobody asleep relies on.
LEMMA SetTypeInv ==
  ASSUME Careful, SleepInv, TypeOK', NEW b \in Body, NEW type \in Type, BodySetType(b, type)
  PROVE  SleepInv'
<1>1. /\ phase = "user" /\ type # bodyType[b] /\ b \in inSpace /\ ~RestsOn(b)
      /\ bodyType' = [bodyType EXCEPT ![b] = type]
      /\ IF type = "static"
         THEN /\ staticBodies' = staticBodies \cup {b}
              /\ dynamicBodies' = dynamicBodies \ {b}
              /\ staticShapes' = staticShapes \cup ShapesOf({b})
              /\ dynamicShapes' = dynamicShapes \ ShapesOf({b})
              /\ broken' = broken \cup (IF ShapesOf({b}) \subseteq dynamicShapes THEN {}
                                       ELSE {"removes a shape that is not in the index"})
         ELSE IF bodyType[b] = "static"
         THEN /\ staticBodies' = staticBodies \ {b}
              /\ dynamicBodies' = dynamicBodies \cup {b}
              /\ staticShapes' = staticShapes \ ShapesOf({b})
              /\ dynamicShapes' = dynamicShapes \cup ShapesOf({b})
              /\ broken' = broken
         ELSE /\ staticBodies' = staticBodies /\ dynamicBodies' = dynamicBodies
              /\ staticShapes' = staticShapes /\ dynamicShapes' = dynamicShapes
              /\ broken' = broken
      /\ UNCHANGED <<phase, todo, rousedBodies, inSpace, root, sleepingComponents, constraints,
                     joints, touching, arbiters, cached, arb, threaded>>
  BY DEF BodySetType, UserCall, Careful, arbVars, indexVars
<1>2. /\ TypeOK /\ rousedBodies = {} /\ arbiters \subseteq threaded /\ broken = {} /\ Rested
      /\ Core(root, sleepingComponents, {})
  BY <1>1 DEF SleepInv, Progress
<1>3. \A x \in Body : bodyType'[x] = "dynamic" \/ idleTime'[x] = 0
  <2>1. PICK reset : b \in reset
                     /\ idleTime' = [x \in Body |-> IF x \in reset THEN 0 ELSE idleTime[x]]
    BY Zenon DEF BodySetType
  <2> QED
    BY <1>1, <1>2, <2>1 DEF Rested, TypeOK
<1>4. root[b] = NoBody
  BY <1>1 DEF RestsOn, IsSleeping
<1>5. Places(bodyType', inSpace, staticBodies', dynamicBodies', root, {})
  <2>1. /\ bodyType'[b] = type /\ \A x \in Body : x # b => bodyType'[x] = bodyType[x]
        /\ inSpace \subseteq Body
    BY <1>1, <1>2 DEF TypeOK
  <2>2. /\ inSpace = dynamicBodies \cup staticBodies \cup Away(root, {})
        /\ staticBodies = {x \in inSpace : bodyType[x] = "static"}
        /\ dynamicBodies \cap staticBodies = {} /\ dynamicBodies \cap Away(root, {}) = {}
        /\ \A x \in Away(root, {}) : bodyType[x] = "dynamic" /\ x # b
        /\ Away(root, {}) \subseteq Body
    BY <1>2, <1>4 DEF Core, Places, Away
  <2>3. CASE type = "static"
    BY <1>1, <2>1, <2>2, <2>3, ZenonT(60) DEF Places
  <2>4. CASE type # "static" /\ bodyType[b] = "static"
    BY <1>1, <2>1, <2>2, <2>4 DEF Places
  <2>5. CASE type # "static" /\ bodyType[b] # "static"
    BY <1>1, <2>1, <2>2, <2>5 DEF Places
  <2> QED
    BY <2>3, <2>4, <2>5
<1>6. /\ Index(inSpace, dynamicBodies', dynamicShapes', staticShapes')
      /\ dynamicShapes' \cup staticShapes' = Added
      /\ type = "static" => ShapesOf({b}) \subseteq dynamicShapes
  <2>1. bodyType[b] # "static" => b \in dynamicBodies
    BY <1>1, <1>2, <1>4 DEF Core, Places, Away
  <2>2. /\ Index(inSpace, dynamicBodies, dynamicShapes, staticShapes)
        /\ ShapesOf({b}) = {s \in dynamicShapes \cup staticShapes : BodyOf[s] = b}
    BY <1>2 DEF Core, ShapesOf, Added
  <2>3. CASE type = "static"
    BY <1>1, <2>1, <2>2, <2>3 DEF Index, Added
  <2>4. CASE type # "static" /\ bodyType[b] = "static"
    BY <1>1, <2>2, <2>4 DEF Index, Added
  <2>5. CASE type # "static" /\ bodyType[b] # "static"
    BY <1>1, <2>2, <2>5 DEF Index, Added
  <2> QED
    BY <2>3, <2>4, <2>5
<1>7. \A p \in threaded : Together(bodyType', root, {}, Bodies(p))
  <2> SUFFICES ASSUME NEW p \in threaded, NEW x \in Bodies(p), NEW c \in Bodies(p),
                      bodyType'[c] # "static", root[x] # NoBody
               PROVE  root[c] = root[x]
    BY DEF Together
  <2>1. CASE c = b
    <3>1. x # b => x \in Neighbours(b)
      BY <2>1 DEF Neighbours
    <3> QED
      BY <1>1, <1>4, <3>1 DEF RestsOn, IsSleeping
  <2>2. CASE c # b
    <3>1. x \in Body /\ c \in Body
      BY <1>2, BodiesInWorld DEF TypeOK
    <3> QED
      BY <1>1, <1>2, <2>2, <3>1 DEF Core, Linkage, Together, TypeOK
  <2> QED
    BY <2>1, <2>2
<1>8. \A j \in joints : Together(bodyType', root, {}, Ends[j])
  <2> SUFFICES ASSUME NEW j \in joints, NEW x \in Ends[j], NEW c \in Ends[j],
                      bodyType'[c] # "static", root[x] # NoBody
               PROVE  root[c] = root[x]
    BY DEF Together
  <2>1. CASE c = b
    BY <1>1, <2>1 DEF RestsOn, IsSleeping
  <2>2. CASE c # b
    <3>1. x \in Body /\ c \in Body
      BY <1>2, IdentityAssumption DEF TypeOK
    <3> QED
      BY <1>1, <1>2, <2>2, <3>1, ZenonT(60) DEF Core, Joined, Together, TypeOK
  <2> QED
    BY <2>1, <2>2
<1>9. /\ Linkage(bodyType', root, {}, threaded, cached)
      /\ Joined(bodyType', inSpace, root, {}, joints, constraints)
  BY <1>2, <1>7, <1>8 DEF Core, Linkage, Joined
<1>10. OnShapes(threaded \cup cached \cup touching, dynamicShapes', staticShapes')
  BY <1>2, <1>6 DEF Core, OnShapes, Added
<1>11. broken' = {}
  BY <1>1, <1>2, <1>6
<1>12. /\ phase = "user" /\ UNCHANGED <<phase, todo, rousedBodies>> /\ arbiters' \subseteq threaded'
       /\ UNCHANGED <<inSpace, root, sleepingComponents, constraints, joints, touching,
                      arbiters, cached, arb, threaded>>
  BY <1>1, <1>2
<1> QED
  BY <1>2, <1>3, <1>5, <1>6, <1>9, <1>10, <1>11, <1>12, UserStep DEF Core

-----------------------------------------------------------------------------
(* Falling asleep                                                             *)

\* Bodies W that fall asleep with all they touch or are joined to: they leave the
\* lists with their arbiters, joints and shapes.
LEMMA FallAsleep ==
  ASSUME TypeOK, Core(root, sleepingComponents, {}), NEW W, W \subseteq dynamicBodies,
         \A b \in W : bodyType[b] = "dynamic",
         DeactivateBodies(W),
         \A b \in Body : IF b \in W THEN root'[b] \in Body ELSE root'[b] = root[b],
         \A p \in threaded : \A b, c \in Bodies(p) :
           b \in W => bodyType[c] = "static" \/ (c \in W /\ root'[c] = root'[b]),
         \A j \in joints : \A b, c \in Ends[j] :
           b \in W => bodyType[c] = "static" \/ (c \in W /\ root'[c] = root'[b])
  PROVE  /\ Places(bodyType, inSpace, staticBodies, dynamicBodies', root', {})
         /\ Index(inSpace, dynamicBodies', dynamicShapes', staticShapes')
         /\ Joined(bodyType, inSpace, root', {}, joints, constraints')
         /\ Linkage(bodyType, root', {}, threaded, cached')
         /\ Fields(threaded, cached', arbiters', arb')
         /\ OnShapes(threaded \cup cached' \cup touching, dynamicShapes', staticShapes')
         /\ arbiters' = arbiters \ Owned(W)
<1> DEFINE O == Owned(W)
           J == OwnedJoints(W)
<1>1. /\ dynamicBodies' = dynamicBodies \ W
      /\ dynamicShapes' = dynamicShapes \ ShapesOf(W)
      /\ staticShapes' = staticShapes \cup ShapesOf(W)
      /\ constraints' = constraints \ J
      /\ arbiters' = arbiters \ O
      /\ cached' = cached \ O
      /\ arb' = [p \in Pair |-> IF p \in O THEN [arb[p] EXCEPT !.contacts = "heap", !.bufAge = 0]
                                ELSE arb[p]]
  BY DEF DeactivateBodies
<1>2. /\ O = {p \in threaded : Bodies(p) \cap W # {}}
      /\ J = {j \in joints : Ends[j] \cap W # {}}
  <2>1. \A p \in threaded : A(p) \in Bodies(p)
    BY DEF Core, Fields, A
  <2>2. \A b \in W : bodyType[b] # "static"
    OBVIOUS
  <2>3. /\ \A p \in threaded : \A b, c \in Bodies(p) : b \in W => bodyType[c] = "static" \/ c \in W
        /\ \A j \in joints : \A b, c \in Ends[j] : b \in W => bodyType[c] = "static" \/ c \in W
    OBVIOUS
  <2> QED
    BY <2>1, <2>2, <2>3, OwnedMeets, OwnedJointsMeet
<1>3. /\ W \subseteq Body /\ NoBody \notin Body
      /\ Away(root', {}) = Away(root, {}) \cup W /\ Away(root, {}) \cap W = {}
      /\ \A b \in Body : b \notin Away(root, {}) <=> root[b] = NoBody
  BY IdentityAssumption DEF TypeOK, Away, Core, Places
<1> HIDE DEF O, J
<1>4. Places(bodyType, inSpace, staticBodies, dynamicBodies', root', {})
  BY <1>1, <1>3 DEF Core, Places
<1>5. Index(inSpace, dynamicBodies', dynamicShapes', staticShapes')
  BY <1>1, <1>3 DEF Core, Index, ShapesOf, Added, Places
<1>6. ASSUME NEW E, E \subseteq Body, Together(bodyType, root, {}, E),
             \A b, c \in E : b \in W => bodyType[c] = "static" \/ (c \in W /\ root'[c] = root'[b])
      PROVE  Together(bodyType, root', {}, E)
  <2> SUFFICES ASSUME NEW b \in E, NEW c \in E, bodyType[c] # "static", root'[b] # NoBody
               PROVE  root'[c] = root'[b]
    BY DEF Together
  <2>1. CASE b \in W
    BY <1>6, <2>1
  <2>2. CASE b \notin W
    <3>1. root[c] = root[b] /\ root[b] # NoBody
      BY <1>6, <2>2 DEF Together
    <3> QED
      BY <1>3, <1>6, <2>2, <3>1
  <2> QED
    BY <2>1, <2>2
<1>7. Joined(bodyType, inSpace, root', {}, joints, constraints')
  <2>1. ASSUME NEW j \in joints
        PROVE  /\ Ends[j] \subseteq inSpace
               /\ Together(bodyType, root', {}, Ends[j])
               /\ (j \in constraints') <=> (Ends[j] \cap Away(root', {}) = {})
    <3>1. /\ Ends[j] \subseteq inSpace /\ inSpace \subseteq Body
          /\ Together(bodyType, root, {}, Ends[j])
          /\ (j \in constraints) <=> (Ends[j] \cap Away(root, {}) = {})
      BY DEF Core, Joined, TypeOK
    <3> QED
      BY <1>1, <1>2, <1>3, <1>6, <3>1
  <2> QED
    BY <1>1, <2>1 DEF Core, Joined
<1>8. Linkage(bodyType, root', {}, threaded, cached')
  <2> SUFFICES ASSUME NEW p \in threaded
               PROVE  /\ Together(bodyType, root', {}, Bodies(p))
                      /\ (p \in cached') <=> (Bodies(p) \cap Away(root', {}) = {})
    BY DEF Linkage
  <2>1. /\ Bodies(p) \subseteq Body
        /\ Together(bodyType, root, {}, Bodies(p))
        /\ (p \in cached) <=> (Bodies(p) \cap Away(root, {}) = {})
    BY BodiesInWorld DEF Core, Linkage, TypeOK
  <2> QED
    BY <1>1, <1>2, <1>3, <1>6, <2>1
<1>9. Fields(threaded, cached', arbiters', arb')
  <2>1. \A p \in Pair : arb[p] \in ArbRecord
    BY DEF TypeOK, ArbRecord
  <2>2. \A p \in Pair : /\ arb'[p].a = arb[p].a
                        /\ p \in O => arb'[p].contacts = "heap"
                        /\ p \notin O => arb'[p] = arb[p]
    BY <1>1, <2>1, ZenonT(60) DEF ArbRecord
  <2>3. threaded \subseteq Pair /\ cached \subseteq Pair /\ O \subseteq threaded
    BY <1>2 DEF TypeOK
  <2> QED
    BY <1>1, <2>2, <2>3 DEF Core, Fields
<1>10. OnShapes(threaded \cup cached' \cup touching, dynamicShapes', staticShapes')
  BY <1>1 DEF Core, OnShapes
<1> QED
  BY <1>1, <1>4, <1>5, <1>7, <1>8, <1>9, <1>10 DEF O

\* cpBodySleepWithGroup() of a body that shares nothing with another that is not
\* static.
LEMMA BodySleepInv ==
  ASSUME Careful, SleepInv, TypeOK', NEW b \in Body, NEW group \in Body \cup {NoBody},
         BodySleepWithGroup(b, group)
  PROVE  SleepInv'
<1>1. /\ phase = "user" /\ bodyType[b] = "dynamic" /\ b \in dynamicBodies
      /\ group # NoBody => IsSleeping(group)
      /\ ~Attached(b) /\ DeactivateBodies({b})
      /\ root' = [root EXCEPT ![b] = IF group = NoBody THEN b ELSE root[group]]
      /\ sleepingComponents' = sleepingComponents \cup (IF group = NoBody THEN {b} ELSE {})
      /\ idleTime' = [idleTime EXCEPT ![b] = 0]
      /\ UNCHANGED <<phase, todo, rousedBodies, bodyType, inSpace, staticBodies, joints,
                     touching, threaded, broken>>
  BY DEF BodySleepWithGroup, UserCall, Careful, placeVars
<1>2. /\ TypeOK /\ rousedBodies = {} /\ arbiters \subseteq threaded /\ broken = {} /\ Rested
      /\ Core(root, sleepingComponents, {}) /\ NoBody \notin Body
  BY <1>1, IdentityAssumption DEF SleepInv, Progress
<1>3. \A x \in Body : bodyType'[x] = "dynamic" \/ idleTime'[x] = 0
  BY <1>1, <1>2 DEF Rested, TypeOK
<1>4. root[b] = NoBody /\ root \in [Body -> Body \cup {NoBody}]
  BY <1>1, <1>2 DEF Core, Places, Away, TypeOK
<1>5. group # NoBody => root[group] \in Body
  BY <1>1, <1>4 DEF IsSleeping
<1>6. Roots(root', sleepingComponents')
  BY <1>1, <1>2, <1>4, <1>5 DEF Core, Roots, IsSleeping
<1>7. \A x \in Body : IF x \in {b} THEN root'[x] \in Body ELSE root'[x] = root[x]
  BY <1>1, <1>4, <1>5
<1>8. /\ \A p \in threaded : \A x, c \in Bodies(p) :
           x \in {b} => bodyType[c] = "static" \/ (c \in {b} /\ root'[c] = root'[x])
      /\ \A j \in joints : \A x, c \in Ends[j] :
           x \in {b} => bodyType[c] = "static" \/ (c \in {b} /\ root'[c] = root'[x])
  BY <1>1 DEF Attached
<1>9. /\ Places(bodyType, inSpace, staticBodies, dynamicBodies', root', {})
      /\ Index(inSpace, dynamicBodies', dynamicShapes', staticShapes')
      /\ Joined(bodyType, inSpace, root', {}, joints, constraints')
      /\ Linkage(bodyType, root', {}, threaded, cached')
      /\ Fields(threaded, cached', arbiters', arb')
      /\ OnShapes(threaded \cup cached' \cup touching, dynamicShapes', staticShapes')
      /\ arbiters' \subseteq arbiters
  BY <1>1, <1>2, <1>7, <1>8, FallAsleep, ZenonT(60)
<1> QED
  BY <1>1, <1>2, <1>3, <1>6, <1>9, UserStep

-----------------------------------------------------------------------------
(* The components that FloodFillComponent() finds                             *)

LEMMA LinkedSymmetric == \A b, c \in Body : Linked(b, c) => Linked(c, b)
BY DEF Linked

LEMMA FloodedClosed ==
  ASSUME NEW b \in Body
  PROVE  /\ b \in Flooded(b) /\ Flooded(b) \subseteq Body
         /\ Closed(Flooded(b))
         /\ \A C \in SUBSET Body : b \in C /\ Closed(C) => Flooded(b) \subseteq C
BY DEF Flooded, Closed

\* They are disjoint: the component of a body is that of each of its members.
LEMMA FloodedSame ==
  ASSUME NEW b \in Body, NEW x \in Flooded(b)
  PROVE  Flooded(x) = Flooded(b)
<1>1. x \in Body /\ Flooded(b) \subseteq Body /\ Closed(Flooded(b)) /\ b \in Flooded(b)
  BY FloodedClosed
<1>2. Flooded(x) \subseteq Flooded(b)
  BY <1>1, FloodedClosed
<1>3. /\ x \in Flooded(x) /\ Closed(Flooded(x)) /\ Flooded(x) \subseteq Body
  BY <1>1, FloodedClosed
<1>4. b \in Flooded(x)
  <2> SUFFICES ASSUME b \notin Flooded(x) PROVE FALSE
    OBVIOUS
  <2> DEFINE C == Flooded(b) \ Flooded(x)
  <2>1. C \in SUBSET Body /\ b \in C /\ x \notin C
    BY <1>1, <1>3
  <2>2. ASSUME NEW y \in C, NEW c \in Body, Linked(y, c) PROVE c \in C
    <3>1. c \in Flooded(b)
      BY <1>1, <2>2 DEF Closed
    <3>2. c \notin Flooded(x)
      BY <1>1, <1>3, <2>2, LinkedSymmetric DEF Closed
    <3> QED
      BY <3>1, <3>2
  <2>3. Closed(C)
    BY <2>2 DEF Closed
  <2> QED
    BY <2>1, <2>3, FloodedClosed
<1>5. Flooded(b) \subseteq Flooded(x)
  BY <1>1, <1>3, <1>4, FloodedClosed
<1> QED
  BY <1>2, <1>5

\* What shares something with an awake body that is not static is awake too.
LEMMA AwakeTogether ==
  ASSUME TypeOK, Core(root, sleepingComponents, {})
  PROVE  /\ \A p \in threaded : \A b, c \in Bodies(p) :
              b \in dynamicBodies => bodyType[c] = "static" \/ c \in dynamicBodies
         /\ \A j \in joints : \A b, c \in Ends[j] :
              b \in dynamicBodies =>
                /\ bodyType[c] = "static" \/ c \in dynamicBodies
                /\ j \in constraints
<1>1. /\ \A b \in dynamicBodies : root[b] = NoBody /\ bodyType[b] # "static"
      /\ \A b \in inSpace : b \in dynamicBodies \/ bodyType[b] = "static" \/ root[b] # NoBody
      /\ Away(root, {}) = {b \in Body : root[b] # NoBody}
  BY DEF Core, Places, Away, TypeOK
<1>2. ASSUME NEW p \in threaded, NEW b \in Bodies(p), NEW c \in Bodies(p), b \in dynamicBodies
      PROVE  bodyType[c] = "static" \/ c \in dynamicBodies
  <2>1. c \in inSpace
    BY DEF Core, OnShapes, Index, Places, Bodies
  <2>2. root[c] # NoBody => root[b] = root[c]
    BY <1>1, <1>2 DEF Core, Linkage, Together
  <2> QED
    BY <1>1, <1>2, <2>1, <2>2
<1>3. ASSUME NEW j \in joints, NEW b \in Ends[j], NEW c \in Ends[j], b \in dynamicBodies
      PROVE  root[c] = NoBody /\ (bodyType[c] = "static" \/ c \in dynamicBodies)
  <2>1. c \in inSpace
    BY DEF Core, Joined
  <2>2. root[c] # NoBody => root[b] = root[c]
    BY <1>1, <1>3 DEF Core, Joined, Together
  <2> QED
    BY <1>1, <1>3, <2>1, <2>2
<1>4. ASSUME NEW j \in joints, NEW b \in Ends[j], b \in dynamicBodies
      PROVE  j \in constraints
  BY <1>1, <1>3, <1>4 DEF Core, Joined
<1> QED
  BY <1>2, <1>3, <1>4

LEMMA FloodedAwake ==
  ASSUME TypeOK, Core(root, sleepingComponents, {}), NEW b \in dynamicBodies
  PROVE  /\ Flooded(b) \subseteq dynamicBodies
         /\ \A x \in Flooded(b) : x = b \/ bodyType[x] = "dynamic"
<1>1. dynamicBodies \subseteq Body
  BY DEF TypeOK
<1>2. Closed(dynamicBodies)
  BY AwakeTogether DEF Closed, Linked
<1>3. Closed({x \in Body : x = b \/ bodyType[x] = "dynamic"})
  BY DEF Closed, Linked
<1> QED
  BY <1>1, <1>2, <1>3, FloodedClosed

\* the components that ProcessComponents puts to sleep
Sleepers ==
  {C \in {Flooded(b) : b \in dynamicBodies} : \A b \in C : idleTime[b] >= SleepTimeThreshold}

\* They are disjoint, and of awake dynamic bodies that nothing keeps awake.
LEMMA SleepersDisjoint ==
  ASSUME Careful, SleepInv, rousedBodies = {}
  PROVE  \A C \in Sleepers : \A x \in C :
           x \in dynamicBodies /\ C = Flooded(x) /\ idleTime[x] # 0 /\ bodyType[x] = "dynamic"
<1> SUFFICES ASSUME NEW b \in dynamicBodies,
                    \A y \in Flooded(b) : idleTime[y] >= SleepTimeThreshold,
                    NEW x \in Flooded(b)
             PROVE  /\ x \in dynamicBodies /\ Flooded(b) = Flooded(x)
                    /\ idleTime[x] # 0 /\ bodyType[x] = "dynamic"
  BY DEF Sleepers
<1>1. /\ TypeOK /\ Rested /\ Core(root, sleepingComponents, {})
      /\ dynamicBodies \subseteq Body /\ idleTime \in [Body -> 0..SleepTimeThreshold]
      /\ SleepTimeThreshold \in Nat \ {0}
  BY ParameterAssumption DEF SleepInv, TypeOK, Careful
<1>2. x \in dynamicBodies /\ Flooded(b) = Flooded(x)
  BY <1>1, FloodedAwake, FloodedSame
<1>3. idleTime[x] # 0
  BY <1>1, <1>2
<1>4. bodyType[x] = "dynamic"
  BY <1>1, <1>2, <1>3 DEF Rested
<1> QED
  BY <1>2, <1>3, <1>4

\* Each gets the body that the loop met first for root.
LEMMA SleepersRooted ==
  ASSUME Careful, SleepInv, ProcessComponents
  PROVE  \E first \in [Sleepers -> dynamicBodies] :
           /\ \A C \in Sleepers : first[C] \in C
           /\ sleepingComponents' = sleepingComponents \cup {first[C] : C \in Sleepers}
           /\ \A b \in Body : b \notin UNION Sleepers => root'[b] = root[b]
           /\ \A C \in Sleepers : \A b \in C : root'[b] = first[C]
<1>1. PICK first \in [Sleepers -> dynamicBodies] :
        /\ \A C \in Sleepers : first[C] \in C
        /\ root' = [b \in Body |-> IF b \in UNION Sleepers
                                   THEN first[CHOOSE C \in Sleepers : b \in C] ELSE root[b]]
        /\ sleepingComponents' = sleepingComponents \cup {first[C] : C \in Sleepers}
  BY Zenon DEF ProcessComponents, Sleepers
<1>2. rousedBodies = {} /\ dynamicBodies \subseteq Body
  BY DEF ProcessComponents, InStep, SleepInv, Progress, TypeOK
<1>3. \A C \in Sleepers : \A b \in C :
        b \in Body /\ (CHOOSE D \in Sleepers : b \in D) = C
  BY <1>2, SleepersDisjoint
<1> QED
  BY <1>1, <1>3

\* cpSpaceProcessComponents() puts whole components to sleep, none of which
\* touches a kinematic body.
LEMMA ProcessComponentsInv ==
  ASSUME Careful, SleepInv, TypeOK', ProcessComponents PROVE SleepInv'
<1> DEFINE sleepers == Sleepers
           W == UNION sleepers
<1>1. PICK first \in [sleepers -> dynamicBodies] :
        /\ \A C \in sleepers : first[C] \in C
        /\ sleepingComponents' = sleepingComponents \cup {first[C] : C \in sleepers}
        /\ \A b \in Body : b \notin W => root'[b] = root[b]
        /\ \A C \in sleepers : \A b \in C : root'[b] = first[C]
  BY SleepersRooted
<1>2. /\ phase = "components" /\ DeactivateBodies(W) /\ phase' = "filter" /\ todo' = cached'
      /\ broken' = broken \cup DeactivateErrors(W)
                   \cup (IF \E b \in dynamicBodies : \E x \in Flooded(b) : IsSleeping(x)
                         THEN {"inconsistent contact graph"} ELSE {})
      /\ UNCHANGED <<bodyType, inSpace, staticBodies, joints, idleTime, rousedBodies, touching,
                     threaded>>
  BY Zenon DEF ProcessComponents, InStep, placeVars, Sleepers
<1>3. /\ TypeOK /\ rousedBodies = {} /\ arbiters \subseteq threaded /\ broken = {} /\ Rested
      /\ HeldByContact /\ HeldByJoint /\ Core(root, sleepingComponents, {})
  BY <1>2 DEF SleepInv, Progress
<1>4. dynamicBodies \subseteq Body /\ \A b \in dynamicBodies : root[b] = NoBody
  BY <1>3 DEF Core, Places, Away, TypeOK
<1>5. \A C \in sleepers : \A x \in C :
        x \in dynamicBodies /\ C = Flooded(x) /\ idleTime[x] # 0 /\ bodyType[x] = "dynamic"
  BY <1>3, SleepersDisjoint
<1>6. \A C \in sleepers : \A x \in C : \A c \in Body : Linked(x, c) => c \in C
  BY <1>4, <1>5, FloodedClosed DEF Closed
<1> HIDE DEF sleepers
<1>7. \A x \in W : /\ x \in dynamicBodies /\ idleTime[x] # 0 /\ bodyType[x] = "dynamic"
                   /\ Flooded(x) \in sleepers /\ root'[x] = first[Flooded(x)]
  BY <1>1, <1>4, <1>5
<1>8. \A x, c \in Body : x \in W /\ Linked(x, c) => c \in W /\ root'[c] = root'[x]
  <2> SUFFICES ASSUME NEW C \in sleepers, NEW x \in C, NEW c \in Body, Linked(x, c)
               PROVE  c \in W /\ root'[c] = root'[x]
    OBVIOUS
  <2>1. c \in C
    BY <1>6
  <2>2. Flooded(c) = C /\ Flooded(x) = C
    BY <1>5, <2>1
  <2> QED
    BY <1>7, <2>1, <2>2
<1>9. \A p \in threaded : \A b, c \in Bodies(p) :
        b \in W => bodyType[c] = "static" \/ (c \in W /\ root'[c] = root'[b])
  <2> SUFFICES ASSUME NEW p \in threaded, NEW b \in Bodies(p), NEW c \in Bodies(p), b \in W,
                      bodyType[c] # "static"
               PROVE  c \in W /\ root'[c] = root'[b]
    OBVIOUS
  <2>1. b \in Body /\ c \in Body /\ bodyType[c] \in Type
    BY <1>3, BodiesInWorld DEF TypeOK
  <2>2. bodyType[c] # "kinematic"
    BY <1>3, <1>7 DEF HeldByContact, Held
  <2>3. Linked(b, c)
    BY <1>7, <2>1, <2>2 DEF Linked, Type
  <2> QED
    BY <1>8, <2>1, <2>3
<1>10. \A j \in joints : \A b, c \in Ends[j] :
        b \in W => bodyType[c] = "static" \/ (c \in W /\ root'[c] = root'[b])
  <2> SUFFICES ASSUME NEW j \in joints, NEW b \in Ends[j], NEW c \in Ends[j], b \in W,
                      bodyType[c] # "static"
               PROVE  c \in W /\ root'[c] = root'[b]
    OBVIOUS
  <2>1. b \in Body /\ c \in Body /\ bodyType[c] \in Type
    BY <1>3, IdentityAssumption DEF TypeOK
  <2>2. bodyType[c] # "kinematic"
    BY <1>3, <1>7, AwakeTogether DEF HeldByJoint, Held
  <2>3. Linked(b, c)
    BY <1>7, <2>1, <2>2 DEF Linked, Type
  <2> QED
    BY <1>8, <2>1, <2>3
<1>11. \A b \in Body : IF b \in W THEN root'[b] \in Body ELSE root'[b] = root[b]
  BY <1>1, <1>4, <1>7
<1>12. Roots(root', sleepingComponents')
  <2>1. \A C \in sleepers : root'[first[C]] = first[C] /\ first[C] \in Body
    BY <1>1, <1>4, <1>5, <1>7
  <2>2. \A b \in Body : b \in W => root'[b] \in sleepingComponents'
    BY <1>1, <1>7
  <2>3. /\ sleepingComponents = {b \in Body : root[b] = b}
        /\ \A b \in Body : root[b] # NoBody => root[b] \in sleepingComponents
        /\ sleepingComponents \cap W = {}
    BY <1>3, <1>4, <1>7, IdentityAssumption DEF Core, Roots
  <2>4. sleepingComponents' = {b \in Body : root'[b] = b}
    <3>1. sleepingComponents' \subseteq {b \in Body : root'[b] = b}
      <4>1. \A x \in sleepingComponents : x \in Body /\ root[x] = x /\ x \notin W
        BY <2>3
      <4>2. \A x \in sleepingComponents : x \in Body /\ root'[x] = x
        BY <1>11, <4>1
      <4>3. \A x \in {first[C] : C \in sleepers} : x \in Body /\ root'[x] = x
        BY <2>1
      <4>4. sleepingComponents' = sleepingComponents \cup {first[C] : C \in sleepers}
        BY <1>1
      <4> HIDE DEF W
      <4> QED
        BY <4>2, <4>3, <4>4
    <3>2. {b \in Body : root'[b] = b} \subseteq sleepingComponents'
      BY <1>1, <1>11, <2>2, <2>3
    <3> QED
      BY <3>1, <3>2
  <2>5. \A b \in Body : root'[b] # NoBody => root'[b] \in sleepingComponents'
    BY <1>1, <1>11, <2>2, <2>3
  <2> QED
    BY <2>4, <2>5 DEF Roots
<1>13. broken' = {}
  <2>1. DeactivateErrors(W) = {}
    BY <1>7 DEF DeactivateErrors
  <2>2. ~\E b \in dynamicBodies : \E x \in Flooded(b) : IsSleeping(x)
    BY <1>3, <1>4, FloodedAwake DEF IsSleeping
  <2> QED
    BY <1>2, <1>3, <2>1, <2>2
<1>14. W \subseteq dynamicBodies /\ \A b \in W : bodyType[b] = "dynamic"
  BY <1>7
<1> HIDE DEF W
<1>15. /\ Places(bodyType, inSpace, staticBodies, dynamicBodies', root', {})
       /\ Index(inSpace, dynamicBodies', dynamicShapes', staticShapes')
       /\ Joined(bodyType, inSpace, root', {}, joints, constraints')
       /\ Linkage(bodyType, root', {}, threaded, cached')
       /\ Fields(threaded, cached', arbiters', arb')
       /\ OnShapes(threaded \cup cached' \cup touching, dynamicShapes', staticShapes')
       /\ arbiters' \subseteq arbiters
  BY <1>2, <1>3, <1>9, <1>10, <1>11, <1>14, FallAsleep
<1>16. Core(root, sleepingComponents, rousedBodies)'
  BY <1>2, <1>3, <1>12, <1>15 DEF Core
<1>17. Rested' /\ Progress'
  BY <1>2, <1>3, <1>15 DEF Rested, Progress
<1> QED
  BY <1>13, <1>16, <1>17 DEF SleepInv

-----------------------------------------------------------------------------
(* The other phases of cpSpaceStep()                                          *)

\* The arbiters of awake bodies are unlinked: those still linked are not cached.
LEMMA StepBeginInv ==
  ASSUME SleepInv, TypeOK', StepBegin PROVE SleepInv'
<1>1. /\ phase = "user" /\ phase' = "narrow" /\ arbiters' = {}
      /\ threaded' = threaded \ {p \in arbiters : \A b \in Bodies(p) : ~IsSleeping(b)}
      /\ todo' = {p \in touching' : p \cap dynamicShapes # {}}
      /\ \A p \in touching' : p \in touching \/ p \subseteq Added
      /\ UNCHANGED <<bodyType, inSpace, staticBodies, joints, root, sleepingComponents, idleTime,
                     rousedBodies, dynamicBodies, dynamicShapes, staticShapes, constraints,
                     cached, broken>>
  BY DEF StepBegin, InStep, placeVars, sleepVars, awakeVars, indexVars
<1>2. /\ TypeOK /\ rousedBodies = {} /\ broken = {} /\ Rested
      /\ Core(root, sleepingComponents, {})
  BY <1>1 DEF SleepInv, Progress
<1>3. threaded' \cap cached = {} /\ threaded' \ cached = threaded \ cached
  <2>1. ASSUME NEW p \in threaded \cap cached, NEW b \in Bodies(p) PROVE ~IsSleeping(b)
    <3>1. Bodies(p) \cap Away(root, {}) = {} /\ b \in Body
      BY <1>2, BodiesInWorld DEF Core, Linkage, TypeOK
    <3> QED
      BY <3>1 DEF Away, IsSleeping
  <2>2. threaded \cap cached \subseteq arbiters /\ arbiters \subseteq cached
    BY <1>2 DEF Core, Fields
  <2> QED
    BY <1>1, <2>1, <2>2
<1>4. \A p \in Pair : arb'[p].a = arb[p].a /\ arb'[p].contacts = arb[p].contacts
  <2>1. \A p \in Pair : arb[p] \in ArbRecord
    BY <1>2 DEF TypeOK, ArbRecord
  <2>2. PICK state \in [Pair -> ArbiterState], age \in [Pair -> Int], bufAge \in [Pair -> Int] :
          arb' = [p \in Pair |->
                   IF p \notin cached THEN arb[p]
                   ELSE [arb[p] EXCEPT !.state = state[p], !.age = age[p], !.bufAge = bufAge[p]]]
    <3> DEFINE state == [p \in Pair |-> IF p \in arbiters THEN "normal" ELSE arb[p].state]
               age == [p \in Pair |-> Min(arb[p].age + 1, CollisionPersistence + 1)]
               bufAge == [p \in Pair |-> IF arb[p].contacts = "ring"
                            THEN Min(arb[p].bufAge + 1, CollisionPersistence + 1) ELSE arb[p].bufAge]
    <3>1. arb' = [p \in Pair |->
                   IF p \notin cached THEN arb[p]
                   ELSE [arb[p] EXCEPT !.state = state[p], !.age = age[p], !.bufAge = bufAge[p]]]
      BY DEF StepBegin
    <3>2. \A p \in Pair : /\ arb[p].state \in ArbiterState
                          /\ arb[p].age \in Int /\ arb[p].bufAge \in Int
      BY <2>1 DEF ArbRecord
    <3>3. /\ state \in [Pair -> ArbiterState]
          /\ age \in [Pair -> Int] /\ bufAge \in [Pair -> Int]
      BY <3>2, ZeroAge DEF Min, ArbiterState
    <3> HIDE DEF state, age, bufAge
    <3> QED
      BY <3>1, <3>3
  <2> QED
    BY <2>1, <2>2 DEF ArbRecord
<1>5. Fields(threaded', cached, arbiters', arb')
  <2>1. threaded' \subseteq threaded /\ threaded \subseteq Pair /\ cached \subseteq Pair
    BY <1>1, <1>2 DEF TypeOK
  <2> QED
    BY <1>1, <1>2, <1>3, <1>4, <2>1 DEF Core, Fields
<1>6. Linkage(bodyType, root, {}, threaded', cached)
  BY <1>1, <1>2 DEF Core, Linkage
<1>7. OnShapes(threaded' \cup cached \cup touching', dynamicShapes, staticShapes)
  BY <1>1, <1>2 DEF Core, OnShapes, Added
<1>8. Core(root, sleepingComponents, rousedBodies)'
  BY <1>1, <1>2, <1>5, <1>6, <1>7 DEF Core
<1>9. Rested' /\ Progress'
  BY <1>1, <1>2, <1>3 DEF Rested, Progress
<1> QED
  BY <1>1, <1>2, <1>8, <1>9 DEF SleepInv

\* A pair that is tested has an awake body, so it has no arbiter outside the cache.
LEMMA CollideShapesInv ==
  ASSUME Careful, SleepInv, TypeOK', NEW p \in Pair, NEW first \in BOOLEAN, NEW verdict, NEW W,
         CollideShapes(p, first, verdict, W)
  PROVE  SleepInv'
<1>1. PICK active \in BOOLEAN, state \in ArbiterState, a \in Bodies(p) :
        /\ arb' = [arb EXCEPT ![p] =
             [state |-> state, age |-> 0, a |-> a, bufAge |-> 0,
              contacts |-> IF active THEN "ring" ELSE "none"]]
        /\ arbiters' = IF active THEN arbiters \cup {p} ELSE arbiters
  <2> DEFINE found == Found(p)
             asked == IF found = "first" /\ ~first THEN "ignore" ELSE found
             st == IF asked # "ignore" /\ verdict = "ignore" THEN "ignore" ELSE asked
             active == /\ st # "ignore" /\ verdict = "accept"
                       /\ p \cap Sensor = {}
                       /\ \E b \in Bodies(p) : bodyType[b] = "dynamic"
             state == IF active \/ st = "ignore" THEN st ELSE "normal"
  <2>1. found \in ArbiterState
    BY DEF SleepInv, TypeOK, Found, Pooled, ArbiterState
  <2>2. state \in ArbiterState /\ active \in BOOLEAN
    BY <2>1 DEF ArbiterState
  <2>3. \E a \in Bodies(p) :
          /\ arb' = [arb EXCEPT ![p] =
               [state |-> state, age |-> 0, a |-> a, bufAge |-> 0,
                contacts |-> IF active THEN "ring" ELSE "none"]]
          /\ arbiters' = IF active THEN arbiters \cup {p} ELSE arbiters
    BY DEF CollideShapes
  <2> HIDE DEF state, active
  <2> QED
    BY <2>2, <2>3
<1>2. /\ phase = "narrow" /\ p \in todo /\ WakeLocked("narrow", W)
      /\ cached' = cached \cup {p} /\ todo' = todo \ {p}
      /\ broken' = IF p \in threaded \ cached THEN broken \cup {"two arbiters of a pair"}
                   ELSE broken
      /\ UNCHANGED <<phase, bodyType, inSpace, staticBodies, joints, dynamicBodies, dynamicShapes,
                     staticShapes, constraints, touching, threaded>>
  BY Zenon DEF CollideShapes, InStep, placeVars, awakeVars, indexVars
<1>3. Unsleep(W) /\ Woken(W) = {} /\ rousedBodies' = rousedBodies
  BY <1>2 DEF WakeLocked, Careful, Woken
<1>4. /\ TypeOK /\ rousedBodies = {} /\ broken = {} /\ Rested
      /\ Core(root, sleepingComponents, rousedBodies)
      /\ threaded \cap cached = {} /\ p \in touching /\ p \cap dynamicShapes # {}
      /\ p \notin arbiters /\ todo \subseteq touching /\ todo \cap arbiters = {}
      /\ \A q \in todo : q \cap dynamicShapes # {}
  BY <1>2 DEF SleepInv, Progress
<1>5. Core(root', sleepingComponents', {})
  <2>1. Core(root', sleepingComponents', rousedBodies \cup Woken(W))
    BY <1>3, <1>4, Rouse
  <2>2. rousedBodies \cup Woken(W) = {}
    BY <1>3, <1>4
  <2> QED
    BY <2>1, <2>2
<1>6. p \notin threaded
  <2> SUFFICES ASSUME p \in threaded PROVE FALSE
    OBVIOUS
  <2>1. PICK b \in Bodies(p) : b \in dynamicBodies
    BY <1>4 DEF Core, Index, Bodies
  <2>2. \A c \in Bodies(p) : bodyType[c] = "static" \/ c \in dynamicBodies
    BY <1>4, <2>1, AwakeTogether
  <2>3. Bodies(p) \cap Away(root, {}) = {}
    BY <1>4, <2>2 DEF Core, Places
  <2> QED
    BY <1>4, <2>3 DEF Core, Linkage
<1>7. Fields(threaded, cached', arbiters', arb')
  <2>1. /\ threaded \subseteq Pair /\ cached \subseteq Pair /\ DOMAIN arb = Pair
        /\ Fields(threaded, cached, arbiters, arb)
    BY <1>4 DEF TypeOK, Core
  <2>2. /\ \A q \in Pair : q # p => arb'[q] = arb[q]
        /\ arb'[p].a \in Bodies(p) /\ arb'[p].age = 0 /\ arb'[p].bufAge = 0
        /\ arb'[p].contacts = IF active THEN "ring" ELSE "none"
    BY <1>1, <2>1
  <2>3. /\ arbiters' \subseteq cached' /\ threaded \cap cached' \subseteq arbiters'
        /\ p \in arbiters' <=> active
    BY <1>1, <1>2, <1>4, <1>6, <2>1 DEF Fields
  <2>4. \A q \in threaded \cup cached' : arb'[q].a \in Bodies(q)
    BY <1>2, <2>1, <2>2 DEF Fields
  <2>5. \A q \in arbiters' : /\ arb'[q].age = 0 /\ arb'[q].contacts = "ring"
                             /\ arb'[q].bufAge = 0
    BY <1>1, <1>4, <2>1, <2>2, <2>3 DEF Fields
  <2>6. \A q \in Pair : (arb'[q].contacts = "heap") <=> (q \in threaded \ cached')
    BY <1>2, <1>6, <2>1, <2>2 DEF Fields
  <2> QED
    BY <2>3, <2>4, <2>5, <2>6 DEF Fields
<1>8. Linkage(bodyType, root', {}, threaded, cached')
  BY <1>2, <1>5, <1>6 DEF Core, Linkage
<1>9. OnShapes(threaded \cup cached' \cup touching, dynamicShapes, staticShapes)
  BY <1>2, <1>4 DEF Core, OnShapes
<1>10. Core(root, sleepingComponents, rousedBodies)'
  BY <1>2, <1>3, <1>4, <1>5, <1>7, <1>8, <1>9 DEF Core
<1>11. Rested'
  BY <1>2, <1>3, <1>4, WokenIdle DEF Rested
<1>12. Progress'
  BY <1>1, <1>2, <1>3, <1>4, <1>6 DEF Progress
<1> QED
  BY <1>2, <1>4, <1>6, <1>10, <1>11, <1>12 DEF SleepInv

\* In a link between an asleep body and another, no body is kinematic.
LEMMA AsleepNotKinematic ==
  ASSUME NEW bt, NEW rt, NEW E, E \subseteq Body, Together(bt, rt, {}, E),
         \A b \in Away(rt, {}) : bt[b] = "dynamic", E \cap Away(rt, {}) # {}
  PROVE  \A c \in E : bt[c] # "kinematic"
BY DEF Together, Away

\* Nobody is roused by a careful game, so the list of the step is complete.
LEMMA EndNarrowPhaseInv ==
  ASSUME Careful, SleepInv, TypeOK', NEW moving, EndNarrowPhase(moving) PROVE SleepInv'
<1>1. /\ phase = "narrow" /\ phase' = "thread"
      /\ dynamicBodies' = dynamicBodies \cup rousedBodies /\ ShapesAwake(rousedBodies)
      /\ constraints' = RestoredConstraints(rousedBodies)
      /\ arbiters' = RestoredArbiters(rousedBodies)
      /\ cached' = RestoredCached(rousedBodies) /\ arb' = RestoredArb(rousedBodies)
      /\ rousedBodies' = {} /\ todo' = RestoredArbiters(rousedBodies)
      /\ broken' = broken \cup ActivateErrors(rousedBodies)
                   \cup (IF \E b \in dynamicBodies \cup rousedBodies : IsSleeping(b)
                         THEN {"dangling root pointer"} ELSE {})
      /\ UNCHANGED <<bodyType, inSpace, staticBodies, joints, root, sleepingComponents, touching,
                     threaded>>
  BY DEF EndNarrowPhase, InStep, placeVars
<1>2. /\ TypeOK /\ rousedBodies = {} /\ broken = {} /\ Rested
      /\ Core(root, sleepingComponents, rousedBodies)
      /\ threaded \cap cached = {}
  BY <1>1 DEF SleepInv, Progress
<1>3. /\ root \in [Body -> Body \cup {NoBody}] /\ rousedBodies \subseteq Body
  BY <1>2 DEF TypeOK
<1>4. /\ Core(root, sleepingComponents, rousedBodies)'
      /\ ActivateErrors(rousedBodies) = {}
  BY <1>1, <1>2, <1>3, Activate DEF Core, ShapesAwake
<1>5. Owned(rousedBodies) = {} /\ arbiters' = arbiters
  BY <1>1, <1>2 DEF Owned, RestoredArbiters
<1>6. broken' = {}
  BY <1>1, <1>2, <1>4 DEF Core, Places, Away, IsSleeping, TypeOK
<1>7. Rested'
  <2>1. /\ \A b \in moving : bodyType[b] = "dynamic"
        /\ \A b \in Body : bodyType[b] # "dynamic" /\ b \notin moving => idleTime'[b] = idleTime[b]
    BY DEF EndNarrowPhase
  <2> QED
    BY <1>1, <1>2, <2>1 DEF Rested
<1>8. HeldByContact'
  <2> SUFFICES ASSUME NEW p \in threaded, NEW c \in Bodies(p) PROVE bodyType[c] # "kinematic"
    BY <1>1 DEF HeldByContact, Held
  <2>1. Bodies(p) \subseteq Body
    BY <1>2, BodiesInWorld DEF TypeOK
  <2>2. Bodies(p) \cap Away(root, {}) # {} /\ Together(bodyType, root, {}, Bodies(p))
    BY <1>2 DEF Core, Linkage
  <2>3. \A b \in Away(root, {}) : bodyType[b] = "dynamic"
    BY <1>2 DEF Core, Places
  <2> QED
    BY <2>1, <2>2, <2>3, AsleepNotKinematic
<1>9. Progress'
  BY <1>1, <1>2, <1>5, <1>8 DEF Progress, Core, Fields
<1> QED
  BY <1>4, <1>6, <1>7, <1>9 DEF SleepInv

\* The bodies of the arbiter are awake when it is pushed, and not tired if one of
\* them is kinematic.
LEMMA PushArbiterInv ==
  ASSUME SleepInv, TypeOK', NEW p \in Pair, PushArbiter(p) PROVE SleepInv'
<1> DEFINE S == Touched(p)
           W == Woken(S)
<1>1. /\ phase = "thread" /\ p \in todo /\ Unsleep(S) /\ ShapesAwake(W)
      /\ dynamicBodies' = dynamicBodies \cup W
      /\ constraints' = RestoredConstraints(W)
      /\ arbiters' = RestoredArbiters(W)
      /\ cached' = RestoredCached(W)
      /\ arb' = RestoredArb(W)
      /\ threaded' = threaded \cup {p}
      /\ broken' = broken \cup ActivateErrors(W)
                   \cup (IF p \in threaded THEN {"dangling contact graph pointers"} ELSE {})
      /\ todo' = todo \ {p}
      /\ UNCHANGED <<phase, bodyType, inSpace, staticBodies, joints, rousedBodies, touching>>
  BY DEF PushArbiter, InStep, placeVars
<1>2. /\ TypeOK /\ rousedBodies = {} /\ broken = {} /\ Rested
      /\ Core(root, sleepingComponents, rousedBodies)
      /\ todo \subseteq arbiters /\ todo \cap threaded = {} /\ arbiters \ todo \subseteq threaded
      /\ HeldByContact
  BY <1>1 DEF SleepInv, Progress
<1>3. Bodies(p) \subseteq Body /\ Owned(W) \subseteq threaded /\ p \notin threaded
  BY <1>1, <1>2, BodiesInWorld, Selections
<1>4. \A b \in Bodies(p) : root'[b] = NoBody
  <2>1. \A b \in Bodies(p) : b \in Asleep => b \in Woken(S)
    BY <1>2, WokenComponents DEF Core, Touched, Asleep
  <2> QED
    BY <1>1, <1>2, <1>3, <2>1 DEF Unsleep, Asleep, IsSleeping, TypeOK
<1> HIDE DEF S, W
<1>5. /\ p \in cached' /\ p \in arbiters'
      /\ Fields(threaded, cached', arbiters', arb')
      /\ Linkage(bodyType, root', {}, threaded, cached')
      /\ OnShapes(threaded \cup cached' \cup touching, dynamicShapes', staticShapes')
  <2>1. p \in cached' /\ p \in arbiters'
    BY <1>1, <1>2 DEF RestoredCached, RestoredArbiters, Core, Fields
  <2> QED
    BY <1>1, <1>2, <2>1, Wake DEF ShapesAwake, W
<1>6. Fields(threaded', cached', arbiters', arb')
  BY <1>1, <1>5 DEF Fields
<1>7. Linkage(bodyType, root', {}, threaded', cached')
  BY <1>1, <1>4, <1>5 DEF Linkage, Together, Away
<1>8. OnShapes(threaded' \cup cached' \cup touching, dynamicShapes', staticShapes')
  BY <1>1, <1>5 DEF OnShapes
<1>9. /\ Core(root, sleepingComponents, rousedBodies)'
      /\ broken' = {}
  BY <1>1, <1>2, <1>3, <1>6, <1>7, <1>8, Wake DEF Core, ShapesAwake, W
<1>10. /\ \A b \in Body : idleTime'[b] = 0 \/ idleTime'[b] = idleTime[b]
       /\ \A b \in S \cap Body : bodyType[b] = "dynamic" => idleTime'[b] = 0
  BY <1>1, <1>2, WokenIdle
<1>11. HeldByContact'
  <2>1. ASSUME NEW q \in threaded PROVE Held(Bodies(q))'
    <3>1. Bodies(q) \subseteq Body
      BY <1>2, BodiesInWorld DEF TypeOK
    <3> QED
      BY <1>1, <1>2, <1>10, <3>1 DEF HeldByContact, Held
  <2>2. Held(Bodies(p))'
    <3>1. \A b, c \in Bodies(p) : bodyType[b] = "dynamic" /\ bodyType[c] = "kinematic" => b \in S
      BY DEF S, Touched
    <3> QED
      BY <1>1, <1>3, <1>10, <3>1 DEF Held
  <2> QED
    BY <1>1, <2>1, <2>2 DEF HeldByContact
<1>12. Rested'
  BY <1>1, <1>2, <1>10 DEF Rested
<1>13. Progress'
  BY <1>1, <1>2, <1>3, <1>11 DEF Progress, RestoredArbiters
<1> QED
  BY <1>9, <1>12, <1>13 DEF SleepInv

\* No body is tired that a joint links to a kinematic one.
LEMMA HoldJointedInv ==
  ASSUME SleepInv, TypeOK', HoldJointed PROVE SleepInv'
<1> DEFINE S == {b \in Body : \E j \in constraints :
                   b \in Ends[j] /\ \E x \in Ends[j] \ {b} : bodyType[x] = "kinematic"}
           W == Woken(S)
<1>1. /\ phase = "thread" /\ todo = {} /\ phase' = "components" /\ Unsleep(S) /\ ShapesAwake(W)
      /\ dynamicBodies' = dynamicBodies \cup W
      /\ constraints' = RestoredConstraints(W)
      /\ arbiters' = RestoredArbiters(W)
      /\ cached' = RestoredCached(W)
      /\ arb' = RestoredArb(W)
      /\ broken' = broken \cup ActivateErrors(W)
      /\ UNCHANGED <<todo, bodyType, inSpace, staticBodies, joints, rousedBodies, touching,
                     threaded>>
  BY DEF HoldJointed, InStep, placeVars, ActivateBodies
<1>2. /\ TypeOK /\ rousedBodies = {} /\ broken = {} /\ Rested
      /\ Core(root, sleepingComponents, {})
      /\ arbiters \subseteq threaded /\ HeldByContact
  BY <1>1 DEF SleepInv, Progress
<1>3. Owned(W) \subseteq threaded
  BY <1>2, Selections
<1>4. /\ \A b \in Body : idleTime'[b] = 0 \/ idleTime'[b] = idleTime[b]
      /\ \A b \in S \cap Body : bodyType[b] = "dynamic" => idleTime'[b] = 0
  BY <1>1, <1>2, WokenIdle
<1>5. HeldByJoint'
  <2> SUFFICES ASSUME NEW j \in constraints', NEW b \in Ends[j], NEW c \in Ends[j],
                      bodyType[b] = "dynamic", bodyType[c] = "kinematic"
               PROVE  idleTime'[b] = 0
    BY <1>1 DEF HeldByJoint, Held
  <2>1. j \in joints /\ Ends[j] \subseteq Body
    <3>1. j \in joints
      BY <1>1, <1>2, Selections DEF RestoredConstraints, Core, Joined
    <3> QED
      BY <1>2, <3>1, IdentityAssumption DEF TypeOK
  <2>2. /\ Together(bodyType, root, {}, Ends[j])
        /\ (j \in constraints) <=> (Ends[j] \cap Away(root, {}) = {})
    BY <1>2, <2>1 DEF Core, Joined
  <2>3. \A x \in Away(root, {}) : bodyType[x] = "dynamic"
    BY <1>2 DEF Core, Places
  <2>4. j \in constraints
    BY <2>1, <2>2, <2>3, AsleepNotKinematic
  <2>5. b \in S
    BY <2>1, <2>4
  <2> QED
    BY <1>4, <2>1, <2>5
<1> HIDE DEF S, W
<1>6. /\ Core(root, sleepingComponents, rousedBodies)'
      /\ broken' = {}
  BY <1>1, <1>2, Wake DEF Core, ShapesAwake, W
<1>7. HeldByContact'
  <2> SUFFICES ASSUME NEW q \in threaded PROVE Held(Bodies(q))'
    BY <1>1 DEF HeldByContact
  <2>1. Bodies(q) \subseteq Body
    BY <1>2, BodiesInWorld DEF TypeOK
  <2> QED
    BY <1>1, <1>2, <1>4, <2>1 DEF HeldByContact, Held
<1>8. Rested'
  BY <1>1, <1>2, <1>4 DEF Rested
<1>9. Progress'
  BY <1>1, <1>2, <1>3, <1>5, <1>7 DEF Progress, RestoredArbiters
<1> QED
  BY <1>6, <1>8, <1>9 DEF SleepInv

\* An arbiter that expires is not of this step, so no body is linked by it.
LEMMA FilterArbiterInv ==
  ASSUME SleepInv, TypeOK', NEW p \in Pair, NEW W, FilterArbiter(p, W) PROVE SleepInv'
<1>1. PICK expires \in BOOLEAN, separates \in BOOLEAN :
        /\ arb' = [arb EXCEPT ![p] = IF expires THEN Pooled
                                     ELSE IF separates THEN [arb[p] EXCEPT !.state = "cached"]
                                     ELSE arb[p]]
        /\ cached' = IF expires THEN cached \ {p} ELSE cached
        /\ expires => arb[p].age >= CollisionPersistence
  <2> DEFINE expires == Expires(p)
             separates == Separates(p)
  <2>1. expires \in BOOLEAN /\ separates \in BOOLEAN
    BY DEF Expires, Separates
  <2>2. /\ arb' = [arb EXCEPT ![p] = IF expires THEN Pooled
                                     ELSE IF separates THEN [arb[p] EXCEPT !.state = "cached"]
                                     ELSE arb[p]]
        /\ cached' = IF expires THEN cached \ {p} ELSE cached
    BY DEF FilterArbiter
  <2>3. expires => arb[p].age >= CollisionPersistence
    BY DEF Expires
  <2> HIDE DEF expires, separates
  <2> QED
    BY <2>1, <2>2, <2>3
<1>2. /\ phase = "filter" /\ p \in todo /\ Unsleep(W) /\ rousedBodies' = rousedBodies \cup Woken(W)
      /\ todo' = todo \ {p}
      /\ UNCHANGED <<phase, bodyType, inSpace, staticBodies, joints, dynamicBodies, dynamicShapes,
                     staticShapes, constraints, touching, arbiters, threaded, broken>>
  BY DEF FilterArbiter, WakeLocked, InStep, placeVars, awakeVars, indexVars
<1>3. /\ TypeOK /\ broken = {} /\ Rested
      /\ Core(root, sleepingComponents, rousedBodies)
      /\ arbiters \subseteq threaded /\ todo \subseteq cached
  BY <1>2 DEF SleepInv, Progress
<1>4. Core(root', sleepingComponents', rousedBodies')
  <2>1. Core(root', sleepingComponents', rousedBodies \cup Woken(W))
    BY <1>2, <1>3, Rouse
  <2> QED
    BY <1>2, <2>1
<1>5. expires => p \notin threaded /\ p \notin arbiters
  BY <1>1, <1>2, <1>3, ParameterAssumption DEF Core, Fields
<1>6. Fields(threaded, cached', arbiters, arb')
  <2>1. \A q \in Pair : arb[q] \in ArbRecord
    BY <1>3 DEF TypeOK, ArbRecord
  <2>2. \A q \in Pair : q # p => arb'[q] = arb[q]
    BY <1>1, <1>3 DEF TypeOK
  <2>3. CASE expires
    <3>1. arb'[p].contacts # "heap"
      BY <1>1, <1>3, <2>3 DEF TypeOK, Pooled
    <3>2. threaded \subseteq Pair /\ cached \subseteq Pair
      BY <1>3 DEF TypeOK
    <3>3. Fields(threaded, cached, arbiters, arb) /\ cached' = cached \ {p}
      BY <1>1, <1>3, <2>3 DEF Core
    <3> QED
      BY <1>5, <2>2, <2>3, <3>1, <3>2, <3>3 DEF Fields
  <2>4. CASE ~expires
    <3>1. /\ arb'[p].a = arb[p].a /\ arb'[p].contacts = arb[p].contacts
          /\ arb'[p].age = arb[p].age /\ arb'[p].bufAge = arb[p].bufAge
      <4>1. arb'[p] = IF separates THEN [arb[p] EXCEPT !.state = "cached"] ELSE arb[p]
        BY <1>1, <1>3, <2>4 DEF TypeOK
      <4> QED
        BY <2>1, <4>1 DEF ArbRecord
    <3>2. threaded \subseteq Pair /\ cached \subseteq Pair
      BY <1>3 DEF TypeOK
    <3>3. Fields(threaded, cached, arbiters, arb) /\ cached' = cached
      BY <1>1, <1>3, <2>4 DEF Core
    <3>4. \A q \in Pair : /\ arb'[q].a = arb[q].a /\ arb'[q].contacts = arb[q].contacts
                          /\ arb'[q].age = arb[q].age /\ arb'[q].bufAge = arb[q].bufAge
      BY <2>2, <3>1
    <3> QED
      BY <3>2, <3>3, <3>4 DEF Fields
  <2> QED
    BY <2>3, <2>4
<1>7. Linkage(bodyType, root', rousedBodies', threaded, cached')
  BY <1>1, <1>4, <1>5 DEF Core, Linkage
<1>8. OnShapes(threaded \cup cached' \cup touching, dynamicShapes, staticShapes)
  BY <1>1, <1>3 DEF Core, OnShapes
<1>9. Core(root, sleepingComponents, rousedBodies)'
  BY <1>2, <1>4, <1>6, <1>7, <1>8 DEF Core
<1>10. Rested'
  BY <1>2, <1>3, WokenIdle DEF Rested
<1>11. Progress'
  BY <1>1, <1>2, <1>3 DEF Progress
<1> QED
  BY <1>2, <1>3, <1>9, <1>10, <1>11 DEF SleepInv

\* At the end of the step the roused bodies are put back, all together.
LEMMA StepEndInv ==
  ASSUME SleepInv, TypeOK', NEW I, NEW W, StepEnd(I, W) PROVE SleepInv'
<1> DEFINE R == Waking(W)
           new == RestoredArb(R)
<1>1. /\ phase = "filter" /\ phase' = "user" /\ todo = {} /\ Unsleep(W) /\ ShapesAwake(R)
      /\ dynamicBodies' = dynamicBodies \cup R
      /\ constraints' = RestoredConstraints(R)
      /\ arbiters' = RestoredArbiters(R)
      /\ cached' = RestoredCached(R)
      /\ arb' = [p \in Pair |-> IF p \in I THEN [new[p] EXCEPT !.state = "ignore"] ELSE new[p]]
      /\ broken' = broken \cup ActivateErrors(R)
      /\ rousedBodies' = {}
      /\ UNCHANGED <<todo, bodyType, inSpace, staticBodies, joints, touching, threaded>>
  BY DEF StepEnd, InStep, placeVars
<1>2. /\ TypeOK /\ broken = {} /\ Rested
      /\ Core(root, sleepingComponents, rousedBodies)
      /\ arbiters \subseteq threaded
  BY <1>1 DEF SleepInv, Progress
<1>3. R = rousedBodies \cup Woken(W) /\ R \subseteq Body
  BY <1>2, Selections DEF Waking, TypeOK
<1>4. root' \in [Body -> Body \cup {NoBody}]
  BY <1>1, <1>2, UnsleepType
<1> HIDE DEF R
<1>5. Core(root', sleepingComponents', R)
  BY <1>1, <1>2, <1>3, Rouse
<1>6. /\ ActivateErrors(R) = {}
      /\ Places(bodyType, inSpace, staticBodies, dynamicBodies', root', {})
      /\ Roots(root', sleepingComponents')
      /\ Index(inSpace, dynamicBodies', dynamicShapes', staticShapes')
      /\ Joined(bodyType, inSpace, root', {}, joints, constraints')
      /\ Linkage(bodyType, root', {}, threaded, cached')
      /\ Fields(threaded, cached', arbiters', new)
      /\ OnShapes(threaded \cup cached' \cup touching, dynamicShapes', staticShapes')
  BY <1>1, <1>2, <1>3, <1>4, <1>5, Activate DEF ShapesAwake
<1>7. Fields(threaded, cached', arbiters', arb')
  <2>1. new \in [Pair -> ArbRecord]
    BY <1>2, RestoredType
  <2>2. threaded \subseteq Pair /\ cached' \subseteq Pair /\ arbiters' \subseteq Pair
    BY <1>1, <1>2, RestoredType DEF TypeOK
  <2> HIDE DEF new
  <2>3. \A p \in Pair : /\ arb'[p].a = new[p].a /\ arb'[p].contacts = new[p].contacts
                        /\ arb'[p].age = new[p].age /\ arb'[p].bufAge = new[p].bufAge
    BY <1>1, <2>1 DEF ArbRecord
  <2> QED
    BY <1>6, <2>2, <2>3 DEF Fields
<1>8. Core(root, sleepingComponents, rousedBodies)'
  BY <1>1, <1>6, <1>7 DEF Core
<1>9. Rested'
  BY <1>1, <1>2, WokenIdle DEF Rested
<1>10. Progress'
  BY <1>1, <1>2, Selections DEF Progress, RestoredArbiters
<1> QED
  BY <1>1, <1>2, <1>6, <1>8, <1>9, <1>10 DEF SleepInv

-----------------------------------------------------------------------------
(* The theorems                                                               *)

\* A space that is set up with everybody awake satisfies the invariant.
LEMMA InitInv == Init => SleepInv
<1> SUFFICES ASSUME Init PROVE SleepInv
  OBVIOUS
<1>1. TypeOK /\ broken = {} /\ Rested /\ Progress
  BY InitType1 DEF Init, Rested, Progress
<1>2. Away(root, rousedBodies) = {}
  BY DEF Init, Away
<1>3. Places(bodyType, inSpace, staticBodies, dynamicBodies, root, rousedBodies)
  BY <1>2 DEF Init, Places
<1>4. Roots(root, sleepingComponents)
  BY IdentityAssumption DEF Init, Roots
<1>5. Index(inSpace, dynamicBodies, dynamicShapes, staticShapes)
  BY IdentityAssumption DEF Init, Index
<1>6. Joined(bodyType, inSpace, root, rousedBodies, joints, constraints)
  BY <1>2, IdentityAssumption DEF Init, Joined, Together
<1>7. Linkage(bodyType, root, rousedBodies, threaded, cached)
  BY DEF Init, Linkage
<1>8. Fields(threaded, cached, arbiters, arb)
  BY DEF Init, Fields, Pooled
<1>9. OnShapes(threaded \cup cached \cup touching, dynamicShapes, staticShapes)
  BY DEF Init, OnShapes
<1> QED
  BY <1>1, <1>3, <1>4, <1>5, <1>6, <1>7, <1>8, <1>9 DEF SleepInv, Core

LEMMA StepInv ==
  ASSUME Careful, SleepInv, [Next]_vars PROVE SleepInv'
<1>1. TypeOK'
  BY StepType DEF SleepInv
<1>2. CASE UserNext
  BY <1>1, <1>2, ActivateInv, AddBodyInv, RemoveBodyInv, BodySleepInv, SetTypeInv, AddShapeInv,
     RemoveShapeInv, ChangeJointsInv DEF UserNext
<1>3. CASE StepBegin
  BY <1>1, <1>3, StepBeginInv
<1>4. CASE StepRest
  BY <1>1, <1>4, CollideShapesInv, EndNarrowPhaseInv, PushArbiterInv, HoldJointedInv,
     ProcessComponentsInv, FilterArbiterInv, StepEndInv DEF StepRest
<1>5. CASE UNCHANGED vars
  <2>1. Core(root, sleepingComponents, rousedBodies)'
    BY <1>5 DEF SleepInv, Core, vars, placeVars, sleepVars, indexVars, awakeVars, arbVars
  <2>2. Rested' /\ Progress'
    BY <1>5 DEF SleepInv, Rested, Progress, HeldByContact, HeldByJoint, Held, vars, placeVars,
                sleepVars, indexVars, awakeVars, arbVars
  <2> QED
    BY <1>1, <1>5, <2>1, <2>2 DEF SleepInv, vars
<1> QED
  BY <1>2, <1>3, <1>4, <1>5 DEF Next

\* The invariant holds at every point of every step and between them.
THEOREM SleepInvariant == ASSUME Careful PROVE Spec => []SleepInv
BY InitInv, StepInv, PTL DEF Spec

\* In a careful game no assertion inside the sleeping code fails, nothing is
\* freed, pushed or listed twice, and no pointer of the contact graph dangles.
THEOREM NothingBreaks == ASSUME Careful PROVE Spec => []NoInternalError
<1>1. SleepInv => NoInternalError
  BY DEF SleepInv, NoInternalError
<1> QED
  BY <1>1, SleepInvariant, PTL

\* Waking, sleeping, adding, removing and retyping neither lose nor duplicate a
\* body.
THEOREM BodiesKept == ASSUME Careful PROVE Spec => []BodyInOnePlace
<1>1. SleepInv => BodyInOnePlace
  <2>1. Asleep = {b \in Body : root[b] # NoBody}
    BY DEF Asleep, IsSleeping
  <2> QED
    BY <2>1 DEF SleepInv, TypeOK, Core, Places, Away, BodyInOnePlace
<1> QED
  BY <1>1, SleepInvariant, PTL

\* A shape is in the index that the state of its body calls for: the dynamic one as
\* long as the body can move, the static one while it sleeps or is static
\* (cpSpaceActivateBody(), cpSpaceDeactivateBody(), cpBodySetType()).
THEOREM IndexesFollow == ASSUME Careful PROVE Spec => []ShapeIndexFollowsBody
<1>1. SleepInv => ShapeIndexFollowsBody
  BY DEF SleepInv, Core, Index, ShapeIndexFollowsBody
<1> QED
  BY <1>1, SleepInvariant, PTL

\* What touches or is joined to a sleeping body is static or sleeps in the same
\* component.
THEOREM SleepersTogether == ASSUME Careful PROVE Spec => []ComponentsClosed
<1>1. SleepInv => ComponentsClosed
  <2> SUFFICES ASSUME SleepInv PROVE ComponentsClosed
    OBVIOUS
  <2>1. /\ \A p \in threaded : \A b, c \in Bodies(p) :
             IsSleeping(b) => bodyType[c] = "static" \/ root[c] = root[b]
        /\ \A j \in joints : \A b, c \in Ends[j] :
             IsSleeping(b) => bodyType[c] = "static" \/ root[c] = root[b]
    BY DEF SleepInv, Core, Linkage, Joined, Together, IsSleeping
  <2> QED
    BY <2>1 DEF SleepInv, Core, Roots, ComponentsClosed, IsSleeping
<1> QED
  BY <1>1, SleepInvariant, PTL

\* The joints the solver works on are those that have an awake body: neither does a
\* joint of sleepers stay in the list, nor is one of awake bodies missing from it.
THEOREM JointsFollow == ASSUME Careful PROVE Spec => []JointListedIffAwake
<1>1. SleepInv => JointListedIffAwake
  <2> SUFFICES ASSUME SleepInv PROVE JointListedIffAwake
    OBVIOUS
  <2>1. \A j \in joints : Ends[j] \subseteq Body
    BY IdentityAssumption DEF SleepInv, TypeOK
  <2> QED
    BY <2>1 DEF SleepInv, Core, Joined, Away, JointListedIffAwake, IsSleeping
<1> QED
  BY <1>1, SleepInvariant, PTL

\* The solver works on cached arbiters of awake bodies whose contacts have not been
\* recycled.
THEOREM SolverSound == ASSUME Careful PROVE Spec => []ActiveArbiterSound
<1>1. SleepInv => ActiveArbiterSound
  <2> SUFFICES ASSUME SleepInv PROVE ActiveArbiterSound
    OBVIOUS
  <2>1. ASSUME NEW p \in arbiters, phase \notin {"narrow", "thread"}, NEW b \in Bodies(p)
        PROVE  ~IsSleeping(b)
    <3>1. p \in threaded /\ p \in cached /\ Bodies(p) \subseteq Body
      BY <2>1, BodiesInWorld DEF SleepInv, Progress, TypeOK, Core, Fields
    <3> QED
      BY <3>1 DEF SleepInv, Core, Linkage, Away, IsSleeping
  <2> QED
    BY <2>1, ParameterAssumption DEF SleepInv, Core, Fields, ActiveArbiterSound
<1> QED
  BY <1>1, SleepInvariant, PTL

\* A copy of the contacts exists exactly while the bodies are asleep.
THEOREM ContactsKept == ASSUME Careful PROVE Spec => []SavedIffDetached
<1>1. SleepInv => SavedIffDetached
  BY DEF SleepInv, Core, Fields, SavedIffDetached
<1> QED
  BY <1>1, SleepInvariant, PTL

-----------------------------------------------------------------------------
(* The refinement: bodies fall asleep and wake by islands                     *)

IslandsNow == {Component(b) : b \in Asleep}

\* What leaves its component when S wake up is whole islands.
LEMMA WakeIsIslandStep ==
  ASSUME SleepInv, NEW S, Unsleep(S)
  PROVE  [Islands!Next]_IslandsNow
<1> DEFINE Old == {Component(b) : b \in Woken(S)}
<1>1. /\ TypeOK /\ root \in [Body -> Body \cup {NoBody}]
      /\ Asleep = {b \in Body : root[b] # NoBody}
      /\ Asleep' = {b \in Body : root'[b] # NoBody}
  BY DEF SleepInv, TypeOK, Asleep, IsSleeping
<1>2. /\ Woken(S) \subseteq Asleep
      /\ \A b \in Woken(S) : \A x \in Body : root[x] = root[b] => x \in Woken(S)
  BY <1>1, WokenComponents DEF SleepInv, Core
<1>3. root' = [b \in Body |-> IF b \in Woken(S) THEN NoBody ELSE root[b]]
  BY DEF Unsleep
<1>4. Asleep' = Asleep \ Woken(S)
  BY <1>1, <1>3
<1>5. \A b \in Asleep' : Component(b)' = Component(b)
  BY <1>1, <1>2, <1>3, <1>4 DEF Component
<1>6. \A b \in Asleep : Component(b) \in Old <=> b \in Woken(S)
  <2> SUFFICES ASSUME NEW b \in Asleep, NEW w \in Woken(S), Component(b) = Component(w)
               PROVE  b \in Woken(S)
    OBVIOUS
  <2>1. b \in Component(b)
    BY DEF Component
  <2>2. root[b] = root[w] /\ b \in Body
    BY <1>1, <2>1 DEF Component
  <2> QED
    BY <1>2, <2>2
<1>7. IslandsNow' = IslandsNow \ Old
  <2> HIDE DEF Old
  <2>1. IslandsNow' = {Component(b) : b \in Asleep'}
    BY <1>5 DEF IslandsNow
  <2> QED
    BY <1>4, <1>6, <2>1 DEF IslandsNow
<1>8. Old \subseteq IslandsNow
  BY <1>2 DEF IslandsNow
<1>9. Islands!WakeUp(Old)
  BY <1>7, <1>8 DEF Islands!WakeUp, IslandsNow
<1> QED
  BY <1>8, <1>9 DEF Islands!Next, IslandsNow

\* A step that keeps the roots keeps the islands.
LEMMA SameIslands == root' = root => IslandsNow' = IslandsNow
BY DEF IslandsNow, Component, Asleep, IsSleeping

\* cpBodySleepWithGroup() makes an island of one body or adds it to one.
LEMMA BodySleepIsIslandStep ==
  ASSUME SleepInv, NEW b \in Body, NEW group \in Body \cup {NoBody}, BodySleepWithGroup(b, group)
  PROVE  Islands!Next
<1>1. /\ phase = "user" /\ b \in dynamicBodies
      /\ group # NoBody => IsSleeping(group)
      /\ root' = [root EXCEPT ![b] = IF group = NoBody THEN b ELSE root[group]]
  BY DEF BodySleepWithGroup, UserCall
<1>2. /\ NoBody \notin Body /\ root \in [Body -> Body \cup {NoBody}]
      /\ sleepingComponents = {x \in Body : root[x] = x}
      /\ \A x \in Body : root[x] # NoBody => root[x] \in sleepingComponents
  BY IdentityAssumption DEF SleepInv, TypeOK, Core, Roots
<1>3. root[b] = NoBody
  BY <1>1, <1>2 DEF SleepInv, Core, Places, Away
<1>4. /\ Asleep = {x \in Body : root[x] # NoBody} /\ Asleep' = Asleep \cup {b} /\ b \notin Asleep
      /\ \A x \in Asleep : root'[x] = root[x]
  BY <1>1, <1>2, <1>3 DEF Asleep, IsSleeping
<1>5. \A x \in Asleep : x \in Component(x) /\ Component(x) \subseteq Asleep
  BY DEF Component
<1>6. b \notin UNION IslandsNow
  BY <1>4, <1>5 DEF IslandsNow
<1>7. CASE group = NoBody
  <2>1. root'[b] = b /\ \A x \in Asleep : root[x] # b
    BY <1>1, <1>2, <1>3, <1>4, <1>7
  <2>2. Component(b)' = {b} /\ \A x \in Asleep : Component(x)' = Component(x)
    BY <1>4, <2>1 DEF Component
  <2>3. IslandsNow' = IslandsNow \cup {{b}}
    <3>1. IslandsNow' = {Component(x)' : x \in Asleep'}
      BY DEF IslandsNow
    <3> QED
      BY <1>4, <2>2, <3>1 DEF IslandsNow
  <2>4. Islands!FallAsleep({{b}})
    BY <1>6, <2>3 DEF Islands!FallAsleep, Islands!Sleeping, IslandsNow
  <2> QED
    BY <2>4 DEF Islands!Next
<1>8. CASE group # NoBody
  <2> DEFINE I == Component(group)
  <2>1. group \in Asleep /\ root'[b] = root[group]
    <3>1. group \in Asleep
      BY <1>1, <1>8 DEF Asleep
    <3> QED
      BY <1>1, <1>2, <1>8, <3>1
  <2>2. /\ \A x \in Asleep : root[x] = root[group] => Component(x)' = I \cup {b} /\ Component(x) = I
        /\ \A x \in Asleep : root[x] # root[group] => Component(x)' = Component(x) /\ Component(x) # I
        /\ Component(b)' = I \cup {b}
    BY <1>4, <1>5, <2>1 DEF Component
  <2> HIDE DEF I
  <2>3. IslandsNow' = (IslandsNow \ {I}) \cup {I \cup {b}}
    <3>1. IslandsNow' = {Component(x)' : x \in Asleep'}
      BY DEF IslandsNow
    <3> QED
      BY <1>4, <2>1, <2>2, <3>1 DEF IslandsNow
  <2>4. I \in IslandsNow
    BY <2>1 DEF IslandsNow, I
  <2>5. Islands!Join(b, I)
    BY <1>6, <2>3, <2>4 DEF Islands!Join, Islands!Sleeping, IslandsNow
  <2> QED
    BY <2>4, <2>5 DEF Islands!Next, IslandsNow
<1> QED
  BY <1>7, <1>8

\* cpSpaceProcessComponents() puts new islands to sleep.
LEMMA ProcessIsIslandStep ==
  ASSUME Careful, SleepInv, ProcessComponents PROVE Islands!Next
<1>1. PICK first \in [Sleepers -> dynamicBodies] :
        /\ \A C \in Sleepers : first[C] \in C
        /\ \A b \in Body : b \notin UNION Sleepers => root'[b] = root[b]
        /\ \A C \in Sleepers : \A b \in C : root'[b] = first[C]
  BY SleepersRooted
<1>2. /\ rousedBodies = {} /\ dynamicBodies \subseteq Body /\ NoBody \notin Body
      /\ \A b \in dynamicBodies : root[b] = NoBody
      /\ sleepingComponents = {x \in Body : root[x] = x}
      /\ \A x \in Body : root[x] # NoBody => root[x] \in sleepingComponents
  BY IdentityAssumption DEF ProcessComponents, InStep, SleepInv, Progress, TypeOK, Core, Places,
     Away, Roots
<1>3. \A C \in Sleepers : C \subseteq dynamicBodies /\ C # {} /\ \A x \in C : C = Flooded(x)
  BY <1>1, <1>2, SleepersDisjoint
<1>4. /\ Asleep = {x \in Body : root[x] # NoBody} /\ Asleep' = Asleep \cup UNION Sleepers
      /\ Asleep \cap UNION Sleepers = {}
  BY <1>1, <1>2, <1>3 DEF Asleep, IsSleeping
<1>5. \A C \in Sleepers : \A D \in Sleepers : first[C] = first[D] => C = D
  BY <1>1, <1>3
<1>6. \A x \in Asleep : root'[x] = root[x] /\ \A C \in Sleepers : first[C] # root[x]
  BY <1>1, <1>2, <1>3, <1>4
<1>7. \A x \in Asleep : Component(x)' = Component(x)
  BY <1>1, <1>4, <1>6 DEF Component
<1>8. \A C \in Sleepers : \A x \in C : Component(x)' = C
  <2> SUFFICES ASSUME NEW C \in Sleepers, NEW x \in C, NEW y \in Asleep'
               PROVE  root'[y] = root'[x] <=> y \in C
    BY <1>3, <1>4 DEF Component
  <2>1. root'[x] = first[C]
    BY <1>1
  <2>2. CASE y \in Asleep
    BY <1>4, <1>6, <2>1, <2>2
  <2>3. CASE y \in UNION Sleepers
    <3>1. PICK D \in Sleepers : y \in D
      BY <2>3
    <3>2. root'[y] = first[D]
      BY <1>1, <3>1
    <3> QED
      BY <1>3, <1>5, <2>1, <3>1, <3>2
  <2> QED
    BY <1>4, <2>2, <2>3
<1>9. IslandsNow' = IslandsNow \cup Sleepers
  <2>1. IslandsNow' = {Component(x)' : x \in Asleep'}
    BY DEF IslandsNow
  <2>2. \A C \in Sleepers : \E x \in C : x \in UNION Sleepers
    BY <1>3
  <2>3. IslandsNow' \subseteq IslandsNow \cup Sleepers
    BY <1>4, <1>7, <1>8, <2>1 DEF IslandsNow
  <2>4. IslandsNow \subseteq IslandsNow'
    BY <1>4, <1>7, <2>1 DEF IslandsNow
  <2>5. Sleepers \subseteq IslandsNow'
    BY <1>4, <1>8, <2>1, <2>2
  <2> QED
    BY <2>3, <2>4, <2>5
<1>10. UNION IslandsNow \subseteq Asleep
  BY DEF IslandsNow, Component
<1>11. /\ \A I \in Sleepers : I # {} /\ I \cap UNION IslandsNow = {}
       /\ \A I, J \in Sleepers : I # J => I \cap J = {}
       /\ Sleepers \in SUBSET SUBSET Body
  BY <1>2, <1>3, <1>4, <1>10
<1>12. Islands!FallAsleep(Sleepers)
  BY <1>9, <1>11 DEF Islands!FallAsleep, Islands!Sleeping, IslandsNow
<1> QED
  BY <1>11, <1>12 DEF Islands!Next

\* Every step is a step of SleepingIslands or leaves the islands as they are.
LEMMA StepIsIslandStep ==
  ASSUME Careful, SleepInv, [Next]_vars PROVE [Islands!Next]_IslandsNow
<1>1. CASE \E S : Unsleep(S)
  BY <1>1, WakeIsIslandStep
<1>2. CASE root' = root
  BY <1>2, SameIslands
<1>3. CASE \E b \in Body, g \in Body \cup {NoBody} : BodySleepWithGroup(b, g)
  BY <1>3, BodySleepIsIslandStep
<1>4. CASE ProcessComponents
  BY <1>4, ProcessIsIslandStep
<1>5. ASSUME UserNext
      PROVE  \/ (\E S : Unsleep(S)) \/ root' = root
             \/ \E b \in Body, g \in Body \cup {NoBody} : BodySleepWithGroup(b, g)
  <2>1. \A b \in Body : BodyActivate(b) \/ SpaceRemoveBody(b) => \E S : Unsleep(S)
    BY DEF BodyActivate, SpaceRemoveBody
  <2>2. SpaceSetGravity => \E S : Unsleep(S)
    BY DEF SpaceSetGravity
  <2>3. \A s \in Shape : SpaceAddShape(s) => \E S : Unsleep(S)
    BY DEF SpaceAddShape
  <2>4. \A s \in Shape, V \in CallbackWakes : SpaceRemoveShape(s, V) => \E S : Unsleep(S)
    BY DEF SpaceRemoveShape
  <2>5. \A j \in Joint : SpaceAddConstraint(j) \/ SpaceRemoveConstraint(j) => \E S : Unsleep(S)
    BY DEF SpaceAddConstraint, SpaceRemoveConstraint, ChangeJoints
  <2>6. \A b \in Body : SpaceAddBody(b) => root' = root
    BY DEF SpaceAddBody, sleepVars
  <2>7. \A b \in Body, t \in Type : BodySetType(b, t) => root' = root
    BY DEF BodySetType
  <2> QED
    BY <1>5, <2>1, <2>2, <2>3, <2>4, <2>5, <2>6, <2>7 DEF UserNext
<1>6. ASSUME StepRest PROVE (\E S : Unsleep(S)) \/ root' = root \/ ProcessComponents
  <2>1. ASSUME NEW p \in Pair, NEW first \in BOOLEAN, NEW verdict, NEW W,
               CollideShapes(p, first, verdict, W)
        PROVE  Unsleep(W)
    BY <2>1, Zenon DEF CollideShapes, WakeLocked
  <2>2. \A moving : EndNarrowPhase(moving) => root' = root
    BY DEF EndNarrowPhase
  <2>3. \A p \in Pair : PushArbiter(p) => \E S : Unsleep(S)
    BY DEF PushArbiter
  <2>4. HoldJointed => \E S : Unsleep(S)
    BY DEF HoldJointed
  <2>5. \A p \in Pair, W \in CallbackWakes : FilterArbiter(p, W) => Unsleep(W)
    BY DEF FilterArbiter, WakeLocked
  <2>6. \A I \in SUBSET Pair, W \in CallbackWakes : StepEnd(I, W) => Unsleep(W)
    BY DEF StepEnd
  <2> QED
    BY <1>6, <2>1, <2>2, <2>3, <2>4, <2>5, <2>6 DEF StepRest
<1>7. StepBegin => root' = root
  BY DEF StepBegin, sleepVars
<1>8. (UNCHANGED vars) => root' = root
  BY DEF vars, sleepVars
<1> QED
  BY <1>1, <1>2, <1>3, <1>4, <1>5, <1>6, <1>7, <1>8 DEF Next

\* In a careful game bodies fall asleep and wake as whole islands, whatever the
\* order of calls, contacts and callbacks.
THEOREM IslandsImplemented == ASSUME Careful PROVE Spec => SleepsByIsland
<1>1. Init => Islands!Init
  BY DEF Init, Islands!Init, Asleep, IsSleeping
<1>2. SleepInv /\ [Next]_vars => [Islands!Next]_IslandsNow
  BY StepIsIslandStep
<1> QED
  BY <1>1, <1>2, SleepInvariant, PTL DEF Spec, SleepsByIsland, Islands!Spec, IslandsNow

-----------------------------------------------------------------------------
(* begin and separate alternate for each pair: what was begun and not         *)
(* separated can be read off the arbiters, whether they are cached or saved   *)
(* for bodies that sleep.                                                     *)


\* The user was told of exactly those arbiters that are not marked as cached; those
\* that are solved or linked never are, and one that is new belongs to this step.
Alt ==
  /\ begun = {p \in threaded \cup cached : arb[p].state # "cached"}
  /\ \A p \in arbiters \cup threaded : arb[p].state # "cached"
  /\ \A p \in cached : arb[p].state = "first" => p \in arbiters

\* Waking bodies moves arbiters from the linked to the cached ones and gives them a
\* new age: nothing the user is told of.
LEMMA WakeAlt ==
  ASSUME TypeOK, Alt, NEW W,
         UNCHANGED <<threaded, begun>>, cached' = RestoredCached(W),
         arbiters' = RestoredArbiters(W), arb' = RestoredArb(W)
  PROVE  Alt'
<1>1. Owned(W) \subseteq threaded /\ threaded \subseteq Pair /\ cached \subseteq Pair /\ arbiters \subseteq Pair
  BY Selections DEF TypeOK
<1>2. \A p \in Pair : arb'[p].state = arb[p].state
  BY DEF RestoredArb, TypeOK, ArbRecord
<1>3. cached' = cached \cup Owned(W) /\ arbiters' = arbiters \cup Owned(W)
  BY DEF RestoredCached, RestoredArbiters
<1> QED
  BY <1>1, <1>2, <1>3 DEF Alt

\* Nor does falling asleep.
LEMMA SleepAlt ==
  ASSUME TypeOK, Alt, NEW W, UNCHANGED <<threaded, begun>>, DeactivateBodies(W)
  PROVE  Alt'
<1>1. Owned(W) \subseteq threaded /\ threaded \subseteq Pair /\ cached \subseteq Pair /\ arbiters \subseteq Pair
  BY Selections DEF TypeOK
<1>2. \A p \in Pair : arb'[p].state = arb[p].state
  BY DEF DeactivateBodies, TypeOK, ArbRecord
<1>3. cached' = cached \ Owned(W) /\ arbiters' = arbiters \ Owned(W)
  BY DEF DeactivateBodies
<1> QED
  BY <1>1, <1>2, <1>3 DEF Alt

LEMMA StayAlt == ASSUME Alt, UNCHANGED <<threaded, begun, cached, arbiters, arb>> PROVE Alt'
  BY DEF Alt

\* Removing a shape tells of all its arbiters that are not marked as cached.
LEMMA RemoveShapeAlt ==
  ASSUME SleepInv, Alt, NEW s, NEW V, SpaceRemoveShape(s, V)
  PROVE  Alt'
<1> DEFINE S == IF bodyType[BodyOf[s]] = "static"
                THEN UNION {Bodies(p) \ {BodyOf[s]} : p \in {q \in threaded : s \in q}}
                ELSE {BodyOf[s]}
           F == {p \in RestoredCached(Woken(S)) : s \in p}
           W == Woken(S \cup V)
<1>1. TypeOK
  BY DEF SleepInv
<1>2. /\ arbiters' = RestoredArbiters(W) \ F
      /\ cached' = RestoredCached(W) \ F
      /\ threaded' = threaded \ F
      /\ arb' = [p \in Pair |-> IF p \in F THEN Pooled ELSE RestoredArb(W)[p]]
      /\ begun' = begun \ {p \in F : arb[p].state # "cached"}
  BY DEF SpaceRemoveShape
<1> HIDE DEF F, W
<1>3. Owned(W) \subseteq threaded /\ threaded \subseteq Pair /\ cached \subseteq Pair /\ arbiters \subseteq Pair
  BY <1>1, Selections DEF TypeOK
<1>4. \A p \in Pair \ F : arb'[p].state = arb[p].state
  BY <1>1, <1>2 DEF RestoredArb, TypeOK, ArbRecord
<1>5. RestoredCached(W) = cached \cup Owned(W) /\ RestoredArbiters(W) = arbiters \cup Owned(W)
  BY DEF RestoredCached, RestoredArbiters
<1> QED
  BY <1>2, <1>3, <1>4, <1>5 DEF Alt

\* What is solved or linked is one of the cached arbiters of this step.
LEMMA SolvedCached ==
  ASSUME SleepInv
  PROVE  /\ arbiters \subseteq cached /\ threaded \cap cached \subseteq arbiters
         /\ \A p \in arbiters : arb[p].age = 0
  BY DEF SleepInv, Core, Fields

\* Forgetting the contacts of the last step makes old ones of what was new.
LEMMA StepBeginAlt == ASSUME SleepInv, Alt, StepBegin PROVE Alt'
<1>1. threaded \subseteq Pair /\ cached \subseteq Pair /\ arbiters \subseteq cached
  BY SolvedCached DEF SleepInv, TypeOK
<1>2. /\ arbiters' = {} /\ cached' = cached /\ begun' = begun
      /\ threaded' = threaded \ {p \in arbiters : \A b \in Bodies(p) : ~IsSleeping(b)}
  BY DEF StepBegin
<1>3. \A p \in Pair : arb'[p].state = IF p \in arbiters THEN "normal" ELSE arb[p].state
  <2>1. arb \in [Pair -> ArbRecord]
    BY DEF SleepInv, TypeOK, ArbRecord
  <2> QED
    BY <1>1, <2>1 DEF StepBegin, ArbRecord
<1> QED
  BY <1>1, <1>2, <1>3 DEF Alt

\* What overlaps and has a body awake is not linked to a sleeper: its arbiter would
\* have come back with it.
LEMMA TodoUnlinked ==
  ASSUME SleepInv, phase = "narrow" PROVE todo \cap threaded = {}
<1> SUFFICES ASSUME NEW p \in todo, p \in threaded PROVE FALSE
  OBVIOUS
<1>1. p \notin cached /\ rousedBodies = {} /\ \E s \in p : s \in dynamicShapes
  BY DEF SleepInv, Progress
<1>2. PICK b \in Bodies(p) : b \in dynamicBodies
  BY <1>1 DEF SleepInv, Core, Index, Bodies
<1>3. PICK c \in Bodies(p) : c \in Away(root, rousedBodies)
  BY <1>1 DEF SleepInv, Core, Linkage
<1>4. bodyType[b] # "static" /\ b \in Body /\ b \notin Away(root, rousedBodies)
  BY <1>2 DEF SleepInv, TypeOK, Core, Places
<1>5. root[c] # NoBody
  BY <1>1, <1>3 DEF Away
<1>6. root[b] = root[c]
  BY <1>2, <1>3, <1>4, <1>5 DEF SleepInv, Core, Linkage, Together
<1> QED
  BY <1>4, <1>5, <1>6 DEF Away

\* begin is called for a pair that is told of afterwards and was not before.
LEMMA CollideAlt ==
  ASSUME Careful, SleepInv, Alt,
         NEW p, NEW first \in BOOLEAN, NEW verdict, NEW W, CollideShapes(p, first, verdict, W)
  PROVE  Alt'
<1>1. /\ phase = "narrow" /\ p \in todo /\ p \in Pair /\ arb \in [Pair -> ArbRecord]
      /\ p \notin threaded /\ p \notin arbiters /\ arbiters \subseteq cached
      /\ threaded \subseteq Pair /\ cached \subseteq Pair
  <2>1. phase = "narrow" /\ p \in todo
    BY DEF CollideShapes, InStep
  <2> QED
    BY <2>1, TodoUnlinked, SolvedCached DEF SleepInv, Progress, TypeOK, ArbRecord
<1>2. /\ cached' = cached \cup {p} /\ threaded' = threaded
      /\ arbiters' \subseteq arbiters \cup {p} /\ arbiters \subseteq arbiters'
      /\ begun' = IF Found(p) = "first" THEN begun \cup {p} ELSE begun
  BY DEF CollideShapes
<1>3. \A q \in Pair \ {p} : arb'[q] = arb[q]
  BY <1>1 DEF CollideShapes
<1>4. /\ arb'[p].state # "cached"
      /\ arb'[p].state = "first" => p \in arbiters'
  BY <1>1 DEF CollideShapes, Found, Pooled
<1>5. Found(p) # "first" => p \in begun
  BY <1>1 DEF Alt, Found, Pooled
<1> QED
  BY <1>1, <1>2, <1>3, <1>4, <1>5 DEF Alt

\* separate is called for a pair that was told of and is not afterwards; an arbiter
\* that is linked is too young for that.
LEMMA FilterAlt ==
  ASSUME SleepInv, Alt, NEW p, NEW W, FilterArbiter(p, W)
  PROVE  Alt'
<1>1. /\ p \in todo /\ phase = "filter" /\ p \in cached /\ p \in Pair /\ arb \in [Pair -> ArbRecord]
      /\ threaded \subseteq Pair /\ cached \subseteq Pair /\ arbiters \subseteq Pair
  <2>1. p \in todo /\ phase = "filter"
    BY DEF FilterArbiter, InStep
  <2> QED
    BY <2>1 DEF SleepInv, Progress, TypeOK, ArbRecord
<1>2. Separates(p) \/ Expires(p) => p \notin arbiters /\ p \notin threaded
  <2>1. p \in arbiters => arb[p].age = 0
    BY SolvedCached
  <2>2. Separates(p) \/ Expires(p) => arb[p].age # 0
    BY <1>1, ParameterAssumption DEF Separates, Expires, ArbRecord
  <2> QED
    BY <1>1, <2>1, <2>2, SolvedCached
<1>3. /\ begun' = IF Separates(p) THEN begun \ {p} ELSE begun
      /\ cached' = IF Expires(p) THEN cached \ {p} ELSE cached
      /\ arbiters' = arbiters /\ threaded' = threaded
      /\ \A q \in Pair \ {p} : arb'[q] = arb[q]
  BY <1>1 DEF FilterArbiter
<1>4. CASE Expires(p)
  <2>1. p \notin begun'
    <3>1. CASE Separates(p)
      BY <1>3, <3>1
    <3>2. CASE ~Separates(p)
      <4>1. arb[p].age >= 1
        BY <1>1, <1>4, ParameterAssumption DEF Expires, ArbRecord
      <4>2. arb[p].state = "cached"
        BY <1>1, <1>4, <3>2, <4>1 DEF Expires, Separates, ArbRecord
      <4> QED
        BY <1>1, <1>3, <3>2, <4>2 DEF Alt
    <3> QED
      BY <3>1, <3>2
  <2> QED
    BY <1>1, <1>2, <1>3, <1>4, <2>1 DEF Alt
<1>5. CASE ~Expires(p) /\ Separates(p)
  <2>1. arb'[p].state = "cached"
    BY <1>1, <1>5 DEF FilterArbiter, ArbRecord
  <2> QED
    BY <1>1, <1>2, <1>3, <1>5, <2>1 DEF Alt
<1>6. CASE ~Expires(p) /\ ~Separates(p)
  <2>1. arb'[p] = arb[p]
    BY <1>1, <1>6 DEF FilterArbiter
  <2> QED
    BY <1>1, <1>3, <1>6, <2>1 DEF Alt
<1> QED
  BY <1>4, <1>5, <1>6

\* A pair that postSolve ignores was told of, and still is.
LEMMA StepEndAlt ==
  ASSUME SleepInv, Alt, NEW I, NEW W, StepEnd(I, W)
  PROVE  Alt'
<1> DEFINE R == Waking(W)
<1>1. /\ threaded' = threaded /\ begun' = begun /\ I \subseteq arbiters
      /\ cached' = RestoredCached(R) /\ arbiters' = RestoredArbiters(R)
      /\ arb' = [p \in Pair |-> IF p \in I THEN [RestoredArb(R)[p] EXCEPT !.state = "ignore"]
                                ELSE RestoredArb(R)[p]]
  BY DEF StepEnd
<1> HIDE DEF R
<1>2. /\ Owned(R) \subseteq threaded /\ threaded \subseteq Pair /\ cached \subseteq Pair
      /\ arbiters \subseteq cached
  BY Selections, SolvedCached DEF SleepInv, TypeOK
<1>3. \A p \in Pair : arb'[p].state = IF p \in I THEN "ignore" ELSE arb[p].state
  <2>1. arb \in [Pair -> ArbRecord]
    BY DEF SleepInv, TypeOK, ArbRecord
  <2> QED
    BY <1>1, <2>1 DEF RestoredArb, ArbRecord
<1>4. RestoredCached(R) = cached \cup Owned(R) /\ RestoredArbiters(R) = arbiters \cup Owned(R)
  BY DEF RestoredCached, RestoredArbiters
<1> QED
  BY <1>1, <1>2, <1>3, <1>4 DEF Alt

\* Only what is being solved becomes linked.
LEMMA PushAlt ==
  ASSUME SleepInv, Alt, NEW p, PushArbiter(p) PROVE Alt'
<1> DEFINE W == Woken(Touched(p))
<1>1. /\ threaded' = threaded \cup {p} /\ begun' = begun
      /\ cached' = RestoredCached(W) /\ arbiters' = RestoredArbiters(W) /\ arb' = RestoredArb(W)
  BY DEF PushArbiter
<1> HIDE DEF W
<1>2. /\ p \in arbiters /\ arbiters \subseteq cached
      /\ Owned(W) \subseteq threaded /\ threaded \subseteq Pair /\ cached \subseteq Pair
  BY Selections, SolvedCached DEF PushArbiter, InStep, SleepInv, Progress, TypeOK
<1>3. \A q \in Pair : arb'[q].state = arb[q].state
  <2>1. arb \in [Pair -> ArbRecord]
    BY DEF SleepInv, TypeOK, ArbRecord
  <2> QED
    BY <1>1, <2>1 DEF RestoredArb, ArbRecord
<1>4. RestoredCached(W) = cached \cup Owned(W) /\ RestoredArbiters(W) = arbiters \cup Owned(W)
  BY DEF RestoredCached, RestoredArbiters
<1> QED
  BY <1>1, <1>2, <1>3, <1>4 DEF Alt

LEMMA UserAlt == ASSUME SleepInv, Alt, UserNext PROVE Alt'
<1>1. TypeOK
  BY DEF SleepInv
<1>2. ASSUME NEW b \in Body, BodyActivate(b) \/ SpaceAddBody(b) \/ SpaceRemoveBody(b) PROVE Alt'
  <2>1. CASE BodyActivate(b)
    BY <1>1, <2>1, WakeAlt DEF BodyActivate, ActivateBodies
  <2>2. CASE SpaceAddBody(b)
    BY <2>2, StayAlt DEF SpaceAddBody, arbVars
  <2>3. CASE SpaceRemoveBody(b)
    BY <1>1, <2>3, WakeAlt DEF SpaceRemoveBody
  <2> QED
    BY <1>2, <2>1, <2>2, <2>3
<1>3. ASSUME NEW b \in Body, NEW g, BodySleepWithGroup(b, g) PROVE Alt'
  BY <1>1, <1>3, SleepAlt DEF BodySleepWithGroup
<1>4. ASSUME NEW b \in Body, NEW t, BodySetType(b, t) PROVE Alt'
  BY <1>4, StayAlt DEF BodySetType, arbVars
<1>5. ASSUME NEW s \in Shape, SpaceAddShape(s) PROVE Alt'
  BY <1>1, <1>5, WakeAlt DEF SpaceAddShape
<1>6. ASSUME NEW s \in Shape, NEW V, SpaceRemoveShape(s, V) PROVE Alt'
  BY <1>6, RemoveShapeAlt
<1>7. ASSUME NEW j \in Joint, SpaceAddConstraint(j) \/ SpaceRemoveConstraint(j) PROVE Alt'
  BY <1>1, <1>7, WakeAlt DEF SpaceAddConstraint, SpaceRemoveConstraint, ChangeJoints
<1>8. ASSUME SpaceSetGravity PROVE Alt'
  <2>1. PICK R : ActivateBodies(Woken(R))
    BY <1>8 DEF SpaceSetGravity
  <2>2. UNCHANGED <<threaded, begun>>
    BY <1>8 DEF SpaceSetGravity
  <2> QED
    BY <1>1, <2>1, <2>2, WakeAlt DEF ActivateBodies
<1> QED
  BY <1>2, <1>3, <1>4, <1>5, <1>6, <1>7, <1>8 DEF UserNext

LEMMA RestAlt == ASSUME Careful, SleepInv, Alt, StepRest PROVE Alt'
<1>1. TypeOK
  BY DEF SleepInv
<1>2. ASSUME NEW moving, EndNarrowPhase(moving) PROVE Alt'
  BY <1>1, <1>2, WakeAlt DEF EndNarrowPhase
<1>3. ASSUME HoldJointed PROVE Alt'
  BY <1>1, <1>3, WakeAlt DEF HoldJointed, ActivateBodies
<1>4. ASSUME ProcessComponents PROVE Alt'
  <2>1. PICK W : DeactivateBodies(W)
    BY <1>4 DEF ProcessComponents
  <2>2. UNCHANGED <<threaded, begun>>
    BY <1>4 DEF ProcessComponents
  <2> QED
    BY <1>1, <2>1, <2>2, SleepAlt
<1> QED
  BY <1>2, <1>3, <1>4, CollideAlt, PushAlt, FilterAlt, StepEndAlt DEF StepRest

LEMMA AltInvariant == ASSUME Careful PROVE Spec => []Alt
<1>1. Init => Alt
  BY DEF Init, Alt
<1>2. SleepInv /\ Alt /\ [Next]_vars => Alt'
  <2>1. ASSUME SleepInv, Alt, UNCHANGED vars PROVE Alt'
    BY <2>1, StayAlt DEF vars, arbVars
  <2> QED
    BY <2>1, UserAlt, StepBeginAlt, RestAlt DEF Next
<1> QED
  BY <1>1, <1>2, SleepInvariant, PTL DEF Spec

\* In a careful game begin and separate alternate for every pair, through sensors,
\* sleep, rejected and ignored pairs, and shapes that are removed
\* (cpSpaceCollideShapes(), cpSpaceArbiterSetFilter()).
THEOREM TheyAlternate == ASSUME Careful PROVE Spec => []BeginSeparateAlternate
<1>1. SleepInv /\ Alt => BeginSeparateAlternate
  <2> SUFFICES ASSUME SleepInv, Alt PROVE BeginSeparateAlternate
    OBVIOUS
  <2>1. \A p \in cached : (p \in begun) <=> (arb[p].state # "cached")
    BY DEF Alt
  <2>2. ASSUME phase = "narrow", NEW p \in todo
        PROVE  (p \in begun) <=> (p \in cached /\ arb[p].state \notin {"first", "cached"})
    <3>1. p \notin threaded /\ p \notin arbiters
      BY <2>2, TodoUnlinked DEF SleepInv, Progress
    <3> QED
      BY <3>1 DEF Alt
  <2> QED
    BY <2>1, <2>2 DEF BeginSeparateAlternate
<1> QED
  BY <1>1, SleepInvariant, AltInvariant, PTL
=============================================================================
