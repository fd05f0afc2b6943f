---------------------------- MODULE ZigSpaceProofs ----------------------------
(***************************************************************************)
(* The lists, the sleep and the debts of separation of the Zig space, for  *)
(* any bodies, shapes and constraints, in a game that avoids the calls     *)
(* which removeBody() and setType() do not bear.                           *)
(***************************************************************************)
EXTENDS ZigSpace, SequenceTheorems, FiniteSetTheorems, TLAPS

Fields == {"bodies", "shapes", "dynamic", "static", "dynIndex", "statIndex", "joints", "type",
           "linked", "sleeping", "idle", "arbs", "cache", "begun", "early", "phase", "touching",
           "slept", "todo", "rests", "leaving", "at", "panic", "ops"}
IsSpace(s) == DOMAIN s = Fields

\* t is a space that differs from s in the fields F only.
Only(t, s, F) == IsSpace(s) /\ IsSpace(t) /\ \A f \in Fields \ F : t[f] = s[f]

Shapes == DOMAIN Owner
Joints == DOMAIN Link
Injective(seq) == \A i, k \in DOMAIN seq : seq[i] = seq[k] => i = k
Line(seq, S) == seq \in Seq(S) /\ Injective(seq)

\* The lists hold everything once.
Lined(s) ==
  /\ Line(s.bodies, ZBody) /\ Line(s.shapes, Shapes) /\ Line(s.dynamic, Shapes)
  /\ Line(s.static, Shapes) /\ Line(s.joints, Joints)

\* ZigListsAgree, of any space.
Indexed(s) ==
  /\ s.dynIndex = ToSet(s.dynamic) /\ s.statIndex = ToSet(s.static)
  /\ ToSet(s.static) = {o \in Listed(s) : s.type[Owner[o]] = "static"}
  /\ ToSet(s.dynamic) = {o \in Listed(s) : s.type[Owner[o]] # "static"}
Known(s) ==
  /\ \A P \in DOMAIN s.cache : P \subseteq Listed(s)
  /\ \A P \in s.arbs : P \in DOMAIN s.cache /\ s.cache[P].age = 0   \* it touched this step
Jointed(s) ==
  /\ s.linked \in [ZBody -> SUBSET Joints]
  /\ \A b \in ZBody : s.linked[b] = {j \in ToSet(s.joints) : b \in BodiesOf(j)}
Present(s) ==
  /\ \A o \in Listed(s) : Owner[o] \in ToSet(s.bodies) \cup s.leaving
  /\ \A j \in ToSet(s.joints) : BodiesOf(j) \subseteq ToSet(s.bodies) \cup s.leaving

\* What the loops rely on.
Looping(s) ==
  /\ s.phase \in {"user", "stepped", "query", "wake", "shapes", "joints"}
  /\ s.leaving \subseteq ZBody /\ s.leaving \cap ToSet(s.bodies) = {}
  /\ s.phase \notin {"shapes", "joints"} => s.leaving = {}
  /\ s.phase # "query" => s.todo = {}
  /\ \A t \in s.todo : t[2] \in Listed(s) /\ t[3] \in Listed(s)

\* removeBody() passes over no shape or constraint of the body, since not both of the
\* first shapes are the body's, nor is the first constraint.
Removing(s) ==
  /\ s.at \in Nat \ {0}
  /\ s.phase = "shapes" =>
       /\ \A k \in DOMAIN s.shapes : k < s.at => Owner[s.shapes[k]] \notin s.leaving
       /\ s.at = 1 /\ Len(s.shapes) >= 2 =>
            \E i \in 1 .. 2 : Owner[s.shapes[i]] \notin s.leaving
  /\ s.phase \in {"shapes", "joints"} =>
       \A k \in DOMAIN s.joints : k = 1 => BodiesOf(s.joints[k]) \cap s.leaving = {}
  /\ s.phase = "joints" =>
       /\ \A o \in Listed(s) : Owner[o] \notin s.leaving
       /\ \A k \in DOMAIN s.joints : k < s.at => BodiesOf(s.joints[k]) \cap s.leaving = {}

\* Only dynamic bodies sleep.
Sleeping(s) ==
  /\ s.type \in [ZBody -> {"dynamic", "static"}] /\ s.sleeping \subseteq ZBody
  /\ \A b \in s.sleeping : Dynamic(s, b)

\* Those that should sleep are closed under what the arbiters and constraints hold
\* together, before those that should not are woken; all that sleep are, afterwards.
Closed(S, held) == \A h \in held : h \cap S = {} \/ h \subseteq S
Slept(s) ==
  /\ s.phase = "wake" => s.rests \subseteq s.sleeping /\ Closed(s.rests, Held(s))
  /\ s.phase = "stepped" => Closed(s.sleeping, Held(s))

\* A pair that touches in this step is still to be reported, or was found in it, or is of
\* bodies that both slept when it began: queryPairs() puts nobody to sleep.
Waiting(s, P) == \E t \in s.todo : P = PairKey(t[2], t[3])
Found(s, P) == P \in DOMAIN s.cache /\ s.cache[P].age = 0
Overslept(s, P) == \A o \in P : Owner[o] \in s.slept
Seen(s, P) == Waiting(s, P) \/ Found(s, P) \/ Overslept(s, P)
Touched(s) ==
  /\ s.phase = "query" => s.sleeping \subseteq s.slept
  /\ s.phase \in {"query", "wake", "stepped"} => \A P \in s.touching : Seen(s, P)

\* ZigSeparateOwed, and the entries of the cache.
Entry == [age : Nat, separated : BOOLEAN]
Owed(s) ==
  /\ \A P \in DOMAIN s.cache : s.cache[P] \in Entry
  /\ \A P \in s.begun : P \in DOMAIN s.cache /\ ~s.cache[P].separated

ZigInv ==
  /\ IsSpace(zsp) /\ Lined(zsp) /\ Indexed(zsp) /\ Known(zsp) /\ Jointed(zsp) /\ Present(zsp)
  /\ Looping(zsp) /\ Removing(zsp) /\ Sleeping(zsp) /\ Slept(zsp) /\ Touched(zsp)
  /\ Owed(zsp) /\ ~zsp.panic

-----------------------------------------------------------------------------
(* Lists *)

\* An element more at the end.
LEMMA Appended ==
  ASSUME NEW S, NEW seq, Line(seq, S), NEW x \in S, x \notin ToSet(seq)
  PROVE  /\ Line(Append(seq, x), S) /\ ToSet(Append(seq, x)) = ToSet(seq) \cup {x}
<1> DEFINE new == Append(seq, x)
<1>1. /\ new \in Seq(S) /\ Len(new) = Len(seq) + 1 /\ Len(seq) \in Nat
      /\ \A i \in 1 .. Len(seq) : new[i] = seq[i]
      /\ new[Len(seq) + 1] = x
  BY DEF Line
<1>2. DOMAIN seq = 1 .. Len(seq) /\ DOMAIN new = 1 .. Len(seq) + 1
  BY <1>1 DEF Line
<1> HIDE DEF new
<1>3. ToSet(new) = ToSet(seq) \cup {x}
  BY <1>1, <1>2 DEF ToSet
<1>4. Injective(new)
  BY <1>1, <1>2 DEF Line, Injective, ToSet
<1> QED BY <1>1, <1>3, <1>4 DEF Line, new

\* An element less: the later ones close up.
LEMMA RemovedAt ==
  ASSUME NEW S, NEW seq \in Seq(S), NEW i \in DOMAIN seq
  PROVE  /\ RemoveAt(seq, i) \in Seq(S) /\ Len(RemoveAt(seq, i)) = Len(seq) - 1
         /\ \A k \in 1 .. Len(seq) - 1 : RemoveAt(seq, i)[k] = IF k < i THEN seq[k] ELSE seq[k + 1]
<1> DEFINE n == Len(seq)
           a == SubSeq(seq, 1, i - 1)
           c == SubSeq(seq, i + 1, n)
<1>1. n \in Nat /\ DOMAIN seq = 1 .. n /\ i \in 1 .. n /\ i \in Int
  OBVIOUS
<1>2. a \in Seq(S) /\ Len(a) = i - 1 /\ \A k \in 1 .. i - 1 : a[k] = seq[k]
  BY <1>1, SubSeqProperties
<1>3. c \in Seq(S) /\ Len(c) = n - i /\ \A k \in 1 .. n - i : c[k] = seq[k + i]
  BY <1>1, SubSeqProperties
<1>4. RemoveAt(seq, i) = a \o c
  BY DEF RemoveAt
<1> HIDE DEF a, c, n
<1>5. /\ a \o c \in Seq(S) /\ Len(a \o c) = Len(a) + Len(c)
      /\ \A k \in 1 .. Len(a) + Len(c) :
           (a \o c)[k] = IF k <= Len(a) THEN a[k] ELSE c[k - Len(a)]
  BY <1>2, <1>3, ConcatProperties
<1>6. \A k \in 1 .. n - 1 : (a \o c)[k] = IF k < i THEN seq[k] ELSE seq[k + 1]
  <2> SUFFICES ASSUME NEW k \in 1 .. n - 1
               PROVE  (a \o c)[k] = IF k < i THEN seq[k] ELSE seq[k + 1]
    OBVIOUS
  <2>1. CASE k < i
    BY <1>1, <1>2, <1>3, <1>5, <2>1
  <2>2. CASE k >= i
    <3>1. k - (i - 1) \in 1 .. n - i /\ k - (i - 1) + i = k + 1
      BY <1>1, <2>2
    <3>2. c[k - (i - 1)] = seq[k + 1]
      BY <1>3, <3>1
    <3>3. k \in 1 .. Len(a) + Len(c) /\ ~(k <= Len(a)) /\ k - Len(a) = k - (i - 1) /\ ~(k < i)
      BY <1>1, <1>2, <1>3, <2>2
    <3> QED BY <1>5, <3>2, <3>3
  <2>3. k < i \/ k >= i
    BY <1>1
  <2> QED BY <2>1, <2>2, <2>3
<1>7. Len(a \o c) = n - 1
  BY <1>1, <1>2, <1>3, <1>5
<1> QED BY <1>4, <1>5, <1>6, <1>7 DEF n

LEMMA Removed ==
  ASSUME NEW S, NEW seq, Line(seq, S), NEW i \in DOMAIN seq,
         NEW new, new = RemovePtr(seq, seq[i])
  PROVE  /\ Line(new, S) /\ ToSet(new) = ToSet(seq) \ {seq[i]}
         /\ Len(new) = Len(seq) - 1
         /\ \A k \in DOMAIN new : new[k] = IF k < i THEN seq[k] ELSE seq[k + 1]
<1> DEFINE n == Len(seq)
<1>0. seq \in Seq(S) /\ DOMAIN seq = 1 .. n /\ n \in Nat /\ i \in 1 .. n /\ Injective(seq)
  BY DEF Line
<1>1. new = RemoveAt(seq, i)
  <2>1. i \in DOMAIN seq /\ seq[i] = seq[i] /\ \A k \in 1 .. i - 1 : seq[k] # seq[i]
    BY <1>0 DEF Injective
  <2>2. \A k \in DOMAIN seq : seq[k] = seq[i] => k = i
    BY <1>0 DEF Injective
  <2>3. (CHOOSE j \in DOMAIN seq : seq[j] = seq[i] /\ \A k \in 1 .. j - 1 : seq[k] # seq[i]) = i
    BY <2>1, <2>2
  <2>4. seq[i] \in ToSet(seq)
    BY DEF ToSet
  <2> QED BY <2>3, <2>4 DEF RemovePtr
<1>2. /\ new \in Seq(S) /\ Len(new) = n - 1
      /\ \A k \in 1 .. n - 1 : new[k] = IF k < i THEN seq[k] ELSE seq[k + 1]
  BY <1>0, <1>1, RemovedAt
<1>3. DOMAIN new = 1 .. n - 1
  BY <1>2
<1> HIDE DEF n
<1>4. Injective(new)
  <2> SUFFICES ASSUME NEW k \in 1 .. n - 1, NEW m \in 1 .. n - 1, new[k] = new[m] PROVE k = m
    BY <1>3 DEF Injective
  <2> DEFINE f(j) == IF j < i THEN j ELSE j + 1
  <2>1. f(k) \in 1 .. n /\ f(m) \in 1 .. n /\ new[k] = seq[f(k)] /\ new[m] = seq[f(m)]
    BY <1>0, <1>2
  <2>2. f(k) = f(m)
    BY <1>0, <2>1 DEF Injective
  <2> QED BY <1>0, <2>2
<1>5. ToSet(new) = ToSet(seq) \ {seq[i]}
  <2>1. ASSUME NEW x \in ToSet(new) PROVE x \in ToSet(seq) /\ x # seq[i]
    <3>1. PICK k \in 1 .. n - 1 : x = new[k]
      BY <1>3 DEF ToSet
    <3>2. CASE k < i
      BY <1>0, <1>2, <3>1, <3>2 DEF ToSet, Injective
    <3>3. CASE k >= i
      <4>1. k + 1 \in 1 .. n /\ k + 1 # i /\ x = seq[k + 1]
        BY <1>0, <1>2, <3>1, <3>3
      <4> QED BY <1>0, <4>1 DEF ToSet, Injective
    <3> QED BY <1>0, <3>2, <3>3
  <2>2. ASSUME NEW x \in ToSet(seq), x # seq[i] PROVE x \in ToSet(new)
    <3>1. PICK k \in 1 .. n : x = seq[k]
      BY <1>0 DEF ToSet
    <3>2. CASE k < i
      <4>1. k \in 1 .. n - 1 /\ new[k] = x
        BY <1>0, <1>2, <3>1, <3>2
      <4> QED BY <1>3, <4>1 DEF ToSet
    <3>3. CASE k > i
      <4>1. k - 1 \in 1 .. n - 1 /\ new[k - 1] = x
        BY <1>0, <1>2, <3>1, <3>3
      <4> QED BY <1>3, <4>1 DEF ToSet
    <3> QED BY <1>0, <2>2, <3>1, <3>2, <3>3
  <2> QED BY <2>1, <2>2
<1> QED BY <1>2, <1>3, <1>4, <1>5 DEF Line, n

LEMMA RemovedFrom ==
  ASSUME NEW S, NEW seq, Line(seq, S), NEW x
  PROVE  Line(RemovePtr(seq, x), S) /\ ToSet(RemovePtr(seq, x)) = ToSet(seq) \ {x}
<1>1. CASE x \in ToSet(seq)
  <2>1. PICK i \in DOMAIN seq : x = seq[i]
    BY <1>1 DEF ToSet
  <2> QED BY <2>1, Removed
<1>2. CASE x \notin ToSet(seq)
  BY <1>2 DEF RemovePtr
<1> QED BY <1>1, <1>2

-----------------------------------------------------------------------------
(* What each operator changes *)

\* A part of the invariant that is about other fields stays.
LEMMA Frame ==
  ASSUME NEW s, NEW t, NEW F, Only(t, s, F)
  PROVE  /\ F \cap {"bodies", "shapes", "dynamic", "static", "joints"} = {} =>
              (Lined(s) => Lined(t))
         /\ F \cap {"dynIndex", "dynamic", "statIndex", "static", "shapes", "type"} = {} =>
              (Indexed(s) => Indexed(t))
         /\ F \cap {"cache", "shapes", "arbs"} = {} => (Known(s) => Known(t))
         /\ F \cap {"linked", "joints"} = {} => (Jointed(s) => Jointed(t))
         /\ F \cap {"shapes", "bodies", "leaving", "joints"} = {} => (Present(s) => Present(t))
         /\ F \cap {"cache", "begun"} = {} => (Owed(s) => Owed(t))
         /\ F \cap {"type", "sleeping"} = {} => (Sleeping(s) => Sleeping(t))
<1>1. \A f \in Fields : f \notin F => t[f] = s[f]
  BY DEF Only
<1>2. F \cap {"bodies", "shapes", "dynamic", "static", "joints"} = {} => (Lined(s) => Lined(t))
  BY <1>1 DEF Fields, Lined
<1>3. F \cap {"dynIndex", "dynamic", "statIndex", "static", "shapes", "type"} = {} =>
        (Indexed(s) => Indexed(t))
  <2> SUFFICES ASSUME F \cap {"dynIndex", "dynamic", "statIndex", "static", "shapes", "type"} = {},
                      Indexed(s)
               PROVE  Indexed(t)
    OBVIOUS
  <2>1. /\ t.dynIndex = s.dynIndex /\ t.dynamic = s.dynamic /\ t.statIndex = s.statIndex
        /\ t.static = s.static /\ t.shapes = s.shapes /\ t.type = s.type
    BY <1>1 DEF Fields
  <2> QED BY <2>1 DEF Indexed, Listed
<1>4. F \cap {"cache", "shapes", "arbs"} = {} => (Known(s) => Known(t))
  BY <1>1 DEF Fields, Known, Listed
<1>5. F \cap {"linked", "joints"} = {} => (Jointed(s) => Jointed(t))
  BY <1>1 DEF Fields, Jointed
<1>6. F \cap {"shapes", "bodies", "leaving", "joints"} = {} => (Present(s) => Present(t))
  BY <1>1 DEF Fields, Present, Listed
<1>7. F \cap {"cache", "begun"} = {} => (Owed(s) => Owed(t))
  BY <1>1 DEF Fields, Owed
<1>8. F \cap {"type", "sleeping"} = {} => (Sleeping(s) => Sleeping(t))
  BY <1>1 DEF Fields, Sleeping, Dynamic
<1> QED BY <1>2, <1>3, <1>4, <1>5, <1>6, <1>7, <1>8

LEMMA WakeIs ==
  ASSUME NEW s, IsSpace(s), NEW B
  PROVE  Only(Wake(s, B), s, {"sleeping", "idle"}) /\ Wake(s, B).sleeping = s.sleeping \ B
BY DEF Wake, Only, IsSpace, Fields

\* activateBody() wakes b, and what a constraint of b joins to b.
LEMMA ActivateIs ==
  ASSUME NEW s, IsSpace(s), NEW b
  PROVE  LET t == Activate(s, b)
         IN  /\ Only(t, s, {"sleeping", "idle"}) /\ t.sleeping \subseteq s.sleeping
             /\ \A c \in s.sleeping : c \in t.sleeping
                                     \/ c = b \/ \E j \in s.linked[b] : BodiesOf(j) = {b, c}
<1> DEFINE across == {o \in s.sleeping : \E j \in s.linked[b] : BodiesOf(j) = {b, o}}
           B == IF Dynamic(s, b) THEN {b} \cup {o \in across : Dynamic(s, o)} ELSE {b}
<1>1. Activate(s, b) = Wake(s, B)
  BY DEF Activate
<1>2. \A c \in B : c = b \/ \E j \in s.linked[b] : BodiesOf(j) = {b, c}
  OBVIOUS
<1> HIDE DEF B
<1> QED BY <1>1, <1>2, WakeIs

LEMMA FetchIs ==
  ASSUME NEW s, IsSpace(s), NEW P
  PROVE  LET t == FetchArbiter(s, P)
         IN  /\ Only(t, s, {"cache"}) /\ DOMAIN t.cache = DOMAIN s.cache \cup {P}
             /\ t.cache[P] \in Entry /\ ~t.cache[P].separated /\ t.cache[P].age = 0
             /\ \A Q \in DOMAIN s.cache : Q # P => t.cache[Q] = s.cache[Q]
<1> DEFINE e == [age |-> 0, separated |-> FALSE]
           c == [Q \in DOMAIN s.cache \cup {P} |-> IF Q # P THEN s.cache[Q] ELSE e]
           t == FetchArbiter(s, P)
<1>1. e \in Entry /\ ~e.separated /\ e.age = 0
  BY DEF Entry
<1>2. t = [s EXCEPT !.cache = c]
  BY DEF FetchArbiter
<1> HIDE DEF e
<1>3. /\ DOMAIN c = DOMAIN s.cache \cup {P} /\ c[P] = e
      /\ \A Q \in DOMAIN s.cache : Q # P => c[Q] = s.cache[Q]
  OBVIOUS
<1> HIDE DEF c, t
<1>4. Only(t, s, {"cache"}) /\ t.cache = c
  BY <1>2 DEF Only, IsSpace, Fields
<1> QED BY <1>1, <1>3, <1>4 DEF t

\* What is filtered goes from arbiters, cache and debts alike.
LEMMA FilterIs ==
  ASSUME NEW s, IsSpace(s), NEW gone
  PROVE  LET t == FilterArbiters(s, gone)
         IN  /\ Only(t, s, {"arbs", "begun", "cache"})
             /\ t.arbs = {P \in s.arbs : P \cap gone = {}}
             /\ t.begun = {P \in s.begun : P \cap gone = {}}
             /\ DOMAIN t.cache = {P \in DOMAIN s.cache : P \cap gone = {}}
             /\ \A P \in DOMAIN t.cache : t.cache[P] = s.cache[P]
             /\ Owed(s) => Owed(t)
<1> DEFINE t == FilterArbiters(s, gone)
<1>1. /\ Only(t, s, {"arbs", "begun", "cache"})
      /\ t.arbs = {P \in s.arbs : P \cap gone = {}}
      /\ t.begun = {P \in s.begun : P \cap gone = {}}
      /\ t.cache = [P \in {Q \in DOMAIN s.cache : Q \cap gone = {}} |-> s.cache[P]]
  BY DEF FilterArbiters, Only, IsSpace, Fields
<1> HIDE DEF t
<1>2. Owed(s) => Owed(t)
  BY <1>1 DEF Owed
<1> QED BY <1>1, <1>2 DEF t

LEMMA CalledIs ==
  ASSUME NEW s, IsSpace(s)
  PROVE  /\ Only(Called(s), s, {"phase", "early", "touching", "slept", "ops"})
         /\ Called(s).phase = "user"
BY DEF Called, Only, IsSpace, Fields

\* removeShape() keeps the lists and indexes in agreement.
LEMMA ShapeRemovedIs ==
  ASSUME NEW s, IsSpace(s), NEW o, Lined(s), Indexed(s), Known(s), Owed(s)
  PROVE  LET t == ShapeRemoved(s, o)
         IN  /\ Only(t, s, {"shapes", "dynamic", "static", "dynIndex", "statIndex", "arbs",
                            "begun", "cache"})
             /\ t.shapes = RemovePtr(s.shapes, o) /\ Listed(t) = Listed(s) \ {o}
             /\ Lined(t) /\ Indexed(t) /\ Known(t) /\ Owed(t)
<1> DEFINE r == [s EXCEPT !.shapes = RemovePtr(@, o)]
           f == FilterArbiters(r, {o})
           t == ShapeRemoved(s, o)
<1>1. Only(r, s, {"shapes"}) /\ r.shapes = RemovePtr(s.shapes, o)
  BY DEF Only, IsSpace, Fields
<1> HIDE DEF r
<1>2. /\ Line(r.shapes, Shapes) /\ Listed(r) = Listed(s) \ {o}
  BY <1>1, RemovedFrom DEF Lined, Listed
<1>3. Owed(r)
  BY <1>1, Frame
<1>4. /\ Only(f, r, {"arbs", "begun", "cache"}) /\ Owed(f)
      /\ f.arbs = {P \in r.arbs : P \cap {o} = {}}
      /\ DOMAIN f.cache = {P \in DOMAIN r.cache : P \cap {o} = {}}
      /\ \A P \in DOMAIN f.cache : f.cache[P] = r.cache[P]
  BY <1>1, <1>3, FilterIs DEF Only
<1> HIDE DEF f
<1>5. /\ IsSpace(f) /\ f.shapes = r.shapes /\ f.type = s.type /\ f.bodies = s.bodies
      /\ f.joints = s.joints
      /\ f.dynamic = s.dynamic /\ f.static = s.static
      /\ f.dynIndex = s.dynIndex /\ f.statIndex = s.statIndex
  BY <1>1, <1>4 DEF Only, Fields
<1>6. Known(f)
  BY <1>1, <1>2, <1>4, <1>5 DEF Known, Listed, Only, Fields
<1>7. Only(f, s, {"shapes", "arbs", "begun", "cache"})
  BY <1>1, <1>4 DEF Only
<1>8. t = IF s.type[Owner[o]] = "static" THEN StaticRemoved(f, o) ELSE DynamicRemoved(f, o)
  BY DEF ShapeRemoved, f, r
<1> HIDE DEF t
<1>9. CASE s.type[Owner[o]] = "static"
  <2>1. /\ Only(t, f, {"static", "statIndex"})
        /\ t.static = RemovePtr(f.static, o) /\ t.statIndex = f.statIndex \ {o}
    BY <1>5, <1>8, <1>9 DEF StaticRemoved, Only, IsSpace, Fields
  <2>2. Line(t.static, Shapes) /\ ToSet(t.static) = ToSet(s.static) \ {o}
    BY <1>5, <2>1, RemovedFrom DEF Lined
  <2>3. /\ t.shapes = r.shapes /\ t.dynamic = s.dynamic /\ t.dynIndex = s.dynIndex
        /\ t.type = s.type /\ t.bodies = s.bodies /\ t.joints = s.joints
    BY <1>5, <2>1 DEF Only, Fields
  <2>4. Lined(t)
    BY <1>2, <2>2, <2>3 DEF Lined
  <2>5. o \notin ToSet(s.dynamic)
    BY <1>9 DEF Indexed
  <2>6. Indexed(t)
    BY <1>2, <1>5, <1>9, <2>1, <2>2, <2>3, <2>5 DEF Indexed, Listed
  <2>7. Known(t) /\ Owed(t)
    BY <1>4, <1>6, <2>1, Frame
  <2>8. Only(t, s, {"shapes", "dynamic", "static", "dynIndex", "statIndex", "arbs", "begun", "cache"})
    BY <1>7, <2>1 DEF Only
  <2> QED BY <1>1, <1>2, <2>3, <2>4, <2>6, <2>7, <2>8 DEF t, Listed
<1>10. CASE s.type[Owner[o]] # "static"
  <2>1. /\ Only(t, f, {"dynamic", "dynIndex"})
        /\ t.dynamic = RemovePtr(f.dynamic, o) /\ t.dynIndex = f.dynIndex \ {o}
    BY <1>5, <1>8, <1>10 DEF DynamicRemoved, Only, IsSpace, Fields
  <2>2. Line(t.dynamic, Shapes) /\ ToSet(t.dynamic) = ToSet(s.dynamic) \ {o}
    BY <1>5, <2>1, RemovedFrom DEF Lined
  <2>3. /\ t.shapes = r.shapes /\ t.static = s.static /\ t.statIndex = s.statIndex
        /\ t.type = s.type /\ t.bodies = s.bodies /\ t.joints = s.joints
    BY <1>5, <2>1 DEF Only, Fields
  <2>4. Lined(t)
    BY <1>2, <2>2, <2>3 DEF Lined
  <2>5. o \notin ToSet(s.static)
    BY <1>10 DEF Indexed
  <2>6. Indexed(t)
    BY <1>2, <1>5, <1>10, <2>1, <2>2, <2>3, <2>5 DEF Indexed, Listed
  <2>7. Known(t) /\ Owed(t)
    BY <1>4, <1>6, <2>1, Frame
  <2>8. Only(t, s, {"shapes", "dynamic", "static", "dynIndex", "statIndex", "arbs", "begun", "cache"})
    BY <1>7, <2>1 DEF Only
  <2> QED BY <1>1, <1>2, <2>3, <2>4, <2>6, <2>7, <2>8 DEF t, Listed
<1> QED BY <1>9, <1>10

\* removeConstraint() takes it from the lists of the bodies too.
LEMMA JointRemovedIs ==
  ASSUME NEW s, IsSpace(s), NEW j, Lined(s), Jointed(s)
  PROVE  LET t == JointRemoved(s, j)
         IN  /\ Only(t, s, {"joints", "linked"})
             /\ t.joints = RemovePtr(s.joints, j) /\ ToSet(t.joints) = ToSet(s.joints) \ {j}
             /\ Lined(t) /\ Jointed(t)
<1> DEFINE t == JointRemoved(s, j)
<1>1. /\ Only(t, s, {"joints", "linked"}) /\ t.joints = RemovePtr(s.joints, j)
      /\ t.linked = [b \in ZBody |-> s.linked[b] \ {j}]
  BY DEF JointRemoved, Only, IsSpace, Fields
<1> HIDE DEF t
<1>2. Line(t.joints, Joints) /\ ToSet(t.joints) = ToSet(s.joints) \ {j}
  BY <1>1, RemovedFrom DEF Lined
<1>3. Lined(t)
  BY <1>1, <1>2 DEF Lined, Only, Fields
<1>4. Jointed(t)
  BY <1>1, <1>2 DEF Jointed
<1> QED BY <1>1, <1>2, <1>3, <1>4 DEF t

-----------------------------------------------------------------------------
(* The game's calls *)

\* A call of the game comes when no loop runs, and leaves none running.
LEMMA Quiet ==
  ASSUME ZigInv, Control
  PROVE  zsp.leaving = {} /\ zsp.todo = {}
BY DEF ZigInv, Looping, Control

LEMMA CallKeeps ==
  ASSUME NEW r, IsSpace(r), Lined(r), Indexed(r), Known(r), Jointed(r), Present(r), Owed(r),
         Sleeping(r), r.leaving = {}, r.todo = {}, r.at \in Nat \ {0}, ~r.panic,
         zsp' = Called(r)
  PROVE  ZigInv'
<1> DEFINE t == Called(r)
<1>1. Only(t, r, {"phase", "early", "touching", "slept", "ops"}) /\ t.phase = "user"
  BY CalledIs
<1> HIDE DEF t
<1>2. /\ Lined(t) /\ Indexed(t) /\ Known(t) /\ Jointed(t) /\ Present(t) /\ Owed(t)
      /\ Sleeping(t)
  BY <1>1, Frame
<1>3. /\ IsSpace(t) /\ t.leaving = {} /\ t.todo = {} /\ t.at \in Nat \ {0} /\ ~t.panic
  BY <1>1 DEF Only, Fields
<1>4. Looping(t) /\ Removing(t) /\ Slept(t) /\ Touched(t)
  BY <1>1, <1>3 DEF Looping, Removing, Slept, Touched
<1>5. zsp' = t
  BY DEF t
<1> QED BY <1>2, <1>3, <1>4, <1>5 DEF ZigInv

LEMMA AddBodyKeeps ==
  ASSUME ZigInv, ZCareful, NEW b \in ZBody, AddBody(b)
  PROVE  ZigInv'
<1> DEFINE r == [zsp EXCEPT !.bodies = Append(@, b), !.linked[b] = {}]
           w == Wake(r, {b})
<1>1. zsp' = Called(w)
  BY DEF AddBody
<1>2. /\ Only(r, zsp, {"bodies", "linked"}) /\ r.bodies = Append(zsp.bodies, b)
      /\ r.linked = [zsp.linked EXCEPT ![b] = {}]
  BY DEF ZigInv, Only, IsSpace, Fields
<1> HIDE DEF r
<1>3. Only(w, r, {"sleeping", "idle"}) /\ w.sleeping = r.sleeping \ {b}
  BY <1>2, WakeIs DEF Only
<1> HIDE DEF w
<1>4. Line(r.bodies, ZBody) /\ ToSet(r.bodies) = ToSet(zsp.bodies) \cup {b}
  BY <1>2, Appended DEF ZigInv, Lined, AddBody
<1>5. Lined(r)
  BY <1>2, <1>4 DEF ZigInv, Lined, Only, Fields
<1>6. Indexed(r) /\ Known(r) /\ Owed(r) /\ Sleeping(r)
  BY <1>2, Frame DEF ZigInv
<1>7. Jointed(r)
  <2>1. r.joints = zsp.joints
    BY <1>2 DEF Only, Fields
  <2>2. \A j \in ToSet(zsp.joints) : b \notin BodiesOf(j)
    BY DEF AddBody
  <2> QED BY <1>2, <2>1, <2>2 DEF ZigInv, Jointed
<1>8. Present(r)
  BY <1>2, <1>4 DEF ZigInv, Present, Listed, Only, Fields
<1>9. Lined(w) /\ Indexed(w) /\ Known(w) /\ Jointed(w) /\ Present(w) /\ Owed(w)
  BY <1>3, <1>5, <1>6, <1>7, <1>8, Frame
<1>10. Sleeping(w)
  BY <1>3, <1>6 DEF Sleeping, Dynamic, Only, Fields
<1>11. w.leaving = {} /\ w.todo = {} /\ w.at \in Nat \ {0} /\ ~w.panic /\ IsSpace(w)
  BY <1>2, <1>3, Quiet DEF AddBody, Changing, ZigInv, Removing, Only, Fields
<1> QED BY <1>1, <1>9, <1>10, <1>11, CallKeeps

\* removeBody() forgets the pairs of the body before it starts its loops.
LEMMA RemoveBodyKeeps ==
  ASSUME ZigInv, ZCareful, NEW b \in ZBody, RemoveBody(b)
  PROVE  ZigInv'
<1> DEFINE r == [zsp EXCEPT !.bodies = RemovePtr(@, b)]
           f == FilterArbiters(r, {o \in DOMAIN Owner : Owner[o] = b})
           c == Called(f)
           t == [c EXCEPT !.phase = "shapes", !.leaving = {b}, !.at = 1]
<1>1. zsp' = t
  BY DEF RemoveBody
<1>2. Only(r, zsp, {"bodies"}) /\ r.bodies = RemovePtr(zsp.bodies, b)
  BY DEF ZigInv, Only, IsSpace, Fields
<1> HIDE DEF r
<1>3. Line(r.bodies, ZBody) /\ ToSet(r.bodies) = ToSet(zsp.bodies) \ {b}
  BY <1>2, RemovedFrom DEF ZigInv, Lined
<1>4. Lined(r) /\ Indexed(r) /\ Known(r) /\ Jointed(r) /\ Owed(r) /\ Sleeping(r)
  <2>1. Lined(r)
    BY <1>2, <1>3 DEF ZigInv, Lined, Only, Fields
  <2> QED BY <1>2, <2>1, Frame DEF ZigInv
<1>5. /\ Only(f, r, {"arbs", "begun", "cache"}) /\ Owed(f)
      /\ f.arbs \subseteq {P \in r.arbs : P \cap {o \in DOMAIN Owner : Owner[o] = b} = {}}
      /\ DOMAIN f.cache = {P \in DOMAIN r.cache : P \cap {o \in DOMAIN Owner : Owner[o] = b} = {}}
      /\ \A P \in DOMAIN f.cache : f.cache[P] = r.cache[P]
  BY <1>2, <1>4, FilterIs DEF Only
<1> HIDE DEF f
<1>6. Lined(f) /\ Indexed(f) /\ Jointed(f) /\ Sleeping(f)
  BY <1>4, <1>5, Frame
<1>7. Known(f)
  BY <1>4, <1>5 DEF Known, Listed, Only, Fields
<1>8. Only(c, f, {"phase", "early", "touching", "slept", "ops"})
  BY <1>5, CalledIs DEF Only
<1> HIDE DEF c
<1>9. /\ Only(t, c, {"phase", "leaving", "at"})
      /\ t.phase = "shapes" /\ t.leaving = {b} /\ t.at = 1
  BY <1>8 DEF Only, IsSpace, Fields
<1> HIDE DEF t
<1>10. Only(t, f, {"phase", "early", "touching", "slept", "ops", "leaving", "at"})
  BY <1>8, <1>9 DEF Only
<1>11. Lined(t) /\ Indexed(t) /\ Known(t) /\ Jointed(t) /\ Owed(t) /\ Sleeping(t)
  BY <1>5, <1>6, <1>7, <1>10, Frame
<1>12. /\ t.bodies = r.bodies /\ t.shapes = zsp.shapes /\ t.joints = zsp.joints
       /\ t.todo = {} /\ ~t.panic /\ zsp.leaving = {}
  BY <1>2, <1>5, <1>10, Quiet DEF RemoveBody, Changing, ZigInv, Only, Fields
<1>13. Present(t)
  BY <1>3, <1>9, <1>12 DEF ZigInv, Present, Listed
<1>14. Looping(t) /\ Slept(t) /\ Touched(t)
  BY <1>3, <1>9, <1>12 DEF Looping, Slept, Touched
<1>15. Removing(t)
  <2>1. Len(zsp.shapes) >= 2 => \E i \in 1 .. 2 : Owner[zsp.shapes[i]] # b
    BY DEF RemoveBody
  <2>2. \A k \in DOMAIN zsp.joints : k = 1 => b \notin BodiesOf(zsp.joints[k])
    <3>1. zsp.joints # <<>> => b \notin BodiesOf(zsp.joints[1])
      BY DEF RemoveBody
    <3>2. zsp.joints \in Seq(Joints)
      BY DEF ZigInv, Lined, Line
    <3> QED BY <3>1, <3>2
  <2>3. zsp.shapes \in Seq(Shapes)
    BY DEF ZigInv, Lined, Line
  <2>4. \A k \in DOMAIN t.shapes : ~(k < t.at)
    BY <1>9, <1>12, <2>3
  <2> QED BY <1>9, <1>12, <2>1, <2>2, <2>4 DEF Removing
<1>16. IsSpace(t)
  BY <1>9 DEF Only
<1> QED BY <1>1, <1>11, <1>12, <1>13, <1>14, <1>15, <1>16 DEF ZigInv

LEMMA AddShapeKeeps ==
  ASSUME ZigInv, ZCareful, NEW o \in Shapes, AddShape(o)
  PROVE  ZigInv'
<1> DEFINE fixed == [zsp EXCEPT !.shapes = Append(@, o), !.static = Append(@, o),
                                !.statIndex = @ \cup {o}]
           moving == [zsp EXCEPT !.shapes = Append(@, o), !.dynamic = Append(@, o),
                                 !.dynIndex = @ \cup {o}]
           r == IF zsp.type[Owner[o]] = "static" THEN fixed ELSE moving
           G == {"shapes", "static", "statIndex", "dynamic", "dynIndex"}
<1>1. zsp' = Called(r)
  BY DEF AddShape
<1>2. /\ Only(fixed, zsp, {"shapes", "static", "statIndex"})
      /\ fixed.shapes = Append(zsp.shapes, o) /\ fixed.static = Append(zsp.static, o)
      /\ fixed.statIndex = zsp.statIndex \cup {o}
  BY DEF ZigInv, Only, IsSpace, Fields
<1>3. /\ Only(moving, zsp, {"shapes", "dynamic", "dynIndex"})
      /\ moving.shapes = Append(zsp.shapes, o) /\ moving.dynamic = Append(zsp.dynamic, o)
      /\ moving.dynIndex = zsp.dynIndex \cup {o}
  BY DEF ZigInv, Only, IsSpace, Fields
<1> HIDE DEF fixed, moving
<1>4. /\ Line(zsp.shapes, Shapes) /\ o \notin ToSet(zsp.shapes)
      /\ Line(zsp.static, Shapes) /\ o \notin ToSet(zsp.static)
      /\ Line(zsp.dynamic, Shapes) /\ o \notin ToSet(zsp.dynamic)
  BY DEF AddShape, ZigInv, Lined, Indexed, Listed
<1>5. /\ \A q \in {zsp.shapes, zsp.static, zsp.dynamic} :
           Line(Append(q, o), Shapes) /\ ToSet(Append(q, o)) = ToSet(q) \cup {o}
  BY <1>4, Appended
<1>6. /\ Only(r, zsp, G) /\ r.shapes = Append(zsp.shapes, o)
      /\ Listed(r) = Listed(zsp) \cup {o}
  BY <1>2, <1>3, <1>5 DEF Only, Listed
<1>7. Lined(r) /\ Indexed(r)
  <2>1. CASE zsp.type[Owner[o]] = "static"
    <3>1. /\ Line(r.shapes, Shapes) /\ Line(r.static, Shapes)
          /\ ToSet(r.static) = ToSet(zsp.static) \cup {o} /\ r.statIndex = zsp.statIndex \cup {o}
      BY <1>2, <1>5, <2>1
    <3>2. /\ r.dynamic = zsp.dynamic /\ r.dynIndex = zsp.dynIndex /\ r.type = zsp.type
          /\ r.bodies = zsp.bodies /\ r.joints = zsp.joints
      BY <1>2, <2>1 DEF Only, Fields
    <3> HIDE DEF r
    <3>3. Lined(r)
      BY <3>1, <3>2 DEF ZigInv, Lined
    <3>4. Indexed(r)
      BY <1>4, <1>6, <2>1, <3>1, <3>2 DEF ZigInv, Indexed
    <3> QED BY <3>3, <3>4
  <2>2. CASE zsp.type[Owner[o]] # "static"
    <3>1. /\ Line(r.shapes, Shapes) /\ Line(r.dynamic, Shapes)
          /\ ToSet(r.dynamic) = ToSet(zsp.dynamic) \cup {o} /\ r.dynIndex = zsp.dynIndex \cup {o}
      BY <1>3, <1>5, <2>2
    <3>2. /\ r.static = zsp.static /\ r.statIndex = zsp.statIndex /\ r.type = zsp.type
          /\ r.bodies = zsp.bodies /\ r.joints = zsp.joints
      BY <1>3, <2>2 DEF Only, Fields
    <3> HIDE DEF r
    <3>3. Lined(r)
      BY <3>1, <3>2 DEF ZigInv, Lined
    <3>4. Indexed(r)
      BY <1>4, <1>6, <2>2, <3>1, <3>2 DEF ZigInv, Indexed
    <3> QED BY <3>3, <3>4
  <2> QED BY <2>1, <2>2
<1> HIDE DEF r
<1>8. Jointed(r) /\ Owed(r) /\ Sleeping(r)
  BY <1>6, Frame DEF ZigInv
<1>9. Known(r)
  BY <1>6 DEF ZigInv, Known, Only, Fields
<1>10. Present(r)
  <2>1. Owner[o] \in ToSet(zsp.bodies)
    BY DEF AddShape
  <2> QED BY <1>6, <2>1 DEF ZigInv, Present, Only, Fields
<1>11. r.leaving = {} /\ r.todo = {} /\ r.at \in Nat \ {0} /\ ~r.panic /\ IsSpace(r)
  BY <1>6, Quiet DEF AddShape, Changing, ZigInv, Removing, Only, Fields
<1> QED BY <1>1, <1>7, <1>8, <1>9, <1>10, <1>11, CallKeeps

LEMMA RemoveShapeKeeps ==
  ASSUME ZigInv, NEW o \in Shapes, RemoveShape(o)
  PROVE  ZigInv'
<1> DEFINE r == ShapeRemoved(zsp, o)
<1>1. zsp' = Called(r)
  BY DEF RemoveShape
<1>2. /\ Only(r, zsp, {"shapes", "dynamic", "static", "dynIndex", "statIndex", "arbs", "begun",
                       "cache"})
      /\ Listed(r) \subseteq Listed(zsp) /\ Lined(r) /\ Indexed(r) /\ Known(r) /\ Owed(r)
  BY ShapeRemovedIs DEF ZigInv
<1> HIDE DEF r
<1>3. Jointed(r) /\ Sleeping(r)
  BY <1>2, Frame DEF ZigInv
<1>4. Present(r)
  BY <1>2 DEF ZigInv, Present, Only, Fields
<1>5. r.leaving = {} /\ r.todo = {} /\ r.at \in Nat \ {0} /\ ~r.panic /\ IsSpace(r)
  BY <1>2, Quiet DEF RemoveShape, Changing, ZigInv, Removing, Only, Fields
<1> QED BY <1>1, <1>2, <1>3, <1>4, <1>5, CallKeeps

LEMMA AddConstraintKeeps ==
  ASSUME ZigInv, ZCareful, NEW j \in Joints, AddConstraint(j)
  PROVE  ZigInv'
<1> DEFINE r == [zsp EXCEPT !.joints = Append(@, j),
                   !.linked = [b \in ZBody |-> IF b \in BodiesOf(j) THEN @[b] \cup {j} ELSE @[b]]]
<1>1. zsp' = Called(r)
  BY DEF AddConstraint
<1>2. /\ Only(r, zsp, {"joints", "linked"}) /\ r.joints = Append(zsp.joints, j)
      /\ r.linked = [b \in ZBody |-> IF b \in BodiesOf(j) THEN zsp.linked[b] \cup {j}
                                     ELSE zsp.linked[b]]
  BY DEF ZigInv, Only, IsSpace, Fields
<1> HIDE DEF r
<1>3. Line(r.joints, Joints) /\ ToSet(r.joints) = ToSet(zsp.joints) \cup {j}
  BY <1>2, Appended DEF ZigInv, Lined, AddConstraint
<1>4. Lined(r)
  BY <1>2, <1>3 DEF ZigInv, Lined, Only, Fields
<1>5. Jointed(r)
  BY <1>2, <1>3 DEF ZigInv, Jointed
<1>6. Indexed(r) /\ Known(r) /\ Owed(r) /\ Sleeping(r)
  BY <1>2, Frame DEF ZigInv
<1>7. Present(r)
  <2>1. BodiesOf(j) \subseteq ToSet(zsp.bodies)
    BY DEF AddConstraint
  <2> QED BY <1>2, <1>3, <2>1 DEF ZigInv, Present, Listed, Only, Fields
<1>8. r.leaving = {} /\ r.todo = {} /\ r.at \in Nat \ {0} /\ ~r.panic /\ IsSpace(r)
  BY <1>2, Quiet DEF AddConstraint, Changing, ZigInv, Removing, Only, Fields
<1> QED BY <1>1, <1>4, <1>5, <1>6, <1>7, <1>8, CallKeeps

LEMMA RemoveConstraintKeeps ==
  ASSUME ZigInv, NEW j \in Joints, RemoveConstraint(j)
  PROVE  ZigInv'
<1> DEFINE r == JointRemoved(zsp, j)
<1>1. zsp' = Called(r)
  BY DEF RemoveConstraint
<1>2. /\ Only(r, zsp, {"joints", "linked"}) /\ ToSet(r.joints) \subseteq ToSet(zsp.joints)
      /\ Lined(r) /\ Jointed(r)
  BY JointRemovedIs DEF ZigInv
<1> HIDE DEF r
<1>3. Indexed(r) /\ Known(r) /\ Owed(r) /\ Sleeping(r)
  BY <1>2, Frame DEF ZigInv
<1>4. Present(r)
  BY <1>2 DEF ZigInv, Present, Listed, Only, Fields
<1>5. r.leaving = {} /\ r.todo = {} /\ r.at \in Nat \ {0} /\ ~r.panic /\ IsSpace(r)
  BY <1>2, Quiet DEF RemoveConstraint, Changing, ZigInv, Removing, Only, Fields
<1> QED BY <1>1, <1>2, <1>3, <1>4, <1>5, CallKeeps

LEMMA ActivateKeeps ==
  ASSUME NEW s, IsSpace(s), Sleeping(s), NEW b
  PROVE  Sleeping(Activate(s, b))
<1> DEFINE t == Activate(s, b)
<1>1. Only(t, s, {"sleeping", "idle"}) /\ t.sleeping \subseteq s.sleeping
  BY ActivateIs
<1> HIDE DEF t
<1>2. Sleeping(t)
  BY <1>1 DEF Sleeping, Dynamic, Only, Fields
<1> QED BY <1>2 DEF t

LEMMA ActivateBodyKeeps ==
  ASSUME ZigInv, NEW b \in ZBody, ActivateBody(b)
  PROVE  ZigInv'
<1> DEFINE r == Activate(zsp, b)
<1>1. zsp' = Called(r)
  BY DEF ActivateBody
<1>2. Only(r, zsp, {"sleeping", "idle"}) /\ Sleeping(r)
  BY ActivateIs, ActivateKeeps DEF ZigInv
<1> HIDE DEF r
<1>3. Lined(r) /\ Indexed(r) /\ Known(r) /\ Jointed(r) /\ Present(r) /\ Owed(r)
  BY <1>2, Frame DEF ZigInv
<1>4. r.leaving = {} /\ r.todo = {} /\ r.at \in Nat \ {0} /\ ~r.panic /\ IsSpace(r)
  BY <1>2, Quiet DEF ActivateBody, Changing, ZigInv, Removing, Only, Fields
<1> QED BY <1>1, <1>2, <1>3, <1>4, CallKeeps

\* A careful game changes the type of bodies without shapes only.
LEMMA SetTypeKeeps ==
  ASSUME ZigInv, ZCareful, NEW b \in ZBody, NEW type \in {"dynamic", "static"}, SetType(b, type)
  PROVE  ZigInv'
<1> DEFINE r == [zsp EXCEPT !.type[b] = type]
<1>1. zsp' = Called(r)
  BY DEF SetType
<1>2. Only(r, zsp, {"type"}) /\ r.type = [zsp.type EXCEPT ![b] = type]
  BY DEF ZigInv, Only, IsSpace, Fields
<1> HIDE DEF r
<1>3. b \notin zsp.sleeping /\ \A o \in Listed(zsp) : Owner[o] # b
  BY DEF SetType
<1>4. Sleeping(r)
  BY <1>2, <1>3 DEF ZigInv, Sleeping, Dynamic, Only, Fields
<1>5. Indexed(r)
  <2>1. \A o \in Listed(zsp) : r.type[Owner[o]] = zsp.type[Owner[o]]
    BY <1>2, <1>3 DEF ZigInv, Sleeping
  <2> QED BY <1>2, <2>1 DEF ZigInv, Indexed, Listed, Only, Fields
<1>6. Lined(r) /\ Known(r) /\ Jointed(r) /\ Present(r) /\ Owed(r)
  BY <1>2, Frame DEF ZigInv
<1>7. r.leaving = {} /\ r.todo = {} /\ r.at \in Nat \ {0} /\ ~r.panic /\ IsSpace(r)
  BY <1>2, Quiet DEF SetType, Changing, ZigInv, Removing, Only, Fields
<1> QED BY <1>1, <1>4, <1>5, <1>6, <1>7, CallKeeps

\* Reindexing changes no index that agrees with its list.
LEMMA ReindexKeeps ==
  ASSUME ZigInv, NEW r, zsp' = Called(r), Only(r, zsp, {"dynIndex", "statIndex"}),
         r.dynIndex = zsp.dynIndex, r.statIndex = zsp.statIndex, Control
  PROVE  ZigInv'
<1>1. Lined(r) /\ Known(r) /\ Jointed(r) /\ Present(r) /\ Owed(r) /\ Sleeping(r)
  BY Frame DEF ZigInv
<1>2. Indexed(r)
  BY DEF ZigInv, Indexed, Listed, Only, Fields
<1>3. r.leaving = {} /\ r.todo = {} /\ r.at \in Nat \ {0} /\ ~r.panic /\ IsSpace(r)
  BY Quiet DEF ZigInv, Removing, Only, Fields
<1> QED BY <1>1, <1>2, <1>3, CallKeeps

LEMMA ReindexShapeKeeps ==
  ASSUME ZigInv, NEW o \in Shapes, ReindexShape(o)
  PROVE  ZigInv'
<1> DEFINE fixed == [zsp EXCEPT !.statIndex = @ \cup {o}]
           moving == [zsp EXCEPT !.dynIndex = @ \cup {o}]
           r == IF zsp.type[Owner[o]] = "static" THEN fixed ELSE moving
<1>1. zsp' = Called(r) /\ Control
  BY DEF ReindexShape, Changing
<1>2. /\ Only(fixed, zsp, {"statIndex"}) /\ fixed.statIndex = zsp.statIndex \cup {o}
      /\ Only(moving, zsp, {"dynIndex"}) /\ moving.dynIndex = zsp.dynIndex \cup {o}
  BY DEF ZigInv, Only, IsSpace, Fields
<1> HIDE DEF fixed, moving
<1>3. IF zsp.type[Owner[o]] = "static" THEN o \in zsp.statIndex ELSE o \in zsp.dynIndex
  BY DEF ReindexShape, ZigInv, Indexed
<1>4. /\ Only(r, zsp, {"dynIndex", "statIndex"})
      /\ r.dynIndex = zsp.dynIndex /\ r.statIndex = zsp.statIndex
  BY <1>2, <1>3 DEF Only, Fields
<1> HIDE DEF r
<1> QED BY <1>1, <1>4, ReindexKeeps

LEMMA UseSpatialHashKeeps ==
  ASSUME ZigInv, UseSpatialHash
  PROVE  ZigInv'
<1> DEFINE r == [zsp EXCEPT !.dynIndex = ToSet(zsp.dynamic), !.statIndex = ToSet(zsp.static)]
<1>1. zsp' = Called(r) /\ Control
  BY DEF UseSpatialHash, Changing
<1>2. /\ Only(r, zsp, {"dynIndex", "statIndex"})
      /\ r.dynIndex = zsp.dynIndex /\ r.statIndex = zsp.statIndex
  BY DEF ZigInv, Indexed, Only, IsSpace, Fields
<1> HIDE DEF r
<1> QED BY <1>1, <1>2, ReindexKeeps

-----------------------------------------------------------------------------
(* The loops of removeBody() *)

\* A shape of the body goes; what takes the place of the first is not the body's.
LEMMA ShapeOfBodyKeeps ==
  ASSUME ZigInv, zsp.phase = "shapes", NEW i \in DOMAIN zsp.shapes, zsp.at <= i,
         Owner[zsp.shapes[i]] \in zsp.leaving,
         \A k \in DOMAIN zsp.shapes : zsp.at <= k /\ Owner[zsp.shapes[k]] \in zsp.leaving => i <= k,
         zsp' = [ShapeRemoved(zsp, zsp.shapes[i]) EXCEPT !.at = IF i > 1 THEN i ELSE 2]
  PROVE  ZigInv'
<1> DEFINE o == zsp.shapes[i]
           r == ShapeRemoved(zsp, o)
           t == [r EXCEPT !.at = IF i > 1 THEN i ELSE 2]
           n == Len(zsp.shapes)
<1>0. zsp' = t
  OBVIOUS
<1>1. /\ Only(r, zsp, {"shapes", "dynamic", "static", "dynIndex", "statIndex", "arbs", "begun",
                       "cache"})
      /\ r.shapes = RemovePtr(zsp.shapes, o) /\ Listed(r) \subseteq Listed(zsp)
      /\ Lined(r) /\ Indexed(r) /\ Known(r) /\ Owed(r)
  BY ShapeRemovedIs DEF ZigInv
<1> HIDE DEF r
<1>2. Only(t, r, {"at"}) /\ t.at = IF i > 1 THEN i ELSE 2
  BY <1>1 DEF Only, IsSpace, Fields
<1> HIDE DEF t
<1>3. Jointed(r) /\ Sleeping(r)
  BY <1>1, Frame DEF ZigInv
<1>4. /\ Lined(t) /\ Indexed(t) /\ Known(t) /\ Owed(t) /\ Jointed(t) /\ Sleeping(t)
  BY <1>1, <1>2, <1>3, Frame
<1>5. /\ t.shapes = r.shapes /\ t.leaving = zsp.leaving /\ t.bodies = zsp.bodies
      /\ t.joints = zsp.joints /\ t.phase = "shapes" /\ t.todo = zsp.todo /\ ~t.panic
      /\ IsSpace(t)
  BY <1>1, <1>2 DEF ZigInv, Only, Fields
<1>6. Present(t) /\ Looping(t) /\ Slept(t) /\ Touched(t)
  BY <1>1, <1>5 DEF ZigInv, Present, Listed, Looping, Slept, Touched
<1>7. /\ Line(zsp.shapes, Shapes) /\ DOMAIN zsp.shapes = 1 .. n /\ n \in Nat /\ i \in 1 .. n
      /\ zsp.at \in Nat \ {0}
  BY DEF ZigInv, Lined, Line, Removing
<1>8. /\ Len(t.shapes) = n - 1 /\ DOMAIN t.shapes = 1 .. n - 1
      /\ \A k \in 1 .. n - 1 : t.shapes[k] = IF k < i THEN zsp.shapes[k] ELSE zsp.shapes[k + 1]
  <2>1. t.shapes = RemovePtr(zsp.shapes, zsp.shapes[i])
    BY <1>1, <1>5
  <2> DEFINE new == t.shapes
  <2>2. Line(zsp.shapes, Shapes) /\ new = RemovePtr(zsp.shapes, zsp.shapes[i])
    BY <1>7, <2>1
  <2> HIDE DEF new
  <2>3. Line(new, Shapes) /\ Len(new) = n - 1
    BY <2>2, Removed
  <2>4. Line(t.shapes, Shapes) /\ Len(t.shapes) = n - 1
    BY <2>3 DEF new
  <2>5. DOMAIN t.shapes = 1 .. n - 1
    BY <2>4 DEF Line
  <2>6. \A k \in DOMAIN new : new[k] = IF k < i THEN zsp.shapes[k] ELSE zsp.shapes[k + 1]
    BY <2>2, Removed
  <2> QED BY <2>5, <2>6, <2>4 DEF new
<1> HIDE DEF n
<1>9. \A k \in 1 .. n : k < i => Owner[zsp.shapes[k]] \notin zsp.leaving
  BY <1>7 DEF ZigInv, Removing
<1>10. ASSUME NEW k \in 1 .. n - 1, k < t.at PROVE Owner[t.shapes[k]] \notin zsp.leaving
  <2>0. k \in Int /\ 1 <= k /\ k <= n - 1 /\ k \in 1 .. n
    BY <1>7
  <2>1. CASE i > 1
    <3>1. k < i
      BY <1>2, <1>10, <2>1
    <3>2. t.shapes[k] = zsp.shapes[k]
      BY <1>8, <3>1
    <3> QED BY <1>9, <2>0, <3>1, <3>2
  <2>2. CASE i = 1
    <3>1. k = 1 /\ n >= 2 /\ zsp.at = 1 /\ t.shapes[1] = zsp.shapes[2]
      <4>1. k < 2
        BY <1>2, <1>10, <2>2
      <4>2. k = 1 /\ n >= 2
        BY <1>7, <2>0, <4>1
      <4>3. zsp.at = 1
        BY <1>7, <2>2
      <4>4. t.shapes[k] = zsp.shapes[k + 1]
        BY <1>8, <2>2, <4>2
      <4> QED BY <4>2, <4>3, <4>4
    <3>2. PICK m \in 1 .. 2 : Owner[zsp.shapes[m]] \notin zsp.leaving
      BY <3>1 DEF ZigInv, Removing, n
    <3>3. m = 2
      BY <2>2, <3>2
    <3> QED BY <3>1, <3>2, <3>3
  <2> QED BY <1>7, <2>1, <2>2
<1>11. t.at \in Nat \ {0} /\ t.at # 1
  BY <1>2, <1>7
<1>12. Removing(t)
  BY <1>5, <1>8, <1>10, <1>11 DEF ZigInv, Removing
<1> QED BY <1>0, <1>4, <1>5, <1>6, <1>12 DEF ZigInv

LEMMA RemoveShapeOfBodyKeeps ==
  ASSUME ZigInv, RemoveShapeOfBody
  PROVE  ZigInv'
<1> DEFINE theirs == {i \in DOMAIN zsp.shapes : zsp.at <= i /\ Owner[zsp.shapes[i]] \in zsp.leaving}
<1>0. zsp.phase = "shapes"
  BY DEF RemoveShapeOfBody
<1>1. CASE theirs = {} /\ zsp' = [zsp EXCEPT !.phase = "joints", !.at = 1]
  <2>1. Only(zsp', zsp, {"phase", "at"}) /\ zsp'.phase = "joints" /\ zsp'.at = 1
    BY <1>1 DEF ZigInv, Only, IsSpace, Fields
  <2>2. /\ Lined(zsp') /\ Indexed(zsp') /\ Known(zsp') /\ Jointed(zsp') /\ Present(zsp')
        /\ Owed(zsp') /\ Sleeping(zsp')
    BY <2>1, Frame DEF ZigInv
  <2>3. /\ zsp'.shapes = zsp.shapes /\ zsp'.joints = zsp.joints /\ zsp'.leaving = zsp.leaving
        /\ zsp'.todo = zsp.todo /\ zsp'.bodies = zsp.bodies /\ ~zsp'.panic /\ IsSpace(zsp')
    BY <2>1 DEF ZigInv, Only, Fields
  <2>4. Looping(zsp') /\ Slept(zsp') /\ Touched(zsp')
    BY <1>0, <2>1, <2>3 DEF ZigInv, Looping, Slept, Touched
  <2>5. \A o \in Listed(zsp) : Owner[o] \notin zsp.leaving
    <3> SUFFICES ASSUME NEW o \in Listed(zsp) PROVE Owner[o] \notin zsp.leaving
      OBVIOUS
    <3>1. PICK k \in DOMAIN zsp.shapes : o = zsp.shapes[k]
      BY DEF Listed, ToSet
    <3>2. k \in Int /\ zsp.at \in Int
      BY DEF ZigInv, Lined, Line, Removing
    <3>3. CASE k < zsp.at
      BY <1>0, <3>1, <3>3 DEF ZigInv, Removing
    <3>4. CASE zsp.at <= k
      BY <1>1, <3>1, <3>4
    <3> QED BY <3>2, <3>3, <3>4
  <2>6. \A k \in DOMAIN zsp.joints : ~(k < 1)
    BY DEF ZigInv, Lined, Line
  <2>7. Removing(zsp')
    BY <1>0, <2>1, <2>3, <2>5, <2>6 DEF ZigInv, Removing, Listed
  <2> QED BY <2>2, <2>3, <2>4, <2>7 DEF ZigInv
<1>2. CASE \E i \in theirs :
             /\ \A k \in theirs : i <= k
             /\ zsp' = [ShapeRemoved(zsp, zsp.shapes[i]) EXCEPT !.at = IF i > 1 THEN i ELSE 2]
  BY <1>0, <1>2, ShapeOfBodyKeeps
<1> QED BY <1>1, <1>2 DEF RemoveShapeOfBody

\* A constraint of the body goes; it is never the first.
LEMMA JointOfBodyKeeps ==
  ASSUME ZigInv, zsp.phase = "joints", NEW i \in DOMAIN zsp.joints, zsp.at <= i, i > 1,
         \A k \in DOMAIN zsp.joints :
           zsp.at <= k /\ BodiesOf(zsp.joints[k]) \cap zsp.leaving # {} => i <= k,
         zsp' = [JointRemoved(zsp, zsp.joints[i]) EXCEPT !.at = i]
  PROVE  ZigInv'
<1> DEFINE j == zsp.joints[i]
           r == JointRemoved(zsp, j)
           t == [r EXCEPT !.at = i]
           n == Len(zsp.joints)
<1>0. zsp' = t
  OBVIOUS
<1>1. /\ Only(r, zsp, {"joints", "linked"}) /\ r.joints = RemovePtr(zsp.joints, j)
      /\ ToSet(r.joints) \subseteq ToSet(zsp.joints) /\ Lined(r) /\ Jointed(r)
  BY JointRemovedIs DEF ZigInv
<1> HIDE DEF r
<1>2. Only(t, r, {"at"}) /\ t.at = i
  BY <1>1 DEF Only, IsSpace, Fields
<1> HIDE DEF t
<1>3. Indexed(r) /\ Known(r) /\ Owed(r) /\ Sleeping(r)
  BY <1>1, Frame DEF ZigInv
<1>4. /\ Lined(t) /\ Indexed(t) /\ Known(t) /\ Owed(t) /\ Jointed(t) /\ Sleeping(t)
  BY <1>1, <1>2, <1>3, Frame
<1>5. /\ t.shapes = zsp.shapes /\ t.leaving = zsp.leaving /\ t.bodies = zsp.bodies
      /\ t.joints = r.joints /\ t.phase = "joints" /\ t.todo = zsp.todo /\ ~t.panic
      /\ IsSpace(t)
  BY <1>1, <1>2 DEF ZigInv, Only, Fields
<1>6. Present(t) /\ Looping(t) /\ Slept(t) /\ Touched(t)
  BY <1>1, <1>5 DEF ZigInv, Present, Listed, Looping, Slept, Touched
<1>7. /\ Line(zsp.joints, Joints) /\ DOMAIN zsp.joints = 1 .. n /\ n \in Nat /\ i \in 1 .. n
      /\ zsp.at \in Nat \ {0}
  BY DEF ZigInv, Lined, Line, Removing
<1>8. /\ DOMAIN t.joints = 1 .. n - 1
      /\ \A k \in 1 .. n - 1 : t.joints[k] = IF k < i THEN zsp.joints[k] ELSE zsp.joints[k + 1]
  <2>1. t.joints = RemovePtr(zsp.joints, zsp.joints[i])
    BY <1>1, <1>5
  <2>2. Line(t.joints, Joints) /\ Len(t.joints) = n - 1
    <3>1. Line(RemovePtr(zsp.joints, zsp.joints[i]), Joints)
      BY <1>7, Removed
    <3>2. Len(RemovePtr(zsp.joints, zsp.joints[i])) = Len(zsp.joints) - 1
      BY <1>7, Removed
    <3> QED BY <2>1, <3>1, <3>2
  <2>3. DOMAIN t.joints = 1 .. n - 1
    BY <2>2 DEF Line
  <2>4. \A k \in DOMAIN t.joints : t.joints[k] = IF k < i THEN zsp.joints[k] ELSE zsp.joints[k + 1]
    BY <1>7, <2>1, Removed
  <2> QED BY <2>3, <2>4
<1> HIDE DEF n
<1>9. \A k \in 1 .. n : k < i => BodiesOf(zsp.joints[k]) \cap zsp.leaving = {}
  BY <1>7 DEF ZigInv, Removing
<1>10. \A k \in 1 .. n - 1 : k < i => BodiesOf(t.joints[k]) \cap zsp.leaving = {}
  BY <1>7, <1>8, <1>9
<1>11. Removing(t)
  BY <1>2, <1>5, <1>7, <1>8, <1>10 DEF ZigInv, Removing, Listed
<1> QED BY <1>0, <1>4, <1>5, <1>6, <1>11 DEF ZigInv

LEMMA RemoveJointOfBodyKeeps ==
  ASSUME ZigInv, RemoveJointOfBody
  PROVE  ZigInv'
<1> DEFINE theirs == {i \in DOMAIN zsp.joints :
                        zsp.at <= i /\ BodiesOf(zsp.joints[i]) \cap zsp.leaving # {}}
<1>0. zsp.phase = "joints"
  BY DEF RemoveJointOfBody
<1>1. CASE theirs = {} /\ zsp' = [zsp EXCEPT !.phase = "user", !.leaving = {}]
  <2>1. Only(zsp', zsp, {"phase", "leaving"}) /\ zsp'.phase = "user" /\ zsp'.leaving = {}
    BY <1>1 DEF ZigInv, Only, IsSpace, Fields
  <2>2. /\ Lined(zsp') /\ Indexed(zsp') /\ Known(zsp') /\ Jointed(zsp')
        /\ Owed(zsp') /\ Sleeping(zsp')
    BY <2>1, Frame DEF ZigInv
  <2>3. /\ zsp'.shapes = zsp.shapes /\ zsp'.joints = zsp.joints /\ zsp'.bodies = zsp.bodies
        /\ zsp'.todo = zsp.todo /\ zsp'.at = zsp.at /\ ~zsp'.panic /\ IsSpace(zsp')
    BY <2>1 DEF ZigInv, Only, Fields
  <2>4. Looping(zsp') /\ Slept(zsp') /\ Touched(zsp') /\ Removing(zsp')
    BY <1>0, <2>1, <2>3 DEF ZigInv, Looping, Slept, Touched, Removing
  <2>5. \A j \in ToSet(zsp.joints) : BodiesOf(j) \cap zsp.leaving = {}
    <3> SUFFICES ASSUME NEW j \in ToSet(zsp.joints) PROVE BodiesOf(j) \cap zsp.leaving = {}
      OBVIOUS
    <3>1. PICK k \in DOMAIN zsp.joints : j = zsp.joints[k]
      BY DEF ToSet
    <3>2. k \in Int /\ zsp.at \in Int
      BY DEF ZigInv, Lined, Line, Removing
    <3>3. CASE k < zsp.at
      BY <1>0, <3>1, <3>3 DEF ZigInv, Removing
    <3>4. CASE zsp.at <= k
      BY <1>1, <3>1, <3>4
    <3> QED BY <3>2, <3>3, <3>4
  <2>6. \A o \in Listed(zsp) : Owner[o] \notin zsp.leaving
    BY <1>0 DEF ZigInv, Removing
  <2>7. Present(zsp')
    BY <2>1, <2>3, <2>5, <2>6 DEF ZigInv, Present, Listed
  <2> QED BY <2>2, <2>3, <2>4, <2>7 DEF ZigInv
<1>2. CASE \E i \in theirs :
             LET s == JointRemoved(zsp, zsp.joints[i])
             IN  /\ \A k \in theirs : i <= k
                 /\ zsp' = IF i > 1 THEN [s EXCEPT !.at = i]
                           ELSE [s EXCEPT !.phase = "user", !.leaving = {}, !.panic = TRUE]
  <2>1. PICK i \in theirs :
          /\ \A k \in theirs : i <= k
          /\ zsp' = IF i > 1 THEN [JointRemoved(zsp, zsp.joints[i]) EXCEPT !.at = i]
                    ELSE [JointRemoved(zsp, zsp.joints[i]) EXCEPT
                            !.phase = "user", !.leaving = {}, !.panic = TRUE]
    BY <1>2
  <2>2. i # 1
    BY <1>0, <2>1 DEF ZigInv, Removing
  <2>3. i > 1
    BY <2>1, <2>2 DEF ZigInv, Lined, Line
  <2> QED BY <1>0, <2>1, <2>3, JointOfBodyKeeps
<1> QED BY <1>1, <1>2 DEF RemoveJointOfBody

-----------------------------------------------------------------------------
(* A step *)

\* What the indexes report are shapes of the space.
LEMMA QueriesListed ==
  ASSUME ZigInv, NEW t \in Queries(zsp)
  PROVE  t[2] \in Listed(zsp) /\ t[3] \in Listed(zsp)
<1>1. PICK i \in DOMAIN zsp.dynamic :
        LET o == zsp.dynamic[i]
        IN  t \in ({2 * i - 1} \X {o} \X {x \in zsp.dynIndex : x > o})
                 \cup ({2 * i} \X {o} \X (zsp.statIndex \ {o}))
  BY DEF Queries
<1>2. t[2] = zsp.dynamic[i] /\ t[3] \in zsp.dynIndex \cup zsp.statIndex
  BY <1>1
<1>3. zsp.dynamic[i] \in ToSet(zsp.dynamic)
  BY DEF ToSet
<1> QED BY <1>2, <1>3 DEF ZigInv, Indexed

\* The entries of the cache age; none is lost or marked.
LEMMA BroadPhaseIs ==
  ASSUME IsSpace(zsp), Owed(zsp), NEW touching, BroadPhase(touching)
  PROVE  /\ Only(zsp', zsp, {"phase", "early", "arbs", "touching", "slept", "todo", "cache"})
         /\ zsp'.phase = "query" /\ zsp'.arbs = {} /\ zsp'.todo = Queries(zsp)
         /\ zsp'.touching = touching /\ zsp'.slept = zsp.sleeping
         /\ DOMAIN zsp'.cache = DOMAIN zsp.cache /\ Owed(zsp')
<1> DEFINE c == [P \in DOMAIN zsp.cache |-> Aged(zsp.cache[P])]
<1>1. zsp' = [zsp EXCEPT !.phase = "query", !.early = FALSE, !.arbs = {},
                !.touching = touching, !.slept = zsp.sleeping, !.todo = Queries(zsp), !.cache = c]
  BY DEF BroadPhase
<1>2. \A e \in Entry : Aged(e) \in Entry /\ Aged(e).separated = e.separated
  BY ZigSpaceAssumption DEF Entry, Aged
<1>3. DOMAIN c = DOMAIN zsp.cache /\ \A P \in DOMAIN c : c[P] = Aged(zsp.cache[P])
  OBVIOUS
<1> HIDE DEF c
<1>4. /\ Only(zsp', zsp, {"phase", "early", "arbs", "touching", "slept", "todo", "cache"})
      /\ zsp'.phase = "query" /\ zsp'.arbs = {} /\ zsp'.todo = Queries(zsp) /\ zsp'.cache = c
      /\ zsp'.touching = touching /\ zsp'.slept = zsp.sleeping
  BY <1>1 DEF Only, IsSpace, Fields
<1>5. zsp'.begun = zsp.begun
  BY <1>4 DEF Only, Fields
<1>6. Owed(zsp')
  BY <1>2, <1>3, <1>4, <1>5 DEF Owed
<1> QED BY <1>3, <1>4, <1>6

LEMMA BroadPhaseKeeps ==
  ASSUME ZigInv, NEW touching \in SUBSET {PairKey(t[2], t[3]) : t \in Queries(zsp)},
         BroadPhase(touching)
  PROVE  ZigInv'
<1>1. /\ Only(zsp', zsp, {"phase", "early", "arbs", "touching", "slept", "todo", "cache"})
      /\ zsp'.phase = "query" /\ zsp'.arbs = {} /\ zsp'.todo = Queries(zsp)
      /\ zsp'.touching = touching /\ zsp'.slept = zsp.sleeping
      /\ DOMAIN zsp'.cache = DOMAIN zsp.cache /\ Owed(zsp')
  BY BroadPhaseIs DEF ZigInv
<1>2. Lined(zsp') /\ Indexed(zsp') /\ Jointed(zsp') /\ Present(zsp') /\ Sleeping(zsp')
  BY <1>1, Frame DEF ZigInv
<1>3. /\ zsp'.shapes = zsp.shapes /\ zsp'.leaving = zsp.leaving /\ zsp'.bodies = zsp.bodies
      /\ zsp'.at = zsp.at /\ ~zsp'.panic /\ IsSpace(zsp')
  BY <1>1 DEF ZigInv, Only, Fields
<1>4. Known(zsp')
  BY <1>1, <1>3 DEF ZigInv, Known, Listed
<1>5. Looping(zsp')
  BY <1>1, <1>3, QueriesListed DEF BroadPhase, Control, ZigInv, Looping, Listed
<1>6. Removing(zsp') /\ Slept(zsp')
  BY <1>1, <1>3 DEF ZigInv, Removing, Slept
<1>7. Touched(zsp')
  <2>1. zsp'.sleeping = zsp.sleeping
    BY <1>1 DEF Only, Fields
  <2>2. \A P \in touching : \E t \in Queries(zsp) : P = PairKey(t[2], t[3])
    OBVIOUS
  <2> QED BY <1>1, <2>1, <2>2 DEF Touched, Seen, Waiting
<1> QED BY <1>1, <1>2, <1>3, <1>4, <1>5, <1>6, <1>7 DEF ZigInv

\* The entry of a pair that begins is there, and not marked as told.
LEMMA MetKeeps ==
  ASSUME NEW s, IsSpace(s), Owed(s), NEW P, NEW met,
         met = [FetchArbiter(s, P) EXCEPT !.begun = @ \cup {P}]
  PROVE  /\ Only(met, s, {"cache", "begun"}) /\ Owed(met)
         /\ Found(met, P) /\ \A Q : Found(s, Q) => Found(met, Q)
         /\ Known(s) /\ P \subseteq Listed(s) => Known(met)
<1> DEFINE t == FetchArbiter(s, P)
<1>1. /\ Only(t, s, {"cache"}) /\ DOMAIN t.cache = DOMAIN s.cache \cup {P}
      /\ t.cache[P] \in Entry /\ ~t.cache[P].separated /\ t.cache[P].age = 0
      /\ \A Q \in DOMAIN s.cache : Q # P => t.cache[Q] = s.cache[Q]
  BY FetchIs
<1> HIDE DEF t
<1>2. met = [t EXCEPT !.begun = t.begun \cup {P}]
  BY DEF t
<1>3. Only(met, t, {"begun"}) /\ met.begun = t.begun \cup {P}
  BY <1>1, <1>2 DEF Only, IsSpace, Fields
<1>4. /\ met.cache = t.cache /\ met.begun = s.begun \cup {P} /\ met.shapes = s.shapes
      /\ met.arbs = s.arbs
  BY <1>1, <1>3 DEF Only, Fields
<1>5. Known(s) /\ P \subseteq Listed(s) => Known(met)
  BY <1>1, <1>4 DEF Known, Listed
<1>6. Owed(met)
  BY <1>1, <1>4 DEF Owed
<1>7. Only(met, s, {"cache", "begun"})
  BY <1>1, <1>3 DEF Only
<1>8. Found(met, P) /\ \A Q : Found(s, Q) => Found(met, Q)
  BY <1>1, <1>4 DEF Found
<1> QED BY <1>5, <1>6, <1>7, <1>8

LEMMA QueryPairsKeeps ==
  ASSUME ZigInv, NEW q, NEW o, NEW x, NEW accepts, QueryPairs(q, o, x, accepts)
  PROVE  ZigInv'
<1> DEFINE P == PairKey(o, x)
           s == [zsp EXCEPT !.todo = @ \ {<<q, o, x>>}]
           a == Activate(s, Owner[o])
           c == Activate(a, Owner[x])
           met == [FetchArbiter(c, P) EXCEPT !.begun = @ \cup {P}]
           fine(t) == /\ IsSpace(t) /\ Lined(t) /\ Indexed(t) /\ Jointed(t) /\ Present(t)
                      /\ Sleeping(t) /\ Known(t) /\ Owed(t) /\ t.todo = zsp.todo \ {<<q, o, x>>}
                      /\ t.touching = zsp.touching /\ t.slept = zsp.slept
                      /\ t.sleeping \subseteq zsp.sleeping
                      /\ \A Q : Found(zsp, Q) => Found(t, Q)
                      /\ t.shapes = zsp.shapes /\ t.leaving = zsp.leaving /\ t.bodies = zsp.bodies
                      /\ t.phase = "query" /\ t.at = zsp.at /\ ~t.panic
<1>1. /\ zsp.phase = "query" /\ <<q, o, x>> \in zsp.todo
      /\ \/ zsp' = s /\ (PassedOver(zsp, o, x) \/ P \notin zsp.touching)
         \/ zsp' = met
         \/ zsp' = [met EXCEPT !.arbs = @ \cup {P}]
  BY DEF QueryPairs
<1>2. P \subseteq Listed(zsp)
  BY <1>1 DEF PairKey, ZigInv, Looping
<1>a. P = PairKey(o, x) /\ \A y \in P : y \in {o, x}
  BY DEF PairKey
<1> HIDE DEF P
<1>3. Only(s, zsp, {"todo"}) /\ s.todo = zsp.todo \ {<<q, o, x>>}
  BY DEF ZigInv, Only, IsSpace, Fields
<1> HIDE DEF s
<1>4. fine(s)
  <2>1. /\ Lined(s) /\ Indexed(s) /\ Jointed(s) /\ Present(s) /\ Sleeping(s) /\ Known(s)
        /\ Owed(s)
    BY <1>3, Frame DEF ZigInv
  <2>2. s.cache = zsp.cache
    BY <1>3 DEF Only, Fields
  <2> QED BY <1>1, <1>3, <2>1, <2>2 DEF ZigInv, Only, Fields, Found
<1>5. ASSUME NEW t, fine(t), NEW b PROVE fine(Activate(t, b))
  <2> DEFINE u == Activate(t, b)
  <2>1. Only(u, t, {"sleeping", "idle"}) /\ Sleeping(u) /\ u.sleeping \subseteq t.sleeping
    BY <1>5, ActivateIs, ActivateKeeps
  <2> HIDE DEF u
  <2>2. Lined(u) /\ Indexed(u) /\ Jointed(u) /\ Present(u) /\ Known(u) /\ Owed(u)
    BY <1>5, <2>1, Frame
  <2>3. \A Q : Found(zsp, Q) => Found(u, Q)
    BY <1>5, <2>1 DEF Only, Fields, Found
  <2>4. fine(u)
    BY <1>5, <2>1, <2>2, <2>3 DEF Only, Fields
  <2> QED BY <2>4 DEF u
<1>6. fine(c)
  BY <1>4, <1>5
<1> HIDE DEF c
<1>7. fine(met) /\ Found(met, P)
  <2>1. IsSpace(c) /\ Owed(c) /\ Known(c) /\ P \subseteq Listed(c)
    BY <1>2, <1>6 DEF Listed
  <2>2. /\ Only(met, c, {"cache", "begun"}) /\ Known(met) /\ Owed(met)
        /\ Found(met, P) /\ \A Q : Found(c, Q) => Found(met, Q)
    BY <2>1, MetKeeps
  <2> HIDE DEF met
  <2>3. Lined(met) /\ Indexed(met) /\ Jointed(met) /\ Present(met) /\ Sleeping(met)
    BY <1>6, <2>2, Frame
  <2> QED BY <1>6, <2>2, <2>3 DEF Only, Fields
<1> HIDE DEF met
<1>8. fine([met EXCEPT !.arbs = @ \cup {P}]) /\ Found([met EXCEPT !.arbs = @ \cup {P}], P)
  <2> DEFINE t == [met EXCEPT !.arbs = @ \cup {P}]
  <2>1. Only(t, met, {"arbs"}) /\ t.arbs = met.arbs \cup {P}
    BY <1>7 DEF Only, IsSpace, Fields
  <2> HIDE DEF t
  <2>2. Lined(t) /\ Indexed(t) /\ Jointed(t) /\ Present(t) /\ Sleeping(t) /\ Owed(t)
    BY <1>7, <2>1, Frame
  <2>3. Known(t)
    BY <1>7, <2>1 DEF Known, Found, Listed, Only, Fields
  <2>4. \A Q : Found(met, Q) => Found(t, Q)
    BY <2>1 DEF Only, Fields, Found
  <2>5. fine(t)
    BY <1>7, <2>1, <2>2, <2>3, <2>4 DEF Only, Fields
  <2> QED BY <1>7, <2>4, <2>5 DEF t
<1>9. fine(zsp') /\ (Found(zsp', P) \/ PassedOver(zsp, o, x) \/ P \notin zsp.touching)
  BY <1>1, <1>4, <1>7, <1>8
<1>10. Looping(zsp') /\ Removing(zsp') /\ Slept(zsp')
  BY <1>1, <1>9 DEF ZigInv, Looping, Removing, Slept, Listed
<1>11. zsp.sleeping \subseteq zsp.slept /\ \A Q \in zsp.touching : Seen(zsp, Q)
  BY <1>1 DEF ZigInv, Touched
<1>12. ASSUME NEW Q \in zsp.touching PROVE Seen(zsp', Q)
  <2>1. CASE Q = P
    <3>1. PassedOver(zsp, o, x) => Overslept(zsp', Q)
      BY <1>a, <1>9, <1>11, <2>1 DEF PassedOver, Overslept
    <3> QED BY <1>9, <2>1, <3>1 DEF Seen
  <2>2. CASE Q # P
    <3>1. Waiting(zsp, Q) => Waiting(zsp', Q)
      BY <1>a, <1>9, <2>2 DEF Waiting
    <3>2. Overslept(zsp, Q) => Overslept(zsp', Q)
      BY <1>9 DEF Overslept
    <3> QED BY <1>9, <1>11, <3>1, <3>2 DEF Seen
  <2> QED BY <2>1, <2>2
<1>13. Touched(zsp')
  BY <1>9, <1>11, <1>12 DEF Touched
<1> QED BY <1>9, <1>10, <1>13 DEF ZigInv

\* What a pair was seen as stays while nobody queries: cache and those that slept stay.
LEMMA SeenStays ==
  ASSUME NEW s, NEW t, s.todo = {}, t.slept = s.slept, NEW P, Seen(s, P),
         Found(s, P) => Found(t, P)
  PROVE  Seen(t, P)
BY DEF Seen, Waiting, Overslept

\* A component holds what its bodies are held together with, and no more than any
\* such set around one of them.
LEMMA ComponentClosed ==
  ASSUME NEW dyn, NEW held, NEW b \in dyn
  PROVE  /\ b \in Component(dyn, held, b) /\ Component(dyn, held, b) \subseteq dyn
         /\ \A h \in held : h \subseteq dyn /\ b \in h =>
              \A c \in h : c \in dyn /\ Component(dyn, held, c) \subseteq Component(dyn, held, b)
<1> DEFINE whole(S) == \A h \in held : h \subseteq dyn => h \cap S = {} \/ h \subseteq S
<1>1. \A c, d : d \in Component(dyn, held, c) <=>
                 d \in dyn /\ \A S \in SUBSET dyn : c \in S /\ whole(S) => d \in S
  BY DEF Component
<1>2. ASSUME NEW h \in held, h \subseteq dyn, b \in h, NEW c \in h, NEW d \in Component(dyn, held, c)
      PROVE  d \in Component(dyn, held, b)
  <2>1. ASSUME NEW S \in SUBSET dyn, b \in S, whole(S) PROVE d \in S
    <3>1. c \in S
      BY <1>2, <2>1
    <3> HIDE DEF whole
    <3> QED BY <1>1, <1>2, <2>1, <3>1
  <2> HIDE DEF whole
  <2> QED BY <1>1, <1>2, <2>1
<1> HIDE DEF whole
<1> QED BY <1>1, <1>2

\* What should sleep is whole components: closed under what is held together.
LEMMA ProcessComponentsKeeps ==
  ASSUME ZigInv, NEW restless, NEW sleeps, ProcessComponents(restless, sleeps)
  PROVE  ZigInv'
<1> DEFINE dyn == ListedDynamic(zsp)
           held == Held(zsp)
           idle == [b \in ZBody |-> IF b \notin dyn THEN zsp.idle[b]
                                    ELSE IF ~sleeps \/ b \in restless \ zsp.sleeping THEN 0
                                    ELSE IF zsp.idle[b] < ZThreshold THEN zsp.idle[b] + 1
                                    ELSE ZThreshold]
           sleepy(C) == /\ \A h \in held : h \cap C # {} => h \subseteq dyn
                        /\ \A b \in C : idle[b] >= ZThreshold
           rests == {b \in dyn : sleeps /\ sleepy(Component(dyn, held, b))}
<1>1. /\ zsp' = [zsp EXCEPT !.phase = "wake", !.idle = idle, !.rests = rests,
                   !.sleeping = @ \cup rests]
      /\ zsp.phase = "query" /\ zsp.todo = {}
  BY DEF ProcessComponents
<1> HIDE DEF idle
<1>2. \A C, D : sleepy(C) /\ D \subseteq C => sleepy(D)
  OBVIOUS
<1>3. \A C : sleepy(C) => \A h \in held : h \cap C # {} => h \subseteq dyn
  OBVIOUS
<1>4. rests = {b \in dyn : sleeps /\ sleepy(Component(dyn, held, b))}
  OBVIOUS
<1> HIDE DEF sleepy, rests, held, dyn
<1>5. ASSUME NEW h \in held, NEW b \in h, b \in rests, NEW c \in h PROVE c \in rests
  <2>1. b \in dyn /\ sleeps /\ sleepy(Component(dyn, held, b))
    BY <1>4, <1>5
  <2>2. b \in Component(dyn, held, b)
    BY <2>1, ComponentClosed
  <2>3. h \subseteq dyn
    BY <1>3, <1>5, <2>1, <2>2
  <2>4. c \in dyn /\ Component(dyn, held, c) \subseteq Component(dyn, held, b)
    BY <1>5, <2>1, <2>3, ComponentClosed
  <2> QED BY <1>2, <1>4, <2>1, <2>4
<1>6. Closed(rests, held)
  BY <1>5 DEF Closed
<1>7. /\ Only(zsp', zsp, {"phase", "idle", "rests", "sleeping"}) /\ zsp'.phase = "wake"
      /\ zsp'.rests = rests /\ zsp'.sleeping = zsp.sleeping \cup rests
  BY <1>1 DEF ZigInv, Only, IsSpace, Fields
<1>8. /\ Lined(zsp') /\ Indexed(zsp') /\ Known(zsp') /\ Jointed(zsp') /\ Present(zsp')
      /\ Owed(zsp')
  BY <1>7, Frame DEF ZigInv
<1>9. /\ zsp'.shapes = zsp.shapes /\ zsp'.leaving = zsp.leaving /\ zsp'.bodies = zsp.bodies
      /\ zsp'.todo = {} /\ zsp'.at = zsp.at /\ ~zsp'.panic /\ IsSpace(zsp')
      /\ zsp'.arbs = zsp.arbs /\ zsp'.joints = zsp.joints /\ zsp'.type = zsp.type
  BY <1>1, <1>7 DEF ZigInv, Only, Fields
<1>10. Looping(zsp') /\ Removing(zsp')
  BY <1>1, <1>7, <1>9 DEF ZigInv, Looping, Removing, Listed
<1>11. \A b \in rests : b \in ZBody /\ Dynamic(zsp, b)
  BY <1>4 DEF dyn, ListedDynamic, ZigInv, Lined, Line, ToSet
<1>12. Sleeping(zsp')
  BY <1>7, <1>9, <1>11 DEF ZigInv, Sleeping, Dynamic
<1>13. Slept(zsp')
  BY <1>6, <1>7, <1>9 DEF Slept, Held, held
<1>14. Touched(zsp')
  <2>1. /\ zsp'.touching = zsp.touching /\ zsp'.slept = zsp.slept
        /\ \A P : Found(zsp, P) => Found(zsp', P)
    BY <1>7 DEF Only, Fields, Found
  <2>2. \A P \in zsp.touching : Seen(zsp, P)
    BY <1>1 DEF ZigInv, Touched
  <2>3. \A P \in zsp.touching : Seen(zsp', P)
    BY <1>1, <2>1, <2>2, SeenStays
  <2> QED BY <1>7, <2>1, <2>3 DEF Touched
<1> QED BY <1>8, <1>9, <1>10, <1>12, <1>13, <1>14 DEF ZigInv

\* Waking one that should not sleep wakes none that should: they are not joined.
LEMMA WakeNextKeeps ==
  ASSUME ZigInv, NEW b, WakeNext(b)
  PROVE  ZigInv'
<1> DEFINE t == Activate(zsp, b)
<1>1. /\ zsp' = t /\ zsp.phase = "wake" /\ b \notin zsp.rests /\ b \in ZBody
  BY DEF WakeNext, Disturbed, ZigInv, Sleeping
<1>2. /\ Only(t, zsp, {"sleeping", "idle"}) /\ Sleeping(t) /\ t.sleeping \subseteq zsp.sleeping
      /\ \A c \in zsp.sleeping : c \in t.sleeping
                             \/ c = b \/ \E j \in zsp.linked[b] : BodiesOf(j) = {b, c}
  BY ActivateIs, ActivateKeeps DEF ZigInv
<1> HIDE DEF t
<1>3. /\ Lined(t) /\ Indexed(t) /\ Known(t) /\ Jointed(t) /\ Present(t) /\ Owed(t)
  BY <1>2, Frame DEF ZigInv
<1>4. /\ t.shapes = zsp.shapes /\ t.leaving = zsp.leaving /\ t.bodies = zsp.bodies
      /\ t.todo = zsp.todo /\ t.at = zsp.at /\ ~t.panic /\ IsSpace(t)
      /\ t.arbs = zsp.arbs /\ t.joints = zsp.joints /\ t.phase = "wake" /\ t.rests = zsp.rests
  BY <1>1, <1>2 DEF ZigInv, Only, Fields
<1>5. Looping(t) /\ Removing(t)
  BY <1>1, <1>4 DEF ZigInv, Looping, Removing, Listed
<1>6. zsp.rests \subseteq zsp.sleeping /\ Closed(zsp.rests, Held(zsp))
  BY <1>1 DEF ZigInv, Slept
<1>7. ASSUME NEW c \in zsp.rests, NEW j \in zsp.linked[b], BodiesOf(j) = {b, c} PROVE FALSE
  <2>1. j \in ToSet(zsp.joints)
    BY <1>1 DEF ZigInv, Jointed
  <2>2. {b, c} \in Held(zsp)
    BY <1>7, <2>1 DEF Held
  <2> QED BY <1>1, <1>6, <2>2 DEF Closed
<1>8. zsp.rests \subseteq t.sleeping
  BY <1>1, <1>2, <1>6, <1>7
<1>9. Slept(t)
  BY <1>4, <1>6, <1>8 DEF Slept, Held
<1>10. Touched(t)
  <2>1. /\ t.touching = zsp.touching /\ t.slept = zsp.slept /\ zsp.todo = {}
        /\ \A P : Found(zsp, P) => Found(t, P)
    BY <1>1, <1>2 DEF Only, Fields, Found, ZigInv, Looping
  <2>2. \A P \in zsp.touching : Seen(zsp, P)
    BY <1>1 DEF ZigInv, Touched
  <2>3. \A P \in zsp.touching : Seen(t, P)
    BY <2>1, <2>2, SeenStays
  <2> QED BY <1>4, <2>1, <2>3 DEF Touched
<1> QED BY <1>1, <1>2, <1>3, <1>4, <1>5, <1>9, <1>10 DEF ZigInv

\* When none is left to wake, those that sleep of the held ones are those that should.
LEMMA RestersOnly ==
  ASSUME ZigInv, zsp.phase = "wake", Disturbed(zsp) = {}
  PROVE  Closed(zsp.sleeping, Held(zsp))
<1> SUFFICES ASSUME NEW h \in Held(zsp), NEW b \in h, b \in zsp.sleeping
             PROVE  h \subseteq zsp.sleeping
  BY DEF Closed
<1>1. h \subseteq ToSet(zsp.bodies)
  <2>1. zsp.leaving = {}
    BY DEF ZigInv, Looping
  <2>2. CASE \E P \in zsp.arbs : h = {Owner[o] : o \in P}
    BY <2>1, <2>2 DEF ZigInv, Known, Present
  <2>3. CASE \E j \in ToSet(zsp.joints) : h = BodiesOf(j)
    BY <2>1, <2>3 DEF ZigInv, Present
  <2> QED BY <2>2, <2>3 DEF Held
<1>2. b \in ListedDynamic(zsp)
  BY <1>1 DEF ListedDynamic, ZigInv, Sleeping
<1>3. b \in zsp.rests
  BY <1>2 DEF Disturbed
<1> QED BY <1>3 DEF ZigInv, Slept, Closed

\* What is told of its separation is not owed it any more, and nothing else is forgotten
\* that is; what touched in this step stays as it is.
LEMMA PruneArbiterCacheIs ==
  ASSUME IsSpace(zsp), Owed(zsp), PruneArbiterCache
  PROVE  /\ Only(zsp', zsp, {"phase", "rests", "cache", "begun", "early"})
         /\ zsp'.phase = "stepped" /\ Owed(zsp') /\ DOMAIN zsp'.cache \subseteq DOMAIN zsp.cache
         /\ \A P \in DOMAIN zsp.cache : zsp.cache[P].age = 0 =>
              P \in DOMAIN zsp'.cache /\ zsp'.cache[P] = zsp.cache[P]
<1> DEFINE rests(P) == \A o \in P : zsp.type[Owner[o]] = "static" \/ Owner[o] \in zsp.sleeping
           told == {P \in DOMAIN zsp.cache :
                      ~rests(P) /\ zsp.cache[P].age >= 1 /\ ~zsp.cache[P].separated}
           stale == {P \in DOMAIN zsp.cache : ~rests(P) /\ zsp.cache[P].age >= ZPersistence}
           mark(P) == IF P \in told THEN Separated(zsp.cache[P]) ELSE zsp.cache[P]
           c == [P \in DOMAIN zsp.cache \ stale |-> mark(P)]
           early == told \cap zsp.touching # {}
<1>1. zsp' = [zsp EXCEPT !.phase = "stepped", !.rests = {}, !.cache = c,
                !.begun = @ \ told, !.early = early]
  BY DEF PruneArbiterCache
<1>2. \A P \in stale : zsp.cache[P] \in Entry => P \in told \/ zsp.cache[P].separated
  BY ZigSpaceAssumption DEF Entry
<1>3. \A P : zsp.cache[P].age = 0 => P \notin stale /\ P \notin told
  BY ZigSpaceAssumption
<1> HIDE DEF rests, told, stale, early
<1>4. \A P \in DOMAIN zsp.cache : zsp.cache[P] \in Entry =>
        /\ mark(P) \in Entry
        /\ mark(P).separated <=> zsp.cache[P].separated \/ P \in told
  BY DEF Entry, Separated
<1>5. \A P : P \notin told => mark(P) = zsp.cache[P]
  OBVIOUS
<1>6. DOMAIN c = DOMAIN zsp.cache \ stale /\ \A P \in DOMAIN c : c[P] = mark(P)
  OBVIOUS
<1> HIDE DEF mark, c
<1>7. /\ Only(zsp', zsp, {"phase", "rests", "cache", "begun", "early"})
      /\ zsp'.phase = "stepped" /\ zsp'.cache = c /\ zsp'.begun = zsp.begun \ told
  BY <1>1 DEF Only, IsSpace, Fields
<1>8. Owed(zsp')
  <2>1. ASSUME NEW P \in zsp.begun \ told PROVE P \in DOMAIN c /\ ~c[P].separated
    <3>1. P \in DOMAIN zsp.cache /\ ~zsp.cache[P].separated /\ zsp.cache[P] \in Entry
      BY DEF Owed
    <3> QED BY <1>2, <1>4, <1>6, <3>1
  <2> QED BY <1>4, <1>6, <1>7, <2>1 DEF Owed
<1> QED BY <1>3, <1>5, <1>6, <1>7, <1>8

LEMMA PruneArbiterCacheKeeps ==
  ASSUME ZigInv, PruneArbiterCache
  PROVE  ZigInv'
<1>1. /\ Only(zsp', zsp, {"phase", "rests", "cache", "begun", "early"})
      /\ zsp'.phase = "stepped" /\ Owed(zsp') /\ DOMAIN zsp'.cache \subseteq DOMAIN zsp.cache
      /\ \A P \in DOMAIN zsp.cache : zsp.cache[P].age = 0 =>
           P \in DOMAIN zsp'.cache /\ zsp'.cache[P] = zsp.cache[P]
  BY PruneArbiterCacheIs DEF ZigInv
<1>2. Lined(zsp') /\ Indexed(zsp') /\ Jointed(zsp') /\ Present(zsp') /\ Sleeping(zsp')
  BY <1>1, Frame DEF ZigInv
<1>3. /\ zsp'.shapes = zsp.shapes /\ zsp'.leaving = zsp.leaving /\ zsp'.bodies = zsp.bodies
      /\ zsp'.todo = zsp.todo /\ zsp'.at = zsp.at /\ ~zsp'.panic /\ IsSpace(zsp')
      /\ zsp'.arbs = zsp.arbs /\ zsp'.joints = zsp.joints /\ zsp'.sleeping = zsp.sleeping
  BY <1>1 DEF ZigInv, Only, Fields
<1>4. Known(zsp')
  BY <1>1, <1>3 DEF ZigInv, Known, Listed
<1>5. zsp.phase = "wake" /\ Disturbed(zsp) = {}
  BY DEF PruneArbiterCache
<1>6. Looping(zsp') /\ Removing(zsp')
  BY <1>1, <1>3, <1>5 DEF ZigInv, Looping, Removing, Listed
<1>7. Slept(zsp')
  BY <1>1, <1>3, <1>5, RestersOnly DEF Slept, Held
<1>8. Touched(zsp')
  <2>1. /\ zsp'.touching = zsp.touching /\ zsp'.slept = zsp.slept /\ zsp.todo = {}
        /\ \A P : Found(zsp, P) => Found(zsp', P)
    BY <1>1, <1>5 DEF Only, Fields, Found, ZigInv, Looping
  <2>2. \A P \in zsp.touching : Seen(zsp, P)
    BY <1>5 DEF ZigInv, Touched
  <2>3. \A P \in zsp.touching : Seen(zsp', P)
    BY <2>1, <2>2, SeenStays
  <2> QED BY <1>1, <2>1, <2>3 DEF Touched
<1> QED BY <1>1, <1>2, <1>3, <1>4, <1>6, <1>7, <1>8 DEF ZigInv

-----------------------------------------------------------------------------
(* The invariant *)

\* A list of a set in order holds all of it once.
LEMMA ListsLine ==
  ASSUME NEW S, IsFiniteSet(S), NEW q \in Lists(S), NEW T, S \subseteq T
  PROVE  Line(q, T) /\ ToSet(q) = S
<1> DEFINE n == Cardinality(S)
<1>1. n \in Nat
  BY FS_CardinalityType
<1>2. q \in [1 .. n -> S] /\ ToSet(q) = S
  BY DEF Lists
<1>3. IsFiniteSet(1 .. n) /\ Cardinality(1 .. n) = n
  <2> HIDE DEF n
  <2> QED BY <1>1, FS_Interval
<1>4. q \in Surjection(1 .. n, S)
  <2>1. \A x \in S : \E i \in 1 .. n : q[i] = x
    BY <1>2 DEF ToSet
  <2> QED BY <1>2, <2>1 DEF Surjection
<1>5. q \in Injection(1 .. n, S)
  BY <1>3, <1>4, FS_SurjSameCardinalityImpliesInj
<1>6. Injective(q)
  BY <1>2, <1>5 DEF Injection, IsInjective, Injective
<1>7. q \in Seq(T)
  <2> HIDE DEF n
  <2> QED BY <1>1, <1>2, SeqDef
<1> QED BY <1>2, <1>6, <1>7 DEF Line

LEMMA ZigInvInit == ZigSpaceInit => ZigInv
<1> SUFFICES ASSUME ZigSpaceInit PROVE ZigInv
  OBVIOUS
<1>1. PICK type \in [ZBody -> {"dynamic", "static"}] :
        LET fixed == {o \in DOMAIN Owner : type[Owner[o]] = "static"}
            moves == DOMAIN Owner \ fixed
        IN  \E bodies \in Lists(ZBody), shapes \in Lists(DOMAIN Owner), dynamic \in Lists(moves),
               static \in Lists(fixed), joints \in Lists(DOMAIN Link) :
              zsp = [bodies |-> bodies, shapes |-> shapes, dynamic |-> dynamic, static |-> static,
                     dynIndex |-> moves, statIndex |-> fixed, joints |-> joints, type |-> type,
                     linked |-> [b \in ZBody |-> {j \in DOMAIN Link : b \in BodiesOf(j)}],
                     sleeping |-> {}, idle |-> [b \in ZBody |-> 0], arbs |-> {}, cache |-> <<>>,
                     begun |-> {}, early |-> FALSE, phase |-> "user", touching |-> {}, slept |-> {},
                     todo |-> {}, rests |-> {}, leaving |-> {}, at |-> 1,
                     panic |-> FALSE, ops |-> 0]
  BY DEF ZigSpaceInit
<1> DEFINE fixed == {o \in DOMAIN Owner : type[Owner[o]] = "static"}
           moves == DOMAIN Owner \ fixed
           links == [b \in ZBody |-> {j \in DOMAIN Link : b \in BodiesOf(j)}]
           none == [b \in ZBody |-> 0]
<1>2. PICK bodies \in Lists(ZBody), shapes \in Lists(DOMAIN Owner), dynamic \in Lists(moves),
           static \in Lists(fixed), joints \in Lists(DOMAIN Link) :
        zsp = [bodies |-> bodies, shapes |-> shapes, dynamic |-> dynamic, static |-> static,
               dynIndex |-> moves, statIndex |-> fixed, joints |-> joints, type |-> type,
               linked |-> links,
               sleeping |-> {}, idle |-> none, arbs |-> {}, cache |-> <<>>,
               begun |-> {}, early |-> FALSE, phase |-> "user", touching |-> {}, slept |-> {},
               todo |-> {}, rests |-> {}, leaving |-> {}, at |-> 1,
               panic |-> FALSE, ops |-> 0]
  BY <1>1
<1>3. (fixed \subseteq Shapes) /\ (moves \subseteq Shapes) /\ (fixed \cup moves = Shapes)
      /\ IsFiniteSet(fixed) /\ IsFiniteSet(moves)
  <2>1. (fixed \subseteq Shapes) /\ (moves \subseteq Shapes) /\ (fixed \cup moves = Shapes)
    BY DEF Shapes
  <2>2. IsFiniteSet(Shapes)
    BY ZigSpaceAssumption DEF Shapes
  <2> HIDE DEF fixed, moves
  <2> QED BY <2>1, <2>2, FS_Subset
<1>4. /\ \A o \in fixed : type[Owner[o]] = "static"
      /\ \A o \in moves : type[Owner[o]] # "static"
      /\ links \in [ZBody -> SUBSET Joints]
      /\ \A b \in ZBody : links[b] = {j \in Joints : b \in BodiesOf(j)}
  BY DEF Shapes, Joints
<1> HIDE DEF fixed, moves, links, none
<1>5. /\ Line(bodies, ZBody) /\ ToSet(bodies) = ZBody
      /\ Line(shapes, Shapes) /\ ToSet(shapes) = Shapes
      /\ Line(dynamic, Shapes) /\ ToSet(dynamic) = moves
      /\ Line(static, Shapes) /\ ToSet(static) = fixed
      /\ Line(joints, Joints) /\ ToSet(joints) = Joints
  BY <1>3, ZigSpaceAssumption, ListsLine DEF Shapes, Joints
<1>6. /\ IsSpace(zsp)
      /\ zsp.bodies = bodies /\ zsp.shapes = shapes /\ zsp.dynamic = dynamic /\ zsp.static = static
      /\ zsp.dynIndex = moves /\ zsp.statIndex = fixed /\ zsp.joints = joints /\ zsp.type = type
      /\ zsp.linked = links /\ zsp.sleeping = {} /\ zsp.arbs = {} /\ zsp.cache = <<>>
      /\ zsp.begun = {} /\ zsp.phase = "user" /\ zsp.todo = {} /\ zsp.leaving = {} /\ zsp.at = 1
      /\ zsp.panic = FALSE
  BY <1>2 DEF IsSpace, Fields
<1>7. DOMAIN zsp.cache = {}
  BY <1>6
<1>8. Lined(zsp) /\ Indexed(zsp) /\ Known(zsp) /\ Jointed(zsp)
  BY <1>3, <1>4, <1>5, <1>6, <1>7 DEF Lined, Indexed, Known, Jointed, Listed
<1>9. Present(zsp)
  <2>1. \A j \in Joints : BodiesOf(j) \subseteq ZBody
    BY ZigSpaceAssumption DEF BodiesOf, Joints
  <2>2. \A o \in Shapes : Owner[o] \in ZBody
    BY ZigSpaceAssumption DEF Shapes
  <2> QED BY <1>5, <1>6, <2>1, <2>2 DEF Present, Listed
<1>10. /\ Looping(zsp) /\ Removing(zsp) /\ Sleeping(zsp) /\ Slept(zsp) /\ Touched(zsp)
       /\ Owed(zsp)
  BY <1>6, <1>7 DEF Looping, Removing, Sleeping, Slept, Touched, Owed
<1> QED BY <1>6, <1>8, <1>9, <1>10 DEF ZigInv

LEMMA ZigInvNext ==
  ASSUME ZCareful, ZigInv, [ZigSpaceNext]_zsp
  PROVE  ZigInv'
<1>1. CASE UNCHANGED zsp
  BY <1>1 DEF ZigInv
<1>2. CASE \E touching \in SUBSET {PairKey(t[2], t[3]) : t \in Queries(zsp)} : BroadPhase(touching)
  BY <1>2, BroadPhaseKeeps
<1>3. CASE \E t \in zsp.todo, accepts \in BOOLEAN : QueryPairs(t[1], t[2], t[3], accepts)
  BY <1>3, QueryPairsKeeps
<1>4. CASE \E restless \in SUBSET (ListedDynamic(zsp) \ zsp.sleeping), sleeps \in BOOLEAN :
             ProcessComponents(restless, sleeps)
  BY <1>4, ProcessComponentsKeeps
<1>5. CASE \E b \in ZBody : WakeNext(b)
  BY <1>5, WakeNextKeeps
<1>6. CASE PruneArbiterCache \/ RemoveShapeOfBody \/ RemoveJointOfBody
  BY <1>6, PruneArbiterCacheKeeps, RemoveShapeOfBodyKeeps, RemoveJointOfBodyKeeps
<1>7. CASE \E b \in ZBody : AddBody(b) \/ RemoveBody(b) \/ ActivateBody(b)
                            \/ \E type \in {"dynamic", "static"} : SetType(b, type)
  BY <1>7, AddBodyKeeps, RemoveBodyKeeps, ActivateBodyKeeps, SetTypeKeeps
<1>8. CASE \E o \in DOMAIN Owner : AddShape(o) \/ RemoveShape(o) \/ ReindexShape(o)
  BY <1>8, AddShapeKeeps, RemoveShapeKeeps, ReindexShapeKeeps DEF Shapes
<1>9. CASE \E j \in DOMAIN Link : AddConstraint(j) \/ RemoveConstraint(j)
  BY <1>9, AddConstraintKeeps, RemoveConstraintKeeps DEF Joints
<1>10. CASE UseSpatialHash
  BY <1>10, UseSpatialHashKeeps
<1> QED BY <1>1, <1>2, <1>3, <1>4, <1>5, <1>6, <1>7, <1>8, <1>9, <1>10 DEF ZigSpaceNext

LEMMA AlwaysZigInv == ZCareful => (ZigSpaceSpec => []ZigInv)
<1> SUFFICES ASSUME ZCareful PROVE ZigSpaceSpec => []ZigInv
  OBVIOUS
<1>1. ZigSpaceInit => ZigInv
  BY ZigInvInit
<1>2. ZigInv /\ [ZigSpaceNext]_zsp => ZigInv'
  BY ZigInvNext
<1> QED BY <1>1, <1>2, PTL DEF ZigSpaceSpec

-----------------------------------------------------------------------------
(* The theorems *)

\* In a game that avoids the calls removeBody() and setType() do not bear, the lists,
\* the indexes and the caches agree on what is in the space between any two rounds of
\* any loop, and the loops of removeBody() never count below zero.
THEOREM ListsAgree == ZCareful => (ZigSpaceSpec => []ZigListsAgree)
<1>1. ZigInv => ZigListsAgree
  BY DEF ZigInv, ZigListsAgree, Indexed, Known, Jointed, Present
<1> QED BY <1>1, AlwaysZigInv, PTL

\* However processComponents() groups and wakes the bodies, at the end of a step those
\* that an arbiter of the step or a constraint holds together sleep all or not at all, and
\* none with what is not dynamic; and none fell asleep in the step while one that it
\* touches is awake, unless a handler refused the pair.  Nothing is said of two that touch
\* and slept before the step: queryPairs() passes over them, and one may be woken alone.
THEOREM SleepAlike == ZCareful => (ZigSpaceSpec => []ZigSleepTogether)
<1>1. ASSUME ZigInv, zsp.phase = "stepped", NEW P \in zsp.touching, P \notin Refused,
             NEW o \in P, Owner[o] \in FellAsleep, NEW x \in P
      PROVE  Owner[x] \in zsp.sleeping
  <2>1. Found(zsp, P)
    <3>1. Seen(zsp, P) /\ zsp.todo = {}
      BY <1>1 DEF ZigInv, Touched, Looping
    <3>2. ~Overslept(zsp, P)
      BY <1>1 DEF Overslept, FellAsleep
    <3> QED BY <3>1, <3>2 DEF Seen, Waiting
  <2>2. P \in zsp.arbs
    BY <1>1, <2>1 DEF Found, Refused
  <2> DEFINE h == {Owner[y] : y \in P}
  <2>3. h \in Held(zsp) /\ Owner[o] \in h /\ Owner[x] \in h
    BY <2>2 DEF Held
  <2> HIDE DEF h
  <2> QED BY <1>1, <2>3 DEF ZigInv, Slept, Closed, FellAsleep
<1>2. ZigInv => ZigSleepTogether
  BY <1>1 DEF ZigInv, ZigSleepTogether, Slept, Closed
<1> QED BY <1>2, AlwaysZigInv, PTL

-----------------------------------------------------------------------------
(* The debts of separation, in any game *)

Owing == IsSpace(zsp) /\ Owed(zsp)

\* A step or call that leaves the cache and the debts alone.
LEMMA OwingFrame ==
  ASSUME NEW s, Owed(s), NEW t, NEW F, Only(t, s, F), F \cap {"cache", "begun"} = {}
  PROVE  IsSpace(t) /\ Owed(t)
BY Frame DEF Only

LEMMA OwingCalled ==
  ASSUME NEW s, IsSpace(s), Owed(s)
  PROVE  IsSpace(Called(s)) /\ Owed(Called(s))
BY CalledIs, OwingFrame

LEMMA OwingActivate ==
  ASSUME NEW s, IsSpace(s), Owed(s), NEW b
  PROVE  IsSpace(Activate(s, b)) /\ Owed(Activate(s, b))
BY ActivateIs, OwingFrame

LEMMA OwingShapeRemoved ==
  ASSUME NEW s, IsSpace(s), Owed(s), NEW o
  PROVE  IsSpace(ShapeRemoved(s, o)) /\ Owed(ShapeRemoved(s, o))
<1> DEFINE r == [s EXCEPT !.shapes = RemovePtr(@, o)]
           f == FilterArbiters(r, {o})
<1>1. Only(r, s, {"shapes"})
  BY DEF Only, IsSpace, Fields
<1> HIDE DEF r
<1>2. IsSpace(r) /\ Owed(r)
  BY <1>1, OwingFrame
<1>3. IsSpace(f) /\ Owed(f)
  BY <1>2, FilterIs DEF Only
<1>4. ShapeRemoved(s, o) = IF s.type[Owner[o]] = "static" THEN StaticRemoved(f, o)
                           ELSE DynamicRemoved(f, o)
  BY DEF ShapeRemoved, r
<1> HIDE DEF f
<1>5. /\ Only(StaticRemoved(f, o), f, {"static", "statIndex"})
      /\ Only(DynamicRemoved(f, o), f, {"dynamic", "dynIndex"})
  BY <1>3 DEF StaticRemoved, DynamicRemoved, Only, IsSpace, Fields
<1>6. /\ IsSpace(StaticRemoved(f, o)) /\ Owed(StaticRemoved(f, o))
      /\ IsSpace(DynamicRemoved(f, o)) /\ Owed(DynamicRemoved(f, o))
  BY <1>3, <1>5, OwingFrame
<1> QED BY <1>4, <1>6

LEMMA OwingQueryPairs ==
  ASSUME Owing, NEW q, NEW o, NEW x, NEW accepts, QueryPairs(q, o, x, accepts)
  PROVE  Owing'
<1> DEFINE P == PairKey(o, x)
           s == [zsp EXCEPT !.todo = @ \ {<<q, o, x>>}]
           c == Activate(Activate(s, Owner[o]), Owner[x])
           met == [FetchArbiter(c, P) EXCEPT !.begun = @ \cup {P}]
<1>1. zsp' \in {s, met, [met EXCEPT !.arbs = @ \cup {P}]}
  BY DEF QueryPairs
<1>2. Only(s, zsp, {"todo"})
  BY DEF Owing, Only, IsSpace, Fields
<1> HIDE DEF s
<1>3. IsSpace(s) /\ Owed(s)
  BY <1>2, OwingFrame DEF Owing
<1>4. IsSpace(c) /\ Owed(c)
  BY <1>3, OwingActivate
<1> HIDE DEF c
<1>5. IsSpace(met) /\ Owed(met)
  <2>1. Only(met, c, {"cache", "begun"}) /\ Owed(met)
    BY <1>4, MetKeeps
  <2> QED BY <2>1 DEF Only
<1> HIDE DEF met
<1>6. Only([met EXCEPT !.arbs = @ \cup {P}], met, {"arbs"})
  BY <1>5 DEF Only, IsSpace, Fields
<1>7. IsSpace([met EXCEPT !.arbs = @ \cup {P}]) /\ Owed([met EXCEPT !.arbs = @ \cup {P}])
  BY <1>5, <1>6, OwingFrame
<1> QED BY <1>1, <1>3, <1>5, <1>7 DEF Owing

\* The calls of the game, careful or not, and the loops of removeBody().
LEMMA OwingChanges ==
  ASSUME Owing, NEW b, NEW o, NEW j, NEW type,
         \/ AddBody(b) \/ RemoveBody(b) \/ ActivateBody(b) \/ SetType(b, type)
         \/ AddShape(o) \/ RemoveShape(o) \/ ReindexShape(o)
         \/ AddConstraint(j) \/ RemoveConstraint(j) \/ UseSpatialHash
         \/ RemoveShapeOfBody \/ RemoveJointOfBody
  PROVE  Owing'
<1>0. IsSpace(zsp) /\ Owed(zsp)
  BY DEF Owing
<1>1. CASE AddBody(b)
  <2> DEFINE r == [zsp EXCEPT !.bodies = Append(@, b), !.linked[b] = {}]
  <2>1. Only(r, zsp, {"bodies", "linked"}) /\ zsp' = Called(Wake(r, {b}))
    BY <1>0, <1>1 DEF AddBody, Only, IsSpace, Fields
  <2> HIDE DEF r
  <2>2. IsSpace(r) /\ Owed(r)
    BY <1>0, <2>1, OwingFrame
  <2>3. IsSpace(Wake(r, {b})) /\ Owed(Wake(r, {b}))
    BY <2>2, WakeIs, OwingFrame
  <2> QED BY <2>1, <2>3, OwingCalled DEF Owing
<1>2. CASE RemoveBody(b)
  <2> DEFINE r == [zsp EXCEPT !.bodies = RemovePtr(@, b)]
             f == FilterArbiters(r, {e \in DOMAIN Owner : Owner[e] = b})
             c == Called(f)
  <2>1. Only(r, zsp, {"bodies"})
    BY <1>0 DEF Only, IsSpace, Fields
  <2>2. zsp' = [c EXCEPT !.phase = "shapes", !.leaving = {b}, !.at = 1]
    BY <1>2 DEF RemoveBody
  <2> HIDE DEF r
  <2>3. IsSpace(r) /\ Owed(r)
    BY <1>0, <2>1, OwingFrame
  <2>4. IsSpace(f) /\ Owed(f)
    BY <2>3, FilterIs DEF Only
  <2> HIDE DEF f
  <2>5. IsSpace(c) /\ Owed(c)
    BY <2>4, OwingCalled
  <2> HIDE DEF c
  <2>6. Only(zsp', c, {"phase", "leaving", "at"})
    BY <2>2, <2>5 DEF Only, IsSpace, Fields
  <2> QED BY <2>5, <2>6, OwingFrame DEF Owing
<1>3. CASE ActivateBody(b)
  BY <1>0, <1>3, OwingActivate, OwingCalled DEF ActivateBody, Owing
<1>4. CASE SetType(b, type)
  <2> DEFINE r == [zsp EXCEPT !.type[b] = type]
  <2>1. Only(r, zsp, {"type"}) /\ zsp' = Called(r)
    BY <1>0, <1>4 DEF SetType, Only, IsSpace, Fields
  <2> HIDE DEF r
  <2> QED BY <1>0, <2>1, OwingFrame, OwingCalled DEF Owing
<1>5. CASE AddShape(o)
  <2> DEFINE fixed == [zsp EXCEPT !.shapes = Append(@, o), !.static = Append(@, o),
                                  !.statIndex = @ \cup {o}]
             moving == [zsp EXCEPT !.shapes = Append(@, o), !.dynamic = Append(@, o),
                                   !.dynIndex = @ \cup {o}]
  <2>1. /\ Only(fixed, zsp, {"shapes", "static", "statIndex"})
        /\ Only(moving, zsp, {"shapes", "dynamic", "dynIndex"})
    BY <1>0 DEF Only, IsSpace, Fields
  <2>2. zsp' = Called(fixed) \/ zsp' = Called(moving)
    BY <1>5 DEF AddShape
  <2> HIDE DEF fixed, moving
  <2>3. IsSpace(fixed) /\ Owed(fixed) /\ IsSpace(moving) /\ Owed(moving)
    BY <1>0, <2>1, OwingFrame
  <2> QED BY <2>2, <2>3, OwingCalled DEF Owing
<1>6. CASE RemoveShape(o)
  BY <1>0, <1>6, OwingShapeRemoved, OwingCalled DEF RemoveShape, Owing
<1>7. CASE ReindexShape(o)
  <2> DEFINE fixed == [zsp EXCEPT !.statIndex = @ \cup {o}]
             moving == [zsp EXCEPT !.dynIndex = @ \cup {o}]
  <2>1. Only(fixed, zsp, {"statIndex"}) /\ Only(moving, zsp, {"dynIndex"})
    BY <1>0 DEF Only, IsSpace, Fields
  <2>2. zsp' = Called(fixed) \/ zsp' = Called(moving)
    BY <1>7 DEF ReindexShape
  <2> HIDE DEF fixed, moving
  <2>3. IsSpace(fixed) /\ Owed(fixed) /\ IsSpace(moving) /\ Owed(moving)
    BY <1>0, <2>1, OwingFrame
  <2> QED BY <2>2, <2>3, OwingCalled DEF Owing
<1>8. CASE AddConstraint(j)
  <2> DEFINE r == [zsp EXCEPT !.joints = Append(@, j),
                     !.linked = [e \in ZBody |-> IF e \in BodiesOf(j) THEN @[e] \cup {j} ELSE @[e]]]
  <2>1. Only(r, zsp, {"joints", "linked"}) /\ zsp' = Called(r)
    BY <1>0, <1>8 DEF AddConstraint, Only, IsSpace, Fields
  <2> HIDE DEF r
  <2> QED BY <1>0, <2>1, OwingFrame, OwingCalled DEF Owing
<1>9. \A k : IsSpace(JointRemoved(zsp, k)) /\ Owed(JointRemoved(zsp, k))
  <2>1. \A k : Only(JointRemoved(zsp, k), zsp, {"joints", "linked"})
    BY <1>0 DEF JointRemoved, Only, IsSpace, Fields
  <2> QED BY <1>0, <2>1, OwingFrame
<1>10. CASE RemoveConstraint(j)
  BY <1>9, <1>10, OwingCalled DEF RemoveConstraint, Owing
<1>11. CASE UseSpatialHash
  <2> DEFINE r == [zsp EXCEPT !.dynIndex = ToSet(zsp.dynamic), !.statIndex = ToSet(zsp.static)]
  <2>1. Only(r, zsp, {"dynIndex", "statIndex"}) /\ zsp' = Called(r)
    BY <1>0, <1>11 DEF UseSpatialHash, Only, IsSpace, Fields
  <2> HIDE DEF r
  <2> QED BY <1>0, <2>1, OwingFrame, OwingCalled DEF Owing
<1>12. CASE RemoveShapeOfBody
  <2>1. \/ \E i : \E n : zsp' = [ShapeRemoved(zsp, zsp.shapes[i]) EXCEPT !.at = n]
        \/ zsp' = [zsp EXCEPT !.phase = "joints", !.at = 1]
    BY <1>12 DEF RemoveShapeOfBody
  <2>2. ASSUME NEW i, NEW n, zsp' = [ShapeRemoved(zsp, zsp.shapes[i]) EXCEPT !.at = n] PROVE Owing'
    <3> DEFINE t == ShapeRemoved(zsp, zsp.shapes[i])
    <3>1. IsSpace(t) /\ Owed(t)
      BY <1>0, OwingShapeRemoved
    <3>2. zsp' = [t EXCEPT !.at = n]
      BY <2>2
    <3> HIDE DEF t
    <3>3. Only(zsp', t, {"at"})
      BY <3>1, <3>2 DEF Only, IsSpace, Fields
    <3> QED BY <3>1, <3>3, OwingFrame DEF Owing
  <2>3. CASE zsp' = [zsp EXCEPT !.phase = "joints", !.at = 1]
    <3>1. Only(zsp', zsp, {"phase", "at"})
      BY <1>0, <2>3 DEF Only, IsSpace, Fields
    <3> QED BY <1>0, <3>1, OwingFrame DEF Owing
  <2> QED BY <2>1, <2>2, <2>3
<1>13. CASE RemoveJointOfBody
  <2>1. \/ zsp' = [zsp EXCEPT !.phase = "user", !.leaving = {}]
        \/ \E i : \/ zsp' = [JointRemoved(zsp, zsp.joints[i]) EXCEPT !.at = i]
                 \/ zsp' = [JointRemoved(zsp, zsp.joints[i]) EXCEPT
                              !.phase = "user", !.leaving = {}, !.panic = TRUE]
    BY <1>13 DEF RemoveJointOfBody
  <2>2. ASSUME NEW t, IsSpace(t), Owed(t), NEW i,
               \/ zsp' = [t EXCEPT !.at = i] \/ zsp' = [t EXCEPT !.phase = "user", !.leaving = {}]
               \/ zsp' = [t EXCEPT !.phase = "user", !.leaving = {}, !.panic = TRUE]
        PROVE  Owing'
    <3>1. Only(zsp', t, {"at", "phase", "leaving", "panic"})
      BY <2>2 DEF Only, IsSpace, Fields
    <3> QED BY <2>2, <3>1, OwingFrame DEF Owing
  <2> QED BY <1>0, <1>9, <2>1, <2>2
<1> QED BY <1>1, <1>2, <1>3, <1>4, <1>5, <1>6, <1>7, <1>8, <1>10, <1>11, <1>12, <1>13

LEMMA OwingNext ==
  ASSUME Owing, [ZigSpaceNext]_zsp
  PROVE  Owing'
<1>1. CASE UNCHANGED zsp
  BY <1>1 DEF Owing
<1>2. CASE \E touching \in SUBSET {PairKey(t[2], t[3]) : t \in Queries(zsp)} : BroadPhase(touching)
  BY <1>2, BroadPhaseIs DEF Owing, Only
<1>3. CASE \E t \in zsp.todo, accepts \in BOOLEAN : QueryPairs(t[1], t[2], t[3], accepts)
  BY <1>3, OwingQueryPairs
<1>4. CASE \E restless \in SUBSET (ListedDynamic(zsp) \ zsp.sleeping), sleeps \in BOOLEAN :
             ProcessComponents(restless, sleeps)
  <2>1. PICK idle, rests : zsp' = [zsp EXCEPT !.phase = "wake", !.idle = idle, !.rests = rests,
                                     !.sleeping = @ \cup rests]
    BY <1>4 DEF ProcessComponents
  <2>2. Only(zsp', zsp, {"phase", "idle", "rests", "sleeping"})
    BY <2>1 DEF Owing, Only, IsSpace, Fields
  <2> QED BY <2>2, OwingFrame DEF Owing
<1>5. CASE \E b \in ZBody : WakeNext(b)
  BY <1>5, OwingActivate DEF WakeNext, Owing
<1>6. CASE PruneArbiterCache
  BY <1>6, PruneArbiterCacheIs DEF Owing, Only
<1>7. CASE RemoveShapeOfBody \/ RemoveJointOfBody \/ UseSpatialHash
  BY <1>7, OwingChanges
<1>8. CASE \E b \in ZBody : AddBody(b) \/ RemoveBody(b) \/ ActivateBody(b)
                            \/ \E type \in {"dynamic", "static"} : SetType(b, type)
  BY <1>8, OwingChanges
<1>9. CASE \E o \in DOMAIN Owner : AddShape(o) \/ RemoveShape(o) \/ ReindexShape(o)
  BY <1>9, OwingChanges
<1>10. CASE \E j \in DOMAIN Link : AddConstraint(j) \/ RemoveConstraint(j)
  BY <1>10, OwingChanges
<1> QED BY <1>1, <1>2, <1>3, <1>4, <1>5, <1>6, <1>7, <1>8, <1>9, <1>10 DEF ZigSpaceNext

\* Whatever the game calls, no pair that the handlers were told of is forgotten before
\* they are told of its separation, whatever the persistence of the cache.
THEOREM SeparationOwed == ZigSpaceSpec => []ZigSeparateOwed
<1>1. ZigSpaceInit => Owing
  BY ZigInvInit DEF ZigInv, Owing
<1>2. Owing /\ [ZigSpaceNext]_zsp => Owing'
  BY OwingNext
<1>3. Owing => ZigSeparateOwed
  BY DEF Owing, ZigSeparateOwed, Owed
<1> QED BY <1>1, <1>2, <1>3, PTL DEF ZigSpaceSpec
=============================================================================
