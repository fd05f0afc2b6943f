---------------------------- MODULE BuffersProofs ----------------------------
(***************************************************************************)
(* No contact buffer is used again while a current arbiter points into it, *)
(* for any sizes, persistences and range of time stamps.  Arbiters that    *)
(* the filter kept past their age because their bodies rest are left out.  *)
(***************************************************************************)
EXTENDS ContactBuffers, SequenceTheorems, TLAPS

Stamp == 0..(StampRange - 1)
Buffer == [id : Nat \ {0}, stamp : Stamp, numContacts : 0..Size]
Place == [at : Nat \cup {HEAP}, start : Nat, count : 0..MaxContacts, written : Stamp, stamp : Stamp,
          rested : BOOLEAN]

TypeOK ==
  /\ stamp \in Stamp /\ collisionPersistence \in Persistences
  /\ ring \in Seq(Buffer) /\ phase \in {"user", "narrow", "components"}
  /\ contacts \in [Arbiter -> Place]

\* The buffers r at the time now are distinct, from the oldest to one of this step,
\* and recent enough for their stamps to tell their age: a buffer that is not used
\* again as soon as it is old enough has others before it, and MaxBuffers limits how many
\* one step adds to a ring that already has as many.
Elapsed(now, s) == (now - s) % StampRange

Ordered(r, now) ==
  /\ \A i \in 1..Len(r) : r[i].id <= Len(r)
  /\ \A i, j \in 1..Len(r) : r[i].id = r[j].id => i = j
  /\ \A i, j \in 1..Len(r) : i <= j => Elapsed(now, r[i].stamp) >= Elapsed(now, r[j].stamp)

Recent(r, now, P) ==
  /\ \A i \in 1..Len(r) : Elapsed(now, r[i].stamp) + i <= MaxBuffers + 2 * P
  /\ \A i \in 1..Len(r) : i >= MaxBuffers => Elapsed(now, r[i].stamp) >= Len(r) - i

Ring ==
  /\ Ordered(ring, stamp) /\ Recent(ring, stamp, collisionPersistence)
  /\ ring # <<>> => Newest(ring).stamp = stamp
  /\ ring = <<>> => phase = "user" /\ \A a \in Arbiter : contacts[a].at = NULL

\* Contacts are written in a buffer of the same step, and those of arbiters that the
\* filter keeps, but for the resting, are too young for their buffer to be used again.
Young ==
  \A a \in Current :
    /\ contacts[a].written = contacts[a].stamp
    /\ Age(contacts[a].stamp) <= IF phase = "user" THEN collisionPersistence - 1
                                 ELSE collisionPersistence

IInv == TypeOK /\ Ring /\ Young /\ ContactsIntact /\ NoOverlap

\* Every current arbiter's contacts are in the buffers r; ContactsIntact is Holds(ring).
Holds(r) ==
  \A a \in Current : \E i \in 1..Len(r) :
    /\ r[i].id = contacts[a].at /\ r[i].stamp = contacts[a].written
    /\ contacts[a].start + contacts[a].count <= r[i].numContacts

-----------------------------------------------------------------------------
(* Time stamps *)

LEMMA Constants ==
  /\ StampRange \in Nat /\ StampRange > 0 /\ MaxBuffers \in Nat
  /\ MaxContacts \in Nat \ {0} /\ Size \in Nat /\ Size >= MaxContacts
  /\ Started \in Persistences
  /\ \A P \in Persistences : P \in Nat \ {0} /\ MaxBuffers + 2 * P + 2 < StampRange
<1>1. \A P \in Persistences : P \in Nat \ {0} /\ MaxBuffers + 2 * P + 2 < StampRange
  BY BuffersAssumption
<1>2. StampRange > 0
  BY <1>1, BuffersAssumption
<1> QED
  BY <1>1, <1>2, BuffersAssumption

\* The counter of steps wraps; the difference of two stamps does not notice.
LEMMA Wraps ==
  ASSUME NEW x \in Int, NEW r \in Nat, r > 0
  PROVE  /\ x \in 0..(r - 1) => x % r = x
         /\ x \in (-r)..(-1) => x % r = x + r
         /\ x = r => x % r = 0
OBVIOUS

LEMMA ElapsedIs ==
  ASSUME NEW now \in Stamp, NEW s \in Stamp
  PROVE  /\ Elapsed(now, s) = IF s <= now THEN now - s ELSE now - s + StampRange
         /\ Elapsed(now, s) \in Stamp
<1>1. now - s \in Int /\ (s <= now => now - s \in 0..(StampRange - 1))
      /\ (s > now => now - s \in (-StampRange)..(-1))
  BY Constants DEF Stamp
<1> QED
  BY <1>1, Wraps, Constants DEF Elapsed, Stamp

LEMMA BufferFields ==
  \A b \in Buffer : /\ b.id \in Nat \ {0} /\ b.stamp \in Stamp
                     /\ b.numContacts \in Nat /\ b.numContacts <= Size
BY Constants DEF Buffer

LEMMA AgeInNat ==
  ASSUME NEW now \in Stamp
  PROVE  \A b \in Buffer : Elapsed(now, b.stamp) \in Nat
<1>1. \A s \in Stamp : Elapsed(now, s) \in Nat
  BY ElapsedIs DEF Stamp
<1>2. \A b \in Buffer : b.stamp \in Stamp
  BY DEF Buffer
<1> QED
  BY <1>1, <1>2

\* A step later everything is a step older.
LEMMA StepOlder ==
  ASSUME NEW now \in Stamp
  PROVE  LET next == (now + 1) % StampRange
         IN  /\ next \in Stamp /\ Elapsed(next, next) = 0
             /\ \A s \in Stamp : Elapsed(now, s) + 1 < StampRange =>
                  Elapsed(next, s) = Elapsed(now, s) + 1
<1> DEFINE next == (now + 1) % StampRange
<1>1. next = IF now + 1 = StampRange THEN 0 ELSE now + 1
  <2>1. now + 1 \in Int /\ (now + 1 = StampRange \/ now + 1 \in 0..(StampRange - 1))
    BY Constants DEF Stamp
  <2> QED
    BY <2>1, Wraps, Constants
<1>2. next \in Stamp
  BY <1>1, Constants DEF Stamp
<1>3. Elapsed(next, next) = 0
  BY <1>2, ElapsedIs DEF Stamp
<1>4. ASSUME NEW s \in Stamp, Elapsed(now, s) + 1 < StampRange
      PROVE  Elapsed(next, s) = Elapsed(now, s) + 1
  <2>1. Elapsed(now, s) = IF s <= now THEN now - s ELSE now - s + StampRange
    BY ElapsedIs
  <2>2. Elapsed(next, s) = IF s <= next THEN next - s ELSE next - s + StampRange
    BY <1>2, ElapsedIs
  <2> HIDE DEF next
  <2> QED
    BY <1>1, <1>4, <2>1, <2>2, Constants DEF Stamp
<1> QED
  BY <1>2, <1>3, <1>4

-----------------------------------------------------------------------------
(* cpSpacePushFreshContactBuffer() *)

LEMMA MovedUp ==
  ASSUME NEW r \in Seq(Buffer), r # <<>>, NEW b \in Buffer
  PROVE  LET q == Append(Tail(r), b)
         IN  /\ q \in Seq(Buffer) /\ Len(q) = Len(r) /\ Len(r) > 0 /\ q[Len(r)] = b
             /\ \A i \in 1..(Len(r) - 1) : q[i] = r[i + 1]
OBVIOUS

LEMMA Extended ==
  ASSUME NEW r \in Seq(Buffer), NEW b \in Buffer
  PROVE  LET q == Append(r, b)
         IN  /\ q \in Seq(Buffer) /\ Len(q) = Len(r) + 1 /\ q[Len(r) + 1] = b
             /\ \A i \in 1..Len(r) : q[i] = r[i]
OBVIOUS

\* The oldest buffer is used again: the others move up.
LEMMA Reused ==
  ASSUME NEW r \in Seq(Buffer), NEW now \in Stamp, NEW P \in Persistences,
         NEW b \in Buffer, b.id = r[1].id, b.stamp = now,
         Ordered(r, now),
         Len(r) <= MaxBuffers + 2 * P,
         \A i \in 1..Len(r) : Elapsed(now, r[i].stamp) + i <= MaxBuffers + 2 * P + 1,
         \A i \in 1..Len(r) : i > MaxBuffers => Elapsed(now, r[i].stamp) > Len(r) - i,
         NEW q, Len(q) = Len(r), Len(r) > 0, q[Len(r)] = b,
         \A i \in 1..(Len(r) - 1) : q[i] = r[i + 1]
  PROVE  Ordered(q, now) /\ Recent(q, now, P)
<1>1. /\ Len(r) \in Nat /\ Len(r) > 0 /\ \A i \in 1..Len(r) : r[i] \in Buffer
      /\ Len(q) = Len(r) /\ q[Len(q)] = b
      /\ \A i \in 1..(Len(r) - 1) : q[i] = r[i + 1]
  OBVIOUS
<1>2. \A i \in 1..Len(r) : Elapsed(now, r[i].stamp) \in Nat
  BY <1>1, AgeInNat
<1>3. Elapsed(now, b.stamp) = 0
  BY ElapsedIs DEF Stamp
<1>4. \A i \in 1..Len(q) :
        \/ i < Len(q) /\ i + 1 \in 1..Len(r) /\ q[i] = r[i + 1]
        \/ i = Len(q) /\ q[i] = b
  BY <1>1
<1>5. /\ \A i \in 1..Len(r) : r[i].id \in Nat /\ r[i].id <= Len(r)
      /\ \A i, j \in 1..Len(r) : r[i].id = r[j].id => i = j
      /\ \A i, j \in 1..Len(r) : i <= j => Elapsed(now, r[i].stamp) >= Elapsed(now, r[j].stamp)
      /\ 1 \in 1..Len(r)
  BY <1>1 DEF Ordered, Buffer
<1>6. Ordered(q, now)
  <2>1. ASSUME NEW i \in 1..Len(q) PROVE q[i].id <= Len(q)
    BY <1>1, <1>4, <1>5
  <2>2. ASSUME NEW i \in 1..Len(q), NEW j \in 1..Len(q), q[i].id = q[j].id PROVE i = j
    <3>1. i < Len(q) => i + 1 \in 1..Len(r) /\ i + 1 # 1 /\ q[i].id = r[i + 1].id
      BY <1>1, <1>4
    <3>2. j < Len(q) => j + 1 \in 1..Len(r) /\ j + 1 # 1 /\ q[j].id = r[j + 1].id
      BY <1>1, <1>4
    <3>3. i = Len(q) => q[i].id = r[1].id
      BY <1>1
    <3>4. j = Len(q) => q[j].id = r[1].id
      BY <1>1
    <3> QED
      BY <1>1, <1>5, <2>2, <3>1, <3>2, <3>3, <3>4
  <2>3. ASSUME NEW i \in 1..Len(q), NEW j \in 1..Len(q), i <= j
        PROVE  Elapsed(now, q[i].stamp) >= Elapsed(now, q[j].stamp)
    <3>1. CASE j = Len(q)
      <4>1. Elapsed(now, q[j].stamp) = 0
        BY <1>1, <1>3, <3>1
      <4>2. q[i] \in Buffer
        BY <1>1, <1>4
      <4>3. Elapsed(now, q[i].stamp) \in Nat
        BY <4>2, AgeInNat
      <4> QED
        BY <4>1, <4>3
    <3>2. CASE j < Len(q)
      BY <1>1, <1>4, <1>5, <2>3, <3>2
    <3> QED
      BY <1>1, <3>1, <3>2
  <2> QED
    BY <2>1, <2>2, <2>3 DEF Ordered
<1>7. Recent(q, now, P)
  <2>1. MaxBuffers \in Nat /\ P \in Nat
    BY Constants
  <2>2. 2 * P \in Nat
    BY <2>1
  <2>3. ASSUME NEW i \in 1..Len(q)
        PROVE  /\ Elapsed(now, q[i].stamp) + i <= MaxBuffers + 2 * P
               /\ i >= MaxBuffers => Elapsed(now, q[i].stamp) >= Len(q) - i
    <3>1. CASE i = Len(q)
      BY <1>1, <1>3, <2>1, <2>2, <3>1
    <3>2. CASE i < Len(q)
      <4>1. i + 1 \in 1..Len(r) /\ q[i] = r[i + 1] /\ Elapsed(now, r[i + 1].stamp) \in Nat
        BY <1>1, <1>2, <1>4, <3>2
      <4> QED
        BY <1>1, <2>1, <4>1
    <3> QED
      BY <1>1, <3>1, <3>2
  <2> QED
    BY <2>3 DEF Recent
<1> QED
  BY <1>6, <1>7

\* A buffer is added when the oldest is still young: then there are not many, because
\* beyond MaxBuffers one is added in each step.
LEMMA Added ==
  ASSUME NEW r \in Seq(Buffer), NEW now \in Stamp, NEW P \in Persistences,
         NEW b \in Buffer, b.id = Len(r) + 1, b.stamp = now,
         Ordered(r, now),
         r # <<>> => Elapsed(now, r[1].stamp) <= P,
         \A i \in 1..Len(r) : i >= MaxBuffers => Elapsed(now, r[i].stamp) > Len(r) - i,
         NEW q, Len(q) = Len(r) + 1, q[Len(r) + 1] = b, \A i \in 1..Len(r) : q[i] = r[i]
  PROVE  Ordered(q, now) /\ Recent(q, now, P)
<1>1. /\ Len(r) \in Nat /\ (Len(r) > 0 => r # <<>>) /\ \A i \in 1..Len(r) : r[i] \in Buffer
      /\ Len(q) = Len(r) + 1 /\ q[Len(q)] = b
      /\ \A i \in 1..Len(r) : q[i] = r[i]
  OBVIOUS
<1>2. \A i \in 1..Len(r) : Elapsed(now, r[i].stamp) \in Nat
  BY <1>1, AgeInNat
<1>3. Elapsed(now, b.stamp) = 0
  BY ElapsedIs DEF Stamp
<1>4. \A i \in 1..Len(q) : \/ i \in 1..Len(r) /\ q[i] = r[i]
                           \/ i = Len(q) /\ q[i] = b
  BY <1>1
<1>5. MaxBuffers \in Nat /\ P \in Nat /\ P > 0
  BY Constants
<1>6. \A i \in 1..Len(r) : Elapsed(now, r[i].stamp) <= P
  <2> SUFFICES ASSUME NEW i \in 1..Len(r) PROVE Elapsed(now, r[i].stamp) <= P
    OBVIOUS
  <2>1. Elapsed(now, r[i].stamp) <= Elapsed(now, r[1].stamp) /\ 1 \in 1..Len(r)
    BY <1>1 DEF Ordered
  <2> QED
    BY <1>1, <1>2, <1>5, <2>1
<1>7. Len(r) <= MaxBuffers + P
  <2>1. CASE Len(r) <= MaxBuffers
    BY <1>1, <1>5, <2>1
  <2>2. CASE Len(r) > MaxBuffers /\ MaxBuffers > 0
    <3>1. MaxBuffers \in 1..Len(r)
      BY <1>1, <1>5, <2>2
    <3> QED
      BY <1>1, <1>2, <1>5, <1>6, <3>1
  <2>3. CASE Len(r) > MaxBuffers /\ MaxBuffers = 0
    <3>1. 1 \in 1..Len(r) /\ 1 >= MaxBuffers
      BY <1>1, <2>3
    <3> QED
      BY <1>1, <1>2, <1>5, <1>6, <2>3, <3>1
  <2> QED
    BY <1>1, <1>5, <2>1, <2>2, <2>3
<1>8. Ordered(q, now)
  <2>1. /\ \A i \in 1..Len(r) : r[i].id \in Nat /\ r[i].id <= Len(r)
        /\ \A i, j \in 1..Len(r) : r[i].id = r[j].id => i = j
        /\ \A i, j \in 1..Len(r) : i <= j => Elapsed(now, r[i].stamp) >= Elapsed(now, r[j].stamp)
    BY <1>1 DEF Ordered, Buffer
  <2>2. ASSUME NEW i \in 1..Len(q) PROVE q[i].id <= Len(q)
    BY <1>1, <1>4, <2>1
  <2>3. ASSUME NEW i \in 1..Len(q), NEW j \in 1..Len(q), q[i].id = q[j].id PROVE i = j
    BY <1>1, <1>4, <2>1, <2>3
  <2>4. ASSUME NEW i \in 1..Len(q), NEW j \in 1..Len(q), i <= j
        PROVE  Elapsed(now, q[i].stamp) >= Elapsed(now, q[j].stamp)
    BY <1>1, <1>2, <1>3, <1>4, <2>1, <2>4
  <2> QED
    BY <2>2, <2>3, <2>4 DEF Ordered
<1>9. Recent(q, now, P)
  <2>1. ASSUME NEW i \in 1..Len(q)
        PROVE  /\ Elapsed(now, q[i].stamp) + i <= MaxBuffers + 2 * P
               /\ i >= MaxBuffers => Elapsed(now, q[i].stamp) >= Len(q) - i
    <3>1. CASE i = Len(q)
      BY <1>1, <1>3, <1>5, <1>7, <3>1
    <3>2. CASE i \in 1..Len(r)
      <4>1. q[i] = r[i] /\ Elapsed(now, r[i].stamp) \in Nat /\ Elapsed(now, r[i].stamp) <= P
        BY <1>1, <1>2, <1>6, <3>2
      <4>2. i >= MaxBuffers => Elapsed(now, r[i].stamp) > Len(r) - i
        BY <3>2
      <4> QED
        BY <1>1, <1>5, <1>7, <3>2, <4>1, <4>2
    <3> QED
      BY <1>4, <3>1, <3>2
  <2> QED
    BY <2>1 DEF Recent
<1> QED
  BY <1>8, <1>9


\* The buffers r are in order, and the newest was made now.
Sound(r, now, P) ==
  r \in Seq(Buffer) /\ r # <<>> /\ Ordered(r, now) /\ Recent(r, now, P) /\ Newest(r).stamp = now

\* cpSpacePushFreshContactBuffer() leaves all buffers that are young enough.
LEMMA FreshHolds ==
  ASSUME NEW r \in Seq(Buffer), NEW now \in Stamp, collisionPersistence \in Persistences,
         Ordered(r, now), Len(r) <= MaxBuffers + 2 * collisionPersistence,
         \A i \in 1..Len(r) :
           Elapsed(now, r[i].stamp) + i <= MaxBuffers + 2 * collisionPersistence + 1,
         \/ \A i \in 1..Len(r) : i >= MaxBuffers => Elapsed(now, r[i].stamp) > Len(r) - i
         \/ Len(Fresh(r, now)) <= MaxBuffers
  PROVE  /\ Sound(Fresh(r, now), now, collisionPersistence)
         /\ Newest(Fresh(r, now)).numContacts = 0
         /\ \A i \in 1..Len(r) : Elapsed(now, r[i].stamp) <= collisionPersistence =>
              \E j \in 1..Len(Fresh(r, now)) : Fresh(r, now)[j] = r[i]
<1> DEFINE P == collisionPersistence
           q == Fresh(r, now)
           init(id) == [id |-> id, stamp |-> now, numContacts |-> 0]
<1>1. MaxBuffers \in Nat /\ Size \in Nat /\ Len(r) \in Nat /\ P \in Nat
  BY Constants
<1>2. CASE r # <<>> /\ Elapsed(now, r[1].stamp) > P
  <2> DEFINE b == init(r[1].id)
  <2>1. q = Append(Tail(r), b)
    BY <1>2 DEF Fresh, Elapsed
  <2>2. Len(r) > 0 /\ r[1] \in Buffer
    BY <1>2
  <2>3. b \in Buffer /\ b.id = r[1].id /\ b.stamp = now /\ b.numContacts = 0
    BY <1>1, <2>2 DEF Buffer
  <2> HIDE DEF q, b
  <2>4. /\ q \in Seq(Buffer) /\ Len(q) = Len(r) /\ q[Len(r)] = b
        /\ \A i \in 1..(Len(r) - 1) : q[i] = r[i + 1]
    BY <1>2, <2>1, <2>3, MovedUp
  <2>5. \A i \in 1..Len(r) : i > MaxBuffers => Elapsed(now, r[i].stamp) > Len(r) - i
    BY <1>1, <2>4 DEF q
  <2>6. Ordered(q, now) /\ Recent(q, now, P)
    BY <2>2, <2>3, <2>4, <2>5, Reused
  <2>7. ASSUME NEW i \in 1..Len(r), Elapsed(now, r[i].stamp) <= P
        PROVE  \E j \in 1..Len(q) : q[j] = r[i]
    <3>1. Elapsed(now, r[1].stamp) \in Nat
      BY <2>2, AgeInNat
    <3>2. i # 1
      BY <1>1, <1>2, <2>7, <3>1
    <3>3. i - 1 \in 1..(Len(r) - 1) /\ i - 1 \in 1..Len(q) /\ (i - 1) + 1 = i
      BY <1>1, <2>4, <3>2
    <3>4. q[i - 1] = r[i]
      BY <2>4, <3>3
    <3> QED
      BY <3>3, <3>4
  <2>8. Sound(q, now, P) /\ Newest(q).numContacts = 0
    BY <2>2, <2>3, <2>4, <2>6 DEF Sound, Newest
  <2> QED
    BY <2>7, <2>8 DEF q
<1>3. CASE ~(r # <<>> /\ Elapsed(now, r[1].stamp) > P)
  <2> DEFINE b == init(Len(r) + 1)
  <2>1. q = Append(r, b)
    BY <1>3 DEF Fresh, Elapsed
  <2>2. r # <<>> => Elapsed(now, r[1].stamp) <= P
    <3>1. r # <<>> => r[1] \in Buffer
      OBVIOUS
    <3>2. r # <<>> => Elapsed(now, r[1].stamp) \in Nat
      BY <3>1, AgeInNat
    <3> QED
      BY <1>1, <1>3, <3>2
  <2>3. b \in Buffer /\ b.id = Len(r) + 1 /\ b.stamp = now /\ b.numContacts = 0
    BY <1>1 DEF Buffer
  <2> HIDE DEF q, b
  <2>4. /\ q \in Seq(Buffer) /\ Len(q) = Len(r) + 1 /\ q[Len(r) + 1] = b
        /\ \A i \in 1..Len(r) : q[i] = r[i]
    BY <2>1, <2>3, Extended
  <2>5. \A i \in 1..Len(r) : i >= MaxBuffers => Elapsed(now, r[i].stamp) > Len(r) - i
    BY <1>1, <2>4 DEF q
  <2>6. Ordered(q, now) /\ Recent(q, now, P)
    BY <2>2, <2>3, <2>4, <2>5, Added
  <2>7. ASSUME NEW i \in 1..Len(r) PROVE \E j \in 1..Len(q) : q[j] = r[i]
    <3>1. i \in 1..Len(q)
      BY <1>1, <2>4
    <3> QED
      BY <2>4, <3>1
  <2>8. Sound(q, now, P) /\ Newest(q).numContacts = 0
    <3>1. q # <<>>
      BY <1>1, <2>4
    <3> QED
      BY <2>3, <2>4, <2>6, <3>1 DEF Sound, Newest
  <2> QED
    BY <2>7, <2>8 DEF q
<1> QED
  BY <1>2, <1>3

\* A current arbiter's contacts are in a buffer that is as old as the arbiter is.
LEMMA YoungBuffers ==
  ASSUME IInv, NEW a \in Current
  PROVE  /\ contacts[a] \in Place /\ contacts[a].written \in Stamp
         /\ Elapsed(stamp, contacts[a].written) = Age(contacts[a].stamp)
         /\ Age(contacts[a].stamp) \in Nat
         /\ Age(contacts[a].stamp) <= collisionPersistence
         /\ phase = "user" => Age(contacts[a].stamp) + 1 <= collisionPersistence
<1>1. contacts[a] \in Place /\ stamp \in Stamp
  BY DEF IInv, TypeOK, InBuffer, Current
<1>2. contacts[a].written \in Stamp /\ contacts[a].stamp \in Stamp
  BY <1>1 DEF Place
<1>3. Elapsed(stamp, contacts[a].stamp) = Age(contacts[a].stamp)
  BY DEF Elapsed, Age
<1>4. Age(contacts[a].stamp) \in Nat
  <2>1. Elapsed(stamp, contacts[a].stamp) \in Stamp
    BY <1>1, <1>2, ElapsedIs
  <2>2. \A s \in Stamp : s \in Nat
    BY Constants DEF Stamp
  <2> QED
    BY <1>3, <2>1, <2>2
<1>5. collisionPersistence \in Nat
  BY Constants DEF IInv, TypeOK
<1>6. /\ contacts[a].written = contacts[a].stamp
      /\ Age(contacts[a].stamp) <= IF phase = "user" THEN collisionPersistence - 1
                                   ELSE collisionPersistence
  BY DEF IInv, Young
<1> QED
  BY <1>1, <1>2, <1>3, <1>4, <1>5, <1>6

\* cpContactBufferGetArray() finds room, and leaves all contacts.
LEMMA RoomyHolds ==
  ASSUME IInv, ring # <<>>, Len(Roomy(ring)) <= MaxBuffers
  PROVE  /\ Sound(Roomy(ring), stamp, collisionPersistence) /\ Holds(Roomy(ring))
         /\ Newest(Roomy(ring)).numContacts + MaxContacts <= Size
<1>1. /\ ring \in Seq(Buffer) /\ stamp \in Stamp /\ collisionPersistence \in Persistences
      /\ Sound(ring, stamp, collisionPersistence) /\ Holds(ring)
  BY DEF IInv, TypeOK, Ring, Sound, ContactsIntact, Holds
<1>2. /\ Len(ring) \in Nat /\ Len(ring) > 0 /\ Newest(ring) \in Buffer
      /\ \A i \in 1..Len(ring) : ring[i] \in Buffer
  BY <1>1 DEF Sound, Newest
<1>3. CASE ~(Newest(ring).numContacts + MaxContacts > Size)
  <2>1. Roomy(ring) = ring
    BY <1>3 DEF Roomy
  <2>2. Newest(ring).numContacts + MaxContacts <= Size
    BY <1>2, <1>3, Constants DEF Buffer
  <2> QED
    BY <1>1, <2>1, <2>2
<1>4. CASE Newest(ring).numContacts + MaxContacts > Size
  <2> DEFINE q == Fresh(ring, stamp)
  <2>1. Roomy(ring) = q
    BY <1>4 DEF Roomy
  <2>2. MaxBuffers + 2 * collisionPersistence \in Nat
    BY <1>1, Constants
  <2>3. \A i \in 1..Len(ring) : Elapsed(stamp, ring[i].stamp) \in Nat
    BY <1>1, <1>2, AgeInNat
  <2>4. /\ Len(ring) <= MaxBuffers + 2 * collisionPersistence
        /\ \A i \in 1..Len(ring) :
             Elapsed(stamp, ring[i].stamp) + i <= MaxBuffers + 2 * collisionPersistence + 1
    <3>1. \A i \in 1..Len(ring) :
             Elapsed(stamp, ring[i].stamp) + i <= MaxBuffers + 2 * collisionPersistence
      BY <1>1 DEF Sound, Recent
    <3>2. Len(ring) \in 1..Len(ring)
      BY <1>2
    <3>3. Len(ring) <= MaxBuffers + 2 * collisionPersistence
      BY <1>2, <2>2, <2>3, <3>1, <3>2
    <3> HIDE DEF q
    <3> QED
      BY <2>2, <2>3, <3>1, <3>3
  <2>5. Ordered(ring, stamp) /\ Len(q) <= MaxBuffers
    BY <1>1, <2>1 DEF Sound
  <2> HIDE DEF q
  <2>6. /\ Sound(q, stamp, collisionPersistence) /\ Newest(q).numContacts = 0
        /\ \A i \in 1..Len(ring) : Elapsed(stamp, ring[i].stamp) <= collisionPersistence =>
             \E j \in 1..Len(q) : q[j] = ring[i]
    BY <1>1, <2>4, <2>5, FreshHolds DEF q
  <2>7. Holds(q)
    <3> SUFFICES ASSUME NEW a \in Current
                 PROVE  \E j \in 1..Len(q) :
                          /\ q[j].id = contacts[a].at /\ q[j].stamp = contacts[a].written
                          /\ contacts[a].start + contacts[a].count <= q[j].numContacts
      BY DEF Holds
    <3>1. PICK i \in 1..Len(ring) :
            /\ ring[i].id = contacts[a].at /\ ring[i].stamp = contacts[a].written
            /\ contacts[a].start + contacts[a].count <= ring[i].numContacts
      BY <1>1 DEF Holds
    <3>2. Elapsed(stamp, ring[i].stamp) <= collisionPersistence
      BY <3>1, YoungBuffers
    <3> QED
      BY <2>6, <3>1, <3>2
  <2> QED
    BY <2>1, <2>6, <2>7, Constants
<1> QED
  BY <1>3, <1>4

\* cpSpacePushContacts() leaves all contacts.
LEMMA PushHolds ==
  ASSUME IInv, NEW r, Sound(r, stamp, collisionPersistence), Holds(r),
         Newest(r).numContacts + MaxContacts <= Size, NEW n \in 0..MaxContacts
  PROVE  LET q == Pushed(r, n)
         IN  /\ Sound(q, stamp, collisionPersistence) /\ Holds(q)
             /\ Len(q) = Len(r) /\ Len(q) > 0 /\ q[Len(q)].id = Newest(r).id
             /\ q[Len(q)].stamp = stamp /\ q[Len(q)].numContacts = Newest(r).numContacts + n
<1> DEFINE q == Pushed(r, n)
           last == [r[Len(r)] EXCEPT !.numContacts = @ + n]
<1>1. /\ Len(r) \in Nat /\ Len(r) > 0 /\ r \in Seq(Buffer) /\ Len(r) \in 1..Len(r)
      /\ \A i \in 1..Len(r) : r[i] \in Buffer
  BY DEF Sound
<1>2. /\ r[Len(r)] \in Buffer /\ r[Len(r)].numContacts + MaxContacts <= Size
      /\ r[Len(r)].stamp = stamp
  BY <1>1 DEF Newest, Sound
<1>3. /\ last \in Buffer /\ last.id = r[Len(r)].id /\ last.stamp = stamp
      /\ last.numContacts = r[Len(r)].numContacts + n
      /\ r[Len(r)].numContacts <= last.numContacts
  <2> DEFINE c == r[Len(r)]
  <2>1. /\ c \in Buffer /\ c.numContacts \in Nat /\ c.numContacts + MaxContacts <= Size
        /\ c.stamp = stamp
    BY <1>2, BufferFields
  <2>2. n \in Nat /\ n <= MaxContacts /\ MaxContacts \in Nat /\ Size \in Nat
    BY Constants
  <2>3. c.numContacts + n \in 0..Size /\ c.numContacts <= c.numContacts + n
    BY <2>1, <2>2
  <2> HIDE DEF c
  <2>4. last = [c EXCEPT !.numContacts = @ + n]
    BY DEF c
  <2>5. /\ last \in Buffer /\ last.id = c.id /\ last.stamp = c.stamp
        /\ last.numContacts = c.numContacts + n
    <3> HIDE DEF last
    <3> QED
      BY <2>1, <2>3, <2>4 DEF Buffer
  <2> QED
    BY <2>1, <2>3, <2>5 DEF c
<1>4. q = [r EXCEPT ![Len(r)] = last]
  BY DEF Pushed
<1> HIDE DEF last, q
<1>5. /\ q \in Seq(Buffer) /\ Len(q) = Len(r)
      /\ \A i \in 1..Len(r) : q[i] = IF i = Len(r) THEN last ELSE r[i]
  BY <1>1, <1>3, <1>4, ExceptSeq
<1>6. \A i \in 1..Len(r) : /\ q[i].id = r[i].id /\ q[i].stamp = r[i].stamp
                           /\ r[i].numContacts <= q[i].numContacts
                           /\ r[i].numContacts \in Nat /\ q[i].numContacts \in Nat
  <2> SUFFICES ASSUME NEW i \in 1..Len(r)
               PROVE  /\ q[i].id = r[i].id /\ q[i].stamp = r[i].stamp
                      /\ r[i].numContacts <= q[i].numContacts
                      /\ r[i].numContacts \in Nat /\ q[i].numContacts \in Nat
    OBVIOUS
  <2>1. r[i].numContacts \in Nat /\ last.numContacts \in Nat
    BY <1>1, <1>3, BufferFields
  <2>2. CASE i = Len(r)
    BY <1>2, <1>3, <1>5, <2>1, <2>2
  <2>3. CASE i # Len(r)
    BY <1>5, <2>1, <2>3
  <2> QED
    BY <2>2, <2>3
<1>7. Ordered(q, stamp) /\ Recent(q, stamp, collisionPersistence)
  BY <1>5, <1>6 DEF Sound, Ordered, Recent
<1>8. Holds(q)
  <2> SUFFICES ASSUME NEW a \in Current
               PROVE  \E i \in 1..Len(q) :
                        /\ q[i].id = contacts[a].at /\ q[i].stamp = contacts[a].written
                        /\ contacts[a].start + contacts[a].count <= q[i].numContacts
    BY DEF Holds
  <2>1. PICK i \in 1..Len(r) :
          /\ r[i].id = contacts[a].at /\ r[i].stamp = contacts[a].written
          /\ contacts[a].start + contacts[a].count <= r[i].numContacts
    BY DEF Holds
  <2>2. contacts[a].start + contacts[a].count \in Nat
    <3>1. contacts[a] \in Place
      BY DEF InBuffer, Current, IInv, TypeOK
    <3>2. contacts[a].start \in Nat /\ contacts[a].count \in 0..MaxContacts
      BY <3>1 DEF Place
    <3>3. contacts[a].count \in Nat
      BY <3>2, Constants
    <3> HIDE DEF q
    <3> QED BY <3>2, <3>3
  <2>3. contacts[a].start + contacts[a].count <= q[i].numContacts
    BY <1>6, <2>1, <2>2
  <2> QED
    BY <1>5, <1>6, <2>1, <2>3
<1>9. Sound(q, stamp, collisionPersistence)
  BY <1>1, <1>2, <1>3, <1>5, <1>7 DEF Sound, Newest
<1> QED
  BY <1>1, <1>3, <1>5, <1>8, <1>9 DEF q, Newest

-----------------------------------------------------------------------------
(* Each action *)

LEMMA NoOverflow ==
  ASSUME NEW r, NEW now, NEW P, Sound(r, now, P)
  PROVE  \A i \in 1..Len(r) : r[i].numContacts <= Size
<1>1. \A i \in 1..Len(r) : r[i] \in Buffer
  BY DEF Sound
<1> QED
  BY <1>1, BufferFields

\* Where contacts are taken away or rest at most, those of the current are as they were.
LEMMA Forgets ==
  ASSUME IInv, UNCHANGED <<stamp, collisionPersistence>>,
         phase' \in {"user", "narrow", "components"},
         Sound(ring', stamp, collisionPersistence), Holds(ring'),
         contacts' \in [Arbiter -> Place],
         \A a \in Arbiter : \/ contacts'[a] = contacts[a] \/ contacts'[a].at \in {NULL, HEAP}
                             \/ contacts'[a].rested,
         \A a \in Current' :
           Age(contacts[a].stamp) <= IF phase' = "user" THEN collisionPersistence - 1
                                     ELSE collisionPersistence
  PROVE  IInv'
<1>1. stamp \in Stamp /\ collisionPersistence \in Persistences
  BY DEF IInv, TypeOK
<1>2. \A a \in Current' : a \in Current /\ contacts'[a] = contacts[a]
  BY DEF Current, InBuffer, NULL, HEAP
<1>3. Holds(ring)'
  BY <1>2 DEF Holds
<1>4. Sound(ring, stamp, collisionPersistence)'
  BY DEF Sound, Ordered, Recent, Elapsed, Newest
<1>5. /\ ring' \in Seq(Buffer) /\ Ring' /\ ContactsIntact'
      /\ \A i \in 1..Len(ring') : ring'[i].numContacts <= Size
  <2>1. \A i \in 1..Len(ring') : ring'[i].numContacts <= Size
    BY NoOverflow
  <2> QED
    BY <1>3, <1>4, <2>1 DEF Sound, Ring, Holds, ContactsIntact
<1>6. NoOverlap'
  BY <1>2, <1>5 DEF IInv, NoOverlap
<1>7. Young'
  <2>1. ASSUME NEW a \in Current'
        PROVE  (/\ contacts[a].written = contacts[a].stamp
                /\ Age(contacts[a].stamp) <= IF phase = "user" THEN collisionPersistence - 1
                                             ELSE collisionPersistence)'
    BY <1>2 DEF IInv, Young, Age
  <2> QED
    BY <2>1 DEF Young
<1> QED
  BY <1>1, <1>5, <1>6, <1>7 DEF IInv, TypeOK

\* Contacts that are written begin where those of other arbiters in the buffer end.
LEMMA Writes ==
  ASSUME IInv, ring # <<>>, Len(Roomy(ring)) <= MaxBuffers,
         NEW a \in Arbiter, NEW n \in 0..MaxContacts,
         UNCHANGED <<stamp, collisionPersistence, phase>>,
         ring' = Pushed(Roomy(ring), n),
         contacts' = [contacts EXCEPT ![a] = Placed(Roomy(ring), n)]
  PROVE  IInv'
<1> DEFINE r == Roomy(ring)
           c == Placed(r, n)
<1>1. /\ Sound(r, stamp, collisionPersistence) /\ Holds(r)
      /\ Newest(r).numContacts + MaxContacts <= Size
  BY RoomyHolds
<1>2. /\ stamp \in Stamp /\ collisionPersistence \in Persistences
      /\ contacts \in [Arbiter -> Place]
      /\ collisionPersistence \in Nat \ {0} /\ n \in 0..MaxContacts
  BY Constants DEF IInv, TypeOK
<1> HIDE DEF r
<1>3. /\ Newest(r) = r[Len(r)] /\ Newest(r) \in Buffer /\ Newest(r).stamp = stamp
      /\ Len(r) \in 1..Len(r) /\ \A i \in 1..Len(r) : r[i] \in Buffer
  BY <1>1 DEF Sound, Newest
<1>4. /\ c.at = Newest(r).id /\ c.at \in Nat /\ c.at > 0
      /\ c.start = Newest(r).numContacts /\ c.start \in Nat /\ c.count = n
      /\ c.written = stamp /\ c.stamp = stamp /\ c \in Place
  <2>1. Newest(r).id \in Nat \ {0} /\ Newest(r).numContacts \in Nat
    BY <1>3, BufferFields
  <2> QED
    BY <1>2, <1>3, <2>1 DEF Placed, Place
<1>5. /\ Sound(ring', stamp, collisionPersistence) /\ Holds(ring')
      /\ Len(ring') = Len(r) /\ Len(ring') > 0 /\ ring'[Len(ring')].id = Newest(r).id
      /\ ring'[Len(ring')].stamp = stamp
      /\ ring'[Len(ring')].numContacts = Newest(r).numContacts + n
  <2>1. ring' = Pushed(r, n)
    BY DEF r
  <2> QED
    BY <1>1, <1>2, <2>1, PushHolds
<1> HIDE DEF c
<1>6. contacts' = [contacts EXCEPT ![a] = c]
  BY DEF c, r
<1>7. /\ \A b \in Current' : b # a => b \in Current /\ contacts'[b] = contacts[b]
      /\ contacts'[a] = c
  BY <1>2, <1>6 DEF Current, InBuffer
<1>8. ContactsIntact'
  <2> SUFFICES ASSUME NEW b \in Current'
               PROVE  \E i \in 1..Len(ring') :
                        /\ ring'[i].id = contacts'[b].at /\ ring'[i].stamp = contacts'[b].written
                        /\ contacts'[b].start + contacts'[b].count <= ring'[i].numContacts
    BY DEF ContactsIntact
  <2>1. CASE b # a
    BY <1>5, <1>7, <2>1 DEF Holds
  <2>2. CASE b = a
    <3>1. Len(ring') \in 1..Len(ring') /\ c.start + c.count \in Nat
      BY <1>3, <1>4, <1>5, <1>2
    <3>2. ring'[Len(ring')].numContacts = c.start + c.count
      BY <1>4, <1>5
    <3> QED
      BY <1>4, <1>5, <1>7, <2>2, <3>1, <3>2
  <2> QED
    BY <2>1, <2>2
<1>9. ASSUME NEW b \in Current, contacts[b].at = c.at
      PROVE  contacts[b].start + contacts[b].count <= c.start
  <2>1. PICK i \in 1..Len(r) :
          /\ r[i].id = contacts[b].at /\ r[i].stamp = contacts[b].written
          /\ contacts[b].start + contacts[b].count <= r[i].numContacts
    BY <1>1 DEF Holds
  <2>2. i = Len(r)
    BY <1>1, <1>3, <1>4, <1>9, <2>1 DEF Sound, Ordered
  <2> QED
    BY <1>3, <1>4, <2>1, <2>2
<1>10. NoOverlap'
  <2>1. \A i \in 1..Len(ring') : ring'[i].numContacts <= Size
    BY <1>5, NoOverflow
  <2>2. ASSUME NEW b \in Current', NEW d \in Current', b # d, contacts'[b].at = contacts'[d].at
        PROVE  \/ contacts'[b].start + contacts'[b].count <= contacts'[d].start
               \/ contacts'[d].start + contacts'[d].count <= contacts'[b].start
    <3>1. CASE b # a /\ d # a
      BY <1>7, <2>2, <3>1 DEF IInv, NoOverlap
    <3>2. CASE b = a
      BY <1>7, <1>9, <2>2, <3>2
    <3>3. CASE d = a
      BY <1>7, <1>9, <2>2, <3>3
    <3> QED
      BY <3>1, <3>2, <3>3
  <2> QED
    BY <2>1, <2>2 DEF NoOverlap
<1>11. Young'
  <2>1. Age(stamp) = 0
    BY <1>2, ElapsedIs DEF Age, Elapsed, Stamp
  <2>2. ASSUME NEW b \in Current'
        PROVE  (/\ contacts[b].written = contacts[b].stamp
                /\ Age(contacts[b].stamp) <= IF phase = "user" THEN collisionPersistence - 1
                                             ELSE collisionPersistence)'
    <3>1. CASE b # a
      BY <1>7, <3>1 DEF IInv, Young, Age
    <3>2. CASE b = a
      BY <1>2, <1>4, <1>7, <2>1, <3>2 DEF Age
    <3> QED
      BY <3>1, <3>2
  <2> QED
    BY <2>2 DEF Young
<1>12. TypeOK' /\ Ring'
  <2>1. contacts' \in [Arbiter -> Place]
    BY <1>2, <1>4, <1>6
  <2> QED
    BY <1>5, <2>1 DEF IInv, TypeOK, Ring, Sound
<1> QED
  BY <1>8, <1>10, <1>11, <1>12 DEF IInv

\* A step begins: everything is a step older, so what was not filtered is as old as
\* its buffer may be.
LEMMA StepBeginHolds ==
  ASSUME IInv, StepBegin PROVE IInv'
<1> DEFINE P == collisionPersistence
<1>1. /\ stamp \in Stamp /\ P \in Persistences /\ P \in Nat \ {0} /\ MaxBuffers \in Nat
      /\ MaxBuffers + 2 * P + 2 < StampRange /\ StampRange \in Nat
      /\ ring \in Seq(Buffer) /\ Len(ring) \in Nat /\ contacts \in [Arbiter -> Place]
      /\ \A i \in 1..Len(ring) : ring[i] \in Buffer
      /\ phase = "user"
  BY Constants DEF IInv, TypeOK, StepBegin
<1>2. /\ stamp' \in Stamp
      /\ \A s \in Stamp : Elapsed(stamp, s) + 1 < StampRange =>
           Elapsed(stamp', s) = Elapsed(stamp, s) + 1
  BY <1>1, StepOlder DEF StepBegin
<1>3. ASSUME NEW i \in 1..Len(ring)
      PROVE  /\ Elapsed(stamp, ring[i].stamp) \in Nat
             /\ Elapsed(stamp, ring[i].stamp) + i <= MaxBuffers + 2 * P
             /\ Elapsed(stamp', ring[i].stamp) = Elapsed(stamp, ring[i].stamp) + 1
  <2>1. Elapsed(stamp, ring[i].stamp) \in Nat /\ ring[i].stamp \in Stamp
    BY <1>1, AgeInNat, BufferFields
  <2>2. Elapsed(stamp, ring[i].stamp) + i <= MaxBuffers + 2 * P
    BY DEF IInv, Ring, Recent
  <2>3. Elapsed(stamp, ring[i].stamp) + 1 < StampRange
    BY <1>1, <2>1, <2>2
  <2> QED
    BY <1>2, <2>1, <2>2, <2>3
<1>4. Ordered(ring, stamp')
  <2>1. Ordered(ring, stamp)
    BY DEF IInv, Ring
  <2>2. ASSUME NEW i \in 1..Len(ring), NEW j \in 1..Len(ring), i <= j
        PROVE  Elapsed(stamp', ring[i].stamp) >= Elapsed(stamp', ring[j].stamp)
    <3>1. Elapsed(stamp, ring[i].stamp) >= Elapsed(stamp, ring[j].stamp)
      BY <2>1, <2>2 DEF Ordered
    <3> QED
      BY <1>3, <3>1
  <2> QED
    BY <2>1, <2>2 DEF Ordered
<1>5. Len(ring) <= MaxBuffers + 2 * P
  <2>1. CASE Len(ring) = 0
    BY <1>1, <2>1
  <2>2. CASE Len(ring) # 0
    <3>1. Len(ring) \in 1..Len(ring)
      BY <1>1, <2>2
    <3> QED
      BY <1>1, <1>3, <3>1
  <2> QED
    BY <2>1, <2>2
<1>6. \A i \in 1..Len(ring) : Elapsed(stamp', ring[i].stamp) + i <= MaxBuffers + 2 * P + 1
  BY <1>1, <1>3
<1>7. \A i \in 1..Len(ring) : i >= MaxBuffers => Elapsed(stamp', ring[i].stamp) > Len(ring) - i
  <2>1. \A i \in 1..Len(ring) : i >= MaxBuffers => Elapsed(stamp, ring[i].stamp) >= Len(ring) - i
    BY DEF IInv, Ring, Recent
  <2> QED
    BY <1>1, <1>3, <2>1
<1>8. /\ Sound(ring', stamp', P)
      /\ \A i \in 1..Len(ring) : Elapsed(stamp', ring[i].stamp) <= P =>
           \E j \in 1..Len(ring') : ring'[j] = ring[i]
  <2>1. ring' = Fresh(ring, stamp')
    BY DEF StepBegin
  <2> QED
    BY <1>1, <1>2, <1>4, <1>5, <1>6, <1>7, <2>1, FreshHolds
<1>9. ASSUME NEW a \in Current
      PROVE  /\ Elapsed(stamp', contacts[a].written) <= P
             /\ contacts[a].written = contacts[a].stamp
  <2>1. /\ contacts[a].written \in Stamp /\ Elapsed(stamp, contacts[a].written) \in Nat
        /\ Elapsed(stamp, contacts[a].written) + 1 <= P
    BY <1>1, YoungBuffers
  <2>2. Elapsed(stamp, contacts[a].written) + 1 < StampRange
    BY <1>1, <2>1
  <2> QED
    BY <1>2, <2>1, <2>2 DEF IInv, Young
<1>10. contacts' = contacts /\ P' = P /\ phase' = "narrow" /\ Current' = Current
  BY DEF StepBegin, InBuffer, Current
<1>11. Holds(ring')
  <2> SUFFICES ASSUME NEW a \in Current
               PROVE  \E j \in 1..Len(ring') :
                        /\ ring'[j].id = contacts[a].at /\ ring'[j].stamp = contacts[a].written
                        /\ contacts[a].start + contacts[a].count <= ring'[j].numContacts
    BY DEF Holds
  <2>1. PICK i \in 1..Len(ring) :
          /\ ring[i].id = contacts[a].at /\ ring[i].stamp = contacts[a].written
          /\ contacts[a].start + contacts[a].count <= ring[i].numContacts
    BY DEF IInv, ContactsIntact
  <2> QED
    BY <1>8, <1>9, <2>1
<1>12. TypeOK' /\ Ring' /\ ContactsIntact'
  BY <1>1, <1>2, <1>8, <1>10, <1>11 DEF TypeOK, Ring, Sound, Holds, ContactsIntact
<1>13. Young'
  BY <1>9, <1>10 DEF Young, Age, Elapsed
<1>14. NoOverlap'
  <2>1. \A i \in 1..Len(ring') : ring'[i].numContacts <= Size
    BY <1>8, NoOverflow
  <2> QED
    BY <1>10, <2>1 DEF IInv, NoOverlap
<1> QED
  BY <1>12, <1>13, <1>14 DEF IInv

\* In and after the narrow phase there is a ring, and contacts are where it says.
LEMMA RingSound ==
  ASSUME IInv, ring # <<>>
  PROVE  /\ Sound(ring, stamp, collisionPersistence) /\ Holds(ring)
         /\ contacts \in [Arbiter -> Place] /\ None \in Place
         /\ \A n \in 0..MaxContacts : Saved(n) \in Place
         /\ \A c \in Place : Rested(c) \in Place /\ Rested(c).rested
<1>1. 0 \in Stamp /\ 0 \in 0..MaxContacts
  BY Constants DEF Stamp
<1>2. None \in Place
  BY <1>1 DEF None, Place, NULL
<1>3. ASSUME NEW n \in 0..MaxContacts PROVE Saved(n) \in Place
  BY <1>1 DEF Saved, None, Place, HEAP
<1>4. ASSUME NEW c \in Place PROVE Rested(c) \in Place /\ Rested(c).rested
  BY <1>1 DEF Rested, None, Place
<1> QED
  BY <1>2, <1>3, <1>4 DEF IInv, TypeOK, Ring, Sound, Holds, ContactsIntact

LEMMA CollideHolds ==
  ASSUME IInv, NEW a \in Arbiter, NEW n \in 0..MaxContacts, NEW processed \in BOOLEAN,
         CollideShapes(a, n, processed)
  PROVE  IInv'
<1>1. /\ ring # <<>> /\ phase = "narrow" /\ Len(Roomy(ring)) <= MaxBuffers
      /\ UNCHANGED <<stamp, collisionPersistence, phase>>
      /\ ring' = IF processed THEN Pushed(Roomy(ring), n) ELSE Roomy(ring)
      /\ contacts' = IF n = 0 THEN contacts
                     ELSE [contacts EXCEPT ![a] = IF processed THEN Placed(Roomy(ring), n) ELSE None]
  BY DEF CollideShapes, IInv, Ring
<1>2. CASE processed /\ n # 0
  BY <1>1, <1>2, Writes
<1>3. CASE ~(processed /\ n # 0)
  <2>1. /\ Sound(Roomy(ring), stamp, collisionPersistence) /\ Holds(Roomy(ring))
        /\ Newest(Roomy(ring)).numContacts + MaxContacts <= Size
    BY <1>1, RoomyHolds
  <2>2. Sound(ring', stamp, collisionPersistence) /\ Holds(ring')
    <3>1. CASE processed
      BY <1>1, <2>1, <3>1, PushHolds
    <3>2. CASE ~processed
      BY <1>1, <2>1, <3>2
    <3> QED
      BY <3>1, <3>2
  <2>3. contacts' = contacts \/ contacts' = [contacts EXCEPT ![a] = None]
    BY <1>1, <1>3
  <2>4. /\ contacts' \in [Arbiter -> Place]
        /\ \A b \in Arbiter : contacts'[b] = contacts[b] \/ contacts'[b].at \in {NULL, HEAP}
    <3>1. None.at = NULL
      BY DEF None
    <3>2. contacts \in [Arbiter -> Place] /\ None \in Place
      BY <1>1, RingSound
    <3>3. CASE contacts' = contacts
      BY <3>2, <3>3
    <3>4. CASE contacts' = [contacts EXCEPT ![a] = None]
      BY <3>1, <3>2, <3>4
    <3> QED
      BY <2>3, <3>3, <3>4
  <2>5. ASSUME NEW b \in Current'
        PROVE  Age(contacts[b].stamp) <= collisionPersistence
    <3>1. b \in Current
      BY <2>4, <2>5 DEF Current, InBuffer, NULL, HEAP
    <3> QED
      BY <3>1, YoungBuffers
  <2> QED
    BY <1>1, <2>2, <2>4, <2>5, Forgets
<1> QED
  BY <1>2, <1>3

LEMMA EndNarrowHolds ==
  ASSUME IInv, EndNarrowPhase PROVE IInv'
<1>1. /\ ring # <<>> /\ ring' = ring /\ contacts' = contacts /\ phase' = "components"
      /\ UNCHANGED <<stamp, collisionPersistence>>
  BY DEF EndNarrowPhase, IInv, Ring
<1>2. ASSUME NEW b \in Current'
      PROVE  Age(contacts[b].stamp) <= collisionPersistence
  BY <1>1, <1>2, YoungBuffers DEF Current, InBuffer
<1> QED
  BY <1>1, <1>2, RingSound, Forgets

\* What the filter leaves is younger than the persistence, or rests.
LEMMA FilterHolds ==
  ASSUME IInv, NEW resting, ArbiterSetFilter(resting) PROVE IInv'
<1> DEFINE Stays(a) == \/ a \notin InBuffer
                       \/ a \in Current /\ Age(contacts[a].stamp) < collisionPersistence
<1>1. /\ ring # <<>> /\ ring' = ring /\ phase' = "user"
      /\ UNCHANGED <<stamp, collisionPersistence>>
      /\ contacts' = [a \in Arbiter |->
           IF Stays(a) THEN contacts[a]
           ELSE IF a \in resting THEN Rested(contacts[a]) ELSE None]
      /\ collisionPersistence \in Nat /\ contacts \in [Arbiter -> Place]
  BY Constants DEF ArbiterSetFilter, IInv, Ring, TypeOK
<1>2. ASSUME NEW b \in Arbiter
      PROVE  \/ Stays(b) /\ contacts'[b] = contacts[b]
             \/ contacts'[b] = Rested(contacts[b]) \/ contacts'[b] = None
  <2> HIDE DEF Stays
  <2> QED
    BY <1>1
<1>3. ASSUME NEW b \in Arbiter
      PROVE  /\ contacts'[b] \in Place
             /\ \/ contacts'[b] = contacts[b] \/ contacts'[b].at \in {NULL, HEAP}
                \/ contacts'[b].rested
  BY <1>1, <1>2, RingSound DEF None
<1>4. ASSUME NEW b \in Current'
      PROVE  Age(contacts[b].stamp) <= collisionPersistence - 1
  <2>1. b \in Arbiter /\ contacts'[b].at > 0 /\ ~contacts'[b].rested
    BY <1>4 DEF Current, InBuffer
  <2>2. None.at = 0 /\ Rested(contacts[b]).rested
    BY <1>1, <2>1, RingSound DEF None, NULL
  <2>3. Stays(b) /\ contacts'[b] = contacts[b]
    BY <1>2, <2>1, <2>2
  <2>4. b \in Current /\ Age(contacts[b].stamp) < collisionPersistence
    BY <2>1, <2>3 DEF InBuffer
  <2>5. Age(contacts[b].stamp) \in Nat
    BY <2>4, YoungBuffers
  <2> QED
    BY <1>1, <2>4, <2>5
<1>5. contacts' \in [Arbiter -> Place]
  BY <1>1, <1>3
<1> QED
  BY <1>1, <1>3, <1>4, <1>5, RingSound, Forgets

LEMMA SaveHolds ==
  ASSUME IInv, NEW a \in Arbiter, SaveContacts(a) PROVE IInv'
<1>1. /\ contacts[a].at > 0 /\ phase # "narrow"
      /\ ring' = ring /\ UNCHANGED <<stamp, collisionPersistence, phase>>
      /\ contacts' = [contacts EXCEPT ![a] = Saved(contacts[a].count)]
      /\ phase \in {"user", "narrow", "components"}
  BY DEF SaveContacts, Current, InBuffer, IInv, TypeOK
<1>2. ring # <<>>
  BY <1>1 DEF IInv, Ring, NULL
<1>3. contacts[a].count \in 0..MaxContacts
  BY <1>2, RingSound DEF Place
<1>4. /\ contacts' \in [Arbiter -> Place]
      /\ \A b \in Arbiter : contacts'[b] = contacts[b] \/ contacts'[b].at \in {NULL, HEAP}
  BY <1>1, <1>2, <1>3, RingSound DEF Saved, None
<1>5. ASSUME NEW b \in Current'
      PROVE  Age(contacts[b].stamp) <= IF phase' = "user" THEN collisionPersistence - 1
                                       ELSE collisionPersistence
  <2>1. b \in Current
    BY <1>4, <1>5 DEF Current, InBuffer, NULL, HEAP
  <2> QED
    BY <1>1, <2>1 DEF IInv, Young
<1> QED
  BY <1>1, <1>2, <1>4, <1>5, RingSound, Forgets

LEMMA RestoreHolds ==
  ASSUME IInv, NEW a \in Arbiter, RestoreContacts(a) PROVE IInv'
<1>1. /\ contacts[a].at = HEAP /\ Len(Roomy(ring)) <= MaxBuffers
      /\ UNCHANGED <<stamp, collisionPersistence, phase>>
      /\ ring' = Pushed(Roomy(ring), contacts[a].count)
      /\ contacts' = [contacts EXCEPT ![a] = Placed(Roomy(ring), contacts[a].count)]
  BY DEF RestoreContacts
<1>2. ring # <<>>
  BY <1>1 DEF IInv, Ring, NULL, HEAP
<1>3. contacts[a].count \in 0..MaxContacts
  BY <1>2, RingSound DEF Place
<1> QED
  BY <1>1, <1>2, <1>3, Writes

LEMMA RaiseHolds ==
  ASSUME IInv, NEW P \in Persistences, SetCollisionPersistence(P) PROVE IInv'
<1>1. /\ phase = "user" /\ P > collisionPersistence /\ collisionPersistence' = P
      /\ UNCHANGED <<stamp, ring, phase, contacts>> /\ Current' = Current
  BY DEF SetCollisionPersistence, InBuffer, Current
<1>2. /\ P \in Nat /\ collisionPersistence \in Nat /\ MaxBuffers \in Nat
      /\ \A i \in 1..Len(ring) : Elapsed(stamp, ring[i].stamp) \in Nat
  <2>1. \A i \in 1..Len(ring) : ring[i] \in Buffer
    BY DEF IInv, TypeOK
  <2> QED
    BY <2>1, AgeInNat, Constants DEF IInv, TypeOK
<1>3. Recent(ring, stamp, P)
  BY <1>1, <1>2 DEF IInv, Ring, Recent
<1>4. Ring' /\ TypeOK'
  BY <1>1, <1>3 DEF IInv, Ring, TypeOK, Ordered, Recent, Elapsed
<1>5. Young'
  <2>1. ASSUME NEW a \in Current
        PROVE  contacts[a].written = contacts[a].stamp /\ Age(contacts[a].stamp) <= P - 1
    BY <1>1, <1>2, <2>1, YoungBuffers DEF IInv, Young
  <2> QED
    BY <1>1, <2>1 DEF Young, Age
<1> QED
  BY <1>1, <1>4, <1>5 DEF IInv, ContactsIntact, NoOverlap

-----------------------------------------------------------------------------

LEMMA InitHolds == Init => IInv
<1> SUFFICES ASSUME Init PROVE IInv
  OBVIOUS
<1>1. /\ stamp = 0 /\ ring = <<>> /\ Len(ring) = 0 /\ 1..Len(ring) = {} /\ phase = "user"
      /\ \A a \in Arbiter : contacts[a] = None
  BY DEF Init
<1>2. Current = {}
  BY <1>1 DEF Current, InBuffer, None, NULL
<1>3. 0 \in Stamp /\ 0 \in 0..MaxContacts
  BY Constants DEF Stamp
<1>4. TypeOK
  <2>1. None \in Place
    BY <1>3 DEF None, Place, NULL
  <2> QED
    BY <1>1, <1>3, <2>1, Constants DEF Init, TypeOK
<1>5. Ring
  BY <1>1 DEF Ring, Ordered, Recent, None
<1> QED
  BY <1>1, <1>2, <1>4, <1>5 DEF IInv, Young, ContactsIntact, NoOverlap

LEMMA NextHolds == IInv /\ [Next]_vars => IInv'
<1> SUFFICES ASSUME IInv, [Next]_vars PROVE IInv'
  OBVIOUS
<1>1. CASE StepBegin
  BY <1>1, StepBeginHolds
<1>2. CASE EndNarrowPhase
  BY <1>2, EndNarrowHolds
<1>3. CASE \E resting \in SUBSET Arbiter : ArbiterSetFilter(resting)
  BY <1>3, FilterHolds
<1>4. CASE \E a \in Arbiter, n \in 0..MaxContacts, processed \in BOOLEAN :
             CollideShapes(a, n, processed)
  BY <1>4, CollideHolds
<1>5. CASE \E a \in Arbiter : SaveContacts(a) \/ RestoreContacts(a)
  BY <1>5, SaveHolds, RestoreHolds
<1>6. CASE \E P \in Persistences : SetCollisionPersistence(P)
  BY <1>6, RaiseHolds
<1>7. CASE UNCHANGED vars
  BY <1>7 DEF vars, IInv, TypeOK, Ring, Ordered, Recent, Elapsed, Young, Age, ContactsIntact,
              NoOverlap, Current, InBuffer
<1> QED
  BY <1>1, <1>2, <1>3, <1>4, <1>5, <1>6, <1>7 DEF Next

LEMMA Invariance == Spec => []IInv
BY InitHolds, NextHolds, PTL DEF Spec

\* However large the buffers, the persistence and the range of the stamps are, what a
\* current arbiter points to is what was written for it, whichever arbiters the filter
\* keeps because their bodies rest: no buffer is used again too early, and the wrapping
\* of the stamps does not confuse their ages (cpSpacePushFreshContactBuffer()).  Of an
\* arbiter that rested past its age the theorem says nothing.
THEOREM NeverReusedEarly == Spec => []ContactsIntact
<1>1. IInv => ContactsIntact
  BY DEF IInv
<1> QED
  BY Invariance, <1>1, PTL

\* Nor do the contacts of two current arbiters ever share memory, or overflow a buffer
\* (cpContactBufferGetArray(), cpSpacePushContacts()).
THEOREM Disjoint == Spec => []ContactsSafe
<1>1. IInv => ContactsSafe
  BY DEF IInv, ContactsSafe
<1> QED
  BY Invariance, <1>1, PTL
=============================================================================
