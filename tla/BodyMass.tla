------------------------------- MODULE BodyMass -------------------------------
(***************************************************************************)
(* A body, the list of its shapes and what it computes from their masses:  *)
(* mass, moment and centre of gravity, about which it turns.  The body     *)
(* lives on a line; turning it by half a turn is the sign rot.  The loop   *)
(* that adds the masses up goes along the list, a step for each shape.     *)
(***************************************************************************)
EXTENDS Integers

CONSTANTS
  MaxPiece,   \* shapes of the body
  Movable,    \* those whose centre is changed while they are there
  MaxMass,    \* of a shape
  Unit,       \* of lengths
  MaxLength   \* bound: how far the body goes

Piece == 1 .. MaxPiece
Mass == 0 .. MaxMass

\* The quotients of the code are exact in the model: a length divides by every
\* mass a body can have.
ASSUME BodyMassAssumption ==
  /\ MaxPiece \in Nat /\ Movable \subseteq Piece /\ MaxMass \in Nat
  /\ Unit \in Nat \ {0} /\ \A m \in 1 .. MaxPiece * MaxMass : \E n \in 1 .. Unit : m * n = Unit
  /\ MaxLength \in Nat

NIL == 0
FOREVER == -1     \* INFINITY

\* body: type; m, i, their inverses as the number they are the inverse of; cog; p;
\* the transform x -> rot * x + tx; head of the shape list; own: mass or centre
\* were set by hand and not computed since; synced: the transform knows the centre.
\* piece: mass, centre and links of each shape.
\* sum: cpBodyAccumulateMassFromShapes() while it is running, the shape it is at and
\* the place it realigns the body to.
VARIABLES body, piece, sum

massVars == <<body, piece, sum>>

Moment == 7       \* of a shape, per mass, about its own centre

-----------------------------------------------------------------------------
(* The body's list of shapes *)

\* cpBodyAddShape(), the links
Linked(b, pc, s) ==
  [t \in Piece |->
    IF t = s THEN [pc[t] EXCEPT !.next = b.head]
    ELSE IF t = b.head THEN [pc[t] EXCEPT !.prev = s] ELSE pc[t]]

\* (faulty: the next shape keeps its way back to the one that is gone)
UnlinkedForward(b, pc, s) ==
  [t \in Piece |->
    IF t = s THEN [pc[t] EXCEPT !.next = NIL, !.prev = NIL]
    ELSE IF t = pc[s].prev THEN [pc[t] EXCEPT !.next = pc[s].next] ELSE pc[t]]

\* cpBodyRemoveShape(), the links
Unlinked(b, pc, s) ==
  [t \in Piece |->
    IF t = s THEN [pc[t] EXCEPT !.next = NIL, !.prev = NIL]
    ELSE IF t = pc[s].prev THEN [pc[t] EXCEPT !.next = pc[s].next]
    ELSE IF t = pc[s].next THEN [pc[t] EXCEPT !.prev = pc[s].prev] ELSE pc[t]]

-----------------------------------------------------------------------------
(* Mass and place *)

\* cpBodyGetPosition(); SetTransform(); cpBodySetPosition()
Place(b) == b.tx
Turned(b, p, rot) == [b EXCEPT !.p = p, !.rot = rot, !.tx = p - rot * b.cog, !.synced = TRUE]
SetPlace(b, x) == Turned(b, b.rot * b.cog + x, b.rot)

\* cpBodyAccumulateMassFromShapes() of b, up to its loop
Accumulate(b) ==
  IF b.type # "dynamic" THEN body' = b /\ sum' = sum
  ELSE /\ body' = [b EXCEPT !.m = 0, !.i = 0, !.cog = 0, !.own = FALSE, !.synced = FALSE]
       /\ sum' = [on |-> TRUE, at |-> b.head, pos |-> Place(b)]

\* The body of the loop: one more shape.
Heavier(b, q) ==
  LET msum == b.m + q.m
      d == q.c - b.cog
  IN  IF q.m = 0 THEN b
      ELSE [b EXCEPT !.m = msum,
                     !.i = @ + q.m * Moment + (d * d * q.m * b.m) \div msum,
                     !.cog = @ + (d * q.m) \div msum]

\* (faulty: the body is left where its centre of gravity was)
Unaligned(b, x) == Turned(b, b.p, b.rot)

\* After the loop the body is realigned to where it was.
Realigned(b, x) == SetPlace(b, x)

AccumulateShape ==
  /\ sum.on /\ sum.at # NIL
  /\ body' = Heavier(body, piece[sum.at])
  /\ sum' = [sum EXCEPT !.at = piece[sum.at].next]
  /\ UNCHANGED piece

AccumulateEnd ==
  /\ sum.on /\ sum.at = NIL
  /\ body' = Realigned(body, sum.pos)
  /\ sum' = [sum EXCEPT !.on = FALSE, !.pos = 0]
  /\ UNCHANGED piece

-----------------------------------------------------------------------------
(* Operations, while the loop is not running *)

\* cpSpaceAddShape(), cpSpaceRemoveShape()
AddPiece(s) ==
  LET b == [body EXCEPT !.head = s]
  IN  /\ ~piece[s].listed
      /\ piece' = [Linked(body, piece, s) EXCEPT ![s].listed = TRUE]
      /\ IF piece[s].m > 0 THEN Accumulate(b) ELSE body' = b /\ sum' = sum

RemovePiece(s) ==
  LET b == IF piece[s].prev = NIL THEN [body EXCEPT !.head = piece[s].next] ELSE body
  IN  /\ piece[s].listed
      /\ piece' = [Unlinked(body, piece, s) EXCEPT ![s].listed = FALSE]
      /\ IF piece[s].m > 0 THEN Accumulate(b) ELSE body' = b /\ sum' = sum

\* cpShapeSetMass(), also of a shape that is in no list: the body forgets a mass of
\* its own all the same.
ShapeSetMass(s, m) ==
  /\ piece' = [piece EXCEPT ![s].m = m]
  /\ Accumulate(body)

\* cpCircleShapeSetOffset() and the other unsafe setters
SetOffset(s, c) ==
  /\ piece' = [piece EXCEPT ![s].c = c]
  /\ IF piece[s].m > 0 THEN Accumulate(body) ELSE UNCHANGED <<body, sum>>

\* cpBodySetMass() and cpBodySetMoment()
BodySetMass(m) ==
  /\ body.type = "dynamic"
  /\ body' = [body EXCEPT !.m = m, !.i = m * Moment, !.own = TRUE]
  /\ UNCHANGED <<piece, sum>>

\* cpBodySetType(), without what it does to the space
BodySetType(type) ==
  /\ type # body.type
  /\ IF type = "dynamic" THEN Accumulate([body EXCEPT !.type = type, !.m = 0, !.i = 0])
     ELSE body' = [body EXCEPT !.type = type, !.m = FOREVER, !.i = FOREVER] /\ sum' = sum
  /\ UNCHANGED piece

\* cpBodySetPosition(), cpBodySetAngle() and cpBodySetCenterOfGravity(), which leaves
\* the transform alone: the body jumps when it is moved next.
BodySetPosition(x) == body' = SetPlace(body, x) /\ UNCHANGED <<piece, sum>>
BodySetAngle(rot) == body' = Turned(body, body.p, rot) /\ UNCHANGED <<piece, sum>>
SetCenterOfGravity(c) ==
  /\ body' = [body EXCEPT !.cog = c, !.own = TRUE, !.synced = FALSE]
  /\ UNCHANGED <<piece, sum>>

\* cpBodyUpdatePosition() of a body that moves by d
UpdatePosition(d) ==
  /\ body.p + d \in -MaxLength .. MaxLength
  /\ body' = Turned(body, body.p + d, body.rot)
  /\ UNCHANGED <<piece, sum>>

MassInit ==
  /\ body = [type |-> "dynamic", m |-> 1, i |-> Moment, cog |-> 0, p |-> 0, rot |-> 1, tx |-> 0,
             head |-> NIL, own |-> TRUE, synced |-> TRUE]
  /\ piece = [s \in Piece |-> [m |-> 0, c |-> (s % 2) * Unit, next |-> NIL, prev |-> NIL, listed |-> FALSE]]
  /\ sum = [on |-> FALSE, at |-> NIL, pos |-> 0]

MassNext ==
  \/ AccumulateShape
  \/ AccumulateEnd
  \/ ~sum.on /\
     \/ \E s \in Piece :
          \/ AddPiece(s) \/ RemovePiece(s)
          \/ \E m \in Mass : ShapeSetMass(s, m)
          \/ s \in Movable /\ \E c \in {0, Unit} : SetOffset(s, c)
     \/ \E m \in Mass : BodySetMass(m)
     \/ \E type \in {"dynamic", "kinematic", "static"} : BodySetType(type)
     \/ BodySetPosition(0)
     \/ body.rot = 1 /\ SetCenterOfGravity(Unit)   \* bound: before the body is turned,
     \/ BodySetAngle(-1)                           \* and that by half a turn only
     \/ UpdatePosition(Unit)

MassSpec == MassInit /\ [][MassNext]_massVars

-----------------------------------------------------------------------------
(* Properties *)

Attached == {s \in Piece : piece[s].listed}

\* The shapes of the list in its order
InOrder(n, q) ==
  /\ \A j, k \in 1 .. n : q[j] = q[k] => j = k
  /\ Attached = {q[k] : k \in 1 .. n}
  /\ body.head = IF n = 0 THEN NIL ELSE q[1]
  /\ \A k \in 1 .. n : /\ piece[q[k]].next = IF k = n THEN NIL ELSE q[k + 1]
                       /\ piece[q[k]].prev = IF k = 1 THEN NIL ELSE q[k - 1]

\* The sum of the w[s]
Total(w) ==
  LET upTo[k \in 0 .. MaxPiece] == IF k = 0 THEN 0 ELSE upTo[k - 1] + w[k]
  IN  upTo[MaxPiece]

\* Of the shapes in S: mass, mass times centre, moment about x
MassOf(pc, S) == Total([s \in Piece |-> IF s \in S THEN pc[s].m ELSE 0])
LeverOf(pc, S) == Total([s \in Piece |-> IF s \in S THEN pc[s].m * pc[s].c ELSE 0])
MomentOf(pc, S, x) ==
  Total([s \in Piece |-> IF s \in S THEN pc[s].m * (Moment + (pc[s].c - x) * (pc[s].c - x)) ELSE 0])

\* The body's list, both ways, holds the shapes that are in the space.  A dynamic
\* body whose mass was not set by hand since it was computed has the mass, centre of
\* gravity and moment of those shapes, whatever the order they came, changed and
\* left in; and the transform agrees with the centre of gravity.
MassOfShapes ==
  /\ \E n \in 0 .. MaxPiece : \E q \in [1 .. n -> Piece] : InOrder(n, q)
  /\ \A s \in Piece \ Attached : piece[s].next = NIL /\ piece[s].prev = NIL
  /\ ~sum.on /\ body.type = "dynamic" /\ ~body.own =>
       /\ body.m = MassOf(piece, Attached)
       /\ body.m * body.cog = LeverOf(piece, Attached)
       /\ body.i = MomentOf(piece, Attached, body.cog)
  /\ body.synced => body.tx = body.p - body.rot * body.cog

\* Nothing but moving or turning the body takes it from its place: when its shapes,
\* its mass or its centre of gravity change, and while they are added up, it stays.
PlaceKept ==
  [][Place(body') # Place(body) =>
       ~sum.on /\ piece' = piece /\ body'.cog = body.cog /\ body'.m = body.m]_massVars
=============================================================================
