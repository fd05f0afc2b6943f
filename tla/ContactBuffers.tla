---------------------------- MODULE ContactBuffers ----------------------------
(***************************************************************************)
(* The ring of contact buffers of a cpSpace.  An arbiter points into a     *)
(* buffer; nobody counts the pointers: a buffer is used again when it is   *)
(* older than any arbiter that could still point into it, but for those    *)
(* that the filter keeps because their bodies rest.                        *)
(***************************************************************************)
EXTENDS Integers, Sequences

CONSTANTS
  Arbiter,
  Size,          \* CP_CONTACTS_BUFFER_SIZE
  MaxContacts,   \* CP_MAX_CONTACTS_PER_ARBITER
  StampRange,    \* 2^32, the range of cpTimestamp
  Persistences,  \* the values given to space->collisionPersistence
  Started,       \* the first of them
  MaxBuffers     \* bound: buffers in the ring when contacts are added

ASSUME BuffersAssumption ==
  /\ MaxContacts \in Nat \ {0} /\ Size \in Nat /\ Size >= MaxContacts
  /\ Started \in Persistences /\ Persistences \subseteq Nat \ {0}
  /\ StampRange \in Nat /\ MaxBuffers \in Nat
  /\ \A P \in Persistences : MaxBuffers + 2 * P + 2 < StampRange

VARIABLES
  stamp,                 \* space->stamp
  collisionPersistence,  \* space->collisionPersistence
  ring,                  \* the buffers from the tail to the head
  phase,                 \* of cpSpaceStep(), or "user" between steps
  contacts               \* where each arbiter's contacts are

vars == <<stamp, collisionPersistence, ring, phase, contacts>>

\* An arbiter's contacts are nowhere, in a block of their own while its bodies
\* sleep, or in the buffer at, where they were written when that had the stamp
\* written; stamp is the arbiter's.  rested: it was due to be thrown away, and kept
\* because its bodies rest; of such a pointer only the buffer is modelled, and not
\* that its age passes for less again after StampRange steps.
NULL == 0
HEAP == -1
None == [at |-> NULL, start |-> 0, count |-> 0, written |-> 0, stamp |-> 0, rested |-> FALSE]
Saved(n) == [None EXCEPT !.at = HEAP, !.count = n]
Rested(c) == [None EXCEPT !.at = c.at, !.rested = TRUE]
InBuffer == {a \in Arbiter : contacts[a].at > 0}
Current == {a \in InBuffer : ~contacts[a].rested}

Newest(r) == r[Len(r)]        \* contactBuffersHead; its next is the tail, r[1]
Age(s) == (stamp - s) % StampRange

-----------------------------------------------------------------------------

\* (faulty: a buffer is used again one step too early)
FreshEarly(r, now) ==
  LET init(id) == [id |-> id, stamp |-> now, numContacts |-> 0]
  IN  IF r # <<>> /\ (now - r[1].stamp) % StampRange >= collisionPersistence
      THEN Append(Tail(r), init(r[1].id))
      ELSE Append(r, init(Len(r) + 1))

\* cpSpacePushFreshContactBuffer() at the time now
Fresh(r, now) ==
  LET init(id) == [id |-> id, stamp |-> now, numContacts |-> 0]
  IN  IF r # <<>> /\ (now - r[1].stamp) % StampRange > collisionPersistence
      THEN Append(Tail(r), init(r[1].id))
      ELSE Append(r, init(Len(r) + 1))

\* cpContactBufferGetArray(): room for the contacts of one more arbiter
Roomy(r) == IF Newest(r).numContacts + MaxContacts > Size THEN Fresh(r, stamp) ELSE r

\* cpSpacePushContacts() of n contacts, and where they are
Pushed(r, n) == [r EXCEPT ![Len(r)].numContacts = @ + n]
Placed(r, n) == [at |-> Newest(r).id, start |-> Newest(r).numContacts, count |-> n,
                 written |-> Newest(r).stamp, stamp |-> stamp, rested |-> FALSE]

\* The beginning of a step.
StepBegin ==
  /\ phase = "user"
  /\ stamp' = (stamp + 1) % StampRange
  /\ ring' = Fresh(ring, stamp')
  /\ phase' = "narrow"
  /\ UNCHANGED <<collisionPersistence, contacts>>

\* cpSpaceCollideShapes() for an arbiter whose shapes touch in n points; the
\* contacts are popped again if the collision is not processed.
CollideShapes(a, n, processed) ==
  LET r == Roomy(ring)
  IN  /\ phase = "narrow" /\ Len(r) <= MaxBuffers
      /\ contacts[a].at # HEAP
      /\ a \in Current => contacts[a].stamp # stamp
      /\ ring' = IF processed THEN Pushed(r, n) ELSE r
      /\ contacts' = IF n = 0 THEN contacts
                     ELSE [contacts EXCEPT ![a] = IF processed THEN Placed(r, n) ELSE None]
      /\ UNCHANGED <<stamp, collisionPersistence, phase>>

\* The space is unlocked; components wake and fall asleep.
EndNarrowPhase ==
  /\ phase = "narrow"
  /\ phase' = "components"
  /\ UNCHANGED <<stamp, collisionPersistence, ring, contacts>>

\* cpSpaceArbiterSetFilter() of all arbiters.  It returns early for the resting, both of
\* whose bodies are static or asleep, as are those of what is saved: they stay, with
\* their pointer, however old they are.
ArbiterSetFilter(resting) ==
  /\ phase = "components"
  /\ {a \in Arbiter : contacts[a].at = HEAP} \subseteq resting
  /\ contacts' = [a \in Arbiter |->
       IF a \notin InBuffer \/ (a \in Current /\ Age(contacts[a].stamp) < collisionPersistence)
       THEN contacts[a] ELSE IF a \in resting THEN Rested(contacts[a]) ELSE None]
  /\ phase' = "user"
  /\ UNCHANGED <<stamp, collisionPersistence, ring>>

\* cpSpaceDeactivateBody() copies the contacts of this step
SaveContacts(a) ==
  /\ phase # "narrow"
  /\ a \in Current /\ contacts[a].stamp = stamp
  /\ contacts' = [contacts EXCEPT ![a] = Saved(@.count)]
  /\ UNCHANGED <<stamp, collisionPersistence, ring, phase>>

\* cpSpaceActivateBody() copies them back
RestoreContacts(a) ==
  LET r == Roomy(ring)
  IN  /\ phase # "narrow"
      /\ contacts[a].at = HEAP /\ Len(r) <= MaxBuffers
      /\ ring' = Pushed(r, contacts[a].count)
      /\ contacts' = [contacts EXCEPT ![a] = Placed(r, @.count)]
      /\ UNCHANGED <<stamp, collisionPersistence, phase>>

\* cpSpaceSetCollisionPersistence(), which looks at nothing.  Only raising it is
\* modelled: after lowering it the next Fresh can use a buffer again that an
\* arbiter, kept under the old value, still points into.
SetCollisionPersistence(P) ==
  /\ phase = "user" /\ P > collisionPersistence
  /\ collisionPersistence' = P
  /\ UNCHANGED <<stamp, ring, phase, contacts>>

Init ==
  /\ stamp = 0 /\ collisionPersistence = Started
  /\ ring = <<>> /\ phase = "user"
  /\ contacts = [a \in Arbiter |-> None]

Next ==
  \/ StepBegin \/ EndNarrowPhase
  \/ \E resting \in SUBSET Arbiter : ArbiterSetFilter(resting)
  \/ \E a \in Arbiter, n \in 0..MaxContacts, processed \in BOOLEAN :
       CollideShapes(a, n, processed)
  \/ \E a \in Arbiter : SaveContacts(a) \/ RestoreContacts(a)
  \/ \E P \in Persistences : SetCollisionPersistence(P)

Spec == Init /\ [][Next]_vars

-----------------------------------------------------------------------------
(* Properties *)

\* Contacts that a current arbiter points to are those that were written for it: their
\* buffer holds them and was not used again since, although nobody counts the
\* pointers and cpArbiterUpdate() still reads contacts up to collisionPersistence
\* steps old.  Nothing of the kind is true of an arbiter that rested past that age
\* without being saved, whose pointer may lead into a buffer in use.
ContactsIntact ==
  \A a \in Current : \E i \in 1..Len(ring) :
    LET c == contacts[a]
    IN  /\ ring[i].id = c.at /\ ring[i].stamp = c.written
        /\ c.start + c.count <= ring[i].numContacts

\* The contacts of two current arbiters never share memory, and no buffer overflows.
NoOverlap ==
  /\ \A i \in 1..Len(ring) : ring[i].numContacts <= Size
  /\ \A a, b \in Current :
       LET c == contacts[a]
           d == contacts[b]
       IN  a # b /\ c.at = d.at =>
             c.start + c.count <= d.start \/ d.start + d.count <= c.start

\* So nothing but its own arbiter ever writes to the contacts of a current one, as all
\* that the solver works on are.
ContactsSafe == ContactsIntact /\ NoOverlap
=============================================================================
