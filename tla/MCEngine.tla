------------------------------- MODULE MCEngine -------------------------------
(* The parts of a space that do not depend on one another, one of them in   *)
(* each behaviour.  The cfg gives a contact buffer room for the contacts of *)
(* one of two arbiters, so that the ring grows within a step.               *)
EXTENDS ContactBuffers, HashSet, CollisionHandlers, BodyMass, Joints, ZigSpace,
        Outlines, ConvexHull, Iteration

CONSTANTS
  Part,     \* the parts that are looked at
  a1, a2

VARIABLE part

TwoArbiters == {a1, a2}
TwoPrimes == <<5, 13>>             \* the first entries of primes[]
OwnBodies == <<1, 2, 3>>           \* a shape on each body
SomeLimits == {<<2, 1>>, <<-1, 1>>}   \* one of them turned round
FirstTwo == <<<<1, 2>>>>           \* a constraint between two of them
Spots == {<<0, 0>>, <<1, 0>>, <<2, 0>>, <<1, 1>>, <<0, 2>>, <<2, 1>>}

AlikeArbiters == Permutations(TwoArbiters)

PartInit ==
  /\ Init /\ SetInit /\ HandlersInit /\ MassInit /\ JointInit /\ ZigSpaceInit
  /\ MarchInit /\ HullInit /\ EachInit
  /\ part \in Part
  \* The parts that are not looked at begin in one way.
  /\ part # "handlers" => hnd.type["x"] = 1 /\ hnd.type["y"] = 1
  /\ part # "joints" => jnt.kind = "motor" /\ jnt.maxForce = 1 /\ jnt.goal = 1
  /\ part # "zig" => \A b \in ZBody : zsp.type[b] = "dynamic"
  /\ part # "march" =>
       ~march.hard /\ march.port = "c" /\ \A i \in DOMAIN march.buffer : march.buffer[i] = 0

allVars == <<vars, setVars, handlerVars, massVars, jnt, zsp, march, hull, itr, part>>

PartNext ==
  /\ UNCHANGED part
  /\ \/ part = "buffers" /\ Next
        /\ UNCHANGED <<setVars, handlerVars, massVars, jnt, zsp, march, hull, itr>>
     \/ part = "set" /\ SetNext
        /\ UNCHANGED <<vars, handlerVars, massVars, jnt, zsp, march, hull, itr>>
     \/ part = "handlers" /\ HandlersNext
        /\ UNCHANGED <<vars, setVars, massVars, jnt, zsp, march, hull, itr>>
     \/ part = "mass" /\ MassNext
        /\ UNCHANGED <<vars, setVars, handlerVars, jnt, zsp, march, hull, itr>>
     \/ part = "joints" /\ JointNext
        /\ UNCHANGED <<vars, setVars, handlerVars, massVars, zsp, march, hull, itr>>
     \/ part = "zig" /\ ZigSpaceNext
        /\ UNCHANGED <<vars, setVars, handlerVars, massVars, jnt, march, hull, itr>>
     \/ part = "march" /\ MarchNext
        /\ UNCHANGED <<vars, setVars, handlerVars, massVars, jnt, zsp, hull, itr>>
     \/ part = "hull" /\ HullNext
        /\ UNCHANGED <<vars, setVars, handlerVars, massVars, jnt, zsp, march, itr>>
     \/ part = "each" /\ EachNext
        /\ UNCHANGED <<vars, setVars, handlerVars, massVars, jnt, zsp, march, hull>>

PartSpec == PartInit /\ [][PartNext]_allVars
=============================================================================
