-------------------------------- MODULE Joints --------------------------------
(***************************************************************************)
(* The solver's side of the ten constraints: preStep(), applyCachedImpulse()*)
(* and applyImpulse() of one joint along one axis.  What else moves the    *)
(* bodies between two calls is an input: the distance (or angle) when a    *)
(* step begins and the relative velocity in each iteration.  The bodies'   *)
(* inverse masses add up to one.  dt may differ from step to step.  What a *)
(* step pushes is counted in halves of an impulse, because dt_coef can be  *)
(* a half; of a bias only its sign and its limit are modelled.             *)
(***************************************************************************)
EXTENDS Integers

CONSTANTS
  JointKind,    \* the kinds of constraint looked at
  MaxForce,     \* values of constraint.maxForce
  MaxBias,      \* constraint.maxBias
  Iterations,   \* space->iterations
  Dt,           \* the values of cpSpaceStep()'s dt
  Far,          \* bound: distances, angles and velocities
  Limits,       \* the least and the greatest distance or angle a joint is set to, <<l, u>>;
                \* they differ: a groove has a length
  Goal          \* the distances, angles and velocities joints without limits are set to

One == 2        \* an impulse in halves
Spring == {"dampedSpring", "dampedRotarySpring"}
Kinds == {"pin", "slide", "pivot", "groove", "rotaryLimit", "ratchet", "gear", "motor"} \cup Spring

ASSUME JointAssumption ==
  /\ JointKind \subseteq Kinds
  /\ Dt \subseteq Nat \ {0} /\ \A dt, prev \in Dt : (One * dt) % prev = 0
  /\ MaxForce \subseteq Nat /\ MaxBias \in Nat /\ Iterations \in Nat \ {0} /\ Far \in Nat
  /\ Limits \subseteq Int \X Int /\ (\A lu \in Limits : lu[1] # lu[2]) /\ Goal \subseteq Int

Inputs == -Far .. Far

\* Of the joint: acc: the accumulated impulse; bias; n: the direction, or which end
\* of the groove it is at; angle: the tooth of a ratchet; target: the velocity a
\* spring is damped to.  min, max: of a slide or rotary limit joint, or the ends of a
\* groove; goal: dist, phase, rate, restLength or restAngle.  Of the last step: dt; coef:
\* its dt_coef, in halves; warm: the sum that applyCachedImpulse() started from; pushed:
\* what body b got, in halves; coincide: the anchors were in one place; set: maxForce or
\* the direction was changed after it.
VARIABLE jnt

Clamped(x, l, u) == IF x < l THEN l ELSE IF x > u THEN u ELSE x
Sign(x) == IF x > 0 THEN 1 ELSE IF x < 0 THEN -1 ELSE 0
Abs1(x) == IF x < 0 THEN -x ELSE x
Bias(x) == Clamped(x, -MaxBias, MaxBias)

Tooth == 2      \* size of a ratchet's teeth

Push(j, imp) == [j EXCEPT !.pushed = @ + One * imp]

\* dt_coef of a step, if the space's last step took prev, or there was none
DtCoef(dt, prev) == IF prev = 0 THEN 0 ELSE (One * dt) \div prev

-----------------------------------------------------------------------------
(* What joints are for: their parameters, given by their constructors and setters.  *)
(* Where the anchors are is in x.                                                   *)

PinSet(j, dist) == [j EXCEPT !.goal = dist]
SlideSet(j, l, u) == [j EXCEPT !.min = l, !.max = u]
PivotSet(j) == j
\* The axis of a groove leads from its first end to the other.
GrooveSet(j, l, u) == IF l < u THEN [j EXCEPT !.min = l, !.max = u] ELSE [j EXCEPT !.min = u, !.max = l]
RotaryLimitSet(j, l, u) == [j EXCEPT !.min = l, !.max = u]
RatchetSet(j, phase, angle) == [j EXCEPT !.goal = phase, !.angle = angle]
GearSet(j, phase) == [j EXCEPT !.goal = phase]
MotorSet(j, rate) == [j EXCEPT !.goal = rate]
DampedSpringSet(j, restLength) == [j EXCEPT !.goal = restLength]
DampedRotarySpringSet(j, restAngle) == [j EXCEPT !.goal = restAngle]

\* x is what a ratchet's angle is, and g the other parameter, if there are no limits.
Parameters(j, lu, g, x) ==
  CASE j.kind = "pin" -> PinSet(j, g)
    [] j.kind = "slide" -> SlideSet(j, lu[1], lu[2])
    [] j.kind = "pivot" -> PivotSet(j)
    [] j.kind = "groove" -> GrooveSet(j, lu[1], lu[2])
    [] j.kind = "rotaryLimit" -> RotaryLimitSet(j, lu[1], lu[2])
    [] j.kind = "ratchet" -> RatchetSet(j, g, x)
    [] j.kind = "gear" -> GearSet(j, g)
    [] j.kind = "motor" -> MotorSet(j, g)
    [] j.kind = "dampedSpring" -> DampedSpringSet(j, g)
    [] j.kind = "dampedRotarySpring" -> DampedRotarySpringSet(j, g)

-----------------------------------------------------------------------------
(* preStep(): the error x is the signed distance, or the relative angle *)

\* (faulty: the impulse survives a step in which the limit is not reached)
SlideKept(j, x) ==
  LET d == Abs1(x)
  IN  IF d > j.max THEN [j EXCEPT !.n = Sign(x), !.bias = Bias(j.max - d)]
      ELSE IF d < j.min THEN [j EXCEPT !.n = -Sign(x), !.bias = Bias(d - j.min)]
      ELSE [j EXCEPT !.n = 0, !.bias = 0]

SlidePreStep(j, x) ==
  LET d == Abs1(x)
  IN  IF d > j.max THEN [j EXCEPT !.n = Sign(x), !.bias = Bias(j.max - d)]
      ELSE IF d < j.min THEN [j EXCEPT !.n = -Sign(x), !.bias = Bias(d - j.min)]
      ELSE [j EXCEPT !.n = 0, !.bias = 0, !.acc = 0]

\* An angular limit that is not reached has no bias, and forgets its impulse.
Unbiased(j) == IF j.bias = 0 THEN [j EXCEPT !.acc = 0] ELSE j
RotaryLimitPreStep(j, x) ==
  LET pdist == IF x > j.max THEN j.max - x ELSE IF x < j.min THEN j.min - x ELSE 0
  IN  Unbiased([j EXCEPT !.bias = Bias(-pdist)])

\* The ratchet takes the tooth it has reached, rounding down.
RatchetPreStep(j, x) ==
  LET diff == j.angle - x
      r == j.n * Tooth
  IN  IF diff * r > 0 THEN Unbiased([j EXCEPT !.bias = Bias(-diff)])
      ELSE Unbiased([j EXCEPT !.bias = 0, !.angle = ((j.n * (x - j.goal)) \div Tooth) * r + j.goal])

\* The groove ends at both limits; in between b slides freely along it.
GroovePreStep(j, x) ==
  [j EXCEPT !.n = IF x <= j.min THEN 1 ELSE IF x >= j.max THEN -1 ELSE 0,
            !.bias = Bias(Clamped(x, j.min, j.max) - x)]

PinPreStep(j, x) == [j EXCEPT !.n = Sign(x), !.bias = Bias(j.goal - Abs1(x))]
PivotPreStep(j, x) == [j EXCEPT !.bias = Bias(-x)]
GearPreStep(j, x) == [j EXCEPT !.bias = Bias(j.goal - x)]
MotorPreStep(j, x) == j

\* Springs push at once, and start their sum anew.
DampedSpringPreStep(j, x) ==
  LET f == (j.goal - Abs1(x)) * j.dt
  IN  Push([j EXCEPT !.n = Sign(x), !.target = 0, !.acc = f], Sign(x) * f)
DampedRotarySpringPreStep(j, x) ==
  LET f == (x - j.goal) * j.dt
  IN  Push([j EXCEPT !.target = 0, !.acc = f], f)

-----------------------------------------------------------------------------
(* applyCachedImpulse() and applyImpulse(); v is the velocity of b relative to a *)

\* Linear joints push along n.
Along(j) == IF j.kind \in {"pin", "slide", "dampedSpring"} THEN j.n ELSE 1

\* (faulty: the step before is taken to have lasted as long as this one)
ApplyUnscaled(j) ==
  IF j.kind \in Spring THEN j ELSE Push([j EXCEPT !.warm = j.acc], Along(j) * j.acc)

\* applyCachedImpulse() pushes dt_coef times the sum of the last step, which it leaves
\* as it is and does not clamp.  Springs have none.
ApplyCached(j) ==
  IF j.kind \in Spring THEN j
  ELSE [j EXCEPT !.warm = j.acc, !.pushed = @ + Along(j) * (j.coef * j.acc)]

\* What a joint pushes is the change of its sum, to which the impulse that would
\* bring the bodies to the joint's velocity is added, clamped to l .. u.
Solved(j, imp, l, u) ==
  LET acc == Clamped(j.acc + imp, l, u)
  IN  Push([j EXCEPT !.acc = acc], Along(j) * (acc - j.acc))
Most(j) == j.maxForce * j.dt
Solved2(j, imp) == Solved(j, imp, -Most(j), Most(j))

PinApplyImpulse(j, v) == Solved2(j, j.bias - j.n * v)
SlideApplyImpulse(j, v) == IF j.n = 0 THEN j ELSE Solved(j, j.bias - j.n * v, -Most(j), 0)
PivotApplyImpulse(j, v) == Solved2(j, j.bias - v)
\* grooveConstrain(): nothing along the groove is left, or only what pushes b back
\* from its end.
GrooveApplyImpulse(j, v) ==
  Solved(j, j.bias - v, IF j.n = -1 THEN -Most(j) ELSE 0, IF j.n = 1 THEN Most(j) ELSE 0)
RotaryLimitApplyImpulse(j, v) ==
  IF j.bias = 0 THEN j
  ELSE Solved(j, -(j.bias + v), IF j.bias < 0 THEN 0 ELSE -Most(j),
                                IF j.bias < 0 THEN Most(j) ELSE 0)
RatchetApplyImpulse(j, v) ==
  IF j.bias = 0 THEN j
  ELSE Solved(j, -(j.bias + v), IF j.n > 0 THEN 0 ELSE -Most(j), IF j.n > 0 THEN Most(j) ELSE 0)
GearApplyImpulse(j, v) == Solved2(j, j.bias - v)
MotorApplyImpulse(j, v) == Solved2(j, -(v + j.goal))

DampedSpringApplyImpulse(j, v) ==
  LET damp == j.target - j.n * v
  IN  Push([j EXCEPT !.target = j.n * v + damp, !.acc = @ + damp], j.n * damp)
\* A rotary spring adds to its sum what it takes from b.
DampedRotarySpringApplyImpulse(j, v) ==
  LET damp == j.target + v
  IN  Push([j EXCEPT !.target = damp - v, !.acc = @ + damp], -damp)

\* cpConstraintGetImpulse()
GetImpulse(j) == IF j.kind \in Spring THEN j.acc ELSE Abs1(j.acc)

-----------------------------------------------------------------------------
(* Steps *)

\* The space's last step took prev; the joint may have been asleep or elsewhere then.
PreStep(x, dt, prev) ==
  LET j == [jnt EXCEPT !.pushed = 0, !.phase = "cached", !.set = FALSE, !.coincide = (x = 0),
                       !.dt = dt, !.coef = DtCoef(dt, prev), !.warm = 0]
  IN  /\ jnt.phase = "user"
      /\ jnt' = CASE j.kind = "pin" -> PinPreStep(j, x)
                  [] j.kind = "slide" -> SlidePreStep(j, x)
                  [] j.kind = "pivot" -> PivotPreStep(j, x)
                  [] j.kind = "groove" -> GroovePreStep(j, x)
                  [] j.kind = "rotaryLimit" -> RotaryLimitPreStep(j, x)
                  [] j.kind = "ratchet" -> RatchetPreStep(j, x)
                  [] j.kind = "gear" -> GearPreStep(j, x)
                  [] j.kind = "motor" -> MotorPreStep(j, x)
                  [] j.kind = "dampedSpring" -> DampedSpringPreStep(j, x)
                  [] j.kind = "dampedRotarySpring" -> DampedRotarySpringPreStep(j, x)

ApplyCachedImpulse ==
  /\ jnt.phase = "cached"
  /\ jnt' = [ApplyCached(jnt) EXCEPT !.phase = "solve", !.left = Iterations]

ApplyImpulse(v) ==
  LET j == [jnt EXCEPT !.left = @ - 1, !.phase = IF jnt.left = 1 THEN "user" ELSE @]
  IN  /\ jnt.phase = "solve"
      /\ jnt' = CASE j.kind = "pin" -> PinApplyImpulse(j, v)
                  [] j.kind = "slide" -> SlideApplyImpulse(j, v)
                  [] j.kind = "pivot" -> PivotApplyImpulse(j, v)
                  [] j.kind = "groove" -> GrooveApplyImpulse(j, v)
                  [] j.kind = "rotaryLimit" -> RotaryLimitApplyImpulse(j, v)
                  [] j.kind = "ratchet" -> RatchetApplyImpulse(j, v)
                  [] j.kind = "gear" -> GearApplyImpulse(j, v)
                  [] j.kind = "motor" -> MotorApplyImpulse(j, v)
                  [] j.kind = "dampedSpring" -> DampedSpringApplyImpulse(j, v)
                  [] j.kind = "dampedRotarySpring" -> DampedRotarySpringApplyImpulse(j, v)

\* cpConstraintSetMaxForce(); cpRatchetJointSetRatchet() to the other direction
SetMaxForce(m) == jnt.phase = "user" /\ jnt' = [jnt EXCEPT !.maxForce = m, !.set = TRUE]
SetRatchet ==
  /\ jnt.phase = "user" /\ jnt.kind = "ratchet"
  /\ jnt' = [jnt EXCEPT !.n = -@, !.set = TRUE]

SetParameters(lu, g, x) == jnt.phase = "user" /\ jnt' = Parameters(jnt, lu, g, x)

\* The constructors: a pin takes the distance the anchors have, a ratchet the angle.
JointInit ==
  \E kind \in JointKind, m \in MaxForce, lu \in Limits, g \in Goal, x \in Inputs :
    jnt = Parameters(
      [kind |-> kind, acc |-> 0, bias |-> 0, n |-> 1, angle |-> 0, target |-> 0, maxForce |-> m,
       min |-> 0, max |-> 0, goal |-> 0,
       dt |-> 0, coef |-> One, warm |-> 0, pushed |-> 0, phase |-> "user", left |-> 0,
       coincide |-> FALSE, set |-> FALSE],
      lu, IF kind = "pin" THEN Abs1(x) ELSE g, x)

JointNext ==
  \/ \E x \in Inputs, dt \in Dt, prev \in Dt \cup {0} : PreStep(x, dt, prev)
  \/ \E x \in Inputs : ApplyImpulse(x)
  \/ ApplyCachedImpulse
  \/ \E m \in MaxForce : SetMaxForce(m)
  \/ \E lu \in Limits, g \in Goal, x \in Inputs : SetParameters(lu, g, x)
  \/ SetRatchet

JointSpec == JointInit /\ [][JointNext]_jnt

-----------------------------------------------------------------------------
(* Properties *)

\* A linear joint whose anchors coincide adds up impulses it has no direction for.
Lost == jnt.kind \in {"pin", "slide", "dampedSpring"} /\ jnt.coincide

\* What applyCachedImpulse() pushed and the joint's sum does not hold, in halves:
\* nothing if dt is that of the step before.
Unsaid(j) == (j.coef - One) * j.warm

\* What a joint pushed the bodies with in the last step is the sum it keeps, and what the
\* warm start scaled by dt_coef adds to it or takes from it: nobody clamps that part, so
\* that with another dt a joint may push more than maxForce allows, or outward.  The sum
\* is within maxForce, and a limit that is not reached pushes nothing at any dt.  Where
\* nothing is left unsaid cpConstraintGetImpulse() tells how much the bodies got, cached
\* impulse and all, and a limit pushed inward only.  Left out are lost joints, and the
\* damped rotary spring, which counts with the wrong sign.
ImpulseIsWhatWasPushed ==
  jnt.phase = "user" /\ ~Lost /\ jnt.kind # "dampedRotarySpring" =>
    /\ jnt.pushed = Along(jnt) * (One * jnt.acc + Unsaid(jnt))
    /\ jnt.kind \notin Spring /\ ~jnt.set => Abs1(jnt.acc) <= Most(jnt)
    /\ jnt.kind \in {"rotaryLimit", "ratchet"} /\ jnt.bias = 0 => jnt.pushed = 0
    /\ jnt.kind = "slide" /\ jnt.n = 0 => jnt.pushed = 0
    /\ Unsaid(jnt) = 0 =>
         /\ Abs1(jnt.pushed) = One * Abs1(GetImpulse(jnt))
         /\ jnt.kind = "slide" => jnt.n * jnt.pushed <= 0
         /\ jnt.kind = "rotaryLimit" => jnt.bias * jnt.pushed <= 0
         /\ jnt.kind = "ratchet" /\ ~jnt.set => jnt.n * jnt.pushed >= 0
         /\ jnt.kind = "groove" => jnt.n * jnt.pushed >= 0 /\ (jnt.n = 0 => jnt.pushed = 0)
=============================================================================
