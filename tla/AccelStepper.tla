----------------------------- MODULE AccelStepper -----------------------------
(***************************************************************************)
(* The speed profile of the library AccelStepper                           *)
(* (main/libraries/AccelStepper/AccelStepper.cpp), as far as the strand    *)
(* uses it.  A method of the class is an operator that takes the object's  *)
(* fields m as they are before the call to those after it.                 *)
(*                                                                         *)
(* The floats of the library are integers here: intervals in microseconds, *)
(* speeds in tenths of a step per second.  The time at which a step is due *)
(* is left out: a call of run() at which no step is due does nothing.      *)
(***************************************************************************)
EXTENDS Integers

CONSTANT Accelerations   \* the accelerations in use (steps per second squared)

ASSUME AccelerationAssumption ==
  \A a \in Accelerations : a \in Nat /\ 10 <= a /\ a <= 100000

Second == 1000000                 \* in microseconds
SpeedUnit == 10
Never == -1                       \* an interval that does not end: 1000000.0 / 0
CW == 1                           \* DIRECTION_CW
CCW == -1                         \* DIRECTION_CCW

Abs(x) == IF x >= 0 THEN x ELSE -x
Sign(x) == IF x > 0 THEN 1 ELSE IF x < 0 THEN -1 ELSE 0
Larger(x, y) == IF x >= y THEN x ELSE y
Truncate(a, b) == Sign(a) * Sign(b) * (Abs(a) \div Abs(b))
LargestRoot == 45000
Root(x) == CHOOSE r \in 0 .. LargestRoot : r * r <= x /\ x < (r + 1) * (r + 1)

(* 0.676 * sqrt(2.0 / acceleration) * 1000000.0 *)
FirstInterval ==
  [a \in Accelerations |-> (676 * Root((2000000000 \div a) * 10)) \div 100]
-------------------------------------------------------------------------------
distanceToGo(m) == m.targetPos - m.currentPos

(* Equation 16 *)
StepsToStop(m) ==
  (m.speed * m.speed) \div (2 * m.acceleration * SpeedUnit * SpeedUnit)

(* Faulty variant: braking begins a step late. *)
NextN_Late(m) ==
  LET distanceTo == distanceToGo(m)
      onTheWay == m.direction = Sign(distanceTo)
  IN CASE distanceTo # 0 /\ m.n > 0 /\ (StepsToStop(m) > Abs(distanceTo) + 1 \/ ~onTheWay)
            -> -StepsToStop(m)
       [] distanceTo # 0 /\ m.n < 0 /\ StepsToStop(m) < Abs(distanceTo) /\ onTheWay
            -> -m.n
       [] OTHER -> m.n

(* Faulty variant: a motor that turns away from its target does not brake. *)
NextN_Onward(m) ==
  LET distanceTo == distanceToGo(m)
  IN CASE distanceTo # 0 /\ m.n > 0 /\ StepsToStop(m) >= Abs(distanceTo) -> -StepsToStop(m)
       [] distanceTo # 0 /\ m.n < 0 /\ StepsToStop(m) < Abs(distanceTo) -> -m.n
       [] OTHER -> m.n

(* The step counter of the profile, below 0 while braking: begin to brake, or speed up *)
(* again, by the distance that is left and the direction of the motor.                *)
NextN(m) ==
  LET distanceTo == distanceToGo(m)
      onTheWay == m.direction = Sign(distanceTo)
  IN CASE distanceTo # 0 /\ m.n > 0 /\ (StepsToStop(m) >= Abs(distanceTo) \/ ~onTheWay)
            -> -StepsToStop(m)
       [] distanceTo # 0 /\ m.n < 0 /\ StepsToStop(m) < Abs(distanceTo) /\ onTheWay
            -> -m.n
       [] OTHER -> m.n

(* Faulty variant: the maximum speed is not heeded. *)
NextInterval_Unlimited(m, n) ==
  IF n = 0 THEN m.c0 ELSE m.cn - Truncate(2 * m.cn, 4 * n + 1)

(* Equation 13, and from standstill the first interval, which no maximum limits.  An *)
(* infinite interval stays so (inf - inf is no number) until the motor starts anew.  *)
NextInterval(m, n) ==
  CASE n = 0 -> m.c0
    [] n # 0 /\ Never \in {m.cn, m.cmin} -> Never
    [] OTHER -> Larger(m.cn - Truncate(2 * m.cn, 4 * n + 1), m.cmin)

(* 1000000.0 / interval: 0 only if the interval does not end *)
SpeedAt(interval) ==
  IF interval = Never THEN 0 ELSE Larger((Second * SpeedUnit) \div interval, 1)

computeNewSpeed(m) ==
  LET n == NextN(m)
      cn == NextInterval(m, n)
      direction == IF n # 0 THEN m.direction ELSE IF distanceToGo(m) > 0 THEN CW ELSE CCW
  IN IF distanceToGo(m) = 0 /\ StepsToStop(m) <= 1
     THEN [m EXCEPT !.stepInterval = 0, !.speed = 0, !.n = 0]
     ELSE [m EXCEPT !.n = n + 1, !.cn = cn, !.direction = direction, !.stepInterval = cn,
                    !.speed = direction * SpeedAt(cn)]

moveTo(m, absolute) ==
  IF m.targetPos # absolute THEN computeNewSpeed([m EXCEPT !.targetPos = absolute]) ELSE m

move(m, relative) == moveTo(m, m.currentPos + relative)

(* Whether a step will ever be due. *)
Turns(m) == m.stepInterval \notin {0, Never}

(* runSpeed, at the moment a step is due *)
runSpeed(m) == [m EXCEPT !.currentPos = @ + m.direction]

run(m) == computeNewSpeed(runSpeed(m))

isRunning(m) == m.speed # 0 \/ distanceToGo(m) # 0

setCurrentPosition(m, position) ==
  [m EXCEPT !.targetPos = position, !.currentPos = position,
            !.n = 0, !.stepInterval = 0, !.speed = 0]

setMaxSpeed(m, speed) ==
  LET limited == [m EXCEPT !.maxSpeed = Abs(speed),
                           !.cmin = IF speed = 0 THEN Never ELSE Second \div Abs(speed)]
  IN CASE m.maxSpeed = Abs(speed) -> m
       [] m.maxSpeed # Abs(speed) /\ m.n > 0
            -> computeNewSpeed([limited EXCEPT !.n = StepsToStop(m)])
       [] OTHER -> limited

(* An acceleration of 0 is not set. *)
setAcceleration(m, acceleration) ==
  IF acceleration = 0 \/ m.acceleration = Abs(acceleration) THEN m
  ELSE computeNewSpeed(
         [m EXCEPT !.n = Truncate(m.n * m.acceleration, Abs(acceleration)),
                   !.c0 = FirstInterval[Abs(acceleration)],
                   !.acceleration = Abs(acceleration)])

(* Faulty variant: the motor halts where it is, and the target stays. *)
stop_AtOnce(m) == [m EXCEPT !.n = 0, !.stepInterval = 0, !.speed = 0]

(* A motor that does not turn is left as it is. *)
stop(m) == IF m.speed # 0 THEN move(m, Sign(m.speed) * (StepsToStop(m) + 1)) ELSE m

(* The object after its construction, with the speed and acceleration set at start-up. *)
Motor(speed, acceleration) ==
  [currentPos |-> 0, targetPos |-> 0, speed |-> 0, maxSpeed |-> speed,
   acceleration |-> acceleration, stepInterval |-> 0, n |-> 0,
   c0 |-> FirstInterval[acceleration], cn |-> 0, cmin |-> Second \div speed,
   direction |-> CCW]
===============================================================================
