--------------------------- MODULE StepperMotor_proofs ---------------------------
(***************************************************************************)
(* Proofs about StepperMotor, for all commands, speeds and accelerations,  *)
(* and stops and homings at any time: the maximum speed is kept, and the   *)
(* library does no more than module Motor allows.                          *)
(***************************************************************************)
EXTENDS StepperMotor, WellFoundedInduction, TLAPS

(***************************************************************************)
(* The library's methods                                                   *)
(***************************************************************************)
Fields == {"currentPos", "targetPos", "speed", "maxSpeed", "acceleration", "stepInterval", "n",
           "c0", "cn", "cmin", "direction"}

(* A stepper with a maximum speed, and the least interval that this leaves. *)
Limited(m) ==
  /\ DOMAIN m = Fields /\ m.maxSpeed \in Nat
  /\ m.cmin = IF m.maxSpeed = 0 THEN Never ELSE Second \div m.maxSpeed

(* The first step apart, no step comes sooner than the maximum speed allows. *)
Within(m) == m.n = 1 \/ ~Turns(m) \/ (m.maxSpeed > 0 /\ m.stepInterval >= m.cmin)

SamePlace(m, k) == k.currentPos = m.currentPos /\ k.targetPos = m.targetPos

(* The least interval is a number. *)
LEMMA CminInt ==
  ASSUME NEW m, Limited(m)
  PROVE  m.cmin \in Int
  BY DEF Limited, Second, Never

(* computeNewSpeed keeps to the maximum speed, whatever the speed was before. *)
LEMMA NewSpeedWithin ==
  ASSUME NEW m, Limited(m)
  PROVE  /\ Limited(computeNewSpeed(m)) /\ Within(computeNewSpeed(m))
         /\ SamePlace(m, computeNewSpeed(m))
<1> DEFINE n == NextN(m)
           cn == NextInterval(m, n)
           direction == IF n # 0 THEN m.direction ELSE IF distanceToGo(m) > 0 THEN CW ELSE CCW
           speed == direction * SpeedAt(cn)
           still == [m EXCEPT !.stepInterval = 0, !.speed = 0, !.n = 0]
           moving == [m EXCEPT !.n = n + 1, !.cn = cn, !.direction = direction,
                               !.stepInterval = cn, !.speed = speed]
<1>1. DOMAIN m = Fields
  BY DEF Limited
<1>2. m.cmin \in Int
  BY CminInt
<1>3. computeNewSpeed(m) = still \/ computeNewSpeed(m) = moving
  BY DEF computeNewSpeed
<1>4. n + 1 = 1 \/ cn = Never \/ (m.maxSpeed > 0 /\ cn >= m.cmin)
  BY <1>2 DEF NextInterval, Larger, Limited
<1> HIDE DEF n, cn, direction, speed
<1>5. CASE computeNewSpeed(m) = still
  <2> DEFINE k == still
  <2>1. /\ DOMAIN k = Fields /\ SamePlace(m, k)
        /\ k.maxSpeed = m.maxSpeed /\ k.cmin = m.cmin /\ k.stepInterval = 0
    BY <1>1 DEF SamePlace, Fields
  <2> HIDE DEF k
  <2>2. Limited(k) /\ Within(k)
    BY <2>1 DEF Limited, Within, Turns
  <2>3. computeNewSpeed(m) = k
    BY <1>5 DEF k
  <2> QED
    BY <2>1, <2>2, <2>3
<1>6. CASE computeNewSpeed(m) = moving
  <2> DEFINE k == moving
  <2>1. /\ DOMAIN k = Fields /\ SamePlace(m, k)
        /\ k.maxSpeed = m.maxSpeed /\ k.cmin = m.cmin /\ k.stepInterval = cn /\ k.n = n + 1
    BY <1>1 DEF SamePlace, Fields
  <2> HIDE DEF k
  <2>2. Limited(k) /\ Within(k)
    BY <1>4, <2>1 DEF Limited, Within, Turns
  <2>3. computeNewSpeed(m) = k
    BY <1>6 DEF k
  <2> QED
    BY <2>1, <2>2, <2>3
<1> QED
  BY <1>3, <1>5, <1>6

(* A move to another target is within the limit; one to the same target changes nothing. *)
LEMMA MoveToWithin ==
  ASSUME NEW m, Limited(m), NEW absolute
  PROVE  /\ Limited(moveTo(m, absolute))
         /\ Within(moveTo(m, absolute)) \/ moveTo(m, absolute) = m
         /\ m.targetPos # absolute => Within(moveTo(m, absolute))
<1> DEFINE k == [m EXCEPT !.targetPos = absolute]
<1>1. DOMAIN k = Fields /\ k.maxSpeed = m.maxSpeed /\ k.cmin = m.cmin
  BY DEF Fields, Limited
<1>2. \/ m.targetPos = absolute /\ moveTo(m, absolute) = m
      \/ m.targetPos # absolute /\ moveTo(m, absolute) = computeNewSpeed(k)
  BY DEF moveTo
<1> HIDE DEF k
<1>3. Limited(k)
  BY <1>1 DEF Limited
<1> QED
  BY <1>2, <1>3, NewSpeedWithin

(* A step is made and the next is planned. *)
LEMMA RunWithin ==
  ASSUME NEW m, Limited(m)
  PROVE  Limited(run(m)) /\ Within(run(m))
<1> DEFINE k == [m EXCEPT !.currentPos = @ + m.direction]
<1>1. DOMAIN k = Fields /\ k.maxSpeed = m.maxSpeed /\ k.cmin = m.cmin
  BY DEF Fields, Limited
<1>2. run(m) = computeNewSpeed(k)
  BY DEF run, runSpeed
<1> HIDE DEF k
<1>3. Limited(k)
  BY <1>1 DEF Limited
<1> QED
  BY <1>2, <1>3, NewSpeedWithin

(* setAcceleration leaves the place and the maximum speed. *)
LEMMA SetAccelerationLimited ==
  ASSUME NEW m, Limited(m), NEW acceleration
  PROVE  /\ Limited(setAcceleration(m, acceleration))
         /\ SamePlace(m, setAcceleration(m, acceleration))
<1> DEFINE N == Truncate(m.n * m.acceleration, Abs(acceleration))
           C == FirstInterval[Abs(acceleration)]
           A == Abs(acceleration)
           k == [m EXCEPT !.n = N, !.c0 = C, !.acceleration = A]
<1>1. setAcceleration(m, acceleration) = m \/ setAcceleration(m, acceleration) = computeNewSpeed(k)
  BY DEF setAcceleration
<1> HIDE DEF N, C, A
<1>2. DOMAIN k = Fields /\ SamePlace(m, k) /\ k.maxSpeed = m.maxSpeed /\ k.cmin = m.cmin
  BY DEF SamePlace, Fields, Limited
<1> HIDE DEF k
<1>3. Limited(k)
  BY <1>2 DEF Limited
<1>4. Limited(computeNewSpeed(k)) /\ SamePlace(k, computeNewSpeed(k))
  BY <1>3, NewSpeedWithin
<1> QED
  BY <1>1, <1>2, <1>4 DEF SamePlace

(* setMaxSpeed sets the least interval with the speed. *)
LEMMA SetMaxSpeedLimited ==
  ASSUME NEW m, Limited(m), NEW speed \in Int
  PROVE  Limited(setMaxSpeed(m, speed)) /\ SamePlace(m, setMaxSpeed(m, speed))
<1> DEFINE top == Abs(speed)
           least == IF speed = 0 THEN Never ELSE Second \div Abs(speed)
           N == StepsToStop(m)
           limited == [m EXCEPT !.maxSpeed = top, !.cmin = least]
           k == [limited EXCEPT !.n = N]
<1>1. top \in Nat /\ least = IF top = 0 THEN Never ELSE Second \div top
  BY DEF Abs
<1>2. \/ setMaxSpeed(m, speed) = m
      \/ setMaxSpeed(m, speed) = limited
      \/ setMaxSpeed(m, speed) = computeNewSpeed(k)
  BY DEF setMaxSpeed
<1> HIDE DEF top, least, N
<1>3. /\ DOMAIN limited = Fields /\ SamePlace(m, limited)
      /\ limited.maxSpeed = top /\ limited.cmin = least
  BY DEF SamePlace, Fields, Limited
<1> HIDE DEF limited
<1>4. Limited(limited)
  BY <1>1, <1>3 DEF Limited
<1>5. /\ DOMAIN k = Fields /\ SamePlace(limited, k)
      /\ k.maxSpeed = limited.maxSpeed /\ k.cmin = limited.cmin
  BY <1>3 DEF SamePlace, Fields
<1> HIDE DEF k
<1>6. Limited(k) /\ SamePlace(m, k)
  BY <1>3, <1>4, <1>5 DEF Limited, SamePlace
<1>7. Limited(computeNewSpeed(k)) /\ SamePlace(k, computeNewSpeed(k))
  BY <1>6, NewSpeedWithin
<1> QED
  BY <1>2, <1>3, <1>4, <1>6, <1>7 DEF SamePlace

(***************************************************************************)
(* The maximum speed                                                       *)
(***************************************************************************)

(* On its way the motor is within the limit of the command in hand; the task rests only *)
(* at the target, so that a command that gives the same target again moves nothing.     *)
SpeedInv ==
  /\ Limited(stepper)
  /\ distanceToGo(stepper) = 0 \/ Within(stepper)
  /\ pc = "idle" => distanceToGo(stepper) = 0

(* Every step keeps to that. *)
LEMMA NextSpeedInv ==
  ASSUME SpeedInv, [Next]_vars
  PROVE  SpeedInv'
<1>1. ASSUME NEW motor, NEW steps, Limited(motor), SamePlace(stepper, motor), Start(motor, steps)
      PROVE  SpeedInv'
  <2>1. pc = "idle" /\ pc' = "moving" /\ stepper' = moveTo(motor, motor.currentPos + steps)
    BY <1>1 DEF Start, move
  <2>2. /\ Limited(stepper')
        /\ Within(stepper') \/ stepper' = motor
    BY <1>1, <2>1, MoveToWithin
  <2>3. distanceToGo(motor) = 0
    BY <1>1, <2>1 DEF SpeedInv, SamePlace, distanceToGo
  <2> QED
    BY <2>1, <2>2, <2>3 DEF SpeedInv
<1>2. ASSUME Limited(stepper'), Within(stepper'), pc' # "idle" PROVE SpeedInv'
  BY <1>2 DEF SpeedInv
<1>3. ASSUME stepper' = stepper, pc' = pc PROVE SpeedInv'
  BY <1>3 DEF SpeedInv
<1>4. ASSUME NEW steps, NEW speed \in Speeds, NEW acceleration,
             PlainMove(steps, speed, acceleration)
      PROVE  SpeedInv'
  <2>1. speed \in Int
    BY CommandAssumption DEF CommandAssumption
  <2> DEFINE fast == setMaxSpeed(stepper, speed)
             motor == setAcceleration(fast, acceleration)
  <2>2. Limited(fast) /\ SamePlace(stepper, fast)
    BY <2>1, SetMaxSpeedLimited DEF SpeedInv
  <2>3. Start(motor, steps)
    BY <1>4 DEF PlainMove
  <2> HIDE DEF fast
  <2>4. Limited(motor) /\ SamePlace(stepper, motor)
    BY <2>2, SetAccelerationLimited DEF SamePlace
  <2> HIDE DEF motor
  <2> QED
    BY <1>1, <2>3, <2>4
<1>5. ASSUME NEW steps, NEW speed \in TimedSpeeds, NEW acceleration,
             TimedMove(steps, speed, acceleration)
      PROVE  SpeedInv'
  <2>1. speed \in Int
    BY CommandAssumption DEF TimedSpeeds, CommandAssumption
  <2> DEFINE set == setAcceleration(stepper, acceleration)
             motor == setMaxSpeed(set, speed)
  <2>2. Limited(set) /\ SamePlace(stepper, set)
    BY SetAccelerationLimited DEF SpeedInv
  <2>3. Start(motor, steps)
    BY <1>5 DEF TimedMove
  <2> HIDE DEF set
  <2>4. Limited(motor) /\ SamePlace(stepper, motor)
    BY <2>1, <2>2, SetMaxSpeedLimited DEF SamePlace
  <2> HIDE DEF motor
  <2> QED
    BY <1>1, <2>3, <2>4
<1>6. ASSUME NEW steps, OtherMove(steps) PROVE SpeedInv'
  <2>1. Limited(stepper) /\ SamePlace(stepper, stepper) /\ Start(stepper, steps)
    BY <1>6 DEF OtherMove, SpeedInv, SamePlace
  <2> QED
    BY <1>1, <2>1
<1>7. CASE Turn
  <2>1. stepper' = run(stepper) /\ pc' = "moving"
    BY <1>7 DEF Turn, InLoop
  <2>2. Limited(run(stepper)) /\ Within(run(stepper))
    BY RunWithin DEF SpeedInv
  <2> QED
    BY <1>2, <2>1, <2>2
<1>8. CASE RunToPosition
  <2>1. stepper' = run(stepper) /\ pc' = "homing"
    BY <1>8 DEF RunToPosition
  <2>2. Limited(run(stepper)) /\ Within(run(stepper))
    BY RunWithin DEF SpeedInv
  <2> QED
    BY <1>2, <2>1, <2>2
<1>9. CASE StopNotified
  <2>1. stepper' = stop(stepper) /\ pc' = pc /\ pc = "moving" /\ distanceToGo(stepper) # 0
    BY <1>9 DEF StopNotified, InLoop
  <2> DEFINE target == stepper.currentPos + Sign(stepper.speed) * (StepsToStop(stepper) + 1)
  <2>2. stepper' = stepper \/ stepper' = moveTo(stepper, target)
    BY <2>1 DEF stop, move
  <2> HIDE DEF target
  <2>3. /\ Limited(moveTo(stepper, target))
        /\ Within(moveTo(stepper, target)) \/ moveTo(stepper, target) = stepper
    BY MoveToWithin DEF SpeedInv
  <2> QED
    BY <1>2, <1>3, <2>1, <2>2, <2>3
<1>10. CASE HomeNotified
  <2> DEFINE m == setCurrentPosition(stepper, 0)
  <2>1. /\ DOMAIN m = Fields /\ m.maxSpeed = stepper.maxSpeed /\ m.cmin = stepper.cmin
        /\ m.targetPos = 0
    BY DEF setCurrentPosition, SpeedInv, Limited, Fields
  <2>2. stepper' = moveTo(m, HomeSteps) /\ pc' = "homing"
    BY <1>10 DEF HomeNotified
  <2>3. HomeSteps # 0
    BY CommandAssumption DEF CommandAssumption
  <2> HIDE DEF m
  <2>4. Limited(m)
    BY <2>1 DEF SpeedInv, Limited
  <2> QED
    BY <1>2, <2>1, <2>2, <2>3, <2>4, MoveToWithin
<1>11. CASE HomeReached
  <2>1. stepper' = stepper /\ pc' = "moving"
    BY <1>11 DEF HomeReached
  <2> QED
    BY <2>1 DEF SpeedInv
<1>12. CASE Finish
  <2>1. stepper' = stepper /\ distanceToGo(stepper) = 0
    BY <1>12 DEF Finish
  <2> QED
    BY <2>1 DEF SpeedInv
<1>13. CASE UNCHANGED vars
  BY <1>3, <1>13 DEF vars
<1> QED
  BY <1>4, <1>5, <1>6, <1>7, <1>8, <1>9, <1>10, <1>11, <1>12, <1>13 DEF Next, Task

(* For all displacements, accelerations and speeds, 0 included: no step but the first of *)
(* a move is faster than the command allows, whatever stops and homings come between     *)
(* (AccelStepper.cpp, computeNewSpeed).                                                  *)
THEOREM SpeedIsKept == Spec => []KeepsMaxSpeed
<1>1. ASSUME SpeedInv PROVE KeepsMaxSpeed
  BY <1>1 DEF SpeedInv, Limited, Within, KeepsMaxSpeed
<1>2. ASSUME Init PROVE SpeedInv
  <2>1. stepper = Motor(BootSpeed, BootAcceleration)
    BY <1>2 DEF Init
  <2>2. /\ DOMAIN stepper = Fields /\ stepper.currentPos = 0 /\ stepper.targetPos = 0
        /\ stepper.maxSpeed = 11200 /\ stepper.cmin = Second \div 11200
    BY <2>1 DEF Motor, Fields, BootSpeed
  <2>3. distanceToGo(stepper) = 0
    BY <2>2 DEF distanceToGo
  <2> QED
    BY <2>2, <2>3 DEF SpeedInv, Limited
<1>3. ASSUME SpeedInv, [Next]_vars PROVE SpeedInv'
  BY <1>3, NextSpeedInv
<1> QED
  BY <1>1, <1>2, <1>3, PTL DEF Spec

(***************************************************************************)
(* Intervals                                                               *)
(***************************************************************************)

(* A set of natural numbers has a least one. *)
LEMMA LeastNumber ==
  ASSUME NEW T \in SUBSET Nat, T # {}
  PROVE  \E d \in T : \A e \in T : d <= e
<1>0. \E d \in T : \A e \in T : ~ (<<e, d>> \in OpToRel(<, Nat))
  BY NatLessThanWellFounded, WFMin
<1>1. PICK d \in T : \A e \in T : ~ (<<e, d>> \in OpToRel(<, Nat))
  BY <1>0
<1>2. OpToRel(<, Nat) = {pair \in Nat \X Nat : pair[1] < pair[2]}
  BY DEF OpToRel
<1>3. \A m, n \in Nat : m < n => <<m, n>> \in {pair \in Nat \X Nat : pair[1] < pair[2]}
  OBVIOUS
<1>4. ASSUME NEW e \in T PROVE d <= e
  <2>1. d \in Nat /\ e \in Nat /\ ~(e < d)
    BY <1>1, <1>2, <1>3
  <2> QED
    BY <2>1
<1> QED
  BY <1>4

(* A number below the square of top + 1 has a whole root up to top. *)
LEMMA RootExists ==
  ASSUME NEW x \in Nat, NEW top \in Nat, x < (top + 1) * (top + 1)
  PROVE  \E r \in 0 .. top : r * r <= x /\ x < (r + 1) * (r + 1)
<1> DEFINE Above == {r \in Nat : x < (r + 1) * (r + 1)}
<1>1. top \in Above
  OBVIOUS
<1>2. PICK r \in Above : \A e \in Above : r <= e
  BY <1>1, LeastNumber
<1>3. r \in Nat /\ x < (r + 1) * (r + 1) /\ r <= top
  BY <1>1, <1>2
<1>4. r * r <= x
  <2>1. CASE r = 0
    BY <2>1
  <2>2. CASE r > 0
    <3>1. r - 1 \in Nat /\ r - 1 \notin Above
      BY <1>2, <1>3, <2>2
    <3>2. ~(x < ((r - 1) + 1) * ((r - 1) + 1))
      BY <3>1
    <3>3. (r - 1) + 1 = r
      BY <1>3
    <3> QED
      BY <1>3, <3>2, <3>3
  <2> QED
    BY <1>3, <2>1, <2>2
<1> QED
  BY <1>3, <1>4

(* What Root chooses is one, and no less than any whose square fits. *)
LEMMA RootNat ==
  ASSUME NEW x \in Nat, x < (LargestRoot + 1) * (LargestRoot + 1),
         NEW low \in Nat, low * low <= x
  PROVE  Root(x) \in Nat /\ low <= Root(x)
<1>1. LargestRoot \in Nat
  BY SMT DEF LargestRoot
<1>2. \E r \in 0 .. LargestRoot : r * r <= x /\ x < (r + 1) * (r + 1)
  BY <1>1, RootExists
<1>3. /\ Root(x) \in 0 .. LargestRoot
      /\ x < (Root(x) + 1) * (Root(x) + 1)
  BY <1>2 DEF Root
<1> DEFINE r == Root(x)
<1>4. r \in Nat /\ x < (r + 1) * (r + 1)
  BY <1>1, <1>3
<1> HIDE DEF r
<1>5. ASSUME r + 1 <= low PROVE FALSE
  <2>1. (r + 1) * (r + 1) <= low * (r + 1) /\ low * (r + 1) <= low * low
    BY <1>4, <1>5
  <2> QED
    BY <1>4, <2>1
<1>6. low <= r
  BY <1>4, <1>5
<1> QED
  BY <1>4, <1>6 DEF r

(* The first interval of every acceleration is a number, and longer than one at the speed *)
(* set at start-up.                                                                       *)
LEMMA FirstIntervalNat ==
  ASSUME NEW a \in Accelerations
  PROVE  FirstInterval[a] \in Nat /\ FirstInterval[a] >= 90 /\ a \in Nat \ {0}
<1>1. a \in Nat /\ a >= 10 /\ a <= 100000
  BY AccelerationAssumption, SMT DEF AccelerationAssumption
<1> DEFINE x == (2000000000 \div a) * 10
<1>2. x \in Nat /\ x <= 2000000000 /\ x >= 196
  <2> DEFINE d == 2000000000 \div a
  <2>1. d \in Nat /\ d * a <= 2000000000 /\ 2000000000 < (d + 1) * a
    BY <1>1, SMT
  <2> HIDE DEF d
  <2>2. d * 10 <= d * a
    BY <1>1, <2>1, SMT
  <2>3. d >= 20
    <3>1. ASSUME d + 1 <= 20 PROVE FALSE
      <4>1. (d + 1) * a <= 20 * a
        BY <1>1, <2>1, <3>1, SMT
      <4>2. 20 * a <= 2000000
        BY <1>1, SMT
      <4>3. (d + 1) * a \in Int
        BY <1>1, <2>1, SMT
      <4> QED
        BY <1>1, <2>1, <4>1, <4>2, <4>3, SMT
    <3> QED
      BY <2>1, <3>1, SMT
  <2>4. d * 10 \in Nat /\ d * 10 <= 2000000000 /\ d * 10 >= 196
    BY <1>1, <2>1, <2>2, <2>3, SMT
  <2> QED
    BY <2>4 DEF d
<1> HIDE DEF x
<1>3. Root(x) \in Nat /\ 14 <= Root(x)
  <2>1. 14 \in Nat /\ 14 * 14 <= x /\ x < (LargestRoot + 1) * (LargestRoot + 1)
    BY <1>2, SMT DEF LargestRoot
  <2> QED
    BY <1>2, <2>1, RootNat
<1>4. FirstInterval[a] = (676 * Root(x)) \div 100
  BY SMT DEF FirstInterval, x
<1> QED
  BY <1>1, <1>3, <1>4, SMT

(***************************************************************************)
(* Steps to stop                                                           *)
(***************************************************************************)

(* Whole parts of quotients *)
LEMMA Quotient ==
  ASSUME NEW x \in Nat, NEW w \in Nat \ {0}
  PROVE  x \div w \in Nat /\ (x \div w) * w <= x /\ x < (x \div w + 1) * w
  OBVIOUS

(* The whole part is the most that fits. *)
LEMMA QuotientLeast ==
  ASSUME NEW x \in Nat, NEW w \in Nat \ {0}, NEW k \in Nat, k * w <= x
  PROVE  k <= x \div w
<1> DEFINE d == x \div w
<1>1. d \in Nat /\ x < (d + 1) * w
  BY Quotient
<1> HIDE DEF d
<1>2. ASSUME k >= d + 1 PROVE FALSE
  <2>1. (d + 1) * w <= k * w
    BY <1>1, <1>2
  <2> QED
    BY <1>1, <2>1
<1>3. k <= d
  BY <1>1, <1>2
<1> QED
  BY <1>3 DEF d

(* A larger number has no smaller part. *)
LEMMA QuotientMonotonic ==
  ASSUME NEW x \in Nat, NEW y \in Nat, x <= y, NEW w \in Nat \ {0}
  PROVE  x \div w <= y \div w
<1> DEFINE d == x \div w
<1>1. d \in Nat /\ d * w <= x
  BY Quotient
<1> HIDE DEF d
<1>2. d * w \in Nat /\ d * w <= y
  BY <1>1
<1>3. d <= y \div w
  BY <1>1, <1>2, QuotientLeast
<1> QED
  BY <1>3 DEF d

(* A larger divisor leaves no larger part. *)
LEMMA QuotientAntitone ==
  ASSUME NEW x \in Nat, NEW v \in Nat \ {0}, NEW w \in Nat, v <= w
  PROVE  x \div w <= x \div v
<1>0. w \in Nat \ {0}
  OBVIOUS
<1> DEFINE d == x \div w
<1>1. d \in Nat /\ d * w <= x
  BY <1>0, Quotient
<1> HIDE DEF d
<1>2. d * v <= d * w
  BY <1>1
<1>3. d * v \in Nat /\ d * v <= x
  BY <1>1, <1>2
<1>4. d <= x \div v
  BY <1>1, <1>3, QuotientLeast
<1> QED
  BY <1>4 DEF d

(* A speed within bounds has its square within theirs. *)
LEMMA SquareWithin ==
  ASSUME NEW s \in Int, NEW f \in Nat, -f <= s, s <= f
  PROVE  s * s \in Nat /\ s * s <= f * f
<1>1. ASSUME NEW a \in Nat, a <= f PROVE a * a \in Nat /\ a * a <= f * f
  <2>1. a * a <= a * f /\ a * f <= f * f
    BY <1>1
  <2> QED
    BY <2>1
<1>2. CASE s >= 0
  BY <1>1, <1>2
<1>3. CASE s < 0
  <2>1. (-s) \in Nat /\ -s <= f /\ (-s) * (-s) = s * s
    BY <1>3
  <2> QED
    BY <1>1, <2>1
<1> QED
  BY <1>2, <1>3

(* The highest speed at which every step takes at least q, the steps that a motor needs *)
(* to stop from it, and what makes q and the constants bounds of the speed.             *)
Fastest(q) == (Second * SpeedUnit) \div q
Weight(a) == 2 * a * SpeedUnit * SpeedUnit
Braked(q, a) == (Fastest(q) * Fastest(q)) \div Weight(a)
Tops == {Abs(speed) : speed \in Speeds \union TimedSpeeds \union {BootSpeed}}

Bounds(q) ==
  /\ q \in Nat \ {0}
  /\ \A a \in Accelerations : Braked(q, a) < MaxStop /\ Braked(q, a) <= MaxCoast
  /\ \A top \in Tops : top # 0 => q <= Second \div top

(* The fields of a stepper whose steps take at least q; st: it may have had a speed of 0. *)
Sound(m, q, st) ==
  /\ DOMAIN m = Fields
  /\ m.currentPos \in Int /\ m.targetPos \in Int /\ m.n \in Int /\ m.speed \in Int
  /\ m.acceleration \in Accelerations /\ m.c0 = FirstInterval[m.acceleration]
  /\ m.maxSpeed \in Tops
  /\ m.cmin = IF m.maxSpeed = 0 THEN Never ELSE Second \div m.maxSpeed
  /\ m.cn \in Int /\ m.direction \in {CW, CCW}
  /\ m.maxSpeed = 0 \/ m.cn = Never => st
  /\ -Fastest(q) <= m.speed /\ m.speed <= Fastest(q)
  /\ m.n < 0 => (-m.n) * Weight(m.acceleration) <= Fastest(q) * Fastest(q)

(* What else is true of it on its way: it turns in its direction unless it has no interval. *)
Going(m, q) ==
  distanceToGo(m) # 0 =>
    /\ m.stepInterval = m.cn
    /\ \/ m.cn = Never /\ m.speed = 0
       \/ m.cn >= q /\ Sign(m.speed) = m.direction
    /\ OnTheWay(m) \/ m.n <= 0

(* The numbers of which these speak. *)
LEMMA BoundNumbers ==
  ASSUME NEW q, Bounds(q), NEW a \in Accelerations
  PROVE  /\ Fastest(q) \in Nat /\ Fastest(q) >= 1 /\ Fastest(q) * Fastest(q) \in Nat
         /\ Weight(a) \in Nat \ {0} /\ Weight(a) = 200 * a /\ a \in Nat \ {0}
         /\ FirstInterval[a] \in Nat /\ q <= FirstInterval[a] /\ q \in Nat \ {0}
         /\ Braked(q, a) \in Nat /\ Braked(q, a) < MaxStop /\ Braked(q, a) <= MaxCoast
<1>1. a \in Nat \ {0} /\ FirstInterval[a] \in Nat /\ FirstInterval[a] >= 90
  BY FirstIntervalNat
<1>2. q \in Nat \ {0} /\ Braked(q, a) < MaxStop /\ Braked(q, a) <= MaxCoast
  BY DEF Bounds
<1>3. q <= 90
  <2>1. BootSpeed \in Tops
    BY DEF Tops, BootSpeed, Abs
  <2>2. q <= Second \div BootSpeed
    BY <2>1 DEF Bounds, BootSpeed
  <2> QED
    BY <1>2, <2>2, SMT DEF BootSpeed, Second
<1>4. Fastest(q) \in Nat /\ Fastest(q) >= 1
  <2>1. Second * SpeedUnit \in Nat /\ 1 * q <= Second * SpeedUnit
    BY <1>2, <1>3, SMT DEF Second, SpeedUnit
  <2> HIDE <1>3
  <2> DEFINE x == Second * SpeedUnit
  <2> HIDE DEF x
  <2>2. x \in Nat /\ 1 * q <= x
    BY <2>1 DEF x
  <2>3. x \div q \in Nat /\ 1 <= x \div q
    BY <1>2, <2>2, Quotient, QuotientLeast
  <2> QED
    BY <2>3 DEF Fastest, x
<1>5. Fastest(q) * Fastest(q) \in Nat
  BY <1>4
<1>6. Weight(a) \in Nat \ {0} /\ Weight(a) = 200 * a
  BY <1>1 DEF Weight, SpeedUnit
<1>7. Braked(q, a) \in Nat
  BY <1>5, <1>6, Quotient DEF Braked
<1> QED
  <2>1. q <= FirstInterval[a]
    BY <1>1, <1>2, <1>3
  <2> QED
    BY <1>1, <1>2, <1>4, <1>5, <1>6, <1>7, <2>1

(* A motor that is fast enough to need some steps to stop needs no more than the bound. *)
LEMMA StopSteps ==
  ASSUME NEW q, Bounds(q), NEW m, NEW st, Sound(m, q, st)
  PROVE  /\ StepsToStop(m) \in Nat /\ StepsToStop(m) <= Braked(q, m.acceleration)
         /\ StepsToStop(m) * Weight(m.acceleration) <= Fastest(q) * Fastest(q)
<1> DEFINE a == m.acceleration
           f == Fastest(q)
           w == Weight(a)
           s == m.speed
<1>1. s \in Int /\ -f <= s /\ s <= f /\ a \in Accelerations
  BY DEF Sound
<1>2. f \in Nat /\ w \in Nat \ {0}
  BY <1>1, BoundNumbers
<1>3. StepsToStop(m) = (s * s) \div w /\ Braked(q, a) = (f * f) \div w
  BY DEF StepsToStop, Braked, Weight
<1> HIDE DEF a, f, w, s
<1>4. s * s \in Nat /\ s * s <= f * f /\ f * f \in Nat
  BY <1>1, <1>2, SquareWithin
<1>5. (s * s) \div w \in Nat /\ ((s * s) \div w) * w <= s * s
  BY <1>2, <1>4, Quotient
<1>6. (s * s) \div w <= (f * f) \div w
  BY <1>2, <1>4, QuotientMonotonic
<1>7. ((s * s) \div w) * w <= f * f
  <2> DEFINE d == (s * s) \div w
  <2>1. d \in Nat /\ d * w <= s * s
    BY <1>5
  <2> HIDE DEF d
  <2>2. d * w \in Nat
    BY <1>2, <2>1
  <2>3. d * w <= f * f
    BY <1>4, <2>1, <2>2
  <2> QED
    BY <2>3 DEF d
<1> QED
  BY <1>3, <1>5, <1>6, <1>7 DEF a, f, w

(* The next step counter: a motor that turns away from its target brakes, and goes on *)
(* braking; no brake takes longer than from full speed.                               *)
LEMMA NextNFacts ==
  ASSUME NEW q, Bounds(q), NEW m, NEW st, Sound(m, q, st)
  PROVE  /\ NextN(m) \in Int
         /\ NextN(m) < 0 =>
              (-NextN(m)) * Weight(m.acceleration) <= Fastest(q) * Fastest(q)
         /\ distanceToGo(m) # 0 /\ ~OnTheWay(m) =>
              /\ NextN(m) <= 0 /\ -NextN(m) <= MaxCoast
              /\ m.n <= 0 => NextN(m) = m.n
<1> DEFINE a == m.acceleration
           w == Weight(a)
           f == Fastest(q)
           S == StepsToStop(m)
           n == NextN(m)
           d == distanceToGo(m)
<1>1. /\ m.n \in Int /\ a \in Accelerations /\ d \in Int
      /\ m.n < 0 => (-m.n) * w <= f * f
  BY DEF Sound, distanceToGo
<1>2. /\ w \in Nat \ {0} /\ f * f \in Nat /\ Braked(q, a) \in Nat /\ Braked(q, a) <= MaxCoast
      /\ Braked(q, a) = (f * f) \div w
  <2>1. Braked(q, a) = (f * f) \div w
    BY DEF Braked
  <2> QED
    BY <1>1, <2>1, BoundNumbers
<1>3. S \in Nat /\ S * w <= f * f /\ S <= Braked(q, a)
  BY StopSteps
<1>4. \/ d # 0 /\ m.n > 0 /\ (S >= Abs(d) \/ ~OnTheWay(m)) /\ n = -S
      \/ d # 0 /\ m.n < 0 /\ S < Abs(d) /\ OnTheWay(m) /\ n = -m.n
      \/ ~(d # 0 /\ m.n > 0 /\ ~OnTheWay(m)) /\ n = m.n
  BY DEF NextN, OnTheWay
<1> HIDE DEF a, w, f, S, n, d
<1>5. n \in Int
  BY <1>1, <1>3, <1>4
<1>6. ASSUME n < 0 PROVE (-n) * w <= f * f
  <2>1. n = -S \/ n = m.n
    BY <1>1, <1>3, <1>4, <1>6
  <2>2. CASE n = -S
    <3>1. -n = S
      BY <1>3, <2>2
    <3> QED
      BY <1>3, <3>1
  <2>3. CASE n = m.n
    BY <1>1, <1>6, <2>3
  <2> QED
    BY <2>1, <2>2, <2>3
<1>7. ASSUME d # 0, ~OnTheWay(m)
      PROVE  n <= 0 /\ -n <= MaxCoast /\ (m.n <= 0 => n = m.n)
  <2>1. n <= 0 /\ (m.n <= 0 => n = m.n)
    BY <1>1, <1>3, <1>4, <1>7
  <2>2. (-n) \in Nat /\ (-n) * w <= f * f
    <3>1. CASE n < 0
      BY <1>5, <1>6, <3>1
    <3>2. CASE n = 0
      BY <1>2, <3>2
    <3> QED
      BY <1>5, <2>1, <3>1, <3>2
  <2>3. -n <= (f * f) \div w
    BY <1>2, <2>2, QuotientLeast
  <2> QED
    BY <1>2, <1>5, <2>1, <2>3, CommandAssumption DEF CommandAssumption
<1> QED
  BY <1>5, <1>6, <1>7 DEF a, w, f, n, d

(* The next interval is one that the bound allows, or does not end. *)
LEMMA NextIntervalFacts ==
  ASSUME NEW q, Bounds(q), NEW m, NEW st, Sound(m, q, st), NEW n \in Int
  PROVE  \/ NextInterval(m, n) = Never /\ st
         \/ NextInterval(m, n) \in Nat /\ NextInterval(m, n) >= q
<1>1. m.acceleration \in Accelerations
  BY DEF Sound
<1>2. /\ q \in Nat \ {0} /\ m.c0 \in Nat /\ m.c0 >= q
  BY <1>1, BoundNumbers DEF Sound
<1>3. m.cn = Never => st
  BY DEF Sound
<1>4. \/ m.cmin = Never /\ st
      \/ m.cmin \in Nat /\ m.cmin >= q
  <2>1. m.maxSpeed \in Tops
    BY DEF Sound
  <2>2. CASE m.maxSpeed = 0
    <3>1. m.cmin = Never
      BY <2>2 DEF Sound
    <3>2. st
      BY <2>2 DEF Sound
    <3> QED
      BY <3>1, <3>2
  <2>3. CASE m.maxSpeed # 0
    <3>1. m.cmin = Second \div m.maxSpeed /\ q <= Second \div m.maxSpeed
      BY <2>1, <2>3 DEF Sound, Bounds
    <3>2. m.maxSpeed \in Nat \ {0}
      BY <2>1, <2>3, CommandAssumption DEF Tops, Abs, CommandAssumption, TimedSpeeds, BootSpeed
    <3>3. Second \div m.maxSpeed \in Nat
      BY <3>2, SMT DEF Second
    <3> QED
      BY <3>1, <3>3
  <2> QED
    BY <2>2, <2>3
<1> DEFINE c == m.cn - Truncate(2 * m.cn, 4 * n + 1)
<1>5. \/ n = 0 /\ NextInterval(m, n) = m.c0
      \/ Never \in {m.cn, m.cmin} /\ NextInterval(m, n) = Never
      \/ Never \notin {m.cn, m.cmin} /\ NextInterval(m, n) = Larger(c, m.cmin)
  BY DEF NextInterval
<1>6. c \in Int
  <2>1. m.cn \in Int
    BY DEF Sound
  <2> DEFINE u == 2 * m.cn
             v == 4 * n + 1
  <2>2. u \in Int /\ v \in Int /\ v # 0
    BY <2>1
  <2> HIDE DEF u, v
  <2>3. Abs(u) \in Nat /\ Abs(v) \in Nat \ {0} /\ Sign(u) \in Int /\ Sign(v) \in Int
    BY <2>2 DEF Abs, Sign
  <2>4. Abs(u) \div Abs(v) \in Nat
    BY <2>3, Quotient
  <2>5. Truncate(u, v) \in Int
    BY <2>3, <2>4 DEF Truncate
  <2> QED
    BY <2>1, <2>5 DEF u, v
<1> HIDE DEF c
<1>7. Larger(c, m.cmin) = c \/ Larger(c, m.cmin) = m.cmin
  BY DEF Larger
<1>8. ASSUME m.cmin \in Nat, m.cmin >= q
      PROVE  Larger(c, m.cmin) \in Nat /\ Larger(c, m.cmin) >= q
  BY <1>2, <1>6, <1>8 DEF Larger
<1> QED
  BY <1>2, <1>3, <1>4, <1>5, <1>8

(* A speed of an interval that the bound allows *)
LEMMA SpeedAtFacts ==
  ASSUME NEW q, Bounds(q), NEW a \in Accelerations, NEW interval \in Nat, interval >= q
  PROVE  SpeedAt(interval) \in Nat /\ 1 <= SpeedAt(interval) /\ SpeedAt(interval) <= Fastest(q)
<1>1. q \in Nat \ {0} /\ Fastest(q) \in Nat /\ Fastest(q) >= 1
  BY BoundNumbers
<1>2. interval \in Nat \ {0} /\ interval # Never
  BY <1>1 DEF Never
<1> DEFINE x == Second * SpeedUnit
<1>3. x \in Nat /\ Fastest(q) = x \div q
  BY DEF Second, SpeedUnit, Fastest
<1>4. SpeedAt(interval) = Larger(x \div interval, 1)
  BY <1>2 DEF SpeedAt
<1> HIDE DEF x
<1>5. x \div interval \in Nat /\ x \div interval <= x \div q
  BY <1>1, <1>2, <1>3, Quotient, QuotientAntitone
<1> QED
  BY <1>1, <1>3, <1>4, <1>5 DEF Larger

(***************************************************************************)
(* computeNewSpeed                                                         *)
(***************************************************************************)

(* What does not change, and the two ways in which it ends. *)
LEMMA NewSpeed ==
  ASSUME NEW m, DOMAIN m = Fields, NEW k, k = computeNewSpeed(m)
  PROVE  /\ DOMAIN k = Fields /\ SamePlace(m, k) /\ k.maxSpeed = m.maxSpeed
         /\ k.acceleration = m.acceleration /\ k.c0 = m.c0 /\ k.cmin = m.cmin
         /\ \/ /\ distanceToGo(m) = 0 /\ StepsToStop(m) <= 1
               /\ k.n = 0 /\ k.cn = m.cn /\ k.direction = m.direction
               /\ k.stepInterval = 0 /\ k.speed = 0
            \/ /\ k.n = NextN(m) + 1 /\ k.cn = NextInterval(m, NextN(m))
               /\ k.direction = IF NextN(m) # 0 THEN m.direction
                                ELSE IF distanceToGo(m) > 0 THEN CW ELSE CCW
               /\ k.stepInterval = k.cn /\ k.speed = k.direction * SpeedAt(k.cn)
<1> DEFINE n == NextN(m)
           cn == NextInterval(m, n)
           direction == IF n # 0 THEN m.direction ELSE IF distanceToGo(m) > 0 THEN CW ELSE CCW
           speed == direction * SpeedAt(cn)
           still == [m EXCEPT !.stepInterval = 0, !.speed = 0, !.n = 0]
           moving == [m EXCEPT !.n = n + 1, !.cn = cn, !.direction = direction,
                               !.stepInterval = cn, !.speed = speed]
<1>1. \/ distanceToGo(m) = 0 /\ StepsToStop(m) <= 1 /\ k = still
      \/ k = moving
  BY DEF computeNewSpeed
<1> DEFINE s == still
           v == moving
<1>2. /\ DOMAIN s = Fields /\ SamePlace(m, s) /\ s.maxSpeed = m.maxSpeed
      /\ s.acceleration = m.acceleration /\ s.c0 = m.c0 /\ s.cmin = m.cmin
      /\ s.n = 0 /\ s.cn = m.cn /\ s.direction = m.direction
      /\ s.stepInterval = 0 /\ s.speed = 0
  BY DEF Fields, SamePlace
<1> HIDE DEF n, cn, direction, speed
<1>3. /\ DOMAIN v = Fields /\ SamePlace(m, v) /\ v.maxSpeed = m.maxSpeed
      /\ v.acceleration = m.acceleration /\ v.c0 = m.c0 /\ v.cmin = m.cmin
      /\ v.n = n + 1 /\ v.cn = cn /\ v.direction = direction
      /\ v.stepInterval = cn /\ v.speed = speed
  BY DEF Fields, SamePlace
<1>4. \/ distanceToGo(m) = 0 /\ StepsToStop(m) <= 1 /\ k = s
      \/ k = v
  BY <1>1
<1> HIDE DEF s, v
<1>5. speed = direction * SpeedAt(cn) /\ cn = NextInterval(m, n)
  BY DEF speed, cn
<1>6. direction = IF n # 0 THEN m.direction ELSE IF distanceToGo(m) > 0 THEN CW ELSE CCW
  BY DEF direction
<1>7. n = NextN(m)
  BY DEF n
<1> QED
  BY <1>2, <1>3, <1>4, <1>5, <1>6, <1>7

(* It leaves the stepper sound, and on its way. *)
LEMMA NewSpeedSound ==
  ASSUME NEW q, Bounds(q), NEW m, NEW st, Sound(m, q, st), NEW k, k = computeNewSpeed(m)
  PROVE  Sound(k, q, st) /\ Going(k, q)
<1> DEFINE n == NextN(m)
           w == Weight(m.acceleration)
           f == Fastest(q)
<1>1. /\ DOMAIN k = Fields /\ SamePlace(m, k) /\ k.maxSpeed = m.maxSpeed
      /\ k.acceleration = m.acceleration /\ k.c0 = m.c0 /\ k.cmin = m.cmin
      /\ \/ /\ distanceToGo(m) = 0
            /\ k.n = 0 /\ k.cn = m.cn /\ k.direction = m.direction
            /\ k.stepInterval = 0 /\ k.speed = 0
         \/ /\ k.n = n + 1 /\ k.cn = NextInterval(m, n)
            /\ k.direction = IF n # 0 THEN m.direction
                             ELSE IF distanceToGo(m) > 0 THEN CW ELSE CCW
            /\ k.stepInterval = k.cn /\ k.speed = k.direction * SpeedAt(k.cn)
  BY NewSpeed DEF Sound
<1>2. distanceToGo(k) = distanceToGo(m) /\ distanceToGo(m) \in Int
  BY <1>1 DEF SamePlace, distanceToGo, Sound
<1>3. /\ n \in Int /\ (n < 0 => (-n) * w <= f * f)
      /\ distanceToGo(m) # 0 /\ ~OnTheWay(m) => n <= 0
  BY NextNFacts
<1>4. w \in Nat \ {0} /\ f \in Nat /\ f >= 1
  BY BoundNumbers DEF Sound
<1>5. k.direction \in {CW, CCW}
  BY <1>1 DEF Sound
<1>6. \/ k.cn = Never /\ st
      \/ k.cn \in Nat /\ k.cn >= q
      \/ k.cn = m.cn /\ distanceToGo(m) = 0 /\ k.speed = 0
  BY <1>1, <1>3, NextIntervalFacts
<1>7. k.cn \in Int /\ (k.maxSpeed = 0 \/ k.cn = Never => st)
  BY <1>1, <1>6 DEF Sound, Never
<1>8. ASSUME k.cn \in Nat, k.cn >= q, k.speed = k.direction * SpeedAt(k.cn)
      PROVE  /\ k.speed \in Int /\ -f <= k.speed /\ k.speed <= f
             /\ Sign(k.speed) = k.direction
  <2>1. SpeedAt(k.cn) \in Nat /\ 1 <= SpeedAt(k.cn) /\ SpeedAt(k.cn) <= f
    BY <1>8, SpeedAtFacts DEF Sound
  <2> DEFINE s == SpeedAt(k.cn)
  <2> HIDE DEF s, f
  <2>2. s \in Nat /\ 1 <= s /\ s <= f
    BY <2>1 DEF s
  <2>3. k.speed = s \/ k.speed = -s
    BY <1>5, <1>8, <2>2 DEF s, CW, CCW
  <2>4. k.direction = 1 => k.speed = s
    BY <1>8, <2>2 DEF s
  <2>5. k.direction = -1 => k.speed = -s
    BY <1>8, <2>2 DEF s
  <2> QED
    BY <1>4, <1>5, <2>2, <2>3, <2>4, <2>5 DEF Sign, CW, CCW
<1>9. k.cn = Never /\ k.speed = k.direction * SpeedAt(k.cn) => k.speed = 0
  BY <1>5 DEF SpeedAt, CW, CCW
<1>10. k.speed \in Int /\ -f <= k.speed /\ k.speed <= f
  <2>1. CASE k.speed = 0
    BY <1>4, <2>1
  <2>2. CASE k.speed # 0
    <3>1. k.cn \in Nat /\ k.cn >= q /\ k.speed = k.direction * SpeedAt(k.cn)
      BY <1>1, <1>6, <1>9, <2>2
    <3> QED
      BY <1>8, <3>1
  <2> QED
    BY <2>1, <2>2
<1> HIDE DEF n, w, f
<1>11. k.n \in Int /\ (k.n < 0 => (-k.n) * w <= f * f)
  <2>1. k.n = 0 \/ k.n = n + 1
    BY <1>1
  <2>2. ASSUME k.n = n + 1, k.n < 0 PROVE (-k.n) * w <= f * f
    <3>1. n < 0 /\ (-n) * w <= f * f /\ (-k.n) * w = (-n) * w - w
      BY <1>3, <1>4, <2>2
    <3>2. (-n) * w \in Int /\ f * f \in Int
      BY <1>3, <1>4
    <3> QED
      BY <1>4, <3>1, <3>2
  <2> QED
    BY <1>3, <2>1, <2>2
<1>12. Sound(k, q, st)
  BY <1>1, <1>5, <1>7, <1>10, <1>11 DEF Sound, SamePlace, w, f
<1>13. ASSUME distanceToGo(k) # 0 PROVE OnTheWay(k) \/ k.n <= 0
  <2>1. /\ k.n = n + 1
        /\ k.direction = IF n # 0 THEN m.direction
                         ELSE IF distanceToGo(m) > 0 THEN CW ELSE CCW
    BY <1>1, <1>2, <1>13
  <2>2. CASE n < 0
    BY <1>3, <2>1, <2>2
  <2>3. CASE n = 0
    BY <1>2, <1>13, <2>1, <2>3 DEF OnTheWay, Sign, CW, CCW
  <2>4. CASE n > 0
    <3>1. OnTheWay(m) /\ k.direction = m.direction
      BY <1>2, <1>3, <1>13, <2>1, <2>4
    <3> QED
      BY <1>2, <3>1 DEF OnTheWay
  <2> QED
    BY <1>3, <2>2, <2>3, <2>4
<1>14. Going(k, q)
  <2> SUFFICES ASSUME distanceToGo(k) # 0
               PROVE  /\ k.stepInterval = k.cn
                      /\ \/ k.cn = Never /\ k.speed = 0
                         \/ k.cn >= q /\ Sign(k.speed) = k.direction
                      /\ OnTheWay(k) \/ k.n <= 0
    BY DEF Going
  <2>1. /\ k.stepInterval = k.cn /\ k.speed = k.direction * SpeedAt(k.cn)
        /\ \/ k.cn = Never
           \/ k.cn \in Nat /\ k.cn >= q
    BY <1>1, <1>2, <1>6
  <2> QED
    BY <1>8, <1>9, <1>13, <2>1
<1> QED
  BY <1>12, <1>14

(* It steers: a motor on its way stays so; one that is not turns, or brakes, a step less *)
(* each time, and then turns.                                                            *)
LEMMA NewSpeedSteers ==
  ASSUME NEW q, Bounds(q), NEW m, NEW st, Sound(m, q, st), distanceToGo(m) # 0,
         NEW k, k = computeNewSpeed(m)
  PROVE  /\ OnTheWay(m) => OnTheWay(k)
         /\ ~OnTheWay(m) =>
              \/ OnTheWay(k)
              \/ k.n <= 0 /\ 1 - k.n <= MaxCoast
         /\ ~OnTheWay(m) /\ m.n <= 0 =>
              \/ m.n = 0 /\ OnTheWay(k)
              \/ m.n < 0 /\ ~OnTheWay(k) /\ k.n = m.n + 1
<1> DEFINE n == NextN(m)
<1>1. /\ SamePlace(m, k) /\ k.n = n + 1
      /\ k.direction = IF n # 0 THEN m.direction
                       ELSE IF distanceToGo(m) > 0 THEN CW ELSE CCW
  BY NewSpeed DEF Sound
<1>2. distanceToGo(k) = distanceToGo(m) /\ distanceToGo(m) \in Int
  BY <1>1 DEF SamePlace, distanceToGo, Sound
<1>3. /\ n \in Int
      /\ ~OnTheWay(m) => n <= 0 /\ -n <= MaxCoast /\ (m.n <= 0 => n = m.n)
  BY NextNFacts
<1>4. MaxCoast \in Nat /\ m.n \in Int
  BY CommandAssumption DEF CommandAssumption, Sound
<1> HIDE DEF n
<1>5. n = 0 => OnTheWay(k)
  BY <1>1, <1>2 DEF OnTheWay, Sign, CW, CCW
<1>6. n # 0 => (OnTheWay(k) <=> OnTheWay(m))
  BY <1>1, <1>2 DEF OnTheWay
<1> QED
  BY <1>1, <1>3, <1>4, <1>5, <1>6

(***************************************************************************)
(* The methods keep a stepper sound                                        *)
(***************************************************************************)

(* A stepper that differs in its place only is as sound. *)
LEMMA PlaceSound ==
  ASSUME NEW q, NEW m, NEW st, Sound(m, q, st), NEW k, DOMAIN k = Fields,
         k.currentPos \in Int, k.targetPos \in Int,
         k.n = m.n, k.speed = m.speed, k.acceleration = m.acceleration, k.c0 = m.c0,
         k.maxSpeed = m.maxSpeed, k.cmin = m.cmin, k.cn = m.cn, k.direction = m.direction
  PROVE  Sound(k, q, st)
  BY DEF Sound

(* moveTo changes nothing, or gives the stepper its target and plans the way there. *)
LEMMA MoveToSound ==
  ASSUME NEW q, Bounds(q), NEW m, NEW st, Sound(m, q, st), NEW absolute \in Int,
         NEW k, k = moveTo(m, absolute)
  PROVE  /\ Sound(k, q, st) /\ k.currentPos = m.currentPos /\ k.targetPos = absolute
         /\ k = m \/ Going(k, q)
         /\ absolute # m.targetPos =>
              \E j : /\ Sound(j, q, st) /\ k = computeNewSpeed(j)
                     /\ j.currentPos = m.currentPos /\ j.targetPos = absolute
                     /\ j.n = m.n /\ j.direction = m.direction
                     /\ j.speed = m.speed /\ Going(k, q)
<1>1. CASE absolute = m.targetPos
  BY <1>1 DEF moveTo
<1>2. CASE absolute # m.targetPos
  <2> DEFINE j == [m EXCEPT !.targetPos = absolute]
  <2>1. DOMAIN m = Fields /\ m.currentPos \in Int
    BY DEF Sound
  <2>2. /\ DOMAIN j = Fields /\ j.currentPos = m.currentPos /\ j.targetPos = absolute
        /\ j.n = m.n /\ j.speed = m.speed /\ j.acceleration = m.acceleration /\ j.c0 = m.c0
        /\ j.maxSpeed = m.maxSpeed /\ j.cmin = m.cmin /\ j.cn = m.cn /\ j.direction = m.direction
    BY <2>1 DEF Fields
  <2>3. k = computeNewSpeed(j)
    BY <1>2 DEF moveTo
  <2> HIDE DEF j
  <2>4. Sound(j, q, st)
    BY <2>1, <2>2, PlaceSound
  <2>5. Sound(k, q, st) /\ Going(k, q) /\ SamePlace(j, k)
    BY <2>2, <2>3, <2>4, NewSpeedSound, NewSpeed
  <2> QED
    BY <1>2, <2>2, <2>3, <2>4, <2>5 DEF SamePlace
<1> QED
  BY <1>1, <1>2

(* A step in the direction of the motor *)
LEMMA RunSound ==
  ASSUME NEW q, Bounds(q), NEW m, NEW st, Sound(m, q, st), NEW k, k = run(m)
  PROVE  /\ Sound(k, q, st) /\ Going(k, q)
         /\ k.currentPos = m.currentPos + m.direction /\ k.targetPos = m.targetPos
         /\ \E j : /\ Sound(j, q, st) /\ k = computeNewSpeed(j)
                   /\ j.currentPos = m.currentPos + m.direction /\ j.targetPos = m.targetPos
                   /\ j.n = m.n /\ j.direction = m.direction
<1> DEFINE j == [m EXCEPT !.currentPos = @ + m.direction]
<1>1. DOMAIN m = Fields /\ m.currentPos + m.direction \in Int /\ m.targetPos \in Int
  BY DEF Sound, CW, CCW
<1>2. /\ DOMAIN j = Fields /\ j.currentPos = m.currentPos + m.direction
      /\ j.targetPos = m.targetPos
      /\ j.n = m.n /\ j.speed = m.speed /\ j.acceleration = m.acceleration /\ j.c0 = m.c0
      /\ j.maxSpeed = m.maxSpeed /\ j.cmin = m.cmin /\ j.cn = m.cn /\ j.direction = m.direction
  BY <1>1 DEF Fields
<1>3. k = computeNewSpeed(j)
  BY DEF run, runSpeed
<1> HIDE DEF j
<1>4. Sound(j, q, st)
  BY <1>1, <1>2, PlaceSound
<1>5. Sound(k, q, st) /\ Going(k, q) /\ SamePlace(j, k)
  BY <1>2, <1>3, <1>4, NewSpeedSound, NewSpeed
<1> QED
  BY <1>2, <1>3, <1>4, <1>5 DEF SamePlace

(* A quotient scaled back is no larger than what was divided. *)
LEMMA TruncatedBrake ==
  ASSUME NEW n \in Int, n < 0, NEW a \in Nat, NEW b \in Nat \ {0}
  PROVE  /\ Truncate(n * a, b) \in Int /\ Truncate(n * a, b) <= 0
         /\ (-Truncate(n * a, b)) * b <= (-n) * a
<1> DEFINE p == (-n) * a
<1>1. p \in Nat
  BY SMT
<1>2. n * a = -p
  BY SMT
<1> HIDE DEF p
<1>3. p \div b \in Nat /\ (p \div b) * b <= p
  BY <1>1, Quotient
<1> DEFINE d == p \div b
<1>4. d \in Nat /\ d * b <= p
  BY <1>3
<1>5. Abs(-p) = p /\ Abs(b) = b /\ Sign(b) = 1
  BY <1>1 DEF Abs, Sign
<1>6. Sign(-p) = IF p = 0 THEN 0 ELSE -1
  BY <1>1 DEF Sign
<1>7. Truncate(n * a, b) = Sign(-p) * 1 * d
  BY <1>2, <1>5 DEF Truncate, d
<1> HIDE DEF d
<1>8. CASE p = 0
  <2>1. Truncate(n * a, b) = 0
    BY <1>4, <1>6, <1>7, <1>8
  <2> QED
    BY <1>1, <2>1 DEF p
<1>9. CASE p # 0
  <2>1. Truncate(n * a, b) = -d
    BY <1>4, <1>6, <1>7, <1>9
  <2>2. -(-d) = d
    BY <1>4
  <2> QED
    BY <1>4, <2>1, <2>2 DEF p
<1> QED
  BY <1>8, <1>9

(* Truncation of a count that is not negative *)
LEMMA TruncatedCount ==
  ASSUME NEW n \in Nat, NEW a \in Nat, NEW b \in Nat \ {0}
  PROVE  Truncate(n * a, b) \in Nat
<1> DEFINE p == n * a
<1>1. p \in Nat
  OBVIOUS
<1> HIDE DEF p
<1>2. p \div b \in Nat
  BY <1>1, Quotient
<1> DEFINE d == p \div b
<1>3. d \in Nat
  BY <1>2
<1>4. Abs(p) = p /\ Abs(b) = b /\ Sign(b) = 1 /\ Sign(p) \in {0, 1}
  BY <1>1 DEF Abs, Sign
<1>5. Truncate(p, b) = Sign(p) * 1 * d
  BY <1>4 DEF Truncate, d
<1> HIDE DEF d
<1>6. Truncate(p, b) \in Nat
  BY <1>3, <1>4, <1>5
<1> QED
  BY <1>6 DEF p

(* setAcceleration counts the steps of the brake anew, and lets none of them take longer. *)
LEMMA SetAccelerationSound ==
  ASSUME NEW q, Bounds(q), NEW m, NEW st, Sound(m, q, st),
         NEW acceleration \in Given, NEW k, k = setAcceleration(m, acceleration)
  PROVE  Sound(k, q, st) /\ SamePlace(m, k) /\ k.maxSpeed = m.maxSpeed
<1> DEFINE N == Truncate(m.n * m.acceleration, Abs(acceleration))
           C == FirstInterval[Abs(acceleration)]
           A == Abs(acceleration)
           j == [m EXCEPT !.n = N, !.c0 = C, !.acceleration = A]
           f == Fastest(q)
<1>1. CASE acceleration = 0 \/ m.acceleration = Abs(acceleration)
  BY <1>1 DEF setAcceleration, SamePlace
<1>2. CASE ~(acceleration = 0 \/ m.acceleration = Abs(acceleration))
  <2>1. PICK b \in Accelerations : acceleration = b \/ acceleration = -b
    BY <1>2 DEF Given
  <2>2. A = b /\ A \in Accelerations /\ A \in Nat \ {0}
    BY <2>1, FirstIntervalNat DEF Abs
  <2>3. /\ m.acceleration \in Accelerations /\ m.acceleration \in Nat \ {0} /\ m.n \in Int
        /\ DOMAIN m = Fields
    BY FirstIntervalNat DEF Sound
  <2>4. k = computeNewSpeed(j)
    BY <1>2 DEF setAcceleration
  <2>5. N = Truncate(m.n * m.acceleration, A) /\ C = FirstInterval[A]
    OBVIOUS
  <2> HIDE DEF A, N, C
  <2>6. Weight(A) = 200 * A /\ Weight(m.acceleration) = 200 * m.acceleration
    BY <2>2, <2>3, BoundNumbers
  <2>7. N \in Int /\ (N < 0 => (-N) * Weight(A) <= f * f)
    <3>1. CASE m.n < 0
      <4>1. (-m.n) * Weight(m.acceleration) <= f * f
        BY <3>1 DEF Sound
      <4>2. N \in Int /\ N <= 0 /\ (-N) * A <= (-m.n) * m.acceleration
        BY <2>2, <2>3, <2>5, <3>1, TruncatedBrake
      <4> HIDE DEF f
      <4>3. f * f \in Int
        BY <2>2, BoundNumbers DEF f
      <4> DEFINE x == (-N) * A
                 y == (-m.n) * m.acceleration
      <4>4. x \in Int /\ y \in Int /\ x <= y
        BY <2>2, <2>3, <4>2
      <4>5. (-N) * (200 * A) = 200 * x /\ (-m.n) * (200 * m.acceleration) = 200 * y
        BY <2>2, <2>3, <4>2, SMT
      <4> HIDE DEF x, y
      <4> QED
        BY <2>6, <4>1, <4>2, <4>3, <4>4, <4>5
    <3>2. CASE m.n >= 0
      BY <2>2, <2>3, <2>5, <3>2, TruncatedCount
    <3> QED
      BY <2>3, <3>1, <3>2
  <2>8. /\ DOMAIN j = Fields /\ SamePlace(m, j) /\ j.n = N /\ j.c0 = C /\ j.acceleration = A
        /\ j.speed = m.speed /\ j.maxSpeed = m.maxSpeed /\ j.cmin = m.cmin
        /\ j.cn = m.cn /\ j.direction = m.direction
    BY <2>3 DEF Fields, SamePlace
  <2> HIDE DEF j
  <2>9. Sound(j, q, st)
    BY <2>2, <2>5, <2>7, <2>8 DEF Sound, SamePlace
  <2>10. Sound(k, q, st)
    BY <2>4, <2>9, NewSpeedSound
  <2>11. SamePlace(j, k) /\ k.maxSpeed = j.maxSpeed
    BY <2>4, <2>8, NewSpeed
  <2> QED
    BY <2>8, <2>10, <2>11 DEF SamePlace
<1> QED
  BY <1>1, <1>2

(* setMaxSpeed, after which the stepper may have had a speed of 0 *)
LEMMA SetMaxSpeedSound ==
  ASSUME NEW q, Bounds(q), NEW m, NEW st \in BOOLEAN, Sound(m, q, st),
         NEW speed \in Speeds \union TimedSpeeds,
         NEW k, k = setMaxSpeed(m, speed)
  PROVE  /\ Sound(k, q, st \/ k.maxSpeed = 0) /\ SamePlace(m, k)
         /\ k.maxSpeed = Abs(speed)
<1> DEFINE top == Abs(speed)
           least == IF speed = 0 THEN Never ELSE Second \div Abs(speed)
           N == StepsToStop(m)
           limited == [m EXCEPT !.maxSpeed = top, !.cmin = least]
           j == [limited EXCEPT !.n = N]
           after == st \/ top = 0
<1>1. speed \in Int /\ top \in Tops
  BY CommandAssumption DEF CommandAssumption, TimedSpeeds, Tops
<1>2. top \in Nat /\ least = IF top = 0 THEN Never ELSE Second \div top
  BY <1>1 DEF Abs
<1>3. \/ top = m.maxSpeed /\ k = m
      \/ k = limited
      \/ k = computeNewSpeed(j)
  BY DEF setMaxSpeed
<1>4. N \in Nat /\ DOMAIN m = Fields
  BY StopSteps DEF Sound
<1> HIDE DEF N, least
<1>5. /\ DOMAIN limited = Fields /\ SamePlace(m, limited) /\ limited.n = m.n /\ limited.c0 = m.c0
      /\ limited.acceleration = m.acceleration /\ limited.speed = m.speed
      /\ limited.maxSpeed = top /\ limited.cmin = least
      /\ limited.cn = m.cn /\ limited.direction = m.direction
  BY <1>4 DEF Fields, SamePlace
<1> HIDE DEF limited
<1>6. Sound(limited, q, after)
  BY <1>1, <1>2, <1>5 DEF Sound, SamePlace
<1>7. /\ DOMAIN j = Fields /\ SamePlace(limited, j) /\ j.n = N /\ j.c0 = limited.c0
      /\ j.acceleration = limited.acceleration /\ j.speed = limited.speed
      /\ j.maxSpeed = limited.maxSpeed /\ j.cmin = limited.cmin
      /\ j.cn = limited.cn /\ j.direction = limited.direction
  BY <1>5 DEF Fields, SamePlace
<1> HIDE DEF j
<1>8. Sound(j, q, after)
  BY <1>4, <1>6, <1>7 DEF Sound, SamePlace
<1> HIDE DEF after, top
<1>9. CASE top = m.maxSpeed /\ k = m
  BY <1>9 DEF Sound, after, SamePlace, top
<1>10. CASE k = limited
  BY <1>5, <1>6, <1>10 DEF after, top
<1>11. CASE k = computeNewSpeed(j)
  <2>1. Sound(k, q, after)
    BY <1>8, <1>11, NewSpeedSound
  <2>2. SamePlace(j, k) /\ k.maxSpeed = j.maxSpeed
    BY <1>7, <1>11, NewSpeed
  <2> QED
    BY <1>5, <1>7, <2>1, <2>2 DEF after, top, SamePlace
<1> QED
  BY <1>3, <1>9, <1>10, <1>11

(* stop() leaves a stepper as it is that has no interval, and gives any other that is on *)
(* its way or brakes a target ahead of it, no further than MaxStop, and the way there.   *)
LEMMA StopSound ==
  ASSUME NEW q, Bounds(q), NEW m, NEW st, Sound(m, q, st), Going(m, q), distanceToGo(m) # 0,
         NEW k, k = stop(m)
  PROVE  /\ Sound(k, q, st) /\ Going(k, q) /\ k.currentPos = m.currentPos
         /\ \/ ~Turns(m) /\ k = m
            \/ /\ Turns(m)
               /\ \E s \in 1 .. MaxStop : k.targetPos = m.currentPos + m.direction * s
               /\ OnTheWay(k)
<1> DEFINE S == StepsToStop(m)
           target == m.currentPos + Sign(m.speed) * (S + 1)
<1>1. /\ m.stepInterval = m.cn /\ m.cn \in Int /\ m.speed \in Int /\ q \in Nat \ {0}
      /\ \/ m.cn = Never /\ m.speed = 0
         \/ m.cn >= q /\ Sign(m.speed) = m.direction
  BY DEF Going, Sound, Bounds
<1>2. /\ m.currentPos \in Int /\ m.targetPos \in Int /\ m.acceleration \in Accelerations
      /\ m.direction \in {1, -1}
  BY DEF Sound, CW, CCW
<1>3. S \in Nat /\ S + 1 \in 1 .. MaxStop
  <2>1. /\ S \in Nat /\ S <= Braked(q, m.acceleration)
        /\ Braked(q, m.acceleration) \in Nat /\ Braked(q, m.acceleration) < MaxStop
    BY <1>2, StopSteps, BoundNumbers
  <2>2. MaxStop \in Nat
    BY CommandAssumption DEF CommandAssumption
  <2> HIDE DEF S
  <2> QED
    BY <2>1, <2>2
<1>4. CASE m.cn = Never /\ m.speed = 0
  BY <1>1, <1>4 DEF stop, Turns
<1>5. CASE m.cn >= q /\ Sign(m.speed) = m.direction
  <2>1. Turns(m) /\ m.speed # 0
    BY <1>1, <1>2, <1>5 DEF Turns, Never, Sign
  <2>2. k = moveTo(m, target)
    BY <2>1 DEF stop, move
  <2> HIDE DEF S
  <2>3. target = m.currentPos + m.direction * (S + 1) /\ target \in Int
    BY <1>2, <1>3, <1>5
  <2> HIDE DEF target
  <2>4. /\ Sound(k, q, st) /\ k.currentPos = m.currentPos /\ k.targetPos = target
        /\ k = m \/ Going(k, q)
    BY <2>2, <2>3, MoveToSound
  <2>5. target - m.currentPos # 0 /\ Sign(target - m.currentPos) = m.direction
    BY <1>2, <1>3, <2>3 DEF Sign
  <2>6. OnTheWay(k)
    <3>1. CASE target = m.targetPos
      <4>1. k = m
        BY <2>2, <3>1 DEF moveTo
      <4> QED
        BY <2>4, <2>5, <4>1 DEF OnTheWay, distanceToGo
    <3>2. CASE target # m.targetPos
      <4>1. PICK j : /\ Sound(j, q, st) /\ k = computeNewSpeed(j)
                     /\ j.currentPos = m.currentPos /\ j.targetPos = target
                     /\ j.n = m.n /\ j.direction = m.direction
        BY <2>2, <2>3, <3>2, MoveToSound
      <4>2. distanceToGo(j) # 0 /\ OnTheWay(j)
        BY <2>5, <4>1 DEF OnTheWay, distanceToGo
      <4> QED
        BY <4>1, <4>2, NewSpeedSteers
    <3> QED
      BY <3>1, <3>2
  <2> QED
    BY <1>3, <2>1, <2>3, <2>4, <2>6
<1> QED
  BY <1>1, <1>4, <1>5

(* Homing: at step 0 and still, with a target ahead *)
LEMMA HomeSound ==
  ASSUME NEW q, Bounds(q), NEW m, NEW st, Sound(m, q, st),
         NEW k, k = moveTo(setCurrentPosition(m, 0), HomeSteps)
  PROVE  Sound(k, q, st) /\ Going(k, q) /\ k.currentPos = 0 /\ k.targetPos = HomeSteps
<1> DEFINE h == setCurrentPosition(m, 0)
<1>1. DOMAIN m = Fields
  BY DEF Sound
<1>2. /\ DOMAIN h = Fields /\ h.currentPos = 0 /\ h.targetPos = 0 /\ h.n = 0 /\ h.speed = 0
      /\ h.acceleration = m.acceleration /\ h.c0 = m.c0 /\ h.maxSpeed = m.maxSpeed
      /\ h.cmin = m.cmin /\ h.cn = m.cn /\ h.direction = m.direction
  BY <1>1 DEF setCurrentPosition, Fields
<1>3. Fastest(q) \in Nat
  BY BoundNumbers DEF Sound
<1> HIDE DEF h
<1>4. Sound(h, q, st)
  BY <1>2, <1>3 DEF Sound
<1>5. HomeSteps \in Int /\ HomeSteps # 0
  BY CommandAssumption DEF CommandAssumption
<1>6. k = moveTo(h, HomeSteps)
  BY DEF h
<1> QED
  BY <1>2, <1>4, <1>5, <1>6, MoveToSound

(***************************************************************************)
(* The motor that stepper_task relies on                                   *)
(***************************************************************************)

(* The stepper is sound and on its way; the task rests only at the target, and waits on *)
(* the way home with the place of rest as its target.                                   *)
WayInv(q) ==
  /\ starved \in BOOLEAN /\ Sound(stepper, q, starved)
  /\ Going(stepper, q)
  /\ pc = "idle" => distanceToGo(stepper) = 0
  /\ pc = "homing" => stepper.targetPos = HomeSteps

(* The stepper begins sound. *)
LEMMA InitWay ==
  ASSUME NEW q, Bounds(q), Init
  PROVE  WayInv(q) /\ Abstract!Start
<1>1. /\ stepper = Motor(BootSpeed, BootAcceleration) /\ pc = "idle" /\ starved = FALSE
  BY DEF Init
<1> DEFINE C == FirstInterval[BootAcceleration]
<1>2. /\ DOMAIN stepper = Fields /\ stepper.currentPos = 0 /\ stepper.targetPos = 0
      /\ stepper.speed = 0 /\ stepper.maxSpeed = BootSpeed
      /\ stepper.acceleration = BootAcceleration /\ stepper.n = 0 /\ stepper.c0 = C
      /\ stepper.cn = 0 /\ stepper.cmin = Second \div BootSpeed /\ stepper.direction = CCW
  BY <1>1 DEF Motor, Fields
<1>3. BootAcceleration \in Accelerations
  BY CommandAssumption DEF CommandAssumption
<1>4. Fastest(q) \in Nat
  BY <1>3, BoundNumbers
<1>5. BootSpeed \in Tops /\ BootSpeed # 0
  BY DEF Tops, BootSpeed, Abs
<1>6. distanceToGo(stepper) = 0
  BY <1>2 DEF distanceToGo
<1>7. Sound(stepper, q, starved)
  BY <1>2, <1>3, <1>4, <1>5 DEF Sound, CW, CCW, Never
<1>8. WayInv(q)
  BY <1>1, <1>6, <1>7 DEF WayInv, Going
<1>9. Abstract!Start
  BY <1>1, <1>2, <1>6 DEF Abstract!Start, OnCommand
<1> QED
  BY <1>8, <1>9

(* A stepper on its way that has no interval has had a speed of 0. *)
LEMMA StarvesFirst ==
  ASSUME NEW q, Bounds(q), NEW m, NEW st, Sound(m, q, st), Going(m, q),
         distanceToGo(m) # 0, ~Turns(m)
  PROVE  st
<1>1. m.stepInterval = m.cn /\ q \in Nat \ {0} /\ (m.cn = Never => st)
  BY DEF Sound, Going, Bounds
<1>2. m.cn \in Int /\ (m.cn = Never \/ m.cn >= q)
  BY DEF Sound, Going
<1> QED
  BY <1>1, <1>2 DEF Turns, Never

(* A command: the speed and acceleration are set, then the target. *)
LEMMA StartCommands ==
  ASSUME NEW q, Bounds(q), WayInv(q), NEW motor, NEW steps \in Int, Start(motor, steps),
         SamePlace(stepper, motor), Sound(motor, q, starved \/ motor.maxSpeed = 0)
  PROVE  WayInv(q)' /\ Abstract!Command
<1>1. /\ pc = "idle" /\ pc' = "moving"
      /\ stepper' = moveTo(motor, motor.currentPos + steps)
      /\ starved' = (starved \/ motor.maxSpeed = 0)
  BY DEF Start, move
<1>2. /\ distanceToGo(stepper) = 0 /\ starved \in BOOLEAN /\ Sound(stepper, q, starved)
  BY <1>1 DEF WayInv
<1>3. /\ stepper.currentPos \in Int /\ stepper.targetPos = stepper.currentPos
      /\ motor.currentPos = stepper.currentPos /\ motor.targetPos = stepper.targetPos
  BY <1>2 DEF Sound, distanceToGo, SamePlace
<1>4. starved' \in BOOLEAN /\ Sound(motor, q, starved')
  BY <1>1, <1>2
<1> DEFINE k == moveTo(motor, motor.currentPos + steps)
           absolute == motor.currentPos + steps
<1>5. absolute \in Int /\ k = moveTo(motor, absolute)
  BY <1>3
<1>6. stepper' = k
  BY <1>1
<1> HIDE DEF k, absolute
<1>7. /\ Sound(k, q, starved') /\ k.currentPos = stepper.currentPos
      /\ k.targetPos = absolute
      /\ k = motor \/ Going(k, q)
  BY <1>3, <1>4, <1>5, MoveToSound
<1>8. Going(k, q)
  <2>1. distanceToGo(motor) = 0
    BY <1>3 DEF distanceToGo
  <2> QED
    BY <1>7, <2>1 DEF Going
<1>9. WayInv(q)'
  BY <1>1, <1>4, <1>6, <1>7, <1>8 DEF WayInv
<1>10. distanceToGo(k) # 0 /\ ~OnTheWay(k) => 1 - k.n \in 0 .. MaxCoast
  <2> SUFFICES ASSUME distanceToGo(k) # 0, ~OnTheWay(k) PROVE 1 - k.n \in 0 .. MaxCoast
    OBVIOUS
  <2>1. absolute # motor.targetPos
    BY <1>3, <1>5, <1>7 DEF distanceToGo
  <2>2. PICK j : /\ Sound(j, q, starved') /\ k = computeNewSpeed(j)
                 /\ j.currentPos = motor.currentPos /\ j.targetPos = absolute
    BY <1>4, <1>5, <2>1, MoveToSound
  <2>3. distanceToGo(j) # 0
    BY <1>3, <1>7, <2>2 DEF distanceToGo
  <2>4. k.n <= 0 /\ 1 - k.n <= MaxCoast
    BY <2>2, <2>3, NewSpeedSteers
  <2>5. k.n \in Int /\ MaxCoast \in Nat
    BY <1>7, CommandAssumption DEF CommandAssumption, Sound
  <2> QED
    BY <2>4, <2>5
<1>11. distanceToGo(k) # 0 /\ ~Turns(k) => starved'
  BY <1>7, <1>8, StarvesFirst
<1>12. steps = 0 => distanceToGo(k) = 0
  BY <1>3, <1>7 DEF distanceToGo, absolute
<1>13. absolute = stepper.currentPos + steps
  BY <1>3 DEF absolute
<1> DEFINE speed == IF motor.maxSpeed = 0 THEN 0 ELSE 1
<1>14. speed \in 0 .. 1 /\ (motor.maxSpeed = 0 <=> speed = 0)
  OBVIOUS
<1> HIDE DEF speed
<1>15. (OnCommand /\ ~Turns(stepper))' \in (IF starved' THEN BOOLEAN ELSE {FALSE})
  BY <1>1, <1>4, <1>6, <1>11 DEF OnCommand
<1>16. (IF OnCommand /\ ~OnTheWay(stepper) THEN 1 - stepper.n ELSE 0)'
          \in (IF steps = 0 THEN {0} ELSE 0 .. MaxCoast)
  <2>1. MaxCoast \in Nat
    BY CommandAssumption DEF CommandAssumption
  <2> QED
    BY <1>1, <1>6, <1>10, <1>12, <2>1 DEF OnCommand
<1>17. (IF pc = "homing" THEN 0 ELSE stepper.currentPos)'
         = IF pc = "homing" THEN 0 ELSE stepper.currentPos
  BY <1>1, <1>6, <1>7
<1>18. stepper.targetPos' = (IF pc = "homing" THEN 0 ELSE stepper.currentPos) + steps
  BY <1>1, <1>6, <1>7, <1>13
<1>19. stepper.targetPos' - (IF pc = "homing" THEN 0 ELSE stepper.currentPos) = steps
  BY <1>1, <1>3, <1>6, <1>7, <1>13
<1>20. Abstract!Arrived /\ stepper.targetPos' \in Int
  BY <1>1, <1>3, <1>5, <1>6, <1>7 DEF Abstract!Arrived
<1>21. Abstract!Move(steps, speed)
  BY <1>1, <1>14, <1>15, <1>16, <1>17, <1>18 DEF Abstract!Move, Abstract!MayStall
<1>22. Abstract!Command
  BY <1>14, <1>19, <1>20, <1>21 DEF Abstract!Command
<1> QED
  BY <1>9, <1>22

(* The way in which a stepper turns *)
LEMMA WayOf ==
  ASSUME NEW q, Bounds(q), WayInv(q), pc = "moving", distanceToGo(stepper) # 0
  PROVE  /\ Abstract!Direction = stepper.direction
         /\ ~Abstract!Arrived
         /\ ~OnTheWay(stepper) => stepper.n <= 0
<1>1. /\ stepper.currentPos \in Int /\ stepper.targetPos \in Int /\ stepper.n \in Int
      /\ stepper.direction \in {1, -1}
      /\ ~OnTheWay(stepper) => stepper.n <= 0
  BY DEF WayInv, Sound, Going, CW, CCW
<1> DEFINE d == stepper.targetPos - stepper.currentPos
<1>2. d \in Int /\ d # 0 /\ distanceToGo(stepper) = d
  BY <1>1 DEF distanceToGo
<1>3. Abstract!Direction = IF (IF OnCommand /\ ~OnTheWay(stepper) THEN 1 - stepper.n ELSE 0) > 0
                           THEN -Abstract!Sign(d) ELSE Abstract!Sign(d)
  BY DEF Abstract!Direction
<1>4. ~Abstract!Arrived
  BY <1>1, <1>2 DEF Abstract!Arrived
<1> HIDE DEF d
<1>5. Abstract!Sign(d) = IF d > 0 THEN 1 ELSE -1
  BY <1>2 DEF Abstract!Sign
<1>6. OnTheWay(stepper) <=> stepper.direction = IF d > 0 THEN 1 ELSE -1
  BY <1>2 DEF OnTheWay, Sign
<1>7. CASE OnTheWay(stepper)
  <2>1. Abstract!Direction = Abstract!Sign(d)
    BY <1>3, <1>7
  <2> QED
    BY <1>1, <1>4, <1>5, <1>6, <1>7, <2>1
<1>8. CASE ~OnTheWay(stepper)
  <2>1. Abstract!Direction = -Abstract!Sign(d)
    BY <1>1, <1>2, <1>3, <1>8 DEF OnCommand
  <2>2. stepper.direction = -Abstract!Sign(d)
    BY <1>1, <1>2, <1>5, <1>6, <1>8
  <2> QED
    BY <1>1, <1>4, <2>1, <2>2
<1> QED
  BY <1>7, <1>8

(* A step: towards the target, or away from it while the motor brakes. *)
LEMMA TurnSteps ==
  ASSUME NEW q, Bounds(q), WayInv(q), Turn
  PROVE  WayInv(q)' /\ Abstract!Step
<1>1. /\ pc = "moving" /\ pc' = "moving" /\ distanceToGo(stepper) # 0 /\ Turns(stepper)
      /\ stepper' = run(stepper) /\ starved' = starved
  BY DEF Turn, InLoop
<1>2. Sound(stepper, q, starved) /\ starved \in BOOLEAN
  BY DEF WayInv
<1> DEFINE k == run(stepper)
<1>3. /\ Sound(k, q, starved) /\ Going(k, q)
      /\ k.currentPos = stepper.currentPos + stepper.direction
      /\ k.targetPos = stepper.targetPos
  BY <1>2, RunSound
<1>4. PICK j : /\ Sound(j, q, starved) /\ k = computeNewSpeed(j)
               /\ j.currentPos = stepper.currentPos + stepper.direction
               /\ j.targetPos = stepper.targetPos
               /\ j.n = stepper.n /\ j.direction = stepper.direction
  BY <1>2, RunSound
<1>5. stepper' = k
  BY <1>1
<1> HIDE DEF k
<1>6. WayInv(q)'
  BY <1>1, <1>2, <1>3, <1>5 DEF WayInv
<1>7. /\ Abstract!Direction = stepper.direction /\ ~Abstract!Arrived
      /\ ~OnTheWay(stepper) => stepper.n <= 0
  BY <1>1, WayOf
<1>8. /\ stepper.currentPos \in Int /\ stepper.targetPos \in Int /\ stepper.n \in Int
      /\ stepper.direction \in {1, -1}
  BY <1>2 DEF Sound, CW, CCW
<1>9. distanceToGo(k) = distanceToGo(j)
  BY <1>3, <1>4 DEF distanceToGo
<1>10. distanceToGo(stepper) \in Int
       /\ distanceToGo(j) = distanceToGo(stepper) - stepper.direction
  BY <1>4, <1>8 DEF distanceToGo
<1> DEFINE coast == IF OnCommand /\ ~OnTheWay(stepper) THEN 1 - stepper.n ELSE 0
<1>11. (IF distanceToGo(k) # 0 /\ ~OnTheWay(k) THEN 1 - k.n ELSE 0)
         = IF coast > 0 THEN coast - 1 ELSE 0
  <2>1. CASE OnTheWay(stepper)
    <3>1. coast = 0
      BY <2>1
    <3>2. ASSUME distanceToGo(k) # 0 PROVE OnTheWay(k)
      <4>1. distanceToGo(j) # 0 /\ OnTheWay(j)
        BY <1>1, <1>4, <1>8, <1>9, <1>10, <2>1, <3>2 DEF OnTheWay, Sign
      <4> QED
        BY <1>4, <4>1, NewSpeedSteers
    <3> QED
      BY <3>1, <3>2
  <2>2. CASE ~OnTheWay(stepper)
    <3>1. coast = 1 - stepper.n /\ coast > 0
      BY <1>1, <1>7, <1>8, <2>2 DEF OnCommand
    <3>2. distanceToGo(j) # 0 /\ ~OnTheWay(j)
      BY <1>1, <1>4, <1>8, <1>10, <2>2 DEF OnTheWay, Sign
    <3>3. \/ j.n = 0 /\ OnTheWay(k)
          \/ j.n < 0 /\ ~OnTheWay(k) /\ k.n = j.n + 1
      BY <1>4, <1>7, <2>2, <3>2, NewSpeedSteers
    <3> HIDE DEF coast
    <3> QED
      BY <1>4, <1>8, <1>9, <3>1, <3>2, <3>3
  <2> QED
    BY <2>1, <2>2
<1>12. distanceToGo(k) # 0 /\ ~Turns(k) => starved
  BY <1>3, StarvesFirst
<1>13. (OnCommand /\ ~Turns(stepper))' \in (IF starved' THEN BOOLEAN ELSE {FALSE})
  BY <1>1, <1>2, <1>5, <1>12 DEF OnCommand
<1>14. (IF OnCommand /\ ~OnTheWay(stepper) THEN 1 - stepper.n ELSE 0)'
         = IF coast > 0 THEN coast - 1 ELSE 0
  BY <1>1, <1>5, <1>11 DEF OnCommand
<1>15. (IF pc = "homing" THEN 0 ELSE stepper.currentPos)'
         = (IF pc = "homing" THEN 0 ELSE stepper.currentPos) + Abstract!Direction
  BY <1>1, <1>3, <1>5, <1>7
<1>16. ~(OnCommand /\ ~Turns(stepper)) /\ stepper.targetPos' = stepper.targetPos
  BY <1>1, <1>3, <1>5
<1>17. Abstract!Step
  BY <1>1, <1>7, <1>13, <1>14, <1>15, <1>16 DEF Abstract!Step, Abstract!MayStall
<1> QED
  BY <1>6, <1>17

(* A stop: a target ahead, or nothing if the motor has stalled *)
LEMMA StopStops ==
  ASSUME NEW q, Bounds(q), WayInv(q), StopNotified
  PROVE  WayInv(q)' /\ Abstract!Stop
<1>1. /\ pc = "moving" /\ pc' = pc /\ distanceToGo(stepper) # 0
      /\ stepper' = stop(stepper) /\ starved' = starved
  BY DEF StopNotified, InLoop
<1>2. Sound(stepper, q, starved) /\ Going(stepper, q) /\ starved \in BOOLEAN
  BY DEF WayInv
<1> DEFINE k == stop(stepper)
<1>3. /\ Sound(k, q, starved) /\ Going(k, q) /\ k.currentPos = stepper.currentPos
      /\ \/ ~Turns(stepper) /\ k = stepper
         \/ /\ Turns(stepper)
            /\ \E s \in 1 .. MaxStop : k.targetPos = stepper.currentPos + stepper.direction * s
            /\ OnTheWay(k)
  BY <1>1, <1>2, StopSound
<1>4. stepper' = k
  BY <1>1
<1> HIDE DEF k
<1>5. WayInv(q)'
  BY <1>1, <1>2, <1>3, <1>4 DEF WayInv
<1>6. Abstract!Direction = stepper.direction /\ ~Abstract!Arrived
  BY <1>1, WayOf
<1>7. (IF pc = "homing" THEN 0 ELSE stepper.currentPos)'
        = IF pc = "homing" THEN 0 ELSE stepper.currentPos
  BY <1>1, <1>3, <1>4
<1>8. CASE ~Turns(stepper) /\ k = stepper
  <2>1. OnCommand /\ ~Turns(stepper) /\ stepper' = stepper
    BY <1>1, <1>4, <1>8 DEF OnCommand
  <2>2. /\ stepper.targetPos' = stepper.targetPos
        /\ (OnCommand /\ ~Turns(stepper))' = (OnCommand /\ ~Turns(stepper))
        /\ (IF OnCommand /\ ~OnTheWay(stepper) THEN 1 - stepper.n ELSE 0)'
             = IF OnCommand /\ ~OnTheWay(stepper) THEN 1 - stepper.n ELSE 0
    BY <1>1, <2>1 DEF OnCommand
  <2>3. Abstract!Stop
    BY <1>1, <1>6, <1>7, <2>1, <2>2 DEF Abstract!Stop
  <2> QED
    BY <1>5, <2>3
<1>9. CASE Turns(stepper) /\ OnTheWay(k)
           /\ \E s \in 1 .. MaxStop : k.targetPos = stepper.currentPos + stepper.direction * s
  <2>1. distanceToGo(k) # 0 /\ ~Turns(k) => starved
    BY <1>3, StarvesFirst
  <2>2. (OnCommand /\ ~Turns(stepper))' \in (IF starved' THEN BOOLEAN ELSE {FALSE})
    BY <1>1, <1>2, <1>4, <2>1 DEF OnCommand
  <2>3. (IF OnCommand /\ ~OnTheWay(stepper) THEN 1 - stepper.n ELSE 0)' = 0
    BY <1>4, <1>9
  <2>4. \E s \in 1 .. MaxStop :
          stepper.targetPos'
            = (IF pc = "homing" THEN 0 ELSE stepper.currentPos) + Abstract!Direction * s
    BY <1>1, <1>4, <1>6, <1>9
  <2>5. ~(OnCommand /\ ~Turns(stepper))
    BY <1>9
  <2>6. Abstract!Stop
    BY <1>1, <1>6, <1>7, <2>2, <2>3, <2>4, <2>5 DEF Abstract!Stop, Abstract!MayStall
  <2> QED
    BY <1>5, <2>6
<1> QED
  BY <1>3, <1>8, <1>9

(* Homing: the place is step 0, and the run home the next target. *)
LEMMA HomeHomes ==
  ASSUME NEW q, Bounds(q), WayInv(q), HomeNotified
  PROVE  WayInv(q)' /\ Abstract!Home
<1>1. /\ pc = "moving" /\ pc' = "homing" /\ distanceToGo(stepper) # 0
      /\ stepper' = moveTo(setCurrentPosition(stepper, 0), HomeSteps) /\ starved' = starved
  BY DEF HomeNotified, InLoop
<1>2. Sound(stepper, q, starved) /\ starved \in BOOLEAN
  BY DEF WayInv
<1> DEFINE k == moveTo(setCurrentPosition(stepper, 0), HomeSteps)
<1>3. Sound(k, q, starved) /\ Going(k, q) /\ k.currentPos = 0 /\ k.targetPos = HomeSteps
  BY <1>2, HomeSound
<1>4. stepper' = k
  BY <1>1
<1> HIDE DEF k
<1>5. WayInv(q)'
  BY <1>1, <1>2, <1>3, <1>4 DEF WayInv
<1>6. ~Abstract!Arrived
  BY <1>1, WayOf
<1>7. ~OnCommand'
  BY <1>1 DEF OnCommand
<1>8. Abstract!Home
  BY <1>1, <1>3, <1>4, <1>6, <1>7 DEF Abstract!Home
<1> QED
  BY <1>5, <1>8

(* The run home is one step of the abstract motor, made when the task goes on. *)
LEMMA HomingRests ==
  ASSUME NEW q, Bounds(q), WayInv(q), RunToPosition
  PROVE  WayInv(q)' /\ UNCHANGED Abstract!motorVars
<1>1. pc = "homing" /\ pc' = "homing" /\ stepper' = run(stepper) /\ starved' = starved
  BY DEF RunToPosition
<1>2. Sound(stepper, q, starved) /\ starved \in BOOLEAN /\ stepper.targetPos = HomeSteps
  BY <1>1 DEF WayInv
<1> DEFINE k == run(stepper)
<1>3. Sound(k, q, starved) /\ Going(k, q) /\ k.targetPos = stepper.targetPos
  BY <1>2, RunSound
<1>4. stepper' = k
  BY <1>1
<1> HIDE DEF k
<1>5. WayInv(q)'
  BY <1>1, <1>2, <1>3, <1>4 DEF WayInv
<1>6. UNCHANGED Abstract!motorVars
  BY <1>1, <1>3, <1>4 DEF Abstract!motorVars, OnCommand
<1> QED
  BY <1>5, <1>6

(* Every step is one of the motor that stepper_task relies on, or none. *)
LEMMA NextWay ==
  ASSUME NEW q, Bounds(q), WayInv(q), [Next]_vars
  PROVE  WayInv(q)' /\ [Abstract!Next]_(Abstract!motorVars)
<1>1. ASSUME Abstract!Command \/ Abstract!Step \/ Abstract!Stop \/ Abstract!Home
             \/ Abstract!ReachTarget
      PROVE  [Abstract!Next]_(Abstract!motorVars)
  BY <1>1 DEF Abstract!Next
<1>2. /\ starved \in BOOLEAN /\ Sound(stepper, q, starved)
      /\ pc = "idle" => distanceToGo(stepper) = 0
  BY DEF WayInv
<1>3. ASSUME NEW steps \in Displacements, NEW speed \in Speeds,
             NEW acceleration \in Given,
             PlainMove(steps, speed, acceleration)
      PROVE  WayInv(q)' /\ Abstract!Command
  <2> DEFINE fast == setMaxSpeed(stepper, speed)
             motor == setAcceleration(fast, acceleration)
  <2>1. Start(motor, steps)
    BY <1>3 DEF PlainMove
  <2>2. Sound(fast, q, starved \/ fast.maxSpeed = 0) /\ SamePlace(stepper, fast)
    BY <1>2, SetMaxSpeedSound
  <2> HIDE DEF fast
  <2>3. /\ Sound(motor, q, starved \/ fast.maxSpeed = 0) /\ SamePlace(fast, motor)
        /\ motor.maxSpeed = fast.maxSpeed
    BY <2>2, SetAccelerationSound
  <2> HIDE DEF motor
  <2>4. SamePlace(stepper, motor) /\ Sound(motor, q, starved \/ motor.maxSpeed = 0)
    BY <2>2, <2>3 DEF SamePlace
  <2>5. steps \in Int
    BY CommandAssumption DEF CommandAssumption
  <2> QED
    BY <2>1, <2>4, <2>5, StartCommands
<1>4. ASSUME NEW steps \in Displacements, NEW speed \in TimedSpeeds,
             NEW acceleration \in Given,
             TimedMove(steps, speed, acceleration)
      PROVE  WayInv(q)' /\ Abstract!Command
  <2> DEFINE set == setAcceleration(stepper, acceleration)
             motor == setMaxSpeed(set, speed)
  <2>1. Start(motor, steps)
    BY <1>4 DEF TimedMove
  <2>2. Sound(set, q, starved) /\ SamePlace(stepper, set)
    BY <1>2, SetAccelerationSound
  <2> HIDE DEF set
  <2>3. Sound(motor, q, starved \/ motor.maxSpeed = 0) /\ SamePlace(set, motor)
    BY <1>2, <2>2, SetMaxSpeedSound
  <2> HIDE DEF motor
  <2>4. SamePlace(stepper, motor)
    BY <2>2, <2>3 DEF SamePlace
  <2>5. steps \in Int
    BY CommandAssumption DEF CommandAssumption
  <2> QED
    BY <2>1, <2>3, <2>4, <2>5, StartCommands
<1>5. ASSUME NEW steps \in Displacements, OtherMove(steps)
      PROVE  WayInv(q)' /\ Abstract!Command
  <2>1. Start(stepper, steps) /\ SamePlace(stepper, stepper) /\ steps \in Int
    BY <1>5, CommandAssumption DEF OtherMove, SamePlace, CommandAssumption
  <2>2. Sound(stepper, q, starved \/ stepper.maxSpeed = 0)
    BY <1>2 DEF Sound
  <2> QED
    BY <2>1, <2>2, StartCommands
<1>6. CASE HomeReached
  <2>1. /\ pc = "homing" /\ pc' = "moving" /\ UNCHANGED <<stepper, starved>>
        /\ distanceToGo(stepper) = 0
    BY <1>6 DEF HomeReached, isRunning
  <2>2. stepper.currentPos = stepper.targetPos
    BY <1>2, <2>1 DEF distanceToGo, Sound
  <2>3. WayInv(q)'
    BY <2>1 DEF WayInv
  <2>4. ~OnCommand /\ ~OnCommand'
    BY <2>1 DEF OnCommand
  <2>5. Abstract!ReachTarget
    BY <2>1, <2>2, <2>4 DEF Abstract!ReachTarget
  <2> QED
    BY <1>1, <2>3, <2>5
<1>7. CASE Finish
  <2>1. /\ pc = "moving" /\ pc' = "idle" /\ UNCHANGED <<stepper, starved>>
        /\ distanceToGo(stepper) = 0
    BY <1>7 DEF Finish
  <2>2. WayInv(q)'
    BY <2>1 DEF WayInv
  <2>3. ~OnCommand /\ ~OnCommand'
    BY <2>1 DEF OnCommand
  <2>4. UNCHANGED Abstract!motorVars
    BY <2>1, <2>3 DEF Abstract!motorVars
  <2> QED
    BY <2>2, <2>4
<1>8. CASE UNCHANGED vars
  <2>1. UNCHANGED <<stepper, pc, starved>>
    BY <1>8 DEF vars
  <2>2. WayInv(q)'
    BY <2>1 DEF WayInv
  <2>3. UNCHANGED Abstract!motorVars
    BY <2>1 DEF Abstract!motorVars, OnCommand
  <2> QED
    BY <2>2, <2>3
<1>9. CASE Turn
  BY <1>1, <1>9, TurnSteps
<1>10. CASE StopNotified
  BY <1>1, <1>10, StopStops
<1>11. CASE HomeNotified
  BY <1>1, <1>11, HomeHomes
<1>12. CASE RunToPosition
  BY <1>12, HomingRests
<1> QED
  BY <1>1, <1>3, <1>4, <1>5, <1>6, <1>7, <1>8, <1>9, <1>10, <1>11, <1>12 DEF Next, Task

(* For all displacements, speeds and accelerations, and any q that bounds what they ask  *)
(* for (MaxStop and MaxCoast are no less than the steps a motor of that speed needs to   *)
(* stop): the library, used as stepper_task uses it, drives the motor as module Motor    *)
(* says.  Each step that it makes is one towards the target or one of a brake that gets  *)
(* shorter; a stop costs at most MaxStop; only a speed of 0 makes the motor stall        *)
(* (strand.cpp 234-382 on AccelStepper.cpp).                                             *)
THEOREM ImplementsMotor ==
  ASSUME NEW q, Bounds(q)
  PROVE  Spec => DrivesAsMotor
<1>1. Init => WayInv(q) /\ Abstract!Start
  BY InitWay
<1>2. WayInv(q) /\ [Next]_vars => WayInv(q)' /\ [Abstract!Next]_(Abstract!motorVars)
  BY NextWay
<1> QED
  BY <1>1, <1>2, PTL DEF Spec, DrivesAsMotor, Abstract!Spec
==============================================================================
