--------------------------------- MODULE Motor ---------------------------------
(***************************************************************************)
(* What stepper_task (main/src/strand.cpp) relies on of its motor: a       *)
(* command gives it a target; it goes there a step at a time; a stop leaves*)
(* it a few steps more in the same direction; homing makes the place it is *)
(* at step 0.  A motor that was not quite still when it got a command first*)
(* goes on for a few steps the wrong way.  StrandStepper is built on these *)
(* actions, and StepperMotor shows that the library AccelStepper, used as  *)
(* stepper_task uses it, does no more than them.                           *)
(***************************************************************************)
EXTENDS Integers

CONSTANTS
  HomeSteps,   \* how far homing backs off from the switch: 4000 steps
  MaxStop,     \* an upper bound of the steps a motor at full speed needs to stop
  MaxCoast     \* and of those it goes on for against a new command

VARIABLES
  currentPos, targetPos,   \* the library's _currentPos and _targetPos
  starved,                 \* a command has asked for speed 0 since the start
  stalled,                 \* the speed has come down to 0 short of the target
  coasting                 \* how many steps it will still make away from the target

motorVars == <<currentPos, targetPos, starved, stalled, coasting>>

TypeOK ==
  /\ currentPos \in Int /\ targetPos \in Int
  /\ starved \in BOOLEAN /\ stalled \in BOOLEAN
  /\ coasting \in Nat

Sign(x) == IF x > 0 THEN 1 ELSE IF x < 0 THEN -1 ELSE 0

(* Faulty variant: the loop ends at or beyond the target of an upward move. *)
Arrived_UpwardOnly == currentPos >= targetPos

(* distanceToGo() == 0 *)
Arrived == currentPos = targetPos

(* The way the motor turns *)
Direction == IF coasting > 0 THEN -Sign(targetPos - currentPos) ELSE Sign(targetPos - currentPos)

(* A motor that was once given the speed 0 may stall at any time. *)
MayStall == stalled' \in (IF starved' THEN BOOLEAN ELSE {FALSE})

(* setMaxSpeed, then move *)
Move(steps, speed) ==
  /\ targetPos' = currentPos + steps
  /\ starved' = (starved \/ speed = 0)
  /\ MayStall
  /\ coasting' \in (IF steps = 0 THEN {0} ELSE 0 .. MaxCoast)
  /\ UNCHANGED currentPos

(* run(), when a step is due *)
Step ==
  /\ ~Arrived /\ ~stalled
  /\ currentPos' = currentPos + Direction
  /\ coasting' = IF coasting > 0 THEN coasting - 1 ELSE 0
  /\ UNCHANGED <<targetPos, starved>>
  /\ MayStall

(* Faulty variant: the motor halts where it is, and the target stays. *)
Stop_AtOnce ==
  /\ ~Arrived
  /\ stalled' = TRUE
  /\ UNCHANGED <<currentPos, targetPos, starved, coasting>>

(* stop(): a motor that turns goes on for at most MaxStop steps; one that does not is *)
(* left as it is.                                                                     *)
Stop ==
  /\ ~Arrived
  /\ UNCHANGED <<currentPos, starved>>
  /\ IF stalled
     THEN UNCHANGED <<targetPos, stalled, coasting>>
     ELSE /\ \E s \in 1 .. MaxStop : targetPos' = currentPos + Direction * s
          /\ MayStall
          /\ coasting' = 0

(* setCurrentPosition(0), and the target of the run that follows *)
Home ==
  /\ ~Arrived
  /\ currentPos' = 0
  /\ targetPos' = HomeSteps
  /\ stalled' = FALSE
  /\ coasting' = 0
  /\ UNCHANGED starved

(* runToNewPosition returns *)
ReachTarget ==
  /\ currentPos' = targetPos
  /\ stalled' = FALSE
  /\ UNCHANGED <<targetPos, starved, coasting>>

Start ==
  /\ currentPos = 0
  /\ targetPos = 0
  /\ starved = FALSE
  /\ stalled = FALSE
  /\ coasting = 0

(* Any command, given to a motor at rest *)
Command ==
  /\ Arrived
  /\ targetPos' \in Int
  /\ \E speed \in 0 .. 1 : Move(targetPos' - currentPos, speed)

Next == Command \/ Step \/ Stop \/ Home \/ ReachTarget

Spec == Start /\ [][Next]_motorVars
=============================================================================
