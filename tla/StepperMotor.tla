----------------------------- MODULE StepperMotor -----------------------------
(***************************************************************************)
(* The motor of a strand as stepper_task drives it (main/src/strand.cpp    *)
(* 234-382) through the library AccelStepper, step by step: a command at   *)
(* rest, stops and homings on the way.  The position the task records is   *)
(* StrandStepper's concern; here it is the profile of speed.               *)
(***************************************************************************)
EXTENDS AccelStepper

CONSTANTS
  Displacements,  \* the steps commands ask for
  Speeds,         \* the maximum speeds they give
  HomeSteps,      \* how far homing backs off: 4000 steps
  MaxStop,        \* the bound of StrandStepper on the steps after a stop
  MaxCoast,       \* and on those against a new command
  MaxEvents       \* bound of the model: commands, stops and homings

BootSpeed == 11200               \* 1400 * MICROSTEPPING
BootAcceleration == 8000         \* 1000 * MICROSTEPPING

(* A timed move's speed is at least 100, and 10000 if the command's is that or more. *)
TimedSpeeds == {100, 10000} \union {speed \in Speeds : speed > 100}

(* The accelerations that a command may have, of which 0 is ignored *)
Given == Accelerations \union {0} \union {-a : a \in Accelerations}

ASSUME CommandAssumption == /\ Displacements \subseteq Int /\ Speeds \subseteq Int
                            /\ HomeSteps \in Nat \ {0} /\ MaxStop \in Nat /\ MaxCoast \in Nat
                            /\ MaxEvents \in Nat /\ BootAcceleration \in Accelerations

VARIABLES
  stepper,   \* the AccelStepper
  pc,        \* where stepper_task is
  disturbed, \* ledger: the move in hand was stopped, or began with the rest of a speed
  starved,   \* ledger: a command has asked for speed 0
  events     \* commands, stops and homings so far

vars == <<stepper, pc, disturbed, starved, events>>

Event == events < MaxEvents /\ events' = events + 1
-------------------------------------------------------------------------------
Start(motor, steps) ==
  /\ pc = "idle" /\ Event
  /\ stepper' = move(motor, steps)
  /\ pc' = "moving"
  /\ disturbed' = (stepper.n # 0)
  /\ starved' = (starved \/ motor.maxSpeed = 0)

(* A relative or an absolute move: speed first. *)
PlainMove(steps, speed, acceleration) ==
  Start(setAcceleration(setMaxSpeed(stepper, speed), acceleration), steps)

(* A timed move: acceleration first. *)
TimedMove(steps, speed, acceleration) ==
  Start(setMaxSpeed(setAcceleration(stepper, acceleration), speed), steps)

(* A type the task has no branch for: as the command before *)
OtherMove(steps) == Start(stepper, steps)

InLoop == pc = "moving" /\ distanceToGo(stepper) # 0

Turn ==
  /\ InLoop /\ Turns(stepper)
  /\ stepper' = run(stepper)
  /\ UNCHANGED <<pc, disturbed, starved, events>>

StopNotified ==
  /\ InLoop /\ Event
  /\ stepper' = stop(stepper)
  /\ disturbed' = TRUE
  /\ UNCHANGED <<pc, starved>>

(* setCurrentPosition(0), then runToNewPosition(4000) *)
HomeNotified ==
  /\ InLoop /\ Event
  /\ stepper' = moveTo(setCurrentPosition(stepper, 0), HomeSteps)
  /\ pc' = "homing"
  /\ disturbed' = FALSE
  /\ UNCHANGED starved

RunToPosition ==
  /\ pc = "homing" /\ isRunning(stepper) /\ Turns(stepper)
  /\ stepper' = run(stepper)
  /\ UNCHANGED <<pc, disturbed, starved, events>>

HomeReached ==
  /\ pc = "homing" /\ ~isRunning(stepper)
  /\ pc' = "moving"
  /\ UNCHANGED <<stepper, disturbed, starved, events>>

Finish ==
  /\ pc = "moving" /\ distanceToGo(stepper) = 0
  /\ pc' = "idle"
  /\ UNCHANGED <<stepper, disturbed, starved, events>>

Init == stepper = Motor(BootSpeed, BootAcceleration) /\ pc = "idle" /\ disturbed = FALSE
        /\ starved = FALSE /\ events = 0

Task == Turn \/ RunToPosition \/ HomeReached \/ Finish

Next ==
  \/ Task
  \/ \E steps \in Displacements, speed \in Speeds, acceleration \in Given :
       PlainMove(steps, speed, acceleration)
  \/ \E steps \in Displacements, speed \in TimedSpeeds, acceleration \in Given :
       TimedMove(steps, speed, acceleration)
  \/ \E steps \in Displacements : OtherMove(steps)
  \/ StopNotified
  \/ HomeNotified

Spec == Init /\ [][Next]_vars

(* stepper_task calls run() without a pause, so that a step due is made. *)
FairSpec == Spec /\ WF_vars(Task)
-------------------------------------------------------------------------------
(* A short move or homing that begins at a standstill and is not stopped ends at one, and *)
(* not only at the step it was sent to, although strand.cpp 296 asks for the distance     *)
(* alone.  Moves of thousands of steps need not: the profile is rounded at every step.    *)
RestIsStill ==
  distanceToGo(stepper) = 0 /\ ~disturbed
    => stepper.speed = 0 /\ stepper.n = 0 /\ stepper.stepInterval = 0

(* No step but the first of a move is faster than the command allows. *)
KeepsMaxSpeed ==
  distanceToGo(stepper) # 0 /\ stepper.n # 1 /\ Turns(stepper)
    => stepper.maxSpeed > 0 /\ stepper.stepInterval >= Second \div stepper.maxSpeed

(* As long as no command asks for speed 0, every move ends, whatever stops and homings *)
(* come between.                                                                       *)
MoveEnds == pc # "idle" ~> (pc = "idle" \/ starved)

(* The motor does what StrandStepper takes it to do (module Motor): a motor that turns    *)
(* goes to its target step by step, and if it first turns away, then for at most MaxCoast *)
(* steps, one less each time; a stop costs at most MaxStop; only a command with speed 0   *)
(* makes it stall.  On the way home, which the task waits for, it is still at step 0.     *)
OnTheWay(m) == m.direction = Sign(distanceToGo(m))
OnCommand == pc # "homing" /\ distanceToGo(stepper) # 0

Abstract == INSTANCE Motor WITH
  currentPos <- IF pc = "homing" THEN 0 ELSE stepper.currentPos,
  targetPos <- stepper.targetPos,
  starved <- starved,
  stalled <- OnCommand /\ ~Turns(stepper),
  coasting <- IF OnCommand /\ ~OnTheWay(stepper) THEN 1 - stepper.n ELSE 0
DrivesAsMotor == Abstract!Spec
===============================================================================
