---------------------------- MODULE StrandStepper ----------------------------
(***************************************************************************)
(* The stepper side of the strand firmware (main/src/strand.cpp): the      *)
(* queue of movement commands that command_move fills, stepper_task that   *)
(* empties it and drives the motor, and the HOME and STOP notifications    *)
(* that the home switch's interrupt and the "stop" command send the task.  *)
(*                                                                         *)
(* The task keeps in `currentPosition' (millimetres) where it believes the *)
(* platform hangs, while AccelStepper counts motor steps, 22.6 of them to  *)
(* a millimetre.  Every hazard of this component is a way for the two to   *)
(* come apart: truncation of a displacement to whole steps, a stop halfway,*)
(* a relative move, a homing run, a restart that reloads an older record.  *)
(* The variables of the `ledger' belong to no code: they follow where the  *)
(* platform really is, so that the properties can compare it with the      *)
(* record.                                                                 *)
(*                                                                         *)
(* stepper_task is one action per stage of its loop.  The motor it drives  *)
(* is the abstract one of module Motor, which the library AccelStepper is  *)
(* shown to implement (StepperMotor).                                      *)
(***************************************************************************)
EXTENDS Integers, Sequences

CONSTANTS
  Types,       \* the movement types commands carry (stepperWave passes any integer)
  Moves,       \* the positions (mm) and displacements (steps) they ask for
  Speeds,      \* the maximum speeds they ask for
  Limits,      \* the values setMin, setMax and setCurrent give the parameters
  FirstBoot,   \* the parameters the flash holds when the model starts
  QueueLength, \* the capacity of xQueue_stepper_command: 40
  HomeSteps,   \* how far homing backs off from the switch: 4000 steps
  MaxStop,     \* an upper bound of the steps a motor at full speed needs to stop
  MaxCoast,    \* and of those it goes on for against a new command
  MaxEvents    \* bound of the model: commands, notifications and restarts in all

Parameters == [current: Int, min: Int, max: Int]

ASSUME CommandAssumption == Types \subseteq Int /\ Moves \subseteq Int /\ Speeds \subseteq Nat
ASSUME ParameterAssumption == Limits \subseteq Int /\ FirstBoot \in Parameters
ASSUME BoundAssumption == /\ QueueLength \in Nat \ {0}
                          /\ HomeSteps \in Nat \ {0}
                          /\ MaxStop \in Nat \ {0} /\ MaxCoast \in Nat
                          /\ MaxEvents \in Nat

VARIABLES
  device_stepper,          \* the parameters in RAM
  nvs,                     \* the parameters in flash
  xQueue_stepper_command,  \* the commands that wait
  notify,                  \* the bits of the task's notification value
  pc,                      \* where stepper_task is
  stepper_type,            \* stepper_commands.type: the command in hand
  stepper_move,            \* its displacement in steps, kept from one command to the next
  currentPosition,         \* where the task believes the platform is, in mm
  solenoid,                \* whether the brake is released
  currentPos, targetPos,   \* the motor: AccelStepper's _currentPos and _targetPos,
  starved, stalled,        \* whether it was ever given speed 0, and has come to a halt,
  coasting,                \* and the steps it will still make away from its target
  events,                  \* environment steps so far (bound of the model)
  origin,                  \* ledger: see Place
  slack,                   \* ledger: what rounding and stopping may have cost so far
  spoilt,                  \* ledger: the record was invalidated by the code
  overridden               \* ledger: RAM holds a position the task does not know of

taskVars == <<pc, stepper_type, stepper_move, currentPosition, solenoid>>
motorVars == <<currentPos, targetPos, starved, stalled, coasting>>
ledger == <<origin, slack, spoilt, overridden>>
vars == <<device_stepper, nvs, xQueue_stepper_command, notify, taskVars, motorVars,
          events, ledger>>

Engine == INSTANCE Motor

HOME_BIT == "home"
STOP_BIT == "stop"
-----------------------------------------------------------------------------
(* Units.  A step is 10 and a millimetre 226 of the ledger's unit: the code's factor, *)
(* 22.6 steps per mm.  C truncates towards zero when it converts to int.              *)

StepUnit == 10
MmUnit == 226

Truncate(a, b) == IF a >= 0 THEN a \div b ELSE -((-a) \div b)

Abs(x) == IF x >= 0 THEN x ELSE -x

(* Faulty variant: an integer factor. *)
ToSteps_IntegerFactor(mm) == mm * (MmUnit \div StepUnit)

(* (move - currentPosition) * factor, stored in an int *)
ToSteps(mm) == Truncate(mm * MmUnit, StepUnit)

(* Where the platform really is, and where the motor is taking it; the record's error. *)
Place == StepUnit * currentPos - origin
Aim == StepUnit * targetPos - origin
Error == Aim - MmUnit * currentPosition

Absolute(type) == type \in {1, 2}

(* Faulty variant: an off-by-one. *)
Recorded_OffByOne(type) == type > 1

(* The commands whose position goes to RAM when the move is over. *)
Recorded(type) == type >= 1
-----------------------------------------------------------------------------
(* command_move: an absolute target is brought within the limits of the moment, and *)
(* the command is dropped when the queue stays full.                                *)

Clamp(type, move) ==
  IF type < 1 THEN move
  ELSE IF move <= device_stepper.min THEN device_stepper.min
  ELSE IF move >= device_stepper.max THEN device_stepper.max
  ELSE move

(* Faulty variant: one too many. *)
QueueHasRoom_OffByOne == Len(xQueue_stepper_command) <= QueueLength

QueueHasRoom == Len(xQueue_stepper_command) < QueueLength

Event == events < MaxEvents /\ events' = events + 1

CommandMove(type, move, speed) ==
  /\ Event
  /\ xQueue_stepper_command' =
       IF QueueHasRoom
       THEN Append(xQueue_stepper_command,
                   [type |-> type, move |-> Clamp(type, move), speed |-> speed])
       ELSE xQueue_stepper_command
  /\ UNCHANGED <<device_stepper, nvs, notify, taskVars, motorVars, ledger>>

(* xTaskNotify(stepper_task_handle, bit, eSetBits): bits of the notification value. *)
NotifyTask(bit) ==
  /\ Event
  /\ notify' = notify \union {bit}
  /\ UNCHANGED <<device_stepper, nvs, xQueue_stepper_command, taskVars, motorVars, ledger>>

(* isr: the home switch closes (and bounces). *)
HomeSwitch == NotifyTask(HOME_BIT)

(* The "stop" command. *)
StopCommand == NotifyTask(STOP_BIT)

(* setCurrent, setMin and setMax: setPramamter, then saveParamters. *)
SetParameter(field, value) ==
  /\ Event
  /\ device_stepper' = [device_stepper EXCEPT ![field] = value]
  /\ nvs' = device_stepper'
  /\ overridden' = (overridden \/ field = "current")
  /\ UNCHANGED <<xQueue_stepper_command, notify, taskVars, motorVars, origin, slack, spoilt>>
-----------------------------------------------------------------------------
(* stepper_task *)

(* The displacement a command asks for.  A type the task knows no branch for leaves *)
(* stepper_move as the command before it did.                                       *)
Displacement(c) ==
  IF Absolute(c.type) THEN ToSteps(c.move - currentPosition)
  ELSE IF c.type = 0 THEN c.move
  ELSE stepper_move

(* A timed move (type 2) derives a speed and keeps it in 100 .. 10000, a type without a *)
(* branch leaves it; only whether a speed is zero matters here.                         *)
SpeedFor(c) == IF c.type \in {0, 1} THEN c.speed ELSE 100

Receive ==
  /\ pc = "idle"
  /\ xQueue_stepper_command # <<>>
  /\ LET c == Head(xQueue_stepper_command)
         steps == Displacement(c)
     IN /\ stepper_type' = c.type
        /\ stepper_move' = steps
        /\ currentPosition' = IF Absolute(c.type) THEN c.move ELSE currentPosition
        /\ Engine!Move(steps, SpeedFor(c))
        /\ origin' = IF Absolute(c.type) THEN origin ELSE origin + StepUnit * steps
        /\ slack' = IF Absolute(c.type) THEN slack + StepUnit - 1 ELSE slack
  /\ xQueue_stepper_command' = Tail(xQueue_stepper_command)
  /\ solenoid' = TRUE
  /\ pc' = "moving"
  /\ UNCHANGED <<device_stepper, nvs, notify, events, spoilt, overridden>>

(* stepper.run(), when a step is due.  Each turn of the loop looks at the notification *)
(* value first; one that arrives between that look and run() is indistinguishable from *)
(* one that arrives after run().                                                       *)
Run ==
  /\ pc = "moving"
  /\ notify = {}
  /\ Engine!Step
  /\ UNCHANGED <<device_stepper, nvs, xQueue_stepper_command, notify, taskVars, events, ledger>>

(* Faulty variant: an upward move that is stopped keeps its target as the record. *)
StoppedRecord_Uncorrected(toGo) ==
  IF stepper_move <= 0
  THEN Truncate(currentPosition * MmUnit + StepUnit * toGo, MmUnit)
  ELSE currentPosition

(* The correction of the record on a stop: currentPosition +/- distanceToGo / factor. *)
StoppedRecord(toGo) ==
  IF stepper_move <= 0
  THEN Truncate(currentPosition * MmUnit + StepUnit * toGo, MmUnit)
  ELSE Truncate(currentPosition * MmUnit - StepUnit * toGo, MmUnit)

(* The correction is right only for an upward absolute move of a motor that turns. *)
StopSpoils == stalled \/ stepper_move <= 0 \/ ~Absolute(stepper_type)

PollStop ==
  /\ pc = "moving"
  /\ notify = {STOP_BIT}
  /\ notify' = {}
  /\ currentPosition' = StoppedRecord(targetPos - currentPos)
  /\ Engine!Stop
  /\ slack' = slack + StepUnit * MaxStop + MmUnit - 1
  /\ spoilt' = (spoilt \/ StopSpoils)
  /\ overridden' = (overridden \/ stepper_type < 1)
  /\ UNCHANGED <<device_stepper, nvs, xQueue_stepper_command, pc, stepper_type, stepper_move,
                 solenoid, events, origin>>

(* HOME: the switch is step 0 from now on, and the motor backs off from it.  A STOP *)
(* that was pending with it is forgotten.                                           *)
PollHome ==
  /\ pc = "moving"
  /\ HOME_BIT \in notify
  /\ notify' = {}
  /\ Engine!Home
  /\ pc' = "homing"
  /\ UNCHANGED <<device_stepper, nvs, xQueue_stepper_command, stepper_type, stepper_move,
                 currentPosition, solenoid, events, ledger>>

(* runToNewPosition(4000) returns: the position is 0 in the task, in RAM and in flash. *)
HomeReached ==
  /\ pc = "homing"
  /\ Engine!ReachTarget
  /\ device_stepper' = [device_stepper EXCEPT !.current = 0]
  /\ nvs' = device_stepper'
  /\ currentPosition' = 0
  /\ origin' = StepUnit * targetPos
  /\ slack' = 0
  /\ spoilt' = FALSE
  /\ overridden' = FALSE
  /\ pc' = "moving"
  /\ UNCHANGED <<xQueue_stepper_command, notify, stepper_type, stepper_move, solenoid, events>>

(* The loop ends at the target: the position of a type >= 1 command goes to RAM. *)
Finish ==
  /\ pc = "moving" /\ Engine!Arrived
  /\ IF Recorded(stepper_type)
     THEN device_stepper' = [device_stepper EXCEPT !.current = currentPosition]
     ELSE UNCHANGED device_stepper
  /\ overridden' = (overridden /\ ~Recorded(stepper_type))
  /\ solenoid' = FALSE
  /\ pc' = "idle"
  /\ UNCHANGED <<nvs, xQueue_stepper_command, notify, stepper_type, stepper_move,
                 currentPosition, motorVars, events, origin, slack, spoilt>>
-----------------------------------------------------------------------------
(* Restarts: app_main loads the flash, init_strand takes the position from it, the   *)
(* motor's counter starts again at 0 wherever the platform hangs.                    *)

Boot(saved) ==
  /\ nvs' = saved
  /\ device_stepper' = saved
  /\ currentPosition' = saved.current
  /\ xQueue_stepper_command' = <<>>
  /\ notify' = {}
  /\ pc' = "idle"
  /\ stepper_type' = 0
  /\ stepper_move' = 0
  /\ solenoid' = FALSE
  /\ currentPos' = 0
  /\ targetPos' = 0
  /\ starved' = FALSE
  /\ stalled' = FALSE
  /\ coasting' = 0
  /\ origin' = -Place
  /\ spoilt' = (spoilt \/ pc # "idle" \/ saved.current # currentPosition)
  /\ overridden' = FALSE
  /\ UNCHANGED slack

PowerLoss == Event /\ Boot(nvs)

(* Faulty variant: no saveParamters. *)
Reset_Unsaved == Event /\ Boot(nvs)

(* The "reset" command: saveParamters, then esp_restart. *)
Reset == Event /\ Boot(device_stepper)

Init ==
  /\ device_stepper = FirstBoot
  /\ nvs = FirstBoot
  /\ currentPosition = FirstBoot.current
  /\ xQueue_stepper_command = <<>>
  /\ notify = {}
  /\ pc = "idle"
  /\ stepper_type = 0
  /\ stepper_move = 0
  /\ solenoid = FALSE
  /\ Engine!Start
  /\ events = 0
  /\ origin = -MmUnit * FirstBoot.current
  /\ slack = 0
  /\ spoilt = FALSE
  /\ overridden = FALSE

Task == Receive \/ Run \/ PollStop \/ PollHome \/ HomeReached \/ Finish

Environment ==
  \/ \E type \in Types, move \in Moves, speed \in Speeds : CommandMove(type, move, speed)
  \/ HomeSwitch
  \/ StopCommand
  \/ \E field \in {"current", "min", "max"}, value \in Limits : SetParameter(field, value)
  \/ Reset
  \/ PowerLoss

Next == Task \/ Environment

Spec == Init /\ [][Next]_vars

(* stepper_task never waits inside its loop and has a core of its own (pinned to core 1, *)
(* above every task of the application there).                                          *)
FairSpec == Spec /\ WF_vars(Task)
-----------------------------------------------------------------------------
(* Properties *)

Command == [type: Int, move: Int, speed: Nat]

(* Every variable keeps its type, whatever the commands, notifications and restarts. *)
TypeOK ==
  /\ device_stepper \in Parameters
  /\ nvs \in Parameters
  /\ xQueue_stepper_command \in Seq(Command)
  /\ Len(xQueue_stepper_command) <= QueueLength
  /\ notify \subseteq {HOME_BIT, STOP_BIT}
  /\ pc \in {"idle", "moving", "homing"}
  /\ stepper_type \in Int
  /\ stepper_move \in Int
  /\ currentPosition \in Int
  /\ solenoid \in BOOLEAN
  /\ Engine!TypeOK
  /\ events \in Nat
  /\ origin \in Int
  /\ slack \in Nat
  /\ spoilt \in BOOLEAN
  /\ overridden \in BOOLEAN

(* A motor at rest is where stepper_task sent it. *)
RestAtTarget == pc = "idle" => currentPos = targetPos

(* Where the motor is being taken and where the record says differ by no more than the *)
(* truncation of each move to whole steps (strand.cpp 248, 271) and the rounding and   *)
(* braking distance of each stop (strand.cpp 327-341) add up to since the last homing, *)
(* unless a stop corrected the record wrongly or a restart fell back on an older one.  *)
BoundedError == pc # "homing" /\ ~spoilt => Abs(Error) <= slack

(* So does what a user sees: whenever the platform rests, currentPosition tells where. *)
RestAgreement == pc = "idle" /\ ~spoilt => Abs(Place - MmUnit * currentPosition) <= slack

(* At rest the position in RAM, which "update" sends and every save writes, is the one *)
(* stepper_task computes the next displacement from (strand.cpp 376), unless setCurrent *)
(* or a stop of a relative move made them differ.                                      *)
RamAgreement == pc = "idle" /\ ~overridden => device_stepper.current = currentPosition

(* A "reset" at rest (net.c 799-803) comes back with the position it went down with. *)
ResetKeepsPosition ==
  [][Reset /\ pc = "idle" /\ ~overridden => currentPosition' = currentPosition]_vars

(* As long as no command asks for speed 0, every command that was accepted is carried   *)
(* out and the task comes to rest again: no stop, home press or move at the wrong moment *)
(* leaves its loop turning for ever (strand.cpp 296).                                    *)
ComesToRest ==
  (pc # "idle" \/ xQueue_stepper_command # <<>>)
     ~> (pc = "idle" /\ xQueue_stepper_command = <<>>) \/ starved

(* "Distance Shift Calculations" (strand.cpp 327): a stop of a turning motor leaves the *)
(* record no further from the place the motor halts at than rounding and braking allow. *)
StopKeepsRecord ==
  [][PollStop /\ ~stalled /\ Absolute(stepper_type)
       => Abs(Error)' <= Abs(Error) + StepUnit * MaxStop + MmUnit]_vars

=============================================================================
