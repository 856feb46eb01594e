------------------------- MODULE StrandStepper_proofs -------------------------
(* Theorems about StrandStepper, for every queue length, command set and distance. *)
EXTENDS StrandStepper, TLAPS

(* The conversion of a distance to whole steps gives an integer. *)
LEMMA TruncateInt ==
  ASSUME NEW a \in Int, NEW b \in Nat \ {0}
  PROVE  Truncate(a, b) \in Int
  BY DEF Truncate

(* The distance a command is cut to is an integer. *)
LEMMA ClampInt ==
  ASSUME TypeOK, NEW type \in Types, NEW move \in Moves
  PROVE  Clamp(type, move) \in Int
  BY CommandAssumption DEF Clamp, TypeOK, Parameters

(* A motor that may stall is stalled or not. *)
LEMMA StallType == ASSUME Engine!MayStall PROVE stalled' \in BOOLEAN
<1>1. CASE starved'
  BY <1>1, Zenon DEF Engine!MayStall
<1>2. CASE ~starved'
  BY <1>2, Zenon DEF Engine!MayStall
<1> QED
  BY <1>1, <1>2

(* What the motor does leaves its variables of their types. *)
LEMMA MotorType ==
  ASSUME Engine!TypeOK, Engine!Step \/ Engine!Stop \/ Engine!Home \/ Engine!ReachTarget
  PROVE  Engine!TypeOK'
<1>1. currentPos \in Int /\ targetPos \in Int /\ coasting \in Nat /\ Engine!Direction \in Int
  BY DEF Engine!TypeOK, Engine!Direction, Engine!Sign
<1>2. starved' \in BOOLEAN
  BY Zenon DEF Engine!TypeOK, Engine!Step, Engine!Stop, Engine!Home, Engine!ReachTarget
<1>3. stalled' \in BOOLEAN
  BY StallType, Zenon DEF Engine!TypeOK, Engine!Step, Engine!Stop, Engine!Home, Engine!ReachTarget
<1>4. currentPos' \in Int
  BY <1>1 DEF Engine!Step, Engine!Stop, Engine!Home, Engine!ReachTarget
<1>5. coasting' \in Nat
  BY <1>1 DEF Engine!Step, Engine!Stop, Engine!Home, Engine!ReachTarget
<1>6. targetPos' \in Int
  <2>1. ASSUME NEW s \in 1 .. MaxStop, targetPos' = currentPos + Engine!Direction * s
        PROVE  targetPos' \in Int
    BY <1>1, <2>1, BoundAssumption
  <2>2. HomeSteps \in Int
    BY BoundAssumption
  <2> QED
    BY <1>1, <2>1, <2>2 DEF Engine!Step, Engine!Stop, Engine!Home, Engine!ReachTarget
<1> QED
  BY <1>2, <1>3, <1>4, <1>5, <1>6, Zenon DEF Engine!TypeOK

(* So does a command, whatever it asks for. *)
LEMMA MoveType ==
  ASSUME Engine!TypeOK, NEW steps \in Int, NEW speed \in Nat, Engine!Move(steps, speed)
  PROVE  Engine!TypeOK'
<1>1. currentPos' \in Int /\ targetPos' \in Int
  BY DEF Engine!TypeOK, Engine!Move
<1>2. coasting' \in Nat
  BY BoundAssumption DEF Engine!Move
<1>3. starved' \in BOOLEAN
  BY Zenon DEF Engine!Move
<1>4. stalled' \in BOOLEAN
  BY StallType, Zenon DEF Engine!Move
<1> QED
  BY <1>1, <1>2, <1>3, <1>4, Zenon DEF Engine!TypeOK

(* And whatever leaves the motor alone. *)
LEMMA MotorKept ==
  ASSUME Engine!TypeOK, UNCHANGED motorVars
  PROVE  Engine!TypeOK'
  BY Zenon DEF Engine!TypeOK, motorVars

(* The first boot leaves every variable of its type. *)
LEMMA InitType == Init => TypeOK
<1> SUFFICES ASSUME Init PROVE TypeOK
  OBVIOUS
<1>1. origin \in Int /\ currentPosition \in Int
  BY ParameterAssumption DEF Init, Parameters, MmUnit
<1>2. /\ xQueue_stepper_command \in Seq(Command)
      /\ Len(xQueue_stepper_command) <= QueueLength
  BY BoundAssumption DEF Init
<1> QED
  <2>1. /\ stepper_type \in Int /\ stepper_move \in Int
        /\ events \in Nat /\ slack \in Nat
    BY DEF Init
  <2>2. Engine!TypeOK
    <3>1. currentPos \in Int /\ targetPos \in Int /\ coasting \in Nat
      BY DEF Init, Engine!Start
    <3> QED
      BY <3>1, Zenon DEF Init, Engine!Start, Engine!TypeOK
  <2> QED
    BY <1>1, <1>2, <2>1, <2>2, ParameterAssumption, Zenon DEF Init, TypeOK

(* Every action keeps every variable of its type. *)
LEMMA NextType == TypeOK /\ [Next]_vars => TypeOK'
<1> SUFFICES ASSUME TypeOK, [Next]_vars PROVE TypeOK'
  OBVIOUS
<1> USE DEF TypeOK
<1>1. ASSUME NEW type \in Types, NEW move \in Moves, NEW speed \in Speeds,
             CommandMove(type, move, speed)
      PROVE  TypeOK'
  <2>1. Clamp(type, move) \in Int
    BY ClampInt
  <2>2. [type |-> type, move |-> Clamp(type, move), speed |-> speed] \in Command
    BY <2>1, CommandAssumption DEF Command
  <2> QED
    <3>1. /\ xQueue_stepper_command' \in Seq(Command)
          /\ Len(xQueue_stepper_command') <= QueueLength
          /\ events' \in Nat
      BY <1>1, <2>2, BoundAssumption DEF CommandMove, Event, QueueHasRoom
    <3> QED
      BY <1>1, <3>1, MotorKept, Zenon DEF CommandMove, taskVars, ledger
<1>2. ASSUME NEW bit \in {HOME_BIT, STOP_BIT}, NotifyTask(bit)
      PROVE  TypeOK'
  <2>1. events' \in Nat
    BY <1>2 DEF NotifyTask, Event
  <2>2. notify' \subseteq {HOME_BIT, STOP_BIT}
    BY <1>2 DEF NotifyTask
  <2> QED
    BY <1>2, <2>1, <2>2, MotorKept, Zenon DEF NotifyTask, taskVars, ledger
<1>3. ASSUME NEW field \in {"current", "min", "max"}, NEW value \in Limits,
             SetParameter(field, value)
      PROVE  TypeOK'
  <2>1. [device_stepper EXCEPT ![field] = value] \in Parameters
    BY ParameterAssumption DEF Parameters
  <2>2. overridden' \in BOOLEAN
    BY <1>3, Zenon DEF SetParameter
  <2>3. device_stepper' \in Parameters /\ nvs' \in Parameters /\ events' \in Nat
    BY <1>3, <2>1 DEF SetParameter, Event
  <2> QED
    BY <1>3, <2>2, <2>3, MotorKept, Zenon DEF SetParameter, taskVars
<1>4. CASE Receive
  <2> DEFINE c == Head(xQueue_stepper_command)
             steps == Displacement(c)
  <2>1. /\ c \in Command
        /\ Tail(xQueue_stepper_command) \in Seq(Command)
        /\ Len(Tail(xQueue_stepper_command)) <= QueueLength
    BY <1>4, BoundAssumption DEF Receive
  <2>2. steps \in Int
    <3>1. /\ c.move \in Int
          /\ (c.move - currentPosition) * MmUnit \in Int
          /\ StepUnit \in Nat \ {0}
      BY <2>1 DEF Command, MmUnit, StepUnit
    <3>2. ToSteps(c.move - currentPosition) \in Int
      BY <3>1, TruncateInt DEF ToSteps
    <3> QED
      BY <3>1, <3>2 DEF Displacement
  <2>3. SpeedFor(c) \in Nat
    BY <2>1 DEF Command, SpeedFor
  <2>4. /\ stepper_type' \in Int
        /\ stepper_move' \in Int
        /\ currentPosition' \in Int
    <3>1. c.type \in Int /\ c.move \in Int
      BY <2>1 DEF Command
    <3> QED
      BY <1>4, <3>1, <2>2 DEF Receive
  <2>6. Engine!TypeOK'
    <3>1. Engine!Move(steps, SpeedFor(c))
      BY <1>4 DEF Receive
    <3> QED
      BY <2>2, <2>3, <3>1, MoveType
  <2>5. origin' \in Int /\ slack' \in Nat
    BY <1>4, <2>2 DEF Receive, StepUnit
  <2> QED
    BY <1>4, <2>1, <2>4, <2>5, <2>6, Zenon DEF Receive
<1>5. CASE Run
  <2>1. Engine!TypeOK'
    BY <1>5, MotorType DEF Run
  <2> QED
    BY <1>5, <2>1, Zenon DEF Run, taskVars, ledger
<1>6. CASE PollStop
  <2>1. currentPosition' \in Int
    <3> DEFINE toGo == targetPos - currentPos
    <3>1. /\ currentPosition * MmUnit + StepUnit * toGo \in Int
          /\ currentPosition * MmUnit - StepUnit * toGo \in Int
          /\ MmUnit \in Nat \ {0}
      BY DEF MmUnit, StepUnit, Engine!TypeOK
    <3> QED
      BY <1>6, <3>1, TruncateInt DEF PollStop, StoppedRecord
  <2>2. Engine!TypeOK'
    BY <1>6, MotorType DEF PollStop
  <2>4. spoilt' \in BOOLEAN /\ overridden' \in BOOLEAN
    BY <1>6, Zenon DEF PollStop
  <2>3. slack' \in Nat
    BY <1>6, BoundAssumption DEF PollStop, MmUnit, StepUnit
  <2> QED
    BY <1>6, <2>1, <2>2, <2>3, <2>4, Zenon DEF PollStop
<1>7. CASE PollHome
  <2>1. Engine!TypeOK'
    BY <1>7, MotorType DEF PollHome
  <2> QED
    BY <1>7, <2>1, Zenon DEF PollHome, ledger
<1>8. CASE HomeReached
  <2>1. device_stepper' \in Parameters /\ nvs' \in Parameters
    <3>1. [device_stepper EXCEPT !.current = 0] \in Parameters
      BY DEF Parameters
    <3> QED
      BY <1>8, <3>1 DEF HomeReached
  <2>2. /\ currentPosition' \in Int
        /\ origin' \in Int /\ slack' \in Nat
    BY <1>8 DEF HomeReached, StepUnit, Engine!TypeOK
  <2>3. Engine!TypeOK'
    BY <1>8, MotorType DEF HomeReached
  <2> QED
    BY <1>8, <2>1, <2>2, <2>3, Zenon DEF HomeReached
<1>9. CASE Finish
  <2>1. device_stepper' \in Parameters
    <3>1. [device_stepper EXCEPT !.current = currentPosition] \in Parameters
      BY DEF Parameters
    <3> QED
      BY <1>9, <3>1 DEF Finish
  <2>2. overridden' \in BOOLEAN
    BY <1>9, Zenon DEF Finish
  <2> QED
    BY <1>9, <2>1, <2>2, MotorKept, Zenon DEF Finish
<1>10. ASSUME NEW saved \in Parameters, Event, Boot(saved)
       PROVE  TypeOK'
  <2>1. currentPosition' \in Int
    BY <1>10 DEF Boot, Parameters
  <2>2. origin' \in Int /\ events' \in Nat
    BY <1>10 DEF Boot, Place, StepUnit, Event, Engine!TypeOK
  <2>3. spoilt' \in BOOLEAN
    BY <1>10, Zenon DEF Boot
  <2>4. /\ xQueue_stepper_command' \in Seq(Command)
        /\ Len(xQueue_stepper_command') <= QueueLength
    BY <1>10, BoundAssumption DEF Boot
  <2>5. /\ stepper_type' \in Int /\ stepper_move' \in Int
    BY <1>10 DEF Boot
  <2>6. Engine!TypeOK'
    <3>1. currentPos' \in Int /\ targetPos' \in Int /\ coasting' \in Nat
      BY <1>10 DEF Boot
    <3> QED
      BY <1>10, <3>1, Zenon DEF Boot, Engine!TypeOK
  <2> QED
    BY <1>10, <2>1, <2>2, <2>3, <2>4, <2>5, <2>6, Zenon DEF Boot
<1>11. CASE UNCHANGED vars
  BY <1>11, MotorKept, Zenon DEF vars, taskVars, ledger
<1> QED
  BY <1>1, <1>2, <1>3, <1>4, <1>5, <1>6, <1>7, <1>8, <1>9, <1>10, <1>11
  DEF Next, Task, Environment, HomeSwitch, StopCommand, Reset, PowerLoss

(* Every variable keeps its type, for all commands, notifications and restarts. *)
THEOREM TypeCorrect == Spec => []TypeOK
  BY InitType, NextType, PTL DEF Spec
-----------------------------------------------------------------------------
(* The record follows the motor.  BoundedError is inductive together with TypeOK and *)
(* RestAtTarget: a command is measured from where the motor rests, so the motor has  *)
(* to rest where it was sent.                                                        *)

(* Truncating to whole steps loses less than one step, in either direction. *)
LEMMA TruncateNear ==
  ASSUME NEW a \in Int, NEW b \in Nat \ {0}
  PROVE  /\ b * Truncate(a, b) <= a + b - 1
         /\ a - (b - 1) <= b * Truncate(a, b)
  BY DEF Truncate

RecordInv == TypeOK /\ RestAtTarget /\ BoundedError

(* At the first boot the record and the motor agree exactly. *)
LEMMA InitRecord == Init => RecordInv
<1> SUFFICES ASSUME Init PROVE RestAtTarget /\ BoundedError
  BY InitType DEF RecordInv
<1>1. FirstBoot.current \in Int
  BY ParameterAssumption DEF Parameters
<1>2. Error = 0 /\ slack = 0
  BY <1>1 DEF Init, Engine!Start, Error, Aim, StepUnit, MmUnit
<1> QED
  BY <1>2 DEF Init, Engine!Start, RestAtTarget, BoundedError, Abs

(* Every action that leaves the motor at rest leaves it at its target. *)
LEMMA NextRest == TypeOK /\ RestAtTarget /\ [Next]_vars => RestAtTarget'
<1> SUFFICES ASSUME TypeOK, RestAtTarget, [Next]_vars PROVE RestAtTarget'
  OBVIOUS
<1> USE DEF RestAtTarget
<1>1. CASE Environment
  <2>1. \/ UNCHANGED <<taskVars, motorVars>>
        \/ currentPos' = targetPos'
    BY <1>1 DEF Environment, CommandMove, HomeSwitch, StopCommand, NotifyTask, SetParameter,
                Reset, PowerLoss, Boot
  <2> QED
    BY <2>1 DEF taskVars, motorVars
<1>2. CASE Task
  BY <1>2 DEF Task, Receive, Run, PollStop, PollHome, HomeReached, Finish, Engine!Arrived,
              taskVars, motorVars
<1>3. CASE UNCHANGED vars
  BY <1>3 DEF vars, taskVars, motorVars
<1> QED
  BY <1>1, <1>2, <1>3 DEF Next

(* A move accepted adds to the error at most what it adds to slack. *)
LEMMA ReceiveError == RecordInv /\ Receive => BoundedError'
<1> SUFFICES ASSUME RecordInv, Receive, ~spoilt PROVE Abs(Error') <= slack'
  <2>1. Receive => spoilt' = spoilt
    BY DEF Receive
  <2> QED
    BY <2>1 DEF BoundedError
<1> USE DEF RecordInv
<1> DEFINE c == Head(xQueue_stepper_command)
           steps == Displacement(c)
<1>1. c \in Command
  BY DEF Receive, TypeOK
<1>2. /\ c.type \in Int /\ c.move \in Int
      /\ currentPosition \in Int /\ stepper_move \in Int
      /\ currentPos \in Int /\ targetPos \in Int /\ origin \in Int /\ slack \in Nat
  BY <1>1 DEF Command, TypeOK, Engine!TypeOK
<1>3. currentPos = targetPos /\ Abs(Error) <= slack
  BY DEF Receive, RestAtTarget, BoundedError
<1>4. CASE Absolute(c.type)
  <2> DEFINE way == (c.move - currentPosition) * MmUnit
  <2>1. way \in Int /\ StepUnit \in Nat \ {0}
    BY <1>2 DEF MmUnit, StepUnit
  <2>2. steps = Truncate(way, StepUnit)
    BY <1>4 DEF Displacement, ToSteps
  <2>3. steps \in Int
    BY <2>1, <2>2, TruncateInt
  <2>4. StepUnit * steps <= way + StepUnit - 1 /\ way - (StepUnit - 1) <= StepUnit * steps
    BY <2>1, <2>2, TruncateNear
  <2>5. /\ currentPosition' = c.move
        /\ targetPos' = currentPos + steps
        /\ origin' = origin
        /\ slack' = slack + StepUnit - 1
    BY <1>4 DEF Receive, Engine!Move
  <2>6. Error' = Error + StepUnit * steps - way
    BY <1>2, <1>3, <2>3, <2>5 DEF Error, Aim, StepUnit, MmUnit
  <2> HIDE DEF steps
  <2> QED
    BY <1>2, <1>3, <2>1, <2>3, <2>4, <2>5, <2>6 DEF Error, Aim, Abs, StepUnit, MmUnit
<1>5. CASE ~Absolute(c.type)
  <2>1. steps \in Int
    BY <1>2, <1>5 DEF Displacement
  <2>2. /\ currentPosition' = currentPosition
        /\ targetPos' = currentPos + steps
        /\ origin' = origin + StepUnit * steps
        /\ slack' = slack
    BY <1>5 DEF Receive, Engine!Move
  <2>3. Error' = Error
    BY <1>2, <1>3, <2>1, <2>2 DEF Error, Aim, StepUnit, MmUnit
  <2> QED
    BY <1>3, <2>2, <2>3
<1> QED
  BY <1>4, <1>5

(* A stop the code corrects rightly adds at most what it adds to slack. *)
LEMMA StopError == RecordInv /\ PollStop => BoundedError'
<1> SUFFICES ASSUME RecordInv, PollStop, ~spoilt, ~StopSpoils PROVE Abs(Error') <= slack'
  BY DEF BoundedError, PollStop
<1> USE DEF RecordInv
<1> DEFINE toGo == targetPos - currentPos
           way == currentPosition * MmUnit - StepUnit * toGo
<1>1. /\ currentPosition \in Int /\ currentPos \in Int /\ targetPos \in Int
      /\ origin \in Int /\ slack \in Nat
  BY DEF TypeOK, Engine!TypeOK
<1>2. Abs(Error) <= slack
  BY DEF PollStop, BoundedError
<1>3. PICK s \in 1 .. MaxStop : targetPos' = currentPos + Engine!Direction * s
  BY DEF PollStop, StopSpoils, Engine!Stop
<1>4. s \in Int /\ MaxStop \in Int /\ 1 <= s /\ s <= MaxStop
  BY BoundAssumption
<1> DEFINE brake == Engine!Direction * s
<1>5. brake \in Int /\ -MaxStop <= brake /\ brake <= MaxStop
  <2>1. CASE Engine!Direction = 1
    BY <1>4, <2>1
  <2>2. CASE Engine!Direction = 0
    BY <1>4, <2>2
  <2>3. CASE Engine!Direction = -1
    BY <1>4, <2>3
  <2>4. Engine!Sign(toGo) = 1 \/ Engine!Sign(toGo) = 0 \/ Engine!Sign(toGo) = -1
    BY DEF Engine!Sign
  <2>5. Engine!Direction = Engine!Sign(toGo) \/ Engine!Direction = -Engine!Sign(toGo)
    BY DEF Engine!Direction
  <2>6. Engine!Direction = 1 \/ Engine!Direction = 0 \/ Engine!Direction = -1
    <3> HIDE DEF toGo
    <3> QED
      BY <2>4, <2>5
  <2> QED
    BY <2>1, <2>2, <2>3, <2>6
<1>6. way \in Int /\ MmUnit \in Nat \ {0}
  BY <1>1 DEF MmUnit, StepUnit
<1>7. currentPosition' = Truncate(way, MmUnit)
  BY DEF PollStop, StopSpoils, StoppedRecord
<1>8. currentPosition' \in Int
  BY <1>6, <1>7, TruncateInt
<1>9. /\ MmUnit * currentPosition' <= way + MmUnit - 1
      /\ way - (MmUnit - 1) <= MmUnit * currentPosition'
  BY <1>6, <1>7, TruncateNear
<1>10. /\ origin' = origin
       /\ slack' = slack + StepUnit * MaxStop + MmUnit - 1
  BY DEF PollStop
<1>11. Error' = Error + StepUnit * brake + way - MmUnit * currentPosition'
  <2> HIDE DEF brake
  <2> QED
    BY <1>1, <1>3, <1>5, <1>8, <1>10 DEF Error, Aim, StepUnit, MmUnit, brake
<1>12. Error \in Int
  BY <1>1 DEF Error, Aim, StepUnit, MmUnit
<1> HIDE DEF brake, way
<1>13. 0 <= slack + Error /\ Error <= slack
  BY <1>1, <1>2, <1>12 DEF Abs
<1> DEFINE late == Error'
           room == slack'
<1>14. late \in Int /\ room \in Int
  BY <1>1, <1>4, <1>5, <1>6, <1>8, <1>10, <1>11, <1>12 DEF StepUnit, MmUnit
<1>15. 0 <= room + late /\ late <= room
  <2> DEFINE error == Error
             mm == MmUnit * currentPosition'
  <2>1. /\ late = error + StepUnit * brake + way - mm
        /\ mm <= way + MmUnit - 1 /\ way - (MmUnit - 1) <= mm
        /\ room = slack + StepUnit * MaxStop + MmUnit - 1
        /\ 0 <= slack + error /\ error <= slack
    BY <1>9, <1>10, <1>11, <1>13
  <2>2. mm \in Int /\ error \in Int /\ slack \in Int
    BY <1>1, <1>8, <1>12 DEF MmUnit
  <2> HIDE DEF late, room, error, mm
  <2> QED
    BY <2>1, <2>2, <1>4, <1>5, <1>6, <1>14 DEF StepUnit, MmUnit
<1> HIDE DEF late, room
<1>16. Abs(late) <= room
  BY <1>14, <1>15 DEF Abs
<1> QED
  BY <1>16 DEF late, room

(* A start from parameters that hold the record of a motor at rest keeps the bound. *)
LEMMA BootError ==
  ASSUME RecordInv, NEW saved \in Parameters, Boot(saved)
  PROVE  BoundedError'
<1> SUFFICES ASSUME ~spoilt, pc = "idle", saved.current = currentPosition
             PROVE  Abs(Error') <= slack'
  BY DEF BoundedError, Boot
<1> USE DEF RecordInv
<1>1. /\ currentPosition \in Int /\ currentPos \in Int /\ targetPos \in Int
      /\ origin \in Int
  BY DEF TypeOK, Engine!TypeOK
<1>2. currentPos = targetPos /\ Abs(Error) <= slack
  BY DEF RestAtTarget, BoundedError
<1>3. /\ currentPosition' = currentPosition
      /\ targetPos' = 0
      /\ origin' = -(StepUnit * currentPos - origin)
      /\ slack' = slack
  BY DEF Boot, Place
<1>4. Error' = Error
  BY <1>1, <1>2, <1>3 DEF Error, Aim, StepUnit, MmUnit
<1> QED
  BY <1>2, <1>3, <1>4 DEF Abs

(* Every action keeps the record within slack of the motor. *)
LEMMA NextRecord == RecordInv /\ [Next]_vars => RecordInv'
<1> SUFFICES ASSUME RecordInv, [Next]_vars PROVE BoundedError'
  BY NextType, NextRest DEF RecordInv
<1> USE DEF RecordInv
<1>1. ASSUME UNCHANGED <<targetPos, currentPosition, pc, slack, spoilt, origin>>
      PROVE  BoundedError'
  BY <1>1 DEF BoundedError, Error, Aim
<1>2. ASSUME NEW type \in Types, NEW move \in Moves, NEW speed \in Speeds,
             CommandMove(type, move, speed)
      PROVE  BoundedError'
  BY <1>1, <1>2 DEF CommandMove, taskVars, motorVars, ledger
<1>3. ASSUME NEW bit \in {HOME_BIT, STOP_BIT}, NotifyTask(bit)
      PROVE  BoundedError'
  BY <1>1, <1>3 DEF NotifyTask, taskVars, motorVars, ledger
<1>4. ASSUME NEW field \in {"current", "min", "max"}, NEW value \in Limits,
             SetParameter(field, value)
      PROVE  BoundedError'
  BY <1>1, <1>4 DEF SetParameter, taskVars, motorVars
<1>5. CASE Receive
  BY <1>5, ReceiveError
<1>6. CASE Run
  BY <1>1, <1>6 DEF Run, Engine!Step, taskVars, ledger
<1>7. CASE PollStop
  BY <1>7, StopError
<1>8. CASE PollHome
  BY <1>8 DEF PollHome, BoundedError
<1>9. CASE HomeReached
  <2>1. Error' = 0 /\ slack' = 0
    BY <1>9 DEF HomeReached, Engine!ReachTarget, Engine!TypeOK, Error, Aim, TypeOK, StepUnit, MmUnit
  <2> QED
    BY <2>1 DEF BoundedError, Abs
<1>10. CASE Finish
  BY <1>10 DEF Finish, BoundedError, Error, Aim, motorVars
<1>11. CASE Reset \/ PowerLoss
  BY <1>11, BootError DEF Reset, PowerLoss, TypeOK
<1>12. CASE UNCHANGED vars
  BY <1>1, <1>12 DEF vars, taskVars, motorVars, ledger
<1> QED
  BY <1>2, <1>3, <1>4, <1>5, <1>6, <1>7, <1>8, <1>9, <1>10, <1>11, <1>12
  DEF Next, Task, Environment, HomeSwitch, StopCommand

(* Whatever is moved, stopped, homed and restarted, and for any braking distance, the *)
(* record is wrong by no more than rounding and braking add up to since homing, unless *)
(* a stop of a downward or relative move or a restart without a save spoilt it.        *)
THEOREM RecordFollowsMotor == Spec => []BoundedError
<1>1. RecordInv => BoundedError
  BY DEF RecordInv
<1> QED
  BY InitRecord, NextRecord, <1>1, PTL DEF Spec

(* The loop of stepper_task leaves the motor where it sent it. *)
THEOREM RestsAtTarget == Spec => []RestAtTarget
<1>1. RecordInv => RestAtTarget
  BY DEF RecordInv
<1> QED
  BY InitRecord, NextRecord, <1>1, PTL DEF Spec

(* At rest this bounds the distance between the record and the platform itself. *)
THEOREM RestFollowsMotor == Spec => []RestAgreement
<1>1. RecordInv => RestAgreement
  BY DEF RecordInv, RestAtTarget, BoundedError, RestAgreement, Error, Aim, Place
<1> QED
  BY InitRecord, NextRecord, <1>1, PTL DEF Spec
-----------------------------------------------------------------------------
(* The position in RAM is the task's.  A relative move (type < 1) does not write it at *)
(* its end, so the two have to agree all through such a move.                          *)

RamInv ==
  /\ TypeOK
  /\ (pc = "idle" \/ ~Recorded(stepper_type)) /\ ~overridden
       => device_stepper.current = currentPosition

(* At the first boot the parameters hold what the task has recorded. *)
LEMMA InitRam == Init => RamInv
  BY InitType DEF Init, RamInv

(* Every action keeps the parameters in step with the task, as the ledger says. *)
LEMMA NextRam == RamInv /\ [Next]_vars => RamInv'
<1> SUFFICES ASSUME RamInv, [Next]_vars,
                    (pc = "idle" \/ ~Recorded(stepper_type))', ~overridden'
             PROVE  device_stepper'.current = currentPosition'
  BY NextType DEF RamInv
<1> USE DEF RamInv
<1>1. ASSUME NEW type \in Types, NEW move \in Moves, NEW speed \in Speeds,
             CommandMove(type, move, speed)
      PROVE  device_stepper'.current = currentPosition'
  BY <1>1 DEF CommandMove, taskVars, ledger, Recorded
<1>2. ASSUME NEW bit \in {HOME_BIT, STOP_BIT}, NotifyTask(bit)
      PROVE  device_stepper'.current = currentPosition'
  BY <1>2 DEF NotifyTask, taskVars, ledger, Recorded
<1>3. ASSUME NEW field \in {"current", "min", "max"}, NEW value \in Limits,
             SetParameter(field, value)
      PROVE  device_stepper'.current = currentPosition'
  <2>1. field # "current" /\ ~overridden
    BY <1>3 DEF SetParameter
  <2>2. device_stepper'.current = device_stepper.current
    BY <1>3, <2>1 DEF SetParameter, TypeOK, Parameters
  <2> QED
    BY <1>3, <2>1, <2>2 DEF SetParameter, taskVars, Recorded
<1>4. CASE Receive
  <2> DEFINE c == Head(xQueue_stepper_command)
  <2>1. ~Recorded(c.type) /\ c \in Command
    BY <1>4 DEF Receive, Recorded, TypeOK
  <2>2. ~Absolute(c.type)
    BY <2>1 DEF Recorded, Absolute, Command
  <2> QED
    BY <1>4, <2>2 DEF Receive
<1>5. CASE Run
  BY <1>5 DEF Run, taskVars, ledger, Recorded
<1>6. CASE PollStop
  <2>1. ~Recorded(stepper_type)
    BY <1>6 DEF PollStop
  <2>2. stepper_type < 1
    BY <2>1 DEF Recorded, TypeOK
  <2> QED
    BY <1>6, <2>2 DEF PollStop
<1>7. CASE PollHome
  BY <1>7 DEF PollHome, ledger, Recorded
<1>8. CASE HomeReached
  <2>1. device_stepper'.current = 0
    BY <1>8 DEF HomeReached, TypeOK, Parameters
  <2> QED
    BY <1>8, <2>1 DEF HomeReached
<1>9. CASE Finish
  <2>1. CASE Recorded(stepper_type)
    BY <1>9, <2>1 DEF Finish, TypeOK, Parameters
  <2>2. CASE ~Recorded(stepper_type)
    BY <1>9, <2>2 DEF Finish
  <2> QED
    BY <2>1, <2>2
<1>10. CASE Reset \/ PowerLoss
  BY <1>10 DEF Reset, PowerLoss, Boot
<1>11. CASE UNCHANGED vars
  BY <1>11 DEF vars, taskVars, ledger, Recorded
<1> QED
  BY <1>1, <1>2, <1>3, <1>4, <1>5, <1>6, <1>7, <1>8, <1>9, <1>10, <1>11
  DEF Next, Task, Environment, HomeSwitch, StopCommand

(* At rest RAM holds the position the next displacement is computed from, unless *)
(* setCurrent or a stop of a relative move set them apart.                       *)
THEOREM RamFollowsTask == Spec => []RamAgreement
<1>1. RamInv => RamAgreement
  BY DEF RamInv, RamAgreement
<1> QED
  BY InitRam, NextRam, <1>1, PTL DEF Spec

(* So a "reset" at rest comes back with the position it went down with. *)
THEOREM ResetResumes == Spec => ResetKeepsPosition
<1>1. RamInv /\ [Next]_vars
        => [Reset /\ pc = "idle" /\ ~overridden => currentPosition' = currentPosition]_vars
  BY DEF RamInv, Reset, Boot
<1> QED
  BY InitRam, NextRam, <1>1, PTL DEF Spec, ResetKeepsPosition
=============================================================================
