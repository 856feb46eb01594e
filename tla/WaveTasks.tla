------------------------------ MODULE WaveTasks ------------------------------
(***************************************************************************)
(* The strands of an installation that move in a wave (main/src/net.c      *)
(* 850-1029).  One multicast message reaches many strands; on each of them *)
(* wave_task, sine_task and sine_wave_task turn it into a move, or into a  *)
(* series of moves up and down about a centre, which wave_task and         *)
(* sine_wave_task begin the later the further their strand hangs from the  *)
(* origin of the wave.  The moves go to the one queue of stepper_task, in  *)
(* which those of the three tasks and of app_main mix; of that queue only  *)
(* the length is kept here (StrandStepper has its contents).               *)
(*                                                                         *)
(* Time passes in ticks, by which the delays and the waits run down; the   *)
(* tasks themselves take none.  A tick is a millisecond                    *)
(* (CONFIG_FREERTOS_HZ=1000).                                              *)
(***************************************************************************)
EXTENDS Integers, Sequences, SequencesExt, FiniteSetsExt

CONSTANTS
  Strands,          \* the strands of the installation
  Location,         \* device_location of each
  Commands,         \* what a message may ask for
  Reached,          \* the sets of strands a message may reach
  LimitChanges,     \* what setMin and setMax may make of the limits of a strand
  FirstLimits,      \* the limits of each strand at the start
  TaskQueueLength,  \* of the queue of each task: 10
  MoveQueueLength,  \* of xQueue_stepper_command: 40
  PostWait,         \* how long command_move waits for room there: 20 ticks
  Gap,              \* how long a task sleeps after a move: 10 ticks
  Word,             \* the range of TickType_t: 2^32
  MaxCommands       \* bound of the model: messages

Tasks == {"wave", "sine", "sine_wave"}
Points == [x : Int, y : Int, z : Int]
LimitPairs == [min : Int, max : Int]
(* A negative type, with which command_move posts a move it never set, is left out. *)
CommandType == [task : Tasks, origin : Points, speed : Int, type : Nat, move : Int,
                offset : Int, loops : Int]

ASSUME CommandAssumption == /\ Location \in [Strands -> Points]
                            /\ Commands \subseteq CommandType
                            /\ Reached \subseteq SUBSET Strands
                            /\ LimitChanges \subseteq LimitPairs
                            /\ FirstLimits \in LimitPairs
ASSUME BoundAssumption == /\ {TaskQueueLength, MoveQueueLength, PostWait, Gap, Word}
                               \subseteq Nat \ {0}
                          /\ MaxCommands \in Nat

VARIABLES
  limits,   \* device_stepper.min and .max of each strand
  inbox,    \* xQueue_wave_task, xQueue_sine_task and xQueue_sine_wave_task of each
  task,     \* what each of its tasks is doing, with which order, and for how long still
  waiting,  \* the moves that wait in its xQueue_stepper_command
  posted,   \* history: of each order of a strand, the moves it posted, room or not
  sent      \* messages so far

vars == <<limits, inbox, task, waiting, posted, sent>>

None == [id |-> 0]
Idle == [at |-> "receive", order |-> None, i |-> 0, timer |-> 0]
-------------------------------------------------------------------------------
(* deviceDistanceSpeed: the distance in whole millimetres, over speed / 100.0. *)

Root(x) == CHOOSE r \in 0 .. x : r * r <= x /\ x < (r + 1) * (r + 1)
Square(a) == a * a
Squared(s, p) == Square(Location[s].x - p.x) + Square(Location[s].y - p.y)
                 + Square(Location[s].z - p.z)

(* Faulty variant: the coordinates are added. *)
Distance_Mirrored(s, p) == Root(Squared(s, [x |-> -p.x, y |-> -p.y, z |-> -p.z]))

Distance(s, p) == Root(Squared(s, p))

DelayMs(s, order) == (Distance(s, order.origin) * 100) \div order.speed

(* pdMS_TO_TICKS multiplies in a TickType_t.  A speed that is not positive makes a delay *)
(* that is infinite, no number or negative, whose conversion is undefined: none, or the  *)
(* longest.                                                                              *)
Ticks(ms) == ((ms * 1000) % Word) \div 1000

DelayTicks(s, order) ==
  CASE order.task = "sine" -> {0}
    [] order.task # "sine" /\ order.speed > 0 -> {Ticks(DelayMs(s, order))}
    [] OTHER -> {0, (Word - 1) \div 1000}
-------------------------------------------------------------------------------
(* command_move brings a position within the limits it is given. *)
Within(order, move) ==
  IF order.type < 1 THEN move
  ELSE IF move <= order.min THEN order.min
  ELSE IF move >= order.max THEN order.max
  ELSE move

(* The swings of a series; a wave is one move. *)
Loops(order) == IF order.task = "wave" \/ order.loops < 0 THEN 0 ELSE order.loops

(* The i-th move, from 0: top and bottom in turn, and after the swings the centre. *)
Target(order, i) ==
  IF i = Loops(order) THEN order.move
  ELSE IF i % 2 = 0 THEN order.move + order.offset ELSE order.move - order.offset

(* Faulty variant: the queue takes one move too many. *)
HasRoom_OneMore(s) == waiting[s] <= MoveQueueLength

HasRoom(s) == waiting[s] < MoveQueueLength
-------------------------------------------------------------------------------
(* wave_command, sine_command, sine_wave_command on a strand the message reaches: the   *)
(* order takes the limits of the moment with it, and is dropped when the queue is full. *)
Order(c, s) ==
  [id |-> sent + 1, task |-> c.task, origin |-> c.origin, speed |-> c.speed, type |-> c.type,
   move |-> c.move, offset |-> c.offset, loops |-> c.loops,
   min |-> limits[s].min, max |-> limits[s].max,
   prompt |-> task[s][c.task] = Idle /\ inbox[s][c.task] = <<>>]

Multicast(c, reached) ==
  /\ sent < MaxCommands
  /\ sent' = sent + 1
  /\ inbox' = [s \in Strands |->
       IF s \in reached /\ Len(inbox[s][c.task]) < TaskQueueLength
       THEN [inbox[s] EXCEPT ![c.task] = Append(@, Order(c, s))]
       ELSE inbox[s]]
  /\ UNCHANGED <<limits, task, waiting, posted>>

(* A message that sets the limits (setMin, setMax). *)
SetLimits(s, pair) ==
  /\ sent < MaxCommands
  /\ sent' = sent + 1
  /\ limits' = [limits EXCEPT ![s] = pair]
  /\ UNCHANGED <<inbox, task, waiting, posted>>

(* A message that makes app_main post a move of its own; when there is no room it is lost. *)
DirectMove(s) ==
  /\ sent < MaxCommands /\ HasRoom(s)
  /\ sent' = sent + 1
  /\ waiting' = [waiting EXCEPT ![s] = @ + 1]
  /\ UNCHANGED <<limits, inbox, task, posted>>

(* stepper_task takes the next move. *)
Take(s) ==
  /\ waiting[s] > 0
  /\ waiting' = [waiting EXCEPT ![s] = @ - 1]
  /\ UNCHANGED <<limits, inbox, task, posted, sent>>
-------------------------------------------------------------------------------
(* The three tasks *)

Receive(s, t) ==
  /\ task[s][t].at = "receive" /\ inbox[s][t] # <<>>
  /\ LET order == Head(inbox[s][t]) IN
       \E ticks \in DelayTicks(s, order) :
         task' = [task EXCEPT ![s][t] =
                    [at |-> "delay", order |-> order, i |-> 0, timer |-> ticks]]
  /\ inbox' = [inbox EXCEPT ![s][t] = Tail(@)]
  /\ UNCHANGED <<limits, waiting, posted, sent>>

HasMore(state) == state.i <= Loops(state.order)

(* vTaskDelay returns: to the next move, or to the next order. *)
Wake(s, t) ==
  /\ task[s][t].at \in {"delay", "gap"} /\ task[s][t].timer = 0
  /\ task' = [task EXCEPT ![s][t] =
                IF HasMore(task[s][t]) THEN [@ EXCEPT !.at = "post", !.timer = PostWait]
                ELSE Idle]
  /\ UNCHANGED <<limits, inbox, waiting, posted, sent>>

(* Faulty variant: the limits of the moment of the move. *)
MoveOf_LimitsNow(s, state) ==
  Within([state.order EXCEPT !.min = limits[s].min, !.max = limits[s].max],
         Target(state.order, state.i))

MoveOf(s, state) == Within(state.order, Target(state.order, state.i))

Posted(s, t) ==
  /\ LET order == task[s][t].order IN
       posted' = [posted EXCEPT ![s][order.id] =
                    [order |-> order, moves |-> Append(@.moves, MoveOf(s, task[s][t]))]]
  /\ task' = [task EXCEPT ![s][t].at = "gap", ![s][t].timer = Gap, ![s][t].i = @ + 1]
  /\ UNCHANGED <<limits, inbox, sent>>

Post(s, t) ==
  /\ task[s][t].at = "post" /\ HasRoom(s)
  /\ waiting' = [waiting EXCEPT ![s] = @ + 1]
  /\ Posted(s, t)

(* Faulty variant: the task waits for room as long as it takes. *)
WaitIsOver_Never(state) == FALSE

WaitIsOver(state) == state.timer = 0

(* command_move does not look at what became of the move. *)
GiveUp(s, t) ==
  /\ task[s][t].at = "post" /\ ~HasRoom(s) /\ WaitIsOver(task[s][t])
  /\ UNCHANGED waiting
  /\ Posted(s, t)

Task(s, t) == Receive(s, t) \/ Wake(s, t) \/ Post(s, t) \/ GiveUp(s, t)

(* A task that need not wait acts before time goes on. *)
Ready(s, t) ==
  CASE task[s][t].at = "receive" -> inbox[s][t] # <<>>
    [] task[s][t].at = "post" -> HasRoom(s) \/ WaitIsOver(task[s][t])
    [] OTHER -> task[s][t].timer = 0

Timers == {task[s][t].timer : s \in Strands, t \in Tasks} \ {0}

Tick ==
  /\ \A s \in Strands, t \in Tasks : ~Ready(s, t)
  /\ Timers # {}
  /\ LET step == CHOOSE d \in Timers : \A e \in Timers : d <= e IN
       task' = [s \in Strands |-> [t \in Tasks |->
                  [task[s][t] EXCEPT !.timer = IF @ = 0 THEN 0 ELSE @ - step]]]
  /\ UNCHANGED <<limits, inbox, waiting, posted, sent>>
-------------------------------------------------------------------------------
Init ==
  /\ limits = [s \in Strands |-> FirstLimits]
  /\ inbox = [s \in Strands |-> [t \in Tasks |-> <<>>]]
  /\ task = [s \in Strands |-> [t \in Tasks |-> Idle]]
  /\ waiting = [s \in Strands |-> 0]
  /\ posted = [s \in Strands |-> [id \in 1 .. MaxCommands |-> [order |-> None, moves |-> <<>>]]]
  /\ sent = 0

Working == \E s \in Strands, t \in Tasks : Task(s, t)

Next ==
  \/ Working
  \/ Tick
  \/ \E s \in Strands : DirectMove(s) \/ Take(s)
  \/ \E s \in Strands, pair \in LimitChanges : SetLimits(s, pair)
  \/ \E c \in Commands, reached \in Reached : Multicast(c, reached)

Spec == Init /\ [][Next]_vars

(* Tasks that can go on do, and time goes on.  The motor need not take another move. *)
FairSpec == Spec /\ WF_vars(Working) /\ WF_vars(Tick)
-------------------------------------------------------------------------------
Orders == [id : 1 .. MaxCommands, task : Tasks, origin : Points, speed : Int, type : Nat,
           move : Int, offset : Int, loops : Int, min : Int, max : Int, prompt : BOOLEAN]

(* No queue is longer than it was created for, and a task waits no longer than it may. *)
TypeOK ==
  /\ limits \in [Strands -> LimitPairs]
  /\ \A s \in Strands, t \in Tasks :
       /\ inbox[s][t] \in Seq(Orders) /\ Len(inbox[s][t]) <= TaskQueueLength
       /\ task[s][t].at \in {"receive", "delay", "post", "gap"}
       /\ task[s][t].order = None \/ task[s][t].order \in Orders
       /\ task[s][t].timer \in 0 .. Max({PostWait, Gap, Word \div 1000})
  /\ waiting \in [Strands -> 0 .. MoveQueueLength]

(* A series, as its command was meant: up and down about the centre, starting up, and *)
(* the centre in the end, all within the limits of the moment of the command.         *)
Plan(order) ==
  LET up == Within(order, order.move + order.offset)
      down == Within(order, order.move - order.offset)
      swings == [k \in 1 .. Loops(order) |-> IF k % 2 = 1 THEN up ELSE down]
  IN Append(swings, Within(order, order.move))

Begun(s) == {id \in 1 .. MaxCommands : posted[s][id].moves # <<>>}
Done(s, order) == task[s][order.task].order.id # order.id

(* However the moves of other tasks and of app_main come between, however full the queue *)
(* is and whatever becomes of the limits, a strand posts the moves of a series in the    *)
(* order of its plan, each of them once, and when it turns to the next order the plan    *)
(* has been gone through (net.c 873-1011).                                               *)
SeriesFollowsPlan ==
  \A s \in Strands : \A id \in Begun(s) :
    LET order == posted[s][id].order
        moves == posted[s][id].moves
        plan == Plan(order)
    IN /\ IsPrefix(moves, plan)
       /\ Done(s, order) => moves = plan

(* A wave runs outward: while a strand still sleeps off its delay, no strand that hangs  *)
(* further from the origin has begun to move with it, if the message found both at rest, *)
(* the wave has a speed and its delays are short enough to be counted in ticks           *)
(* (net.c 850-872).                                                                      *)
Counted(s, order) == order.speed > 0 /\ DelayMs(s, order) * 1000 < Word
Sleeps(s, order) == task[s][order.task].at = "delay" /\ task[s][order.task].timer > 0
                    /\ task[s][order.task].order.id = order.id

NearFirst ==
  \A near, far \in Strands : \A id \in Begun(far) :
    LET order == posted[far][id].order IN
      ~ /\ Squared(near, order.origin) <= Squared(far, order.origin)
        /\ Counted(far, order)
        /\ order.prompt /\ Sleeps(near, order) /\ task[near][order.task].order.prompt

(* Every order a task has is carried out to its end, even if the motor is stuck and the *)
(* queue of moves stays full (strand.cpp 110: a move waits for 20 ticks only).          *)
SeriesEnd ==
  \A s \in Strands, t \in Tasks :
    task[s][t].at # "receive" \/ inbox[s][t] # <<>>
      ~> task[s][t].at = "receive" /\ inbox[s][t] = <<>>
===============================================================================
