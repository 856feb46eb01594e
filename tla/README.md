# Strand firmware: TLA+ models, checks and proofs

A strand is an ESP32 that lets a platform down from the ceiling with a stepper motor. It
takes commands over UDP multicast, UDP broadcast and TCP, keeps its position and limits in
flash, and drives the motor from a task of its own. The program is `main/src/main.cpp`,
`main/src/net.c`, `main/src/strand.cpp` and their headers; it runs on ESP-IDF 3.2.2 with
FreeRTOS on two cores, and uses the library AccelStepper for the motion of the motor.

This directory has a TLA+ module for each part of the program that keeps state, the TLC
instances that check it, and proofs that TLAPS checks. `PROJECT.json` lists components,
runs, the source lines of every definition, hazards, findings and theorems.

To check: `tlc -config MCTcpServer_timely.cfg MCTcpServer` for a run, `tlapm
TcpServer_proofs.tla` for the proofs.

## Inventory

| Component | State | Operations | Talks to |
|---|---|---|---|
| Stepper task (strand.cpp 62-112, 221-387) | command queue (40), notification bits, `currentPosition`, `stepper_move`, AccelStepper's position, target and speed, the solenoid brake | `command_move`, the loop of `stepper_task`, the home switch's `isr`, the "stop" notification | filled by the command handler and the wave tasks; stores positions in the parameter store |
| Parameter store (net.c 101-231) | `device_stepper`, `device_location`, their copy in flash, the NVS handle | `setPramamter`, `saveParamters`, `command_set_*`, `command_init_*`, `nvs_set_value`, `nvs_get_value` | called by app_main and, on homing, by the stepper task |
| Network tasks and dispatcher (net.c 398-649, 763; main.cpp 88-264) | three queues, the queue set, the sockets | receive and post, restart after a socket failure, join the set, select, receive | feed the command handler |
| Command handler (net.c 348-379, 1031-1262) | `multicast_id`, `command_line` | splitting, detection of duplicates, 20 commands | stepper queue, wave queues, parameter store, TCP answers, UDP messages |
| TCP server (net.c 650-791) | the client, `respond_value`, queues of commands and of answers (5 each) | accept, receive, post, poll for a second, reply, close | command handler through the two queues |
| Wave and sine tasks (net.c 850-1029) | three queues (10 each) | one command becomes a delayed or repeated series of moves | stepper queue |
| Start-up and WiFi link (net.c 233-292, main.cpp 88-156) | the event group with `CONNECTED_BIT` | connect, reconnect, order of start-up | every task |
| Messages to the server (net.c 380-397, 805-849) | a socket for each message | `server_ping`, `updateUdp` | sockets shared with the network tasks |
| Firmware update (net.c 293-346, 794) | a task per `ota` command | save, download, restart | parameter store, WiFi link |
| Motor driver set-up (strand.cpp 134-219) | driver registers | `init_strand` | stepper task |
| AccelStepper (libraries/AccelStepper) | position, target, speed, step counter and interval of the motor | `move`, `run`, `stop`, `setMaxSpeed`, `setAcceleration`, `setCurrentPosition`, `runToNewPosition` | stepper task |
| MultiStepper, Stepper, TMCStepper | | third-party code; the program calls of it only the TMC driver's set-up | |
| Board test (main.cpp 164-230) | a pulse-width channel | an endless loop in this commit | keeps app_main from the dispatcher |

What is hard about it:

* **Interleavings.** app_main (priority 1) and `stepper_task` (priority 4, core 1) share
  `device_stepper` and one NVS handle without a lock; notifications reach the stepper task
  in the middle of a move, between two moves and during homing.
* **Failure and restart.** Power may fail between any two NVS calls; a reset may come
  during a move; positions are saved lazily; sockets fail and queues are created again.
* **Order and delivery.** UDP messages are lost, repeated and reordered; three queues are
  joined in one set; an answer may come later than the second its client waits.
* **Limits.** A queue set smaller than its members, answer and command queues of five,
  rounding of millimetres to steps that adds up from move to move; ten sockets, of which
  every message to the server keeps one; a series of moves posted faster than the motor
  takes them.
* **Speed.** The motor has a speed that outlives the move that gave it: a stop, a homing or
  a new command meets a motor that turns.

What makes each component correct: the record of the position and the motor agree
(stepper task); a parameter set is durable and comes back old or new (store); a message
taken in is handled, once and in order (queues); a message is carried out once, with its
own arguments (handler); a client gets its own answer and is let go (TCP server); a series
of moves is gone through in its order and waves run outward (wave tasks); the motor goes
where it is told, within its speed, and comes to rest (AccelStepper); `CONNECTED_BIT` tells
the link and a lost link comes back (WiFi); no socket is lost (messages to the server); an
update ends, and costs no move that ended before it (firmware update).

## Modules

Each module keeps the names of the source where it can. An operator named
`Definition_Variant` is a faulty version of `Definition`, used to see that the properties
notice that fault; no specification refers to it. Names of bounds begin with `Max`;
`Backlog` and `LargestRoot` are two more. The `MC` modules hold instances.

| Module | Models | Actions and their code |
|---|---|---|
| `StrandStepper` | the stepper task | `CommandMove` (`command_move`), `NotifyTask` (`isr`, the stop command), `Receive`, `Run`, `PollStop`, `PollHome`, `HomeReached`, `Finish` (stages of the loop of `stepper_task`), `SetParameter`, `Reset`, `PowerLoss` with `Boot` (`init_strand`) |
| `ParamStore` | the parameter store | one action per NVS call of a save and of the reload after it, for both tasks that save; `RecordMove`, `Reset`, `PowerLoss` |
| `CommandQueues` | network tasks, queue set, dispatcher | `CreateQueue`, `SocketError`, `MulticastSocketFails`, `BroadcastSocketFails`, `Post`/`Drop`/`Overflow` (one `xQueueSendToBack`), `AddToSet`, `Select`, `Receive`, `ReceiveNothing` |
| `CommandLine` | command handler | `Duplicate` and `Issue`: one call of `command_handler` with all its effects, by command |
| `TcpServer` | TCP server and its answers | `Accept`, `ReceiveNothing`, `Request`, `Poll`, `GiveUp`, `Send` (`tcp_server_run`), `Take`, `TakeUdp`, `Handle` (`command_handler`) |
| `RequestReply` | what the TCP server promises | the specification that `TcpServer` is shown to implement |
| `Motor` | what the stepper task relies on of its motor | the specification that `StepperMotor` is shown to implement, and whose actions `StrandStepper` is built on |
| `AccelStepper` | the library | one operator per method, on the record of the object's fields |
| `StepperMotor` | the library as `stepper_task` drives it | `PlainMove`, `TimedMove`, `OtherMove` (the three ways a command sets speed and acceleration), `Turn`, `StopNotified`, `HomeNotified`, `RunToPosition`, `HomeReached`, `Finish` |
| `WaveTasks` | the wave and sine tasks of several strands | `Multicast` (the commands), `Receive`, `Wake`, `Post`, `GiveUp` (stages of the three tasks), `DirectMove`, `Take`, `SetLimits`, `Tick` (time) |
| `WifiLink` | the link and its event handler | `HandleEvent`, `ClearBit` (`event_handler`); `Join`, `GetAddress`, `JoinFails`, `Disconnect`, `LoseAddress` (the driver) |
| `SocketPool` | the sockets of lwIP | `OpenUdp`, `RefuseUdp`, `UdpFails`, `StartTcp`, `Accept`, `RefuseClient`, `CloseClient`, `SendUdp`, `BeginDownload`, `EndDownload` |
| `StrandDevice` | a strand from start-up to restart: `WifiLink` and `SocketPool` composed | `StartUp`, `Greet`, `Report`, `CommandOta`, `CommandReset`, `EndMove`, `BeginUpdate`, `UpdateFails`, `UpdateSucceeds`, `Abort`, `RestartAfterAbort` |
| `StrandStepper_proofs`, `ParamStore_proofs`, `CommandQueues_proofs`, `CommandLine_proofs`, `TcpServer_proofs`, `WaveTasks_proofs`, `StepperMotor_proofs`, `StrandDevice_proofs` | theorems about the module of that name | |

**StrandStepper.** Lengths are counted in a unit of which a motor step has 10 and a
millimetre 226, so that the factor of 22.6 steps per millimetre is exact and the
truncations of C are those of integers; the float arithmetic of the code agrees with it
for distances below 185 m. The motor is that of module `Motor`. The variables `origin`,
`slack`, `spoilt` and `overridden` are a ledger that no code reads: where the platform
really hangs, what rounding and braking may have cost so far, and whether the code itself
has invalidated the record (a wrong correction, a restart during a move).

**Motor, AccelStepper, StepperMotor.** To the stepper task a motor is a position that goes
to a target a step at a time (`Motor`). Three things make it less simple, and all are
in `Motor`: after a `stop()` it has a new target up to `MaxStop` steps ahead; if it was not
quite still when a command came, it first goes on for up to `MaxCoast` steps the wrong way
(`coasting`); and once a command has asked for speed 0 (`starved`) it may come to a halt
short of its target (`stalled`). `AccelStepper` has the library method by method. Its floats
are integers here, an interval in microseconds and a speed in tenths of a step per second;
the time at which a step is due is left out, since a call of `run()` before that does
nothing. `Never` is the interval 1000000 / 0 that a maximum speed of 0 leaves, and a motor
whose interval it is makes no step. `StepperMotor` drives the library as `stepper_task` does,
and `DrivesAsMotor` is the refinement mapping: `stalled` is a distance on which no step is
ever due, `coasting` the rest of the counter of a braking motor that turns away from its
target. The run home, for which the task waits, is one step of `Motor`: until it is over the
mapped position stays 0.

**ParamStore.** The handle in `my_handle` is open or not, whoever opened it; a call that
finds it closed fails and is not noticed, and a failed read yields 0. `durable` is what a
loss of power certainly leaves; what was set and not committed may be lost or kept, each
field on its own. NVS itself is external. `Overlap` says whether the two tasks may save at
the same time; in the program nothing prevents it.

**CommandQueues.** The queues are numbered as they are created, so that a queue given up
after a socket failure still exists, as in the program. What FreeRTOS does inside
`xQueueSendToBack` and `xQueueAddToSet` (`Notify`, `Overflow`, `Joins`) is external.
`AfterSetup` tells builds apart: in this commit app_main ends in the loop of the board test
(main.cpp 210) and never dispatches a command; the checks cover that build and the one
without the loop. The other modules model their component at its interface, as it is when
the dispatcher runs. app_main gets to the set after the first queues exist, because the
network tasks have the higher priority.

**CommandLine.** Arguments are the numbers that `atoi` reads. The part of the word
"duplicate" that is left behind in a short message is modelled as the argument 0 that it is
read as. A message has at least its command; a UDP message has an id.

**TcpServer.** An answer is known by the number of the client it is for. `LateHandler` says
whether the handler may need longer than the second the server waits. The restart that a
reset command causes is left to `CommandLine`.

**WaveTasks.** An installation has several strands with a location each, and a message
reaches some of them. Each of their three tasks is in one of four places: waiting for an
order, asleep for its delay, posting a move, asleep after it. Time is in ticks of a
millisecond; the tasks themselves take none, and `Tick` goes straight to the next timer that
runs out. The contents of the queue of moves are the matter of `StrandStepper`, here it has
a length. `posted` is a history of the moves each order posted, whether there was room or
not, since the code does not look. `Word` is the range of a `TickType_t`; the tasks'
conversion of a delay that is infinite or negative, undefined in C, is none or the longest.

**WifiLink, SocketPool, StrandDevice.** The driver has the truth about the link and posts an
event for each change; `event_handler` takes the events later, one by one, and in two
statements where it asks and clears. `SocketPool` counts sockets as lwIP does (`open`) and,
apart from that, who is to close each. `StrandDevice` lets app_main, the network tasks, the
update tasks and the link act in any order, with resets, aborts and updates that restart the
device at any time; a position is the number of moves that have ended, a save one step.

## Runs

| Run | Shows | Bounds |
|---|---|---|
| `stepper_position` | position, target and record agree up to `slack`; RAM agrees with the task; a reset resumes; unless a command asked for speed 0 every accepted command is carried out and the task comes to rest | 4 commands, notifications, settings and restarts in all; moves of -1 and 2, every type of command, speeds zero and not; a queue of one; `MaxStop` 2, `MaxCoast` 1 |
| `stepper_stop` | **violation:** a stop of a downward move corrects the record in the wrong direction | 3 events, a queue of one, speed not zero |
| `motor` | AccelStepper implements `Motor`; undisturbed moves of this length end still; the speed limit is kept; moves end | 4 commands, stops and homings; moves of -7 to 12 steps, speeds 0, 100, 300, -300 and those of timed moves, accelerations 1000, 4000, 8000, the same below 0, and 0; `MaxStop` and `MaxCoast` 63123, so that `Bounds(89)` of the proofs holds |
| `params_alone` | if saves do not overlap: durable, old or new after a loss of power, kept by a reset; every save ends | 4 saves, moves and losses of power; two fields of `device_stepper`, one of `device_location` |
| `params_overlap` | **violation:** overlapping saves close the handle under each other: a parameter is lost or becomes 0 | 3 of them |
| `queues_handled` | one handle in the set per waiting message; handled once, in order, and in the end; a queue is outside the set only after a race or a failure | queues of two, set of three; 4 messages, 1 socket failure |
| `commands_copies` | nothing lost, own arguments, carried out again only after another message or a restart | a script of six messages, 6 deliveries in any order |
| `tcp_timely` | the server implements `RequestReply` | 6 clients, queues of two |
| `tcp_anytime` | late answers keep their order and go out once; every client is let go | 4 clients, 2 UDP messages, queues of two |
| `tcp_late` | **violation:** a late answer goes to the next client | 2 clients |
| `waves` | series in order, once, within the limits of their command; waves run outward; series end with a stuck motor | two strands 1 and 5 mm from the origin; 2 messages of four kinds, direct moves and settings in all; queues of one; a word of 100 ms |
| `device` | the bit tells the link and the link comes back; sockets are accounted for and refused only after a leak; updates end and keep the moves before them | 5 sockets, 1 socket failure, 2 failures of the link, 3 commands, 1 move |

The bounds are the smallest at which the interesting cases happen: a stop, a press of the
home switch and a restart in one behaviour; a save of each task, a reset and a loss of
power; a queue that fills up, a set that overflows, a queue given up with messages in it; a
copy that comes after a later message and a reset among the messages; an answer that is
still queued when the next two clients come; moves too short to reach their speed and moves
that travel at it, a stop while braking and a new command to a motor that still turns; a wave
too slow for its delay to be counted, a queue of moves that stays full for longer than a task
waits; as many messages to the server as use up the sockets, a link that fails under an
update and again while it comes back. All actions are fired by the passing runs.

Deadlock is not checked: every model has a bounded environment, and the tasks really wait
for commands and messages for ever.

### Fairness

`stepper_task` has core 1 to itself above all application tasks and never waits inside its
loop: weak fairness of its step. A save waits for nobody: weak fairness of each task's save
and of the restart at its end. app_main has the lowest priority, but the tasks above it
block on sockets, queues and delays: weak fairness of the dispatcher, of the creation of
queues, of the handler and of the TCP server. A TCP client that has connected is assumed
to send or to close, since `recv` has no time limit: `ConnectionEnds` is not true of a
client that does neither. The wave tasks act when they can and time goes on; that the motor
takes a move is not assumed. On the device the event handler, start-up, the updates and the
restart after an abort are weakly fair, and an access point that is asked answers in the end;
moves, commands and clients need not come. Messages, failures and losses of power need not
come.

### Disagreements between code and documentation

The violations above are disagreements with a comment of the source. The following were
met as well; the passing runs state their properties around them.

* A stop of a relative move changes the record (strand.cpp 333), which such a move is said
  to leave alone (241); `overridden` and `spoilt` mark it.
* A position is "saved" to RAM only after a move (strand.cpp 375-376): a loss of power
  brings an older one back.
* A move with speed 0 never ends, and a stop does not end it either (strand.cpp 296). So may
  a later move, if it is of a type the task has no branch for: it keeps the speed of 0.
* A motor that was stopped may still have a speed when `stepper_task` takes the next command
  (strand.cpp 296 asks for the distance alone): it then goes on the old way first
  (`coasting`), and a stop in that state corrects the record by the wrong distance.
* So may one that was not stopped. The profile is computed in floats, step by step: at 10000
  steps/s and 8000 steps/s2, every move longer than 12500 steps ends with some 156 steps/s
  left, according to a transcription of `computeNewSpeed` (AccelStepper.cpp 97-177) to C; up
  to 600 steps no move was found that does. AccelStepper.cpp 103 sets the speed to 0 only if
  it takes at most one step to stop. `coasting` covers what follows.
* The first step of a move is made after an interval that no maximum speed limits
  (AccelStepper.cpp 151), although AccelStepper.h 412-413 calls it the maximum permitted
  speed, up to which `run()` will accelerate.
* The reload after a save overwrites a position stored meanwhile (net.c 206).
* A fourth waiting message overflows the queue set and aborts the program, although its
  queue has room (main.cpp 156: 3 places; net.c 407, 575, 767: 5, 25 and 5).
* A queue that holds a message when app_main comes to add it is refused, and the result is
  ignored (main.cpp 159); a queue created again after a socket failure is in no set (net.c
  407, 575). None of their messages is ever handled: main.cpp 158 says "Add all of the
  networking queue to the set".
* A copy of a UDP message that comes after another message is carried out again (net.c 363,
  under the comment "check for multicast and identify duplicates").
* `send_udp` never closes its socket (net.c 385). After seven messages, the one at start-up
  among them, no TCP client is accepted, and a failure of a UDP socket is final: `broadcast_task` returns, which aborts
  the program, and `multicast_task` tries for ever.
* The configuration has an update URL that begins with http (sdkconfig 162) and does not
  allow it (399, `CONFIG_OTA_ALLOW_HTTP`): every update of this build fails, and each leaves
  a task behind (net.c 343).
* Moves that end while an update downloads are not saved before its restart (net.c 339).
* A wave or a series keeps the limits of the moment of its command (net.c 1087); a move for
  which there is no room in 20 ms is lost, and so may be the one back to the centre.
* `multicast_id` is 1 after a boot: a first message with id 1 is dropped, and the second
  copy of a reset restarts the device again (net.c 46).
* The comment at net.c 1099 gives ten arguments to `stepperSineWave`, the code reads nine:
  the fourth speed becomes the number of loops.
* `set_location` by UDP leaves an answer for the next TCP client (net.c 1146), while
  `update`, `setMax` and `setNumber` by TCP are never answered: the handler returns before.

## Proofs

**StrandStepper_proofs** proves, for all types, moves, speeds and limits, every length of the
queue, every `MaxStop` and `MaxCoast`:

* `TypeCorrect`: the type invariant.
* `RestsAtTarget` (`RestAtTarget`): a motor at rest is where the task sent it.
* `RecordFollowsMotor` (`BoundedError`), `RestFollowsMotor` (`RestAgreement`): how far the
  record may be from the motor.
* `RamFollowsTask` (`RamAgreement`), `ResetResumes` (`ResetKeepsPosition`).

`BoundedError` is not inductive alone: a move's error depends on where the previous move
ended. `RecordInv` adds that a motor at rest is at its target, and the type invariant. Each
action then changes the error by what it adds to `slack`: a move by the truncation to whole
steps (less than one step), a stop by rounding and braking; homing sets both to 0.
`RamInv` says that RAM and the task also agree all through a relative move, which does not
write the position at its end, unless a parameter command has overridden it.

**TcpServer_proofs** proves `ServesOwnRequests`: if the handler is timely and no
`set_location` comes by UDP, `TcpServer` implements `RequestReply`, for every length of the
queues and number of clients. The specification of `RequestReply` follows from an invariant,
`OneRequest`: between two clients both queues are empty and the handler idle, and while a
client is served exactly one thing of its own can be on the way, its command, the answer or
the reply. `tcp_late` and the answer of a UDP `set_location` show that neither assumption
can be dropped.
Without these assumptions it proves

* `TypeCorrect`, and `AnswersOrdered` (`AnswersInOrder`): answers go out in the order of the
  commands they answer, each at most once. The invariant, `InOrder`, says it of all that is
  on the way, from the queue of commands through the handler and the queue of answers to the
  replies: nothing of a later stage is newer than anything of an earlier one.

**ParamStore_proofs** proves, for all fields and values and any number of saves, `TypeCorrect`,
and, if saves do not overlap (`~Overlap`; `params_overlap` shows that this cannot be dropped):

* `SavedIsDurable` (`SetIsDurable`): what was set is in RAM and durable when the save is over.
* `PowerLossIsHarmless` (`PowerLossKeepsOldOrNew`): a loss of power at any call leaves, of
  every field, the old value or the new.
* `ResetIsHarmless` (`ResetKeepsLimits`).

All three follow from `SaveInv`. `TurnInv`, its first part, is what the absence of overlaps
gives: one task saves at a time, and the handle is open exactly where that task has opened it,
so that no call fails. `FieldInv` follows one field through the save: by the place where the
task is, it says which of the copies (snapshot, handle, flash, RAM) have the new value yet.
None of the three is inductive without it, since they speak of the end of a save, of a loss of
power and of a reset, and not of the calls between.

**CommandQueues_proofs** proves, for all lengths of the queues and of the set, any backlog and
any number of messages and failures:

* `TypeCorrect`, and `InOnePlace` (`HandledOnce`): messages wait in the order in which they
  came, each in one queue, and what waits has not been handled (`OnceInv`).
* `OnlyRacesLeaveOut` (`LeftOutOnlyByRace`): `LeftInv` speaks of the queues that app_main has
  come to so far, and of those only as long as no socket has failed.
* `InArrivalOrder` (`HandledInOrder`). A handle in the set names a queue and no message, so the
  invariant, `MatchInv`, gives one to each: there is an assignment of messages to the handles
  in the set and to the one in hand, such that the messages increase, are later than all
  handled ones, and are exactly those that wait in the queues of the set now in use. It is
  kept because a queue is read from its head only, and the handle selected is the oldest.
* `HandlesAreMessages` (`SetCountsMessages`): by counting along that assignment.

**CommandLine_proofs** proves, for every script, any number of deliveries and any order:

* `NoRepetition` (`IssuedAgainOnlyAfterAnother`): between two executions of one message there
  was a restart or another UDP message. `AgainInv` adds what `multicast_id` remembers.
* `NoneLost` (`NothingLost`), if UDP messages have ids of their own, none of them that of a
  device that has just started (`IdsDiffer`). A first message with id 1 is dropped.
* `ActsOnOwn` (`OwnArguments`), if every message has the arguments that its command reads,
  whatever number of those in the script the device has then (`Complete`). A shorter message
  acts on arguments of the one before, which `command_line` still holds. The lemma behind it,
  `SameEffects`, says for each command how many arguments it depends on (`Reads`).

TLC finds both conditions true of the script that `commands_copies` runs.

**WaveTasks_proofs** proves, for all strands, locations, commands, lengths of queues, waits and
widths of the tick counter:

* `TypeCorrect`, and `SeriesOnPlan` (`SeriesFollowsPlan`): what a task posts for an order is a
  beginning of its plan, and all of it when the task is done with it. `SeriesInv` adds that an
  order is in one place at a time (`Placed`, `Apart`), that those in a queue have not begun
  (`Unbegun`), and that the loop counter is the length of what was posted (`InHand`).
* `WaveRunsOutward` (`NearFirst`): a strand nearer to the origin of a wave begins no later.
  That depends on time: `Left` is the time a strand still has to wait before it begins with an
  order, and `NearLeft` says that the nearer has no more of it left. `Tick` takes the same from
  both; that it takes no more than the least timer is why neither passes 0. `PromptFirst`
  keeps a task that was at rest when its order came from doing anything else first;
  `SameMessage`, the orders that a message made agree on origin and speed; `RootMonotonic`, a
  greater square of the distance has no smaller root.

**StepperMotor_proofs** proves, for all displacements, speeds and accelerations, and stops and
homings at any time:

* `SpeedIsKept` (`KeepsMaxSpeed`): no step but the first of a move comes sooner than the
  maximum speed allows. `SpeedInv` says that the least interval is that of the maximum speed
  (`Limited`), and that on the way the interval in use is no less (`Within`), or there is none
  (after a speed of 0, since an interval that does not end stays so). That a task at rest has
  nothing to go is needed for a command to the position where the motor is: it sets a new
  limit, and `moveTo` computes no interval for it.
* `ImplementsMotor` (`DrivesAsMotor`): the library, as `stepper_task` drives it, implements
  `Motor`, the motor on which all that is proved of `StrandStepper` rests. The theorem has one
  hypothesis, `Bounds(q)`: q is a least interval, in microseconds, for the speeds in use, and
  `MaxStop` and `MaxCoast` are no less than the steps that a motor of that speed needs to stop
  at the lowest acceleration. For speeds up to 11200 steps/s, the one set at start-up, q = 89
  will do. It leaves out speeds above 1000000 steps/s, whose interval would be 0
  microseconds of the model.

  The invariant is `WayInv`. `Sound` says of the fields that the speed is at most `Fastest(q)`
  and that a braking motor's counter is at most the steps to stop from it. Neither
  `setAcceleration`, which scales the counter by the ratio of the accelerations
  (`TruncatedBrake`), nor any other method breaks that; it is why a new command against the
  direction costs at most `MaxCoast` steps and a stop at most `MaxStop` (`StopSteps`). `Going`
  says of a motor with a distance to go that its interval is that of its profile, that it
  turns the way its `direction` says, and that it is on its way to the target or braking
  (counter at most 0). `NewSpeedSteers` is the heart: `computeNewSpeed` keeps a motor that is
  on its way on it, and lets one that is not brake one step less each time, after which it
  turns. The overshoot that rounding may cause (below) is within this: a motor that passed its
  target coasts.

**StrandDevice_proofs** proves, for every number of sockets, failures, commands and moves:

* `TypeCorrect` and `SocketsAreAccounted` (`SocketsAccounted`). The invariant behind both,
  `DeviceInv`, adds that the listening socket is open only once `tcp_task_init` has run, so
  that it is not opened twice.
* `RefusalNeedsLeak` (`RefusedOnlyByLeak`): whoever is refused is not among the holders, so
  that at most three of the sockets in use are the other tasks', and the rest were taken by
  messages and updates. `RefusedInv` adds that no more downloads run than updates came.
* `UpdateKeepsMoves` (`OtaKeepsMoves`), from `OtaInv`: the flash has what there was at the
  command, and RAM never less than the flash.
* `BitFollowsLink` (`BitTellsLink`), from `LinkInv`: of the events not yet handled the newest
  tells the link, and if there are none the bit does, or is about to. `EventAdded` is the
  fact about sequences on which it rests.

`LinkEffect` and `PoolEffect` say what a step of the device is for its parts, so that the
lemmas about `WifiLink` and `SocketPool` are about these alone.

The proofs rest on the assumptions named in the modules (`CommandAssumption`,
`ParameterAssumption`, `BoundAssumption`, `LengthAssumption`, `DropAssumption`,
`SocketAssumption`, `FieldAssumption`, `OverlapAssumption`, `ValueAssumption`,
`DeviceAssumption`, `ScriptAssumption`, `AccelerationAssumption`), which TLC evaluates in the
runs, and on the hypotheses that the theorems above name. `AccelerationAssumption` bounds
accelerations by 10 and 100000 steps/s2, the range in which the model takes square roots.

Model-checked only:

* all liveness properties (`ComesToRest`, `MoveEnds`, `SavesEnd`, `EveryMessageHandled`,
  `ConnectionEnds`, `SeriesEnd`, `Reconnects`, `UpdatesEnd`), which need fairness and `ENABLED`;
* `RestIsStill` of `StepperMotor`, for moves of the length of the run: no theorem states it,
  because it is not true of all moves. The profile is rounded at every step, so that the motor
  may reach its target before its speed is 0. With the model's microseconds this begins with
  moves of some hundred steps (at 8000 steps/s2, the acceleration set at start-up, 478), with
  the floats of the library with moves of thousands. See the disagreements above;
* what the violation runs refute: `StopKeepsRecord`, `OwnAnswer`, and `SetIsDurable` when saves
  overlap.

## Plan

All components of the program itself are modelled, and every safety property that a passing
run checks is proved but `RestIsStill`, which holds of short moves only. What may still be
added:

1. A composition of `StrandStepper` with `ParamStore`, in which a homing saves call by call.
2. A model of the profile in the floats of the library, which would tell exactly which moves
   end with a speed left.

## Not modelled

`init_strand` beyond the position, the speed and the acceleration it sets (it writes registers
of the motor driver); the wiring of pins, the constant speed mode and the getters of
AccelStepper, which the strand does not use; the echo of `broadcast_task`; the contents of
strings; the heap (`multicast_task` creates a queue at every attempt and frees none); a TCP
client that vanishes together with the link, for which `recv` waits for ever; the download of
an update and the flash partition it writes, which two updates at once share; MultiStepper,
Stepper and TMCStepper, which keep no state of the program; generated files.
