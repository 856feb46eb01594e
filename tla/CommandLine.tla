------------------------------ MODULE CommandLine ------------------------------
(***************************************************************************)
(* What a message does once app_main has it: get_command_line splits it    *)
(* into the global command_line and looks for duplicates, command_handler  *)
(* carries it out (main/src/net.c 348-379, 1031-1262).                     *)
(*                                                                         *)
(* A message is the id that only UDP messages begin with, a command and its*)
(* arguments.  The server sends the messages of Script one after the other;*)
(* the network may lose a UDP message and deliver it more than once, also  *)
(* after later ones if Reordering.                                         *)
(*                                                                         *)
(* What a command does is a sequence of effects: a command put in the queue*)
(* of the stepper task or of a wave task, a parameter set, and so on.  What*)
(* becomes of these is the matter of the modules StrandStepper and         *)
(* ParamStore.                                                             *)
(***************************************************************************)
EXTENDS Integers, Sequences, FiniteSets

CONSTANTS
  Script,       \* the messages, in the order in which the server sends them
  Device,       \* min, max and number of device_stepper at the start
  Items,        \* arguments that command_line has room for (39 in the code)
  Reordering,   \* whether a copy may come after a later message
  MaxCopies     \* deliveries in all (bound of the model)

Messages == [id : Nat, via : {"udp", "tcp"}, command : STRING, args : Seq(Int)]

ASSUME DeviceAssumption == Device \in [min : Int, max : Int, number : Int]
ASSUME ScriptAssumption == /\ Items \in Nat
                           /\ \A i \in DOMAIN Script : Script[i] \in Messages
                           /\ \A i \in DOMAIN Script : Len(Script[i].args) <= Items
ASSUME BoundAssumption == Reordering \in BOOLEAN /\ MaxCopies \in Nat

VARIABLES
  multicast_id,   \* the id of the last UDP message
  args,           \* command_line[1], command_line[2], ... as atoi reads them
  device,         \* min, max and number of device_stepper
  copies,         \* how often each message of Script has been delivered
  issued          \* history: the commands carried out

vars == <<multicast_id, args, device, copies, issued>>

FirstId == 1      \* multicast_id after a boot
Total == LET sum[i \in 0..Len(Script)] == IF i = 0 THEN 0 ELSE sum[i - 1] + copies[i]
         IN  sum[Len(Script)]
-----------------------------------------------------------------------------
(* The messages that the network may deliver next. *)
Deliverable(i) ==
  /\ Total < MaxCopies
  /\ Script[i].via = "tcp" => copies[i] = 0
  /\ Reordering \/ \A j \in (i + 1)..Len(Script) : copies[j] = 0

(* Faulty variant: the arguments are stored one place too far. *)
Tokens_Shifted(own) ==
  [k \in 1..Items |-> IF k \in 2..(Len(own) + 1) THEN own[k - 1] ELSE args[k]]

(* The tokens of the message go into command_line from its start; what earlier *)
(* messages left behind them stays.                                            *)
Tokens(own) == [k \in 1..Items |-> IF k <= Len(own) THEN own[k] ELSE args[k]]

(* The commands shorter than the word "duplicate", which overwrites them: what is left *)
(* of the word becomes the only argument, one that atoi reads as 0.                    *)
ShortCommands == {"ota", "stop", "home", "reset", "update", "setMin", "setMax"}

DuplicateTokens(m) ==
  IF m.command \in ShortCommands THEN [args EXCEPT ![1] = 0] ELSE Tokens(m.args)

(* Faulty variant: older ids are duplicates too. *)
IsDuplicate_Older(m) == m.via = "udp" /\ m.id <= multicast_id

IsDuplicate(m) == m.via = "udp" /\ m.id = multicast_id

(* Faulty variant: the id is not stored. *)
NextId_Stale(m) == multicast_id

NextId(m) == IF m.via = "udp" THEN m.id ELSE multicast_id
-----------------------------------------------------------------------------
Effect(what, data) == [what |-> what, data |-> data]
Limits == <<device.min, device.max>>

(* command_move: type, move, speed, acceleration and duration, then the limits. *)
Move(type, move, speed, accel, duration) ==
  <<Effect("stepper", <<type, move, speed, accel, duration>> \o Limits)>>

(* A parameter is set, then all are saved and read back, and the server is told. *)
SetParameter(type, value) ==
  <<Effect("set", <<type, value>>), Effect("save", <<>>), Effect("update", <<>>)>>

Respond == <<Effect("respond", <<>>)>>

(* What command_handler does for a command.  Only set_location, setMin and the two get *)
(* commands come to an answer: the other set commands and update return before it.     *)
Effects(command, a, tcp) ==
  CASE command = "ota" -> <<Effect("save", <<>>), Effect("ota", <<>>)>>
    [] command = "reset" -> <<Effect("save", <<>>), Effect("restart", <<>>)>>
    [] command = "stop" -> <<Effect("stop", <<>>)>>
    [] command \in {"home", "stepperMove"} -> Move(0, a[1], a[2], a[3], 0)
    [] command = "stepperTranslate" -> Move(1, a[1], a[2], a[3], 0)
    [] command = "stepperNumTranslate" ->
         IF device.number = 0 THEN <<>> ELSE Move(1, a[device.number + 2], a[1], a[2], 0)
    [] command = "strandTranslate" -> Move(2, a[1], a[2], a[3], a[4])
    [] command = "stepperWave" ->
         <<Effect("wave", SubSeq(a, 1, 8) \o Limits)>>
    [] command = "stepperSine" ->
         <<Effect("sine", <<1, a[1], a[2], a[3]>> \o Limits \o <<a[4], a[5]>>)>>
    [] command = "stepperNumSine" ->
         <<Effect("sine", <<1, a[device.number + 6], a[1], a[2]>> \o Limits \o <<a[3], a[4]>>)>>
    [] command = "stepperSineWave" ->
         <<Effect("sine_wave", SubSeq(a, 1, 4) \o <<1>> \o SubSeq(a, 5, 7) \o Limits
                               \o <<a[8], a[9]>>)>>
    [] command = "setCurrent" -> SetParameter(1, a[1])
    [] command = "setMin" ->
         SetParameter(2, a[1])
         \o (IF tcp THEN SubSeq(SetParameter(2, a[1]), 1, 2) \o Respond ELSE <<>>)
    [] command = "setMax" -> SetParameter(3, a[1])
    [] command = "setNumber" -> SetParameter(5, a[1])
    [] command = "set_location" -> <<Effect("location", SubSeq(a, 1, 3))>> \o Respond
    [] command = "update" -> <<Effect("update", <<>>)>>
    [] command \in {"get_mac", "get_location"} /\ tcp -> Respond
    [] OTHER -> <<>>

SetDevice(command, a) ==
  CASE command = "setMin" -> [device EXCEPT !.min = a[1]]
    [] command = "setMax" -> [device EXCEPT !.max = a[1]]
    [] command = "setNumber" -> [device EXCEPT !.number = a[1]]
    [] OTHER -> device

(* The arguments of a message with nothing behind them. *)
Own(m) == [k \in 1..Items |-> IF k <= Len(m.args) THEN m.args[k] ELSE 0]

Duplicate(i) ==
  /\ Deliverable(i) /\ IsDuplicate(Script[i])
  /\ multicast_id' = NextId(Script[i])
  /\ args' = DuplicateTokens(Script[i])
  /\ copies' = [copies EXCEPT ![i] = @ + 1]
  /\ UNCHANGED <<device, issued>>

(* The command is carried out.  A reset starts the program again, with the parameters *)
(* that were saved.                                                                   *)
Issue(i) ==
  LET m == Script[i] IN
  /\ Deliverable(i) /\ ~IsDuplicate(m)
  /\ copies' = [copies EXCEPT ![i] = @ + 1]
  /\ device' = SetDevice(m.command, Tokens(m.args))
  /\ issued' = Append(issued,
       [message |-> i,
        effects |-> Effects(m.command, Tokens(m.args), m.via = "tcp"),
        meant |-> Effects(m.command, Own(m), m.via = "tcp")])
  /\ IF m.command = "reset"
     THEN multicast_id' = FirstId /\ args' = [k \in 1..Items |-> 0]
     ELSE multicast_id' = NextId(m) /\ args' = Tokens(m.args)

Init ==
  /\ multicast_id = FirstId
  /\ args = [k \in 1..Items |-> 0]
  /\ device = Device
  /\ copies = [i \in DOMAIN Script |-> 0]
  /\ issued = <<>>

Next == \E i \in DOMAIN Script : Duplicate(i) \/ Issue(i)

Spec == Init /\ [][Next]_vars
-----------------------------------------------------------------------------
TimesIssued(i) == Cardinality({k \in DOMAIN issued : issued[k].message = i})

(* A message is carried out again only if another UDP message was carried out in between, or   *)
(* the device was reset: repeated messages that keep their order do no harm, nor does a *)
(* TCP message between them (net.c 357-367).                                            *)
IssuedAgainOnlyAfterAnother ==
  \A k, l \in DOMAIN issued :
    k < l /\ issued[k].message = issued[l].message =>
      \E j \in k..(l - 1) : LET other == Script[issued[j].message] IN
        other.command = "reset" \/ (j > k /\ other.via = "udp")

(* Looking for duplicates does not cost a message: one that came at all was carried out *)
(* (net.c 357: "check for multicast and identify duplicates").                          *)
NothingLost == \A i \in DOMAIN Script : copies[i] > 0 => TimesIssued(i) >= 1

(* A command acts on the arguments of its own message: never on those that an earlier  *)
(* message or a duplicate left in command_line, nor on what is left of the word         *)
(* "duplicate" there (net.c 348-379).                                                   *)
OwnArguments == \A k \in DOMAIN issued : issued[k].effects = issued[k].meant
=============================================================================
