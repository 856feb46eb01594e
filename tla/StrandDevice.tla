---------------------------- MODULE StrandDevice ----------------------------
(***************************************************************************)
(* A strand from start-up to restart (main/src/main.cpp 88-156,            *)
(* main/src/net.c 293-346 and 794-803): app_main waits for the link, reads *)
(* the parameters, starts the tasks and greets the server; commands send   *)
(* messages, start firmware updates and restart the device.  The link and  *)
(* the sockets are those of WifiLink and SocketPool.  A save is one step   *)
(* here (ParamStore has its parts), and a position is the number of moves  *)
(* that have ended.                                                        *)
(***************************************************************************)
EXTENDS WifiLink, SocketPool

CONSTANTS
  MaxCommands,   \* bound of the model: commands handled
  MaxMoves       \* bound of the model: moves

ASSUME CommandAssumption == MaxCommands \in Nat /\ MaxMoves \in Nat

VARIABLES
  stage,      \* of app_main: "wifi", "greet", "run"; "aborted"
  ram,        \* the position in device_stepper
  flash,      \* the position in the parameter store
  waiting,    \* update tasks that wait for the link
  stuck,      \* update tasks that have failed and stay for ever
  updates,    \* history: update tasks since the start
  atCommand,  \* history: the position when the last ota command came
  commands    \* commands handled so far

deviceVars == <<stage, ram, flash, waiting, stuck, updates, atCommand, commands>>
vars == <<linkVars, poolVars, deviceVars>>

Init ==
  /\ LinkInit /\ PoolInit
  /\ stage = "wifi"
  /\ ram = 0 /\ flash = 0 /\ atCommand = 0
  /\ waiting = 0 /\ stuck = 0 /\ updates = 0 /\ commands = 0

Restart ==
  /\ LinkRestart /\ PoolRestart
  /\ stage' = "wifi" /\ ram' = 0
  /\ waiting' = 0 /\ stuck' = 0 /\ updates' = 0
-----------------------------------------------------------------------------
(* app_main *)

(* wait_for_ip returns; the parameters are read, then the network tasks are created. *)
StartUp ==
  /\ stage = "wifi" /\ bit
  /\ stage' = "greet" /\ ram' = flash
  /\ UNCHANGED <<linkVars, poolVars, flash, waiting, stuck, updates, atCommand, commands>>

(* server_ping("boot") *)
Greet ==
  /\ stage = "greet" /\ stage' = "run"
  /\ SendUdp
  /\ UNCHANGED <<linkVars, ram, flash, waiting, stuck, updates, atCommand, commands>>

Command ==
  /\ stage = "run" /\ commands < MaxCommands
  /\ commands' = commands + 1

(* update, setCurrent, setMin, setMax, setNumber: all but the first save before they report. *)
Report ==
  /\ Command /\ SendUdp
  /\ flash' \in {flash, ram}
  /\ UNCHANGED <<linkVars, stage, ram, waiting, stuck, updates, atCommand>>

(* Faulty variant: the parameters are not saved before the update. *)
CommandOta_Unsaved ==
  /\ Command
  /\ waiting' = waiting + 1 /\ updates' = updates + 1 /\ atCommand' = ram
  /\ UNCHANGED <<linkVars, poolVars, stage, ram, flash, stuck>>

CommandOta ==
  /\ Command
  /\ flash' = ram /\ atCommand' = ram
  /\ waiting' = waiting + 1 /\ updates' = updates + 1
  /\ UNCHANGED <<linkVars, poolVars, stage, ram, stuck>>

CommandReset ==
  /\ Command
  /\ flash' = ram
  /\ Restart
  /\ UNCHANGED atCommand

(* stepper_task ends a move and records the position in RAM. *)
EndMove ==
  /\ stage = "run" /\ ram < MaxMoves
  /\ ram' = ram + 1
  /\ UNCHANGED <<linkVars, poolVars, stage, flash, waiting, stuck, updates, atCommand, commands>>
-----------------------------------------------------------------------------
(* simple_ota_example_task *)

(* Faulty variant: the wait takes the bit away (xClearOnExit). *)
BitAfterWait_Cleared == FALSE

(* The wait leaves the bit as it is. *)
BitAfterWait == bit

(* The link is there: esp_https_ota connects, or finds no socket or no server. *)
BeginUpdate ==
  /\ stage # "aborted" /\ waiting > 0 /\ bit
  /\ waiting' = waiting - 1
  /\ bit' = BitAfterWait
  /\ \/ BeginDownload /\ UNCHANGED stuck
     \/ stuck' = stuck + 1 /\ UNCHANGED poolVars
  /\ UNCHANGED <<link, asked, lease, events, clearing, drops>>
  /\ UNCHANGED <<stage, ram, flash, updates, atCommand, commands>>

UpdateFails ==
  /\ stage # "aborted" /\ EndDownload
  /\ stuck' = stuck + 1
  /\ UNCHANGED <<linkVars, stage, ram, flash, waiting, updates, atCommand, commands>>

(* esp_restart, with no save of what has moved since the command *)
UpdateSucceeds ==
  /\ stage # "aborted" /\ downloads > 0
  /\ Restart
  /\ UNCHANGED <<flash, atCommand, commands>>

Updating == BeginUpdate \/ UpdateFails \/ UpdateSucceeds
-----------------------------------------------------------------------------
(* The network tasks, from their creation on *)
Listening ==
  /\ stage \in {"greet", "run"}
  /\ \/ ServeTcp \/ RefuseUdp("multicast")
     \/ \E h \in Udp : OpenUdp(h) \/ UdpFails(h)
  /\ UNCHANGED <<linkVars, deviceVars>>

(* broadcast_task returns without a socket, at which FreeRTOS aborts the program. *)
Abort ==
  /\ stage \in {"greet", "run"}
  /\ RefuseUdp("broadcast")
  /\ stage' = "aborted"
  /\ UNCHANGED <<linkVars, ram, flash, waiting, stuck, updates, atCommand, commands>>

RestartAfterAbort ==
  /\ stage = "aborted"
  /\ Restart
  /\ UNCHANGED <<flash, atCommand, commands>>

Linking == LinkNext /\ stage # "aborted" /\ UNCHANGED <<poolVars, deviceVars>>

AppMain == StartUp \/ Greet \/ Report \/ CommandOta \/ CommandReset

Next == AppMain \/ EndMove \/ Updating \/ Listening \/ Abort \/ RestartAfterAbort \/ Linking

Spec == Init /\ [][Next]_vars

(* The device starts up, the update tasks run and a download ends; the handler runs and  *)
(* an access point that is asked answers.  Commands, moves and failures need not come,   *)
(* and clients need not go.                                                              *)
FairSpec ==
  /\ Spec
  /\ WF_vars(StartUp) /\ WF_vars(RestartAfterAbort) /\ WF_vars(Updating)
  /\ WF_vars(Handler /\ Linking) /\ WF_vars(Join /\ Linking) /\ WF_vars(GetAddress /\ Linking)
-----------------------------------------------------------------------------
TypeOK ==
  /\ LinkTypeOK /\ PoolTypeOK
  /\ stage \in {"wifi", "greet", "run", "aborted"}
  /\ ram \in 0 .. MaxMoves /\ flash \in 0 .. MaxMoves /\ atCommand \in 0 .. MaxMoves
  /\ waiting \in Nat /\ stuck \in Nat /\ updates \in Nat
  /\ commands \in 0 .. MaxCommands

(* The network turns nobody away, and the program does not abort, before so many        *)
(* messages to the server and updates have come that only three sockets are left for    *)
(* the other tasks: seven, with ten sockets (net.c 385, 422, 534, 660, 691).            *)
RefusedOnlyByLeak == refused # {} => leaked + updates >= MaxSockets - 3

(* Whatever restarts the device while it updates its firmware - this update, an earlier *)
(* one, a reset, an abort - it comes back with the moves that had ended when the ota    *)
(* command came (net.c 794-798: saveParamters).                                         *)
OtaKeepsMoves == stage # "wifi" => ram >= atCommand

(* An update ends, in a restart or in failure, also when the link fails under it and    *)
(* when all sockets are taken (net.c 323-346).                                          *)
UpdatesEnd == waiting + downloads > 0 ~> waiting + downloads = 0
=============================================================================
