------------------------------ MODULE ParamStore ------------------------------
(***************************************************************************)
(* The parameters of a strand (main/src/net.c 101-231): the struct         *)
(* device_stepper and device_location in RAM, their copy in flash (NVS),   *)
(* and the functions that set, save and reload them, one NVS call after    *)
(* the other.                                                              *)
(*                                                                         *)
(* Two tasks run these functions: app_main, for the set commands, reset and*)
(* ota, and stepper_task, when a homing run ends.  They share not only the *)
(* struct but the handle `my_handle' that every function opens and closes, *)
(* and nothing orders them.  Any NVS call that finds the handle closed     *)
(* fails, and no caller looks at the result; a failed read yields 0, which *)
(* the reload at the end of every save puts in RAM.                        *)
(*                                                                         *)
(* NVS itself is external: a value that was set is read back at once, is   *)
(* safe from a loss of power once committed, and may be so before.         *)
(***************************************************************************)
EXTENDS Integers, Sequences, SequencesExt

CONSTANTS
  StepperFields,   \* the fields of device_stepper, in the order they are saved
  LocationFields,  \* the fields of device_location, in the order they are saved
  Values,          \* the values commands set them to
  Overlap,         \* whether a save may begin during one of the other task
  MaxJobs          \* bound of the model: saves, moves and losses of power in all

AllFields == ToSet(StepperFields) \union ToSet(LocationFields)
Tasks == {"app", "stepper"}

ASSUME FieldAssumption == /\ StepperFields \in Seq(STRING)
                          /\ LocationFields \in Seq(STRING) /\ LocationFields # <<>>
                          /\ "current" \in ToSet(StepperFields)
ASSUME OverlapAssumption == Overlap \in BOOLEAN
ASSUME ValueAssumption == Values \subseteq Int /\ MaxJobs \in Nat

VARIABLES
  ram,        \* device_stepper and device_location
  flash,      \* what nvs_get_i32 reads
  durable,    \* what a loss of power leaves of it
  handleOpen, \* whether the handle in my_handle is open
  pc,         \* what each task does next
  job,        \* the kind of save it is at: "stepper", "reset" or "location"
  index,      \* the field it has come to
  values,     \* the values it saves, then those it has read back
  jobs,       \* jobs so far (bound of the model)
  asked,      \* history: the last value each field was asked to have
  before      \* history: what flash held safely before the last save

vars == <<ram, flash, durable, handleOpen, pc, job, index, values, jobs, asked, before>>
taskVars == <<pc, job, index, values>>
-----------------------------------------------------------------------------
FieldsOf(t) == IF job[t] = "location" THEN LocationFields ELSE StepperFields

Field(t) == FieldsOf(t)[index[t]]

(* Faulty variants: one field too many, and a loop that does not advance. *)
NextField_OffByOne(t, again, done) ==
  IF index[t] <= Len(FieldsOf(t))
  THEN pc' = [pc EXCEPT ![t] = again] /\ index' = [index EXCEPT ![t] = @ + 1]
  ELSE pc' = [pc EXCEPT ![t] = done] /\ index' = [index EXCEPT ![t] = 1]

NextField_Stuck(t, again, done) ==
  IF index[t] < Len(FieldsOf(t))
  THEN pc' = [pc EXCEPT ![t] = again] /\ UNCHANGED index
  ELSE pc' = [pc EXCEPT ![t] = done] /\ index' = [index EXCEPT ![t] = 1]

(* The task goes on to the next field, or after the last one to the first of a new phase. *)
NextField(t, again, done) ==
  IF index[t] < Len(FieldsOf(t))
  THEN pc' = [pc EXCEPT ![t] = again] /\ index' = [index EXCEPT ![t] = @ + 1]
  ELSE pc' = [pc EXCEPT ![t] = done] /\ index' = [index EXCEPT ![t] = 1]

Goto(t, label) == pc' = [pc EXCEPT ![t] = label] /\ UNCHANGED index

(* Faulty variant: the value does not reach the struct. *)
SetParameter_Nothing(f, v) == UNCHANGED ram

(* setPramamter *)
SetParameter(f, v) == ram' = [ram EXCEPT ![f] = v]

Job == jobs < MaxJobs /\ jobs' = jobs + 1

Begin(t, kind, label) ==
  /\ Job
  /\ pc[t] = "idle"
  /\ Overlap \/ \A other \in Tasks : pc[other] = "idle"
  /\ job' = [job EXCEPT ![t] = kind]
  /\ Goto(t, label)
  /\ before' = durable
  /\ UNCHANGED <<flash, durable, handleOpen>>

(* setCurrent, setMin, setMax and setNumber on app_main, the end of homing on stepper_task: *)
(* setPramamter, then saveParamters.                                                       *)
BeginSet(t, f, v) ==
  /\ Begin(t, "stepper", "snapshot")
  /\ SetParameter(f, v)
  /\ asked' = [asked EXCEPT ![f] = v]
  /\ UNCHANGED values

(* ota ("stepper") and reset: saveParamters; a reset restarts after it. *)
BeginSave(kind) ==
  /\ Begin("app", kind, "snapshot")
  /\ UNCHANGED <<ram, asked, values>>

(* set_location: command_set_location is given the values, RAM follows from the reload. *)
BeginLocation(v) ==
  /\ Begin("app", "location", "open")
  /\ values' = [values EXCEPT !["app"] = [f \in AllFields |-> v]]
  /\ asked' = [f \in AllFields |-> IF f \in ToSet(LocationFields) THEN v ELSE asked[f]]
  /\ UNCHANGED ram

(* The end of a move: setPramamter alone. *)
RecordMove(v) ==
  /\ Job
  /\ pc["stepper"] = "idle"
  /\ SetParameter("current", v)
  /\ asked' = [asked EXCEPT !["current"] = v]
  /\ UNCHANGED <<flash, durable, handleOpen, taskVars, before>>

(* saveParamters copies device_stepper field by field. *)
Snapshot(t) ==
  /\ pc[t] = "snapshot"
  /\ values' = [values EXCEPT ![t][Field(t)] = ram[Field(t)]]
  /\ NextField(t, "snapshot", "open")
  /\ UNCHANGED <<ram, flash, durable, handleOpen, job, jobs, asked, before>>

(* Faulty variant: a copy and paste error saves the same member for every name. *)
Saved_Copied(t) == values[t]["current"]

(* The member that goes with the name. *)
Saved(t) == values[t][Field(t)]

(* nvs_set_value: nvs_open, nvs_set_i32, nvs_commit, nvs_close. *)
Open(t, label, next) ==
  /\ pc[t] = label
  /\ handleOpen' = TRUE
  /\ Goto(t, next)
  /\ UNCHANGED <<ram, flash, durable, job, values, jobs, asked, before>>

Set(t) ==
  /\ pc[t] = "set"
  /\ flash' = IF handleOpen THEN [flash EXCEPT ![Field(t)] = Saved(t)] ELSE flash
  /\ Goto(t, "commit")
  /\ UNCHANGED <<ram, durable, handleOpen, job, values, jobs, asked, before>>

(* Faulty variant: nvs_set_i32 is taken to be enough. *)
Committed_Never(kept) == kept

Committed(kept) == IF handleOpen THEN flash ELSE kept

Commit(t) ==
  /\ pc[t] = "commit"
  /\ durable' = Committed(durable)
  /\ Goto(t, "close")
  /\ UNCHANGED <<ram, flash, handleOpen, job, values, jobs, asked, before>>

Close(t, label, again, done) ==
  /\ pc[t] = label
  /\ handleOpen' = FALSE
  /\ NextField(t, again, done)
  /\ UNCHANGED <<ram, flash, durable, job, values, jobs, asked, before>>

(* nvs_get_value: nvs_open, nvs_get_i32 into a variable that is 0, nvs_close. *)
Get(t) ==
  /\ pc[t] = "get"
  /\ values' = [values EXCEPT ![t][Field(t)] = IF handleOpen THEN flash[Field(t)] ELSE 0]
  /\ Goto(t, "closeRead")
  /\ UNCHANGED <<ram, flash, durable, handleOpen, job, jobs, asked, before>>

(* The struct that was read back is assigned to the global one. *)
Publish(t) ==
  /\ pc[t] = "publish"
  /\ ram' = [ram EXCEPT ![Field(t)] = values[t][Field(t)]]
  /\ NextField(t, "publish", IF job[t] = "reset" THEN "restart" ELSE "idle")
  /\ UNCHANGED <<flash, durable, handleOpen, job, values, jobs, asked, before>>

(* A restart reads the parameters of the flash. *)
Restart(kept) ==
  /\ flash' = kept
  /\ durable' = kept
  /\ ram' = kept
  /\ asked' = kept
  /\ before' = kept
  /\ handleOpen' = FALSE
  /\ pc' = [t \in Tasks |-> "idle"]
  /\ index' = [t \in Tasks |-> 1]
  /\ UNCHANGED <<job, values>>

(* esp_restart at the end of command_reset *)
Reset ==
  /\ pc["app"] = "restart"
  /\ Restart(flash)
  /\ UNCHANGED jobs

(* Values that were set and not committed may be lost, each on its own. *)
PowerLoss ==
  /\ Job
  /\ \E lost \in SUBSET {f \in AllFields : flash[f] # durable[f]} :
       Restart([f \in AllFields |-> IF f \in lost THEN durable[f] ELSE flash[f]])

Init ==
  /\ flash \in [AllFields -> {0}]
  /\ durable = flash
  /\ ram = flash
  /\ handleOpen = FALSE
  /\ pc = [t \in Tasks |-> "idle"]
  /\ job = [t \in Tasks |-> "stepper"]
  /\ index = [t \in Tasks |-> 1]
  /\ values = [t \in Tasks |-> flash]
  /\ jobs = 0
  /\ asked = flash
  /\ before = flash

Save(t) ==
  \/ Snapshot(t)
  \/ Open(t, "open", "set")
  \/ Set(t)
  \/ Commit(t)
  \/ Close(t, "close", "open", "openRead")
  \/ Open(t, "openRead", "get")
  \/ Get(t)
  \/ Close(t, "closeRead", "openRead", "publish")
  \/ Publish(t)

Next ==
  \/ \E f \in ToSet(StepperFields), v \in Values : BeginSet("app", f, v)
  \/ \E kind \in {"stepper", "reset"} : BeginSave(kind)
  \/ \E v \in Values : BeginLocation(v)
  \/ BeginSet("stepper", "current", 0)
  \/ \E v \in Values : RecordMove(v)
  \/ \E t \in Tasks : Save(t)
  \/ Reset
  \/ PowerLoss

Spec == Init /\ [][Next]_vars

(* Neither task waits for the other inside a save. *)
FairSpec == Spec /\ WF_vars(Reset) /\ \A t \in Tasks : WF_vars(Save(t))
-----------------------------------------------------------------------------
(* Properties *)

Labels == {"idle", "snapshot", "open", "set", "commit", "close",
           "openRead", "get", "closeRead", "publish", "restart"}

(* Every variable keeps its type. *)
TypeOK ==
  /\ ram \in [AllFields -> Int]
  /\ flash \in [AllFields -> Int]
  /\ durable \in [AllFields -> Int]
  /\ handleOpen \in BOOLEAN
  /\ pc \in [Tasks -> Labels]
  /\ job \in [Tasks -> {"stepper", "reset", "location"}]
  /\ index \in [Tasks -> Nat]
  /\ \A t \in Tasks : index[t] \in DOMAIN FieldsOf(t)
  /\ values \in [Tasks -> [AllFields -> Int]]
  /\ jobs \in Nat
  /\ asked \in [AllFields -> Int]
  /\ before \in [AllFields -> Int]

Idle == \A t \in Tasks : pc[t] = "idle"

(* nvs_commit "must be called to ensure changes are written to flash storage" (net.c 155): *)
(* when no save is under way, every parameter a command has set is in RAM and safely in   *)
(* flash.  The position, which moves change in RAM only, has a property of its own.       *)
SetIsDurable ==
  Idle => \A f \in AllFields \ {"current"} :
            durable[f] = asked[f] /\ flash[f] = asked[f] /\ ram[f] = asked[f]

(* Whenever power fails, each parameter comes back as it was before the last save or as *)
(* the command asked: never as anything else, and never as a 0 that nobody set.         *)
PowerLossKeepsOldOrNew ==
  [][PowerLoss => \A f \in AllFields \ {"current"} : ram'[f] \in {before[f], asked[f]}]_vars

(* After a reset every parameter but the position is what a command last set it to,    *)
(* whatever moves and losses of power came before (net.c 799-803).                       *)
ResetKeepsLimits ==
  [][Reset => \A f \in AllFields \ {"current"} : ram'[f] = asked[f]]_vars

(* Every save ends. *)
SavesEnd == \A t \in Tasks : pc[t] # "idle" ~> pc[t] = "idle"
=============================================================================
