--------------------------- MODULE ParamStore_proofs ---------------------------
(***************************************************************************)
(* Proofs about ParamStore, for all fields, values and numbers of saves.   *)
(*                                                                         *)
(* If no save begins during one of the other task, every parameter that a  *)
(* command has set is in RAM and safely in flash when the save is over,    *)
(* power may fail at any NVS call without leaving anything but the old or  *)
(* the new value, and a reset keeps what was set.  The run params_overlap  *)
(* shows that the condition cannot be dropped.                             *)
(***************************************************************************)
EXTENDS ParamStore, TLAPS

USE FieldAssumption, OverlapAssumption, ValueAssumption
DEF FieldAssumption, OverlapAssumption, ValueAssumption

Fields(t) == {FieldsOf(t)[i] : i \in 1 .. Len(FieldsOf(t))}
Passed(t) == {FieldsOf(t)[i] : i \in 1 .. (index[t] - 1)}

(* A task that saves nothing stands at the first field. *)
TypeInv == TypeOK /\ \A t \in Tasks : pc[t] = "idle" => index[t] = 1

(* The two structs have fields, and a task stands at one of those that it saves. *)
LEMMA FieldFacts ==
  ASSUME TypeOK, NEW t \in Tasks
  PROVE  /\ FieldsOf(t) \in Seq(STRING)
         /\ index[t] \in 1 .. Len(FieldsOf(t))
         /\ Field(t) \in Fields(t) /\ Passed(t) \subseteq Fields(t)
         /\ Fields(t) \subseteq AllFields
<1>1. FieldsOf(t) \in Seq(STRING)
  BY DEF FieldsOf
<1>2. index[t] \in 1 .. Len(FieldsOf(t))
  BY <1>1 DEF TypeOK
<1>3. Fields(t) \subseteq AllFields
  BY DEF FieldsOf, Fields, AllFields, ToSet
<1> QED
  BY <1>1, <1>2, <1>3 DEF Field, Fields, Passed

(* Where a task stands after a field: at the next one, or at the first of a new phase. *)
LEMMA Advance ==
  ASSUME TypeOK, NEW t \in Tasks, NEW again \in Labels, NEW done \in Labels,
         NextField(t, again, done), UNCHANGED job
  PROVE  /\ pc' \in [Tasks -> Labels] /\ index' \in [Tasks -> Nat]
         /\ \A u \in Tasks \ {t} : pc'[u] = pc[u] /\ index'[u] = index[u]
         /\ \A u \in Tasks : index'[u] \in DOMAIN FieldsOf(u)'
         /\ Fields(t)' = Fields(t) /\ FieldsOf(t)' = FieldsOf(t)
         /\ \/ /\ pc'[t] = again /\ index'[t] = index[t] + 1
               /\ Passed(t)' = Passed(t) \union {Field(t)}
            \/ /\ pc'[t] = done /\ index'[t] = 1
               /\ Passed(t)' = {} /\ Fields(t) = Passed(t) \union {Field(t)}
<1>1. \A u \in Tasks : /\ FieldsOf(u)' = FieldsOf(u) /\ FieldsOf(u) \in Seq(STRING)
                       /\ index[u] \in 1 .. Len(FieldsOf(u))
  BY FieldFacts DEF FieldsOf
<1>2. pc \in [Tasks -> Labels] /\ index \in [Tasks -> Nat]
  BY DEF TypeOK
<1>3. CASE index[t] < Len(FieldsOf(t))
  <2>1. pc' = [pc EXCEPT ![t] = again] /\ index' = [index EXCEPT ![t] = @ + 1]
    BY <1>3 DEF NextField
  <2>2. index'[t] = index[t] + 1 /\ index'[t] \in 1 .. Len(FieldsOf(t))
    BY <1>1, <1>2, <1>3, <2>1
  <2>3. Passed(t)' = Passed(t) \union {Field(t)}
    <3>1. Passed(t)' = {FieldsOf(t)[i] : i \in 1 .. index[t]}
      BY <1>1, <2>2 DEF Passed
    <3>2. 1 .. index[t] = (1 .. (index[t] - 1)) \union {index[t]}
      BY <1>1
    <3> QED
      BY <3>1, <3>2 DEF Passed, Field
  <2> QED
    BY <1>1, <1>2, <2>1, <2>2, <2>3 DEF Fields
<1>4. CASE ~(index[t] < Len(FieldsOf(t)))
  <2>1. pc' = [pc EXCEPT ![t] = done] /\ index' = [index EXCEPT ![t] = 1]
    BY <1>4 DEF NextField
  <2>2. index[t] = Len(FieldsOf(t)) /\ 1 \in 1 .. Len(FieldsOf(t)) /\ index'[t] = 1
    BY <1>1, <1>2, <1>4, <2>1
  <2>3. Passed(t)' = {}
    BY <2>2 DEF Passed
  <2>4. Fields(t) = Passed(t) \union {Field(t)}
    <3>1. 1 .. Len(FieldsOf(t)) = (1 .. (index[t] - 1)) \union {index[t]}
      BY <1>1, <2>2
    <3> QED
      BY <3>1 DEF Passed, Fields, Field
  <2> QED
    BY <1>1, <1>2, <2>1, <2>2, <2>3, <2>4 DEF Fields
<1> QED
  BY <1>3, <1>4

(* The variables that hold parameters. *)
DataOK ==
  /\ ram \in [AllFields -> Int] /\ flash \in [AllFields -> Int]
  /\ durable \in [AllFields -> Int] /\ handleOpen \in BOOLEAN
  /\ values \in [Tasks -> [AllFields -> Int]] /\ jobs \in Nat
  /\ asked \in [AllFields -> Int] /\ before \in [AllFields -> Int]

(* Where the tasks are. *)
ControlOK ==
  /\ pc \in [Tasks -> Labels]
  /\ job \in [Tasks -> {"stepper", "reset", "location"}]
  /\ index \in [Tasks -> Nat]
  /\ \A t \in Tasks : index[t] \in DOMAIN FieldsOf(t)
  /\ \A t \in Tasks : pc[t] = "idle" => index[t] = 1

(* The types of the data and of the control, each on its own. *)
LEMMA TypeParts == TypeInv <=> DataOK /\ ControlOK
  BY DEF TypeInv, TypeOK, DataOK, ControlOK

(* Every step keeps the parameters what they are: integers. *)
LEMMA NextDataOK ==
  ASSUME TypeInv, Next
  PROVE  DataOK'
<1>1. DataOK /\ "current" \in AllFields /\ \A t \in Tasks : Field(t) \in AllFields
  <2>1. DataOK /\ TypeOK
    BY TypeParts DEF TypeInv
  <2> QED
    BY <2>1, FieldFacts DEF AllFields
<1>2. ASSUME NEW t \in Tasks, NEW f \in AllFields, NEW v \in Int, BeginSet(t, f, v)
      PROVE  DataOK'
  <2>1. ram' \in [AllFields -> Int] /\ asked' \in [AllFields -> Int]
    BY <1>1, <1>2 DEF BeginSet, SetParameter, DataOK
  <2>2. jobs' \in Nat
    BY <1>1, <1>2 DEF BeginSet, Begin, Job, DataOK
  <2>3. /\ flash' = flash /\ durable' = durable /\ handleOpen' = handleOpen
        /\ values' = values /\ before' = durable
    BY <1>2 DEF BeginSet, Begin
  <2> QED
    BY <1>1, <2>1, <2>2, <2>3, Zenon DEF DataOK
<1>3. ASSUME NEW kind \in {"stepper", "reset"}, BeginSave(kind) PROVE DataOK'
  BY <1>1, <1>3 DEF BeginSave, Begin, Job, DataOK
<1>4. ASSUME NEW v \in Values, BeginLocation(v) PROVE DataOK'
  <2>1. [f \in AllFields |-> v] \in [AllFields -> Int]
    OBVIOUS
  <2>2. asked' \in [AllFields -> Int]
    BY <1>1, <1>4 DEF BeginLocation, DataOK
  <2>3. values' \in [Tasks -> [AllFields -> Int]]
    BY <1>1, <1>4, <2>1 DEF BeginLocation, DataOK
  <2> QED
    BY <1>1, <1>4, <2>2, <2>3 DEF BeginLocation, Begin, Job, DataOK
<1>5. ASSUME NEW v \in Values, RecordMove(v) PROVE DataOK'
  BY <1>1, <1>5 DEF RecordMove, Job, SetParameter, DataOK, taskVars
<1>6. ASSUME NEW t \in Tasks, Save(t) PROVE DataOK'
  <2>1. CASE Snapshot(t)
    BY <1>1, <2>1 DEF Snapshot, DataOK
  <2>2. ASSUME NEW label, NEW next, Open(t, label, next) PROVE DataOK'
    BY <1>1, <2>2 DEF Open, DataOK
  <2>3. CASE Set(t)
    BY <1>1, <2>3 DEF Set, Saved, DataOK
  <2>4. CASE Commit(t)
    BY <1>1, <2>4 DEF Commit, Committed, DataOK
  <2>5. ASSUME NEW label, NEW again, NEW done, Close(t, label, again, done) PROVE DataOK'
    BY <1>1, <2>5 DEF Close, DataOK
  <2>6. CASE Get(t)
    BY <1>1, <2>6 DEF Get, DataOK
  <2>7. CASE Publish(t)
    BY <1>1, <2>7 DEF Publish, DataOK
  <2> QED
    BY <1>6, <2>1, <2>2, <2>3, <2>4, <2>5, <2>6, <2>7 DEF Save
<1>7. ASSUME NEW kept \in [AllFields -> Int], Restart(kept), jobs' \in Nat PROVE DataOK'
  BY <1>1, <1>7 DEF Restart, DataOK
<1>8. CASE Reset
  BY <1>1, <1>7, <1>8 DEF Reset, DataOK
<1>9. CASE PowerLoss
  <2>1. PICK lost \in SUBSET AllFields :
          Restart([f \in AllFields |-> IF f \in lost THEN durable[f] ELSE flash[f]])
    BY <1>9 DEF PowerLoss
  <2>2. [f \in AllFields |-> IF f \in lost THEN durable[f] ELSE flash[f]] \in [AllFields -> Int]
    BY <1>1 DEF DataOK
  <2>3. jobs' \in Nat
    BY <1>1, <1>9 DEF PowerLoss, Job, DataOK
  <2> QED
    BY <1>7, <2>1, <2>2, <2>3
<1> QED
  BY <1>2, <1>3, <1>4, <1>5, <1>6, <1>8, <1>9 DEF Next, Tasks, AllFields

(* Every step leaves each task at a field of the struct that it saves. *)
LEMMA NextControlOK ==
  ASSUME TypeInv, Next
  PROVE  ControlOK'
<1> USE DEF Labels
<1>1. /\ ControlOK /\ TypeOK /\ \A t \in Tasks : FieldsOf(t) \in Seq(STRING)
  BY TypeParts, FieldFacts DEF TypeInv
<1>2. ASSUME NEW t \in Tasks, NEW kind \in {"stepper", "reset", "location"},
             NEW label \in Labels \ {"idle"}, Begin(t, kind, label)
      PROVE  ControlOK'
  <2>1. pc' = [pc EXCEPT ![t] = label] /\ UNCHANGED index
        /\ job' = [job EXCEPT ![t] = kind] /\ index[t] = 1
    BY <1>1, <1>2 DEF Begin, Goto, ControlOK
  <2>2. \A u \in Tasks : u # t => FieldsOf(u)' = FieldsOf(u)
    BY <1>1, <2>1 DEF FieldsOf, ControlOK
  <2>3. 1 \in DOMAIN FieldsOf(t)'
    <3>1. \A s \in Seq(STRING) : s # <<>> => 1 \in DOMAIN s
      OBVIOUS
    <3>2. FieldsOf(t)' \in {StepperFields, LocationFields} /\ StepperFields # <<>>
      BY DEF FieldsOf, ToSet
    <3> QED
      BY <3>1, <3>2
  <2> QED
    BY <1>1, <2>1, <2>2, <2>3 DEF ControlOK
<1>3. ASSUME NEW t \in Tasks, NEW f, NEW v, BeginSet(t, f, v) PROVE ControlOK'
  BY <1>2, <1>3 DEF BeginSet
<1>4. ASSUME NEW kind \in {"stepper", "reset"}, BeginSave(kind) PROVE ControlOK'
  BY <1>2, <1>4 DEF BeginSave, Tasks
<1>5. ASSUME NEW v, BeginLocation(v) PROVE ControlOK'
  BY <1>2, <1>5 DEF BeginLocation, Tasks
<1>6. ASSUME NEW v, RecordMove(v) PROVE ControlOK'
  BY <1>1, <1>6 DEF RecordMove, taskVars, ControlOK, FieldsOf
<1>7. ASSUME NEW t \in Tasks, NEW again \in Labels \ {"idle"}, NEW done \in Labels,
             NextField(t, again, done), UNCHANGED job
      PROVE  ControlOK'
  <2>1. /\ pc' \in [Tasks -> Labels] /\ index' \in [Tasks -> Nat]
        /\ \A u \in Tasks \ {t} : pc'[u] = pc[u] /\ index'[u] = index[u]
        /\ \A u \in Tasks : index'[u] \in DOMAIN FieldsOf(u)'
        /\ pc'[t] = "idle" => index'[t] = 1
    BY <1>1, <1>7, Advance
  <2> QED
    BY <1>1, <1>7, <2>1 DEF ControlOK
<1>8. ASSUME NEW t \in Tasks, NEW label \in Labels \ {"idle"}, Goto(t, label), UNCHANGED job
      PROVE  ControlOK'
  BY <1>1, <1>8 DEF Goto, ControlOK, FieldsOf
<1>9. ASSUME NEW t \in Tasks, Save(t) PROVE ControlOK'
  <2>1. CASE Snapshot(t)
    BY <1>7, <2>1 DEF Snapshot
  <2>2. CASE Open(t, "open", "set") \/ Open(t, "openRead", "get")
    BY <1>8, <2>2 DEF Open
  <2>3. CASE Set(t)
    BY <1>8, <2>3 DEF Set
  <2>4. CASE Commit(t)
    BY <1>8, <2>4 DEF Commit
  <2>5. CASE Close(t, "close", "open", "openRead") \/ Close(t, "closeRead", "openRead", "publish")
    BY <1>7, <2>5 DEF Close
  <2>6. CASE Get(t)
    BY <1>8, <2>6 DEF Get
  <2>7. CASE Publish(t)
    BY <1>7, <2>7 DEF Publish
  <2> QED
    BY <1>9, <2>1, <2>2, <2>3, <2>4, <2>5, <2>6, <2>7 DEF Save
<1>10. CASE Reset \/ PowerLoss
  <2>1. PICK kept : Restart(kept)
    BY <1>10 DEF Reset, PowerLoss
  <2>2. \A t \in Tasks : FieldsOf(t)' = FieldsOf(t) /\ FieldsOf(t) # <<>>
    BY <1>1, <2>1 DEF Restart, FieldsOf, ControlOK
  <2>3. \A s \in Seq(STRING) : s # <<>> => 1 \in DOMAIN s
    OBVIOUS
  <2> QED
    BY <1>1, <2>1, <2>2, <2>3 DEF Restart, ControlOK
<1> QED
  BY <1>3, <1>4, <1>5, <1>6, <1>9, <1>10 DEF Next, Tasks

(* The device boots with its defaults in RAM. *)
LEMMA InitTypeInv == Init => TypeInv
<1> SUFFICES ASSUME Init PROVE TypeInv
  OBVIOUS
<1>1. \A s \in Seq(STRING) : s # <<>> => 1 \in DOMAIN s
  OBVIOUS
<1>2. \A t \in Tasks : FieldsOf(t) \in Seq(STRING) /\ FieldsOf(t) # <<>>
  BY DEF FieldsOf, ToSet
<1>3. ControlOK
  BY <1>1, <1>2 DEF Init, ControlOK, Labels
<1>4. DataOK
  <2>1. flash \in [AllFields -> Int] /\ durable = flash /\ ram = flash /\ asked = flash
        /\ before = flash /\ values = [t \in Tasks |-> flash] /\ jobs \in Nat
    BY DEF Init
  <2> QED
    BY <2>1 DEF Init, DataOK
<1> QED
  BY <1>3, <1>4, TypeParts

(* Every step keeps the types. *)
LEMMA NextTypeInv == TypeInv /\ [Next]_vars => TypeInv'
<1>1. TypeInv /\ Next => TypeInv'
  BY NextDataOK, NextControlOK, TypeParts, PTL
<1>2. TypeInv /\ UNCHANGED vars => TypeInv'
  BY DEF vars, TypeInv, TypeOK, FieldsOf
<1> QED
  BY <1>1, <1>2

(* For all fields and values, and whether saves overlap or not: parameters stay integers *)
(* and no task runs past the last field of a struct (net.c 178-209).                      *)
THEOREM TypeCorrect == Spec => []TypeOK
  BY InitTypeInv, NextTypeInv, PTL DEF Spec, TypeInv
-----------------------------------------------------------------------------
(* The parameters that only commands set: all but the position. *)
Limits == AllFields \ {"current"}

Saving == {"snapshot", "open", "set", "commit", "close"}
Opened == {"set", "commit", "close", "get", "closeRead"}

(* How far a save has come with a field: the value to be saved is there, nvs_set_i32 and *)
(* nvs_commit are done, what was read back is in RAM.                                    *)
HasValue(t, f) == pc[t] # "snapshot" \/ f \in Passed(t)
IsSaved(t, f) == f \in Passed(t) /\ pc[t] # "snapshot"
IsSet(t, f) == IsSaved(t, f) \/ (f = Field(t) /\ pc[t] \in {"commit", "close"})
IsCommitted(t, f) == IsSaved(t, f) \/ (f = Field(t) /\ pc[t] = "close")
IsPublished(t, f) == pc[t] = "publish" /\ f \in Passed(t)

(* A parameter halfway through a save. *)
Kept(t, f) ==
  /\ f \in Fields(t) /\ HasValue(t, f) => values[t][f] = asked[f]
  /\ f \notin Fields(t) \/ pc[t] \notin Saving \/ IsSet(t, f) => flash[f] = asked[f]
  /\ f \notin Fields(t) \/ pc[t] \notin Saving \/ IsCommitted(t, f) => durable[f] = asked[f]
  /\ flash[f] = durable[f] \/ (pc[t] = "commit" /\ f = Field(t))
  /\ f \notin Fields(t) \/ job[t] # "location" \/ IsPublished(t, f) => ram[f] = asked[f]

OldOrNew(f) == flash[f] \in {before[f], asked[f]} /\ durable[f] \in {before[f], asked[f]}
Settled(f) == ram[f] = asked[f] /\ flash[f] = asked[f] /\ durable[f] = asked[f]

FieldInv(f) ==
  /\ OldOrNew(f)
  /\ Idle => Settled(f)
  /\ \A t \in Tasks : pc[t] # "idle" => Kept(t, f)

(* One task saves at a time, and the handle is open just when it has opened it. *)
TurnInv ==
  /\ \A t, u \in Tasks : pc[t] # "idle" /\ pc[u] # "idle" => t = u
  /\ \A t \in Tasks : pc[t] \in Opened => handleOpen
  /\ \A t \in Tasks : job[t] = "location" => pc[t] \notin {"snapshot", "restart"}

SaveInv == TurnInv /\ \A f \in Limits : FieldInv(f)

(* At the start and after a restart all copies are the same. *)
LEMMA FreshInv ==
  ASSUME NEW kept, Restart(kept)
  PROVE  SaveInv'
<1>1. TurnInv'
  BY DEF Restart, TurnInv, Tasks, Opened
<1>2. ASSUME NEW f \in Limits PROVE FieldInv(f)'
  BY DEF Restart, FieldInv, OldOrNew, Settled, Idle
<1> QED
  BY <1>1, <1>2 DEF SaveInv, Limits

(* The one task that saves, and what it leaves when it is done. *)
LEMMA OneSaves ==
  ASSUME TurnInv, NEW t \in Tasks, pc[t] # "idle", NEW f,
         \A u \in Tasks \ {t} : pc'[u] = pc[u],
         OldOrNew(f)',
         pc'[t] = "idle" => Settled(f)',
         pc'[t] # "idle" => Kept(t, f)'
  PROVE  FieldInv(f)'
<1>1. \A u \in Tasks \ {t} : pc'[u] = "idle"
  BY DEF TurnInv
<1> QED
  BY <1>1 DEF FieldInv, Idle

(* A save that begins when nobody saves. *)
LEMMA BeginKept ==
  ASSUME ~Overlap, TypeInv, SaveInv,
         NEW t \in Tasks, NEW kind \in {"stepper", "reset", "location"},
         NEW label \in {"snapshot", "open"}, Begin(t, kind, label),
         kind = "location" => label = "open",
         NEW f \in Limits,
         kind # "location" => label = "snapshot" /\ ram'[f] = asked'[f],
         kind = "location" => ram'[f] = ram[f],
         asked'[f] = asked[f] \/ f \in Fields(t)',
         kind = "location" /\ f \in Fields(t)' => values'[t][f] = asked'[f]
  PROVE  FieldInv(f)'
<1>1. Idle /\ Settled(f)
  BY DEF SaveInv, FieldInv, Begin, Idle
<1>2. /\ \A u \in Tasks \ {t} : pc'[u] = "idle"
      /\ pc'[t] = label /\ job'[t] = kind /\ index' = index /\ index[t] = 1
      /\ flash' = flash /\ durable' = durable /\ before' = durable
  BY <1>1 DEF Begin, Goto, TypeInv, TypeOK, Idle
<1>3. Passed(t)' = {}
  BY <1>2 DEF Passed
<1>4. OldOrNew(f)'
  BY <1>1, <1>2 DEF OldOrNew, Settled
<1>5. Kept(t, f)'
  BY <1>1, <1>2, <1>3 DEF Kept, Settled, HasValue, IsSaved, IsSet, IsCommitted, IsPublished, Saving
<1> QED
  BY <1>2, <1>4, <1>5 DEF FieldInv, Idle

(* Each step of a save keeps what it has done for the fields behind it. *)
LEMMA SaveKept ==
  ASSUME TypeInv, SaveInv, NEW t \in Tasks, Save(t), NEW f \in Limits
  PROVE  FieldInv(f)'
<1>1. pc[t] # "idle" /\ Kept(t, f) /\ OldOrNew(f) /\ TurnInv /\ UNCHANGED <<job, asked, before>>
  BY DEF Save, Snapshot, Open, Set, Commit, Close, Get, Publish, SaveInv, FieldInv
<1>2. /\ TypeOK /\ f \in AllFields
      /\ ram \in [AllFields -> Int] /\ flash \in [AllFields -> Int] /\ durable \in [AllFields -> Int]
      /\ values \in [Tasks -> [AllFields -> Int]] /\ pc \in [Tasks -> Labels]
      /\ Field(t) \in AllFields /\ Field(t) \in Fields(t) /\ Passed(t) \subseteq Fields(t)
  BY FieldFacts DEF TypeInv, TypeOK, Limits
<1> USE DEF Kept, OldOrNew, Settled, HasValue, IsSaved, IsSet, IsCommitted, IsPublished, Saving
<1>3. ASSUME NEW again \in Labels, NEW done \in Labels, NextField(t, again, done)
      PROVE  /\ \A u \in Tasks \ {t} : pc'[u] = pc[u]
             /\ Fields(t)' = Fields(t)
             /\ \/ pc'[t] = again /\ Passed(t)' = Passed(t) \union {Field(t)}
                \/ pc'[t] = done /\ Passed(t)' = {} /\ Fields(t) = Passed(t) \union {Field(t)}
  BY <1>1, <1>2, <1>3, Advance
<1>4. ASSUME NEW label \in Labels, Goto(t, label)
      PROVE  /\ \A u \in Tasks \ {t} : pc'[u] = pc[u]
             /\ pc'[t] = label /\ UNCHANGED <<Fields(t), Passed(t), Field(t)>>
  BY <1>1, <1>2, <1>4 DEF Goto, Fields, Passed, Field, FieldsOf
<1> USE DEF Labels
<1>5. CASE Snapshot(t)
  <2>1. /\ \A u \in Tasks \ {t} : pc'[u] = pc[u]
        /\ Fields(t)' = Fields(t)
        /\ \/ pc'[t] = "snapshot" /\ Passed(t)' = Passed(t) \union {Field(t)}
           \/ pc'[t] = "open" /\ Passed(t)' = {} /\ Fields(t) = Passed(t) \union {Field(t)}
    BY <1>3, <1>5 DEF Snapshot
  <2>2. /\ values'[t][f] = IF f = Field(t) THEN ram[f] ELSE values[t][f]
        /\ UNCHANGED <<ram, flash, durable>> /\ pc[t] = "snapshot" /\ job[t] # "location"
    BY <1>1, <1>2, <1>5 DEF Snapshot, TurnInv
  <2>3. Kept(t, f)'
    BY <1>1, <2>1, <2>2
  <2> QED
    BY <1>1, <2>1, <2>2, <2>3, OneSaves
<1>6. ASSUME NEW label \in {"open", "openRead"}, NEW next \in {"set", "get"},
             label = "open" <=> next = "set", Open(t, label, next)
      PROVE  FieldInv(f)'
  <2>1. /\ \A u \in Tasks \ {t} : pc'[u] = pc[u]
        /\ pc'[t] = next /\ UNCHANGED <<Fields(t), Passed(t), Field(t)>>
    BY <1>4, <1>6 DEF Open
  <2>2. pc[t] = label /\ UNCHANGED <<ram, flash, durable, values>>
    BY <1>6 DEF Open
  <2>3. Kept(t, f)'
    BY <1>1, <1>6, <2>1, <2>2
  <2> QED
    BY <1>1, <1>6, <2>1, <2>2, <2>3, OneSaves
<1>7. CASE Set(t)
  <2>1. /\ \A u \in Tasks \ {t} : pc'[u] = pc[u]
        /\ pc'[t] = "commit" /\ UNCHANGED <<Fields(t), Passed(t), Field(t)>>
    BY <1>4, <1>7 DEF Set
  <2>2. /\ flash'[f] = IF f = Field(t) THEN values[t][f] ELSE flash[f]
        /\ pc[t] = "set" /\ UNCHANGED <<ram, durable, values>>
    BY <1>1, <1>2, <1>7 DEF Set, Saved, TurnInv, Opened
  <2>3. Kept(t, f)'
    BY <1>1, <1>2, <2>1, <2>2
  <2>4. OldOrNew(f)'
    BY <1>1, <1>2, <2>2
  <2> QED
    BY <1>1, <2>1, <2>3, <2>4, OneSaves
<1>8. CASE Commit(t)
  <2>1. /\ \A u \in Tasks \ {t} : pc'[u] = pc[u]
        /\ pc'[t] = "close" /\ UNCHANGED <<Fields(t), Passed(t), Field(t)>>
    BY <1>4, <1>8 DEF Commit
  <2>2. durable' = flash /\ pc[t] = "commit" /\ UNCHANGED <<ram, flash, values>>
    BY <1>1, <1>8 DEF Commit, Committed, TurnInv, Opened
  <2>3. Kept(t, f)'
    BY <1>1, <2>1, <2>2
  <2>4. OldOrNew(f)'
    BY <1>1, <2>2
  <2> QED
    BY <1>1, <2>1, <2>3, <2>4, OneSaves
<1>9. CASE Close(t, "close", "open", "openRead")
  <2>1. /\ \A u \in Tasks \ {t} : pc'[u] = pc[u]
        /\ Fields(t)' = Fields(t)
        /\ \/ pc'[t] = "open" /\ Passed(t)' = Passed(t) \union {Field(t)}
           \/ pc'[t] = "openRead" /\ Passed(t)' = {} /\ Fields(t) = Passed(t) \union {Field(t)}
    BY <1>3, <1>9 DEF Close
  <2>2. pc[t] = "close" /\ UNCHANGED <<ram, flash, durable, values>>
    BY <1>9 DEF Close
  <2>3. Kept(t, f)'
    BY <1>1, <2>1, <2>2
  <2> QED
    BY <1>1, <2>1, <2>2, <2>3, OneSaves
<1>10. CASE Get(t)
  <2>1. /\ \A u \in Tasks \ {t} : pc'[u] = pc[u]
        /\ pc'[t] = "closeRead" /\ UNCHANGED <<Fields(t), Passed(t), Field(t)>>
    BY <1>4, <1>10 DEF Get
  <2>2. /\ values'[t][f] = IF f = Field(t) THEN flash[f] ELSE values[t][f]
        /\ UNCHANGED <<ram, flash, durable>> /\ pc[t] = "get"
    BY <1>1, <1>2, <1>10 DEF Get, TurnInv, Opened
  <2>3. Kept(t, f)'
    BY <1>1, <2>1, <2>2
  <2> QED
    BY <1>1, <2>1, <2>2, <2>3, OneSaves
<1>11. CASE Close(t, "closeRead", "openRead", "publish")
  <2>1. /\ \A u \in Tasks \ {t} : pc'[u] = pc[u]
        /\ Fields(t)' = Fields(t)
        /\ \/ pc'[t] = "openRead" /\ Passed(t)' = Passed(t) \union {Field(t)}
           \/ pc'[t] = "publish" /\ Passed(t)' = {}
    BY <1>3, <1>11 DEF Close
  <2>2. pc[t] = "closeRead" /\ UNCHANGED <<ram, flash, durable, values>>
    BY <1>11 DEF Close
  <2>3. Kept(t, f)'
    BY <1>1, <2>1, <2>2
  <2> QED
    BY <1>1, <2>1, <2>2, <2>3, OneSaves
<1>12. CASE Publish(t)
  <2> DEFINE done == IF job[t] = "reset" THEN "restart" ELSE "idle"
  <2>1. /\ \A u \in Tasks \ {t} : pc'[u] = pc[u]
        /\ Fields(t)' = Fields(t)
        /\ \/ pc'[t] = "publish" /\ Passed(t)' = Passed(t) \union {Field(t)}
           \/ pc'[t] = done /\ Passed(t)' = {} /\ Fields(t) = Passed(t) \union {Field(t)}
    BY <1>3, <1>12 DEF Publish
  <2>2. /\ ram'[f] = IF f = Field(t) THEN values[t][f] ELSE ram[f]
        /\ UNCHANGED <<flash, durable, values>> /\ pc[t] = "publish"
    BY <1>2, <1>12 DEF Publish
  <2>3. values[t][f] = asked[f] \/ f \notin Fields(t)
    BY <1>1, <2>2
  <2>4. pc'[t] # "idle" => Kept(t, f)'
    BY <1>1, <1>2, <2>1, <2>2, <2>3
  <2>5. pc'[t] = "idle" => Settled(f)'
    BY <1>1, <1>2, <2>1, <2>2, <2>3
  <2> QED
    BY <1>1, <2>1, <2>2, <2>4, <2>5, OneSaves
<1> QED
  BY <1>5, <1>6, <1>7, <1>8, <1>9, <1>10, <1>11, <1>12 DEF Save

(* Tasks take turns, if none begins out of turn. *)
LEMMA NextTurn ==
  ASSUME ~Overlap, TypeInv, SaveInv, [Next]_vars
  PROVE  TurnInv'
<1> USE DEF Labels, Opened
<1>1. TurnInv /\ TypeOK /\ pc \in [Tasks -> Labels] /\ job \in [Tasks -> {"stepper", "reset", "location"}]
  BY DEF SaveInv, TypeInv, TypeOK
<1>2. ASSUME NEW t \in Tasks, NEW kind \in {"stepper", "reset", "location"},
             NEW label \in {"snapshot", "open"}, kind = "location" => label = "open",
             Begin(t, kind, label)
      PROVE  TurnInv'
  <2>1. pc' = [pc EXCEPT ![t] = label] /\ job' = [job EXCEPT ![t] = kind]
        /\ \A u \in Tasks : pc[u] = "idle"
    BY <1>2 DEF Begin, Goto
  <2> QED
    BY <1>1, <1>2, <2>1 DEF TurnInv, Tasks
<1>3. ASSUME NEW t \in Tasks, NEW f, NEW v, BeginSet(t, f, v) PROVE TurnInv'
  BY <1>2, <1>3 DEF BeginSet
<1>4. ASSUME NEW kind \in {"stepper", "reset"}, BeginSave(kind) PROVE TurnInv'
  BY <1>2, <1>4 DEF BeginSave, Tasks
<1>5. ASSUME NEW v, BeginLocation(v) PROVE TurnInv'
  BY <1>2, <1>5 DEF BeginLocation, Tasks
<1>6. ASSUME NEW v, RecordMove(v) PROVE TurnInv'
  BY <1>1, <1>6 DEF RecordMove, TurnInv, taskVars
<1>7. ASSUME NEW t \in Tasks, NEW again \in Labels, NEW done \in Labels,
             NextField(t, again, done), UNCHANGED job, pc[t] # "idle",
             {again, done} \intersect Opened = {},
             again = "snapshot" => pc[t] = "snapshot", again # "restart", done # "snapshot",
             done = "restart" => job[t] = "reset"
      PROVE  TurnInv'
  <2>1. /\ \A u \in Tasks \ {t} : pc'[u] = pc[u] /\ pc[u] = "idle"
        /\ pc'[t] \in {again, done}
    BY <1>1, <1>7, Advance DEF TurnInv
  <2> QED
    BY <1>1, <1>7, <2>1 DEF TurnInv, Tasks
<1>8. ASSUME NEW t \in Tasks, NEW label \in Labels \ {"restart", "snapshot"}, Goto(t, label),
             UNCHANGED job, pc[t] # "idle", label \in Opened => handleOpen'
      PROVE  TurnInv'
  <2>1. /\ \A u \in Tasks \ {t} : pc'[u] = pc[u] /\ pc[u] = "idle"
        /\ pc'[t] = label
    BY <1>1, <1>8 DEF TurnInv, Goto
  <2> QED
    BY <1>1, <1>8, <2>1 DEF TurnInv, Tasks
<1>9. ASSUME NEW t \in Tasks, Save(t) PROVE TurnInv'
  <2>1. CASE Snapshot(t)
    BY <1>7, <2>1 DEF Snapshot
  <2>2. CASE Open(t, "open", "set") \/ Open(t, "openRead", "get")
    BY <1>8, <2>2 DEF Open
  <2>3. CASE Set(t)
    BY <1>1, <1>8, <2>3 DEF Set, TurnInv
  <2>4. CASE Commit(t)
    BY <1>1, <1>8, <2>4 DEF Commit, TurnInv
  <2>5. CASE Close(t, "close", "open", "openRead") \/ Close(t, "closeRead", "openRead", "publish")
    BY <1>7, <2>5 DEF Close
  <2>6. CASE Get(t)
    BY <1>1, <1>8, <2>6 DEF Get, TurnInv
  <2>7. CASE Publish(t)
    BY <1>7, <2>7 DEF Publish
  <2> QED
    BY <1>9, <2>1, <2>2, <2>3, <2>4, <2>5, <2>6, <2>7 DEF Save
<1>10. CASE Reset \/ PowerLoss
  BY <1>10, FreshInv DEF Reset, PowerLoss, SaveInv
<1>11. CASE UNCHANGED vars
  BY <1>1, <1>11 DEF vars, TurnInv
<1> QED
  BY <1>3, <1>4, <1>5, <1>6, <1>9, <1>10, <1>11 DEF Next, Tasks

(* Every step keeps what is known of the limits. *)
LEMMA NextSaveInv ==
  ASSUME ~Overlap, TypeInv, SaveInv, [Next]_vars
  PROVE  SaveInv'
<1>1. TurnInv /\ TypeOK /\ \A f \in Limits : FieldInv(f)
  BY DEF SaveInv, TypeInv
<1>2. ASSUME NEW t \in Tasks, NEW g \in ToSet(StepperFields), NEW v \in Int, BeginSet(t, g, v),
             NEW f \in Limits
      PROVE  FieldInv(f)'
  <2>1. ram[f] = asked[f]
    BY <1>1, <1>2 DEF BeginSet, Begin, FieldInv, Settled, Idle, SaveInv
  <2>2. ram'[f] = asked'[f] /\ (asked'[f] = asked[f] \/ f = g)
    BY <1>1, <1>2, <2>1 DEF BeginSet, SetParameter, TypeOK, Limits
  <2>3. Begin(t, "stepper", "snapshot") /\ Fields(t)' = ToSet(StepperFields)
    BY <1>1, <1>2 DEF BeginSet, Begin, Fields, FieldsOf, ToSet, TypeOK
  <2> QED
    BY <2>2, <2>3, BeginKept
<1>3. ASSUME NEW kind \in {"stepper", "reset"}, BeginSave(kind), NEW f \in Limits
      PROVE  FieldInv(f)'
  <2>1. ram[f] = asked[f]
    BY <1>1, <1>3 DEF BeginSave, Begin, FieldInv, Settled, Idle, SaveInv
  <2>2. UNCHANGED <<ram, asked>> /\ Begin("app", kind, "snapshot")
    BY <1>3 DEF BeginSave
  <2> QED
    BY <2>1, <2>2, BeginKept DEF Tasks
<1>4. ASSUME NEW v \in Values, BeginLocation(v), NEW f \in Limits
      PROVE  FieldInv(f)'
  <2>1. Begin("app", "location", "open") /\ ram' = ram
    BY <1>4 DEF BeginLocation
  <2>2. Fields("app")' = ToSet(LocationFields)
    BY <1>1, <2>1 DEF Begin, Fields, FieldsOf, ToSet, TypeOK, Tasks
  <2>3. /\ asked'[f] = asked[f] \/ f \in ToSet(LocationFields)
        /\ f \in ToSet(LocationFields) => values'["app"][f] = asked'[f]
    BY <1>1, <1>4 DEF BeginLocation, TypeOK, Tasks, Limits
  <2> QED
    BY <2>1, <2>2, <2>3, BeginKept DEF Tasks
<1>5. ASSUME NEW v \in Values, RecordMove(v), NEW f \in Limits
      PROVE  FieldInv(f)'
  <2>1. /\ ram'[f] = ram[f] /\ asked'[f] = asked[f]
        /\ UNCHANGED <<flash, durable, before, pc, job, index, values>>
    BY <1>1, <1>5 DEF RecordMove, SetParameter, TypeOK, Limits, taskVars
  <2>2. \A t \in Tasks : Kept(t, f) => Kept(t, f)'
    BY <2>1 DEF Kept, HasValue, IsSaved, IsSet, IsCommitted, IsPublished, Fields, Passed, Field, FieldsOf
  <2> QED
    BY <1>1, <2>1, <2>2 DEF FieldInv, OldOrNew, Settled, Idle
<1>6. ASSUME NEW t \in Tasks, Save(t), NEW f \in Limits PROVE FieldInv(f)'
  BY <1>6, SaveKept
<1>7. CASE Reset \/ PowerLoss
  BY <1>7, FreshInv DEF Reset, PowerLoss
<1>8. CASE UNCHANGED vars
  BY <1>1, <1>8 DEF vars, SaveInv, TurnInv, FieldInv, OldOrNew, Settled, Idle, Kept, HasValue,
     IsSaved, IsSet, IsCommitted, IsPublished, Fields, Passed, Field, FieldsOf, Limits
<1>9. Limits' = Limits
  BY DEF Limits
<1> QED
  BY <1>2, <1>3, <1>4, <1>5, <1>6, <1>7, <1>8, <1>9, NextTurn DEF Next, SaveInv, Tasks

(* With the saves one at a time, SaveInv holds always. *)
LEMMA SaveInvAlways == ASSUME ~Overlap PROVE Spec => []SaveInv
<1>1. Init => SaveInv
  BY DEF Init, SaveInv, TurnInv, FieldInv, OldOrNew, Settled, Idle, Opened
<1>2. TypeInv /\ SaveInv /\ [Next]_vars => SaveInv'
  BY NextSaveInv
<1> QED
  BY <1>1, <1>2, InitTypeInv, NextTypeInv, PTL DEF Spec

(* For all fields and values and however many saves, moves and losses of power: if no     *)
(* save begins during one of the other task, everything a command has set is in RAM and    *)
(* safely in flash when the save is over (net.c 143-231).                                  *)
THEOREM SavedIsDurable ==
  ASSUME ~Overlap
  PROVE  Spec => []SetIsDurable
<1>1. SaveInv => SetIsDurable
  BY DEF SaveInv, FieldInv, Settled, SetIsDurable, Limits
<1> QED
  BY <1>1, SaveInvAlways, PTL

(* Likewise, whichever NVS call power fails at, each parameter comes back as it was before *)
(* the last save or as the command asked (net.c 149-160, 199-206).                         *)
THEOREM PowerLossIsHarmless ==
  ASSUME ~Overlap
  PROVE  Spec => PowerLossKeepsOldOrNew
<1>1. TypeInv /\ SaveInv => [PowerLoss => \A f \in AllFields \ {"current"} : ram'[f] \in {before[f], asked[f]}]_vars
  <2> SUFFICES ASSUME TypeInv, SaveInv, PowerLoss, NEW f \in Limits
               PROVE  ram'[f] \in {before[f], asked[f]}
    BY DEF Limits
  <2>1. PICK lost \in SUBSET AllFields :
          ram' = [g \in AllFields |-> IF g \in lost THEN durable[g] ELSE flash[g]]
    BY DEF PowerLoss, Restart
  <2> QED
    BY <2>1 DEF SaveInv, FieldInv, OldOrNew, Limits
<1> QED
  BY <1>1, SaveInvAlways, InitTypeInv, NextTypeInv, PTL DEF Spec, PowerLossKeepsOldOrNew

(* Likewise, after a reset every parameter but the position is what a command last set it *)
(* to (net.c 799-803).                                                                    *)
THEOREM ResetIsHarmless ==
  ASSUME ~Overlap
  PROVE  Spec => ResetKeepsLimits
<1>1. SaveInv => [Reset => \A f \in AllFields \ {"current"} : ram'[f] = asked[f]]_vars
  <2> SUFFICES ASSUME SaveInv, Reset, NEW f \in Limits PROVE ram'[f] = asked[f]
    BY DEF Limits
  <2>1. ram' = flash /\ pc["app"] = "restart"
    BY DEF Reset, Restart
  <2>2. Kept("app", f)
    BY <2>1 DEF SaveInv, FieldInv, Tasks
  <2> QED
    BY <2>1, <2>2 DEF Kept, Saving
<1> QED
  BY <1>1, SaveInvAlways, PTL DEF ResetKeepsLimits
================================================================================
