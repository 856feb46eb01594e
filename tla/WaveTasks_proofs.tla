--------------------------- MODULE WaveTasks_proofs ---------------------------
(***************************************************************************)
(* Proofs about WaveTasks, for all strands, places, commands, lengths of   *)
(* the queues and times.                                                   *)
(***************************************************************************)
EXTENDS WaveTasks, SequenceTheorems, WellFoundedInduction, TLAPS

(***************************************************************************)
(* Numbers                                                                 *)
(***************************************************************************)

(* A set of natural numbers has a least one. *)
LEMMA LeastNumber ==
  ASSUME NEW T \in SUBSET Nat, T # {}
  PROVE  \E d \in T : \A e \in T : d <= e
<1>0. \E d \in T : \A e \in T : ~ (<<e, d>> \in OpToRel(<, Nat))
  BY NatLessThanWellFounded, WFMin
<1>1. PICK d \in T : \A e \in T : ~ (<<e, d>> \in OpToRel(<, Nat))
  BY <1>0
<1>2. OpToRel(<, Nat) = {pair \in Nat \X Nat : pair[1] < pair[2]}
  BY DEF OpToRel
<1>3. \A m, n \in Nat : m < n => <<m, n>> \in {pair \in Nat \X Nat : pair[1] < pair[2]}
  OBVIOUS
<1>4. ASSUME NEW e \in T PROVE d <= e
  <2>1. d \in Nat /\ e \in Nat /\ ~(e < d)
    BY <1>1, <1>2, <1>3
  <2> QED
    BY <2>1
<1> QED
  BY <1>4

USE CommandAssumption, BoundAssumption DEF CommandAssumption, BoundAssumption

(* Products keep the order of natural numbers, squares are natural numbers. *)
LEMMA ProductMonotonic ==
  ASSUME NEW a \in Nat, NEW b \in Nat, NEW c \in Nat, a <= b
  PROVE  a * c <= b * c /\ c * a <= c * b
  OBVIOUS

(* A larger natural number has a larger square. *)
LEMMA SquareMonotonic ==
  ASSUME NEW a \in Nat, NEW b \in Nat, a <= b
  PROVE  a * a <= b * b
<1>1. a * a <= b * a
  BY ProductMonotonic
<1>2. b * a <= b * b
  BY ProductMonotonic
<1> QED
  BY <1>1, <1>2

(* A square is a natural number. *)
LEMMA SquareNat ==
  ASSUME NEW a \in Int
  PROVE  Square(a) \in Nat
<1>1. CASE a >= 0
  BY <1>1 DEF Square
<1>2. CASE a < 0
  <2>1. (-a) \in Nat /\ (-a) * (-a) = a * a
    BY <1>2
  <2>2. (-a) * (-a) \in Nat
    BY <2>1
  <2> QED
    BY <2>1, <2>2 DEF Square
<1> QED
  BY <1>1, <1>2

(* Root is the whole part of the square root. *)
LEMMA RootFact ==
  ASSUME NEW x \in Nat
  PROVE  Root(x) \in Nat /\ Root(x) * Root(x) <= x /\ x < (Root(x) + 1) * (Root(x) + 1)
<1> DEFINE Above == {r \in Nat : x < (r + 1) * (r + 1)}
<1>1. x \in Above
  <2>1. (x + 1) * (x + 1) = x * x + x + x + 1 /\ x * x \in Nat
    OBVIOUS
  <2> QED
    BY <2>1
<1>2. PICK r \in Above : \A e \in Above : r <= e
  BY <1>1, LeastNumber
<1>3. r \in Nat /\ x < (r + 1) * (r + 1)
  OBVIOUS
<1>4. r * r <= x
  <2>1. CASE r = 0
    BY <2>1
  <2>2. CASE r > 0
    <3>1. r - 1 \in Nat /\ r - 1 \notin Above
      BY <1>2, <1>3, <2>2
    <3>2. ~(x < ((r - 1) + 1) * ((r - 1) + 1))
      BY <3>1
    <3>3. (r - 1) + 1 = r
      BY <1>3
    <3> QED
      BY <1>3, <3>2, <3>3
  <2> QED
    BY <1>3, <2>1, <2>2
<1>5. r <= x
  <2>1. CASE r = 0
    BY <2>1
  <2>2. CASE r > 0
    <3>1. r * 1 <= r * r
      BY <1>3, <2>2, ProductMonotonic
    <3> QED
      BY <1>3, <1>4, <3>1
  <2> QED
    BY <1>3, <2>1, <2>2
<1>6. \E q \in 0 .. x : q * q <= x /\ x < (q + 1) * (q + 1)
  BY <1>3, <1>4, <1>5
<1>7. Root(x) \in 0 .. x /\ Root(x) * Root(x) <= x /\ x < (Root(x) + 1) * (Root(x) + 1)
  BY <1>6, Zenon DEF Root
<1> QED
  BY <1>7

(* A larger number has no smaller root. *)
LEMMA RootMonotonic ==
  ASSUME NEW x \in Nat, NEW y \in Nat, x <= y
  PROVE  Root(x) <= Root(y)
<1>1. /\ Root(x) \in Nat /\ Root(x) * Root(x) <= x
      /\ Root(y) \in Nat /\ y < (Root(y) + 1) * (Root(y) + 1)
  BY RootFact
<1>2. SUFFICES ASSUME Root(y) + 1 <= Root(x) PROVE FALSE
  BY <1>1
<1>3. (Root(y) + 1) * (Root(y) + 1) <= Root(x) * Root(x)
  BY <1>1, <1>2, SquareMonotonic
<1> QED
  BY <1>1, <1>3

(* Distances are natural numbers, and delays numbers. *)
LEMMA DistanceNat ==
  ASSUME NEW s \in Strands, NEW p \in Points
  PROVE  Squared(s, p) \in Nat /\ Distance(s, p) \in Nat
<1>1. /\ Location[s].x - p.x \in Int /\ Location[s].y - p.y \in Int
      /\ Location[s].z - p.z \in Int
  BY DEF Points
<1>2. Squared(s, p) \in Nat
  BY <1>1, SquareNat DEF Squared
<1> QED
  BY <1>2, RootFact DEF Distance

(* The conversion to ticks, in 32 bits, ends below a thousandth of their range. *)
LEMMA TicksType ==
  ASSUME NEW ms \in Int
  PROVE  Ticks(ms) \in 0 .. (Word \div 1000)
<1>1. Word \in Nat \ {0}
  OBVIOUS
<1> DEFINE x == (ms * 1000) % Word
<1>2. x \in 0 .. (Word - 1)
  BY <1>1
<1> HIDE DEF x
<1>3. x \div 1000 \in 0 .. (Word \div 1000)
  BY <1>1, <1>2
<1> QED
  BY <1>3 DEF Ticks, x

(* So does every delay a strand may sleep off, also with a speed that makes none. *)
LEMMA DelayTicksType ==
  ASSUME NEW s \in Strands, NEW order \in Orders
  PROVE  DelayTicks(s, order) \subseteq 0 .. (Word \div 1000)
<1>1. Word \in Nat \ {0} /\ order.origin \in Points /\ order.speed \in Int
  BY DEF Orders
<1>2. (Word - 1) \div 1000 \in 0 .. (Word \div 1000) /\ 0 \in 0 .. (Word \div 1000)
  BY <1>1
<1>3. CASE order.speed > 0
  <2>1. Distance(s, order.origin) \in Nat
    BY <1>1, DistanceNat
  <2>2. DelayMs(s, order) \in Int
    BY <1>1, <1>3, <2>1 DEF DelayMs
  <2>3. Ticks(DelayMs(s, order)) \in 0 .. (Word \div 1000)
    BY <2>2, TicksType
  <2> QED
    BY <1>2, <1>3, <2>3 DEF DelayTicks
<1>4. CASE ~(order.speed > 0)
  BY <1>2, <1>4 DEF DelayTicks
<1> QED
  BY <1>3, <1>4

(* The longest time that a task sets its timer to. *)
LongestWait == Max({PostWait, Gap, Word \div 1000})

(* It is the longest of the three. *)
LEMMA LongestWaitFact ==
  LongestWait \in Nat /\ PostWait <= LongestWait /\ Gap <= LongestWait
  /\ Word \div 1000 <= LongestWait
<1>1. PostWait \in Nat /\ Gap \in Nat /\ Word \div 1000 \in Nat
  OBVIOUS
<1> DEFINE S == {PostWait, Gap, Word \div 1000}
<1>2. \E x \in S : \A y \in S : x >= y
  <2>1. CASE PostWait >= Gap /\ PostWait >= Word \div 1000
    BY <1>1, <2>1
  <2>2. CASE Gap >= PostWait /\ Gap >= Word \div 1000
    BY <1>1, <2>2
  <2>3. CASE Word \div 1000 >= PostWait /\ Word \div 1000 >= Gap
    BY <1>1, <2>3
  <2> QED
    BY <1>1, <2>1, <2>2, <2>3
<1>3. LongestWait \in S /\ \A y \in S : LongestWait >= y
  BY <1>2 DEF LongestWait, Max
<1> QED
  BY <1>1, <1>3

(***************************************************************************)
(* Types                                                                   *)
(***************************************************************************)
States == [at : {"receive", "delay", "post", "gap"}, order : Orders \union {None}, i : Nat,
           timer : 0 .. LongestWait]
Series == [order : Orders \union {None}, moves : Seq(Int)]

TypeInv ==
  /\ limits \in [Strands -> LimitPairs]
  /\ inbox \in [Strands -> [Tasks -> Seq(Orders)]]
  /\ \A s \in Strands, t \in Tasks : Len(inbox[s][t]) <= TaskQueueLength
  /\ task \in [Strands -> [Tasks -> States]]
  /\ \A s \in Strands, t \in Tasks :
       task[s][t].at # "receive" => task[s][t].order \in Orders
  /\ waiting \in [Strands -> 0 .. MoveQueueLength]
  /\ posted \in [Strands -> [1 .. MaxCommands -> Series]]
  /\ sent \in 0 .. MaxCommands

(* Replacing one entry of a table changes that entry and keeps its type. *)
LEMMA TableUpdate ==
  ASSUME NEW S, NEW T, NEW V, NEW f \in [S -> [T -> V]], NEW s \in S, NEW t \in T, NEW v \in V
  PROVE  /\ [f EXCEPT ![s][t] = v] \in [S -> [T -> V]]
         /\ [f EXCEPT ![s][t] = v][s][t] = v
         /\ \A u \in S, w \in T : u # s \/ w # t => [f EXCEPT ![s][t] = v][u][w] = f[u][w]
  OBVIOUS

(* What a message makes of the inboxes. *)
LEMMA MulticastEffect ==
  ASSUME TypeInv, NEW c \in Commands, NEW reached \in Reached, Multicast(c, reached)
  PROVE  /\ sent' = sent + 1 /\ sent' \in 1 .. MaxCommands
         /\ UNCHANGED <<limits, task, waiting, posted>>
         /\ inbox' \in [Strands -> [Tasks -> Seq(Orders)]]
         /\ \A s \in Strands : Order(c, s) \in Orders
         /\ \A s \in Strands, t \in Tasks :
              \/ inbox'[s][t] = inbox[s][t]
              \/ /\ t = c.task /\ Len(inbox[s][t]) < TaskQueueLength
                 /\ inbox'[s][t] = Append(inbox[s][t], Order(c, s))
<1>1. /\ sent \in 0 .. MaxCommands /\ sent < MaxCommands /\ sent' = sent + 1
      /\ UNCHANGED <<limits, task, waiting, posted>>
      /\ inbox' = [s \in Strands |->
           IF s \in reached /\ Len(inbox[s][c.task]) < TaskQueueLength
           THEN [inbox[s] EXCEPT ![c.task] = Append(@, Order(c, s))]
           ELSE inbox[s]]
  BY DEF TypeInv, Multicast
<1>2. c \in CommandType /\ c.task \in Tasks
  BY DEF CommandType
<1>3. ASSUME NEW s \in Strands PROVE Order(c, s) \in Orders
  <2>1. sent + 1 \in 1 .. MaxCommands
    BY <1>1
  <2>2. limits[s].min \in Int /\ limits[s].max \in Int
    BY DEF TypeInv, LimitPairs
  <2>3. (task[s][c.task] = Idle /\ inbox[s][c.task] = <<>>) \in BOOLEAN
    OBVIOUS
  <2> QED
    BY <1>2, <2>1, <2>2, <2>3 DEF Order, Orders, CommandType
<1>4. ASSUME NEW s \in Strands, NEW t \in Tasks
      PROVE  /\ inbox'[s] \in [Tasks -> Seq(Orders)]
             /\ \/ inbox'[s][t] = inbox[s][t]
                \/ /\ t = c.task /\ Len(inbox[s][t]) < TaskQueueLength
                   /\ inbox'[s][t] = Append(inbox[s][t], Order(c, s))
  <2>1. inbox[s] \in [Tasks -> Seq(Orders)] /\ Order(c, s) \in Orders
    BY <1>3 DEF TypeInv
  <2>2. Append(inbox[s][c.task], Order(c, s)) \in Seq(Orders)
    BY <1>2, <2>1
  <2> QED
    BY <1>1, <1>2, <2>1, <2>2
<1>5. inbox' \in [Strands -> [Tasks -> Seq(Orders)]]
  BY <1>1, <1>2, <1>4
<1> QED
  BY <1>1, <1>3, <1>4, <1>5

(* What each step of a task makes of its state; the other tasks and strands are left alone. *)
Only(s, t) ==
  \A u \in Strands, w \in Tasks :
    u # s \/ w # t => task'[u][w] = task[u][w] /\ inbox'[u][w] = inbox[u][w]

(* A task at rest takes the first order of its inbox and begins to sleep. *)
LEMMA ReceiveEffect ==
  ASSUME TypeInv, NEW s \in Strands, NEW t \in Tasks, Receive(s, t)
  PROVE  /\ task[s][t].at = "receive" /\ inbox[s][t] # <<>>
         /\ UNCHANGED <<limits, waiting, posted, sent>> /\ Only(s, t)
         /\ inbox'[s][t] = Tail(inbox[s][t]) /\ inbox' \in [Strands -> [Tasks -> Seq(Orders)]]
         /\ task' \in [Strands -> [Tasks -> States]]
         /\ Head(inbox[s][t]) \in Orders
         /\ task'[s][t].at = "delay" /\ task'[s][t].order = Head(inbox[s][t])
         /\ task'[s][t].i = 0
         /\ task'[s][t].timer \in DelayTicks(s, Head(inbox[s][t]))
<1> DEFINE order == Head(inbox[s][t])
<1>1. /\ task[s][t].at = "receive" /\ inbox[s][t] # <<>>
      /\ UNCHANGED <<limits, waiting, posted, sent>>
      /\ inbox' = [inbox EXCEPT ![s][t] = Tail(inbox[s][t])]
  BY DEF Receive, TypeInv
<1>2. PICK ticks \in DelayTicks(s, order) :
        task' = [task EXCEPT ![s][t] = [at |-> "delay", order |-> order, i |-> 0, timer |-> ticks]]
  BY DEF Receive
<1>3. inbox[s][t] \in Seq(Orders)
  BY DEF TypeInv
<1>4. order \in Orders /\ Tail(inbox[s][t]) \in Seq(Orders)
  BY <1>1, <1>3, HeadTailProperties
<1> HIDE DEF order
<1>5. ticks \in 0 .. LongestWait
  BY <1>4, DelayTicksType, LongestWaitFact
<1> DEFINE state == [at |-> "delay", order |-> order, i |-> 0, timer |-> ticks]
<1>6. state \in States
  BY <1>4, <1>5 DEF States
<1>7. state.at = "delay" /\ state.order = order /\ state.i = 0 /\ state.timer = ticks
  OBVIOUS
<1>8. task' = [task EXCEPT ![s][t] = state]
  BY <1>2
<1> HIDE DEF state
<1>9. /\ task' \in [Strands -> [Tasks -> States]] /\ task'[s][t] = state
      /\ \A u \in Strands, w \in Tasks : u # s \/ w # t => task'[u][w] = task[u][w]
  BY <1>6, <1>8, TableUpdate DEF TypeInv
<1>10. /\ inbox' \in [Strands -> [Tasks -> Seq(Orders)]] /\ inbox'[s][t] = Tail(inbox[s][t])
       /\ \A u \in Strands, w \in Tasks : u # s \/ w # t => inbox'[u][w] = inbox[u][w]
  BY <1>1, <1>4, TableUpdate DEF TypeInv
<1> QED
  BY <1>1, <1>4, <1>7, <1>9, <1>10 DEF Only, order

(* A task awake goes on to a post, or to rest if its series is done. *)
LEMMA WakeEffect ==
  ASSUME TypeInv, NEW s \in Strands, NEW t \in Tasks, Wake(s, t)
  PROVE  /\ task[s][t].at \in {"delay", "gap"} /\ task[s][t].timer = 0
         /\ UNCHANGED <<limits, inbox, waiting, posted, sent>> /\ Only(s, t)
         /\ task' \in [Strands -> [Tasks -> States]]
         /\ \/ /\ HasMore(task[s][t]) /\ task'[s][t].at = "post"
               /\ task'[s][t].order = task[s][t].order /\ task'[s][t].i = task[s][t].i
            \/ ~HasMore(task[s][t]) /\ task'[s][t] = Idle
<1>1. /\ task[s][t].at \in {"delay", "gap"} /\ task[s][t].timer = 0
      /\ UNCHANGED <<limits, inbox, waiting, posted, sent>>
  BY DEF Wake
<1>2. task[s][t] \in States /\ task[s][t].order \in Orders
  BY <1>1 DEF TypeInv
<1> DEFINE next == [task[s][t] EXCEPT !.at = "post", !.timer = PostWait]
           state == IF HasMore(task[s][t]) THEN next ELSE Idle
<1>3. task' = [task EXCEPT ![s][t] = state]
  BY DEF Wake, TypeInv
<1>4. /\ next \in States /\ next.at = "post"
      /\ next.order = task[s][t].order /\ next.i = task[s][t].i
  <2>1. PostWait \in 0 .. LongestWait
    BY LongestWaitFact
  <2> QED
    BY <1>2, <2>1 DEF States
<1>5. Idle \in States
  BY LongestWaitFact DEF Idle, States, None
<1>6. state \in States /\ (state = IF HasMore(task[s][t]) THEN next ELSE Idle)
  BY <1>4, <1>5
<1> HIDE DEF state, next
<1>7. /\ task' \in [Strands -> [Tasks -> States]] /\ task'[s][t] = state
      /\ \A u \in Strands, w \in Tasks : u # s \/ w # t => task'[u][w] = task[u][w]
  BY <1>3, <1>6, TableUpdate DEF TypeInv
<1> QED
  BY <1>1, <1>4, <1>6, <1>7 DEF Only

(* Limits bring numbers to numbers. *)
LEMMA WithinType ==
  ASSUME NEW order \in Orders, NEW i \in Nat
  PROVE  Target(order, i) \in Int /\ Within(order, Target(order, i)) \in Int
<1>1. /\ order.move \in Int /\ order.offset \in Int /\ order.min \in Int /\ order.max \in Int
  BY DEF Orders
<1>2. Target(order, i) \in Int
  BY <1>1 DEF Target
<1> QED
  BY <1>1, <1>2 DEF Within

(* A move, posted or given up, is the next entry of the series of its order. *)
LEMMA PostedEffect ==
  ASSUME TypeInv, NEW s \in Strands, NEW t \in Tasks, task[s][t].at = "post", Posted(s, t)
  PROVE  /\ UNCHANGED <<limits, inbox, sent>> /\ Only(s, t)
         /\ task' \in [Strands -> [Tasks -> States]]
         /\ task'[s][t].at = "gap" /\ task'[s][t].order = task[s][t].order
         /\ task'[s][t].i = task[s][t].i + 1
         /\ task[s][t].order \in Orders /\ MoveOf(s, task[s][t]) \in Int
         /\ posted' \in [Strands -> [1 .. MaxCommands -> Series]]
         /\ posted'[s][task[s][t].order.id].order = task[s][t].order
         /\ posted'[s][task[s][t].order.id].moves
              = Append(posted[s][task[s][t].order.id].moves, MoveOf(s, task[s][t]))
         /\ \A u \in Strands, id \in 1 .. MaxCommands :
              u # s \/ id # task[s][t].order.id => posted'[u][id] = posted[u][id]
<1>1. UNCHANGED <<limits, inbox, sent>>
  BY DEF Posted
<1>2. task[s][t] \in States /\ task[s][t].order \in Orders
  BY DEF TypeInv
<1> DEFINE order == task[s][t].order
           state == [task[s][t] EXCEPT !.at = "gap", !.timer = Gap, !.i = @ + 1]
           series == [order |-> order,
                      moves |-> Append(posted[s][order.id].moves, MoveOf(s, task[s][t]))]
<1>3. task' = [task EXCEPT ![s][t] = state]
  BY <1>2 DEF Posted, TypeInv, States
<1>4. order.id \in 1 .. MaxCommands
  BY <1>2 DEF Orders
<1>5. posted' = [posted EXCEPT ![s][order.id] = series]
  BY <1>4 DEF Posted, TypeInv
<1>6. /\ state \in States /\ state.at = "gap" /\ state.order = order
      /\ state.i = task[s][t].i + 1
  <2>1. Gap \in 0 .. LongestWait /\ task[s][t].i + 1 \in Nat
    BY <1>2, LongestWaitFact DEF States
  <2> QED
    BY <1>2, <2>1 DEF States
<1>7. MoveOf(s, task[s][t]) \in Int
  BY <1>2, WithinType DEF MoveOf, States
<1>8. posted[s][order.id].moves \in Seq(Int)
  BY <1>4 DEF TypeInv, Series
<1>9. /\ series \in Series /\ series.order = order
      /\ series.moves = Append(posted[s][order.id].moves, MoveOf(s, task[s][t]))
  BY <1>2, <1>7, <1>8, AppendProperties DEF Series
<1> HIDE DEF state, series
<1>10. /\ task' \in [Strands -> [Tasks -> States]] /\ task'[s][t] = state
       /\ \A u \in Strands, w \in Tasks : u # s \/ w # t => task'[u][w] = task[u][w]
  BY <1>3, <1>6, TableUpdate DEF TypeInv
<1>11. /\ posted' \in [Strands -> [1 .. MaxCommands -> Series]] /\ posted'[s][order.id] = series
       /\ \A u \in Strands, id \in 1 .. MaxCommands :
            u # s \/ id # order.id => posted'[u][id] = posted[u][id]
  <2> DEFINE Ids == 1 .. MaxCommands
             id == order.id
  <2>1. posted \in [Strands -> [Ids -> Series]] /\ id \in Ids /\ series \in Series
        /\ posted' = [posted EXCEPT ![s][id] = series]
    BY <1>4, <1>5, <1>9 DEF TypeInv
  <2> HIDE DEF Ids, id
  <2>2. /\ posted' \in [Strands -> [Ids -> Series]] /\ posted'[s][id] = series
        /\ \A u \in Strands, w \in Ids : u # s \/ w # id => posted'[u][w] = posted[u][w]
    BY <2>1, TableUpdate
  <2> QED
    BY <2>2 DEF Ids, id
<1> QED
  BY <1>1, <1>2, <1>6, <1>7, <1>9, <1>10, <1>11 DEF Only

(* Time passes for all tasks, for none longer than it still has. *)
LEMMA TickEffect ==
  ASSUME TypeInv, Tick
  PROVE  /\ UNCHANGED <<limits, inbox, waiting, posted, sent>>
         /\ task' \in [Strands -> [Tasks -> States]]
         /\ \A s \in Strands, t \in Tasks :
              /\ ~Ready(s, t)
              /\ task'[s][t].at = task[s][t].at /\ task'[s][t].order = task[s][t].order
              /\ task'[s][t].i = task[s][t].i
         /\ \E step \in Nat : \A s \in Strands, t \in Tasks :
              /\ task[s][t].timer = 0 => task'[s][t].timer = 0
              /\ task[s][t].timer > 0 => task'[s][t].timer = task[s][t].timer - step
<1>1. /\ UNCHANGED <<limits, inbox, waiting, posted, sent>>
      /\ \A s \in Strands, t \in Tasks : ~Ready(s, t)
  BY DEF Tick
<1> DEFINE step == CHOOSE d \in Timers : \A e \in Timers : d <= e
           later(s, t) == [task[s][t] EXCEPT !.timer = IF @ = 0 THEN 0 ELSE @ - step]
<1>2. task' = [s \in Strands |-> [t \in Tasks |-> later(s, t)]]
  BY DEF Tick
<1>3. \A s \in Strands, t \in Tasks : task[s][t] \in States /\ task[s][t].timer \in 0 .. LongestWait
  BY DEF TypeInv, States
<1>4. Timers \in SUBSET Nat /\ Timers # {}
  <2>1. \A s \in Strands, t \in Tasks : task[s][t].timer \in Nat
    BY <1>3, LongestWaitFact
  <2>2. Timers # {}
    BY DEF Tick
  <2> QED
    BY <2>1, <2>2 DEF Timers
<1>5. step \in Timers /\ \A e \in Timers : step <= e
  <2>1. \E d \in Timers : \A e \in Timers : d <= e
    BY <1>4, LeastNumber
  <2> QED
    BY <2>1
<1>6. step \in Nat
  BY <1>4, <1>5
<1> HIDE DEF step
<1>7. ASSUME NEW s \in Strands, NEW t \in Tasks
      PROVE  /\ later(s, t) \in States
             /\ later(s, t).at = task[s][t].at /\ later(s, t).order = task[s][t].order
             /\ later(s, t).i = task[s][t].i
             /\ task[s][t].timer = 0 => later(s, t).timer = 0
             /\ task[s][t].timer > 0 => later(s, t).timer = task[s][t].timer - step
  <2>1. task[s][t].timer > 0 => task[s][t].timer - step \in 0 .. LongestWait
    <3>1. task[s][t].timer > 0 => task[s][t].timer \in Timers
      BY <1>3 DEF Timers
    <3> QED
      BY <1>3, <1>5, <1>6, <3>1, LongestWaitFact
  <2> QED
    BY <1>3, <2>1, LongestWaitFact DEF States
<1> HIDE DEF later
<1>8. task' \in [Strands -> [Tasks -> States]]
      /\ \A s \in Strands, t \in Tasks : task'[s][t] = later(s, t)
  BY <1>2, <1>7
<1>9. \A s \in Strands, t \in Tasks :
        /\ task[s][t].timer = 0 => task'[s][t].timer = 0
        /\ task[s][t].timer > 0 => task'[s][t].timer = task[s][t].timer - step
  BY <1>7, <1>8
<1>10. \A s \in Strands, t \in Tasks :
         /\ task'[s][t].at = task[s][t].at /\ task'[s][t].order = task[s][t].order
         /\ task'[s][t].i = task[s][t].i
  BY <1>7, <1>8
<1> QED
  BY <1>1, <1>6, <1>8, <1>9, <1>10

(* At the start all is idle and empty. *)
LEMMA InitTypeInv == Init => TypeInv
<1> SUFFICES ASSUME Init PROVE TypeInv
  OBVIOUS
<1>1. Idle \in States /\ Idle.at = "receive"
  BY LongestWaitFact DEF Idle, States, None
<1>2. [order |-> None, moves |-> <<>>] \in Series
  BY DEF Series
<1>3. /\ task = [s \in Strands |-> [t \in Tasks |-> Idle]]
      /\ inbox = [s \in Strands |-> [t \in Tasks |-> <<>>]]
      /\ posted = [s \in Strands |-> [id \in 1 .. MaxCommands |-> [order |-> None, moves |-> <<>>]]]
      /\ limits = [s \in Strands |-> FirstLimits] /\ waiting = [s \in Strands |-> 0] /\ sent = 0
  BY DEF Init
<1>4. task \in [Strands -> [Tasks -> States]]
      /\ \A s \in Strands, t \in Tasks : task[s][t].at = "receive"
  BY <1>1, <1>3
<1>5. inbox \in [Strands -> [Tasks -> Seq(Orders)]]
      /\ \A s \in Strands, t \in Tasks : Len(inbox[s][t]) <= TaskQueueLength
  BY <1>3
<1>6. posted \in [Strands -> [1 .. MaxCommands -> Series]]
  BY <1>2, <1>3
<1>7. limits \in [Strands -> LimitPairs] /\ waiting \in [Strands -> 0 .. MoveQueueLength]
      /\ sent \in 0 .. MaxCommands
  BY <1>3
<1> QED
  BY <1>4, <1>5, <1>6, <1>7 DEF TypeInv

(* Every step keeps the types. *)
LEMMA NextTypeInv ==
  ASSUME TypeInv, [Next]_vars
  PROVE  TypeInv'
<1>0. /\ limits \in [Strands -> LimitPairs]
      /\ inbox \in [Strands -> [Tasks -> Seq(Orders)]]
      /\ \A s \in Strands, t \in Tasks : Len(inbox[s][t]) <= TaskQueueLength
      /\ task \in [Strands -> [Tasks -> States]]
      /\ \A s \in Strands, t \in Tasks :
           task[s][t].at # "receive" => task[s][t].order \in Orders
      /\ waiting \in [Strands -> 0 .. MoveQueueLength]
      /\ posted \in [Strands -> [1 .. MaxCommands -> Series]]
      /\ sent \in 0 .. MaxCommands
  BY DEF TypeInv
<1>1. ASSUME NEW s \in Strands, NEW t \in Tasks, Receive(s, t) PROVE TypeInv'
  <2>1. /\ UNCHANGED <<limits, waiting, posted, sent>> /\ Only(s, t)
        /\ inbox[s][t] # <<>> /\ inbox'[s][t] = Tail(inbox[s][t])
        /\ inbox' \in [Strands -> [Tasks -> Seq(Orders)]]
        /\ task' \in [Strands -> [Tasks -> States]]
        /\ task'[s][t].order = Head(inbox[s][t]) /\ Head(inbox[s][t]) \in Orders
    BY <1>1, ReceiveEffect
  <2>2. Len(inbox'[s][t]) <= TaskQueueLength
    BY <1>0, <2>1, HeadTailProperties
  <2>3. \A u \in Strands, w \in Tasks : Len(inbox'[u][w]) <= TaskQueueLength
    BY <1>0, <2>1, <2>2 DEF Only
  <2>4. \A u \in Strands, w \in Tasks :
          task'[u][w].at # "receive" => task'[u][w].order \in Orders
    BY <1>0, <2>1 DEF Only
  <2> QED
    BY <1>0, <2>1, <2>3, <2>4 DEF TypeInv
<1>2. ASSUME NEW s \in Strands, NEW t \in Tasks, Wake(s, t) PROVE TypeInv'
  <2>1. /\ UNCHANGED <<limits, inbox, waiting, posted, sent>> /\ Only(s, t)
        /\ task' \in [Strands -> [Tasks -> States]]
        /\ task[s][t].at # "receive"
        /\ task'[s][t].order = task[s][t].order \/ task'[s][t] = Idle
    BY <1>2, WakeEffect
  <2>2. task'[s][t].at # "receive" => task'[s][t].order \in Orders
    BY <1>0, <2>1 DEF Idle
  <2>3. \A u \in Strands, w \in Tasks :
          task'[u][w].at # "receive" => task'[u][w].order \in Orders
    BY <1>0, <2>1, <2>2 DEF Only
  <2> QED
    BY <1>0, <2>1, <2>3 DEF TypeInv
<1>3. ASSUME NEW s \in Strands, NEW t \in Tasks, task[s][t].at = "post", Posted(s, t),
             waiting' \in [Strands -> 0 .. MoveQueueLength]
      PROVE  TypeInv'
  <2>1. /\ UNCHANGED <<limits, inbox, sent>> /\ Only(s, t)
        /\ task' \in [Strands -> [Tasks -> States]]
        /\ task'[s][t].order \in Orders
        /\ posted' \in [Strands -> [1 .. MaxCommands -> Series]]
    BY <1>3, PostedEffect
  <2>2. \A u \in Strands, w \in Tasks :
          task'[u][w].at # "receive" => task'[u][w].order \in Orders
    BY <1>0, <2>1 DEF Only
  <2> QED
    BY <1>0, <1>3, <2>1, <2>2 DEF TypeInv
<1>4. ASSUME NEW s \in Strands, HasRoom(s), waiting' = [waiting EXCEPT ![s] = @ + 1]
      PROVE  waiting' \in [Strands -> 0 .. MoveQueueLength]
  <2>1. MoveQueueLength \in Nat
    OBVIOUS
  <2>2. waiting[s] + 1 \in 0 .. MoveQueueLength
    BY <1>0, <1>4, <2>1 DEF HasRoom
  <2> QED
    BY <1>0, <1>4, <2>2
<1>5. ASSUME NEW s \in Strands, NEW t \in Tasks, Task(s, t) PROVE TypeInv'
  <2>1. CASE Post(s, t)
    BY <1>3, <1>4, <2>1 DEF Post
  <2>2. CASE GiveUp(s, t)
    BY <1>0, <1>3, <2>2 DEF GiveUp
  <2> QED
    BY <1>1, <1>2, <1>5, <2>1, <2>2 DEF Task
<1>6. CASE Tick
  <2>1. /\ UNCHANGED <<limits, inbox, waiting, posted, sent>>
        /\ task' \in [Strands -> [Tasks -> States]]
        /\ \A s \in Strands, t \in Tasks :
             task'[s][t].at = task[s][t].at /\ task'[s][t].order = task[s][t].order
    BY <1>6, TickEffect
  <2> QED
    BY <1>0, <2>1 DEF TypeInv
<1>7. ASSUME NEW s \in Strands, DirectMove(s) PROVE TypeInv'
  <2>1. waiting' \in [Strands -> 0 .. MoveQueueLength] /\ sent' \in 0 .. MaxCommands
        /\ UNCHANGED <<limits, inbox, task, posted>>
    <3>1. HasRoom(s) /\ waiting' = [waiting EXCEPT ![s] = @ + 1]
      BY <1>7 DEF DirectMove
    <3>2. waiting' \in [Strands -> 0 .. MoveQueueLength]
      BY <1>4, <3>1
    <3> QED
      BY <1>0, <1>7, <3>2 DEF DirectMove
  <2> QED
    BY <1>0, <2>1 DEF TypeInv
<1>8. ASSUME NEW s \in Strands, Take(s) PROVE TypeInv'
  <2>1. waiting' \in [Strands -> 0 .. MoveQueueLength]
        /\ UNCHANGED <<limits, inbox, task, posted, sent>>
    <3>1. MoveQueueLength \in Nat
      OBVIOUS
    <3>2. waiting[s] - 1 \in 0 .. MoveQueueLength
      BY <1>0, <1>8, <3>1 DEF Take
    <3> QED
      BY <1>0, <1>8, <3>2 DEF Take
  <2> QED
    BY <1>0, <2>1 DEF TypeInv
<1>9. ASSUME NEW s \in Strands, NEW pair \in LimitChanges, SetLimits(s, pair) PROVE TypeInv'
  <2>1. limits' \in [Strands -> LimitPairs] /\ sent' \in 0 .. MaxCommands
        /\ UNCHANGED <<inbox, task, waiting, posted>>
    BY <1>0, <1>9 DEF SetLimits
  <2> QED
    BY <1>0, <2>1 DEF TypeInv
<1>10. ASSUME NEW c \in Commands, NEW reached \in Reached, Multicast(c, reached) PROVE TypeInv'
  <2>1. /\ sent' \in 0 .. MaxCommands /\ UNCHANGED <<limits, task, waiting, posted>>
        /\ inbox' \in [Strands -> [Tasks -> Seq(Orders)]]
    BY <1>10, MulticastEffect
  <2>2. ASSUME NEW s \in Strands, NEW t \in Tasks PROVE Len(inbox'[s][t]) <= TaskQueueLength
    <3>1. CASE inbox'[s][t] = inbox[s][t]
      BY <1>0, <3>1
    <3>2. CASE /\ Len(inbox[s][t]) < TaskQueueLength
               /\ inbox'[s][t] = Append(inbox[s][t], Order(c, s))
      <4>1. inbox[s][t] \in Seq(Orders) /\ Order(c, s) \in Orders /\ TaskQueueLength \in Nat
        BY <1>0, <1>10, MulticastEffect
      <4>2. Len(inbox'[s][t]) = Len(inbox[s][t]) + 1 /\ Len(inbox[s][t]) \in Nat
        BY <3>2, <4>1, AppendProperties
      <4> QED
        BY <3>2, <4>1, <4>2
    <3> QED
      BY <1>10, <3>1, <3>2, MulticastEffect
  <2> QED
    BY <1>0, <2>1, <2>2 DEF TypeInv
<1>11. CASE UNCHANGED vars
  BY <1>0, <1>11 DEF vars, TypeInv
<1> QED
  BY <1>5, <1>6, <1>7, <1>8, <1>9, <1>10, <1>11 DEF Next, Working

(* For all strands, commands and lengths: no queue is longer than it was created for, and *)
(* no task sleeps or waits longer than a delay, the gap or the wait for room can last      *)
(* (net.c 850-1029).                                                                       *)
THEOREM TypeCorrect == Spec => []TypeOK
<1>1. ASSUME TypeInv PROVE TypeOK
  <2>1. ASSUME NEW s \in Strands, NEW t \in Tasks
        PROVE  /\ inbox[s][t] \in Seq(Orders) /\ Len(inbox[s][t]) <= TaskQueueLength
               /\ task[s][t].at \in {"receive", "delay", "post", "gap"}
               /\ task[s][t].order = None \/ task[s][t].order \in Orders
               /\ task[s][t].timer \in 0 .. Max({PostWait, Gap, Word \div 1000})
    <3>1. task[s][t] \in States /\ inbox[s][t] \in Seq(Orders)
      BY <1>1 DEF TypeInv
    <3> QED
      BY <1>1, <3>1 DEF TypeInv, States, LongestWait
  <2> QED
    BY <1>1, <2>1 DEF TypeInv, TypeOK
<1> QED
  BY <1>1, InitTypeInv, NextTypeInv, PTL DEF Spec

(***************************************************************************)
(* Series                                                                  *)
(***************************************************************************)

(* An order is in the inbox or in the hands of the task that its command names. *)
Placed(s, t) ==
  /\ \A i \in 1 .. Len(inbox[s][t]) : inbox[s][t][i].task = t /\ inbox[s][t][i].id <= sent
  /\ task[s][t].at # "receive" => task[s][t].order.task = t /\ task[s][t].order.id <= sent
  /\ task[s][t].at = "receive" => task[s][t].order = None

(* No order is in two places. *)
Apart(s, t, u) ==
  /\ \A i \in 1 .. Len(inbox[s][t]), j \in 1 .. Len(inbox[s][u]) :
       inbox[s][t][i].id = inbox[s][u][j].id => t = u /\ i = j
  /\ \A i \in 1 .. Len(inbox[s][t]) : inbox[s][t][i].id # task[s][u].order.id
  /\ task[s][t].at # "receive" /\ task[s][t].order.id = task[s][u].order.id => t = u

(* What the order in hand has come to, and that those in the inbox have not begun. *)
InHand(s, t) ==
  LET order == task[s][t].order
      series == posted[s][order.id]
  IN task[s][t].at # "receive" =>
       /\ Len(series.moves) = task[s][t].i
       /\ series.moves # <<>> => series.order = order
       /\ task[s][t].i <= Loops(order) + 1
       /\ task[s][t].at = "delay" => task[s][t].i = 0
       /\ task[s][t].at = "post" => task[s][t].i <= Loops(order)

Unbegun(s, t) ==
  \A i \in 1 .. Len(inbox[s][t]) : posted[s][inbox[s][t][i].id].moves = <<>>

(* The k-th move of an order; what was posted is a beginning of the plan, all of it when *)
(* the order is no longer in hand.                                                        *)
PlannedMove(order, k) == Within(order, Target(order, k - 1))

OnPlan(s, id) ==
  LET order == posted[s][id].order
      moves == posted[s][id].moves
  IN moves # <<>> =>
       /\ order \in Orders /\ order.id = id /\ id <= sent
       /\ Len(moves) <= Loops(order) + 1
       /\ \A k \in 1 .. Len(moves) : moves[k] = PlannedMove(order, k)
       /\ task[s][order.task].order = order \/ Len(moves) = Loops(order) + 1

Strand(s) ==
  /\ \A t \in Tasks : Placed(s, t)
  /\ \A t, u \in Tasks : Apart(s, t, u)
  /\ \A t \in Tasks : InHand(s, t)
  /\ \A t \in Tasks : Unbegun(s, t)
  /\ \A id \in 1 .. MaxCommands : OnPlan(s, id)

SeriesInv == \A s \in Strands : Strand(s)

(* The entries of a tail. *)
LEMMA TailEntries ==
  ASSUME NEW S, NEW q \in Seq(S), q # <<>>
  PROVE  /\ Len(Tail(q)) = Len(q) - 1 /\ Len(q) \in Nat \ {0} /\ Head(q) = q[1]
         /\ \A i \in 1 .. Len(Tail(q)) : i + 1 \in 1 .. Len(q) /\ Tail(q)[i] = q[i + 1]
  OBVIOUS

(* The entries of a queue with one more. *)
LEMMA AppendEntries ==
  ASSUME NEW S, NEW q \in Seq(S), NEW e \in S
  PROVE  /\ Len(Append(q, e)) = Len(q) + 1 /\ Len(q) \in Nat
         /\ \A i \in 1 .. Len(Append(q, e)) :
              \/ i \in 1 .. Len(q) /\ Append(q, e)[i] = q[i]
              \/ i = Len(q) + 1 /\ Append(q, e)[i] = e
  OBVIOUS

(* A number of swings is a natural number. *)
LEMMA LoopsNat ==
  ASSUME NEW order \in Orders
  PROVE  Loops(order) \in Nat
  BY DEF Loops, Orders

(* The orders and moves of a task are left alone. *)
Alone(s, t) ==
  /\ task'[s][t].at = task[s][t].at /\ task'[s][t].order = task[s][t].order
  /\ task'[s][t].i = task[s][t].i /\ inbox'[s][t] = inbox[s][t]

(* A strand none of whose tasks, inboxes and series changed is as good as before. *)
LEMMA AloneStrand ==
  ASSUME TypeInv, NEW s \in Strands, Strand(s), \A t \in Tasks : Alone(s, t),
         \A id \in 1 .. MaxCommands : posted'[s][id] = posted[s][id],
         sent \in Nat, sent' \in Nat, sent <= sent'
  PROVE  Strand(s)'
<1>0. \A t \in Tasks : /\ inbox[s][t] \in Seq(Orders)
                       /\ task[s][t].at # "receive" => task[s][t].order \in Orders
  BY DEF TypeInv
<1>1. ASSUME NEW t \in Tasks PROVE Placed(s, t)'
  <2>1. Placed(s, t) /\ Alone(s, t)
    BY DEF Strand
  <2>2. \A i \in 1 .. Len(inbox[s][t]) : inbox[s][t][i] \in Orders
    BY <1>0
  <2>3. \A order \in Orders : order.id \in Int
    BY DEF Orders
  <2>4. ASSUME NEW i \in 1 .. Len(inbox[s][t])
        PROVE  inbox[s][t][i].task = t /\ inbox[s][t][i].id <= sent'
    BY <2>1, <2>2, <2>3 DEF Placed
  <2>5. task[s][t].at # "receive" => task[s][t].order.task = t /\ task[s][t].order.id <= sent'
    BY <1>0, <2>1, <2>3 DEF Placed
  <2> QED
    BY <2>1, <2>4, <2>5 DEF Placed, Alone
<1>2. ASSUME NEW t \in Tasks, NEW u \in Tasks PROVE Apart(s, t, u)'
  <2>1. Apart(s, t, u) /\ Alone(s, t) /\ Alone(s, u)
    BY DEF Strand
  <2> QED
    BY <2>1 DEF Apart, Alone
<1>3. ASSUME NEW t \in Tasks PROVE InHand(s, t)'
  <2>1. InHand(s, t) /\ Alone(s, t)
    BY DEF Strand
  <2>2. task[s][t].at # "receive" => task[s][t].order.id \in 1 .. MaxCommands
    BY <1>0 DEF Orders
  <2> QED
    BY <2>1, <2>2 DEF InHand, Alone
<1>4. ASSUME NEW t \in Tasks PROVE Unbegun(s, t)'
  <2>1. Unbegun(s, t) /\ Alone(s, t)
    BY DEF Strand
  <2>2. \A order \in Orders : order.id \in 1 .. MaxCommands
    BY DEF Orders
  <2>3. \A i \in 1 .. Len(inbox[s][t]) : inbox[s][t][i] \in Orders
    BY <1>0
  <2>4. ASSUME NEW i \in 1 .. Len(inbox[s][t])
        PROVE  posted'[s][inbox[s][t][i].id].moves = <<>>
    <3>1. inbox[s][t][i].id \in 1 .. MaxCommands
      BY <2>2, <2>3
    <3> QED
      BY <2>1, <3>1 DEF Unbegun
  <2> QED
    BY <2>1, <2>4 DEF Unbegun, Alone
<1>5. ASSUME NEW id \in 1 .. MaxCommands PROVE OnPlan(s, id)'
  <2>1. OnPlan(s, id) /\ posted'[s][id] = posted[s][id]
    BY DEF Strand
  <2>2. \A order \in Orders : order.task \in Tasks
    BY DEF Orders
  <2> QED
    BY <2>1, <2>2 DEF OnPlan, Alone
<1> QED
  BY <1>1, <1>2, <1>3, <1>4, <1>5 DEF Strand

(* What the types give of the orders of a task. *)
LEMMA OrderTypes ==
  ASSUME TypeInv, NEW s \in Strands, NEW t \in Tasks
  PROVE  /\ inbox[s][t] \in Seq(Orders) /\ Len(inbox[s][t]) \in Nat
         /\ \A i \in 1 .. Len(inbox[s][t]) :
              inbox[s][t][i] \in Orders /\ inbox[s][t][i].id \in 1 .. MaxCommands
         /\ task[s][t].at # "receive" =>
              task[s][t].order \in Orders /\ task[s][t].order.id \in 1 .. MaxCommands
         /\ task[s][t].i \in Nat
<1>1. inbox[s][t] \in Seq(Orders) /\ task[s][t] \in States
  BY DEF TypeInv
<1>2. \A order \in Orders : order.id \in 1 .. MaxCommands
  BY DEF Orders
<1>3. \A i \in 1 .. Len(inbox[s][t]) : inbox[s][t][i] \in Orders
  BY <1>1
<1>4. task[s][t].at # "receive" => task[s][t].order \in Orders
  BY DEF TypeInv
<1> QED
  BY <1>1, <1>2, <1>3, <1>4 DEF States

(* A task turns to an order. *)
LEMMA ReceiveStrand ==
  ASSUME TypeInv, NEW s \in Strands, Strand(s), NEW t \in Tasks, Receive(s, t)
  PROVE  Strand(s)'
<1> DEFINE order == inbox[s][t][1]
<1>1. /\ task[s][t].at = "receive" /\ inbox[s][t] # <<>>
      /\ UNCHANGED <<limits, waiting, posted, sent>> /\ Only(s, t)
      /\ inbox'[s][t] = Tail(inbox[s][t])
      /\ task'[s][t].at = "delay" /\ task'[s][t].order = Head(inbox[s][t])
      /\ task'[s][t].i = 0
  BY ReceiveEffect
<1>2. /\ Len(inbox'[s][t]) = Len(inbox[s][t]) - 1 /\ Len(inbox[s][t]) \in Nat \ {0}
      /\ 1 \in 1 .. Len(inbox[s][t]) /\ task'[s][t].order = order
      /\ \A i \in 1 .. Len(inbox'[s][t]) :
           /\ i + 1 \in 1 .. Len(inbox[s][t]) /\ i + 1 # 1
           /\ inbox'[s][t][i] = inbox[s][t][i + 1]
  <2>1. inbox[s][t] \in Seq(Orders)
    BY OrderTypes
  <2> QED
    BY <1>1, <2>1, TailEntries
<1>3. \A w \in Tasks : w # t => task'[s][w] = task[s][w] /\ inbox'[s][w] = inbox[s][w]
  BY <1>1 DEF Only
<1>4. /\ \A w \in Tasks : Placed(s, w) /\ InHand(s, w) /\ Unbegun(s, w)
      /\ \A w, u \in Tasks : Apart(s, w, u)
      /\ \A id \in 1 .. MaxCommands : OnPlan(s, id)
  BY DEF Strand
<1>5. order \in Orders /\ order.id \in 1 .. MaxCommands /\ order.task = t /\ order.id <= sent
      /\ posted[s][order.id].moves = <<>>
  <2>1. order \in Orders /\ order.id \in 1 .. MaxCommands
    BY <1>2, OrderTypes
  <2>2. Placed(s, t) /\ Unbegun(s, t)
    BY <1>4
  <2> QED
    BY <1>2, <2>1, <2>2 DEF Placed, Unbegun
<1>6. task[s][t].order = None
  BY <1>1, <1>4 DEF Placed
<1>6a. /\ \A w, u \in Tasks : \A k \in 1 .. Len(inbox[s][w]), l \in 1 .. Len(inbox[s][u]) :
            inbox[s][w][k].id = inbox[s][u][l].id => w = u /\ k = l
       /\ \A w, u \in Tasks : \A k \in 1 .. Len(inbox[s][w]) :
            inbox[s][w][k].id # task[s][u].order.id
       /\ \A w, u \in Tasks :
            task[s][w].at # "receive" /\ task[s][w].order.id = task[s][u].order.id => w = u
       /\ \A w \in Tasks : \A k \in 1 .. Len(inbox[s][w]) :
            posted[s][inbox[s][w][k].id].moves = <<>>
  BY <1>4 DEF Apart, Unbegun
<1>7. ASSUME NEW w \in Tasks PROVE Placed(s, w)'
  <2>1. CASE w = t
    <3>1. \A k \in 1 .. Len(inbox[s][t]) : inbox[s][t][k].task = t /\ inbox[s][t][k].id <= sent
      BY <1>4 DEF Placed
    <3>2. \A i \in 1 .. Len(inbox'[s][t]) : inbox'[s][t][i].task = t /\ inbox'[s][t][i].id <= sent
      BY <1>2, <3>1
    <3> QED
      BY <1>1, <1>2, <1>5, <2>1, <3>2 DEF Placed
  <2>2. CASE w # t
    BY <1>1, <1>3, <1>4, <2>2 DEF Placed
  <2> QED
    BY <2>1, <2>2
<1>8. ASSUME NEW w \in Tasks, NEW i \in 1 .. Len(inbox'[s][w])
      PROVE  \E k \in 1 .. Len(inbox[s][w]) :
               /\ inbox'[s][w][i] = inbox[s][w][k]
               /\ w = t => k = i + 1
               /\ w # t => k = i
  BY <1>2, <1>3
<1>9. ASSUME NEW w \in Tasks, NEW u \in Tasks PROVE Apart(s, w, u)'
  <2>1. ASSUME NEW i \in 1 .. Len(inbox'[s][w]), NEW j \in 1 .. Len(inbox'[s][u]),
               inbox'[s][w][i].id = inbox'[s][u][j].id
        PROVE  w = u /\ i = j
    <3>1. PICK k \in 1 .. Len(inbox[s][w]) : /\ inbox'[s][w][i] = inbox[s][w][k]
                                             /\ w = t => k = i + 1
                                             /\ w # t => k = i
      BY <1>8
    <3>2. PICK l \in 1 .. Len(inbox[s][u]) : /\ inbox'[s][u][j] = inbox[s][u][l]
                                             /\ u = t => l = j + 1
                                             /\ u # t => l = j
      BY <1>8
    <3>3. w = u /\ k = l
      <4>1. Apart(s, w, u) /\ inbox[s][w][k].id = inbox[s][u][l].id
        BY <1>4, <2>1, <3>1, <3>2
      <4> QED
        BY <4>1 DEF Apart
    <3> QED
      BY <3>1, <3>2, <3>3
  <2>2. ASSUME NEW i \in 1 .. Len(inbox'[s][w]) PROVE inbox'[s][w][i].id # task'[s][u].order.id
    <3>1. PICK k \in 1 .. Len(inbox[s][w]) : /\ inbox'[s][w][i] = inbox[s][w][k]
                                             /\ w = t => k = i + 1
                                             /\ w # t => k = i
      BY <1>8
    <3>2. CASE u = t
      <4>1. inbox[s][w][k].id = inbox[s][t][1].id => w = t /\ k = 1
        <5>1. Apart(s, w, t)
          BY <1>4
        <5> QED
          BY <1>2, <5>1 DEF Apart
      <4> QED
        BY <1>2, <3>1, <3>2, <4>1
    <3>3. CASE u # t
      <4>1. inbox[s][w][k].id # task[s][u].order.id /\ task'[s][u] = task[s][u]
        BY <1>3, <1>6a, <3>3
      <4> QED
        BY <3>1, <4>1
    <3> QED
      BY <3>2, <3>3
  <2>3. ASSUME task'[s][w].at # "receive", task'[s][w].order.id = task'[s][u].order.id, w # u
        PROVE  FALSE
    <3>1. CASE w = t
      <4>1. task'[s][w].order = inbox[s][t][1] /\ task'[s][u] = task[s][u]
        BY <1>2, <1>3, <2>3, <3>1
      <4>2. inbox[s][t][1].id # task[s][u].order.id
        BY <1>2, <1>6a
      <4> QED
        BY <2>3, <4>1, <4>2
    <3>2. CASE u = t
      <4>1. task'[s][u].order = inbox[s][t][1] /\ task'[s][w] = task[s][w]
        BY <1>2, <1>3, <2>3, <3>2
      <4>2. inbox[s][t][1].id # task[s][w].order.id
        BY <1>2, <1>6a
      <4> QED
        BY <2>3, <4>1, <4>2
    <3>3. CASE w # t /\ u # t
      <4>1. task'[s][u] = task[s][u] /\ task'[s][w] = task[s][w]
        BY <1>3, <3>3
      <4> QED
        BY <1>4, <2>3, <4>1 DEF Apart
    <3> QED
      BY <3>1, <3>2, <3>3
  <2> QED
    BY <2>1, <2>2, <2>3 DEF Apart
<1>10. ASSUME NEW w \in Tasks PROVE InHand(s, w)'
  <2>1. CASE w = t
    <3>1. Loops(order) \in Nat
      BY <1>5, LoopsNat
    <3>2. posted'[s][order.id].moves = <<>> /\ Len(posted'[s][order.id].moves) = 0
      BY <1>1, <1>5
    <3>3. task'[s][t].order = order /\ task'[s][t].at = "delay" /\ task'[s][t].i = 0
      BY <1>1, <1>2
    <3> HIDE DEF order
    <3> QED
      BY <2>1, <3>1, <3>2, <3>3 DEF InHand
  <2>2. CASE w # t
    BY <1>1, <1>3, <1>4, <2>2 DEF InHand
  <2> QED
    BY <2>1, <2>2
<1>11. ASSUME NEW w \in Tasks PROVE Unbegun(s, w)'
  <2>1. ASSUME NEW i \in 1 .. Len(inbox'[s][w]) PROVE posted[s][inbox'[s][w][i].id].moves = <<>>
    <3>1. PICK k \in 1 .. Len(inbox[s][w]) : inbox'[s][w][i] = inbox[s][w][k]
      BY <1>8
    <3> QED
      BY <1>4, <3>1 DEF Unbegun
  <2> QED
    BY <1>1, <2>1 DEF Unbegun
<1>12. ASSUME NEW id \in 1 .. MaxCommands PROVE OnPlan(s, id)'
  <2>1. OnPlan(s, id) /\ posted' = posted /\ sent' = sent
    BY <1>1, <1>4
  <2>2. ASSUME posted[s][id].moves # <<>>, task[s][posted[s][id].order.task].order = posted[s][id].order
        PROVE  task'[s][posted[s][id].order.task].order = posted[s][id].order
    <3>1. posted[s][id].order \in Orders /\ posted[s][id].order.id = id
      BY <2>1, <2>2 DEF OnPlan
    <3>2. posted[s][id].order.task \in Tasks
      BY <3>1 DEF Orders
    <3>3. posted[s][id].order.task # t
      <4>1. posted[s][id].order # None
        BY <3>1 DEF None
      <4> QED
        BY <1>6, <2>2, <4>1
    <3> QED
      BY <1>3, <2>2, <3>2, <3>3
  <2> QED
    BY <2>1, <2>2 DEF OnPlan
<1> QED
  BY <1>7, <1>9, <1>10, <1>11, <1>12 DEF Strand

(* A task goes on to the next move, or has posted all of them. *)
LEMMA WakeStrand ==
  ASSUME TypeInv, NEW s \in Strands, Strand(s), NEW t \in Tasks, Wake(s, t)
  PROVE  Strand(s)'
<1>1. /\ task[s][t].at \in {"delay", "gap"}
      /\ UNCHANGED <<limits, inbox, waiting, posted, sent>> /\ Only(s, t)
      /\ \/ /\ HasMore(task[s][t]) /\ task'[s][t].at = "post"
            /\ task'[s][t].order = task[s][t].order /\ task'[s][t].i = task[s][t].i
         \/ ~HasMore(task[s][t]) /\ task'[s][t] = Idle
  BY WakeEffect
<1>2. \A w \in Tasks : w # t => task'[s][w] = task[s][w]
  BY <1>1 DEF Only
<1>3. /\ \A w \in Tasks : Placed(s, w) /\ InHand(s, w) /\ Unbegun(s, w)
      /\ \A w, u \in Tasks : Apart(s, w, u)
      /\ \A id \in 1 .. MaxCommands : OnPlan(s, id)
  BY DEF Strand
<1>4. /\ task[s][t].order \in Orders /\ task[s][t].order.id \in 1 .. MaxCommands
      /\ task[s][t].i \in Nat /\ Loops(task[s][t].order) \in Nat
  BY <1>1, OrderTypes, LoopsNat
<1>5. Idle.at = "receive" /\ Idle.order = None /\ None.id = 0
  BY DEF Idle, None
<1>6. ASSUME NEW w \in Tasks PROVE Placed(s, w)'
  <2>1. CASE w = t
    BY <1>1, <1>3, <1>5, <2>1 DEF Placed
  <2>2. CASE w # t
    BY <1>1, <1>2, <1>3, <2>2 DEF Placed
  <2> QED
    BY <2>1, <2>2
<1>7. \A w \in Tasks : /\ task'[s][w].at # "receive" => task[s][w].at # "receive"
                       /\ task'[s][w].order.id = task[s][w].order.id \/ task'[s][w].order.id = 0
                       /\ task'[s][w].at # "receive" => task'[s][w].order = task[s][w].order
  BY <1>1, <1>2, <1>5
<1>8. ASSUME NEW w \in Tasks, NEW u \in Tasks PROVE Apart(s, w, u)'
  <2>1. Apart(s, w, u) /\ inbox' = inbox
    BY <1>1, <1>3
  <2>2. \A i \in 1 .. Len(inbox[s][w]) : inbox[s][w][i].id # task'[s][u].order.id
    <3>1. \A i \in 1 .. Len(inbox[s][w]) : inbox[s][w][i].id # 0
      BY OrderTypes
    <3> QED
      BY <1>7, <2>1, <3>1 DEF Apart
  <2>3. task'[s][w].at # "receive" /\ task'[s][w].order.id = task'[s][u].order.id => w = u
    <3>1. task[s][w].at # "receive" => task[s][w].order.id # 0
      BY OrderTypes
    <3> QED
      BY <1>7, <2>1, <3>1 DEF Apart
  <2> QED
    BY <2>1, <2>2, <2>3 DEF Apart
<1>9. ASSUME NEW w \in Tasks PROVE InHand(s, w)'
  <2>1. CASE w = t
    BY <1>1, <1>3, <1>5, <2>1 DEF InHand, HasMore
  <2>2. CASE w # t
    <3>1. task'[s][w] = task[s][w] /\ posted' = posted /\ InHand(s, w)
      BY <1>1, <1>2, <1>3, <2>2
    <3> QED
      BY <3>1 DEF InHand
  <2> QED
    BY <2>1, <2>2
<1>10. ASSUME NEW w \in Tasks PROVE Unbegun(s, w)'
  BY <1>1, <1>3 DEF Unbegun
<1>11. ASSUME NEW id \in 1 .. MaxCommands PROVE OnPlan(s, id)'
  <2>1. OnPlan(s, id) /\ posted' = posted /\ sent' = sent
    BY <1>1, <1>3
  <2> DEFINE order == posted[s][id].order
  <2>2. ASSUME posted[s][id].moves # <<>>, task[s][order.task].order = order
        PROVE  \/ task'[s][order.task].order = order
               \/ Len(posted[s][id].moves) = Loops(order) + 1
    <3>1. order \in Orders /\ order.id = id
      BY <2>1, <2>2 DEF OnPlan
    <3>2. order.task \in Tasks
      BY <3>1 DEF Orders
    <3>3. CASE order.task # t
      BY <1>2, <2>2, <3>2, <3>3
    <3>4. CASE order.task = t
      <4>1. InHand(s, t) /\ task[s][t].order = order
        BY <1>3, <2>2, <3>4
      <4>2. Len(posted[s][id].moves) = task[s][t].i /\ task[s][t].i <= Loops(order) + 1
        BY <1>1, <3>1, <4>1 DEF InHand
      <4>3. CASE HasMore(task[s][t])
        BY <1>1, <3>4, <4>1, <4>3
      <4>4. CASE ~HasMore(task[s][t])
        BY <1>4, <4>1, <4>2, <4>4 DEF HasMore
      <4> QED
        BY <4>3, <4>4
    <3> QED
      BY <3>3, <3>4
  <2> QED
    BY <2>1, <2>2 DEF OnPlan
<1> QED
  BY <1>6, <1>8, <1>9, <1>10, <1>11 DEF Strand

(* A move is posted, or given up: the series goes on either way. *)
LEMMA PostedStrand ==
  ASSUME TypeInv, NEW s \in Strands, Strand(s), NEW t \in Tasks, task[s][t].at = "post", Posted(s, t)
  PROVE  Strand(s)'
<1> DEFINE order == task[s][t].order
           old == posted[s][order.id].moves
<1>1. /\ UNCHANGED <<limits, inbox, sent>> /\ Only(s, t)
      /\ task'[s][t].at = "gap" /\ task'[s][t].order = order
      /\ task'[s][t].i = task[s][t].i + 1
      /\ order \in Orders /\ MoveOf(s, task[s][t]) \in Int
      /\ posted'[s][order.id].order = order
      /\ posted'[s][order.id].moves = Append(old, MoveOf(s, task[s][t]))
      /\ \A id \in 1 .. MaxCommands : id # order.id => posted'[s][id] = posted[s][id]
  BY PostedEffect
<1>2. \A w \in Tasks : w # t => task'[s][w] = task[s][w]
  BY <1>1 DEF Only
<1>3. /\ \A w \in Tasks : Placed(s, w) /\ InHand(s, w) /\ Unbegun(s, w)
      /\ \A w, u \in Tasks : Apart(s, w, u)
      /\ \A id \in 1 .. MaxCommands : OnPlan(s, id)
  BY DEF Strand
<1>4. /\ order.id \in 1 .. MaxCommands /\ order.task = t /\ order.id <= sent
      /\ task[s][t].i \in Nat /\ Loops(order) \in Nat
  BY <1>1, <1>3, OrderTypes, LoopsNat DEF Placed
<1>5. /\ Len(old) = task[s][t].i /\ task[s][t].i <= Loops(order)
      /\ old # <<>> => posted[s][order.id].order = order
  BY <1>3 DEF InHand
<1>6. old \in Seq(Int)
  BY <1>4 DEF TypeInv, Series
<1>7. /\ Len(Append(old, MoveOf(s, task[s][t]))) = task[s][t].i + 1
      /\ \A k \in 1 .. task[s][t].i + 1 :
           \/ k \in 1 .. Len(old) /\ Append(old, MoveOf(s, task[s][t]))[k] = old[k]
           \/ k = task[s][t].i + 1
              /\ Append(old, MoveOf(s, task[s][t]))[k] = MoveOf(s, task[s][t])
  <2>1. /\ Len(Append(old, MoveOf(s, task[s][t]))) = Len(old) + 1
        /\ \A k \in 1 .. Len(Append(old, MoveOf(s, task[s][t]))) :
             \/ k \in 1 .. Len(old) /\ Append(old, MoveOf(s, task[s][t]))[k] = old[k]
             \/ k = Len(old) + 1 /\ Append(old, MoveOf(s, task[s][t]))[k] = MoveOf(s, task[s][t])
    BY <1>1, <1>6, AppendEntries
  <2> QED
    BY <1>5, <2>1
<1>8. MoveOf(s, task[s][t]) = PlannedMove(order, task[s][t].i + 1)
  <2>1. (task[s][t].i + 1) - 1 = task[s][t].i
    BY <1>4
  <2> QED
    BY <2>1 DEF MoveOf, PlannedMove
<1>9. ASSUME NEW w \in Tasks
      PROVE  /\ task'[s][w].at = "receive" <=> task[s][w].at = "receive"
             /\ task'[s][w].order = task[s][w].order
  BY <1>1, <1>2
<1>10. ASSUME NEW w \in Tasks PROVE Placed(s, w)'
  BY <1>1, <1>3, <1>9 DEF Placed
<1>11. ASSUME NEW w \in Tasks, NEW u \in Tasks PROVE Apart(s, w, u)'
  <2>1. Apart(s, w, u) /\ inbox' = inbox
    BY <1>1, <1>3
  <2> QED
    BY <1>9, <2>1 DEF Apart
<1>12. ASSUME NEW w \in Tasks PROVE InHand(s, w)'
  <2>1. CASE w = t
    <3>1. Len(posted'[s][order.id].moves) = task[s][t].i + 1
      BY <1>1, <1>7
    <3>2. posted'[s][order.id].order = order /\ task'[s][t].order = order
          /\ task'[s][t].at = "gap" /\ task'[s][t].i = task[s][t].i + 1
      BY <1>1
    <3>3. task'[s][t].i <= Loops(order) + 1
      BY <1>4, <1>5, <3>2
    <3> HIDE DEF order
    <3> QED
      BY <2>1, <3>1, <3>2, <3>3 DEF InHand
  <2>2. CASE w # t
    <3>1. InHand(s, w) /\ task'[s][w] = task[s][w]
      BY <1>2, <1>3, <2>2
    <3>2. task[s][w].at # "receive" => posted'[s][task[s][w].order.id] = posted[s][task[s][w].order.id]
      <4>1. Apart(s, w, t)
        BY <1>3
      <4>2. task[s][w].at # "receive" => task[s][w].order.id \in 1 .. MaxCommands
        BY OrderTypes
      <4>3. task[s][w].at # "receive" => task[s][w].order.id # order.id
        BY <2>2, <4>1 DEF Apart
      <4> QED
        BY <1>1, <4>2, <4>3
    <3> QED
      BY <3>1, <3>2 DEF InHand
  <2> QED
    BY <2>1, <2>2
<1>13. ASSUME NEW w \in Tasks PROVE Unbegun(s, w)'
  <2>1. ASSUME NEW i \in 1 .. Len(inbox[s][w]) PROVE posted'[s][inbox[s][w][i].id].moves = <<>>
    <3>1. Apart(s, w, t) /\ Unbegun(s, w) /\ inbox[s][w][i].id \in 1 .. MaxCommands
      BY <1>3, OrderTypes
    <3>2. inbox[s][w][i].id # order.id
      BY <3>1 DEF Apart
    <3> QED
      BY <1>1, <3>1, <3>2 DEF Unbegun
  <2> QED
    BY <1>1, <2>1 DEF Unbegun
<1>14. ASSUME NEW id \in 1 .. MaxCommands PROVE OnPlan(s, id)'
  <2>1. CASE id = order.id
    <3>1. ASSUME NEW k \in 1 .. task[s][t].i + 1
          PROVE  Append(old, MoveOf(s, task[s][t]))[k] = PlannedMove(order, k)
      <4>1. CASE k = task[s][t].i + 1 /\ Append(old, MoveOf(s, task[s][t]))[k] = MoveOf(s, task[s][t])
        BY <1>8, <4>1
      <4>2. CASE k \in 1 .. Len(old) /\ Append(old, MoveOf(s, task[s][t]))[k] = old[k]
        <5>1. old # <<>>
          BY <4>2
        <5>2. OnPlan(s, order.id) /\ posted[s][order.id].order = order
          BY <1>3, <1>4, <1>5, <5>1
        <5>3. old[k] = PlannedMove(order, k)
          BY <4>2, <5>1, <5>2 DEF OnPlan
        <5> QED
          BY <4>2, <5>3
      <4> QED
        BY <1>7, <4>1, <4>2
    <3> DEFINE new == Append(old, MoveOf(s, task[s][t]))
    <3>2. posted'[s][id].moves = new /\ posted'[s][id].order = order
      BY <1>1, <2>1
    <3>3. Len(new) = task[s][t].i + 1 /\ \A k \in 1 .. Len(new) : new[k] = PlannedMove(order, k)
      BY <1>7, <3>1
    <3> HIDE DEF new, order
    <3>4. Len(new) <= Loops(order) + 1 /\ order \in Orders /\ order.id = id /\ id <= sent'
          /\ task'[s][order.task].order = order
      <4>1. Len(new) <= Loops(order) + 1
        <5>1. task[s][t].i \in Nat /\ task[s][t].i <= Loops(order) /\ Loops(order) \in Nat
          BY <1>4, <1>5 DEF order
        <5> QED
          BY <3>3, <5>1
      <4> QED
        BY <1>1, <1>4, <2>1, <4>1 DEF order
    <3> QED
      BY <3>2, <3>3, <3>4 DEF OnPlan, PlannedMove
  <2>2. CASE id # order.id
    <3>1. OnPlan(s, id) /\ posted'[s][id] = posted[s][id] /\ sent' = sent
      BY <1>1, <1>3, <2>2
    <3>2. \A o \in Orders : o.task \in Tasks
      BY DEF Orders
    <3> QED
      BY <1>9, <3>1, <3>2 DEF OnPlan
  <2> QED
    BY <2>1, <2>2
<1> QED
  BY <1>10, <1>11, <1>12, <1>13, <1>14 DEF Strand

(* A message puts an order with a number of its own in at most one inbox of a strand. *)
LEMMA MulticastStrand ==
  ASSUME TypeInv, NEW s \in Strands, Strand(s),
         NEW c \in Commands, NEW reached \in Reached, Multicast(c, reached)
  PROVE  Strand(s)'
<1> DEFINE new == Order(c, s)
<1>1. /\ sent' = sent + 1 /\ sent' \in 1 .. MaxCommands
      /\ UNCHANGED <<limits, task, waiting, posted>>
      /\ new \in Orders
      /\ \A w \in Tasks :
           \/ inbox'[s][w] = inbox[s][w]
           \/ w = c.task /\ inbox'[s][w] = Append(inbox[s][w], new)
  BY MulticastEffect
<1>2. new.task = c.task /\ new.id = sent + 1
  BY DEF Order
<1> HIDE DEF new
<1>3. /\ \A w \in Tasks : Placed(s, w) /\ InHand(s, w) /\ Unbegun(s, w)
      /\ \A w, u \in Tasks : Apart(s, w, u)
      /\ \A id \in 1 .. MaxCommands : OnPlan(s, id)
  BY DEF Strand
<1>4. sent \in Nat
  BY DEF TypeInv
<1>5. ASSUME NEW w \in Tasks, NEW i \in 1 .. Len(inbox'[s][w])
      PROVE  \/ i \in 1 .. Len(inbox[s][w]) /\ inbox'[s][w][i] = inbox[s][w][i]
             \/ w = c.task /\ i = Len(inbox[s][w]) + 1 /\ inbox'[s][w][i] = new
  <2>1. CASE inbox'[s][w] = inbox[s][w]
    BY <2>1
  <2>2. CASE w = c.task /\ inbox'[s][w] = Append(inbox[s][w], new)
    <3>1. inbox[s][w] \in Seq(Orders)
      BY OrderTypes
    <3> QED
      BY <1>1, <2>2, <3>1, AppendEntries
  <2> QED
    BY <1>1, <2>1, <2>2
<1>6. /\ \A w \in Tasks : \A i \in 1 .. Len(inbox[s][w]) : inbox[s][w][i].id # sent + 1
      /\ \A w \in Tasks : task[s][w].order.id # sent + 1
  <2>1. ASSUME NEW w \in Tasks, NEW i \in 1 .. Len(inbox[s][w]) PROVE inbox[s][w][i].id # sent + 1
    <3>1. Placed(s, w) /\ inbox[s][w][i].id \in 1 .. MaxCommands
      BY <1>3, OrderTypes
    <3>2. inbox[s][w][i].id <= sent
      BY <3>1 DEF Placed
    <3> QED
      BY <1>4, <3>1, <3>2
  <2>2. ASSUME NEW w \in Tasks PROVE task[s][w].order.id # sent + 1
    <3>1. Placed(s, w) /\ None.id = 0
      BY <1>3 DEF None
    <3>2. task[s][w].at # "receive" => task[s][w].order.id \in 1 .. MaxCommands
      BY OrderTypes
    <3> QED
      BY <1>4, <3>1, <3>2 DEF Placed
  <2> QED
    BY <2>1, <2>2
<1>7. ASSUME NEW w \in Tasks PROVE Placed(s, w)'
  <2>1. Placed(s, w) /\ task' = task
    BY <1>1, <1>3
  <2>2. ASSUME NEW i \in 1 .. Len(inbox'[s][w])
        PROVE  inbox'[s][w][i].task = w /\ inbox'[s][w][i].id <= sent'
    <3>1. CASE i \in 1 .. Len(inbox[s][w]) /\ inbox'[s][w][i] = inbox[s][w][i]
      <4>1. inbox[s][w][i].task = w /\ inbox[s][w][i].id <= sent
        BY <2>1, <3>1 DEF Placed
      <4>2. inbox[s][w][i].id \in 1 .. MaxCommands
        BY <3>1, OrderTypes
      <4> QED
        BY <1>1, <1>4, <3>1, <4>1, <4>2
    <3>2. CASE w = c.task /\ inbox'[s][w][i] = new
      BY <1>1, <1>2, <1>4, <3>2
    <3> QED
      BY <1>5, <3>1, <3>2
  <2>3. task[s][w].at # "receive" => task[s][w].order.id <= sent'
    <3>1. task[s][w].at # "receive" => task[s][w].order.id \in 1 .. MaxCommands
      BY OrderTypes
    <3> QED
      BY <1>1, <1>4, <2>1, <3>1 DEF Placed
  <2> QED
    BY <2>1, <2>2, <2>3 DEF Placed
<1>8. ASSUME NEW w \in Tasks, NEW u \in Tasks PROVE Apart(s, w, u)'
  <2>1. Apart(s, w, u) /\ task' = task
    BY <1>1, <1>3
  <2>2. ASSUME NEW i \in 1 .. Len(inbox'[s][w]), NEW j \in 1 .. Len(inbox'[s][u]),
               inbox'[s][w][i].id = inbox'[s][u][j].id
        PROVE  w = u /\ i = j
    <3>1. \/ i \in 1 .. Len(inbox[s][w]) /\ inbox'[s][w][i] = inbox[s][w][i]
          \/ w = c.task /\ i = Len(inbox[s][w]) + 1 /\ inbox'[s][w][i] = new
      BY <1>5
    <3>2. \/ j \in 1 .. Len(inbox[s][u]) /\ inbox'[s][u][j] = inbox[s][u][j]
          \/ u = c.task /\ j = Len(inbox[s][u]) + 1 /\ inbox'[s][u][j] = new
      BY <1>5
    <3> QED
      BY <1>2, <1>6, <2>1, <2>2, <3>1, <3>2 DEF Apart
  <2>3. ASSUME NEW i \in 1 .. Len(inbox'[s][w]) PROVE inbox'[s][w][i].id # task[s][u].order.id
    BY <1>2, <1>5, <1>6, <2>1 DEF Apart
  <2> QED
    BY <2>1, <2>2, <2>3 DEF Apart
<1>9. ASSUME NEW w \in Tasks PROVE InHand(s, w)'
  BY <1>1, <1>3 DEF InHand
<1>10. ASSUME NEW w \in Tasks PROVE Unbegun(s, w)'
  <2>1. ASSUME NEW i \in 1 .. Len(inbox'[s][w]) PROVE posted[s][inbox'[s][w][i].id].moves = <<>>
    <3>1. CASE i \in 1 .. Len(inbox[s][w]) /\ inbox'[s][w][i] = inbox[s][w][i]
      <4>1. Unbegun(s, w)
        BY <1>3
      <4> QED
        BY <3>1, <4>1 DEF Unbegun
    <3>2. CASE inbox'[s][w][i] = new
      <4>1. OnPlan(s, sent + 1)
        BY <1>1, <1>3
      <4> QED
        BY <1>2, <1>4, <3>2, <4>1 DEF OnPlan
    <3> QED
      BY <1>5, <3>1, <3>2
  <2> QED
    BY <1>1, <2>1 DEF Unbegun
<1>11. ASSUME NEW id \in 1 .. MaxCommands PROVE OnPlan(s, id)'
  <2>1. OnPlan(s, id) /\ task' = task /\ posted' = posted
    BY <1>1, <1>3
  <2> QED
    BY <1>1, <1>4, <2>1 DEF OnPlan
<1> QED
  BY <1>7, <1>8, <1>9, <1>10, <1>11 DEF Strand

(* At the start no order is known. *)
LEMMA InitSeriesInv == Init => SeriesInv
<1> SUFFICES ASSUME Init, NEW s \in Strands PROVE Strand(s)
  BY DEF SeriesInv
<1>1. /\ \A t \in Tasks : inbox[s][t] = <<>> /\ task[s][t] = Idle
      /\ \A id \in 1 .. MaxCommands : posted[s][id].moves = <<>>
  BY DEF Init
<1>2. Idle.at = "receive" /\ Idle.order = None
  BY DEF Idle
<1> QED
  BY <1>1, <1>2 DEF Strand, Placed, Apart, InHand, Unbegun, OnPlan

(* A step of a task of one strand leaves the others alone. *)
LEMMA OthersAlone ==
  ASSUME TypeInv, NEW u \in Strands, NEW t \in Tasks, Task(u, t), NEW s \in Strands, u # s
  PROVE  /\ \A w \in Tasks : task'[s][w] = task[s][w] /\ inbox'[s][w] = inbox[s][w]
         /\ \A id \in 1 .. MaxCommands : posted'[s][id] = posted[s][id]
         /\ sent' = sent
<1>1. CASE Receive(u, t)
  BY <1>1, ReceiveEffect DEF Only
<1>2. CASE Wake(u, t)
  BY <1>2, WakeEffect DEF Only
<1>3. CASE task[u][t].at = "post" /\ Posted(u, t)
  <2>1. /\ UNCHANGED <<limits, inbox, sent>> /\ Only(u, t)
        /\ \A v \in Strands, id \in 1 .. MaxCommands :
             v # u \/ id # task[u][t].order.id => posted'[v][id] = posted[v][id]
    BY <1>3, PostedEffect
  <2>2. \A id \in 1 .. MaxCommands : posted'[s][id] = posted[s][id]
    BY <2>1
  <2> QED
    BY <2>1, <2>2 DEF Only
<1> QED
  BY <1>1, <1>2, <1>3 DEF Task, Post, GiveUp

(* Every step keeps every strand to its plans. *)
LEMMA NextSeriesInv ==
  ASSUME TypeInv, SeriesInv, [Next]_vars
  PROVE  SeriesInv'
<1>0. TypeInv' /\ sent \in Nat /\ sent' \in Nat
  BY NextTypeInv DEF TypeInv
<1> SUFFICES ASSUME NEW s \in Strands PROVE Strand(s)'
  BY DEF SeriesInv
<1>1. Strand(s)
  BY DEF SeriesInv
<1>2. ASSUME UNCHANGED <<inbox, task, posted>>, sent <= sent' PROVE Strand(s)'
  BY <1>0, <1>1, <1>2, AloneStrand DEF Alone
<1>3. ASSUME NEW u \in Strands, NEW t \in Tasks, Task(u, t) PROVE Strand(s)'
  <2>1. CASE u = s
    <3>1. CASE Post(s, t)
      BY <1>1, <3>1, PostedStrand DEF Post
    <3>2. CASE GiveUp(s, t)
      BY <1>1, <3>2, PostedStrand DEF GiveUp
    <3> QED
      BY <1>1, <1>3, <2>1, <3>1, <3>2, ReceiveStrand, WakeStrand DEF Task
  <2>2. CASE u # s
    <3>1. /\ \A w \in Tasks : task'[s][w] = task[s][w] /\ inbox'[s][w] = inbox[s][w]
          /\ \A id \in 1 .. MaxCommands : posted'[s][id] = posted[s][id]
          /\ sent' = sent
      BY <1>3, <2>2, OthersAlone
    <3>2. \A w \in Tasks : Alone(s, w)
      BY <3>1 DEF Alone
    <3> QED
      BY <1>0, <1>1, <3>1, <3>2, AloneStrand
  <2> QED
    BY <2>1, <2>2
<1>4. CASE Tick
  <2>1. \A w \in Tasks : Alone(s, w)
    BY <1>4, TickEffect DEF Alone
  <2>2. posted' = posted /\ sent' = sent
    BY <1>4, TickEffect
  <2> QED
    BY <1>0, <1>1, <2>1, <2>2, AloneStrand
<1>5. ASSUME NEW u \in Strands, DirectMove(u) \/ Take(u) PROVE Strand(s)'
  BY <1>0, <1>2, <1>5 DEF DirectMove, Take
<1>6. ASSUME NEW u \in Strands, NEW pair \in LimitChanges, SetLimits(u, pair) PROVE Strand(s)'
  BY <1>0, <1>2, <1>6 DEF SetLimits
<1>7. ASSUME NEW c \in Commands, NEW reached \in Reached, Multicast(c, reached) PROVE Strand(s)'
  BY <1>1, <1>7, MulticastStrand
<1>8. CASE UNCHANGED vars
  BY <1>0, <1>2, <1>8 DEF vars
<1> QED
  BY <1>3, <1>4, <1>5, <1>6, <1>7, <1>8 DEF Next, Working

(* The plan of an order lists its planned moves. *)
LEMMA PlanIs ==
  ASSUME NEW order \in Orders
  PROVE  /\ Plan(order) \in Seq(Int) /\ Len(Plan(order)) = Loops(order) + 1
         /\ \A k \in 1 .. Loops(order) + 1 : Plan(order)[k] = PlannedMove(order, k)
<1> DEFINE up == Within(order, order.move + order.offset)
           down == Within(order, order.move - order.offset)
           last == Within(order, order.move)
           n == Loops(order)
           swings == [k \in 1 .. n |-> IF k % 2 = 1 THEN up ELSE down]
<1>1. n \in Nat
  BY LoopsNat
<1>2. up \in Int /\ down \in Int /\ last \in Int
  BY DEF Within, Orders
<1>3. ASSUME NEW k \in 1 .. n PROVE PlannedMove(order, k) = IF k % 2 = 1 THEN up ELSE down
  <2>1. k - 1 # n /\ ((k - 1) % 2 = 0 <=> k % 2 = 1)
    BY <1>1
  <2> QED
    BY <2>1 DEF PlannedMove, Target
<1>4. PlannedMove(order, n + 1) = last
  <2>1. (n + 1) - 1 = n
    BY <1>1
  <2> QED
    BY <2>1 DEF PlannedMove, Target
<1>5. Plan(order) = Append(swings, last)
  BY DEF Plan
<1> HIDE DEF up, down, last, n
<1>6. swings \in Seq(Int) /\ Len(swings) = n
  BY <1>1, <1>2
<1>7. \A k \in 1 .. n : swings[k] = PlannedMove(order, k)
  BY <1>3
<1> HIDE DEF swings
<1>8. /\ Append(swings, last) \in Seq(Int) /\ Len(Append(swings, last)) = n + 1
      /\ \A k \in 1 .. Len(Append(swings, last)) :
           \/ k \in 1 .. n /\ Append(swings, last)[k] = swings[k]
           \/ k = n + 1 /\ Append(swings, last)[k] = last
  BY <1>2, <1>6, AppendEntries, AppendProperties
<1> QED
  BY <1>4, <1>5, <1>7, <1>8 DEF n

(* Sequences that agree as far as the first goes. *)
LEMMA PrefixBy ==
  ASSUME NEW p \in Seq(Int), NEW q \in Seq(Int), Len(p) <= Len(q),
         \A k \in 1 .. Len(p) : p[k] = q[k]
  PROVE  IsPrefix(p, q) /\ (Len(p) = Len(q) => p = q)
<1> DEFINE n == Len(p)
           a == SubSeq(p, 1, n)
           b == SubSeq(q, 1, n)
<1>1. n \in Nat /\ n <= Len(q) /\ Len(q) \in Nat
  OBVIOUS
<1>2. /\ a \in Seq(Int) /\ Len(a) = n /\ \A i \in 1 .. n : a[i] = p[i]
  <2>1. 1 \in Int /\ n \in Int /\ \A i \in 1 .. n : p[i] \in Int
    BY <1>1
  <2>2. /\ a \in Seq(Int) /\ Len(a) = IF 1 <= n THEN n - 1 + 1 ELSE 0
        /\ \A i \in 1 .. n - 1 + 1 : a[i] = p[1 + i - 1]
    BY <2>1, SubSeqProperties
  <2> HIDE DEF a
  <2> QED
    BY <1>1, <2>2
<1>3. /\ b \in Seq(Int) /\ Len(b) = n /\ \A i \in 1 .. n : b[i] = q[i]
  <2>1. 1 \in Int /\ n \in Int /\ \A i \in 1 .. n : q[i] \in Int
    BY <1>1
  <2>2. /\ b \in Seq(Int) /\ Len(b) = IF 1 <= n THEN n - 1 + 1 ELSE 0
        /\ \A i \in 1 .. n - 1 + 1 : b[i] = q[1 + i - 1]
    BY <2>1, SubSeqProperties
  <2> HIDE DEF b
  <2> QED
    BY <1>1, <2>2
<1>4. a = b
  <2>1. \A i \in 1 .. n : a[i] = b[i]
    BY <1>2, <1>3
  <2> HIDE DEF a, b, n
  <2> QED
    BY <1>2, <1>3, <2>1, SeqEqual
<1>5. Len(p) = Len(q) => p = q
  BY SeqEqual
<1> QED
  BY <1>4, <1>5 DEF IsPrefix

(* For all strands, commands, limits and lengths of the queues: a strand posts the moves of *)
(* a series in the order of its plan, each once, whatever else is in the queue and however  *)
(* often there was no room, and turns to its next order when it has gone through all of it  *)
(* (net.c 873-1011).                                                                        *)
THEOREM SeriesOnPlan == Spec => []SeriesFollowsPlan
<1>1. ASSUME TypeInv, SeriesInv PROVE SeriesFollowsPlan
  <2> SUFFICES ASSUME NEW s \in Strands, NEW id \in 1 .. MaxCommands, posted[s][id].moves # <<>>
               PROVE  LET order == posted[s][id].order
                          moves == posted[s][id].moves
                      IN /\ IsPrefix(moves, Plan(order))
                         /\ Done(s, order) => moves = Plan(order)
    BY DEF SeriesFollowsPlan, Begun
  <2> DEFINE order == posted[s][id].order
             moves == posted[s][id].moves
  <2>1. OnPlan(s, id) /\ moves \in Seq(Int)
    BY <1>1 DEF SeriesInv, Strand, TypeInv, Series
  <2>2. /\ order \in Orders /\ Len(moves) <= Loops(order) + 1
        /\ \A k \in 1 .. Len(moves) : moves[k] = PlannedMove(order, k)
        /\ Done(s, order) => Len(moves) = Loops(order) + 1
    BY <2>1 DEF OnPlan, Done
  <2> HIDE DEF order, moves
  <2>3. /\ Plan(order) \in Seq(Int) /\ Len(Plan(order)) = Loops(order) + 1
        /\ \A k \in 1 .. Loops(order) + 1 : Plan(order)[k] = PlannedMove(order, k)
    BY <2>2, PlanIs
  <2>4. Loops(order) \in Nat
    BY <2>2, LoopsNat
  <2>5. \A k \in 1 .. Len(moves) : moves[k] = Plan(order)[k]
    BY <2>1, <2>2, <2>3, <2>4
  <2>6. IsPrefix(moves, Plan(order)) /\ (Len(moves) = Len(Plan(order)) => moves = Plan(order))
    BY <2>1, <2>2, <2>3, <2>5, PrefixBy
  <2> QED
    BY <2>2, <2>3, <2>6 DEF order, moves
<1>2. Init => TypeInv /\ SeriesInv
  BY InitTypeInv, InitSeriesInv
<1>3. TypeInv /\ SeriesInv /\ [Next]_vars => TypeInv' /\ SeriesInv'
  BY NextTypeInv, NextSeriesInv
<1> QED
  BY <1>1, <1>2, <1>3, PTL DEF Spec

(***************************************************************************)
(* Order of the strands                                                    *)
(***************************************************************************)

(* The orders of a strand: waiting, in hand, begun. *)
Waits(s, order) ==
  \E i \in 1 .. Len(inbox[s][order.task]) : inbox[s][order.task][i] = order
InHands(s, order) ==
  task[s][order.task].at # "receive" /\ task[s][order.task].order = order
Known(s, order) ==
  \/ Waits(s, order) \/ InHands(s, order)
  \/ \E id \in 1 .. MaxCommands : posted[s][id].moves # <<>> /\ posted[s][id].order = order

(* The orders that one message made agree on who is to do it, where it begins, how fast. *)
SameMessage ==
  \A s, u \in Strands : \A a, b \in Orders :
    Known(s, a) /\ Known(u, b) /\ a.id = b.id
      => a.task = b.task /\ a.origin = b.origin /\ a.speed = b.speed

(* An order that found its task at rest is the first it takes, and at once. *)
PromptFirst ==
  \A s \in Strands, t \in Tasks : \A i \in 1 .. Len(inbox[s][t]) :
    inbox[s][t][i].prompt => i = 1 /\ task[s][t].at = "receive"

(* The time before a strand begins to move with an order. *)
Expected(s, order) == IF order.task = "sine" THEN 0 ELSE Ticks(DelayMs(s, order))

Left(s, order) ==
  CASE InHands(s, order) /\ task[s][order.task].at = "delay" -> task[s][order.task].timer
    [] InHands(s, order) /\ task[s][order.task].at # "delay" -> 0
    [] ~InHands(s, order) /\ Waits(s, order) -> Expected(s, order)
    [] OTHER -> 0

NearLeft ==
  \A near, far \in Strands : \A a, b \in Orders :
    /\ Known(near, a) /\ Known(far, b) /\ a.id = b.id /\ a.prompt /\ b.prompt
    /\ Squared(near, b.origin) <= Squared(far, b.origin) /\ Counted(far, b)
    => Left(near, a) <= Left(far, b)

(* A strand has no order that was not sent. *)
LEMMA KnownSent ==
  ASSUME TypeInv, NEW s \in Strands, Strand(s), NEW order \in Orders, Known(s, order)
  PROVE  order.id <= sent
<1>1. order.task \in Tasks
  BY DEF Orders
<1>2. Placed(s, order.task) /\ \A id \in 1 .. MaxCommands : OnPlan(s, id)
  BY <1>1 DEF Strand
<1>3. CASE Waits(s, order)
  BY <1>2, <1>3 DEF Waits, Placed
<1>4. CASE InHands(s, order)
  BY <1>2, <1>4 DEF InHands, Placed
<1>5. ASSUME NEW id \in 1 .. MaxCommands, posted[s][id].moves # <<>>, posted[s][id].order = order
      PROVE  order.id <= sent
  BY <1>2, <1>5 DEF OnPlan
<1> QED
  BY <1>3, <1>4, <1>5 DEF Known

(* A step by which a strand comes to know no order, and which leaves it as much time. *)
Kept(s) ==
  \A order \in Orders :
    Known(s, order)' => Known(s, order) /\ (order.speed > 0 => Left(s, order)' = Left(s, order))

(* Of the tasks of a strand, one whose state and inbox are left alone has the same orders. *)
LEMMA AloneTask ==
  ASSUME NEW s \in Strands, NEW order \in Orders,
         task'[s][order.task] = task[s][order.task], inbox'[s][order.task] = inbox[s][order.task]
  PROVE  /\ Waits(s, order)' <=> Waits(s, order)
         /\ InHands(s, order)' <=> InHands(s, order)
         /\ Left(s, order)' = Left(s, order)
<1>1. Waits(s, order)' <=> Waits(s, order)
  BY DEF Waits
<1>2. InHands(s, order)' <=> InHands(s, order)
  BY DEF InHands
<1> QED
  BY <1>1, <1>2 DEF Left, Expected, Ticks, DelayMs, Distance, Squared

(* A step elsewhere. *)
LEMMA AloneKept ==
  ASSUME NEW s \in Strands, \A t \in Tasks : task'[s][t] = task[s][t] /\ inbox'[s][t] = inbox[s][t],
         \A id \in 1 .. MaxCommands : posted'[s][id] = posted[s][id]
  PROVE  Kept(s)
<1> SUFFICES ASSUME NEW order \in Orders, Known(s, order)'
             PROVE  Known(s, order) /\ Left(s, order)' = Left(s, order)
  BY DEF Kept
<1>1. order.task \in Tasks
  BY DEF Orders
<1>2. /\ Waits(s, order)' <=> Waits(s, order)
      /\ InHands(s, order)' <=> InHands(s, order)
      /\ Left(s, order)' = Left(s, order)
  BY <1>1, AloneTask
<1> QED
  BY <1>2 DEF Known

(* A task turns to an order: what it waited for is what it sleeps now. *)
LEMMA ReceiveKept ==
  ASSUME TypeInv, NEW s \in Strands, Strand(s), NEW t \in Tasks, Receive(s, t)
  PROVE  Kept(s)
<1> SUFFICES ASSUME NEW order \in Orders, Known(s, order)'
             PROVE  Known(s, order) /\ (order.speed > 0 => Left(s, order)' = Left(s, order))
  BY DEF Kept
<1> DEFINE first == inbox[s][t][1]
<1>1. /\ task[s][t].at = "receive" /\ inbox[s][t] # <<>>
      /\ UNCHANGED <<limits, waiting, posted, sent>> /\ Only(s, t)
      /\ inbox'[s][t] = Tail(inbox[s][t])
      /\ task'[s][t].at = "delay" /\ task'[s][t].order = Head(inbox[s][t])
      /\ task'[s][t].timer \in DelayTicks(s, Head(inbox[s][t]))
  BY ReceiveEffect
<1>2. inbox[s][t] \in Seq(Orders)
  BY OrderTypes
<1>3. /\ Len(inbox'[s][t]) = Len(inbox[s][t]) - 1 /\ Len(inbox[s][t]) \in Nat \ {0}
      /\ Head(inbox[s][t]) = first
      /\ \A i \in 1 .. Len(inbox'[s][t]) :
           i + 1 \in 1 .. Len(inbox[s][t]) /\ inbox'[s][t][i] = inbox[s][t][i + 1]
  BY <1>1, <1>2, TailEntries
<1>4. order.task \in Tasks
  BY DEF Orders
<1>5. CASE order.task # t
  <2>1. task'[s][order.task] = task[s][order.task] /\ inbox'[s][order.task] = inbox[s][order.task]
    BY <1>1, <1>4, <1>5 DEF Only
  <2>2. /\ Waits(s, order)' <=> Waits(s, order)
        /\ InHands(s, order)' <=> InHands(s, order)
        /\ Left(s, order)' = Left(s, order)
    BY <1>4, <2>1, AloneTask
  <2> QED
    BY <1>1, <2>2 DEF Known
<1>6. CASE order.task = t
  <2>1. ~InHands(s, order)
    BY <1>1, <1>6 DEF InHands
  <2>2. InHands(s, order)' <=> order = first
    BY <1>1, <1>3, <1>6 DEF InHands
  <2>3. first.task = t => Waits(s, first)
    BY <1>3 DEF Waits
  <2>4. Waits(s, order)' => Waits(s, order)
    <3>1. ASSUME NEW i \in 1 .. Len(inbox'[s][t]), inbox'[s][t][i] = order PROVE Waits(s, order)
      BY <1>3, <1>6, <3>1 DEF Waits
    <3> QED
      BY <1>6, <3>1 DEF Waits
  <2>5. Waits(s, order) /\ order # first => Waits(s, order)'
    <3>1. ASSUME NEW k \in 1 .. Len(inbox[s][t]), inbox[s][t][k] = order, order # first
          PROVE  Waits(s, order)'
      <4>1. k # 1
        BY <3>1
      <4>2. k - 1 \in 1 .. Len(inbox'[s][t]) /\ (k - 1) + 1 = k
        BY <1>3, <4>1
      <4>3. inbox'[s][t][k - 1] = order
        BY <1>3, <3>1, <4>2
      <4> QED
        BY <1>6, <4>2, <4>3 DEF Waits
    <3> QED
      BY <1>6, <3>1 DEF Waits
  <2>6. Known(s, order)
    BY <1>1, <1>6, <2>2, <2>3, <2>4 DEF Known
  <2>7. CASE order # first
    <3>1. ~InHands(s, order)' /\ (Waits(s, order)' <=> Waits(s, order))
      BY <2>2, <2>4, <2>5, <2>7
    <3> QED
      BY <2>1, <2>6, <3>1 DEF Left, Expected, Ticks, DelayMs, Distance, Squared
  <2>8. CASE order = first /\ order.speed > 0
    <3>1. Waits(s, order) /\ InHands(s, order)'
      BY <1>6, <2>2, <2>3, <2>8
    <3>2. task'[s][t].timer = Expected(s, order)
      BY <1>1, <1>3, <2>8 DEF DelayTicks, Expected
    <3>3. Left(s, order) = Expected(s, order)
      BY <2>1, <3>1 DEF Left
    <3>4. Left(s, order)' = task'[s][t].timer
      BY <1>1, <1>6, <3>1 DEF Left
    <3> QED
      BY <2>6, <3>2, <3>3, <3>4
  <2> QED
    BY <2>6, <2>7, <2>8
<1> QED
  BY <1>5, <1>6

(* A task wakes when it has no time left. *)
LEMMA WakeKept ==
  ASSUME TypeInv, NEW s \in Strands, Strand(s), NEW t \in Tasks, Wake(s, t)
  PROVE  Kept(s)
<1> SUFFICES ASSUME NEW order \in Orders, Known(s, order)'
             PROVE  Known(s, order) /\ Left(s, order)' = Left(s, order)
  BY DEF Kept
<1>1. /\ task[s][t].at \in {"delay", "gap"} /\ task[s][t].timer = 0
      /\ UNCHANGED <<limits, inbox, waiting, posted, sent>> /\ Only(s, t)
      /\ \/ task'[s][t].at = "post" /\ task'[s][t].order = task[s][t].order
         \/ task'[s][t] = Idle
  BY WakeEffect
<1>2. order.task \in Tasks
  BY DEF Orders
<1>3. CASE order.task # t
  <2>1. task'[s][order.task] = task[s][order.task] /\ inbox'[s][order.task] = inbox[s][order.task]
    BY <1>1, <1>2, <1>3 DEF Only
  <2>2. /\ Waits(s, order)' <=> Waits(s, order)
        /\ InHands(s, order)' <=> InHands(s, order)
        /\ Left(s, order)' = Left(s, order)
    BY <1>2, <2>1, AloneTask
  <2> QED
    BY <1>1, <2>2 DEF Known
<1>4. CASE order.task = t
  <2>1. Waits(s, order)' <=> Waits(s, order)
    BY <1>1 DEF Waits
  <2>2. InHands(s, order)' => InHands(s, order) /\ task'[s][t].at # "delay"
    BY <1>1, <1>4 DEF InHands, Idle
  <2>3. InHands(s, order) => task[s][t].timer = 0 /\ ~Waits(s, order)
    <3>1. Apart(s, t, t)
      BY DEF Strand
    <3> QED
      BY <1>1, <1>4, <3>1 DEF Apart, InHands, Waits
  <2>4. Known(s, order)
    BY <1>1, <2>1, <2>2 DEF Known
  <2>5. CASE InHands(s, order)
    <3>1. Left(s, order) = 0
      BY <1>1, <1>4, <2>3, <2>5 DEF Left
    <3>2. Left(s, order)' = 0
      BY <1>4, <2>1, <2>2, <2>3, <2>5 DEF Left
    <3> QED
      BY <2>4, <3>1, <3>2
  <2>6. CASE ~InHands(s, order)
    <3>1. ~InHands(s, order)'
      BY <2>2, <2>6
    <3> QED
      BY <2>1, <2>4, <2>6, <3>1 DEF Left, Expected, Ticks, DelayMs, Distance, Squared
  <2> QED
    BY <2>5, <2>6
<1> QED
  BY <1>3, <1>4

(* A task with a move to post has no time left either. *)
LEMMA PostedKept ==
  ASSUME TypeInv, NEW s \in Strands, Strand(s), NEW t \in Tasks, task[s][t].at = "post", Posted(s, t)
  PROVE  Kept(s)
<1> SUFFICES ASSUME NEW order \in Orders, Known(s, order)'
             PROVE  Known(s, order) /\ Left(s, order)' = Left(s, order)
  BY DEF Kept
<1> DEFINE hand == task[s][t].order
<1>1. /\ UNCHANGED <<limits, inbox, sent>> /\ Only(s, t)
      /\ task'[s][t].at = "gap" /\ task'[s][t].order = hand
      /\ hand \in Orders
      /\ posted'[s][hand.id].order = hand
      /\ \A id \in 1 .. MaxCommands : id # hand.id => posted'[s][id] = posted[s][id]
  BY PostedEffect
<1>2. order.task \in Tasks /\ hand.task = t
  <2>1. Placed(s, t)
    BY DEF Strand
  <2> QED
    BY <2>1 DEF Orders, Placed
<1>3. /\ Waits(s, order)' <=> Waits(s, order)
      /\ InHands(s, order)' <=> InHands(s, order)
      /\ Left(s, order)' = Left(s, order)
  <2>1. CASE order.task # t
    <3>1. task'[s][order.task] = task[s][order.task] /\ inbox'[s][order.task] = inbox[s][order.task]
      BY <1>1, <1>2, <2>1 DEF Only
    <3> QED
      BY <1>2, <3>1, AloneTask
  <2>2. CASE order.task = t
    <3>1. Waits(s, order)' <=> Waits(s, order)
      BY <1>1 DEF Waits
    <3>2. InHands(s, order)' <=> InHands(s, order)
      BY <1>1, <2>2 DEF InHands
    <3>3. task[s][order.task].at # "delay" /\ task'[s][order.task].at # "delay"
      BY <1>1, <2>2
    <3> QED
      BY <3>1, <3>2, <3>3 DEF Left, Expected, Ticks, DelayMs, Distance, Squared
  <2> QED
    BY <2>1, <2>2
<1>4. InHands(s, hand)
  BY <1>2 DEF InHands
<1>5. ASSUME NEW id \in 1 .. MaxCommands, posted'[s][id].moves # <<>>, posted'[s][id].order = order
      PROVE  Known(s, order)
  <2>1. CASE id = hand.id
    BY <1>1, <1>4, <1>5, <2>1 DEF Known
  <2>2. CASE id # hand.id
    BY <1>1, <1>5, <2>2 DEF Known
  <2> QED
    BY <2>1, <2>2
<1> QED
  BY <1>3, <1>5 DEF Known

(* With equal speeds the strand that hangs nearer waits no longer. *)
LEMMA NearExpected ==
  ASSUME NEW near \in Strands, NEW far \in Strands, NEW a \in Orders, NEW b \in Orders,
         a.task = b.task, a.origin = b.origin, a.speed = b.speed,
         Squared(near, b.origin) <= Squared(far, b.origin), Counted(far, b)
  PROVE  Expected(near, a) <= Expected(far, b)
<1>1. /\ b.origin \in Points /\ b.speed \in Nat \ {0} /\ DelayMs(far, b) * 1000 < Word
      /\ Word \in Nat
  BY DEF Orders, Counted
<1>2. /\ Distance(near, b.origin) \in Nat /\ Distance(far, b.origin) \in Nat
      /\ Distance(near, b.origin) <= Distance(far, b.origin)
  BY <1>1, DistanceNat, RootMonotonic DEF Distance
<1> DEFINE speed == b.speed
           d == Distance(near, b.origin) * 100
           e == Distance(far, b.origin) * 100
<1>3. d \in Nat /\ e \in Nat /\ d <= e /\ speed \in Nat /\ speed > 0
  BY <1>1, <1>2
<1>4. DelayMs(near, a) = d \div speed /\ DelayMs(far, b) = e \div speed
  BY DEF DelayMs
<1> HIDE DEF d, e, speed
<1>5. d \div speed \in Nat /\ e \div speed \in Nat /\ d \div speed <= e \div speed
  <2>1. d \div speed \in Nat /\ e \div speed \in Nat
    BY <1>3
  <2>2. speed * (d \div speed) <= d /\ e < speed * ((e \div speed) + 1)
    BY <1>3
  <2>3. SUFFICES ASSUME (e \div speed) + 1 <= d \div speed PROVE FALSE
    BY <2>1
  <2>4. speed * ((e \div speed) + 1) <= speed * (d \div speed)
    BY <1>3, <2>1, <2>3, ProductMonotonic
  <2> QED
    BY <1>3, <2>1, <2>2, <2>4
<1>6. ASSUME NEW ms \in Nat, ms * 1000 < Word PROVE Ticks(ms) = ms
  <2>1. (ms * 1000) % Word = ms * 1000
    BY <1>1, <1>6
  <2>2. (ms * 1000) \div 1000 = ms
    OBVIOUS
  <2> QED
    BY <2>1, <2>2 DEF Ticks
<1>7. Ticks(DelayMs(near, a)) = DelayMs(near, a) /\ Ticks(DelayMs(far, b)) = DelayMs(far, b)
  BY <1>1, <1>4, <1>5, <1>6
<1> QED
  BY <1>4, <1>5, <1>7 DEF Expected

(* Steps that keep to the orders known keep what relates them. *)
LEMMA KeptNear ==
  ASSUME SameMessage, NearLeft, \A s \in Strands : Kept(s)
  PROVE  SameMessage' /\ NearLeft'
<1>1. \A s \in Strands : \A order \in Orders : Known(s, order)' => Known(s, order)
  BY DEF Kept
<1>2. SameMessage'
  BY <1>1 DEF SameMessage
<1>3. NearLeft'
  <2> SUFFICES ASSUME NEW near \in Strands, NEW far \in Strands, NEW a \in Orders, NEW b \in Orders,
                      Known(near, a)', Known(far, b)', a.id = b.id, a.prompt, b.prompt,
                      Squared(near, b.origin) <= Squared(far, b.origin), Counted(far, b)
               PROVE  Left(near, a)' <= Left(far, b)'
    BY DEF NearLeft, Counted, DelayMs, Distance, Squared
  <2>1. Known(near, a) /\ Known(far, b)
    BY <1>1
  <2>2. a.speed = b.speed /\ b.speed > 0
    BY <2>1 DEF SameMessage, Counted
  <2>3. Left(near, a) <= Left(far, b)
    BY <2>1 DEF NearLeft
  <2>4. Left(near, a)' = Left(near, a) /\ Left(far, b)' = Left(far, b)
    BY <2>2 DEF Kept
  <2> QED
    BY <2>3, <2>4
<1> QED
  BY <1>2, <1>3

(* Time runs for the strands alike; none has a prompt order that still waits. *)
LEMMA TickNear ==
  ASSUME TypeInv, SameMessage, PromptFirst, NearLeft, Tick
  PROVE  SameMessage' /\ NearLeft'
<1>1. /\ UNCHANGED <<limits, inbox, waiting, posted, sent>>
      /\ \A s \in Strands, t \in Tasks :
           /\ ~Ready(s, t)
           /\ task'[s][t].at = task[s][t].at /\ task'[s][t].order = task[s][t].order
  BY TickEffect
<1>2. PICK step \in Nat : \A s \in Strands, t \in Tasks :
        /\ task[s][t].timer = 0 => task'[s][t].timer = 0
        /\ task[s][t].timer > 0 => task'[s][t].timer = task[s][t].timer - step
  BY TickEffect
<1>3. \A s \in Strands, t \in Tasks : task[s][t].timer \in Nat /\ task'[s][t].timer \in Nat
  <2>1. /\ task \in [Strands -> [Tasks -> States]] /\ task' \in [Strands -> [Tasks -> States]]
        /\ LongestWait \in Nat
    BY TickEffect, LongestWaitFact DEF TypeInv
  <2> QED
    BY <2>1 DEF States
<1>4. ASSUME NEW s \in Strands, NEW order \in Orders
      PROVE  /\ Waits(s, order)' <=> Waits(s, order)
             /\ InHands(s, order)' <=> InHands(s, order)
             /\ Known(s, order)' <=> Known(s, order)
  <2>1. order.task \in Tasks
    BY DEF Orders
  <2>2. Waits(s, order)' <=> Waits(s, order)
    BY <1>1 DEF Waits
  <2>3. InHands(s, order)' <=> InHands(s, order)
    BY <1>1, <2>1 DEF InHands
  <2> QED
    BY <1>1, <2>2, <2>3 DEF Known
<1>5. ASSUME NEW s \in Strands, NEW order \in Orders, order.prompt
      PROVE  /\ Left(s, order) \in Nat /\ Left(s, order)' \in Nat
             /\ Left(s, order) = 0 => Left(s, order)' = 0
             /\ Left(s, order) > 0 => Left(s, order)' = Left(s, order) - step
  <2>1. order.task \in Tasks
    BY DEF Orders
  <2>2. ~Waits(s, order)
    <3> SUFFICES ASSUME NEW i \in 1 .. Len(inbox[s][order.task]), inbox[s][order.task][i] = order
                 PROVE  FALSE
      BY DEF Waits
    <3>1. task[s][order.task].at = "receive"
      BY <1>5, <2>1 DEF PromptFirst
    <3>2. inbox[s][order.task] # <<>>
      OBVIOUS
    <3>3. ~Ready(s, order.task)
      BY <1>1, <2>1
    <3> QED
      BY <3>1, <3>2, <3>3 DEF Ready
  <2>3. CASE InHands(s, order) /\ task[s][order.task].at = "delay"
    <3>1. InHands(s, order)' /\ task'[s][order.task].at = "delay"
      BY <1>1, <1>4, <2>1, <2>3
    <3>2. Left(s, order) = task[s][order.task].timer /\ Left(s, order)' = task'[s][order.task].timer
      BY <2>3, <3>1 DEF Left
    <3> QED
      BY <1>2, <1>3, <2>1, <3>2
  <2>4. CASE ~(InHands(s, order) /\ task[s][order.task].at = "delay")
    <3>1. ~(InHands(s, order)' /\ task'[s][order.task].at = "delay") /\ ~Waits(s, order)'
      BY <1>1, <1>4, <2>1, <2>2, <2>4
    <3>2. Left(s, order) = 0
      BY <2>2, <2>4 DEF Left
    <3>3. Left(s, order)' = 0
      BY <3>1 DEF Left
    <3> QED
      BY <3>2, <3>3
  <2> QED
    BY <2>3, <2>4
<1>6. SameMessage'
  BY <1>4 DEF SameMessage
<1>7. NearLeft'
  <2> SUFFICES ASSUME NEW near \in Strands, NEW far \in Strands, NEW a \in Orders, NEW b \in Orders,
                      Known(near, a)', Known(far, b)', a.id = b.id, a.prompt, b.prompt,
                      Squared(near, b.origin) <= Squared(far, b.origin), Counted(far, b)
               PROVE  Left(near, a)' <= Left(far, b)'
    BY DEF NearLeft, Counted, DelayMs, Distance, Squared
  <2>1. Left(near, a) <= Left(far, b)
    BY <1>4 DEF NearLeft
  <2>2. /\ Left(near, a) \in Nat /\ Left(near, a)' \in Nat
        /\ Left(near, a) = 0 => Left(near, a)' = 0
        /\ Left(near, a) > 0 => Left(near, a)' = Left(near, a) - step
    BY <1>5
  <2>3. /\ Left(far, b) \in Nat /\ Left(far, b)' \in Nat
        /\ Left(far, b) > 0 => Left(far, b)' = Left(far, b) - step
    BY <1>5
  <2> QED
    BY <2>1, <2>2, <2>3
<1> QED
  BY <1>6, <1>7

(* A message makes its orders everywhere at once. *)
LEMMA MulticastNear ==
  ASSUME TypeInv, SeriesInv, SameMessage, NearLeft,
         NEW c \in Commands, NEW reached \in Reached, Multicast(c, reached)
  PROVE  SameMessage' /\ NearLeft'
<1>1. /\ sent' = sent + 1 /\ sent \in Nat /\ UNCHANGED <<limits, task, waiting, posted>>
      /\ \A s \in Strands : Order(c, s) \in Orders
      /\ \A s \in Strands, t \in Tasks :
           \/ inbox'[s][t] = inbox[s][t]
           \/ t = c.task /\ inbox'[s][t] = Append(inbox[s][t], Order(c, s))
  BY MulticastEffect DEF TypeInv
<1>2. \A s \in Strands : /\ Order(c, s).id = sent + 1 /\ Order(c, s).task = c.task
                         /\ Order(c, s).origin = c.origin /\ Order(c, s).speed = c.speed
  BY DEF Order
<1>3. ASSUME NEW s \in Strands, NEW order \in Orders
      PROVE  /\ Known(s, order) => order.id # sent + 1
             /\ InHands(s, order)' <=> InHands(s, order)
             /\ Waits(s, order) => Waits(s, order)'
             /\ Waits(s, order)' => Waits(s, order) \/ order = Order(c, s)
  <2>1. order.task \in Tasks /\ inbox[s][order.task] \in Seq(Orders)
    BY OrderTypes DEF Orders
  <2>2. Known(s, order) => order.id # sent + 1
    <3>1. Known(s, order) => order.id <= sent
      BY KnownSent DEF SeriesInv
    <3>2. order.id \in Int
      BY DEF Orders
    <3> QED
      BY <1>1, <3>1, <3>2
  <2>3. InHands(s, order)' <=> InHands(s, order)
    BY <1>1 DEF InHands
  <2>4. CASE inbox'[s][order.task] = inbox[s][order.task]
    BY <2>2, <2>3, <2>4 DEF Waits
  <2>5. CASE inbox'[s][order.task] = Append(inbox[s][order.task], Order(c, s))
    <3> DEFINE q == inbox[s][order.task]
               new == Order(c, s)
    <3>1. new \in Orders /\ q \in Seq(Orders)
      BY <1>1, <2>1
    <3>2. inbox'[s][order.task] = Append(q, new)
      BY <2>5
    <3> HIDE DEF q, new
    <3>3. /\ Len(Append(q, new)) = Len(q) + 1 /\ Len(q) \in Nat
          /\ \A i \in 1 .. Len(Append(q, new)) :
               \/ i \in 1 .. Len(q) /\ Append(q, new)[i] = q[i]
               \/ i = Len(q) + 1 /\ Append(q, new)[i] = new
      BY <3>1, AppendEntries
    <3>4. \A i \in 1 .. Len(q) : i \in 1 .. Len(Append(q, new)) /\ Append(q, new)[i] = q[i]
      BY <3>3
    <3>5. Waits(s, order) => Waits(s, order)'
      BY <3>2, <3>4 DEF Waits, q
    <3>6. Waits(s, order)' => Waits(s, order) \/ order = new
      BY <3>2, <3>3 DEF Waits, q
    <3> QED
      BY <2>2, <2>3, <3>5, <3>6 DEF new
  <2> QED
    BY <1>1, <2>1, <2>4, <2>5
<1>4. ASSUME NEW s \in Strands, NEW order \in Orders, Known(s, order)'
      PROVE  \/ Known(s, order) /\ Left(s, order)' = Left(s, order) /\ order.id # sent + 1
             \/ order = Order(c, s) /\ Left(s, order)' = Expected(s, order)
  <2>1. CASE Known(s, order)
    <3>1. /\ order.id # sent + 1 /\ (InHands(s, order)' <=> InHands(s, order))
          /\ Waits(s, order)' <=> Waits(s, order)
      BY <1>2, <1>3, <2>1
    <3>2. Left(s, order)' = Left(s, order)
      BY <1>1, <3>1 DEF Left, Expected, Ticks, DelayMs, Distance, Squared
    <3> QED
      BY <2>1, <3>1, <3>2
  <2>2. CASE ~Known(s, order)
    <3>1. Waits(s, order)' /\ order = Order(c, s) /\ ~InHands(s, order)'
      BY <1>1, <1>3, <1>4, <2>2 DEF Known
    <3>2. Left(s, order)' = Expected(s, order)
      BY <3>1 DEF Left, Expected, Ticks, DelayMs, Distance, Squared
    <3> QED
      BY <3>1, <3>2
  <2> QED
    BY <2>1, <2>2
<1>5. SameMessage'
  <2> SUFFICES ASSUME NEW s \in Strands, NEW u \in Strands, NEW a \in Orders, NEW b \in Orders,
                      Known(s, a)', Known(u, b)', a.id = b.id
               PROVE  a.task = b.task /\ a.origin = b.origin /\ a.speed = b.speed
    BY DEF SameMessage
  <2>1. CASE Known(s, a) /\ Known(u, b)
    BY <2>1 DEF SameMessage
  <2>2. CASE a = Order(c, s) /\ b = Order(c, u)
    BY <1>2, <2>2
  <2> QED
    BY <1>2, <1>4, <2>1, <2>2
<1>6. NearLeft'
  <2> SUFFICES ASSUME NEW near \in Strands, NEW far \in Strands, NEW a \in Orders, NEW b \in Orders,
                      Known(near, a)', Known(far, b)', a.id = b.id, a.prompt, b.prompt,
                      Squared(near, b.origin) <= Squared(far, b.origin), Counted(far, b)
               PROVE  Left(near, a)' <= Left(far, b)'
    BY DEF NearLeft, Counted, DelayMs, Distance, Squared
  <2>1. CASE /\ Known(near, a) /\ Left(near, a)' = Left(near, a)
             /\ Known(far, b) /\ Left(far, b)' = Left(far, b)
    BY <2>1 DEF NearLeft
  <2>2. CASE /\ a = Order(c, near) /\ Left(near, a)' = Expected(near, a)
             /\ b = Order(c, far) /\ Left(far, b)' = Expected(far, b)
    <3>1. a.task = b.task /\ a.origin = b.origin /\ a.speed = b.speed
      BY <1>2, <2>2
    <3>2. Expected(near, a) <= Expected(far, b)
      BY <3>1, NearExpected
    <3> QED
      BY <2>2, <3>2
  <2> QED
    BY <1>2, <1>4, <2>1, <2>2
<1> QED
  BY <1>5, <1>6

(* A prompt order stays the first of a task at rest until the task takes it. *)
LEMMA NextPromptFirst ==
  ASSUME TypeInv, PromptFirst, [Next]_vars
  PROVE  PromptFirst'
<1> SUFFICES ASSUME NEW s \in Strands, NEW t \in Tasks, NEW i \in 1 .. Len(inbox'[s][t]),
                    inbox'[s][t][i].prompt
             PROVE  i = 1 /\ task'[s][t].at = "receive"
  BY DEF PromptFirst
<1>1. CASE inbox'[s][t] = inbox[s][t] /\ task'[s][t].at = task[s][t].at
  BY <1>1 DEF PromptFirst
<1>2. ASSUME inbox'[s][t] = inbox[s][t], task[s][t].at # "receive" PROVE FALSE
  BY <1>2 DEF PromptFirst
<1>3. ASSUME NEW u \in Strands, NEW w \in Tasks, Task(u, w)
      PROVE  i = 1 /\ task'[s][t].at = "receive"
  <2>1. CASE Receive(u, w)
    <3>1. CASE u = s /\ w = t
      <4>1. /\ inbox[s][t] # <<>> /\ inbox'[s][t] = Tail(inbox[s][t])
            /\ inbox[s][t] \in Seq(Orders)
        BY <2>1, <3>1, ReceiveEffect, OrderTypes
      <4>2. i + 1 \in 1 .. Len(inbox[s][t]) /\ inbox'[s][t][i] = inbox[s][t][i + 1]
        BY <4>1, TailEntries
      <4>3. i + 1 = 1
        BY <4>2 DEF PromptFirst
      <4> QED
        BY <4>3
    <3>2. CASE u # s \/ w # t
      BY <1>1, <2>1, <3>2, ReceiveEffect DEF Only
    <3> QED
      BY <3>1, <3>2
  <2>2. CASE Wake(u, w)
    <3>1. /\ task[u][w].at # "receive" /\ inbox' = inbox /\ Only(u, w)
      BY <2>2, WakeEffect
    <3> QED
      BY <1>1, <1>2, <3>1 DEF Only
  <2>3. CASE task[u][w].at = "post" /\ Posted(u, w)
    <3>1. /\ task[u][w].at # "receive" /\ inbox' = inbox /\ Only(u, w)
      BY <2>3, PostedEffect
    <3> QED
      BY <1>1, <1>2, <3>1 DEF Only
  <2> QED
    BY <1>3, <2>1, <2>2, <2>3 DEF Task, Post, GiveUp
<1>4. CASE Tick
  BY <1>1, <1>4, TickEffect
<1>5. ASSUME NEW u \in Strands, DirectMove(u) \/ Take(u)
      PROVE  i = 1 /\ task'[s][t].at = "receive"
  BY <1>1, <1>5 DEF DirectMove, Take
<1>6. ASSUME NEW u \in Strands, NEW pair \in LimitChanges, SetLimits(u, pair)
      PROVE  i = 1 /\ task'[s][t].at = "receive"
  BY <1>1, <1>6 DEF SetLimits
<1>7. ASSUME NEW c \in Commands, NEW reached \in Reached, Multicast(c, reached)
      PROVE  i = 1 /\ task'[s][t].at = "receive"
  <2>1. task' = task /\ Order(c, s) \in Orders
    BY <1>7, MulticastEffect
  <2>2. CASE inbox'[s][t] = inbox[s][t]
    BY <1>1, <2>1, <2>2
  <2>3. CASE t = c.task /\ inbox'[s][t] = Append(inbox[s][t], Order(c, s))
    <3>1. inbox[s][t] \in Seq(Orders)
      BY OrderTypes
    <3>2. /\ Len(inbox[s][t]) \in Nat
          /\ \/ i \in 1 .. Len(inbox[s][t]) /\ inbox'[s][t][i] = inbox[s][t][i]
             \/ i = Len(inbox[s][t]) + 1 /\ inbox'[s][t][i] = Order(c, s)
      BY <2>1, <2>3, <3>1, AppendEntries
    <3>3. CASE i \in 1 .. Len(inbox[s][t]) /\ inbox'[s][t][i] = inbox[s][t][i]
      BY <2>1, <3>3 DEF PromptFirst
    <3>4. CASE i = Len(inbox[s][t]) + 1 /\ inbox'[s][t][i] = Order(c, s)
      <4>1. task[s][t] = Idle /\ inbox[s][t] = <<>>
        <5>1. Order(c, s).prompt
          BY <3>4
        <5>2. Order(c, s).prompt <=> task[s][c.task] = Idle /\ inbox[s][c.task] = <<>>
          BY DEF Order
        <5> QED
          BY <2>3, <5>1, <5>2, Zenon
      <4> QED
        BY <2>1, <3>4, <4>1 DEF Idle
    <3> QED
      BY <3>2, <3>3, <3>4
  <2> QED
    BY <1>7, <2>2, <2>3, MulticastEffect
<1>8. CASE UNCHANGED vars
  BY <1>1, <1>8 DEF vars
<1> QED
  BY <1>3, <1>4, <1>5, <1>6, <1>7, <1>8 DEF Next, Working

(* Every step keeps the strands in the order of their places. *)
LEMMA NextNear ==
  ASSUME TypeInv, SeriesInv, SameMessage, PromptFirst, NearLeft, [Next]_vars
  PROVE  SameMessage' /\ NearLeft'
<1>1. ASSUME UNCHANGED <<inbox, task, posted>> PROVE SameMessage' /\ NearLeft'
  <2>1. \A s \in Strands : Kept(s)
    BY <1>1, AloneKept
  <2> QED
    BY <2>1, KeptNear
<1>2. ASSUME NEW u \in Strands, NEW t \in Tasks, Task(u, t) PROVE SameMessage' /\ NearLeft'
  <2>1. ASSUME NEW s \in Strands PROVE Kept(s)
    <3>0. Strand(s)
      BY DEF SeriesInv
    <3>1. CASE u = s
      BY <1>2, <3>0, <3>1, ReceiveKept, WakeKept, PostedKept DEF Task, Post, GiveUp
    <3>2. CASE u # s
      <4>1. /\ \A w \in Tasks : task'[s][w] = task[s][w] /\ inbox'[s][w] = inbox[s][w]
            /\ \A id \in 1 .. MaxCommands : posted'[s][id] = posted[s][id]
        BY <1>2, <3>2, OthersAlone
      <4> QED
        BY <4>1, AloneKept
    <3> QED
      BY <3>1, <3>2
  <2> QED
    BY <2>1, KeptNear
<1>3. CASE Tick
  BY <1>3, TickNear
<1>4. ASSUME NEW u \in Strands, DirectMove(u) \/ Take(u) PROVE SameMessage' /\ NearLeft'
  BY <1>1, <1>4 DEF DirectMove, Take
<1>5. ASSUME NEW u \in Strands, NEW pair \in LimitChanges, SetLimits(u, pair)
      PROVE  SameMessage' /\ NearLeft'
  BY <1>1, <1>5 DEF SetLimits
<1>6. ASSUME NEW c \in Commands, NEW reached \in Reached, Multicast(c, reached)
      PROVE  SameMessage' /\ NearLeft'
  BY <1>6, MulticastNear
<1>7. CASE UNCHANGED vars
  BY <1>1, <1>7 DEF vars
<1> QED
  BY <1>2, <1>3, <1>4, <1>5, <1>6, <1>7 DEF Next, Working

(* For all places, origins, speeds and delays: while a strand still sleeps off its delay,  *)
(* none that hangs further from the origin has begun to move with the wave, if the message *)
(* found both at rest and the delays fit the ticks (net.c 850-872).                        *)
THEOREM WaveRunsOutward == Spec => []NearFirst
<1>1. ASSUME TypeInv, SeriesInv, NearLeft PROVE NearFirst
  <2> SUFFICES ASSUME NEW near \in Strands, NEW far \in Strands, NEW id \in 1 .. MaxCommands,
                      posted[far][id].moves # <<>>,
                      LET order == posted[far][id].order IN
                        /\ Squared(near, order.origin) <= Squared(far, order.origin)
                        /\ Counted(far, order)
                        /\ order.prompt /\ Sleeps(near, order) /\ task[near][order.task].order.prompt
               PROVE  FALSE
    BY DEF NearFirst, Begun
  <2> DEFINE b == posted[far][id].order
             a == task[near][b.task].order
  <2>1. b \in Orders /\ b.id = id /\ b.task \in Tasks /\ OnPlan(far, id)
    BY <1>1 DEF SeriesInv, Strand, OnPlan, Orders
  <2>2. task[near][b.task].at = "delay" /\ task[near][b.task].timer > 0 /\ a.id = b.id
    BY DEF Sleeps
  <2>3. a \in Orders /\ a.task = b.task
    <3>1. Placed(near, b.task)
      BY <1>1, <2>1 DEF SeriesInv, Strand
    <3> QED
      BY <2>1, <2>2, <3>1, <1>1, OrderTypes DEF Placed
  <2>4. InHands(near, a) /\ Known(near, a) /\ Known(far, b)
    BY <2>1, <2>2, <2>3 DEF InHands, Known
  <2>5. Left(near, a) = task[near][b.task].timer
    BY <2>2, <2>3, <2>4 DEF Left
  <2>6. Left(far, b) = 0
    <3>1. ~Waits(far, b)
      <4>1. Unbegun(far, b.task)
        BY <1>1, <2>1 DEF SeriesInv, Strand
      <4> QED
        BY <2>1, <4>1 DEF Unbegun, Waits
    <3>2. InHands(far, b) => task[far][b.task].at # "delay"
      <4>1. InHand(far, b.task) /\ posted[far][id].moves \in Seq(Int)
        BY <1>1, <2>1 DEF SeriesInv, Strand, TypeInv, Series
      <4>2. Len(posted[far][id].moves) # 0
        BY <4>1
      <4> QED
        BY <2>1, <4>1, <4>2 DEF InHand, InHands
    <3> HIDE DEF b
    <3> QED
      BY <3>1, <3>2 DEF Left
  <2>7. Left(near, a) <= Left(far, b)
    BY <1>1, <2>1, <2>2, <2>3, <2>4 DEF NearLeft
  <2>8. task[near][b.task].timer \in Int
    BY <1>1, <2>1, LongestWaitFact DEF TypeInv, States
  <2> QED
    BY <2>2, <2>5, <2>6, <2>7, <2>8
<1>2. Init => TypeInv /\ SeriesInv /\ SameMessage /\ PromptFirst /\ NearLeft
  <2> SUFFICES ASSUME Init PROVE SameMessage /\ PromptFirst /\ NearLeft
    BY InitTypeInv, InitSeriesInv
  <2>1. /\ \A s \in Strands, t \in Tasks : inbox[s][t] = <<>> /\ task[s][t] = Idle
        /\ \A s \in Strands, id \in 1 .. MaxCommands : posted[s][id].moves = <<>>
    BY DEF Init
  <2>2. Idle.at = "receive"
    BY DEF Idle
  <2>3. \A s \in Strands : \A order \in Orders : ~Known(s, order)
    <3>1. \A order \in Orders : order.task \in Tasks
      BY DEF Orders
    <3> QED
      BY <2>1, <2>2, <3>1 DEF Known, Waits, InHands
  <2> QED
    BY <2>1, <2>3 DEF SameMessage, PromptFirst, NearLeft
<1>3. TypeInv /\ SeriesInv /\ SameMessage /\ PromptFirst /\ NearLeft /\ [Next]_vars
        => TypeInv' /\ SeriesInv' /\ SameMessage' /\ PromptFirst' /\ NearLeft'
  BY NextTypeInv, NextSeriesInv, NextPromptFirst, NextNear
<1> QED
  BY <1>1, <1>2, <1>3, PTL DEF Spec
=============================================================================
