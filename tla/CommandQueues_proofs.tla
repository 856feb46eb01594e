-------------------------- MODULE CommandQueues_proofs --------------------------
(***************************************************************************)
(* Proofs about CommandQueues, for all lengths of the queues and of the    *)
(* set, and any number of messages and of socket failures.                 *)
(***************************************************************************)
EXTENDS CommandQueues, SequenceTheorems, FiniteSetTheorems, TLAPS

USE LengthAssumption, BoundAssumption DEF LengthAssumption, BoundAssumption

(***************************************************************************)
(* Sequences                                                               *)
(***************************************************************************)

(* The entries of a tail. *)
LEMMA TailEntries ==
  ASSUME NEW S, NEW q \in Seq(S), q # <<>>
  PROVE  /\ Tail(q) \in Seq(S) /\ Len(Tail(q)) = Len(q) - 1 /\ Len(q) \in Nat \ {0}
         /\ Head(q) = q[1] /\ q[1] \in S /\ 1 \in 1 .. Len(q)
         /\ \A i \in 1 .. Len(Tail(q)) : i + 1 \in 1 .. Len(q) /\ Tail(q)[i] = q[i + 1]
  OBVIOUS

(* The entries of a sequence with one more. *)
LEMMA AppendEntries ==
  ASSUME NEW S, NEW q \in Seq(S), NEW e \in S
  PROVE  /\ Append(q, e) \in Seq(S) /\ Len(Append(q, e)) = Len(q) + 1 /\ Len(q) \in Nat
         /\ \A i \in 1 .. Len(q) : i \in 1 .. Len(Append(q, e)) /\ Append(q, e)[i] = q[i]
         /\ Len(q) + 1 \in 1 .. Len(Append(q, e)) /\ Append(q, e)[Len(q) + 1] = e
         /\ \A i \in 1 .. Len(Append(q, e)) :
              \/ i \in 1 .. Len(q) /\ Append(q, e)[i] = q[i]
              \/ i = Len(q) + 1 /\ Append(q, e)[i] = e
  OBVIOUS

(* A sequence of a larger set. *)
LEMMA SeqWider ==
  ASSUME NEW S, NEW T, S \subseteq T
  PROVE  Seq(S) \subseteq Seq(T)
  BY SeqMonotonic

(* What app_main goes through. *)
LEMMA AddOrderIs ==
  /\ DOMAIN AddOrder = {1, 2, 3} /\ Len(AddOrder) = 3
  /\ AddOrder[1] = "multicast" /\ AddOrder[2] = "broadcast" /\ AddOrder[3] = "tcp"
  BY DEF AddOrder

(* app_main adds every queue, in some order. *)
LEMMA LocationsAre == Locations = Sources \union {"select", "receive", "pwm", "aborted"}
<1>1. ToSet(AddOrder) = Sources
  BY AddOrderIs DEF ToSet, Sources
<1> QED
  BY <1>1 DEF Locations

(***************************************************************************)
(* Types                                                                   *)
(***************************************************************************)

(* What is more than TypeOK: a task that listens has a queue of its own, and app_main *)
(* reads only queues of the set.                                                      *)
TypeInv ==
  /\ content \in Seq(Seq(1 .. sent))
  /\ queue \in [Sources -> 0 .. Len(content)]
  /\ \A s \in Sources : queue[s] # 0 => Len(content[queue[s]]) <= Capacity[s]
  /\ \A s, t \in Sources : queue[s] = queue[t] /\ queue[s] # 0 => s = t
  /\ inSet \subseteq Queues
  /\ ready \in Seq(inSet) /\ Len(ready) <= SetLength
  /\ task \in [Sources -> {"create", "listen", "gone"}]
  /\ \A s \in Sources : task[s] = "listen" => queue[s] # 0
  /\ main \in Locations
  /\ main = "receive" => member \in inSet
  /\ member \in 0 .. Len(content)
  /\ sent \in Nat /\ failures \in Nat
  /\ dropped \subseteq 1 .. sent
  /\ handled \in Seq(1 .. sent)

(* The queue that a task creates is new and empty. *)
NewQueue(s) ==
  /\ content' = Append(content, <<>>)
  /\ queue' = [queue EXCEPT ![s] = Len(content')]

(* The new queue changes no other. *)
LEMMA NewQueueEffect ==
  ASSUME TypeInv, NEW s \in Sources, NewQueue(s)
  PROVE  /\ content' \in Seq(Seq(1 .. sent)) /\ Len(content') = Len(content) + 1
         /\ Len(content) \in Nat /\ Queues \subseteq Queues'
         /\ \A q \in Queues : content'[q] = content[q]
         /\ Queues' = Queues \union {Len(content')} /\ Len(content') \notin Queues
         /\ content'[Len(content')] = <<>>
         /\ queue' \in [Sources -> 0 .. Len(content')]
         /\ queue'[s] = Len(content') /\ \A t \in Sources : t # s => queue'[t] = queue[t]
<1>1. content \in Seq(Seq(1 .. sent)) /\ <<>> \in Seq(1 .. sent)
  BY DEF TypeInv
<1>2. /\ content' \in Seq(Seq(1 .. sent)) /\ Len(content') = Len(content) + 1
      /\ Len(content) \in Nat
      /\ \A q \in Queues : content'[q] = content[q]
      /\ content'[Len(content')] = <<>>
  BY <1>1, AppendEntries DEF NewQueue, Queues
<1>3. queue \in [Sources -> 0 .. Len(content)] /\ queue' = [queue EXCEPT ![s] = Len(content')]
  BY DEF TypeInv, NewQueue
<1>4. queue' \in [Sources -> 0 .. Len(content')]
  BY <1>2, <1>3
<1> QED
  BY <1>2, <1>3, <1>4 DEF Queues

(* A message is put in the current queue of a task. *)
LEMMA PutEffect ==
  ASSUME TypeInv, NEW s \in Sources, Receives(s),
         content' = [content EXCEPT ![queue[s]] = Append(@, sent')]
  PROVE  /\ sent' = sent + 1 /\ sent \in Nat /\ queue[s] \in Queues /\ queue' = queue
         /\ content' \in Seq(Seq(1 .. sent')) /\ Queues' = Queues
         /\ content[queue[s]] \in Seq(1 .. sent')
         /\ content'[queue[s]] = Append(content[queue[s]], sent')
         /\ \A q \in Queues : q # queue[s] => content'[q] = content[q]
<1>1. /\ sent' = sent + 1 /\ sent \in Nat /\ queue' = queue /\ queue[s] \in 1 .. Len(content)
      /\ content \in Seq(Seq(1 .. sent))
  BY DEF Receives, NetTask, TypeInv
<1>2. content \in Seq(Seq(1 .. sent'))
  <2>1. Seq(1 .. sent) \subseteq Seq(1 .. sent')
    BY <1>1, SeqWider
  <2> QED
    BY <1>1, <2>1, SeqWider
<1>3. content[queue[s]] \in Seq(1 .. sent') /\ sent' \in 1 .. sent'
  BY <1>1, <1>2
<1> DEFINE new == Append(content[queue[s]], sent')
<1>4. new \in Seq(1 .. sent')
  BY <1>3, AppendEntries
<1>5. content' = [content EXCEPT ![queue[s]] = new]
  BY <1>1
<1> HIDE DEF new
<1>6. /\ content' \in Seq(Seq(1 .. sent')) /\ Len(content') = Len(content)
      /\ content'[queue[s]] = new
      /\ \A q \in 1 .. Len(content) : q # queue[s] => content'[q] = content[q]
  <2> DEFINE T == Seq(1 .. sent')
             place == queue[s]
  <2>1. content \in Seq(T) /\ place \in 1 .. Len(content) /\ new \in T
        /\ content' = [content EXCEPT ![place] = new]
    BY <1>1, <1>2, <1>4, <1>5
  <2> HIDE DEF T, place
  <2>2. /\ content' \in Seq(T) /\ Len(content') = Len(content)
        /\ content'[place] = new
        /\ \A q \in 1 .. Len(content) : q # place => content'[q] = content[q]
    <3>1. /\ [content EXCEPT ![place] = new] \in Seq(T)
          /\ Len([content EXCEPT ![place] = new]) = Len(content)
          /\ \A q \in 1 .. Len(content) :
               [content EXCEPT ![place] = new][q] = IF q = place THEN new ELSE content[q]
      BY <2>1, ExceptSeq
    <3> QED
      BY <2>1, <3>1
  <2> QED
    BY <2>2 DEF T, place
<1> QED
  BY <1>1, <1>3, <1>6 DEF Queues, new

(* app_main takes the first message of the queue it was told of. *)
LEMMA TakeEffect ==
  ASSUME TypeInv, NEW s \in Sources, Receive(s)
  PROVE  /\ member = queue[s] /\ member \in inSet /\ member \in Queues
         /\ content[member] \in Seq(1 .. sent) /\ content[member] # <<>>
         /\ content' \in Seq(Seq(1 .. sent)) /\ Queues' = Queues
         /\ content'[member] = Tail(content[member])
         /\ \A q \in Queues : q # member => content'[q] = content[q]
         /\ content[member][1] \in 1 .. sent
         /\ handled' = Append(handled, content[member][1]) /\ handled' \in Seq(1 .. sent)
<1>1. /\ main = "receive" /\ member = queue[s] /\ content[member] # <<>>
      /\ handled' = Append(handled, Head(content[member]))
      /\ content' = [content EXCEPT ![member] = Tail(@)]
      /\ UNCHANGED <<queue, inSet, ready, task, member, sent, dropped, failures>>
  BY DEF Receive, Taken
<1>2. /\ member \in inSet /\ member \in 1 .. Len(content)
      /\ content \in Seq(Seq(1 .. sent)) /\ handled \in Seq(1 .. sent)
  BY <1>1 DEF TypeInv, Queues
<1>3. content[member] \in Seq(1 .. sent)
  BY <1>2
<1> DEFINE rest == Tail(content[member])
<1>4. /\ rest \in Seq(1 .. sent) /\ Head(content[member]) = content[member][1]
      /\ content[member][1] \in 1 .. sent
  BY <1>1, <1>3, TailEntries
<1>5. content' = [content EXCEPT ![member] = rest]
  BY <1>1, <1>2
<1> HIDE DEF rest
<1>6. /\ content' \in Seq(Seq(1 .. sent)) /\ Len(content') = Len(content)
      /\ content'[member] = rest
      /\ \A q \in 1 .. Len(content) : q # member => content'[q] = content[q]
  BY <1>2, <1>4, <1>5, ExceptSeq
<1>7. handled' = Append(handled, content[member][1]) /\ handled' \in Seq(1 .. sent)
  BY <1>1, <1>2, <1>4, AppendEntries
<1> QED
  BY <1>1, <1>2, <1>3, <1>4, <1>6, <1>7 DEF Queues, rest

(* app_main waits on the set until a handle is there. *)
LEMMA SelectEffect ==
  ASSUME TypeInv, Select
  PROVE  /\ main = "select" /\ main' = "receive" /\ ready # <<>>
         /\ member' = ready[1] /\ member' \in inSet /\ ready' = Tail(ready)
         /\ ready' \in Seq(inSet) /\ Len(ready') = Len(ready) - 1 /\ Len(ready) \in Nat \ {0}
         /\ \A i \in 1 .. Len(ready') : i + 1 \in 1 .. Len(ready) /\ ready'[i] = ready[i + 1]
         /\ UNCHANGED <<queue, content, inSet, task, sent, dropped, handled, failures>>
<1>1. /\ main = "select" /\ main' = "receive" /\ ready # <<>>
      /\ member' = Head(ready) /\ ready' = Tail(ready)
      /\ UNCHANGED <<queue, content, inSet, task, sent, dropped, handled, failures>>
  BY DEF Select, Selected
<1>2. ready \in Seq(inSet)
  BY DEF TypeInv
<1> QED
  BY <1>1, <1>2, TailEntries

(* At the start there is no queue. *)
LEMMA InitTypeInv == Init => TypeInv
<1> SUFFICES ASSUME Init PROVE TypeInv
  OBVIOUS
<1>1. /\ queue = [s \in Sources |-> 0] /\ content = <<>> /\ inSet = {} /\ ready = <<>>
      /\ task = [s \in Sources |-> "create"] /\ main = "multicast" /\ member = 0
      /\ sent = 0 /\ dropped = {} /\ handled = <<>> /\ failures = 0
  BY DEF Init
<1>2. main \in Locations
  BY <1>1, LocationsAre DEF Sources
<1>3. content \in Seq(Seq(1 .. sent)) /\ Len(content) = 0 /\ ready \in Seq(inSet)
      /\ Len(ready) = 0 /\ handled \in Seq(1 .. sent)
  BY <1>1
<1> QED
  BY <1>1, <1>2, <1>3 DEF TypeInv

(* Every step keeps the types. *)
LEMMA NextTypeInv ==
  ASSUME TypeInv, [Next]_vars
  PROVE  TypeInv'
<1>0. /\ content \in Seq(Seq(1 .. sent))
      /\ queue \in [Sources -> 0 .. Len(content)]
      /\ \A s \in Sources : queue[s] # 0 => Len(content[queue[s]]) <= Capacity[s]
      /\ \A s, t \in Sources : queue[s] = queue[t] /\ queue[s] # 0 => s = t
      /\ inSet \subseteq Queues
      /\ ready \in Seq(inSet) /\ Len(ready) <= SetLength
      /\ task \in [Sources -> {"create", "listen", "gone"}]
      /\ \A s \in Sources : task[s] = "listen" => queue[s] # 0
      /\ main \in Locations
      /\ main = "receive" => member \in inSet
      /\ member \in 0 .. Len(content)
      /\ sent \in Nat /\ failures \in Nat
      /\ dropped \subseteq 1 .. sent
      /\ handled \in Seq(1 .. sent)
      /\ Len(content) \in Nat /\ Len(ready) \in Nat
  BY DEF TypeInv
<1>a. \A s \in Sources : Capacity[s] \in Nat \ {0}
  OBVIOUS
<1>1. ASSUME NEW s \in Sources, NewQueue(s), UNCHANGED <<inSet, ready, member, sent, dropped, handled>>,
             task' \in [Sources -> {"create", "listen", "gone"}],
             \A t \in Sources : t # s => task'[t] = task[t],
             main' = main \/ main' = "aborted", failures' \in Nat
      PROVE  TypeInv'
  <2>1. /\ content' \in Seq(Seq(1 .. sent)) /\ Len(content') = Len(content) + 1
        /\ Queues \subseteq Queues'
        /\ \A q \in Queues : content'[q] = content[q]
        /\ Len(content') \notin Queues
        /\ content'[Len(content')] = <<>>
        /\ queue' \in [Sources -> 0 .. Len(content')]
        /\ queue'[s] = Len(content') /\ \A t \in Sources : t # s => queue'[t] = queue[t]
    BY <1>1, NewQueueEffect
  <2>2. \A t \in Sources : queue[t] # 0 => queue[t] \in Queues
    BY <1>0 DEF Queues
  <2>3. ASSUME NEW t \in Sources, queue'[t] # 0 PROVE Len(content'[queue'[t]]) <= Capacity[t]
    <3>1. CASE t = s
      BY <1>a, <2>1, <3>1
    <3>2. CASE t # s
      BY <1>0, <2>1, <2>2, <2>3, <3>2
    <3> QED
      BY <3>1, <3>2
  <2>4. ASSUME NEW t \in Sources, NEW u \in Sources, queue'[t] = queue'[u], queue'[t] # 0 PROVE t = u
    <3>1. \A v \in Sources : v # s /\ queue[v] # 0 => queue'[v] # Len(content')
      BY <2>1, <2>2
    <3>2. t = s <=> u = s
      BY <2>1, <2>4, <3>1
    <3>3. t # s /\ u # s => queue[t] = queue[u] /\ queue[t] # 0
      BY <2>1, <2>4
    <3> QED
      BY <1>0, <3>2, <3>3
  <2>5. ASSUME NEW t \in Sources, task'[t] = "listen" PROVE queue'[t] # 0
    <3>1. CASE t = s
      <4>1. queue'[t] = Len(content) + 1
        BY <2>1, <3>1
      <4> QED
        BY <1>0, <4>1
    <3>2. CASE t # s
      BY <1>0, <1>1, <2>1, <2>5, <3>2
    <3> QED
      BY <3>1, <3>2
  <2>6. member' \in 0 .. Len(content') /\ inSet' \subseteq Queues'
    BY <1>0, <1>1, <2>1
  <2>7. main' \in Locations /\ (main' = "receive" => member' \in inSet')
    BY <1>0, <1>1, LocationsAre
  <2> QED
    BY <1>0, <1>1, <2>1, <2>3, <2>4, <2>5, <2>6, <2>7 DEF TypeInv, Locations
<1>2. ASSUME NEW s \in Sources, CreateQueue(s) PROVE TypeInv'
  <2>1. /\ NewQueue(s) /\ UNCHANGED <<inSet, ready, member, sent, dropped, handled>>
        /\ task' = [task EXCEPT ![s] = "listen"] /\ main' = main /\ failures' = failures
    BY <1>2 DEF CreateQueue, NewQueue
  <2> QED
    BY <1>0, <1>1, <2>1
<1>3. CASE MulticastSocketFails
  <2>1. /\ NewQueue("multicast") /\ UNCHANGED <<inSet, ready, member, sent, dropped, handled>>
        /\ task' = task /\ main' = main /\ failures' = failures + 1 /\ "multicast" \in Sources
    BY <1>3 DEF MulticastSocketFails, NewQueue, Sources
  <2> QED
    BY <1>0, <1>1, <2>1
<1>4. CASE BroadcastSocketFails
  <2>1. /\ NewQueue("broadcast") /\ UNCHANGED <<inSet, ready, member, sent, dropped, handled>>
        /\ task' = [task EXCEPT !["broadcast"] = "gone"] /\ main' = "aborted"
        /\ failures' = failures + 1 /\ "broadcast" \in Sources
    BY <1>4 DEF BroadcastSocketFails, NewQueue, Sources
  <2> QED
    BY <1>0, <1>1, <2>1
<1>5. ASSUME NEW s \in Sources, SocketError(s) PROVE TypeInv'
  <2>1. /\ task' = [task EXCEPT ![s] = "create"] /\ failures' = failures + 1
        /\ UNCHANGED <<queue, content, inSet, ready, main, member, sent, dropped, handled>>
    BY <1>5 DEF SocketError
  <2>2. task' \in [Sources -> {"create", "listen", "gone"}]
        /\ \A t \in Sources : task'[t] = "listen" => task[t] = "listen"
    BY <1>0, <2>1
  <2> QED
    BY <1>0, <2>1, <2>2 DEF TypeInv, Queues, Locations
<1>6. ASSUME NEW s \in Sources, Receives(s),
             dropped' \subseteq 1 .. sent', main' = main \/ main' = "aborted",
             ready' \in Seq(inSet), Len(ready') <= SetLength,
             \/ content' = content
             \/ ~Full(s) /\ content' = [content EXCEPT ![queue[s]] = Append(@, sent')]
      PROVE  TypeInv'
  <2>1. /\ sent' = sent + 1 /\ UNCHANGED <<queue, inSet, task, member, handled, failures>>
    BY <1>6 DEF Receives
  <2>2. 1 .. sent \subseteq 1 .. sent' /\ sent' \in Nat
    BY <1>0, <2>1
  <2>3. Seq(1 .. sent) \subseteq Seq(1 .. sent')
    BY <2>2, SeqWider
  <2>4. Seq(Seq(1 .. sent)) \subseteq Seq(Seq(1 .. sent'))
    BY <2>3, SeqWider
  <2>5. /\ content' \in Seq(Seq(1 .. sent')) /\ Queues' = Queues /\ Len(content') = Len(content)
        /\ \A t \in Sources : queue[t] # 0 => Len(content'[queue[t]]) <= Capacity[t]
    <3>1. CASE content' = content
      BY <1>0, <2>4, <3>1 DEF Queues
    <3>2. CASE ~Full(s) /\ content' = [content EXCEPT ![queue[s]] = Append(@, sent')]
      <4>1. /\ queue[s] \in Queues /\ content[queue[s]] \in Seq(1 .. sent')
            /\ content' \in Seq(Seq(1 .. sent')) /\ Queues' = Queues
            /\ content'[queue[s]] = Append(content[queue[s]], sent')
            /\ \A q \in Queues : q # queue[s] => content'[q] = content[q]
        BY <1>6, <3>2, PutEffect
      <4>2. sent' \in 1 .. sent'
        BY <1>0, <2>1
      <4>3. Len(content'[queue[s]]) = Len(content[queue[s]]) + 1 /\ Len(content[queue[s]]) \in Nat
        BY <4>1, <4>2, AppendEntries
      <4>4. Len(content'[queue[s]]) <= Capacity[s]
        BY <1>a, <3>2, <4>3 DEF Full
      <4>5. Len(content') = Len(content)
        BY <1>6, <3>2
      <4>6. ASSUME NEW t \in Sources, queue[t] # 0 PROVE Len(content'[queue[t]]) <= Capacity[t]
        <5>1. CASE t = s
          BY <4>4, <5>1
        <5>2. CASE t # s
          <6>1. queue[t] # queue[s] /\ queue[t] \in Queues
            BY <1>0, <4>6, <5>2 DEF Queues
          <6> QED
            BY <1>0, <4>1, <4>6, <6>1
        <5> QED
          BY <5>1, <5>2
      <4> QED
        BY <4>1, <4>5, <4>6
    <3> QED
      BY <1>6, <3>1, <3>2
  <2>6. main' \in Locations /\ (main' = "receive" => member' \in inSet')
    BY <1>0, <1>6, <2>1, LocationsAre
  <2> QED
    BY <1>0, <1>6, <2>1, <2>2, <2>3, <2>5, <2>6 DEF TypeInv, Locations
<1>7. ASSUME NEW s \in Sources, Post(s) PROVE TypeInv'
  <2>1. /\ Receives(s) /\ ~Full(s) /\ main' = main /\ dropped' = dropped
        /\ content' = [content EXCEPT ![queue[s]] = Append(@, sent')]
        /\ queue[s] \in inSet => Len(ready) < SetLength
        /\ ready' = IF queue[s] \in inSet THEN Append(ready, queue[s]) ELSE ready
    BY <1>7 DEF Post, Notify
  <2>2. ready' \in Seq(inSet) /\ Len(ready') <= SetLength
    <3>1. CASE queue[s] \in inSet
      <4>1. Append(ready, queue[s]) \in Seq(inSet) /\ Len(Append(ready, queue[s])) = Len(ready) + 1
        BY <1>0, <3>1, AppendEntries
      <4> QED
        BY <1>0, <2>1, <3>1, <4>1
    <3>2. CASE queue[s] \notin inSet
      BY <1>0, <2>1, <3>2
    <3> QED
      BY <3>1, <3>2
  <2>3. dropped' \subseteq 1 .. sent'
    BY <1>0, <2>1 DEF Receives
  <2> QED
    BY <1>6, <2>1, <2>2, <2>3
<1>8. ASSUME NEW s \in Sources, Drop(s) PROVE TypeInv'
  <2>1. /\ Receives(s) /\ main' = main /\ dropped' = dropped \union {sent'} /\ content' = content
        /\ ready' = ready
    BY <1>8 DEF Drop
  <2>2. dropped' \subseteq 1 .. sent'
    BY <1>0, <2>1 DEF Receives
  <2> QED
    BY <1>0, <1>6, <2>1, <2>2
<1>9. ASSUME NEW s \in Sources, Overflow(s) PROVE TypeInv'
  <2>1. /\ Receives(s) /\ ~Full(s) /\ main' = "aborted" /\ dropped' = dropped
        /\ content' = [content EXCEPT ![queue[s]] = Append(@, sent')] /\ ready' = ready
    BY <1>9 DEF Overflow
  <2>2. dropped' \subseteq 1 .. sent'
    BY <1>0, <2>1 DEF Receives
  <2> QED
    BY <1>0, <1>6, <2>1, <2>2
<1>10. ASSUME NEW i \in DOMAIN AddOrder, AddToSet(i) PROVE TypeInv'
  <2>1. /\ AddOrder[i] \in Sources /\ queue[AddOrder[i]] # 0 /\ main # "receive"
        /\ inSet' = Joins(queue[AddOrder[i]])
        /\ main' \in (IF i < Len(AddOrder) THEN {AddOrder[i + 1]} ELSE AfterSetup)
        /\ UNCHANGED <<queue, content, ready, task, member, sent, dropped, handled, failures>>
    BY <1>10, AddOrderIs DEF AddToSet, Sources
  <2>2. main' \in Locations /\ main' # "receive"
    <3>1. CASE i = 1
      <4>1. main' = "broadcast"
        BY <2>1, <3>1, AddOrderIs
      <4> QED
        BY <4>1, LocationsAre DEF Sources
    <3>2. CASE i = 2
      <4>1. main' = "tcp"
        BY <2>1, <3>2, AddOrderIs
      <4> QED
        BY <4>1, LocationsAre DEF Sources
    <3>3. CASE i = 3
      <4>1. main' \in AfterSetup
        BY <2>1, <3>3, AddOrderIs
      <4>2. AfterSetup \subseteq {"pwm", "select"}
        OBVIOUS
      <4> QED
        BY <4>1, <4>2, LocationsAre
    <3> QED
      BY <3>1, <3>2, <3>3, AddOrderIs
  <2>3. inSet \subseteq inSet' /\ inSet' \subseteq Queues
    <3> DEFINE q == queue[AddOrder[i]]
    <3>1. q \in 0 .. Len(content) /\ q # 0 /\ inSet' = Joins(q)
      BY <1>0, <2>1
    <3> HIDE DEF q
    <3>2. q \in Queues
      BY <1>0, <3>1 DEF Queues
    <3> QED
      BY <1>0, <3>1, <3>2 DEF Joins
  <2>4. ready' \in Seq(inSet')
    BY <1>0, <2>1, <2>3, SeqWider
  <2> QED
    BY <1>0, <2>1, <2>2, <2>3, <2>4 DEF TypeInv, Queues, Locations
<1>11. CASE Select
  <2>1. /\ main' = "receive" /\ member' \in inSet
        /\ ready' \in Seq(inSet) /\ Len(ready') = Len(ready) - 1 /\ Len(ready) \in Nat \ {0}
        /\ UNCHANGED <<queue, content, inSet, task, sent, dropped, handled, failures>>
    BY <1>11, SelectEffect
  <2>2. main' \in Locations /\ member' \in 0 .. Len(content) /\ Len(ready') <= SetLength
    BY <1>0, <2>1, LocationsAre DEF Queues
  <2> QED
    BY <1>0, <2>1, <2>2 DEF TypeInv, Queues, Locations
<1>12. ASSUME NEW s \in Sources, Receive(s) PROVE TypeInv'
  <2>1. /\ main' = "select" /\ UNCHANGED <<queue, inSet, ready, task, member, sent, dropped, failures>>
        /\ content' = [content EXCEPT ![member] = Taken(@)]
    BY <1>12 DEF Receive
  <2>2. /\ member = queue[s] /\ member \in Queues
        /\ content[member] \in Seq(1 .. sent) /\ content[member] # <<>>
        /\ content' \in Seq(Seq(1 .. sent)) /\ Queues' = Queues
        /\ content'[member] = Tail(content[member])
        /\ \A q \in Queues : q # member => content'[q] = content[q]
        /\ handled' \in Seq(1 .. sent)
    BY <1>12, TakeEffect
  <2>3. Len(content') = Len(content)
    BY <1>0, <2>1
  <2>4. Len(content'[member]) = Len(content[member]) - 1 /\ Len(content[member]) \in Nat
    BY <2>2, TailEntries
  <2>5. ASSUME NEW t \in Sources, queue[t] # 0 PROVE Len(content'[queue[t]]) <= Capacity[t]
    <3>1. queue[t] \in Queues /\ Len(content[queue[t]]) <= Capacity[t] /\ Capacity[t] \in Nat
      BY <1>0, <1>a, <2>5 DEF Queues
    <3>2. CASE queue[t] = member
      BY <2>4, <3>1, <3>2
    <3>3. CASE queue[t] # member
      BY <2>2, <3>1, <3>3
    <3> QED
      BY <3>2, <3>3
  <2>6. main' \in Locations /\ main' # "receive"
    BY <2>1, LocationsAre
  <2> QED
    BY <1>0, <2>1, <2>2, <2>3, <2>5, <2>6 DEF TypeInv, Queues, Locations
<1>13. CASE ReceiveNothing
  <2>1. /\ main' = "select"
        /\ UNCHANGED <<queue, content, inSet, ready, task, member, sent, dropped, handled, failures>>
    BY <1>13 DEF ReceiveNothing
  <2>2. main' \in Locations /\ main' # "receive"
    BY <2>1, LocationsAre
  <2> QED
    BY <1>0, <2>1, <2>2 DEF TypeInv, Queues, Locations
<1>14. CASE UNCHANGED vars
  BY <1>0, <1>14 DEF vars, TypeInv, Queues, Locations
<1> QED
  BY <1>2, <1>3, <1>4, <1>5, <1>7, <1>8, <1>9, <1>10, <1>11, <1>12, <1>13, <1>14
  DEF Next, AppMain, Network

(* For all lengths of the queues: none ever holds more than it was created for, and the *)
(* set holds handles of queues in it only, never more than its length                   *)
(* (net.c 407, 575, 767).                                                               *)
THEOREM TypeCorrect == Spec => []TypeOK
<1>1. ASSUME TypeInv PROVE TypeOK
  <2>1. ASSUME NEW q \in Queues PROVE content[q] \in Seq(1 .. sent)
    BY <1>1 DEF TypeInv, Queues
  <2> QED
    BY <1>1, <2>1 DEF TypeInv, TypeOK
<1> QED
  BY <1>1, InitTypeInv, NextTypeInv, PTL DEF Spec

(***************************************************************************)
(* Messages in one place only                                              *)
(***************************************************************************)
Increasing(q) == \A i, j \in 1 .. Len(q) : i < j => q[i] < q[j]

(* The entries of a sequence as a set. *)
LEMMA SetOf ==
  ASSUME NEW S, NEW q \in Seq(S)
  PROVE  /\ ToSet(q) \subseteq S
         /\ \A m : m \in ToSet(q) <=> \E i \in 1 .. Len(q) : q[i] = m
<1>1. DOMAIN q = 1 .. Len(q) /\ \A i \in 1 .. Len(q) : q[i] \in S
  OBVIOUS
<1>2. \A m : m \in ToSet(q) <=> \E i \in 1 .. Len(q) : q[i] = m
  BY <1>1 DEF ToSet
<1> QED
  BY <1>1, <1>2

(* One more entry is one more element. *)
LEMMA SetOfAppend ==
  ASSUME NEW S, NEW q \in Seq(S), NEW e \in S
  PROVE  ToSet(Append(q, e)) = ToSet(q) \union {e}
<1>1. \A m : m \in ToSet(q) <=> \E i \in 1 .. Len(q) : q[i] = m
  BY SetOf
<1>2. DOMAIN Append(q, e) = 1 .. Len(Append(q, e))
  OBVIOUS
<1>3. \A m : m \in ToSet(Append(q, e)) <=> \E i \in 1 .. Len(Append(q, e)) : Append(q, e)[i] = m
  BY <1>2 DEF ToSet
<1>4. /\ \A i \in 1 .. Len(q) : i \in 1 .. Len(Append(q, e)) /\ Append(q, e)[i] = q[i]
      /\ Len(q) + 1 \in 1 .. Len(Append(q, e)) /\ Append(q, e)[Len(q) + 1] = e
      /\ \A i \in 1 .. Len(Append(q, e)) :
           \/ i \in 1 .. Len(q) /\ Append(q, e)[i] = q[i]
           \/ i = Len(q) + 1 /\ Append(q, e)[i] = e
  BY AppendEntries
<1> QED
  BY <1>1, <1>3, <1>4

(* An increasing sequence stays so when a larger entry is put at its end. *)
LEMMA IncreasingPut ==
  ASSUME NEW q \in Seq(Nat), Increasing(q), NEW e \in Nat, \A m \in ToSet(q) : m < e
  PROVE  Increasing(Append(q, e))
<1>1. /\ Len(q) \in Nat
      /\ \A i \in 1 .. Len(Append(q, e)) :
           \/ i \in 1 .. Len(q) /\ Append(q, e)[i] = q[i]
           \/ i = Len(q) + 1 /\ Append(q, e)[i] = e
  BY AppendEntries
<1>2. \A i \in 1 .. Len(q) : q[i] < e /\ q[i] \in Nat
  BY SetOf
<1>3. ASSUME NEW i \in 1 .. Len(Append(q, e)), NEW j \in 1 .. Len(Append(q, e)), i < j
      PROVE  Append(q, e)[i] < Append(q, e)[j]
  <2>1. \/ i \in 1 .. Len(q) /\ Append(q, e)[i] = q[i]
        \/ i = Len(q) + 1 /\ Append(q, e)[i] = e
    BY <1>1
  <2>2. \/ j \in 1 .. Len(q) /\ Append(q, e)[j] = q[j]
        \/ j = Len(q) + 1 /\ Append(q, e)[j] = e
    BY <1>1
  <2>3. i \in 1 .. Len(q)
    BY <1>1, <1>3, <2>1, <2>2
  <2> QED
    BY <1>1, <1>2, <1>3, <2>1, <2>2, <2>3 DEF Increasing
<1> QED
  BY <1>3 DEF Increasing

(* An increasing sequence stays so without its first entry, which is the least. *)
LEMMA IncreasingTake ==
  ASSUME NEW q \in Seq(Nat), Increasing(q), q # <<>>
  PROVE  /\ Increasing(Tail(q)) /\ Tail(q) \in Seq(Nat) /\ q[1] \in ToSet(q) /\ q[1] \in Nat
         /\ ToSet(Tail(q)) = ToSet(q) \ {q[1]}
         /\ \A m \in ToSet(Tail(q)) : m \in Nat /\ q[1] < m
<1>1. /\ Tail(q) \in Seq(Nat) /\ Len(Tail(q)) = Len(q) - 1 /\ Len(q) \in Nat \ {0}
      /\ q[1] \in Nat /\ 1 \in 1 .. Len(q)
      /\ \A i \in 1 .. Len(Tail(q)) : i + 1 \in 1 .. Len(q) /\ Tail(q)[i] = q[i + 1]
  BY TailEntries
<1>2. Increasing(Tail(q))
  BY <1>1 DEF Increasing
<1>3. /\ \A m : m \in ToSet(q) <=> \E i \in 1 .. Len(q) : q[i] = m
      /\ \A m : m \in ToSet(Tail(q)) <=> \E i \in 1 .. Len(Tail(q)) : Tail(q)[i] = m
  <2>1. \A m : m \in ToSet(q) <=> \E i \in 1 .. Len(q) : q[i] = m
    BY SetOf
  <2>2. \A m : m \in ToSet(Tail(q)) <=> \E i \in 1 .. Len(Tail(q)) : Tail(q)[i] = m
    <3> DEFINE t == Tail(q)
    <3>1. t \in Seq(Nat)
      BY <1>1
    <3> HIDE DEF t
    <3>2. \A m : m \in ToSet(t) <=> \E i \in 1 .. Len(t) : t[i] = m
      BY <3>1, SetOf
    <3> QED
      BY <3>2 DEF t
  <2> QED
    BY <2>1, <2>2
<1>4. ASSUME NEW m \in ToSet(Tail(q)) PROVE m \in Nat /\ q[1] < m /\ m \in ToSet(q)
  <2>1. PICK i \in 1 .. Len(Tail(q)) : Tail(q)[i] = m
    BY <1>3
  <2>2. i + 1 \in 1 .. Len(q) /\ q[i + 1] = m /\ 1 < i + 1
    BY <1>1, <2>1
  <2>3. q[1] < q[i + 1]
    BY <1>1, <2>2 DEF Increasing
  <2>4. q[i + 1] \in Nat
    BY <2>2
  <2> QED
    BY <1>3, <2>2, <2>3, <2>4
<1>5. ASSUME NEW m \in ToSet(q), m # q[1] PROVE m \in ToSet(Tail(q))
  <2>1. PICK i \in 1 .. Len(q) : q[i] = m
    BY <1>3
  <2>2. i # 1
    BY <1>5, <2>1
  <2>3. i - 1 \in 1 .. Len(Tail(q)) /\ (i - 1) + 1 = i
    BY <1>1, <2>2
  <2>4. Tail(q)[i - 1] = m
    BY <1>1, <2>1, <2>3
  <2> QED
    BY <1>3, <2>3, <2>4
<1>6. q[1] \notin ToSet(Tail(q))
  BY <1>1, <1>4
<1>7. ToSet(Tail(q)) = ToSet(q) \ {q[1]}
  BY <1>4, <1>5, <1>6
<1> QED
  BY <1>1, <1>2, <1>3, <1>4, <1>7

(* Messages wait in the order in which they came, each in one queue only. *)
OnceInv ==
  /\ \A q \in Queues : Increasing(content[q])
  /\ \A q, r \in Queues : q # r => ToSet(content[q]) \intersect ToSet(content[r]) = {}
  /\ HandledOnce

(* What a queue holds was sent. *)
LEMMA ContentSent ==
  ASSUME TypeInv, NEW q \in Queues
  PROVE  /\ content[q] \in Seq(1 .. sent) /\ content[q] \in Seq(Nat)
         /\ ToSet(content[q]) \subseteq 1 .. sent
         /\ \A m : m \in ToSet(content[q]) <=> \E i \in 1 .. Len(content[q]) : content[q][i] = m
<1>1. content[q] \in Seq(1 .. sent) /\ 1 .. sent \subseteq Nat
  BY DEF TypeInv, Queues
<1>2. content[q] \in Seq(Nat)
  BY <1>1, SeqWider
<1> QED
  BY <1>1, <1>2, SetOf

(* A new message is in one place, the queue it was put in or among the dropped. *)
LEMMA PutOnce ==
  ASSUME TypeInv, OnceInv, NEW s \in Sources, Receives(s),
         content' = [content EXCEPT ![queue[s]] = Append(@, sent')], dropped' = dropped
  PROVE  OnceInv'
<1>1. /\ sent' = sent + 1 /\ sent \in Nat /\ queue[s] \in Queues
      /\ Queues' = Queues
      /\ content[queue[s]] \in Seq(1 .. sent')
      /\ content'[queue[s]] = Append(content[queue[s]], sent')
      /\ \A q \in Queues : q # queue[s] => content'[q] = content[q]
  BY PutEffect
<1>2. handled' = handled /\ ToSet(handled) \subseteq 1 .. sent /\ dropped \subseteq 1 .. sent
  BY SetOf DEF Receives, TypeInv
<1>3. sent' \in 1 .. sent' /\ sent' \notin 1 .. sent
  BY <1>1
<1>4. /\ ToSet(content'[queue[s]]) = ToSet(content[queue[s]]) \union {sent'}
      /\ \A q \in Queues : ToSet(content[q]) \subseteq 1 .. sent
  <2>1. ToSet(Append(content[queue[s]], sent')) = ToSet(content[queue[s]]) \union {sent'}
    BY <1>1, <1>3, SetOfAppend
  <2>2. \A q \in Queues : ToSet(content[q]) \subseteq 1 .. sent
    BY ContentSent
  <2> QED
    BY <1>1, <2>1, <2>2
<1>5. ASSUME NEW q \in Queues PROVE Increasing(content'[q])
  <2>1. CASE q = queue[s]
    <3>1. \A m \in ToSet(content[q]) : m < sent'
      <4>1. ToSet(content[q]) \subseteq 1 .. sent /\ sent' = sent + 1 /\ sent \in Nat
        BY <1>1, ContentSent
      <4> QED
        BY <4>1
    <3>2. Increasing(content[q]) /\ content[q] \in Seq(Nat) /\ sent' \in Nat
      BY <1>1, ContentSent DEF OnceInv
    <3> QED
      BY <1>1, <2>1, <3>1, <3>2, IncreasingPut
  <2>2. CASE q # queue[s]
    BY <1>1, <2>2 DEF OnceInv
  <2> QED
    BY <2>1, <2>2
<1>6. \A q \in Queues : \/ ToSet(content'[q]) = ToSet(content[q])
                        \/ q = queue[s] /\ ToSet(content'[q]) = ToSet(content[q]) \union {sent'}
  BY <1>1, <1>4
<1>7. ASSUME NEW q \in Queues, NEW r \in Queues, q # r
      PROVE  ToSet(content'[q]) \intersect ToSet(content'[r]) = {}
  <2>1. ToSet(content[q]) \intersect ToSet(content[r]) = {}
    BY <1>7 DEF OnceInv
  <2>2. sent' \notin ToSet(content[q]) /\ sent' \notin ToSet(content[r])
    BY <1>3, <1>4
  <2> QED
    BY <1>6, <1>7, <2>1, <2>2
<1>8. ASSUME NEW q \in Queues
      PROVE  ToSet(content'[q]) \intersect (ToSet(handled) \union dropped) = {}
  <2>1. ToSet(content[q]) \intersect (ToSet(handled) \union dropped) = {}
    BY DEF OnceInv, HandledOnce
  <2> QED
    BY <1>2, <1>3, <1>6, <2>1
<1> QED
  BY <1>1, <1>2, <1>5, <1>7, <1>8 DEF OnceInv, HandledOnce

(* Every step keeps each message in one place. *)
LEMMA NextOnceInv ==
  ASSUME TypeInv, OnceInv, [Next]_vars
  PROVE  OnceInv'
<1>0. /\ \A q \in Queues : Increasing(content[q])
      /\ \A q, r \in Queues : q # r => ToSet(content[q]) \intersect ToSet(content[r]) = {}
      /\ \A q \in Queues : ToSet(content[q]) \intersect (ToSet(handled) \union dropped) = {}
  BY DEF OnceInv, HandledOnce
<1>1. ASSUME NEW s \in Sources, NewQueue(s), UNCHANGED <<dropped, handled>> PROVE OnceInv'
  <2>1. /\ Queues' = Queues \union {Len(content')}
        /\ \A q \in Queues : content'[q] = content[q]
        /\ content'[Len(content')] = <<>>
    BY <1>1, NewQueueEffect
  <2>2. Increasing(<<>>) /\ ToSet(<<>>) = {}
    BY DEF Increasing, ToSet
  <2>3. \A q \in Queues' : Increasing(content'[q])
    BY <1>0, <2>1, <2>2
  <2>4. \A q, r \in Queues' : q # r => ToSet(content'[q]) \intersect ToSet(content'[r]) = {}
    BY <1>0, <2>1, <2>2
  <2>5. \A q \in Queues' : ToSet(content'[q]) \intersect (ToSet(handled) \union dropped) = {}
    BY <1>0, <2>1, <2>2
  <2> QED
    BY <1>1, <2>3, <2>4, <2>5 DEF OnceInv, HandledOnce
<1>2. ASSUME UNCHANGED <<content, dropped, handled>> PROVE OnceInv'
  BY <1>0, <1>2 DEF OnceInv, HandledOnce, Queues
<1>3. ASSUME NEW s \in Sources, Network(s) PROVE OnceInv'
  <2>1. CASE CreateQueue(s)
    BY <1>1, <2>1 DEF CreateQueue, NewQueue
  <2>2. CASE Post(s)
    BY <2>2, PutOnce DEF Post
  <2>3. CASE Overflow(s)
    BY <2>3, PutOnce DEF Overflow
  <2>4. CASE Drop(s)
    <3>1. content' = content /\ handled' = handled /\ dropped' = dropped \union {sent'}
          /\ sent' = sent + 1 /\ sent \in Nat
      BY <2>4 DEF Drop, Receives, TypeInv
    <3>2. ASSUME NEW q \in Queues
          PROVE  ToSet(content[q]) \intersect (ToSet(handled) \union dropped') = {}
      <4>1. sent' \notin ToSet(content[q])
        <5>1. ToSet(content[q]) \subseteq 1 .. sent
          BY ContentSent
        <5> QED
          BY <3>1, <5>1
      <4> QED
        BY <1>0, <3>1, <4>1
    <3> QED
      BY <1>0, <3>1, <3>2 DEF OnceInv, HandledOnce, Queues
  <2> QED
    BY <1>3, <2>1, <2>2, <2>3, <2>4 DEF Network
<1>4. ASSUME NEW s \in Sources, SocketError(s) PROVE OnceInv'
  BY <1>2, <1>4 DEF SocketError
<1>5. CASE MulticastSocketFails
  BY <1>1, <1>5 DEF MulticastSocketFails, NewQueue, Sources
<1>6. CASE BroadcastSocketFails
  BY <1>1, <1>6 DEF BroadcastSocketFails, NewQueue, Sources
<1>7. ASSUME NEW i \in DOMAIN AddOrder, AddToSet(i) PROVE OnceInv'
  BY <1>2, <1>7 DEF AddToSet
<1>8. CASE Select \/ ReceiveNothing
  BY <1>2, <1>8 DEF Select, ReceiveNothing
<1>9. ASSUME NEW s \in Sources, Receive(s) PROVE OnceInv'
  <2> DEFINE first == content[member][1]
  <2>1. /\ member \in Queues /\ content[member] # <<>> /\ Queues' = Queues
        /\ content'[member] = Tail(content[member])
        /\ \A q \in Queues : q # member => content'[q] = content[q]
        /\ first \in 1 .. sent /\ handled' = Append(handled, first)
    BY <1>9, TakeEffect
  <2>2. dropped' = dropped /\ handled \in Seq(1 .. sent)
    BY <1>9 DEF Receive, TypeInv
  <2>3. ToSet(handled') = ToSet(handled) \union {first}
    <3>1. ToSet(Append(handled, first)) = ToSet(handled) \union {first}
      <4> DEFINE S == 1 .. sent
      <4>1. first \in S /\ handled \in Seq(S)
        BY <2>1, <2>2
      <4> HIDE DEF first, S
      <4> QED
        BY <4>1, SetOfAppend
    <3> QED
      BY <2>1, <3>1
  <2>4. /\ Increasing(Tail(content[member])) /\ first \in ToSet(content[member])
        /\ ToSet(Tail(content[member])) = ToSet(content[member]) \ {first}
    BY <1>0, <2>1, ContentSent, IncreasingTake
  <2> HIDE DEF first
  <2>5. \A q \in Queues : Increasing(content'[q])
    BY <1>0, <2>1, <2>4
  <2>6. \A q \in Queues : \/ q # member /\ ToSet(content'[q]) = ToSet(content[q])
                          \/ q = member /\ ToSet(content'[q]) = ToSet(content[q]) \ {first}
    BY <2>1, <2>4
  <2>7. \A q, r \in Queues : q # r => ToSet(content'[q]) \intersect ToSet(content'[r]) = {}
    BY <1>0, <2>6
  <2>8. ASSUME NEW q \in Queues
        PROVE  ToSet(content'[q]) \intersect (ToSet(handled') \union dropped) = {}
    <3>1. ToSet(content[q]) \intersect (ToSet(handled) \union dropped) = {}
      BY <1>0
    <3>2. first \notin ToSet(content'[q])
      BY <1>0, <2>1, <2>4, <2>6
    <3> QED
      BY <2>3, <2>6, <3>1, <3>2
  <2> QED
    BY <2>1, <2>2, <2>5, <2>7, <2>8 DEF OnceInv, HandledOnce
<1>10. CASE UNCHANGED vars
  BY <1>2, <1>10 DEF vars
<1> QED
  BY <1>3, <1>4, <1>5, <1>6, <1>7, <1>8, <1>9, <1>10 DEF Next, AppMain

(* At the start there is no queue to hold one. *)
LEMMA InitOnceInv == Init => OnceInv
<1> SUFFICES ASSUME Init PROVE OnceInv
  OBVIOUS
<1>1. Queues = {}
  BY DEF Init, Queues
<1> QED
  BY <1>1 DEF OnceInv, HandledOnce

(* For all lengths of the queues and any number of socket failures: no message is in two *)
(* places, and what has been handled or dropped is in no queue, be it one given up       *)
(* (net.c 572-649).                                                                      *)
THEOREM InOnePlace == Spec => []HandledOnce
<1>1. OnceInv => HandledOnce
  BY DEF OnceInv
<1> QED
  BY <1>1, InitTypeInv, NextTypeInv, InitOnceInv, NextOnceInv, PTL DEF Spec

(***************************************************************************)
(* Queues left out of the set                                              *)
(***************************************************************************)

(* The tasks whose queues app_main has come to. *)
Added == CASE main \in {"multicast", "aborted"} -> {}
           [] main = "broadcast" -> {"multicast"}
           [] main = "tcp" -> {"multicast", "broadcast"}
           [] OTHER -> Sources

Joined(s) == \/ queue[s] \in inSet
             \/ queue[s] \in Queues /\ content[queue[s]] # <<>>

(* As long as no socket failed, a task has one queue for good, and app_main, when it has *)
(* come to it, left it out only with messages in it.                                      *)
LeftInv ==
  failures = 0 => /\ \A s \in Sources : queue[s] # 0 => task[s] = "listen"
                  /\ \A s \in Added : Joined(s)

(* Every step keeps to that. *)
LEMMA NextLeftInv ==
  ASSUME TypeInv, LeftInv, [Next]_vars
  PROVE  LeftInv'
<1>0. inSet \subseteq Queues /\ 0 \notin Queues /\ Added \subseteq Sources
      /\ \A s \in Sources : queue[s] # 0 => queue[s] \in Queues
  <2>1. Added \subseteq Sources
    BY DEF Added, Sources
  <2>2. inSet \subseteq Queues /\ 0 \notin Queues
    BY DEF TypeInv, Queues
  <2>3. queue \in [Sources -> 0 .. Len(content)] /\ Len(content) \in Nat
    BY DEF TypeInv
  <2>4. \A s \in Sources : queue[s] # 0 => queue[s] \in Queues
    BY <2>3 DEF Queues
  <2> QED
    BY <2>1, <2>2, <2>4
<1>1. failures \in Nat /\ task \in [Sources -> {"create", "listen", "gone"}]
  BY DEF TypeInv
<1>2. ASSUME failures' = failures + 1 PROVE LeftInv'
  BY <1>1, <1>2 DEF LeftInv
<1>3. ASSUME UNCHANGED <<failures, queue, inSet, task>>, Queues' = Queues, Added' \subseteq Added,
             \A q \in Queues : content[q] # <<>> /\ q \notin inSet => content'[q] # <<>>
      PROVE  LeftInv'
  <2>1. ASSUME NEW s \in Added, Joined(s) PROVE Joined(s)'
    <3>1. CASE queue[s] \in inSet
      BY <1>3, <3>1 DEF Joined
    <3>2. CASE queue[s] \notin inSet /\ queue[s] \in Queues /\ content[queue[s]] # <<>>
      <4>1. queue'[s] = queue[s] /\ content'[queue[s]] # <<>>
        BY <1>3, <3>2
      <4> QED
        BY <1>3, <3>2, <4>1 DEF Joined
    <3> QED
      BY <2>1, <3>1, <3>2 DEF Joined
  <2> QED
    BY <1>3, <2>1 DEF LeftInv
<1>4. ASSUME NEW s \in Sources, CreateQueue(s) PROVE LeftInv'
  <2>1. /\ NewQueue(s) /\ task[s] = "create" /\ task' = [task EXCEPT ![s] = "listen"]
        /\ UNCHANGED <<inSet, main, failures>>
    BY <1>4 DEF CreateQueue, NewQueue
  <2>2. /\ Queues \subseteq Queues' /\ \A q \in Queues : content'[q] = content[q]
        /\ \A t \in Sources : t # s => queue'[t] = queue[t]
    BY <2>1, NewQueueEffect
  <2>3. task'[s] = "listen" /\ \A t \in Sources : t # s => task'[t] = task[t]
    BY <1>1, <2>1
  <2> SUFFICES ASSUME failures = 0
               PROVE  /\ \A t \in Sources : queue'[t] # 0 => task'[t] = "listen"
                      /\ \A t \in Added' : Joined(t)'
    BY <2>1 DEF LeftInv
  <2>4. queue[s] = 0
    BY <2>1 DEF LeftInv
  <2>5. s \notin Added
    BY <1>0, <2>4 DEF LeftInv, Joined
  <2>6. \A t \in Sources : queue'[t] # 0 => task'[t] = "listen"
    BY <2>2, <2>3 DEF LeftInv
  <2>7. ASSUME NEW t \in Added PROVE Joined(t)'
    <3>1. t # s /\ t \in Sources /\ Joined(t)
      BY <1>0, <2>5 DEF LeftInv
    <3> QED
      <4>1. queue'[t] = queue[t] /\ inSet' = inSet
        BY <2>1, <2>2, <3>1
      <4>2. queue[t] \in Queues => queue[t] \in Queues' /\ content'[queue[t]] = content[queue[t]]
        BY <2>2
      <4> QED
        BY <3>1, <4>1, <4>2 DEF Joined
  <2>8. Added' = Added
    BY <2>1 DEF Added
  <2> QED
    BY <2>6, <2>7, <2>8
<1>5. ASSUME NEW s \in Sources, Receives(s), main' = main \/ main' = "aborted",
             content' = [content EXCEPT ![queue[s]] = Append(@, sent')]
      PROVE  LeftInv'
  <2>1. /\ queue[s] \in Queues /\ Queues' = Queues
        /\ content[queue[s]] \in Seq(1 .. sent') /\ sent' = sent + 1 /\ sent \in Nat
        /\ content'[queue[s]] = Append(content[queue[s]], sent')
        /\ \A q \in Queues : q # queue[s] => content'[q] = content[q]
    BY <1>5, PutEffect
  <2>2. content'[queue[s]] # <<>>
    <3> DEFINE c == content[queue[s]]
               S == 1 .. sent'
    <3>1. c \in Seq(S) /\ sent' \in S /\ content'[queue[s]] = Append(c, sent')
      BY <2>1
    <3> HIDE DEF c, S
    <3>2. Len(Append(c, sent')) = Len(c) + 1 /\ Len(c) \in Nat
      BY <3>1, AppendEntries
    <3>3. Len(<<>>) = 0
      OBVIOUS
    <3> QED
      BY <3>1, <3>2, <3>3
  <2>3. UNCHANGED <<failures, queue, inSet, task>> /\ Added' \subseteq Added
    BY <1>5 DEF Receives, Added
  <2> QED
    BY <1>3, <2>1, <2>2, <2>3
<1>6. ASSUME NEW s \in Sources, Network(s) PROVE LeftInv'
  <2>1. CASE Post(s)
    BY <1>5, <2>1 DEF Post
  <2>2. CASE Overflow(s)
    BY <1>5, <2>2 DEF Overflow
  <2>3. CASE Drop(s)
    BY <1>3, <2>3 DEF Drop, Receives, Queues, Added
  <2> QED
    BY <1>4, <1>6, <2>1, <2>2, <2>3 DEF Network
<1>7. ASSUME NEW s \in Sources, SocketError(s) PROVE LeftInv'
  BY <1>2, <1>7 DEF SocketError
<1>8. CASE MulticastSocketFails
  BY <1>2, <1>8 DEF MulticastSocketFails
<1>9. CASE BroadcastSocketFails
  BY <1>2, <1>9 DEF BroadcastSocketFails
<1>10. ASSUME NEW i \in DOMAIN AddOrder, AddToSet(i) PROVE LeftInv'
  <2> DEFINE s == AddOrder[i]
  <2>1. /\ s \in Sources /\ queue[s] \in Queues /\ main = s
        /\ inSet' = Joins(queue[s])
        /\ UNCHANGED <<queue, content, task, failures>>
    BY <1>0, <1>10, AddOrderIs DEF AddToSet, Sources
  <2>2. Added' \subseteq Added \union {s}
    <3>1. CASE i = 1
      <4>1. main' = "broadcast" /\ s = "multicast"
        BY <1>10, <3>1, AddOrderIs DEF AddToSet
      <4> QED
        BY <4>1 DEF Added
    <3>2. CASE i = 2
      <4>1. main' = "tcp" /\ s = "broadcast" /\ main = "broadcast"
        BY <1>10, <3>2, AddOrderIs DEF AddToSet
      <4> QED
        BY <4>1 DEF Added
    <3>3. CASE i = 3
      <4>1. s = "tcp" /\ main = "tcp" /\ Sources = {"multicast", "broadcast", "tcp"}
        BY <1>10, <3>3, AddOrderIs DEF AddToSet, Sources
      <4>2. Added = {"multicast", "broadcast"} /\ Added' \subseteq Sources
        BY <4>1 DEF Added, Sources
      <4> QED
        BY <4>1, <4>2
    <3> QED
      BY <3>1, <3>2, <3>3, AddOrderIs
  <2>3. inSet \subseteq inSet' /\ Joined(s)'
    <3>1. queue'[s] = queue[s] /\ content' = content /\ Queues' = Queues
      BY <2>1 DEF Queues
    <3>2. CASE content[queue[s]] = <<>>
      BY <2>1, <3>1, <3>2 DEF Joins, Joined
    <3>3. CASE content[queue[s]] # <<>>
      BY <2>1, <3>1, <3>3 DEF Joins, Joined
    <3> QED
      BY <3>2, <3>3
  <2>4. \A t \in Sources : Joined(t) => Joined(t)'
    BY <2>1, <2>3 DEF Joined, Queues
  <2> HIDE DEF s
  <2> QED
    BY <1>0, <2>1, <2>2, <2>3, <2>4 DEF LeftInv
<1>11. CASE Select \/ ReceiveNothing
  BY <1>3, <1>11 DEF Select, ReceiveNothing, Queues, Added
<1>12. ASSUME NEW s \in Sources, Receive(s) PROVE LeftInv'
  <2>1. /\ member \in inSet /\ Queues' = Queues
        /\ \A q \in Queues : q # member => content'[q] = content[q]
    BY <1>12, TakeEffect
  <2>2. UNCHANGED <<failures, queue, inSet, task>> /\ Added' = Added
    BY <1>12 DEF Receive, Added
  <2> QED
    BY <1>3, <2>1, <2>2
<1>13. CASE UNCHANGED vars
  BY <1>3, <1>13 DEF vars, Queues, Added
<1> QED
  BY <1>6, <1>7, <1>8, <1>9, <1>10, <1>11, <1>12, <1>13 DEF Next, AppMain

(* For all lengths of the queues: when app_main waits on the set, a queue is missing from *)
(* it only if a message was in it at the wrong time, or its socket failed since           *)
(* (main.cpp 158-161).                                                                    *)
THEOREM OnlyRacesLeaveOut == Spec => []LeftOutOnlyByRace
<1>1. ASSUME TypeInv, LeftInv PROVE LeftOutOnlyByRace
  <2>1. failures \in Nat /\ (main \in {"select", "receive", "pwm"} => Added = Sources)
    BY <1>1 DEF TypeInv, Added
  <2> QED
    BY <1>1, <2>1 DEF LeftInv, Joined, LeftOutOnlyByRace
<1>2. Init => LeftInv
  BY DEF Init, LeftInv, Added
<1> QED
  BY <1>1, <1>2, InitTypeInv, NextTypeInv, NextLeftInv, PTL DEF Spec

(***************************************************************************)
(* Handles and messages                                                    *)
(***************************************************************************)

(* f[k] is the message that the k-th handle of the set was put in for, g the one that the *)
(* handle in hand was put in for: message m of queue q is announced by one of them.       *)
Announced(q, m, f, g) ==
  \/ main = "receive" /\ member = q /\ m = g
  \/ \E k \in 1 .. Len(f) : ready[k] = q /\ f[k] = m

Announces(f, g) ==
  \A s \in Sources : queue[s] \in inSet =>
    \A m : m \in ToSet(content[queue[s]]) <=> Announced(queue[s], m, f, g)

(* The handles stand for messages in the order in which these came, all later than what *)
(* was handled.                                                                          *)
Ordered(f, g) ==
  /\ Len(f) = Len(ready) /\ Increasing(f)
  /\ \A k \in 1 .. Len(f) : f[k] <= sent
  /\ main = "receive" => g <= sent /\ \A k \in 1 .. Len(f) : g < f[k]
  /\ \A n \in ToSet(handled) : /\ main = "receive" => n < g
                               /\ \A k \in 1 .. Len(f) : n < f[k]

Match(f, g) == Ordered(f, g) /\ Announces(f, g)

MatchInv ==
  /\ Increasing(handled)
  /\ main # "aborted" => \E f \in Seq(Nat), g \in Nat : Match(f, g)

(* The message is put in a queue of the set, and its handle behind the others. *)
LEMMA PostMatch ==
  ASSUME TypeInv, OnceInv, MatchInv, NEW s \in Sources, Post(s), queue[s] \in inSet
  PROVE  MatchInv'
<1>1. /\ Receives(s) /\ main' = main /\ main # "aborted"
      /\ content' = [content EXCEPT ![queue[s]] = Append(@, sent')]
      /\ ready' = Append(ready, queue[s])
      /\ member' = member /\ handled' = handled /\ queue' = queue /\ inSet' = inSet
  BY DEF Post, Notify, Receives, NetTask
<1>2. /\ sent' = sent + 1 /\ sent \in Nat /\ queue[s] \in Queues
      /\ content[queue[s]] \in Seq(1 .. sent')
      /\ content'[queue[s]] = Append(content[queue[s]], sent')
      /\ \A q \in Queues : q # queue[s] => content'[q] = content[q]
  BY <1>1, PutEffect
<1>3. PICK f \in Seq(Nat), g \in Nat : Match(f, g)
  BY <1>1 DEF MatchInv
<1>a. PICK e \in Nat : e = sent'
  <2>1. sent + 1 \in Nat
    BY <1>2
  <2> QED
    BY <1>2, <2>1
<1>b. PICK h \in Seq(Nat) : h = Append(f, e)
  BY AppendEntries
<1>4. e = sent' /\ e = sent + 1 /\ sent \in Nat /\ e \in Nat /\ h = Append(f, e)
  BY <1>2, <1>a, <1>b
<1>5. /\ h \in Seq(Nat) /\ Len(h) = Len(f) + 1 /\ Len(f) \in Nat
      /\ \A k \in 1 .. Len(f) : k \in 1 .. Len(h) /\ h[k] = f[k]
      /\ Len(f) + 1 \in 1 .. Len(h) /\ h[Len(f) + 1] = e
      /\ \A k \in 1 .. Len(h) : \/ k \in 1 .. Len(f) /\ h[k] = f[k]
                                \/ k = Len(f) + 1 /\ h[k] = e
  BY <1>4, AppendEntries
<1>6. /\ Len(f) = Len(ready) /\ Increasing(f)
      /\ \A k \in 1 .. Len(f) : f[k] <= sent /\ f[k] \in Nat
      /\ main = "receive" => g <= sent /\ \A k \in 1 .. Len(f) : g < f[k]
      /\ \A n \in ToSet(handled) : /\ main = "receive" => n < g
                                   /\ \A k \in 1 .. Len(f) : n < f[k]
  BY <1>3 DEF Match, Ordered
<1>7. /\ Len(ready') = Len(ready) + 1
      /\ \A k \in 1 .. Len(ready) : ready'[k] = ready[k]
      /\ ready'[Len(ready) + 1] = queue[s]
  <2>1. ready \in Seq(inSet)
    BY DEF TypeInv
  <2> QED
    BY <1>1, <2>1, AppendEntries
<1>8. Increasing(h)
  <2>1. \A k \in 1 .. Len(f) : f[k] < e
    BY <1>4, <1>6
  <2>2. \A m \in ToSet(f) : m < e
    <3>1. \A m : m \in ToSet(f) <=> \E k \in 1 .. Len(f) : f[k] = m
      BY SetOf
    <3> QED
      BY <2>1, <3>1
  <2> QED
    BY <1>4, <1>6, <2>2, IncreasingPut
<1>9. Ordered(h, g)'
  <2>1. \A k \in 1 .. Len(h) : h[k] <= e
    BY <1>4, <1>5, <1>6
  <2>2. main = "receive" => g <= e /\ \A k \in 1 .. Len(h) : g < h[k]
    BY <1>4, <1>5, <1>6
  <2>3. ASSUME NEW n \in ToSet(handled)
        PROVE  (main = "receive" => n < g) /\ \A k \in 1 .. Len(h) : n < h[k]
    <3>1. n \in 1 .. sent
      <4>1. handled \in Seq(1 .. sent)
        BY DEF TypeInv
      <4> QED
        BY <4>1, SetOf
    <3>2. n < e
      BY <1>4, <3>1
    <3> QED
      BY <1>5, <1>6, <3>2
  <2>4. Len(h) = Len(ready')
    BY <1>5, <1>6, <1>7
  <2> QED
    BY <1>1, <1>4, <1>8, <2>1, <2>2, <2>3, <2>4 DEF Ordered
<1>10. ASSUME NEW t \in Sources, queue[t] \in inSet, NEW m
       PROVE  m \in ToSet(content'[queue[t]]) <=> Announced(queue[t], m, h, g)'
  <2>1. m \in ToSet(content[queue[t]]) <=> Announced(queue[t], m, f, g)
    BY <1>3, <1>10 DEF Match, Announces
  <2>2. queue[t] \in Queues
    BY <1>10 DEF TypeInv
  <2>3. Announced(queue[t], m, h, g)' <=> \/ Announced(queue[t], m, f, g)
                                          \/ queue[s] = queue[t] /\ m = e
    <3>1. (\E k \in 1 .. Len(h) : ready'[k] = queue[t] /\ h[k] = m)
          <=> \/ \E k \in 1 .. Len(f) : ready[k] = queue[t] /\ f[k] = m
              \/ queue[s] = queue[t] /\ m = e
      BY <1>5, <1>6, <1>7
    <3> QED
      BY <1>1, <3>1 DEF Announced
  <2>4. CASE queue[t] = queue[s]
    <3>1. e \in 1 .. sent' /\ e = sent' /\ content[queue[s]] \in Seq(1 .. sent')
      BY <1>2, <1>4
    <3>2. ToSet(Append(content[queue[s]], e)) = ToSet(content[queue[s]]) \union {e}
      BY <3>1, SetOfAppend
    <3> QED
      BY <1>2, <2>1, <2>3, <2>4, <3>1, <3>2
  <2>5. CASE queue[t] # queue[s]
    BY <1>2, <2>1, <2>2, <2>3, <2>5
  <2> QED
    BY <2>4, <2>5
<1>11. Announces(h, g)'
  BY <1>1, <1>10 DEF Announces
<1>12. Match(h, g)'
  BY <1>9, <1>11 DEF Match
<1>13. Increasing(handled)'
  BY <1>1 DEF MatchInv, Increasing
<1> QED
  BY <1>5, <1>12, <1>13 DEF MatchInv

(* app_main takes the message that its handle was put in for. *)
LEMMA ReceiveMatch ==
  ASSUME TypeInv, OnceInv, MatchInv, NEW s \in Sources, Receive(s)
  PROVE  MatchInv'
<1>1. /\ main = "receive" /\ main' = "select"
      /\ UNCHANGED <<queue, inSet, ready, sent>>
  BY DEF Receive
<1>2. /\ member = queue[s] /\ member \in inSet /\ member \in Queues
      /\ content[member] # <<>>
      /\ content'[member] = Tail(content[member])
      /\ \A q \in Queues : q # member => content'[q] = content[q]
      /\ content[member][1] \in 1 .. sent
      /\ handled' = Append(handled, content[member][1])
  BY TakeEffect
<1>3. PICK f \in Seq(Nat), g \in Nat : Match(f, g)
  BY <1>1 DEF MatchInv
<1>4. /\ Len(f) = Len(ready) /\ Increasing(f)
      /\ \A k \in 1 .. Len(f) : f[k] <= sent /\ f[k] \in Nat
      /\ g <= sent /\ \A k \in 1 .. Len(f) : g < f[k]
      /\ \A n \in ToSet(handled) : n < g /\ \A k \in 1 .. Len(f) : n < f[k]
  BY <1>1, <1>3 DEF Match, Ordered
<1>5. ASSUME NEW t \in Sources, queue[t] \in inSet, NEW m
      PROVE  m \in ToSet(content[queue[t]])
             <=> \/ member = queue[t] /\ m = g
                 \/ \E k \in 1 .. Len(f) : ready[k] = queue[t] /\ f[k] = m
  BY <1>1, <1>3, <1>5 DEF Match, Announces, Announced
<1> DEFINE c == content[member]
<1>6. c \in Seq(Nat) /\ Increasing(c) /\ c # <<>>
  BY <1>2, ContentSent DEF OnceInv
<1>7. \A m : m \in ToSet(c) <=> \/ m = g
                                \/ \E k \in 1 .. Len(f) : ready[k] = queue[s] /\ f[k] = m
  BY <1>2, <1>5
<1>8. /\ c[1] \in 1 .. sent /\ handled' = Append(handled, c[1]) /\ content'[member] = Tail(c)
  BY <1>2
<1> HIDE DEF c
<1>9. /\ c[1] \in ToSet(c) /\ c[1] \in Nat
      /\ ToSet(Tail(c)) = ToSet(c) \ {c[1]}
      /\ \A m \in ToSet(Tail(c)) : m \in Nat /\ c[1] < m
  BY <1>6, IncreasingTake
<1>10. c[1] = g
  <2>1. g \in ToSet(c) /\ (c[1] = g \/ g < c[1])
    BY <1>4, <1>7, <1>9
  <2>2. g # c[1] => c[1] < g
    BY <1>9, <2>1
  <2> QED
    BY <1>9, <2>1, <2>2
<1>11. handled \in Seq(Nat) /\ Increasing(handled)
  <2>1. handled \in Seq(1 .. sent)
    BY DEF TypeInv
  <2>2. Seq(1 .. sent) \subseteq Seq(Nat)
    <3>1. 1 .. sent \subseteq Nat
      OBVIOUS
    <3> QED
      BY <3>1, SeqWider
  <2> QED
    BY <2>1, <2>2 DEF MatchInv
<1>12. Increasing(handled)' /\ ToSet(handled') = ToSet(handled) \union {g}
  <2>1. handled' = Append(handled, g)
    BY <1>8, <1>10
  <2>2. ToSet(Append(handled, g)) = ToSet(handled) \union {g}
    BY <1>11, SetOfAppend
  <2>3. Increasing(Append(handled, g))
    BY <1>4, <1>11, IncreasingPut
  <2> QED
    BY <2>1, <2>2, <2>3 DEF Increasing
<1>13. Ordered(f, g)'
  BY <1>1, <1>4, <1>12 DEF Ordered
<1>14. ASSUME NEW t \in Sources, queue[t] \in inSet, NEW m
       PROVE  m \in ToSet(content'[queue[t]]) <=> Announced(queue[t], m, f, g)'
  <2>1. Announced(queue[t], m, f, g)'
        <=> \E k \in 1 .. Len(f) : ready[k] = queue[t] /\ f[k] = m
    BY <1>1 DEF Announced
  <2>2. CASE queue[t] = member
    <3>1. m \in ToSet(content'[queue[t]]) <=> m \in ToSet(c) /\ m # g
      BY <1>8, <1>9, <1>10, <2>2
    <3>2. \A k \in 1 .. Len(f) : f[k] # g
      BY <1>4
    <3> QED
      BY <1>2, <1>7, <2>1, <2>2, <3>1, <3>2
  <2>3. CASE queue[t] # member
    <3>1. queue[t] \in Queues
      BY <1>14 DEF TypeInv
    <3> QED
      BY <1>2, <1>5, <1>14, <2>1, <2>3, <3>1
  <2> QED
    BY <2>2, <2>3
<1>15. Announces(f, g)'
  BY <1>1, <1>14 DEF Announces
<1> QED
  BY <1>12, <1>13, <1>15 DEF MatchInv, Match

(* app_main takes the first handle, that of the earliest message. *)
LEMMA SelectMatch ==
  ASSUME TypeInv, MatchInv, Select
  PROVE  MatchInv'
<1>1. /\ main = "select" /\ main' = "receive" /\ ready # <<>>
      /\ member' = ready[1] /\ Len(ready') = Len(ready) - 1 /\ Len(ready) \in Nat \ {0}
      /\ \A k \in 1 .. Len(ready') : k + 1 \in 1 .. Len(ready) /\ ready'[k] = ready[k + 1]
      /\ UNCHANGED <<queue, content, inSet, sent, handled>>
  BY SelectEffect
<1>2. PICK f \in Seq(Nat), g \in Nat : Match(f, g)
  BY <1>1 DEF MatchInv
<1>3. /\ Len(f) = Len(ready) /\ Increasing(f)
      /\ \A k \in 1 .. Len(f) : f[k] <= sent /\ f[k] \in Nat
      /\ \A n \in ToSet(handled) : \A k \in 1 .. Len(f) : n < f[k]
  BY <1>2 DEF Match, Ordered
<1>4. f # <<>>
  <2>1. Len(f) # 0
    BY <1>1, <1>3
  <2> QED
    BY <2>1
<1>5. PICK h \in Seq(Nat) : /\ h = Tail(f) /\ Len(h) = Len(f) - 1 /\ Len(f) \in Nat \ {0}
                            /\ \A k \in 1 .. Len(h) : k + 1 \in 1 .. Len(f) /\ h[k] = f[k + 1]
  BY <1>4, TailEntries
<1>6. PICK e \in Nat : e = f[1] /\ 1 \in 1 .. Len(f)
  BY <1>4, TailEntries
<1>7. Increasing(h)
  BY <1>3, <1>4, <1>5, IncreasingTake
<1>8. \A k \in 1 .. Len(h) : e < h[k]
  BY <1>3, <1>5, <1>6 DEF Increasing
<1>9. Ordered(h, e)'
  <2>1. Len(h) = Len(ready') /\ e <= sent
    BY <1>1, <1>3, <1>5, <1>6
  <2>2. \A k \in 1 .. Len(h) : h[k] <= sent
    BY <1>3, <1>5
  <2>3. \A n \in ToSet(handled) : n < e /\ \A k \in 1 .. Len(h) : n < h[k]
    BY <1>3, <1>5, <1>6
  <2> QED
    BY <1>1, <1>7, <1>8, <2>1, <2>2, <2>3 DEF Ordered
<1>10. ASSUME NEW q, NEW m PROVE Announced(q, m, f, g) <=> Announced(q, m, h, e)'
  <2>1. Announced(q, m, f, g) <=> \E k \in 1 .. Len(f) : ready[k] = q /\ f[k] = m
    BY <1>1 DEF Announced
  <2>2. Announced(q, m, h, e)' <=> \/ ready[1] = q /\ m = f[1]
                                   \/ \E k \in 1 .. Len(h) : ready'[k] = q /\ h[k] = m
    BY <1>1, <1>6 DEF Announced
  <2>3. \A k \in 1 .. Len(h) : ready'[k] = ready[k + 1] /\ h[k] = f[k + 1] /\ k + 1 \in 1 .. Len(f)
    BY <1>1, <1>3, <1>5
  <2>4. \A k \in 1 .. Len(f) : k = 1 \/ (k - 1 \in 1 .. Len(h) /\ (k - 1) + 1 = k)
    BY <1>5
  <2>5. ASSUME NEW k \in 1 .. Len(f), ready[k] = q, f[k] = m, k # 1
        PROVE  \E l \in 1 .. Len(h) : ready'[l] = q /\ h[l] = m
    <3>1. k - 1 \in 1 .. Len(h) /\ (k - 1) + 1 = k
      BY <2>4, <2>5
    <3>2. ready'[k - 1] = q /\ h[k - 1] = m
      BY <2>3, <2>5, <3>1
    <3> QED
      BY <3>1, <3>2
  <2> QED
    BY <1>6, <2>1, <2>2, <2>3, <2>5
<1>11. Announces(h, e)'
  BY <1>1, <1>2, <1>10 DEF Announces, Match
<1>12. Increasing(handled)'
  BY <1>1 DEF MatchInv, Increasing
<1> QED
  BY <1>9, <1>11, <1>12 DEF MatchInv, Match

(* Every step keeps the handles in step with the messages. *)
LEMMA NextMatchInv ==
  ASSUME TypeInv, OnceInv, MatchInv, [Next]_vars
  PROVE  MatchInv'
<1>0. /\ inSet \subseteq Queues /\ ready \in Seq(inSet) /\ sent \in Nat
      /\ \A s, t \in Sources : queue[s] = queue[t] /\ queue[s] # 0 => s = t
      /\ 0 \notin Queues
  BY DEF TypeInv, Queues
<1>1. ASSUME main' = "aborted", handled' = handled PROVE MatchInv'
  BY <1>1 DEF MatchInv, Increasing
<1>2. ASSUME UNCHANGED <<ready, main, member, handled>>, sent' \in Nat, sent <= sent',
             \A s \in Sources : queue'[s] \in inSet' => /\ queue'[s] = queue[s]
                                                        /\ queue[s] \in inSet
                                                        /\ content'[queue[s]] = content[queue[s]]
      PROVE  MatchInv'
  <2>1. Increasing(handled)'
    BY <1>2 DEF MatchInv, Increasing
  <2>2. ASSUME main # "aborted", NEW f \in Seq(Nat), NEW g \in Nat, Match(f, g)
        PROVE  Match(f, g)'
    <3>1. Ordered(f, g)'
      <4>1. \A k \in 1 .. Len(f) : f[k] \in Nat
        OBVIOUS
      <4>2. /\ Len(f) = Len(ready) /\ Increasing(f)
            /\ \A k \in 1 .. Len(f) : f[k] <= sent'
            /\ main = "receive" => g <= sent' /\ \A k \in 1 .. Len(f) : g < f[k]
            /\ \A n \in ToSet(handled) : /\ main = "receive" => n < g
                                         /\ \A k \in 1 .. Len(f) : n < f[k]
        BY <1>0, <1>2, <2>2, <4>1 DEF Match, Ordered
      <4> QED
        BY <1>2, <4>2 DEF Ordered
    <3>2. Announces(f, g)'
      <4>1. ASSUME NEW s \in Sources, queue'[s] \in inSet', NEW m
            PROVE  m \in ToSet(content'[queue'[s]])
                   <=> \/ main' = "receive" /\ member' = queue'[s] /\ m = g
                       \/ \E k \in 1 .. Len(f) : ready'[k] = queue'[s] /\ f[k] = m
        <5>1. /\ queue'[s] = queue[s] /\ queue[s] \in inSet
              /\ content'[queue[s]] = content[queue[s]]
          BY <1>2, <4>1
        <5>2. m \in ToSet(content[queue[s]]) <=> Announced(queue[s], m, f, g)
          BY <2>2, <5>1 DEF Match, Announces
        <5> QED
          BY <1>2, <5>1, <5>2 DEF Announced
      <4> QED
        BY <4>1 DEF Announces, Announced
    <3> QED
      BY <3>1, <3>2 DEF Match
  <2> QED
    BY <1>2, <2>1, <2>2 DEF MatchInv
<1>3. ASSUME NEW s \in Sources, NewQueue(s), inSet' = inSet
      PROVE  \A t \in Sources : queue'[t] \in inSet' =>
               queue'[t] = queue[t] /\ queue[t] \in inSet /\ content'[queue[t]] = content[queue[t]]
  <2>1. /\ queue'[s] = Len(content') /\ \A t \in Sources : t # s => queue'[t] = queue[t]
        /\ \A q \in Queues : content'[q] = content[q]
        /\ Len(content') \notin Queues
    BY <1>3, NewQueueEffect
  <2> QED
    BY <1>0, <1>3, <2>1
<1>4. ASSUME NEW s \in Sources, CreateQueue(s) PROVE MatchInv'
  <2>1. /\ NewQueue(s) /\ UNCHANGED <<inSet, ready, main, member, handled, sent>>
    BY <1>4 DEF CreateQueue, NewQueue
  <2> QED
    BY <1>0, <1>2, <1>3, <2>1
<1>5. ASSUME NEW s \in Sources, Post(s) PROVE MatchInv'
  <2>1. CASE queue[s] \in inSet
    BY <1>5, <2>1, PostMatch
  <2>2. CASE queue[s] \notin inSet
    <3>1. /\ Receives(s) /\ content' = [content EXCEPT ![queue[s]] = Append(@, sent')]
          /\ UNCHANGED <<queue, inSet, ready, main, member, handled>>
      BY <1>5, <2>2 DEF Post, Notify, Receives
    <3>2. /\ sent' = sent + 1
          /\ \A q \in Queues : q # queue[s] => content'[q] = content[q]
      BY <3>1, PutEffect
    <3>3. sent' \in Nat /\ sent <= sent'
      BY <1>0, <3>2
    <3> QED
      BY <1>0, <1>2, <2>2, <3>1, <3>2, <3>3
  <2> QED
    BY <2>1, <2>2
<1>6. ASSUME NEW s \in Sources, Drop(s) PROVE MatchInv'
  <2>1. /\ sent' = sent + 1 /\ UNCHANGED <<queue, content, inSet, ready, main, member, handled>>
    BY <1>6 DEF Drop, Receives
  <2>2. sent' \in Nat /\ sent <= sent'
    BY <1>0, <2>1
  <2> QED
    BY <1>2, <2>1, <2>2
<1>7. ASSUME NEW s \in Sources, Overflow(s) PROVE MatchInv'
  BY <1>1, <1>7 DEF Overflow, Receives
<1>8. ASSUME NEW s \in Sources, SocketError(s) PROVE MatchInv'
  BY <1>0, <1>2, <1>8 DEF SocketError
<1>9. CASE MulticastSocketFails
  <2>1. /\ NewQueue("multicast") /\ "multicast" \in Sources
        /\ UNCHANGED <<inSet, ready, main, member, handled, sent>>
    BY <1>9 DEF MulticastSocketFails, NewQueue, Sources
  <2> QED
    BY <1>0, <1>2, <1>3, <2>1
<1>10. CASE BroadcastSocketFails
  BY <1>1, <1>10 DEF BroadcastSocketFails
<1>11. ASSUME NEW i \in DOMAIN AddOrder, AddToSet(i) PROVE MatchInv'
  <2> DEFINE q == queue[AddOrder[i]]
  <2>1. /\ q \in Queues /\ main \in Sources /\ inSet' = Joins(q)
        /\ UNCHANGED <<queue, content, ready, member, sent, handled>>
    <3>1. AddOrder[i] \in Sources
      BY AddOrderIs DEF Sources
    <3>2. q # 0 /\ q \in 0 .. Len(content)
      BY <1>11, <3>1 DEF AddToSet, TypeInv
    <3> QED
      BY <1>11, <3>1, <3>2 DEF AddToSet, Queues
  <2>2. main # "receive" /\ main' # "receive" /\ main # "aborted"
    <3>1. CASE i = 1
      BY <1>11, <3>1, AddOrderIs DEF AddToSet
    <3>2. CASE i = 2
      BY <1>11, <3>2, AddOrderIs DEF AddToSet
    <3>3. CASE i = 3
      <4>1. main' \in AfterSetup /\ main = "tcp"
        BY <1>11, <3>3, AddOrderIs DEF AddToSet
      <4>2. AfterSetup \subseteq {"pwm", "select"}
        OBVIOUS
      <4> QED
        BY <4>1, <4>2
    <3> QED
      BY <3>1, <3>2, <3>3, AddOrderIs
  <2> HIDE DEF q
  <2>3. PICK f \in Seq(Nat), g \in Nat : Match(f, g)
    BY <2>2 DEF MatchInv
  <2>4. Ordered(f, g)'
    BY <2>1, <2>2, <2>3 DEF Match, Ordered
  <2>5. ASSUME NEW s \in Sources, queue[s] \in inSet', NEW m
        PROVE  m \in ToSet(content[queue[s]]) <=> Announced(queue[s], m, f, g)'
    <3>1. Announced(queue[s], m, f, g)' <=> Announced(queue[s], m, f, g)
      BY <2>1, <2>2 DEF Announced
    <3>2. CASE queue[s] \in inSet
      BY <2>3, <3>1, <3>2 DEF Match, Announces
    <3>3. CASE queue[s] \notin inSet
      <4>1. content[queue[s]] = <<>>
        BY <2>1, <2>5, <3>3 DEF Joins
      <4>2. ToSet(content[queue[s]]) = {}
        BY <4>1 DEF ToSet
      <4>3. \A k \in 1 .. Len(f) : ready[k] # queue[s]
        <5>1. Len(f) = Len(ready)
          BY <2>3 DEF Match, Ordered
        <5>2. \A k \in 1 .. Len(ready) : ready[k] \in inSet
          BY <1>0
        <5> QED
          BY <3>3, <5>1, <5>2
      <4>4. ~Announced(queue[s], m, f, g)
        BY <2>2, <4>3 DEF Announced
      <4> QED
        BY <3>1, <4>2, <4>4
    <3> QED
      BY <3>2, <3>3
  <2>6. Announces(f, g)'
    BY <2>1, <2>5 DEF Announces
  <2>7. Increasing(handled)'
    BY <2>1 DEF MatchInv, Increasing
  <2> QED
    BY <2>4, <2>6, <2>7 DEF MatchInv, Match
<1>12. CASE Select
  BY <1>12, SelectMatch
<1>13. ASSUME NEW s \in Sources, Receive(s) PROVE MatchInv'
  BY <1>13, ReceiveMatch
<1>14. CASE ReceiveNothing
  <2>1. /\ main = "receive" /\ main' = "select"
        /\ \A s \in Sources : member # queue[s] \/ content[member] = <<>>
        /\ UNCHANGED <<queue, content, inSet, ready, member, sent, handled>>
    BY <1>14 DEF ReceiveNothing, Branches
  <2>2. PICK f \in Seq(Nat), g \in Nat : Match(f, g)
    BY <2>1 DEF MatchInv
  <2>3. Ordered(f, g)'
    BY <2>1, <2>2 DEF Match, Ordered
  <2>4. ASSUME NEW s \in Sources, queue[s] \in inSet, NEW m
        PROVE  m \in ToSet(content[queue[s]]) <=> Announced(queue[s], m, f, g)'
    <3>1. /\ m \in ToSet(content[queue[s]]) <=> Announced(queue[s], m, f, g)
          /\ g \in ToSet(content[queue[s]]) <=> Announced(queue[s], g, f, g)
      BY <2>2, <2>4 DEF Match, Announces
    <3>2. CASE member = queue[s]
      <4>1. content[member] = <<>>
        BY <2>1, <3>2
      <4>2. ToSet(content[queue[s]]) = {}
        BY <3>2, <4>1 DEF ToSet
      <4> QED
        BY <2>1, <3>1, <3>2, <4>2 DEF Announced
    <3>3. CASE member # queue[s]
      BY <2>1, <3>1, <3>3 DEF Announced
    <3> QED
      BY <3>2, <3>3
  <2>5. Announces(f, g)'
    BY <2>1, <2>4 DEF Announces
  <2>6. Increasing(handled)'
    BY <2>1 DEF MatchInv, Increasing
  <2> QED
    BY <2>3, <2>5, <2>6 DEF MatchInv, Match
<1>15. CASE UNCHANGED vars
  BY <1>0, <1>2, <1>15 DEF vars
<1> QED
  BY <1>4, <1>5, <1>6, <1>7, <1>8, <1>9, <1>10, <1>11, <1>12, <1>13, <1>14, <1>15
  DEF Next, AppMain, Network

(* At the start there is nothing to stand for. *)
LEMMA InitMatchInv == Init => MatchInv
<1> SUFFICES ASSUME Init PROVE MatchInv
  OBVIOUS
<1>1. inSet = {} /\ ready = <<>> /\ handled = <<>> /\ main = "multicast"
  BY DEF Init
<1>2. Increasing(<<>>) /\ ToSet(<<>>) = {} /\ <<>> \in Seq(Nat) /\ Len(<<>>) = 0
  BY DEF Increasing, ToSet
<1>3. Ordered(<<>>, 0)
  BY <1>1, <1>2 DEF Ordered
<1>4. Announces(<<>>, 0)
  BY <1>1 DEF Announces
<1> QED
  BY <1>1, <1>2, <1>3, <1>4 DEF MatchInv, Match

(* For all lengths of the queues and of the set, and any failures: commands are handled in *)
(* the order in which they came, whichever task they came by (main.cpp 248-262).           *)
THEOREM InArrivalOrder == Spec => []HandledInOrder
<1>1. ASSUME TypeInv, MatchInv PROVE HandledInOrder
  <2>1. DOMAIN handled = 1 .. Len(handled)
    BY <1>1 DEF TypeInv
  <2> QED
    BY <1>1, <2>1 DEF MatchInv, Increasing, HandledInOrder
<1> QED
  BY <1>1, InitTypeInv, NextTypeInv, InitOnceInv, NextOnceInv, InitMatchInv, NextMatchInv, PTL
  DEF Spec

(***************************************************************************)
(* Counting                                                                *)
(***************************************************************************)

(* An increasing sequence has as many different entries as it is long. *)
LEMMA IncreasingCount ==
  ASSUME NEW q \in Seq(Nat), Increasing(q)
  PROVE  IsFiniteSet(ToSet(q)) /\ Cardinality(ToSet(q)) = Len(q)
<1>1. /\ Len(q) \in Nat /\ \A i \in 1 .. Len(q) : q[i] \in Nat
      /\ DOMAIN q = 1 .. Len(q) /\ q \in [1 .. Len(q) -> Nat]
  OBVIOUS
<1>2. \A m : m \in ToSet(q) <=> \E i \in 1 .. Len(q) : q[i] = m
  BY SetOf
<1>3. q = [i \in 1 .. Len(q) |-> q[i]]
  BY <1>1
<1>4. q \in [1 .. Len(q) -> ToSet(q)]
  BY <1>2, <1>3
<1>5. ASSUME NEW i \in 1 .. Len(q), NEW j \in 1 .. Len(q), q[i] = q[j] PROVE i = j
  <2>1. i < j => q[i] < q[j]
    BY DEF Increasing
  <2>2. j < i => q[j] < q[i]
    BY DEF Increasing
  <2> QED
    BY <1>1, <1>5, <2>1, <2>2
<1>6. q \in Bijection(1 .. Len(q), ToSet(q))
  BY <1>1, <1>2, <1>4, <1>5 DEF Bijection, Injection, Surjection, IsInjective
<1>7. ExistsBijection(1 .. Len(q), ToSet(q))
  BY <1>6 DEF ExistsBijection
<1> QED
  BY <1>1, <1>7, FS_CountingElements, FS_NatBijection

(* Different places of an increasing sequence hold as many entries as there are places. *)
LEMMA PlacesCount ==
  ASSUME NEW f \in Seq(Nat), Increasing(f), NEW P \in SUBSET (1 .. Len(f)), NEW V,
         \A m : m \in V <=> \E k \in P : f[k] = m
  PROVE  IsFiniteSet(V) /\ Cardinality(V) = Cardinality(P) /\ Cardinality(P) \in Nat
<1>1. Len(f) \in Nat /\ \A k \in P : f[k] \in Nat /\ k \in 1 .. Len(f)
  OBVIOUS
<1>2. IsFiniteSet(P)
  <2>1. IsFiniteSet(1 .. Len(f))
    BY <1>1, FS_Interval
  <2> DEFINE S == 1 .. Len(f)
  <2>2. IsFiniteSet(S) /\ P \in SUBSET S
    BY <2>1
  <2> HIDE DEF S
  <2> QED
    BY <2>2, FS_Subset
<1> DEFINE F == [k \in P |-> f[k]]
<1>3. ASSUME NEW i \in P, NEW j \in P, f[i] = f[j] PROVE i = j
  <2>1. i < j => f[i] < f[j]
    BY DEF Increasing
  <2>2. j < i => f[j] < f[i]
    BY DEF Increasing
  <2> QED
    BY <1>1, <1>3, <2>1, <2>2
<1>4. F \in Bijection(P, V)
  BY <1>3 DEF Bijection, Injection, Surjection, IsInjective
<1>5. ExistsBijection(P, V)
  BY <1>4 DEF ExistsBijection
<1> QED
  BY <1>2, <1>5, FS_Bijection, FS_CardinalityType

(* For all lengths of the queues and of the set, and any failures: queue_set holds a handle *)
(* for each message of a queue in it that its task posts to, and none for a message already *)
(* taken (main.cpp 248-262).                                                                *)
THEOREM HandlesAreMessages == Spec => []SetCountsMessages
<1>1. ASSUME TypeInv, OnceInv, MatchInv, main # "aborted", NEW s \in Sources, queue[s] \in inSet
      PROVE  Handles(queue[s]) = Len(content[queue[s]])
  <2>1. PICK f \in Seq(Nat), g \in Nat : Match(f, g)
    BY <1>1 DEF MatchInv
  <2> DEFINE q == queue[s]
             c == content[q]
             P == {i \in DOMAIN ready : ready[i] = q}
             V == {f[k] : k \in P}
  <2>2. /\ Len(f) = Len(ready) /\ Increasing(f)
        /\ main = "receive" => \A k \in 1 .. Len(f) : g < f[k]
        /\ \A m : m \in ToSet(c) <=> \/ main = "receive" /\ member = q /\ m = g
                                     \/ \E k \in 1 .. Len(f) : ready[k] = q /\ f[k] = m
    BY <1>1, <2>1 DEF Match, Ordered, Announces, Announced
  <2>3. DOMAIN ready = 1 .. Len(f)
    BY <1>1, <2>2 DEF TypeInv
  <2>4. c \in Seq(Nat) /\ Increasing(c)
    <3>1. q \in Queues
      BY <1>1 DEF TypeInv
    <3> QED
      BY <1>1, <3>1, ContentSent DEF OnceInv
  <2>5. Handles(q) = Cardinality(P) + (IF main = "receive" /\ member = q THEN 1 ELSE 0)
    BY DEF Handles
  <2>6. /\ \A m : m \in V <=> \E k \in P : f[k] = m
        /\ P \in SUBSET (1 .. Len(f))
    BY <2>3
  <2>7. \A m : m \in ToSet(c) <=> \/ main = "receive" /\ member = q /\ m = g
                                  \/ m \in V
    BY <2>2, <2>3, <2>6
  <2>8. main = "receive" => g \notin V
    BY <2>2, <2>6
  <2> HIDE DEF P, V, c, q
  <2>9. IsFiniteSet(V) /\ Cardinality(V) = Cardinality(P) /\ Cardinality(P) \in Nat
    BY <2>2, <2>6, PlacesCount
  <2>10. Cardinality(ToSet(c)) = Len(c)
    BY <2>4, IncreasingCount
  <2>11. CASE main = "receive" /\ member = q
    <3>1. ToSet(c) = V \union {g} /\ g \notin V
      BY <2>7, <2>8, <2>11
    <3>2. Cardinality(V \union {g}) = Cardinality(V) + 1
      BY <2>9, <3>1, FS_AddElement
    <3>3. Handles(q) = Len(c)
      BY <2>5, <2>9, <2>10, <2>11, <3>1, <3>2
    <3> QED
      BY <3>3 DEF q, c
  <2>12. CASE ~(main = "receive" /\ member = q)
    <3>1. ToSet(c) = V
      BY <2>7, <2>12
    <3>2. Handles(q) = Len(c)
      BY <2>5, <2>9, <2>10, <2>12, <3>1
    <3> QED
      BY <3>2 DEF q, c
  <2> QED
    BY <2>11, <2>12
<1>2. TypeInv /\ OnceInv /\ MatchInv => SetCountsMessages
  BY <1>1 DEF SetCountsMessages
<1> QED
  BY <1>2, InitTypeInv, NextTypeInv, InitOnceInv, NextOnceInv, InitMatchInv, NextMatchInv, PTL
  DEF Spec
=============================================================================
