----------------------------- MODULE CommandQueues -----------------------------
(***************************************************************************)
(* How a command of the network reaches the command handler:               *)
(* multicast_task, broadcast_task and tcp_task (main/src/net.c) each create*)
(* a FreeRTOS queue and post the messages they receive to it; app_main     *)
(* (main/src/main.cpp 88-264) joins the queues into a queue set and waits  *)
(* on the set.                                                             *)
(*                                                                         *)
(* A set is a queue of queue handles of its own: a post to a member puts   *)
(* the member's handle in it, and asserts that there is room.  multicast_- *)
(* task and broadcast_task create their queue again whenever their socket  *)
(* fails; the old queue is never deleted, nor the new one added to the set.*)
(*                                                                         *)
(* This commit of app_main runs a test of the board before the dispatcher, *)
(* a loop without an end; AfterSetup says whether it is in the build.      *)
(*                                                                         *)
(* app_main has priority 1 and the network tasks priority 3, so that their *)
(* first queues exist when app_main gets to the set.                       *)
(***************************************************************************)
EXTENDS Integers, Sequences, SequencesExt, FiniteSetsExt

CONSTANTS
  Capacity,      \* of the queue of each network task (25, 5 and 5 in the code)
  SetLength,     \* what xQueueCreateSet is given (3 in the code)
  AfterSetup,    \* where app_main goes then: "pwm" with the loop of main.cpp 210-230,
                 \* "select" without it
  Backlog,       \* messages the senders let wait at once (bound of the model)
  MaxMessages,   \* bound of the model
  MaxFailures    \* socket failures (bound of the model)

Sources == {"multicast", "broadcast", "tcp"}

ASSUME LengthAssumption == SetLength \in Nat \ {0} /\ Capacity \in [Sources -> Nat \ {0}]
ASSUME BoundAssumption == /\ {Backlog, MaxMessages, MaxFailures} \subseteq Nat
                          /\ AfterSetup \subseteq {"pwm", "select"}

VARIABLES
  queue,    \* xQueue_multicast_task, xQueue_broadcast_task, xQueue_tcp_task; 0 is NULL
  content,  \* the messages in each queue ever created
  inSet,    \* the queues that are members of queue_set
  ready,    \* the handles queue_set holds
  task,     \* network tasks: "create" a queue next, "listen", or "gone"
  main,     \* where app_main is
  member,   \* queue_set_member
  sent,     \* messages received by the tasks so far, numbered in that order
  dropped,  \* history: those no queue had room for
  handled,  \* history: those given to command_handler
  failures  \* socket failures so far

vars == <<queue, content, inSet, ready, task, main, member, sent, dropped, handled, failures>>

Queues == 1..Len(content)
NetTask(s) == main # "aborted" /\ task[s] # "gone"
Waiting == (1..sent) \ (dropped \union ToSet(handled))

(* Faulty variant: one queue was forgotten. *)
AddOrder_NoTcp == <<"multicast", "broadcast">>

(* The order in which app_main adds the queues (main.cpp 159-161). *)
AddOrder == <<"multicast", "broadcast", "tcp">>
-----------------------------------------------------------------------------
(* A task creates its queue, an empty one, and opens its socket. *)
CreateQueue(s) ==
  /\ NetTask(s) /\ task[s] = "create"
  /\ content' = Append(content, <<>>)
  /\ queue' = [queue EXCEPT ![s] = Len(content')]
  /\ task' = [task EXCEPT ![s] = "listen"]
  /\ UNCHANGED <<inSet, ready, main, member, sent, dropped, handled, failures>>

(* multicast_task cannot open its socket: 5 ms later it creates another queue and *)
(* tries again.                                                                   *)
MulticastSocketFails ==
  /\ NetTask("multicast") /\ task["multicast"] = "create" /\ failures < MaxFailures
  /\ content' = Append(content, <<>>)
  /\ queue' = [queue EXCEPT !["multicast"] = Len(content')]
  /\ failures' = failures + 1
  /\ UNCHANGED <<inSet, ready, task, main, member, sent, dropped, handled>>

(* broadcast_task cannot: it leaves its loop and returns, at which the wrapper that *)
(* FreeRTOS runs a task in aborts the program (CONFIG_FREERTOS_TASK_FUNCTION_WRAPPER). *)
BroadcastSocketFails ==
  /\ NetTask("broadcast") /\ task["broadcast"] = "create" /\ failures < MaxFailures
  /\ content' = Append(content, <<>>)
  /\ queue' = [queue EXCEPT !["broadcast"] = Len(content')]
  /\ task' = [task EXCEPT !["broadcast"] = "gone"]
  /\ main' = "aborted"
  /\ failures' = failures + 1
  /\ UNCHANGED <<inSet, ready, member, sent, dropped, handled>>

(* A receive or a send on the open socket fails: the task closes it and starts over. *)
(* tcp_task keeps its queue for good.                                                *)
SocketError(s) ==
  /\ s # "tcp" /\ NetTask(s) /\ task[s] = "listen" /\ failures < MaxFailures
  /\ task' = [task EXCEPT ![s] = "create"]
  /\ failures' = failures + 1
  /\ UNCHANGED <<queue, content, inSet, ready, main, member, sent, dropped, handled>>

(* Faulty variant: the queue is one message longer than its storage. *)
Full_OffByOne(s) == Len(content[queue[s]]) > Capacity[s]

Full(s) == Len(content[queue[s]]) >= Capacity[s]

(* What a post to a queue does to the set, if the queue is in one. *)
Notify(q) == ready' = IF q \in inSet THEN Append(ready, q) ELSE ready

Receives(s) ==
  /\ NetTask(s) /\ task[s] = "listen" /\ sent < MaxMessages
  /\ Cardinality(Waiting) < Backlog
  /\ sent' = sent + 1
  /\ UNCHANGED <<queue, inSet, task, member, handled, failures>>

Post(s) ==
  /\ Receives(s) /\ ~Full(s)
  /\ queue[s] \in inSet => Len(ready) < SetLength
  /\ content' = [content EXCEPT ![queue[s]] = Append(@, sent')]
  /\ Notify(queue[s])
  /\ UNCHANGED <<main, dropped>>

(* The queue stays full for ten ticks. *)
Drop(s) ==
  /\ Receives(s) /\ Full(s)
  /\ dropped' = dropped \union {sent'}
  /\ UNCHANGED <<content, ready, main>>

(* The post succeeds but the set has no room for the handle: configASSERT aborts the *)
(* program (CONFIG_FREERTOS_ASSERT_FAIL_ABORT).                                      *)
Overflow(s) ==
  /\ Receives(s) /\ ~Full(s)
  /\ queue[s] \in inSet /\ Len(ready) >= SetLength
  /\ content' = [content EXCEPT ![queue[s]] = Append(@, sent')]
  /\ main' = "aborted"
  /\ UNCHANGED <<ready, dropped>>
-----------------------------------------------------------------------------
(* xQueueAddToSet refuses a queue that is not empty; app_main does not look. *)
Joins(q) == IF content[q] = <<>> THEN inSet \union {q} ELSE inSet

AddToSet(i) ==
  /\ main = AddOrder[i]
  /\ queue[AddOrder[i]] # 0
  /\ inSet' = Joins(queue[AddOrder[i]])
  /\ main' \in (IF i < Len(AddOrder) THEN {AddOrder[i + 1]} ELSE AfterSetup)
  /\ UNCHANGED <<queue, content, ready, task, member, sent, dropped, handled, failures>>

(* Faulty variant: the newest handle first. *)
Selected_Last == Last(ready)

Selected == Head(ready)

Select ==
  /\ main = "select" /\ ready # <<>>
  /\ member' = Selected
  /\ ready' = Tail(ready)
  /\ main' = "receive"
  /\ UNCHANGED <<queue, content, inSet, task, sent, dropped, handled, failures>>

(* Faulty variants: the message is looked at and left in its queue; the queue is emptied. *)
Taken_Peek(messages) == messages
Taken_All(messages) == <<>>

Taken(messages) == Tail(messages)

(* Faulty variant: one comparison was forgotten. *)
Branches_NoTcp == {"multicast", "broadcast"}

(* The queues that app_main compares the member with. *)
Branches == Sources

(* The queue the member is compared with is the task's current one.  A message taken *)
(* from it is handled before app_main selects again.                                 *)
Receive(s) ==
  /\ s \in Branches
  /\ main = "receive" /\ member = queue[s] /\ content[member] # <<>>
  /\ handled' = Append(handled, Head(content[member]))
  /\ content' = [content EXCEPT ![member] = Taken(@)]
  /\ main' = "select"
  /\ UNCHANGED <<queue, inSet, ready, task, member, sent, dropped, failures>>

(* None of the three comparisons holds: the member is of a queue given up since. *)
ReceiveNothing ==
  /\ main = "receive" /\ \A s \in Branches : member # queue[s] \/ content[member] = <<>>
  /\ main' = "select"
  /\ UNCHANGED <<queue, content, inSet, ready, task, member, sent, dropped, handled, failures>>
-----------------------------------------------------------------------------
Init ==
  /\ queue = [s \in Sources |-> 0]
  /\ content = <<>>
  /\ inSet = {}
  /\ ready = <<>>
  /\ task = [s \in Sources |-> "create"]
  /\ main = "multicast"
  /\ member = 0
  /\ sent = 0
  /\ dropped = {}
  /\ handled = <<>>
  /\ failures = 0

AppMain == \/ \E i \in DOMAIN AddOrder : AddToSet(i)
           \/ Select
           \/ \E s \in Sources : Receive(s)
           \/ ReceiveNothing

Network(s) == CreateQueue(s) \/ Post(s) \/ Drop(s) \/ Overflow(s)

Next ==
  \/ AppMain
  \/ \E s \in Sources : Network(s) \/ SocketError(s)
  \/ MulticastSocketFails
  \/ BroadcastSocketFails

Spec == Init /\ [][Next]_vars

(* app_main and the creation of the queues go on; messages and failures need not come. *)
FairSpec == Spec /\ WF_vars(AppMain) /\ \A s \in Sources : WF_vars(CreateQueue(s))
-----------------------------------------------------------------------------
Locations == ToSet(AddOrder) \union {"select", "receive", "pwm", "aborted"}

(* No queue ever holds more messages than it was created for, and the handles are *)
(* those of queues (net.c 407, 575, 767).                                         *)
TypeOK ==
  /\ queue \in [Sources -> 0..Len(content)]
  /\ \A q \in Queues : content[q] \in Seq(1..sent)
  /\ \A s \in Sources : queue[s] # 0 => Len(content[queue[s]]) <= Capacity[s]
  /\ inSet \subseteq Queues
  /\ ready \in Seq(inSet) /\ Len(ready) <= SetLength
  /\ task \in [Sources -> {"create", "listen", "gone"}]
  /\ main \in Locations
  /\ member \in 0..Len(content)
  /\ dropped \subseteq 1..sent
  /\ handled \in Seq(1..sent)

Handles(q) == Cardinality({i \in DOMAIN ready : ready[i] = q})
              + (IF main = "receive" /\ member = q THEN 1 ELSE 0)

(* While the program runs, queue_set holds one handle for each message of a queue that *)
(* is in it and that its task still posts to: no message waits unannounced, and no     *)
(* handle stands for a message already taken (main.cpp 248-262).                       *)
SetCountsMessages ==
  main # "aborted" =>
    \A s \in Sources : queue[s] \in inSet => Handles(queue[s]) = Len(content[queue[s]])

(* Commands are handled in the order in which they came, whichever task they came by:  *)
(* the set keeps the order across the three queues (main.cpp 248-262).  So the last of *)
(* two moves sent one by multicast and one by TCP is the one that stays.               *)
HandledInOrder == \A i, j \in DOMAIN handled : i < j => handled[i] < handled[j]

(* No socket failure takes back or repeats a command: a message is in at most one      *)
(* place, and what has been handled is never in a queue again (net.c 572-649).         *)
HandledOnce ==
  \A q \in Queues : ToSet(content[q]) \intersect (ToSet(handled) \union dropped) = {}

(* Once app_main waits on the set, a queue that a task posts to is outside it only     *)
(* because a message was in it when it should have joined, which xQueueAddToSet refuses,*)
(* or because the task has made it anew; then none of its messages is ever handled      *)
(* (main.cpp 158: "Add all of the networking queue to the set").                        *)
LeftOutOnlyByRace ==
  main \in {"select", "receive", "pwm"} =>
    \A s \in Sources : \/ queue[s] \in inSet
                       \/ queue[s] \in Queues /\ content[queue[s]] # <<>>
                       \/ failures > 0

(* A message in a queue of the set is handled in the end, unless its task gives up the *)
(* queue, the program aborts, or the test of the board is in the build                 *)
(* (main.cpp 247: "Block the task until we receive a value from any of the queues").   *)
EveryMessageHandled ==
  \A n \in 1..MaxMessages :
    (\E s \in Sources : queue[s] \in inSet /\ n \in ToSet(content[queue[s]]))
      ~> \/ n \in ToSet(handled)
         \/ \E q \in Queues : n \in ToSet(content[q]) /\ \A s \in Sources : q # queue[s]
         \/ main \in {"aborted", "pwm"}
=============================================================================
