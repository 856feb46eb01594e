------------------------------- MODULE TcpServer -------------------------------
(***************************************************************************)
(* The TCP server of a strand: tcp_task accepts one client at a time, posts*)
(* its command to xQueue_tcp_task and polls xQueue_tcp_respond for one     *)
(* second (main/src/net.c 678-762); command_handler, which app_main runs   *)
(* for the commands of all tasks, puts its answers in that queue           *)
(* (net.c 1134-1260).  An answer does not say whose it is.                 *)
(*                                                                         *)
(* A command of a client is a query, answered once by the handler (get_mac,*)
(* get_location, set_location, setMin), or silent, never answered (any     *)
(* other, `update', setMax and setNumber included: the handler returns     *)
(* before their TCP code).  An answer is known by the number of the client *)
(* it is for; 0 is the one that set_location gives to a UDP message too.   *)
(***************************************************************************)
EXTENDS Integers, Sequences, SequencesExt

CONSTANTS
  QueueLength,   \* of xQueue_tcp_task and xQueue_tcp_respond (5 in the code)
  LateHandler,   \* whether the handler may take more than the second the server waits
  MaxClients,    \* bound of the model
  MaxUdp         \* set_location messages by multicast or broadcast (bound of the model)

ASSUME LengthAssumption == QueueLength \in Nat \ {0}
ASSUME BoundAssumption == MaxClients \in Nat /\ MaxUdp \in Nat /\ LateHandler \in BOOLEAN

Timeout == -1
Nothing == -2
Udp == 0
Kinds == {"query", "silent"}
Command == [from : Nat, kind : Kinds]
None == [from |-> Udp, kind |-> "silent"]   \* no command at all

VARIABLES
  server,         \* tcp_task: at "accept", "recv" or "poll"
  client,         \* the client served, by number, 0 for none
  respond_value,  \* the string to send: whose answer it holds, Nothing if empty
  tcp_task,       \* the commands in xQueue_tcp_task
  tcp_respond,    \* the answers in xQueue_tcp_respond
  handler,        \* the command command_handler is at
  replies,        \* history: what each client got
  udp             \* set_location messages by UDP so far

vars == <<server, client, respond_value, tcp_task, tcp_respond, handler, replies, udp>>
-----------------------------------------------------------------------------
Accept ==
  /\ server = "accept" /\ Len(replies) < MaxClients
  /\ client' = Len(replies) + 1
  /\ server' = "recv"
  /\ UNCHANGED <<respond_value, tcp_task, tcp_respond, handler, replies, udp>>

(* The socket is shut down whichever way the connection ended. *)
Close(reply) ==
  /\ replies' = Append(replies, reply)
  /\ client' = 0
  /\ server' = "accept"

(* The client closes the connection, or it fails. *)
ReceiveNothing ==
  /\ server = "recv"
  /\ Close(Nothing)
  /\ UNCHANGED <<respond_value, tcp_task, tcp_respond, handler, udp>>

(* Faulty variant: the queue is one longer than its storage. *)
HasRoom_OffByOne(queue) == Len(queue) <= QueueLength

HasRoom(queue) == Len(queue) < QueueLength

Request(kind) ==
  /\ server = "recv"
  /\ respond_value' = Nothing
  /\ tcp_task' = IF HasRoom(tcp_task)
                 THEN Append(tcp_task, [from |-> client, kind |-> kind])
                 ELSE tcp_task
  /\ server' = "poll"
  /\ UNCHANGED <<client, tcp_respond, handler, replies, udp>>

(* Faulty variant: the newest answer first. *)
NextAnswer_Last == Last(tcp_respond)

NextAnswer == Head(tcp_respond)

Poll ==
  /\ server = "poll" /\ respond_value = Nothing /\ tcp_respond # <<>>
  /\ respond_value' = NextAnswer
  /\ tcp_respond' = Tail(tcp_respond)
  /\ UNCHANGED <<server, client, tcp_task, handler, replies, udp>>

HandlerDone == tcp_task = <<>> /\ handler = None /\ tcp_respond = <<>>

(* Faulty variant: the server waits for the answer without a limit. *)
Expires_Never == FALSE

(* The second is over. *)
Expires == LateHandler \/ HandlerDone

GiveUp ==
  /\ server = "poll" /\ respond_value = Nothing
  /\ Expires
  /\ respond_value' = Timeout
  /\ UNCHANGED <<server, client, tcp_task, tcp_respond, handler, replies, udp>>

(* The loop ends with a string to send.  One reply per connection: after it, or when send fails, the socket is closed. *)
Send ==
  /\ server = "poll" /\ respond_value # Nothing
  /\ \E reply \in {respond_value, Nothing} : Close(reply)
  /\ UNCHANGED <<respond_value, tcp_task, tcp_respond, handler, udp>>
-----------------------------------------------------------------------------
(* app_main takes the next command of the TCP queue, or of another one. *)
Take ==
  /\ handler = None /\ tcp_task # <<>>
  /\ handler' = Head(tcp_task)
  /\ tcp_task' = Tail(tcp_task)
  /\ UNCHANGED <<server, client, respond_value, tcp_respond, replies, udp>>

TakeUdp ==
  /\ handler = None /\ udp < MaxUdp
  /\ handler' = [from |-> Udp, kind |-> "query"]
  /\ udp' = udp + 1
  /\ UNCHANGED <<server, client, respond_value, tcp_task, tcp_respond, replies>>

(* Faulty variant: the answer is given twice, once in each block of command_handler *)
(* that matches the command.                                                        *)
Answers_Twice(c) == IF c.kind = "query" /\ HasRoom(tcp_respond)
                    THEN tcp_respond \o <<c.from, c.from>> ELSE tcp_respond

(* The answer is lost if the queue is full for ten ticks. *)
Answers(c) == IF c.kind = "query" /\ HasRoom(tcp_respond)
              THEN Append(tcp_respond, c.from) ELSE tcp_respond

Handle ==
  /\ handler # None
  /\ tcp_respond' = Answers(handler)
  /\ handler' = None
  /\ UNCHANGED <<server, client, respond_value, tcp_task, replies, udp>>
-----------------------------------------------------------------------------
Init ==
  /\ server = "accept"
  /\ client = 0
  /\ respond_value = Nothing
  /\ tcp_task = <<>>
  /\ tcp_respond = <<>>
  /\ handler = None
  /\ replies = <<>>
  /\ udp = 0

Client == ReceiveNothing \/ \E kind \in Kinds : Request(kind)

Server == Poll \/ GiveUp \/ Send

Handler == Take \/ Handle

Next == Accept \/ Client \/ Server \/ Handler \/ TakeUdp

Spec == Init /\ [][Next]_vars

(* A client that has connected sends its command or closes; the tasks go on. *)
FairSpec == Spec /\ WF_vars(Client) /\ WF_vars(Server) /\ WF_vars(Handler)
-----------------------------------------------------------------------------
Answer == Udp..(Len(replies) + 1)

(* Neither queue holds more than it was created for (net.c 767, 775), and what is  *)
(* in respond_value and in the queues is for a client that has connected, or UDP.  *)
TypeOK ==
  /\ server \in {"accept", "recv", "poll"}
  /\ client \in {0, Len(replies) + 1}
  /\ respond_value \in Answer \union {Timeout, Nothing}
  /\ tcp_task \in Seq(Command) /\ Len(tcp_task) <= QueueLength
  /\ tcp_respond \in Seq(Answer) /\ Len(tcp_respond) <= QueueLength
  /\ handler \in Command
  /\ replies \in Seq(Answer \union {Timeout, Nothing})
  /\ udp \in 0..MaxUdp

(* Answers reach clients in the order of the commands they answer, each at most once *)
(* and never before its command: a late answer may go to a later client, but a client*)
(* never gets an older answer than the one before it got (net.c 737-744).            *)
AnswersInOrder ==
  \A i, j \in DOMAIN replies :
    replies[i] > Udp => /\ replies[i] <= i
                        /\ i < j => replies[j] \notin 1..replies[i]

(* A client that is being served is let go: no command, answered or not, and no answer *)
(* lost or late keeps the server from the next client (net.c 737-757).                 *)
ConnectionEnds == client # 0 ~> client = 0

(* With a handler that is done within the second and no set_location by UDP, the server *)
(* does what RequestReply says (net.c 678-762).                                         *)
Abstract == INSTANCE RequestReply WITH client <- client, replies <- replies
ServesRequests == Abstract!Spec

(* The reply a client gets is the answer to its own command, or "timeout"              *)
(* (net.c 774: "que for response to send back to the client").                         *)
OwnAnswer == \A i \in DOMAIN replies : replies[i] \in {i, Timeout, Nothing}
=============================================================================
