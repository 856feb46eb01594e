---------------------------- MODULE TcpServer_proofs ----------------------------
(***************************************************************************)
(* Proofs about TcpServer, for every length of the queues and any number   *)
(* of clients.                                                             *)
(*                                                                         *)
(* If the handler is done within the second that the server waits and      *)
(* set_location comes by TCP only, the server carries out RequestReply:    *)
(* each client gets the answer to its own command, "timeout" or nothing.   *)
(* The runs show that neither condition can be dropped.                    *)
(*                                                                         *)
(* Without any condition, answers reach clients in the order of the        *)
(* commands they answer, each at most once.                                *)
(***************************************************************************)
EXTENDS TcpServer, SequenceTheorems, TLAPS

(* Where the command of the client may be while the server polls. *)
InQueue == /\ \E kind \in Kinds : tcp_task = <<[from |-> client, kind |-> kind]>>
           /\ handler = None /\ tcp_respond = <<>>
AtHandler == /\ \E kind \in Kinds : handler = [from |-> client, kind |-> kind]
             /\ tcp_task = <<>> /\ tcp_respond = <<>>
Answered == tcp_task = <<>> /\ handler = None /\ tcp_respond = <<client>>

(* Between two clients nothing is left over: every command has been handled and every  *)
(* answer taken.  While a client is served there is one thing of its own on the way at *)
(* most: its command, or the answer to it, or the reply made of it.                    *)
OneRequest ==
  /\ replies \in Seq(Int)
  /\ server \in {"accept", "recv", "poll"}
  /\ udp = 0
  /\ client = IF server = "accept" THEN 0 ELSE Len(replies) + 1
  /\ server # "poll" => HandlerDone
  /\ server = "poll" /\ respond_value # Nothing =>
       HandlerDone /\ respond_value \in {client, Timeout}
  /\ server = "poll" /\ respond_value = Nothing =>
       InQueue \/ AtHandler \/ Answered \/ HandlerDone

(* A queue of at least one takes the first command and the first answer. *)
LEMMA EmptyHasRoom == HasRoom(<<>>)
  BY LengthAssumption DEF HasRoom

(* At the start nothing is on the way. *)
LEMMA InitOneRequest == Init => OneRequest
  BY DEF Init, OneRequest, HandlerDone, Nothing

(* Every step of a timely handler, without UDP, leaves one thing on the way at most. *)
LEMMA NextOneRequest ==
  ASSUME ~LateHandler, MaxUdp = 0, OneRequest, [Next]_vars
  PROVE  OneRequest'
<1> USE DEF Nothing, Timeout, Udp
<1>1. CASE Accept
  <2>1. Len(replies) \in Nat /\ client' = Len(replies) + 1 /\ server' = "recv"
    BY <1>1 DEF Accept, OneRequest
  <2> QED BY <1>1, <2>1 DEF Accept, OneRequest, HandlerDone
<1>2. CASE ReceiveNothing
  <2>1. HandlerDone' /\ replies' \in Seq(Int)
    BY <1>2 DEF ReceiveNothing, Close, OneRequest, HandlerDone
  <2> QED BY <1>2, <2>1 DEF ReceiveNothing, Close, OneRequest
<1>3. ASSUME NEW kind \in Kinds, Request(kind) PROVE OneRequest'
  <2>1. tcp_task = <<>> /\ handler = None /\ tcp_respond = <<>>
    BY <1>3 DEF Request, OneRequest, HandlerDone
  <2>2. tcp_task' = <<[from |-> client, kind |-> kind]>>
    BY <1>3, <2>1, EmptyHasRoom DEF Request
  <2>3. InQueue'
    BY <1>3, <2>1, <2>2 DEF Request, InQueue
  <2> QED BY <1>3, <2>3 DEF Request, OneRequest
<1>4. CASE Poll
  <2>1. tcp_respond = <<client>> /\ tcp_task = <<>> /\ handler = None
    BY <1>4 DEF Poll, OneRequest, InQueue, AtHandler, Answered, HandlerDone
  <2>2. tcp_respond' = <<>> /\ respond_value' = client
    BY <1>4, <2>1 DEF Poll, NextAnswer
  <2>3. HandlerDone'
    BY <1>4, <2>1, <2>2 DEF Poll, HandlerDone
  <2>4. client' = client /\ client \in Nat \ {0}
    BY <1>4 DEF Poll, OneRequest
  <2> QED BY <1>4, <2>2, <2>3, <2>4 DEF Poll, OneRequest
<1>5. CASE GiveUp
  BY <1>5 DEF GiveUp, Expires, OneRequest, HandlerDone
<1>6. CASE Send
  <2>1. respond_value \in Int
    BY <1>6 DEF Send, OneRequest
  <2>2. PICK reply \in {respond_value, Nothing} : Close(reply)
    BY <1>6 DEF Send
  <2>3. replies' \in Seq(Int) /\ client' = 0 /\ server' = "accept"
    BY <2>1, <2>2 DEF Close, OneRequest
  <2>4. HandlerDone'
    BY <1>6 DEF Send, OneRequest, HandlerDone
  <2> QED BY <1>6, <2>3, <2>4 DEF Send, OneRequest
<1>7. CASE Take
  <2>1. PICK kind \in Kinds : tcp_task = <<[from |-> client, kind |-> kind]>>
    BY <1>7 DEF Take, OneRequest, HandlerDone, InQueue, AtHandler, Answered
  <2>2. /\ server = "poll" /\ respond_value = Nothing
        /\ tcp_respond = <<>>
    BY <1>7 DEF Take, OneRequest, HandlerDone, InQueue, AtHandler, Answered
  <2>3. AtHandler'
    BY <1>7, <2>1, <2>2 DEF Take, AtHandler
  <2> QED BY <1>7, <2>2, <2>3 DEF Take, OneRequest
<1>8. CASE Handle
  <2>1. /\ server = "poll" /\ respond_value = Nothing
        /\ tcp_respond = <<>> /\ tcp_task = <<>>
    BY <1>8 DEF Handle, OneRequest, HandlerDone, InQueue, AtHandler, Answered
  <2>2. PICK kind \in Kinds : handler = [from |-> client, kind |-> kind]
    BY <1>8 DEF Handle, OneRequest, HandlerDone, InQueue, AtHandler, Answered
  <2>3. tcp_respond' \in {<<>>, <<client>>}
    BY <1>8, <2>1, <2>2, EmptyHasRoom DEF Handle, Answers
  <2>4. Answered' \/ HandlerDone'
    BY <1>8, <2>1, <2>3 DEF Handle, Answered, HandlerDone
  <2> QED BY <1>8, <2>1, <2>4 DEF Handle, OneRequest
<1>9. CASE TakeUdp
  BY <1>9 DEF TakeUdp, OneRequest
<1>10. CASE UNCHANGED vars
  BY <1>10 DEF vars, OneRequest, HandlerDone, InQueue, AtHandler, Answered
<1> QED
  BY <1>1, <1>2, <1>3, <1>4, <1>5, <1>6, <1>7, <1>8, <1>9, <1>10
  DEF Next, Client, Server, Handler

(* Every step of the server is one of RequestReply, or changes neither the client nor *)
(* the replies.                                                                       *)
LEMMA StepServes ==
  ASSUME OneRequest, [Next]_vars
  PROVE  [Abstract!Connect \/ Abstract!Reply]_<<client, replies>>
<1> USE DEF Abstract!Connect, Abstract!Reply, Abstract!Timeout, Abstract!Nothing,
            Timeout, Nothing
<1>1. CASE Accept
  BY <1>1 DEF Accept, OneRequest
<1>2. CASE ReceiveNothing
  BY <1>2 DEF ReceiveNothing, Close, OneRequest
<1>3. ASSUME NEW kind \in Kinds, Request(kind) PROVE UNCHANGED <<client, replies>>
  BY <1>3 DEF Request
<1>4. CASE Send
  BY <1>4 DEF Send, Close, OneRequest
<1>5. CASE Poll \/ GiveUp \/ Take \/ Handle \/ TakeUdp
  BY <1>5 DEF Poll, GiveUp, Take, Handle, TakeUdp
<1>6. CASE UNCHANGED vars
  BY <1>6 DEF vars
<1> QED
  BY <1>1, <1>2, <1>3, <1>4, <1>5, <1>6 DEF Next, Client, Server, Handler

(* A timely handler and no set_location by UDP: whatever the length of the queues and  *)
(* however many clients come, tcp_server_run serves them as RequestReply says, each    *)
(* with the answer to its own command, "timeout" or nothing (net.c 678-762).           *)
THEOREM ServesOwnRequests ==
  ASSUME ~LateHandler, MaxUdp = 0
  PROVE  Spec => ServesRequests
<1>1. Init => Abstract!Init
  BY DEF Init, Abstract!Init
<1>2. OneRequest /\ [Next]_vars => OneRequest'
  BY NextOneRequest
<1>3. OneRequest /\ [Next]_vars => [Abstract!Connect \/ Abstract!Reply]_<<client, replies>>
  BY StepServes
<1> QED
  BY <1>1, <1>2, <1>3, InitOneRequest, PTL DEF Spec, ServesRequests, Abstract!Spec
-----------------------------------------------------------------------------
(* The youngest client whose command may be on the way. *)
Newest == IF server = "poll" THEN client ELSE Len(replies)

(* The commands in the queue and at the handler and the answers in the queue and about *)
(* to be sent are those of clients that have asked, and set_location by UDP.           *)
Asked ==
  /\ client = IF server = "accept" THEN 0 ELSE Len(replies) + 1
  /\ \A i \in 1 .. Len(tcp_task) : tcp_task[i].from \in 1 .. Newest
  /\ handler.from <= Newest
  /\ \A i \in 1 .. Len(tcp_respond) : tcp_respond[i] <= Newest
  /\ server = "poll" => respond_value <= Newest

TypeInv == TypeOK /\ Asked

(* At the start nothing is on the way. *)
LEMMA InitTypeInv == Init => TypeInv
<1> SUFFICES ASSUME Init PROVE TypeInv
  OBVIOUS
<1> USE LengthAssumption, BoundAssumption DEF LengthAssumption, BoundAssumption, Udp, Nothing, Timeout
<1>1. handler \in Command /\ handler.from = 0
  BY DEF Init, None, Command, Kinds
<1>2. /\ tcp_task \in Seq(Command) /\ Len(tcp_task) = 0
      /\ tcp_respond \in Seq(Answer) /\ Len(tcp_respond) = 0
      /\ replies \in Seq(Answer \union {Timeout, Nothing}) /\ Len(replies) = 0
  BY DEF Init
<1> QED
  BY <1>1, <1>2 DEF Init, TypeInv, TypeOK, Asked, Newest

(* Later there are more clients that an answer may be for. *)
LEMMA LaterAnswers ==
  ASSUME NEW reply \in Answer \union {Timeout, Nothing}, TypeOK,
         replies' = Append(replies, reply)
  PROVE  /\ Len(replies') = Len(replies) + 1
         /\ Answer \subseteq Answer'
         /\ replies' \in Seq(Answer' \union {Timeout, Nothing})
         /\ tcp_respond \in Seq(Answer')
<1>1. Len(replies') = Len(replies) + 1
  BY DEF TypeOK
<1>2. Answer \subseteq Answer'
  BY <1>1 DEF Answer, Udp, TypeOK
<1>3. replies' \in Seq(Answer \union {Timeout, Nothing})
  BY DEF TypeOK
<1>4. Answer \union {Timeout, Nothing} \subseteq Answer' \union {Timeout, Nothing}
  BY <1>2
<1> HIDE DEF Answer
<1> QED
  BY <1>1, <1>2, <1>3, <1>4 DEF TypeOK

(* Every step of the server and of the handler keeps the types. *)
LEMMA NextTypeInv ==
  ASSUME TypeInv, [Next]_vars
  PROVE  TypeInv'
<1> USE LengthAssumption, BoundAssumption DEF LengthAssumption, BoundAssumption, Udp, Nothing, Timeout
<1>1. CASE Accept
  <2>1. client' = Len(replies) + 1 /\ server' = "recv" /\ Newest' = Newest
    BY <1>1 DEF Accept, Newest
  <2> QED
    BY <1>1, <2>1 DEF Accept, TypeInv, TypeOK, Asked, Answer
<1>2. ASSUME NEW reply \in Answer \union {Timeout, Nothing}, Close(reply),
             reply <= Newest \/ reply \in {Timeout, Nothing},
             server \in {"recv", "poll"},
             UNCHANGED <<respond_value, tcp_task, tcp_respond, handler, udp>>
      PROVE  TypeInv'
  <2>1. /\ Len(replies') = Len(replies) + 1
        /\ Answer \subseteq Answer'
        /\ replies' \in Seq(Answer' \union {Timeout, Nothing})
        /\ tcp_respond \in Seq(Answer')
    BY <1>2, LaterAnswers DEF TypeInv, Close
  <2>2. Newest' = Len(replies) + 1 /\ Newest <= Newest' /\ Newest \in Nat
    BY <1>2, <2>1 DEF Newest, Close, TypeInv, TypeOK, Asked
  <2>3. TypeOK'
    BY <1>2, <2>1 DEF TypeInv, TypeOK, Close
  <2>4. Asked'
    <3>1. \A i \in 1 .. Len(tcp_task') : tcp_task'[i].from \in 1 .. Newest'
      BY <1>2, <2>2 DEF TypeInv, Asked
    <3>2. handler'.from <= Newest'
      BY <1>2, <2>2 DEF TypeInv, Asked, TypeOK, Command
    <3>3. \A i \in 1 .. Len(tcp_respond') : tcp_respond'[i] <= Newest'
      BY <1>2, <2>2 DEF TypeInv, Asked, TypeOK, Answer
    <3> QED
      BY <1>2, <3>1, <3>2, <3>3 DEF Asked, Close
  <2> QED
    BY <2>3, <2>4 DEF TypeInv
<1>3. CASE ReceiveNothing
  BY <1>2, <1>3 DEF ReceiveNothing
<1>4. CASE Send
  <2>1. PICK reply \in {respond_value, Nothing} : Close(reply)
    BY <1>4 DEF Send
  <2>2. reply \in Answer \union {Timeout, Nothing}
    BY <2>1 DEF TypeInv, TypeOK
  <2>3. reply <= Newest \/ reply \in {Timeout, Nothing}
    BY <1>4, <2>1 DEF Send, TypeInv, Asked
  <2> QED
    BY <1>2, <1>4, <2>1, <2>2, <2>3 DEF Send
<1>5. ASSUME NEW kind \in Kinds, Request(kind) PROVE TypeInv'
  <2> DEFINE command == [from |-> client, kind |-> kind]
  <2>1. client = Len(replies) + 1 /\ client \in Nat \ {0}
        /\ command \in Command /\ command.from = client
    BY <1>5 DEF Request, TypeInv, TypeOK, Asked, Command
  <2>2. Newest = Len(replies) /\ Newest' = client /\ Len(replies) \in Nat
    BY <1>5 DEF Request, Newest, TypeInv, TypeOK
  <2>3. \/ tcp_task' = tcp_task
        \/ HasRoom(tcp_task) /\ tcp_task' = Append(tcp_task, command)
    BY <1>5 DEF Request
  <2> HIDE DEF command
  <2>10. tcp_task \in Seq(Command) /\ Len(tcp_task) <= QueueLength
    BY DEF TypeInv, TypeOK
  <2>4. tcp_task' \in Seq(Command) /\ Len(tcp_task') <= QueueLength
    <3>1. CASE tcp_task' = tcp_task
      BY <2>10, <3>1
    <3>2. CASE HasRoom(tcp_task) /\ tcp_task' = Append(tcp_task, command)
      BY <2>1, <2>10, <3>2 DEF HasRoom
    <3> QED
      BY <2>3, <3>1, <3>2
  <2>5. ASSUME NEW i \in 1 .. Len(tcp_task') PROVE tcp_task'[i].from \in 1 .. Newest'
    <3>1. CASE i \in 1 .. Len(tcp_task) /\ tcp_task'[i] = tcp_task[i]
      BY <2>1, <2>2, <3>1 DEF TypeInv, Asked
    <3>2. CASE tcp_task'[i] = command
      BY <2>1, <2>2, <3>2
    <3>3. tcp_task'[i] = command \/ (i \in 1 .. Len(tcp_task) /\ tcp_task'[i] = tcp_task[i])
      BY <2>1, <2>3, <2>10
    <3> QED
      BY <3>1, <3>2, <3>3
  <2>6. TypeOK'
    BY <1>5, <2>4 DEF Request, TypeInv, TypeOK, Answer
  <2>7. handler'.from <= Newest'
    BY <1>5, <2>1, <2>2 DEF Request, TypeInv, Asked, TypeOK, Command
  <2>8. \A i \in 1 .. Len(tcp_respond') : tcp_respond'[i] <= Newest'
    BY <1>5, <2>1, <2>2 DEF Request, TypeInv, Asked, TypeOK, Answer
  <2>9. Asked'
    BY <1>5, <2>1, <2>2, <2>5, <2>7, <2>8 DEF Request, Asked
  <2> QED
    BY <2>6, <2>9 DEF TypeInv
<1>6. CASE Poll
  <2>1. /\ respond_value' \in Answer /\ respond_value' <= Newest
        /\ tcp_respond' \in Seq(Answer) /\ Len(tcp_respond') <= QueueLength
        /\ \A i \in 1 .. Len(tcp_respond') : tcp_respond'[i] <= Newest
    BY <1>6 DEF Poll, NextAnswer, TypeInv, TypeOK, Asked
  <2>2. Newest' = Newest /\ Answer' = Answer
    BY <1>6 DEF Poll, Newest, Answer
  <2> QED
    BY <1>6, <2>1, <2>2 DEF Poll, TypeInv, TypeOK, Asked
<1>7. CASE GiveUp
  <2>1. Newest' = Newest /\ Answer' = Answer /\ Newest \in Nat
    BY <1>7 DEF GiveUp, Newest, Answer, TypeInv, TypeOK
  <2> QED
    BY <1>7, <2>1 DEF GiveUp, TypeInv, TypeOK, Asked
<1>8. CASE Take
  <2>1. /\ handler' \in Command /\ handler'.from <= Newest
        /\ tcp_task' \in Seq(Command) /\ Len(tcp_task') <= QueueLength
        /\ \A i \in 1 .. Len(tcp_task') : tcp_task'[i].from \in 1 .. Newest
    BY <1>8 DEF Take, TypeInv, TypeOK, Asked
  <2>2. Newest' = Newest /\ Answer' = Answer
    BY <1>8 DEF Take, Newest, Answer
  <2> QED
    BY <1>8, <2>1, <2>2 DEF Take, TypeInv, TypeOK, Asked
<1>9. CASE Handle
  <2>1. handler.from \in Answer /\ handler.from <= Newest /\ Newest \in Nat
    BY DEF TypeInv, TypeOK, Asked, Newest, Answer, Command
  <2>2. \/ tcp_respond' = tcp_respond
        \/ HasRoom(tcp_respond) /\ tcp_respond' = Append(tcp_respond, handler.from)
    BY <1>9 DEF Handle, Answers
  <2>3. tcp_respond' \in Seq(Answer) /\ Len(tcp_respond') <= QueueLength
    BY <2>1, <2>2 DEF TypeInv, TypeOK, HasRoom
  <2>4. \A i \in 1 .. Len(tcp_respond') : tcp_respond'[i] <= Newest
    BY <2>1, <2>2 DEF TypeInv, TypeOK, Asked
  <2>5. handler' \in Command /\ handler'.from = 0
    BY <1>9 DEF Handle, None, Command, Kinds
  <2>6. Newest' = Newest /\ Answer' = Answer
    BY <1>9 DEF Handle, Newest, Answer
  <2> QED
    BY <1>9, <2>1, <2>3, <2>4, <2>5, <2>6 DEF Handle, TypeInv, TypeOK, Asked
<1>10. CASE TakeUdp
  <2>1. handler' \in Command /\ handler'.from = 0
    BY <1>10 DEF TakeUdp, Command, Kinds
  <2>2. Newest' = Newest /\ Answer' = Answer /\ Newest \in Nat
    BY <1>10 DEF TakeUdp, Newest, Answer, TypeInv, TypeOK
  <2> QED
    BY <1>10, <2>1, <2>2 DEF TakeUdp, TypeInv, TypeOK, Asked
<1>11. CASE UNCHANGED vars
  BY <1>11 DEF vars, TypeInv, TypeOK, Asked, Newest, Answer
<1> QED
  BY <1>1, <1>3, <1>4, <1>5, <1>6, <1>7, <1>8, <1>9, <1>10, <1>11
  DEF Next, Client, Server, Handler

-----------------------------------------------------------------------------
(* Whose commands and answers are where, set_location by UDP left out. *)
Asking == {tcp_task[i].from : i \in 1 .. Len(tcp_task)}
Handling == {handler.from} \ {Udp}
Answering == {tcp_respond[i] : i \in 1 .. Len(tcp_respond)} \ {Udp}
Sending == IF server = "poll" /\ respond_value > Udp THEN {respond_value} ELSE {}
Replied == {replies[i] : i \in 1 .. Len(replies)} \ {Udp, Timeout, Nothing}

Precedes(S, T) == \A m \in S, n \in T : m < n
Increasing(answers) ==
  \A i, j \in 1 .. Len(answers) :
    i < j /\ answers[i] > Udp /\ answers[j] > Udp => answers[i] < answers[j]

(* On its way from tcp_task through the handler and back, no command and no answer *)
(* overtakes another.                                                              *)
InOrder ==
  /\ \A i, j \in 1 .. Len(tcp_task) : i < j => tcp_task[i].from < tcp_task[j].from
  /\ Increasing(tcp_respond)
  /\ Increasing(replies)
  /\ Precedes(Handling, Asking)
  /\ Precedes(Answering, Handling \union Asking)
  /\ Precedes(Sending, Answering \union Handling \union Asking)
  /\ Precedes(Replied, Sending \union Answering \union Handling \union Asking)
  /\ \A i \in 1 .. Len(replies) : replies[i] <= i

(* An element put at the end, above all the others, leaves a sequence increasing. *)
LEMMA IncreasingAppend ==
  ASSUME NEW answers \in Seq(Int), Increasing(answers), NEW last \in Int,
         last > Udp => \A i \in 1 .. Len(answers) : answers[i] < last
  PROVE  Increasing(Append(answers, last))
<1> DEFINE longer == Append(answers, last)
<1>1. /\ Len(longer) = Len(answers) + 1 /\ Len(answers) \in Nat
      /\ \A i \in 1 .. Len(answers) : longer[i] = answers[i]
      /\ longer[Len(answers) + 1] = last
  OBVIOUS
<1> HIDE DEF longer
<1>2. ASSUME NEW i \in 1 .. Len(longer), NEW j \in 1 .. Len(longer),
             i < j, longer[i] > Udp, longer[j] > Udp
      PROVE  longer[i] < longer[j]
  <2>1. i \in 1 .. Len(answers)
    BY <1>1, <1>2
  <2>2. CASE j \in 1 .. Len(answers)
    BY <1>1, <1>2, <2>1, <2>2 DEF Increasing
  <2>3. CASE j = Len(answers) + 1
    BY <1>1, <1>2, <2>1, <2>3
  <2> QED
    BY <1>1, <2>2, <2>3
<1>3. Increasing(longer)
  BY <1>2 DEF Increasing
<1> QED
  BY <1>3 DEF longer

(* So does taking the first one away. *)
LEMMA IncreasingTail ==
  ASSUME NEW answers \in Seq(Int), Increasing(answers), answers # <<>>
  PROVE  Increasing(Tail(answers))
  BY DEF Increasing

(* What is on the way comes from the clients that have asked. *)
LEMMA AskedBefore ==
  ASSUME TypeInv
  PROVE  /\ Newest \in Nat
         /\ \A n \in Asking \union Handling \union Answering \union Sending :
              n \in 1 .. Newest
         /\ tcp_respond \in Seq(Int) /\ replies \in Seq(Int) /\ respond_value \in Int
<1> USE DEF Udp, Timeout, Nothing
<1>1. Newest \in Nat
  BY DEF TypeInv, TypeOK, Asked, Newest
<1>2. \A n \in Asking : n \in 1 .. Newest
  BY DEF TypeInv, Asked, Asking
<1>3. \A n \in Handling : n \in 1 .. Newest
  BY <1>1 DEF TypeInv, TypeOK, Asked, Handling, Command
<1>4. \A n \in Answering : n \in 1 .. Newest
  BY <1>1 DEF TypeInv, TypeOK, Asked, Answering, Answer
<1>5. \A n \in Sending : n \in 1 .. Newest
  BY <1>1 DEF TypeInv, TypeOK, Asked, Sending, Answer
<1>6. Answer \subseteq Int
  BY DEF Answer
<1>7. Answer \union {Timeout, Nothing} \subseteq Int
  BY <1>6
<1> HIDE DEF Answer, Timeout, Nothing
<1>8. tcp_respond \in Seq(Int) /\ replies \in Seq(Int) /\ respond_value \in Int
  BY <1>6, <1>7, SeqMonotonic DEF TypeInv, TypeOK
<1> QED
  BY <1>1, <1>2, <1>3, <1>4, <1>5, <1>8

(* Every step keeps the order. *)
LEMMA NextInOrder ==
  ASSUME TypeInv, InOrder, [Next]_vars
  PROVE  InOrder'
<1> USE DEF Udp, Timeout, Nothing
<1>0. /\ Newest \in Nat
      /\ \A n \in Asking \union Handling \union Answering \union Sending : n \in 1 .. Newest
      /\ tcp_respond \in Seq(Int) /\ replies \in Seq(Int) /\ respond_value \in Int
  BY AskedBefore
<1>1. CASE Accept
  <2>1. UNCHANGED <<Asking, Handling, Answering, Replied>> /\ Sending' = {}
    BY <1>1 DEF Accept, Asking, Handling, Answering, Replied, Sending
  <2> QED
    BY <1>1, <2>1 DEF Accept, InOrder, Increasing, Precedes
<1>2. ASSUME NEW reply \in Sending \union {Timeout, Nothing, Udp}, Close(reply),
             UNCHANGED <<respond_value, tcp_task, tcp_respond, handler, udp>>,
             server \in {"recv", "poll"}
      PROVE  InOrder'
  <2>1. UNCHANGED <<Asking, Handling, Answering>> /\ Sending' = {}
    BY <1>2 DEF Close, Asking, Handling, Answering, Sending
  <2>2. /\ Len(replies') = Len(replies) + 1 /\ reply \in Int
        /\ \A i \in 1 .. Len(replies) : replies'[i] = replies[i]
        /\ replies'[Len(replies) + 1] = reply
    BY <1>0, <1>2, AppendProperties DEF Close, Sending
  <2>3. Replied' \subseteq Replied \union Sending
    <3> SUFFICES ASSUME NEW n \in Replied' PROVE n \in Replied \union Sending
      OBVIOUS
    <3>1. PICK i \in 1 .. Len(replies') : n = replies'[i] /\ n \notin {Udp, Timeout, Nothing}
      BY DEF Replied
    <3>2. CASE i \in 1 .. Len(replies)
      BY <2>2, <3>1, <3>2 DEF Replied
    <3>3. CASE i = Len(replies) + 1
      BY <1>2, <2>2, <3>1, <3>3
    <3> QED
      BY <1>0, <2>2, <3>2, <3>3
  <2>4. reply > Udp => \A i \in 1 .. Len(replies) : replies[i] < reply
    <3> SUFFICES ASSUME reply > Udp, NEW i \in 1 .. Len(replies) PROVE replies[i] < reply
      OBVIOUS
    <3>1. reply \in Sending
      BY <1>2
    <3>2. CASE replies[i] \in Replied
      BY <3>1, <3>2 DEF InOrder, Precedes
    <3>3. CASE replies[i] \in {Udp, Timeout, Nothing}
      BY <1>0, <1>2, <3>3
    <3> QED
      BY <3>2, <3>3 DEF Replied
  <2>5. Increasing(replies')
    BY <1>0, <1>2, <2>2, <2>4, IncreasingAppend DEF Close, InOrder
  <2>6. reply <= Len(replies) + 1
    BY <1>0, <1>2 DEF Newest, TypeInv, TypeOK, Asked
  <2>7. ASSUME NEW i \in 1 .. Len(replies') PROVE replies'[i] <= i
    <3>1. CASE i \in 1 .. Len(replies)
      BY <2>2, <3>1 DEF InOrder
    <3>2. CASE i = Len(replies) + 1
      BY <2>2, <2>6, <3>2
    <3> QED
      BY <1>0, <2>2, <3>1, <3>2
  <2>8. Precedes(Replied', Answering \union Handling \union Asking)
    BY <2>3 DEF InOrder, Precedes
  <2>9. /\ Precedes(Handling', Asking')
        /\ Precedes(Answering', (Handling \union Asking)')
        /\ Precedes(Sending', (Answering \union Handling \union Asking)')
        /\ Precedes(Replied', (Sending \union Answering \union Handling \union Asking)')
    BY <2>1, <2>8 DEF InOrder, Precedes
  <2> QED
    BY <1>2, <2>5, <2>7, <2>9 DEF InOrder, Increasing
<1>3. CASE ReceiveNothing
  BY <1>2, <1>3 DEF ReceiveNothing
<1>4. CASE Send
  <2>1. PICK reply \in {respond_value, Nothing} : Close(reply)
    BY <1>4 DEF Send
  <2>2. reply \in Sending \union {Timeout, Nothing, Udp}
    BY <1>4, <2>1 DEF Send, Sending, TypeInv, TypeOK, Answer
  <2> QED
    BY <1>2, <1>4, <2>1, <2>2 DEF Send
<1>5. ASSUME NEW kind \in Kinds, Request(kind) PROVE InOrder'
  <2> DEFINE command == [from |-> client, kind |-> kind]
  <2>1. command.from = client /\ client = Newest + 1 /\ command \in Command
    BY <1>5 DEF Request, Newest, TypeInv, TypeOK, Asked, Command
  <2>2. \/ tcp_task' = tcp_task
        \/ tcp_task' = Append(tcp_task, command)
    BY <1>5 DEF Request
  <2> HIDE DEF command
  <2>3. tcp_task \in Seq(Command)
    BY DEF TypeInv, TypeOK
  <2>4. \A i \in 1 .. Len(tcp_task') :
          \/ i \in 1 .. Len(tcp_task) /\ tcp_task'[i] = tcp_task[i]
          \/ i = Len(tcp_task) + 1 /\ tcp_task'[i] = command
    <3>1. CASE tcp_task' = tcp_task
      BY <2>3, <3>1
    <3>2. CASE tcp_task' = Append(tcp_task, command)
      <4>1. /\ Len(tcp_task') = Len(tcp_task) + 1 /\ Len(tcp_task) \in Nat
            /\ \A i \in 1 .. Len(tcp_task) : tcp_task'[i] = tcp_task[i]
            /\ tcp_task'[Len(tcp_task) + 1] = command
        BY <2>1, <2>3, <3>2, AppendProperties
      <4> QED
        BY <4>1
    <3> QED
      BY <2>2, <3>1, <3>2
  <2>5. Asking' \subseteq Asking \union {client}
    BY <2>1, <2>4 DEF Asking
  <2>6. ASSUME NEW i \in 1 .. Len(tcp_task'), NEW j \in 1 .. Len(tcp_task'), i < j
        PROVE  tcp_task'[i].from < tcp_task'[j].from
    <3>1. i \in 1 .. Len(tcp_task) /\ tcp_task'[i] = tcp_task[i]
      BY <2>2, <2>3, <2>4, <2>6
    <3>2. CASE j \in 1 .. Len(tcp_task) /\ tcp_task'[j] = tcp_task[j]
      BY <2>6, <3>1, <3>2 DEF InOrder
    <3>3. CASE tcp_task'[j] = command
      <4>1. tcp_task[i].from \in Asking
        BY <3>1 DEF Asking
      <4> QED
        BY <1>0, <2>1, <3>1, <3>3, <4>1
    <3> QED
      BY <2>4, <3>2, <3>3
  <2>7. UNCHANGED <<Handling, Answering, Replied>> /\ Sending' = {}
    BY <1>5 DEF Request, Handling, Answering, Replied, Sending
  <2>8. \A n \in Handling \union Answering \union Replied : n < client
    <3>1. \A n \in Replied : n <= Len(replies)
      BY <1>0 DEF Replied, InOrder
    <3>2. client = Len(replies) + 1 /\ client \in Nat /\ \A n \in Replied : n \in Int
      BY <1>0, <1>5 DEF Request, TypeInv, Asked, Replied
    <3>3. \A n \in Replied : n < client
      BY <1>0, <3>1, <3>2
    <3> QED
      BY <1>0, <2>1, <3>3
  <2>9. /\ Precedes(Handling', Asking')
        /\ Precedes(Answering', (Handling \union Asking)')
        /\ Precedes(Sending', (Answering \union Handling \union Asking)')
        /\ Precedes(Replied', (Sending \union Answering \union Handling \union Asking)')
    BY <2>5, <2>7, <2>8 DEF InOrder, Precedes
  <2> QED
    BY <1>5, <2>6, <2>9 DEF Request, InOrder, Increasing
<1>6. CASE Poll
  <2>1. /\ tcp_respond # <<>> /\ respond_value' = Head(tcp_respond)
        /\ tcp_respond' = Tail(tcp_respond) /\ server' = "poll"
    BY <1>6 DEF Poll, NextAnswer
  <2>2. /\ Len(tcp_respond') = Len(tcp_respond) - 1 /\ Len(tcp_respond) \in Nat \ {0}
        /\ respond_value' = tcp_respond[1]
        /\ \A i \in 1 .. Len(tcp_respond') : tcp_respond'[i] = tcp_respond[i + 1]
    BY <1>0, <2>1, HeadTailProperties
  <2>3. Sending' \union Answering' \subseteq Answering
    <3>1. Sending' \subseteq Answering
      BY <2>2 DEF Answering, Sending
    <3>2. ASSUME NEW n \in Answering' PROVE n \in Answering
      <4>1. PICK i \in 1 .. Len(tcp_respond') : n = tcp_respond'[i] /\ n # Udp
        BY DEF Answering
      <4>2. n = tcp_respond[i + 1] /\ i + 1 \in 1 .. Len(tcp_respond)
        BY <2>2, <4>1
      <4> QED
        BY <4>1, <4>2 DEF Answering
    <3> QED
      BY <3>1, <3>2
  <2>4. Precedes(Sending', Answering')
    <3> SUFFICES ASSUME NEW m \in Sending', NEW n \in Answering' PROVE m < n
      BY DEF Precedes
    <3>1. m = tcp_respond[1] /\ m > Udp
      BY <2>1, <2>2 DEF Sending
    <3>2. PICK i \in 1 .. Len(tcp_respond') : n = tcp_respond'[i]
      BY DEF Answering
    <3>3. n \in Answering
      BY <2>3
    <3>4. n = tcp_respond[i + 1] /\ i + 1 \in 1 .. Len(tcp_respond) /\ 1 < i + 1 /\ n > Udp
      BY <1>0, <2>2, <3>2, <3>3
    <3> QED
      BY <2>2, <3>1, <3>4 DEF InOrder, Increasing
  <2>5. UNCHANGED <<Asking, Handling, Replied>>
    BY <1>6 DEF Poll, Asking, Handling, Replied
  <2>6. /\ Precedes(Handling', Asking')
        /\ Precedes(Answering', (Handling \union Asking)')
        /\ Precedes(Sending', (Answering \union Handling \union Asking)')
        /\ Precedes(Replied', (Sending \union Answering \union Handling \union Asking)')
    BY <2>3, <2>4, <2>5 DEF InOrder, Precedes
  <2>7. Increasing(tcp_respond')
    BY <1>0, <2>1, IncreasingTail DEF InOrder
  <2> QED
    BY <1>6, <2>6, <2>7 DEF Poll, InOrder, Increasing
<1>7. CASE GiveUp
  <2>1. UNCHANGED <<Asking, Handling, Answering, Replied>> /\ Sending' = {}
    BY <1>7 DEF GiveUp, Asking, Handling, Answering, Replied, Sending
  <2> QED
    BY <1>7, <2>1 DEF GiveUp, InOrder, Increasing, Precedes
<1>8. CASE Take
  <2>1. tcp_task # <<>> /\ tcp_task \in Seq(Command) /\ handler' = Head(tcp_task)
        /\ tcp_task' = Tail(tcp_task) /\ handler.from = Udp
    BY <1>8 DEF Take, TypeInv, TypeOK, None
  <2>2. /\ Len(tcp_task') = Len(tcp_task) - 1 /\ Len(tcp_task) \in Nat \ {0}
        /\ handler' = tcp_task[1]
        /\ \A i \in 1 .. Len(tcp_task') : tcp_task'[i] = tcp_task[i + 1]
    BY <2>1, HeadTailProperties
  <2>3. ASSUME NEW n \in Asking'
        PROVE  n \in Asking /\ handler'.from < n
    <3>1. PICK i \in 1 .. Len(tcp_task') : n = tcp_task'[i].from
      BY DEF Asking
    <3>2. n = tcp_task[i + 1].from /\ i + 1 \in 1 .. Len(tcp_task) /\ 1 < i + 1
      BY <2>2, <3>1
    <3>3. 1 \in 1 .. Len(tcp_task)
      BY <2>2
    <3> QED
      BY <2>2, <3>2, <3>3 DEF Asking, InOrder
  <2>4. Handling' \subseteq Asking
    BY <2>2 DEF Handling, Asking
  <2>8. Precedes(Handling', Asking')
    BY <2>3 DEF Handling, Precedes
  <2>5. UNCHANGED <<Answering, Sending, Replied>>
    BY <1>8 DEF Take, Answering, Sending, Replied
  <2>6. /\ Precedes(Answering', (Handling \union Asking)')
        /\ Precedes(Sending', (Answering \union Handling \union Asking)')
        /\ Precedes(Replied', (Sending \union Answering \union Handling \union Asking)')
    BY <2>3, <2>4, <2>5 DEF InOrder, Precedes
  <2>7. ASSUME NEW i \in 1 .. Len(tcp_task'), NEW j \in 1 .. Len(tcp_task'), i < j
        PROVE  tcp_task'[i].from < tcp_task'[j].from
    <3>1. i + 1 \in 1 .. Len(tcp_task) /\ j + 1 \in 1 .. Len(tcp_task) /\ i + 1 < j + 1
      BY <2>2, <2>7
    <3> QED
      BY <2>2, <3>1 DEF InOrder
  <2> QED
    BY <1>8, <2>6, <2>7, <2>8 DEF Take, InOrder, Increasing
<1>9. CASE Handle
  <2>1. /\ tcp_respond' = tcp_respond \/ tcp_respond' = Append(tcp_respond, handler.from)
        /\ handler.from \in Nat
    BY <1>9 DEF Handle, Answers, TypeInv, TypeOK, Command
  <2>2. handler.from > Udp => \A i \in 1 .. Len(tcp_respond) : tcp_respond[i] < handler.from
    <3> SUFFICES ASSUME handler.from > Udp, NEW i \in 1 .. Len(tcp_respond)
                 PROVE  tcp_respond[i] < handler.from
      OBVIOUS
    <3>1. handler.from \in Handling
      BY DEF Handling
    <3>2. tcp_respond[i] = Udp \/ tcp_respond[i] \in Answering
      BY DEF Answering
    <3> QED
      BY <3>1, <3>2 DEF InOrder, Precedes
  <2>3. Increasing(tcp_respond')
    <3>1. Increasing(tcp_respond)
      BY DEF InOrder
    <3>2. handler.from \in Int
      BY <2>1
    <3>3. Increasing(Append(tcp_respond, handler.from))
      BY <1>0, <2>2, <3>1, <3>2, IncreasingAppend
    <3> QED
      BY <2>1, <3>1, <3>3
  <2>4. \A i \in 1 .. Len(tcp_respond') :
          tcp_respond'[i] = handler.from \/ \E j \in 1 .. Len(tcp_respond) : tcp_respond'[i] = tcp_respond[j]
    BY <2>1
  <2>5. Answering' \subseteq Answering \union Handling
    BY <2>4 DEF Answering, Handling
  <2>6. UNCHANGED <<Asking, Sending, Replied>> /\ Handling' = {}
    BY <1>9 DEF Handle, Asking, Sending, Replied, Handling, None
  <2>7. /\ Precedes(Handling', Asking')
        /\ Precedes(Answering', (Handling \union Asking)')
        /\ Precedes(Sending', (Answering \union Handling \union Asking)')
        /\ Precedes(Replied', (Sending \union Answering \union Handling \union Asking)')
    BY <2>5, <2>6 DEF InOrder, Precedes
  <2> QED
    BY <1>9, <2>3, <2>7 DEF Handle, InOrder, Increasing
<1>10. CASE TakeUdp
  <2>1. UNCHANGED <<Asking, Answering, Sending, Replied>> /\ Handling' = {}
    BY <1>10 DEF TakeUdp, Asking, Handling, Answering, Replied, Sending
  <2> QED
    BY <1>10, <2>1 DEF TakeUdp, InOrder, Increasing, Precedes
<1>11. CASE UNCHANGED vars
  BY <1>11 DEF vars, InOrder, Increasing, Precedes, Asking, Handling, Answering, Sending, Replied
<1> QED
  BY <1>1, <1>3, <1>4, <1>5, <1>6, <1>7, <1>8, <1>9, <1>10, <1>11
  DEF Next, Client, Server, Handler

(* For every length of the queues, however late the handler and whatever comes by UDP:  *)
(* no queue holds more than it was created for and each answer is for a client that has *)
(* connected, or UDP (net.c 767, 775).                                                  *)
THEOREM TypeCorrect == Spec => []TypeOK
  BY InitTypeInv, NextTypeInv, PTL DEF Spec, TypeInv

(* However late the handler: an answer goes to its own client or a later one, once, and *)
(* no client gets an older answer than the one before it got (net.c 737-744).           *)
THEOREM AnswersOrdered == Spec => []AnswersInOrder
<1>1. Init => InOrder
  <2> SUFFICES ASSUME Init PROVE InOrder
    OBVIOUS
  <2>1. /\ Asking = {} /\ Handling = {} /\ Answering = {} /\ Sending = {} /\ Replied = {}
        /\ Len(tcp_task) = 0 /\ Len(tcp_respond) = 0 /\ Len(replies) = 0
    BY DEF Init, None, Asking, Handling, Answering, Sending, Replied
  <2> QED
    BY <2>1 DEF InOrder, Increasing, Precedes
<1>2. TypeInv /\ InOrder => AnswersInOrder
  <2> SUFFICES ASSUME TypeInv, InOrder, NEW i \in DOMAIN replies, NEW j \in DOMAIN replies,
                      replies[i] > Udp
               PROVE  replies[i] <= i /\ (i < j => replies[j] \notin 1..replies[i])
    BY DEF AnswersInOrder
  <2>1. DOMAIN replies = 1 .. Len(replies) /\ \A k \in 1 .. Len(replies) : replies[k] \in Int
    BY AskedBefore
  <2> QED
    BY <2>1 DEF InOrder, Increasing, Udp
<1> QED
  BY <1>1, <1>2, InitTypeInv, NextTypeInv, NextInOrder, PTL DEF Spec
=================================================================================
