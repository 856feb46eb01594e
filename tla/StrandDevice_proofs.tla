------------------------- MODULE StrandDevice_proofs -------------------------
(***************************************************************************)
(* Theorems about StrandDevice: CONNECTED_BIT, the sockets, and the moves  *)
(* that an update keeps, for every number of sockets, of failures and of   *)
(* commands.                                                               *)
(***************************************************************************)
EXTENDS StrandDevice, TLAPS

(* Every step of the device is, for the link, a step of WifiLink, a restart or nothing. *)
LEMMA LinkEffect == Next => LinkNext \/ LinkRestart \/ UNCHANGED linkVars
  BY DEF Next, AppMain, StartUp, Greet, Report, CommandOta, CommandReset, EndMove, Updating,
         BeginUpdate, BitAfterWait, UpdateFails, UpdateSucceeds, Listening, Abort,
         RestartAfterAbort, Linking, Restart, linkVars

PoolNext == \/ ServeTcp \/ SendUdp \/ BeginDownload \/ EndDownload
            \/ \E h \in Udp : OpenUdp(h) \/ UdpFails(h) \/ RefuseUdp(h)

(* And so it is for the sockets. *)
LEMMA PoolEffect == Next => PoolNext \/ PoolRestart \/ UNCHANGED poolVars
  BY DEF Next, AppMain, StartUp, Greet, Report, CommandOta, CommandReset, EndMove, Updating,
         BeginUpdate, UpdateFails, UpdateSucceeds, Listening, Abort,
         RestartAfterAbort, Linking, Restart, PoolNext, Udp
-----------------------------------------------------------------------------
(* Type correctness *)

(* What the link to the network makes of its own state. *)
LEMMA LinkType ==
  ASSUME LinkTypeOK, LinkNext \/ LinkRestart \/ UNCHANGED linkVars
  PROVE  LinkTypeOK'
<1> USE DropAssumption DEF DropAssumption, LinkTypeOK
<1>1. CASE UNCHANGED linkVars
  BY <1>1 DEF linkVars
<1>2. CASE LinkRestart
  <2>1. <<"start">> \in Seq(Events)
    BY DEF Events
  <2>2. link' = "off" /\ events' = <<"start">> /\ drops' = drops
    BY <1>2 DEF LinkRestart
  <2>3. asked' \in BOOLEAN /\ lease' \in BOOLEAN /\ clearing' \in BOOLEAN /\ bit' \in BOOLEAN
    BY <1>2, Zenon DEF LinkRestart
  <2> QED
    BY <2>1, <2>2, <2>3
<1>3. CASE Join
  BY <1>3 DEF Join
<1>4. CASE GetAddress
  BY <1>4 DEF GetAddress, Events
<1>5. CASE JoinFails
  <2>1. drops' \in 0 .. MaxDrops /\ events' \in Seq(Events)
    BY <1>5 DEF JoinFails, Fails, Events
  <2>2. asked' \in BOOLEAN
    BY <1>5, Zenon DEF JoinFails
  <2>3. UNCHANGED <<link, lease, clearing, bit>>
    BY <1>5 DEF JoinFails
  <2> QED
    BY <2>1, <2>2, <2>3
<1>6. CASE Disconnect
  BY <1>6 DEF Disconnect, Fails, Events
<1>7. CASE LoseAddress
  <2>1. drops' \in 0 .. MaxDrops /\ events' \in Seq(Events)
    BY <1>7 DEF LoseAddress, Fails, Events
  <2>2. lease' \in BOOLEAN
    BY <1>7, Zenon DEF LoseAddress
  <2>3. link' \in {"off", "joined", "up"} /\ UNCHANGED <<asked, clearing, bit>>
    BY <1>7 DEF LoseAddress
  <2> QED
    BY <2>1, <2>2, <2>3
<1>8. CASE HandleEvent
  <2>1. (asked \/ (Asks(Head(events)) /\ link = "off")) \in BOOLEAN
        /\ (bit \/ Head(events) = "got_ip") \in BOOLEAN /\ Clears(Head(events)) \in BOOLEAN
    BY DEF Clears
  <2>2. Tail(events) \in Seq(Events)
    BY <1>8 DEF HandleEvent
  <2> QED
    BY <1>8, <2>1, <2>2 DEF HandleEvent
<1>9. CASE ClearBit
  BY <1>9 DEF ClearBit
<1> QED
  BY <1>1, <1>2, <1>3, <1>4, <1>5, <1>6, <1>7, <1>8, <1>9 DEF LinkNext, Handler, Driver

(* What the pool of sockets makes of its own. *)
LEMMA PoolType ==
  ASSUME PoolTypeOK, SocketsAccounted, PoolNext \/ PoolRestart \/ UNCHANGED poolVars
  PROVE  PoolTypeOK'
<1> USE SocketAssumption DEF SocketAssumption, PoolTypeOK, Holders
<1>a. HeldByTasks \in Nat /\ \A h \in Holders : holds[h] => HeldByTasks >= 1
  BY DEF HeldByTasks, One
<1>b. (downloads > 0 \/ \E h \in Holders : holds[h]) => open - 1 \in 0 .. MaxSockets
  BY <1>a DEF SocketsAccounted
<1>1. CASE UNCHANGED poolVars
  BY <1>1 DEF poolVars
<1>2. CASE PoolRestart
  <2>1. holds' \in [Holders -> BOOLEAN]
    BY <1>2, Zenon DEF PoolRestart, Nothing
  <2>2. tcpStarted' \in BOOLEAN
    BY <1>2, Zenon DEF PoolRestart
  <2>3. open' = 0 /\ downloads' = 0 /\ leaked' = 0 /\ refused' = {} /\ failures' = failures
    BY <1>2 DEF PoolRestart
  <2> QED
    BY <2>1, <2>2, <2>3
<1>3. CASE StartTcp
  <2>1. tcpStarted' \in BOOLEAN
    BY <1>3, Zenon DEF StartTcp
  <2>2. CASE Free /\ OpenFor("listen") /\ UNCHANGED <<downloads, leaked, refused, failures>>
    BY <2>1, <2>2 DEF OpenFor, Free
  <2>3. CASE Refuse("listen")
    BY <2>1, <2>3 DEF Refuse
  <2> QED
    BY <1>3, <2>2, <2>3 DEF StartTcp
<1>8. CASE Accept
  BY <1>8 DEF Accept, OpenFor, Free
<1>9. CASE RefuseClient
  BY <1>9 DEF RefuseClient, Refuse
<1>10. CASE CloseClient
  BY <1>10, <1>b DEF CloseClient, CloseOf
<1>4. CASE SendUdp
  BY <1>4 DEF SendUdp, Free
<1>5. CASE BeginDownload
  BY <1>5 DEF BeginDownload, Free
<1>6. CASE EndDownload
  BY <1>6, <1>b DEF EndDownload
<1>7. ASSUME NEW h \in Udp, OpenUdp(h) \/ UdpFails(h) \/ RefuseUdp(h)
      PROVE  PoolTypeOK'
  <2> h \in Holders
    BY DEF Udp
  <2>1. CASE OpenUdp(h)
    BY <2>1 DEF OpenUdp, OpenFor, Free
  <2>2. CASE UdpFails(h)
    BY <2>2, <1>b DEF UdpFails, CloseOf
  <2>3. CASE RefuseUdp(h)
    BY <2>3 DEF RefuseUdp, Refuse
  <2> QED
    BY <1>7, <2>1, <2>2, <2>3
<1> QED
  BY <1>1, <1>2, <1>3, <1>4, <1>5, <1>6, <1>7, <1>8, <1>9, <1>10
  DEF PoolNext, ServeTcp
-----------------------------------------------------------------------------
(* The sockets *)

(* The socket that the server listens on is opened when it starts, once. *)
ListenInv == holds["listen"] => tcpStarted

(* Every socket taken is accounted for, before and after a step. *)
LEMMA AccountsKept ==
  ASSUME PoolTypeOK, SocketsAccounted, ListenInv, PoolNext \/ PoolRestart \/ UNCHANGED poolVars
  PROVE  SocketsAccounted' /\ ListenInv'
<1> USE SocketAssumption DEF SocketAssumption, PoolTypeOK, Holders, SocketsAccounted,
                             HeldByTasks, One, ListenInv
<1>1. CASE UNCHANGED poolVars
  BY <1>1 DEF poolVars
<1>2. CASE PoolRestart
  BY <1>2 DEF PoolRestart, Nothing
<1>3. CASE StartTcp
  <2>1. ~holds["listen"] /\ tcpStarted'
    BY <1>3 DEF StartTcp
  <2>2. CASE OpenFor("listen") /\ UNCHANGED <<downloads, leaked, refused, failures>>
    BY <2>1, <2>2 DEF OpenFor
  <2>3. CASE Refuse("listen")
    BY <2>1, <2>3 DEF Refuse
  <2> QED
    BY <1>3, <2>2, <2>3 DEF StartTcp
<1>4. CASE Accept
  BY <1>4 DEF Accept, OpenFor
<1>5. CASE CloseClient
  BY <1>5 DEF CloseClient, CloseOf
<1>6. CASE RefuseClient
  BY <1>6 DEF RefuseClient, Refuse
<1>7. CASE SendUdp
  BY <1>7 DEF SendUdp
<1>8. CASE BeginDownload \/ EndDownload
  BY <1>8 DEF BeginDownload, EndDownload
<1>9. ASSUME NEW h \in Udp, OpenUdp(h) \/ UdpFails(h) \/ RefuseUdp(h)
      PROVE  SocketsAccounted' /\ ListenInv'
  <2>1. CASE OpenUdp(h)
    BY <2>1 DEF OpenUdp, OpenFor, Udp
  <2>2. CASE UdpFails(h)
    BY <2>2 DEF UdpFails, CloseOf, Udp
  <2>3. CASE RefuseUdp(h)
    BY <2>3 DEF RefuseUdp, Refuse
  <2> QED
    BY <1>9, <2>1, <2>2, <2>3
<1> QED
  BY <1>1, <1>2, <1>3, <1>4, <1>5, <1>6, <1>7, <1>8, <1>9 DEF PoolNext, ServeTcp

(* Update tasks are as many as were started, and a download is one of them. *)
UpdateBound == waiting + downloads <= updates

(* Every step of the device keeps the types of its parts. *)
LEMMA DeviceType ==
  ASSUME TypeOK, SocketsAccounted, Next
  PROVE  TypeOK'
<1>1. LinkTypeOK'
  BY LinkEffect, LinkType DEF TypeOK
<1>2. PoolTypeOK'
  BY PoolEffect, PoolType DEF TypeOK
<1>3. /\ stage' \in {"wifi", "greet", "run", "aborted"}
      /\ waiting' \in Nat /\ stuck' \in Nat /\ updates' \in Nat
      /\ ram' \in 0 .. MaxMoves /\ flash' \in 0 .. MaxMoves /\ atCommand' \in 0 .. MaxMoves
      /\ commands' \in 0 .. MaxCommands
  <2> USE CommandAssumption DEF CommandAssumption, TypeOK
  <2>1. CASE StartUp \/ Greet \/ EndMove
    BY <2>1 DEF StartUp, Greet, EndMove
  <2>2. CASE Report
    BY <2>2 DEF Report, Command
  <2>3. CASE CommandOta
    BY <2>3 DEF CommandOta, Command
  <2>4. CASE CommandReset
    BY <2>4 DEF CommandReset, Command, Restart
  <2>5. CASE BeginUpdate
    BY <2>5 DEF BeginUpdate
  <2>6. CASE UpdateFails
    BY <2>6 DEF UpdateFails
  <2>7. CASE UpdateSucceeds \/ RestartAfterAbort
    BY <2>7 DEF UpdateSucceeds, RestartAfterAbort, Restart
  <2>8. CASE Listening \/ Linking
    BY <2>8 DEF Listening, Linking, deviceVars
  <2>9. CASE Abort
    BY <2>9 DEF Abort
  <2> QED
    BY <2>1, <2>2, <2>3, <2>4, <2>5, <2>6, <2>7, <2>8, <2>9 DEF Next, AppMain, Updating
<1> QED
  BY <1>1, <1>2, <1>3 DEF TypeOK

DeviceInv == TypeOK /\ SocketsAccounted /\ ListenInv

(* So the device has them always. *)
LEMMA DeviceInvariant == Spec => []DeviceInv
<1>1. Init => DeviceInv
  <2> SUFFICES ASSUME Init PROVE DeviceInv
    OBVIOUS
  <2> USE DropAssumption, SocketAssumption, CommandAssumption
      DEF DropAssumption, SocketAssumption, CommandAssumption, Init
  <2>1. LinkTypeOK
    <3>1. <<"start">> \in Seq(Events)
      BY DEF Events
    <3>2. asked \in BOOLEAN /\ lease \in BOOLEAN /\ clearing \in BOOLEAN /\ bit \in BOOLEAN
      BY Zenon DEF LinkInit
    <3> QED
      BY <3>1, <3>2 DEF LinkInit, LinkTypeOK
  <2>2. PoolTypeOK /\ SocketsAccounted /\ ListenInv
    <3>1. holds \in [Holders -> BOOLEAN] /\ tcpStarted \in BOOLEAN
      BY Zenon DEF PoolInit, Nothing
    <3> QED
      BY <3>1 DEF PoolInit, PoolTypeOK, SocketsAccounted, HeldByTasks, One, ListenInv, Nothing,
                  Holders
  <2> QED
    BY <2>1, <2>2 DEF DeviceInv, TypeOK
<1>2. DeviceInv /\ [Next]_vars => DeviceInv'
  <2> SUFFICES ASSUME DeviceInv, [Next]_vars PROVE DeviceInv'
    OBVIOUS
  <2>1. CASE Next
    <3>1. TypeOK'
      BY <2>1, DeviceType DEF DeviceInv
    <3>2. SocketsAccounted' /\ ListenInv'
      BY <2>1, PoolEffect, AccountsKept DEF DeviceInv, TypeOK
    <3> QED
      BY <3>1, <3>2 DEF DeviceInv
  <2>2. CASE UNCHANGED vars
    BY <2>2 DEF DeviceInv, TypeOK, LinkTypeOK, PoolTypeOK, SocketsAccounted, HeldByTasks,
                ListenInv, vars, linkVars, poolVars, deviceVars
  <2> QED
    BY <2>1, <2>2
<1> QED
  BY <1>1, <1>2, PTL DEF Spec

(* Types, for all numbers of sockets and all bounds *)
THEOREM TypeCorrect == Spec => []TypeOK
<1>1. DeviceInv => TypeOK
  BY DEF DeviceInv
<1> QED
  BY <1>1, DeviceInvariant, PTL

(* However the sockets are opened, closed, refused and used up (net.c 380-791), the open *)
(* ones are those of the tasks, of the downloads and of the messages to the server.      *)
THEOREM SocketsAreAccounted == Spec => []SocketsAccounted
<1>1. DeviceInv => SocketsAccounted
  BY DEF DeviceInv
<1> QED
  BY <1>1, DeviceInvariant, PTL
-----------------------------------------------------------------------------
(* What is refused *)

RefusedInv == RefusedOnlyByLeak /\ UpdateBound

(* Who finds no socket has none himself, so the tasks hold three at most. *)
LEMMA RefuseNeedsLeak ==
  ASSUME DeviceInv, UpdateBound, NEW h \in Holders, ~holds[h], Refuse(h)
  PROVE  leaked + updates >= MaxSockets - 3
<1>1. open >= MaxSockets
  BY SocketAssumption DEF Refuse, Free, DeviceInv, TypeOK, PoolTypeOK, SocketAssumption
<1>2. HeldByTasks \in Nat /\ HeldByTasks <= 3
  BY DEF HeldByTasks, One, Holders, DeviceInv, TypeOK, PoolTypeOK
<1>3. downloads <= updates
  BY DEF UpdateBound, DeviceInv, TypeOK, PoolTypeOK
<1> QED
  BY <1>1, <1>2, <1>3, SocketAssumption
  DEF SocketAssumption, DeviceInv, SocketsAccounted, TypeOK, PoolTypeOK

(* A step keeps what is known of refused connections. *)
LEMMA RefusedKept ==
  ASSUME DeviceInv, RefusedInv, Next
  PROVE  RefusedInv'
<1> USE SocketAssumption
    DEF SocketAssumption, RefusedInv, RefusedOnlyByLeak, UpdateBound, DeviceInv, TypeOK, PoolTypeOK
<1>1. CASE StartUp \/ EndMove \/ Linking
  BY <1>1 DEF StartUp, EndMove, Linking, poolVars, deviceVars
<1>2. CASE Greet \/ Report
  BY <1>2 DEF Greet, Report, SendUdp
<1>3. CASE CommandOta
  BY <1>3 DEF CommandOta, poolVars
<1>4. CASE CommandReset \/ UpdateSucceeds \/ RestartAfterAbort
  BY <1>4 DEF CommandReset, UpdateSucceeds, RestartAfterAbort, Restart, PoolRestart
<1>5. CASE BeginUpdate
  BY <1>5 DEF BeginUpdate, BeginDownload, poolVars
<1>6. CASE UpdateFails
  BY <1>6 DEF UpdateFails, EndDownload
<1>7. ASSUME NEW h \in Holders, ~holds[h], Refuse(h), UNCHANGED <<waiting, updates>>
      PROVE  RefusedInv'
  <2>1. leaked + updates >= MaxSockets - 3
    BY <1>7, RefuseNeedsLeak
  <2> QED
    BY <1>7, <2>1 DEF Refuse
<1>8. CASE Listening
  <2>1. UNCHANGED <<waiting, updates>>
    BY <1>8 DEF Listening, deviceVars
  <2>2. CASE StartTcp
    <3>1. ~holds["listen"]
      BY <2>2 DEF StartTcp, ListenInv
    <3>2. CASE Refuse("listen")
      BY <2>1, <3>1, <3>2, <1>7 DEF Holders
    <3> QED
      BY <2>1, <2>2, <3>2 DEF StartTcp
  <2>3. CASE RefuseClient
    BY <2>1, <2>3, <1>7 DEF RefuseClient, Holders
  <2>4. CASE RefuseUdp("multicast")
    BY <2>1, <2>4, <1>7 DEF RefuseUdp, Holders
  <2>5. CASE Accept \/ CloseClient
    BY <2>1, <2>5 DEF Accept, CloseClient
  <2>6. CASE \E h \in Udp : OpenUdp(h) \/ UdpFails(h)
    BY <2>1, <2>6 DEF OpenUdp, UdpFails
  <2> QED
    BY <1>8, <2>2, <2>3, <2>4, <2>5, <2>6 DEF Listening, ServeTcp
<1>9. CASE Abort
  <2>1. RefuseUdp("broadcast") /\ UNCHANGED <<waiting, updates>>
    BY <1>9 DEF Abort
  <2> QED
    BY <2>1, <1>7 DEF RefuseUdp, Holders
<1> QED
  BY <1>1, <1>2, <1>3, <1>4, <1>5, <1>6, <1>8, <1>9 DEF Next, AppMain, Updating

(* For every number of sockets: nobody is turned away, and broadcast_task does not end, *)
(* before messages to the server and updates have left only three (net.c 385, 422, 534). *)
THEOREM RefusalNeedsLeak == Spec => []RefusedOnlyByLeak
<1>1. Init => RefusedInv
  BY DEF Init, PoolInit, RefusedInv, RefusedOnlyByLeak, UpdateBound
<1>2. DeviceInv /\ RefusedInv /\ [Next]_vars => RefusedInv'
  <2>1. DeviceInv /\ RefusedInv /\ Next => RefusedInv'
    BY RefusedKept
  <2>2. RefusedInv /\ UNCHANGED vars => RefusedInv'
    BY DEF RefusedInv, RefusedOnlyByLeak, UpdateBound, vars, poolVars, deviceVars
  <2> QED
    BY <2>1, <2>2
<1>3. RefusedInv => RefusedOnlyByLeak
  BY DEF RefusedInv
<1> QED
  BY <1>1, <1>2, <1>3, DeviceInvariant, PTL DEF Spec
-----------------------------------------------------------------------------
(* What an update keeps *)

(* The last ota command was saved; RAM is never behind what is saved. *)
OtaInv == flash >= atCommand /\ (stage # "wifi" => ram >= flash)

(* A step keeps what is known of the update. *)
LEMMA OtaInvKept ==
  ASSUME TypeOK, OtaInv, Next
  PROVE  OtaInv'
<1> USE CommandAssumption DEF CommandAssumption, TypeOK, OtaInv
<1>1. CASE StartUp \/ Greet \/ EndMove
  BY <1>1 DEF StartUp, Greet, EndMove
<1>2. CASE Report
  BY <1>2 DEF Report, Command
<1>3. CASE CommandOta
  BY <1>3 DEF CommandOta, Command
<1>4. CASE CommandReset
  BY <1>4 DEF CommandReset, Command, Restart
<1>5. CASE UpdateSucceeds \/ RestartAfterAbort
  BY <1>5 DEF UpdateSucceeds, RestartAfterAbort, Restart
<1>6. CASE BeginUpdate \/ UpdateFails
  BY <1>6 DEF BeginUpdate, UpdateFails
<1>7. CASE Listening \/ Linking
  BY <1>7 DEF Listening, Linking, deviceVars
<1>8. CASE Abort
  BY <1>8 DEF Abort
<1> QED
  BY <1>1, <1>2, <1>3, <1>4, <1>5, <1>6, <1>7, <1>8 DEF Next, AppMain, Updating

(* For every number of commands and moves: no restart takes back a move that had ended *)
(* when the last ota command came (net.c 794-798).                                      *)
THEOREM UpdateKeepsMoves == Spec => []OtaKeepsMoves
<1>1. Init => OtaInv
  BY DEF Init, OtaInv
<1>2. TypeOK /\ OtaInv /\ [Next]_vars => OtaInv'
  <2>1. TypeOK /\ OtaInv /\ Next => OtaInv'
    BY OtaInvKept
  <2>2. OtaInv /\ UNCHANGED vars => OtaInv'
    BY DEF OtaInv, vars, deviceVars
  <2> QED
    BY <2>1, <2>2
<1>3. TypeOK /\ OtaInv => OtaKeepsMoves
  BY DEF OtaInv, OtaKeepsMoves, TypeOK
<1> QED
  BY <1>1, <1>2, <1>3, TypeCorrect, PTL DEF Spec
-----------------------------------------------------------------------------
(* CONNECTED_BIT *)

(* The newest event the handler has not dealt with tells the link, and the start of the *)
(* driver is the first of all.                                                          *)
LinkInv ==
  /\ IF events # <<>> THEN events[Len(events)] = "got_ip" <=> link = "up"
     ELSE IF clearing THEN link # "up"
     ELSE bit <=> link = "up"
  /\ \A i \in 1 .. Len(events) : events[i] = "start" => i = 1 /\ ~bit /\ ~clearing

(* An event that is added tells the link. *)
LEMMA EventAdded ==
  ASSUME LinkTypeOK, LinkInv, NEW e \in Events, e # "start", events' = Append(events, e),
         e = "got_ip" <=> link' = "up", UNCHANGED <<bit, clearing>>
  PROVE  LinkInv'
<1>1. events' # <<>> /\ Len(events') = Len(events) + 1 /\ events'[Len(events')] = e
  BY DEF LinkTypeOK
<1>2. ASSUME NEW i \in 1 .. Len(events'), events'[i] = "start"
      PROVE  i = 1 /\ ~bit' /\ ~clearing'
  <2>1. i # Len(events')
    BY <1>1, <1>2
  <2>2. i \in 1 .. Len(events) /\ events'[i] = events[i]
    BY <2>1, <1>1 DEF LinkTypeOK
  <2> QED
    BY <2>2, <1>2 DEF LinkInv
<1> QED
  BY <1>1, <1>2 DEF LinkInv

(* A step keeps what is known of the link. *)
LEMMA LinkInvKept ==
  ASSUME LinkTypeOK, LinkInv, LinkNext \/ LinkRestart \/ UNCHANGED linkVars
  PROVE  LinkInv'
<1>1. CASE UNCHANGED linkVars
  BY <1>1 DEF linkVars, LinkInv
<1>2. CASE LinkRestart
  BY <1>2 DEF LinkRestart, LinkInv
<1>3. CASE Join
  BY <1>3 DEF Join, LinkInv
<1>4. CASE GetAddress
  BY <1>4, EventAdded DEF GetAddress, Events
<1>5. CASE JoinFails \/ Disconnect
  BY <1>5, EventAdded DEF JoinFails, Disconnect, Events
<1>6. CASE LoseAddress
  <2>1. link' # "up"
    BY <1>6 DEF LoseAddress
  <2> QED
    BY <1>6, <2>1, EventAdded DEF LoseAddress, Events
<1>7. CASE HandleEvent
  <2>1. /\ ~clearing /\ events # <<>> /\ events' = Tail(events) /\ link' = link
        /\ bit' = (bit \/ Head(events) = "got_ip")
        /\ clearing' = (Head(events) \in {"disconnected", "lost_ip"})
    BY <1>7 DEF HandleEvent, Clears
  <2>2. /\ Head(events) = events[1] /\ Head(events) \in Events /\ Len(events) \in Nat \ {0}
        /\ Len(events') = Len(events) - 1
        /\ \A i \in 1 .. Len(events') : events'[i] = events[i + 1]
    BY <2>1 DEF LinkTypeOK
  <2>3. \A i \in 1 .. Len(events') : events'[i] # "start"
    BY <2>2 DEF LinkInv
  <2>4. CASE Len(events) > 1
    <3>1. events' # <<>> /\ events'[Len(events')] = events[Len(events)]
      BY <2>2, <2>4
    <3> QED
      BY <2>1, <2>3, <3>1 DEF LinkInv
  <2>5. CASE Len(events) = 1
    <3>1. events' = <<>>
      BY <2>1, <2>2, <2>5 DEF LinkTypeOK
    <3>2. (Head(events) = "got_ip") <=> link' = "up"
      BY <2>1, <2>2, <2>5 DEF LinkInv
    <3>3. Head(events) = "start" => ~bit
      BY <2>2, <2>5 DEF LinkInv
    <3> QED
      BY <2>1, <2>2, <2>3, <3>1, <3>2, <3>3 DEF LinkInv, Events
  <2> QED
    BY <2>2, <2>4, <2>5
<1>8. CASE ClearBit
  BY <1>8 DEF ClearBit, LinkInv
<1> QED
  BY <1>1, <1>2, <1>3, <1>4, <1>5, <1>6, <1>7, <1>8 DEF LinkNext, Handler, Driver

(* For every number and order of failures: when the handler has dealt with all events, *)
(* the bit tells whether there is an address (net.c 249-263).                           *)
THEOREM BitFollowsLink == Spec => []BitTellsLink
<1>1. Init => LinkInv
  BY DEF Init, LinkInit, LinkInv
<1>2. TypeOK /\ LinkInv /\ [Next]_vars => LinkInv'
  <2>1. TypeOK /\ LinkInv /\ Next => LinkInv'
    BY LinkEffect, LinkInvKept DEF TypeOK
  <2>2. LinkInv /\ UNCHANGED vars => LinkInv'
    BY DEF LinkInv, vars, linkVars
  <2> QED
    BY <2>1, <2>2
<1>3. LinkInv => BitTellsLink
  BY DEF LinkInv, BitTellsLink
<1> QED
  BY <1>1, <1>2, <1>3, TypeCorrect, PTL DEF Spec
=============================================================================
