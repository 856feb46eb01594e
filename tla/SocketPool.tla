----------------------------- MODULE SocketPool -----------------------------
(***************************************************************************)
(* The sockets of a strand (main/src/net.c 380-791).  lwIP has a fixed     *)
(* number of them (CONFIG_LWIP_MAX_SOCKETS=10) for the tasks that listen,  *)
(* for the TCP client, for firmware downloads and for the messages to the  *)
(* server; send_udp opens one for each message and never closes it.        *)
(***************************************************************************)
EXTENDS Naturals

CONSTANTS
  MaxSockets,   \* CONFIG_LWIP_MAX_SOCKETS
  MaxFailures   \* bound of the model: failures of sockets

ASSUME SocketAssumption == MaxSockets \in Nat /\ MaxFailures \in Nat

VARIABLES
  open,        \* sockets in use, as lwIP counts them
  holds,       \* which of the sockets of the network tasks are open
  tcpStarted,  \* tcp_task_init has run
  downloads,   \* firmware downloads, each with a socket
  leaked,      \* sockets that send_udp left open
  refused,     \* history: who has found no socket since the start
  failures     \* failures so far

poolVars == <<open, holds, tcpStarted, downloads, leaked, refused, failures>>

Holders == {"listen", "client", "multicast", "broadcast"}
Udp == {"multicast", "broadcast"}

(* Faulty variant: one socket more than there are. *)
Free_OneMore == open <= MaxSockets

Free == open < MaxSockets

Nothing == [h \in Holders |-> FALSE]

PoolInit ==
  /\ open = 0 /\ holds = Nothing /\ tcpStarted = FALSE
  /\ downloads = 0 /\ leaked = 0 /\ refused = {} /\ failures = 0

PoolRestart ==
  /\ open' = 0 /\ holds' = Nothing /\ tcpStarted' = FALSE
  /\ downloads' = 0 /\ leaked' = 0 /\ refused' = {}
  /\ UNCHANGED failures
-----------------------------------------------------------------------------
OpenFor(h) == open' = open + 1 /\ holds' = [holds EXCEPT ![h] = TRUE]
CloseOf(h) == open' = open - 1 /\ holds' = [holds EXCEPT ![h] = FALSE]

(* Faulty variant: only shut down, never closed. *)
CloseClient_ShutdownOnly ==
  /\ holds["client"]
  /\ holds' = [holds EXCEPT !["client"] = FALSE]
  /\ UNCHANGED <<open, tcpStarted, downloads, leaked, refused, failures>>

(* tcp_server_run is done with its client. *)
CloseClient ==
  /\ holds["client"]
  /\ CloseOf("client")
  /\ UNCHANGED <<tcpStarted, downloads, leaked, refused, failures>>

Refuse(h) ==
  /\ ~Free
  /\ refused' = refused \union {h}
  /\ UNCHANGED <<open, holds, downloads, leaked, failures>>

(* multicast_task and broadcast_task open their sockets, at the start and after a failure. *)
OpenUdp(h) ==
  /\ h \in Udp /\ ~holds[h] /\ Free
  /\ OpenFor(h)
  /\ UNCHANGED <<tcpStarted, downloads, leaked, refused, failures>>

(* There is none: multicast_task tries again in 5 ms, broadcast_task ends, and the program *)
(* with it.                                                                                *)
RefuseUdp(h) ==
  /\ h \in Udp /\ ~holds[h] /\ Refuse(h)
  /\ UNCHANGED tcpStarted

(* A receive, a select or the echo of broadcast_task fails. *)
UdpFails(h) ==
  /\ h \in Udp /\ holds[h] /\ failures < MaxFailures
  /\ failures' = failures + 1
  /\ CloseOf(h)
  /\ UNCHANGED <<tcpStarted, downloads, leaked, refused>>

(* tcp_task_init tries once; without a socket the server fails to listen for ever. *)
StartTcp ==
  /\ ~tcpStarted /\ tcpStarted' = TRUE
  /\ \/ /\ Free /\ OpenFor("listen")
        /\ UNCHANGED <<downloads, leaked, refused, failures>>
     \/ Refuse("listen")

Accept ==
  /\ holds["listen"] /\ ~holds["client"] /\ Free
  /\ OpenFor("client")
  /\ UNCHANGED <<tcpStarted, downloads, leaked, refused, failures>>

RefuseClient ==
  /\ holds["listen"] /\ ~holds["client"] /\ Refuse("client")
  /\ UNCHANGED tcpStarted

(* send_udp; a message for which there is no socket is lost. *)
SendUdp ==
  /\ \/ Free /\ open' = open + 1 /\ leaked' = leaked + 1
     \/ ~Free /\ UNCHANGED <<open, leaked>>
  /\ UNCHANGED <<holds, tcpStarted, downloads, refused, failures>>

(* esp_https_ota connects, and disconnects. *)
BeginDownload ==
  /\ Free
  /\ open' = open + 1 /\ downloads' = downloads + 1
  /\ UNCHANGED <<holds, tcpStarted, leaked, refused, failures>>

EndDownload ==
  /\ downloads > 0
  /\ open' = open - 1 /\ downloads' = downloads - 1
  /\ UNCHANGED <<holds, tcpStarted, leaked, refused, failures>>

ServeTcp == StartTcp \/ Accept \/ RefuseClient \/ CloseClient
-----------------------------------------------------------------------------
One(held) == IF held THEN 1 ELSE 0

HeldByTasks == One(holds["listen"]) + One(holds["client"])
               + One(holds["multicast"]) + One(holds["broadcast"])

PoolTypeOK ==
  /\ open \in 0 .. MaxSockets
  /\ holds \in [Holders -> BOOLEAN]
  /\ tcpStarted \in BOOLEAN
  /\ downloads \in Nat /\ leaked \in Nat
  /\ refused \subseteq Holders
  /\ failures \in 0 .. MaxFailures

(* Whatever fails in whatever order, every open socket belongs to a task that will use *)
(* or close it, or to a message to the server: nothing else leaks (net.c 380-791).     *)
SocketsAccounted == open = HeldByTasks + downloads + leaked
=============================================================================
