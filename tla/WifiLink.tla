------------------------------ MODULE WifiLink ------------------------------
(***************************************************************************)
(* The WiFi link of a strand and CONNECTED_BIT, which stands for it in the *)
(* program (main/src/net.c 233-292).  The driver joins the access point    *)
(* when asked, gets an address, loses either, and posts an event for each  *)
(* change; event_handler takes the events one by one, so the bit follows   *)
(* the link at a distance.                                                 *)
(***************************************************************************)
EXTENDS Naturals, Sequences

CONSTANT MaxDrops   \* bound of the model: failures of the link

ASSUME DropAssumption == MaxDrops \in Nat

VARIABLES
  link,      \* of the driver: "off", "joined" (no address), "up"
  asked,     \* of the driver: it was asked to connect and has not tried yet
  lease,     \* of the driver: it had an address and has not reported its loss
  events,    \* the events the handler has not taken yet
  clearing,  \* the handler has called esp_wifi_connect and not yet cleared the bit
  bit,       \* CONNECTED_BIT of wifi_event_group
  drops      \* failures so far

linkVars == <<link, asked, lease, events, clearing, bit, drops>>

Events == {"start", "got_ip", "disconnected", "lost_ip"}

(* initialise_wifi: esp_wifi_start reports that the driver has started. *)
LinkInit ==
  /\ link = "off" /\ asked = FALSE /\ lease = FALSE
  /\ events = <<"start">> /\ clearing = FALSE /\ bit = FALSE
  /\ drops = 0

LinkRestart ==
  /\ link' = "off" /\ asked' = FALSE /\ lease' = FALSE
  /\ events' = <<"start">> /\ clearing' = FALSE /\ bit' = FALSE
  /\ UNCHANGED drops
-----------------------------------------------------------------------------
(* The driver *)

Join ==
  /\ link = "off" /\ asked
  /\ link' = "joined" /\ asked' = FALSE
  /\ UNCHANGED <<lease, events, clearing, bit, drops>>

GetAddress ==
  /\ link = "joined"
  /\ link' = "up" /\ lease' = TRUE
  /\ events' = Append(events, "got_ip")
  /\ UNCHANGED <<asked, clearing, bit, drops>>

Fails == drops < MaxDrops /\ drops' = drops + 1

JoinFails ==
  /\ Fails /\ link = "off" /\ asked
  /\ asked' = FALSE
  /\ events' = Append(events, "disconnected")
  /\ UNCHANGED <<link, lease, clearing, bit>>

Disconnect ==
  /\ Fails /\ link # "off"
  /\ link' = "off"
  /\ events' = Append(events, "disconnected")
  /\ UNCHANGED <<asked, lease, clearing, bit>>

LoseAddress ==
  /\ Fails /\ lease
  /\ lease' = FALSE
  /\ link' = IF link = "up" THEN "joined" ELSE link
  /\ events' = Append(events, "lost_ip")
  /\ UNCHANGED <<asked, clearing, bit>>
-----------------------------------------------------------------------------
(* event_handler *)

(* Faulty variant: a lost connection is not asked for again. *)
Asks_OnlyAtStart(event) == event = "start"

(* esp_wifi_connect, which does nothing while there is a connection *)
Asks(event) == event \in {"start", "disconnected", "lost_ip"}

(* Faulty variant: the loss of the address leaves the bit set. *)
Clears_NotForAddress(event) == event = "disconnected"

Clears(event) == event \in {"disconnected", "lost_ip"}

HandleEvent ==
  /\ ~clearing /\ events # <<>>
  /\ LET event == Head(events) IN
       /\ asked' = (asked \/ (Asks(event) /\ link = "off"))
       /\ bit' = (bit \/ event = "got_ip")
       /\ clearing' = Clears(event)
  /\ events' = Tail(events)
  /\ UNCHANGED <<link, lease, drops>>

ClearBit ==
  /\ clearing
  /\ bit' = FALSE /\ clearing' = FALSE
  /\ UNCHANGED <<link, asked, lease, events, drops>>

Handler == HandleEvent \/ ClearBit
Driver == Join \/ GetAddress \/ JoinFails \/ Disconnect \/ LoseAddress

LinkNext == Handler \/ Driver

(* The handler runs, and an access point that is asked answers in the end. *)
LinkFairness == WF_linkVars(Handler) /\ WF_linkVars(Join) /\ WF_linkVars(GetAddress)
-----------------------------------------------------------------------------
LinkTypeOK ==
  /\ link \in {"off", "joined", "up"}
  /\ asked \in BOOLEAN /\ lease \in BOOLEAN /\ clearing \in BOOLEAN /\ bit \in BOOLEAN
  /\ events \in Seq(Events)
  /\ drops \in 0 .. MaxDrops

(* When the handler has caught up with the driver, the bit tells the link: no order of *)
(* losses, failed attempts and reconnections, even ones that fall between the two      *)
(* statements of a branch of the handler, leaves the bit set without an address or     *)
(* clear with one (net.c 249-263).                                                     *)
BitTellsLink == events = <<>> /\ ~clearing => (bit <=> link = "up")

(* Whatever fails, once nothing fails any more the link comes up and stays reported     *)
(* (net.c 250: "This is a workaround as ESP32 WiFi libs don't currently auto-reassociate"). *)
Reconnects == ~bit ~> bit
=============================================================================
