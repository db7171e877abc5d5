----------------------------- MODULE MqttClient -----------------------------
(***************************************************************************)
(* The session with the broker: the MQTT client (MQTTClient.c over         *)
(* mqtt_interface.c and the TCP socket of the W5500, socket.c) as MQTT_Init,*)
(* MQTT_Working, MQTT_HeartBeat and MQTT_SendData of NetHandler.c use it,  *)
(* with a broker that refuses, is slow or closes, and a line that dies.    *)
(*                                                                         *)
(* The main loop is sequential: a step is one call that waits or talks to  *)
(* the chip, and what the broker, the line and the chip do comes between.  *)
(* MQTT_Init is the stages "connect" to "heartbeat" of pc.  Everything is  *)
(* QoS 0: the branches of cycle and MQTTPublish for acknowledged messages, *)
(* the only ones in which MQTTYield fails, are never taken.                *)
(***************************************************************************)
EXTENDS Naturals, Sequences, FiniteSets

CONSTANTS
  Packets,       (* messages of an upload: Pack_Num of MQTT_SendData       *)
  MaxInbox       (* bound: messages of the broker waiting in the chip      *)

ASSUME MqttAssumption == Packets \in Nat \ {0} /\ MaxInbox \in Nat

VARIABLES
  events,              (* of LoopEvents: NETINT, CONNECT, RECVNET          *)
  pc,
  left,                (* messages of the upload yet to be published       *)
  isconnected,
  handler,             (* messageHandlers[0] is messageArrived             *)
  ping_outstanding,
  pingExpired,         (* TimerIsExpired(&ping_timer)                      *)
  SR,                  (* the socket: CLOSED, INIT, ESTABLISHED, CLOSE_WAIT*)
  sending,             (* sock_is_sending, and the chip's SENDOK           *)
  toBroker, toClient,  (* packets on this connection                       *)
  attempt,             (* history: the call of MQTT_Init, modulo 3         *)
  line,                (* "up", or "dead": nothing passes any more         *)
  accepted, granted,   (* what the broker answered on this connection      *)
  masked,              (* PRIMASK: the interrupts are disabled             *)
  unheard,             (* history: packets accepted by a dead line         *)
  calm                 (* from now on the network and the broker are well  *)

client == <<isconnected, handler, ping_outstanding, pingExpired>>
socket == <<SR, sending, unheard>>
net    == <<toBroker, toClient, line>>
broker == <<accepted, granted>>
vars   == <<events, pc, left, client, socket, net, broker, attempt, masked, calm>>

Stages == {"idle", "connect", "connack", "subscribe", "suback", "heartbeat", "upload"}

Request(type)    == [type |-> type, of |-> attempt]
Answer(type, ok) == [type |-> type, ok |-> ok, of |-> Head(toBroker).of]
Message          == [type |-> "PUBLISH", ok |-> TRUE, of |-> attempt]
-----------------------------------------------------------------------------
(***************************************************************************)
(* MQTT_Init and MQTT_SendData disable the interrupts, without which no    *)
(* time passes: the timers count the ticks of TIMER2.  SPI_CrisExit, after *)
(* every access to the chip, enables them whatever they were before (were  *)
(* it to restore m, both calls would wait for ever).                       *)
(***************************************************************************)
AfterAccess(m) == FALSE

(***************************************************************************)
(* sendPacket over w5x00_write and send: repeated for a second while the   *)
(* chip has not confirmed the last packet (SOCK_BUSY is 0) or the          *)
(* connection is not ESTABLISHED (SOCK_ERROR is 0 as well).                *)
(***************************************************************************)
(* Fault: send does not wait for the confirmation.                         *)
CanSend_Unconfirmed == SR = "ESTABLISHED"
CanSend == SR = "ESTABLISHED" /\ sending # "awaited"

CanFail ==
  /\ ~AfterAccess(masked)
  /\ \/ SR # "ESTABLISHED"
     \/ sending = "awaited" /\ (line = "dead" \/ ~calm)

(* The chip takes the packet; on a dead line nobody hears it.              *)
Send(packets) ==
  /\ CanSend
  /\ sending' = "awaited"
  /\ unheard' = IF line = "dead" THEN unheard + 1 ELSE unheard
  /\ toBroker' = IF line = "dead" THEN toBroker ELSE toBroker \o packets
  /\ pingExpired' = FALSE
  /\ UNCHANGED <<SR, line>>

SendFails == CanFail /\ UNCHANGED <<socket, toBroker, line, pingExpired>>
-----------------------------------------------------------------------------
(* The NETINT block: W5500_Reset and what follows, up to CONNECT (Dhcp).   *)
NetworkInitHandler ==
  /\ pc = "idle" /\ "NETINT" \in events
  /\ events' = (events \ {"NETINT"}) \cup {"CONNECT"}
  /\ SR' = "CLOSED" /\ sending' = "none" /\ unheard' = 0
  /\ toBroker' = <<>> /\ toClient' = <<>>
  /\ accepted' = FALSE /\ granted' = FALSE
  /\ UNCHANGED <<pc, left, client, attempt, line, masked, calm>>

(* MQTT_Init's ConnectNetwork: socket() closes what there was, connect()   *)
(* returns when the connection is there or refused; nobody looks which.    *)
(* Fault: an established connection is kept.                               *)
ConnectNetwork_Reused ==
  IF SR = "ESTABLISHED" THEN UNCHANGED <<socket, net, broker>>
  ELSE /\ SR' \in {"INIT", "CLOSED", "ESTABLISHED"}
       /\ calm => SR' = "ESTABLISHED"
       /\ sending' = "none" /\ unheard' = 0
       /\ toBroker' = <<>> /\ toClient' = <<>> /\ line' = "up"
       /\ accepted' = FALSE /\ granted' = FALSE
ConnectNetwork ==
  /\ SR' \in {"INIT", "CLOSED", "ESTABLISHED"}
  /\ calm => SR' = "ESTABLISHED"
  /\ sending' = "none" /\ unheard' = 0
  /\ toBroker' = <<>> /\ toClient' = <<>> /\ line' = "up"
  /\ accepted' = FALSE /\ granted' = FALSE

(* Fault: a ping of the last session stays outstanding.                    *)
MQTTClientInit_PingKept ==
  /\ isconnected' = FALSE
  /\ handler' = FALSE
  /\ UNCHANGED ping_outstanding
(* Fault: the client still takes itself for connected.                     *)
MQTTClientInit_Connected ==
  /\ UNCHANGED isconnected
  /\ handler' = FALSE
  /\ ping_outstanding' = FALSE
MQTTClientInit ==
  /\ isconnected' = FALSE
  /\ handler' = FALSE
  /\ ping_outstanding' = FALSE

MQTT_Init ==
  /\ pc = "idle" /\ "CONNECT" \in events
  /\ pc' = "connect"
  /\ attempt' = (attempt + 1) % 3
  /\ ConnectNetwork
  /\ MQTTClientInit
  /\ masked' = AfterAccess(TRUE)
  /\ UNCHANGED <<events, left, pingExpired, calm>>

(* MQTTConnect: the ping timer starts, the packet is sent.                 *)
MQTTConnect ==
  /\ pc = "connect"
  /\ \/ ~isconnected /\ pc' = "connack" /\ Send(<<Request("CONNECT")>>)
     \/ ~isconnected /\ pc' = "subscribe" /\ CanFail /\ pingExpired' = FALSE
        /\ UNCHANGED <<socket, toBroker, line>>
     \/ isconnected /\ pc' = "subscribe"
        /\ UNCHANGED <<socket, toBroker, line, pingExpired>>
  /\ UNCHANGED <<events, left, isconnected, handler, ping_outstanding,
                 toClient, broker, attempt, masked, calm>>

MQTTSubscribe ==
  /\ pc = "subscribe"
  /\ \/ isconnected /\ pc' = "suback" /\ Send(<<Request("SUBSCRIBE")>>)
     \/ isconnected /\ pc' = "heartbeat" /\ SendFails
     \/ ~isconnected /\ pc' = "heartbeat"
        /\ UNCHANGED <<socket, toBroker, line, pingExpired>>
  /\ UNCHANGED <<events, left, isconnected, handler, ping_outstanding,
                 toClient, broker, attempt, masked, calm>>
-----------------------------------------------------------------------------
(* readPacket: w5x00_read gets nothing unless the socket is ESTABLISHED,   *)
(* also of what came before the broker closed.                             *)
Readable == SR = "ESTABLISHED" /\ toClient # <<>>
Packet   == Head(toClient)

Waiting == pc \in {"connack", "suback"}
Wanted  == IF pc = "connack" THEN "CONNACK" ELSE "SUBACK"
Waited  == IF pc = "connack" THEN "subscribe" ELSE "heartbeat"

Read == Readable /\ toClient' = Tail(toClient)

(* A call of cycle in waitfor that reads the packet waited for: whatever   *)
(* its packet identifier, which nobody compares.                           *)
(* Fault: any answer to CONNECT is taken for a session.                    *)
WaitedForArrives_AnyCode ==
  /\ Waiting /\ Read /\ Packet.type = Wanted
  /\ pc' = Waited
  /\ isconnected' = IF pc = "connack" THEN TRUE ELSE isconnected
  /\ handler'     = IF pc = "suback" THEN Packet.ok ELSE handler
  /\ UNCHANGED <<events, left, ping_outstanding, pingExpired, socket,
                 toBroker, line, broker, attempt, masked, calm>>
WaitedForArrives ==
  /\ Waiting /\ Read /\ Packet.type = Wanted
  /\ pc' = Waited
  /\ isconnected' = IF pc = "connack" THEN Packet.ok ELSE isconnected
  /\ handler'     = IF pc = "suback" THEN Packet.ok ELSE handler
  /\ UNCHANGED <<events, left, ping_outstanding, pingExpired, socket,
                 toBroker, line, broker, attempt, masked, calm>>

(* ... or another one: a message finds no handler yet.                     *)
OtherArrives ==
  /\ Waiting /\ Read /\ Packet.type # Wanted
  /\ UNCHANGED <<events, pc, left, client, socket, toBroker, line, broker,
                 attempt, masked, calm>>

(* ... or the second is over.  With a good broker only if it is not there. *)
WaitExpires ==
  /\ Waiting /\ ~AfterAccess(masked)
  /\ calm => SR # "ESTABLISHED" \/ line = "dead"
  /\ pc' = Waited
  /\ UNCHANGED <<events, left, client, socket, net, broker, attempt, masked, calm>>
-----------------------------------------------------------------------------
(***************************************************************************)
(* MQTTPublish of the heartbeat that ends MQTT_Init, whose result becomes  *)
(* that of MQTT_Init: those of MQTTConnect and MQTTSubscribe are lost.     *)
(* Fault: publishing does not look whether there is a session.             *)
(***************************************************************************)
MayPublish_Always == TRUE
MayPublish == isconnected

InitEnds ==
  /\ pc = "heartbeat" /\ pc' = "idle" /\ masked' = FALSE
  /\ \/ /\ MayPublish /\ Send(<<>>)
        /\ events' = (events \ {"CONNECT"}) \cup {"RECVNET"}
     \/ /\ ~MayPublish /\ UNCHANGED <<socket, toBroker, line, pingExpired>>
        /\ events' = (events \ {"CONNECT"}) \cup {"NETINT"}
     \/ /\ MayPublish /\ SendFails
        /\ events' = (events \ {"CONNECT"}) \cup {"NETINT"}
  /\ UNCHANGED <<left, isconnected, handler, ping_outstanding, toClient,
                 broker, attempt, calm>>

(* MQTTPublish in the serving loop; its failure is noticed by the caller.  *)
Publish(onSuccess, onFailure) ==
  /\ \/ MayPublish /\ Send(<<>>) /\ onSuccess
     \/ ~MayPublish /\ UNCHANGED <<socket, toBroker, line, pingExpired>> /\ onFailure
     \/ MayPublish /\ SendFails /\ onFailure
  /\ UNCHANGED <<isconnected, handler, ping_outstanding, toClient, broker,
                 attempt, calm>>

(* HeartBeatHandler under the event HEARTBEAT.  Fault: the result of the   *)
(* publication is not looked at.                                           *)
HeartBeatHandler_Unheeded ==
  /\ pc = "idle" /\ "RECVNET" \in events
  /\ Publish(UNCHANGED events, UNCHANGED events)
  /\ UNCHANGED <<pc, left, masked>>
HeartBeatHandler ==
  /\ pc = "idle" /\ "RECVNET" \in events
  /\ Publish(UNCHANGED events, events' = events \cup {"CONNECT"})
  /\ UNCHANGED <<pc, left, masked>>

SendDataHandler ==
  /\ pc = "idle" /\ "RECVNET" \in events
  /\ pc' = "upload" /\ left' = Packets /\ masked' = TRUE
  /\ UNCHANGED <<events, client, socket, net, broker, attempt, calm>>

(* A message of MQTT_SendData, which returns the result of the last.       *)
(* Fault: a message that is not sent is tried again until it is.           *)
UploadPacket_Insists ==
  /\ pc = "upload"
  /\ Publish(left' = left - 1 /\ pc' = IF left = 1 THEN "idle" ELSE pc,
             UNCHANGED <<left, pc>>)
  /\ masked' = IF pc' = "idle" THEN FALSE
               ELSE IF isconnected THEN AfterAccess(masked) ELSE masked
  /\ UNCHANGED events
UploadPacket ==
  /\ pc = "upload"
  /\ left' = left - 1
  /\ pc' = IF left = 1 THEN "idle" ELSE pc
  /\ masked' = IF pc' = "idle" THEN FALSE
               ELSE IF isconnected THEN AfterAccess(masked) ELSE masked
  /\ Publish(UNCHANGED events,
             events' = IF left = 1 THEN events \cup {"CONNECT"} ELSE events)
-----------------------------------------------------------------------------
(***************************************************************************)
(* MQTT_Working: MQTTYield makes one call of cycle, which reads at most    *)
(* one packet and then runs keepalive.  readPacket's failure and that of   *)
(* the ping are not reported: the result is always 0.                      *)
(***************************************************************************)
MQTT_Working ==
  /\ pc = "idle" /\ "RECVNET" \in events
  /\ \/ Read
     \/ ~Readable /\ UNCHANGED toClient
  /\ LET answered == Readable /\ Packet.type = "PINGRESP"
         pending  == ping_outstanding /\ ~answered
     IN  \/ /\ pingExpired /\ ~pending /\ Send(<<Request("PINGREQ")>>)
            /\ ping_outstanding' = TRUE
         \/ /\ pingExpired /\ ~pending /\ SendFails
            /\ ping_outstanding' = pending
         \/ /\ pending \/ ~pingExpired
            /\ ping_outstanding' = pending
            /\ UNCHANGED <<socket, toBroker, line, pingExpired>>
  /\ UNCHANGED <<events, pc, left, isconnected, handler, broker, attempt, masked, calm>>

(* Sixty seconds without a packet sent: longer than MQTT_Init takes.       *)
PingTimerExpires ==
  /\ pc = "idle" /\ ~pingExpired
  /\ pingExpired' = TRUE
  /\ UNCHANGED <<events, pc, left, isconnected, handler, ping_outstanding,
                 socket, net, broker, attempt, masked, calm>>
-----------------------------------------------------------------------------
(* The chip, the line and the broker.                                      *)
Linked == SR = "ESTABLISHED" /\ line = "up"
Rest   == <<events, pc, left, client, attempt, masked>>

(* SENDOK after the peer's acknowledgement: the chip's doing, of which     *)
(* socket.c:335 only reads the result.  OneUnheard rests on it.            *)
ChipConfirms ==
  /\ Linked /\ sending = "awaited"
  /\ sending' = "ok"
  /\ UNCHANGED <<Rest, SR, unheard, net, broker, calm>>

(* The chip repeats what is not confirmed, and gives up.                   *)
ChipGivesUp ==
  /\ SR = "ESTABLISHED" /\ line = "dead" /\ sending = "awaited"
  /\ SR' = "CLOSED"
  /\ UNCHANGED <<Rest, sending, unheard, net, broker, calm>>

BrokerHearsConnect ==
  /\ Linked /\ toBroker # <<>> /\ Head(toBroker).type = "CONNECT"
  /\ accepted' \in {TRUE, calm}
  /\ toBroker' = Tail(toBroker)
  /\ toClient' = Append(toClient, Answer("CONNACK", accepted'))
  /\ UNCHANGED <<Rest, socket, line, granted, calm>>

BrokerHearsSubscribe ==
  /\ Linked /\ toBroker # <<>> /\ Head(toBroker).type = "SUBSCRIBE"
  /\ granted' \in {TRUE, calm}
  /\ toBroker' = Tail(toBroker)
  /\ toClient' = Append(toClient, Answer("SUBACK", granted'))
  /\ UNCHANGED <<Rest, socket, line, accepted, calm>>

BrokerHearsPing ==
  /\ Linked /\ toBroker # <<>> /\ Head(toBroker).type = "PINGREQ"
  /\ toBroker' = Tail(toBroker)
  /\ toClient' = Append(toClient, Answer("PINGRESP", TRUE))
  /\ UNCHANGED <<Rest, socket, line, broker, calm>>

(* A message may overtake the answer to the subscription it is for.        *)
BrokerPublishes ==
  /\ Linked /\ Len(toClient) < MaxInbox
  /\ granted \/ (toBroker # <<>> /\ Head(toBroker).type = "SUBSCRIBE")
  /\ toClient' = Append(toClient, Message)
  /\ UNCHANGED <<Rest, socket, toBroker, line, broker, calm>>

BrokerCloses ==
  /\ Linked /\ ~calm
  /\ SR' = "CLOSE_WAIT"
  /\ UNCHANGED <<Rest, sending, unheard, net, broker, calm>>

(* What was on its way is lost, from some packet on.                       *)
LineDies ==
  /\ Linked /\ ~calm
  /\ line' = "dead"
  /\ toBroker' = <<>>
  /\ \E n \in 0 .. Len(toClient) : toClient' = SubSeq(toClient, 1, n)
  /\ UNCHANGED <<Rest, socket, broker, calm>>

GrowsCalm ==
  /\ ~calm /\ calm' = TRUE
  /\ UNCHANGED <<Rest, socket, net, broker>>
-----------------------------------------------------------------------------
Init ==
  /\ events = {"NETINT"} /\ pc = "idle" /\ left = 0
  /\ isconnected = FALSE /\ handler = FALSE
  /\ ping_outstanding = FALSE /\ pingExpired = FALSE
  /\ SR = "CLOSED" /\ sending = "none" /\ unheard = 0
  /\ toBroker = <<>> /\ toClient = <<>> /\ line = "up"
  /\ accepted = FALSE /\ granted = FALSE
  /\ attempt = 0 /\ masked = FALSE /\ calm = FALSE

Gateway ==
  \/ NetworkInitHandler \/ MQTT_Init \/ MQTTConnect \/ MQTTSubscribe
  \/ WaitedForArrives \/ OtherArrives \/ WaitExpires
  \/ InitEnds \/ HeartBeatHandler \/ SendDataHandler \/ UploadPacket
  \/ MQTT_Working \/ PingTimerExpires

Broker ==
  \/ BrokerHearsConnect \/ BrokerHearsSubscribe \/ BrokerHearsPing
  \/ BrokerPublishes \/ BrokerCloses

Network == ChipConfirms \/ ChipGivesUp \/ LineDies \/ GrowsCalm

Next == Gateway \/ Broker \/ Network

Spec == Init /\ [][Next]_vars

(* The calls return and waitfor ends; every pass of the main loop comes to *)
(* the stage that is pending, and heartbeats recur (EventLoop), whatever   *)
(* else the pass does: strong fairness; the chip confirms or gives up, and *)
(* a broker that hears a packet answers it.                                *)
Fairness ==
  /\ SF_vars(NetworkInitHandler) /\ SF_vars(MQTT_Init) /\ SF_vars(HeartBeatHandler)
  /\ WF_vars(MQTTConnect) /\ WF_vars(MQTTSubscribe)
  /\ WF_vars(WaitedForArrives \/ OtherArrives) /\ WF_vars(WaitExpires)
  /\ WF_vars(InitEnds) /\ WF_vars(UploadPacket)
  /\ WF_vars(ChipConfirms \/ ChipGivesUp)
  /\ WF_vars(BrokerHearsConnect \/ BrokerHearsSubscribe \/ BrokerHearsPing)

FairSpec == Spec /\ Fairness
-----------------------------------------------------------------------------
Requests == [type : {"CONNECT", "SUBSCRIBE", "PINGREQ"}, of : 0 .. 2]
Answers  == [type : {"CONNACK", "SUBACK", "PINGRESP", "PUBLISH"}, ok : BOOLEAN, of : 0 .. 2]

TypeOK ==
  /\ events \subseteq {"NETINT", "CONNECT", "RECVNET"}
  /\ pc \in Stages /\ left \in 0 .. Packets
  /\ isconnected \in BOOLEAN /\ handler \in BOOLEAN
  /\ ping_outstanding \in BOOLEAN /\ pingExpired \in BOOLEAN
  /\ SR \in {"CLOSED", "INIT", "ESTABLISHED", "CLOSE_WAIT"}
  /\ sending \in {"none", "awaited", "ok"} /\ unheard \in Nat
  /\ toBroker \in Seq(Requests) /\ toClient \in Seq(Answers)
  /\ line \in {"up", "dead"} /\ accepted \in BOOLEAN /\ granted \in BOOLEAN
  /\ attempt \in 0 .. 2 /\ masked \in BOOLEAN /\ calm \in BOOLEAN

(***************************************************************************)
(* What the client believes is what the broker answered, on the connection *)
(* there is now: connected only after it accepted, a handler only after it *)
(* granted, although isconnected outlives the connection and no caller     *)
(* looks at the results of MQTTConnect and MQTTSubscribe.                  *)
(***************************************************************************)
SessionReal ==
  SR # "CLOSED" =>
    (isconnected => accepted) /\ (handler => isconnected /\ granted)

(***************************************************************************)
(* The receive stage is begun only with a session the broker accepted on   *)
(* the connection of this call of MQTT_Init (NetHandler.c:1288-1303        *)
(* overwrites the failure of MQTTConnect twice before it returns).         *)
(***************************************************************************)
ServesAccepted ==
  [][pc = "heartbeat" /\ "CONNECT" \notin events' /\ "NETINT" \notin events'
       => isconnected /\ accepted]_vars

(***************************************************************************)
(* waitfor takes any packet of the type it waits for: it is the answer to  *)
(* this call's request because the socket of every call is a new one.      *)
(***************************************************************************)
AnswersThisRequest ==
  [][(isconnected' /\ ~isconnected) \/ (handler' /\ ~handler)
       => Packet.of = attempt]_vars

(***************************************************************************)
(* A ping is outstanding for the client just when one, and no more, is on  *)
(* its way: with none keepalive would wait for ever and let the broker end *)
(* the session, with two it would take one for the answer to the other.    *)
(***************************************************************************)
Places(packets, type) == {i \in 1 .. Len(packets) : packets[i].type = type}

OnePing ==
  Linked =>
    Cardinality(Places(toBroker, "PINGREQ")) + Cardinality(Places(toClient, "PINGRESP"))
      = IF ping_outstanding THEN 1 ELSE 0

(***************************************************************************)
(* When the line dies at most one packet more is reported as sent: send    *)
(* waits for the confirmation of the last one.                             *)
(***************************************************************************)
OneUnheard == unheard <= 1

(***************************************************************************)
(* A session whose connection is gone is given up, although MQTTYield      *)
(* never reports it: a publication fails.                                  *)
(***************************************************************************)
LossNoticed ==
  (pc = "idle" /\ "RECVNET" \in events /\ ~Linked) ~> (pc = "connect")

(***************************************************************************)
(* MQTT_Init and MQTT_SendData come to their end, whatever the broker does:*)
(* their time-outs run although they disabled the interrupts, because the  *)
(* SPI driver enables them (NetHandler.c:751, :1261, :1479).               *)
(***************************************************************************)
CallsEnd == pc # "idle" ~> pc = "idle"

(***************************************************************************)
(* When the broker and the network are well for good, the gateway ends in  *)
(* a session that it keeps.                                                *)
(***************************************************************************)
Live == Linked /\ isconnected /\ accepted /\ "RECVNET" \in events /\ "NETINT" \notin events
SessionKept     == <>calm => <>[]Live
-----------------------------------------------------------------------------
(***************************************************************************)
(* The session of Session.tla: what the client takes itself to be in, on a *)
(* socket that is still there, and what the broker answered.  The receive  *)
(* stage is RECVNET with no earlier stage pending.                         *)
(***************************************************************************)
Serving == "RECVNET" \in events /\ "CONNECT" \notin events /\ "NETINT" \notin events

ClientSide ==
  IF SR = "CLOSED" \/ ~isconnected THEN "closed" ELSE IF handler THEN "listening" ELSE "open"

BrokerSide == IF ~accepted THEN "none" ELSE IF granted THEN "granted" ELSE "accepted"

Promise == INSTANCE Session WITH broker <- BrokerSide, client <- ClientSide, serving <- Serving

(***************************************************************************)
(* Every step of the client, the broker and the line is a step of a session*)
(* as Session.tla has it: the broker's answer comes before the client's    *)
(* belief, which comes before the serving, on one connection.              *)
(***************************************************************************)
ImplementsSession == Promise!Spec
=============================================================================
