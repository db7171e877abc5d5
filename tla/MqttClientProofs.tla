-------------------------- MODULE MqttClientProofs --------------------------
(***************************************************************************)
(* Proofs about the session with the broker, for uploads of any length and *)
(* any number of messages waiting: types, the agreement of client and      *)
(* broker, whose answer is taken, the ping, and what a dead line swallows. *)
(***************************************************************************)
EXTENDS MqttClient, SequenceTheorems, FiniteSetTheorems, TLAPS

(* Everything on the connection belongs to this call of MQTT_Init.         *)
Fresh ==
  /\ \A i \in 1 .. Len(toBroker) : toBroker[i].of = attempt
  /\ \A i \in 1 .. Len(toClient) : toClient[i].of = attempt

(* A dead line has taken nothing more, unless the chip waits to confirm it.*)
Unconfirmed ==
  /\ unheard <= 1
  /\ sending # "awaited" \/ line = "up" => unheard = 0

(* How far MQTT_Init has come bounds what there can be on the connection.  *)
Progress ==
  /\ pc = "connect" => toBroker = <<>> /\ toClient = <<>> /\ ~accepted
  /\ pc \in {"connect", "connack"} => ~isconnected
  /\ pc \in {"connect", "connack", "subscribe"} =>
       /\ ~granted
       /\ \A i \in 1 .. Len(toBroker) : toBroker[i].type # "SUBSCRIBE"
       /\ \A i \in 1 .. Len(toClient) : toClient[i].type # "SUBACK"
  /\ pc \in {"connect", "connack", "subscribe", "suback"} => ~handler
  /\ pc = "suback" => isconnected
  /\ pc = "upload" => left # 0

(* A request on its way is the only one of its kind, and not yet answered. *)
OneConnect ==
  \A i \in 1 .. Len(toBroker) : toBroker[i].type = "CONNECT" =>
    /\ i = 1 /\ ~isconnected /\ ~accepted
    /\ \A j \in 1 .. Len(toClient) : toClient[j].type # "CONNACK"

OneSubscribe ==
  \A i \in 1 .. Len(toBroker) : toBroker[i].type = "SUBSCRIBE" =>
    /\ ~handler /\ ~granted
    /\ \A j \in 1 .. Len(toClient) : toClient[j].type # "SUBACK"
    /\ \A j \in 1 .. Len(toBroker) : toBroker[j].type = "SUBSCRIBE" => j = i

(* An answer on its way says what the broker decided.                      *)
Truthful ==
  \A j \in 1 .. Len(toClient) :
    /\ toClient[j].type = "CONNACK" /\ toClient[j].ok => accepted
    /\ toClient[j].type = "SUBACK" /\ toClient[j].ok => granted

Believed == handler => isconnected

(* MQTT_Init is under way only under its event.                            *)
Staged == pc \notin {"idle", "upload"} => "CONNECT" \in events

IInv ==
  /\ TypeOK /\ Fresh /\ Unconfirmed /\ Progress /\ OneConnect /\ OneSubscribe
  /\ Truthful /\ Believed /\ SessionReal
-----------------------------------------------------------------------------
LEMMA SendRequest ==
  ASSUME TypeOK, Unconfirmed, NEW r \in Requests, Send(<<r>>)
  PROVE  /\ toBroker' \in Seq(Requests)
         /\ \A i \in 1 .. Len(toBroker') :
              \/ i \in 1 .. Len(toBroker) /\ toBroker'[i] = toBroker[i]
              \/ i = Len(toBroker) + 1 /\ toBroker'[i] = r
         /\ SR = "ESTABLISHED" /\ UNCHANGED <<SR, line>>
         /\ sending' = "awaited" /\ unheard' \in Nat /\ pingExpired' = FALSE
         /\ Unconfirmed'
<1>1. toBroker \in Seq(Requests) /\ <<r>> \in Seq(Requests) /\ Len(<<r>>) = 1 /\ <<r>>[1] = r
  BY DEF TypeOK
<1>2. /\ toBroker \o <<r>> \in Seq(Requests)
      /\ Len(toBroker \o <<r>>) = Len(toBroker) + 1
      /\ \A i \in 1 .. Len(toBroker) + 1 :
           (toBroker \o <<r>>)[i] = IF i <= Len(toBroker) THEN toBroker[i] ELSE <<r>>[i - Len(toBroker)]
  BY <1>1, ConcatProperties
<1>3. toBroker' = toBroker \/ toBroker' = toBroker \o <<r>>
  BY DEF Send
<1>4. Len(toBroker) \in Nat
  BY <1>1, LenProperties
<1>5. /\ toBroker' \in Seq(Requests)
      /\ \A i \in 1 .. Len(toBroker') :
           \/ i \in 1 .. Len(toBroker) /\ toBroker'[i] = toBroker[i]
           \/ i = Len(toBroker) + 1 /\ toBroker'[i] = r
  <2>1. CASE toBroker' = toBroker
    BY <2>1, <1>1
  <2>2. CASE toBroker' = toBroker \o <<r>>
    <3> SUFFICES ASSUME NEW i \in 1 .. Len(toBroker) + 1
                 PROVE  \/ i \in 1 .. Len(toBroker) /\ toBroker'[i] = toBroker[i]
                        \/ i = Len(toBroker) + 1 /\ toBroker'[i] = r
      BY <2>2, <1>2
    <3>1. CASE i <= Len(toBroker)
      BY <3>1, <2>2, <1>2, <1>4
    <3>2. CASE i = Len(toBroker) + 1
      BY <3>2, <2>2, <1>1, <1>2, <1>4
    <3> QED
      BY <3>1, <3>2, <1>4
  <2> QED
    BY <1>3, <2>1, <2>2
<1> QED
  BY <1>5 DEF Send, CanSend, Unconfirmed, TypeOK

LEMMA SendNothing ==
  ASSUME TypeOK, Unconfirmed, Send(<<>>)
  PROVE  /\ UNCHANGED <<toBroker, SR, line>>
         /\ sending' = "awaited" /\ unheard' \in Nat /\ pingExpired' = FALSE
         /\ Unconfirmed'
<1>1. toBroker \o <<>> = toBroker
  BY ConcatEmptySeq DEF TypeOK
<1> QED
  BY <1>1 DEF Send, CanSend, Unconfirmed, TypeOK

LEMMA FirstOf ==
  ASSUME NEW S, NEW s \in Seq(S), s # <<>>
  PROVE  /\ Tail(s) \in Seq(S) /\ Head(s) \in S /\ Head(s) = s[1]
         /\ Len(s) \in Nat \ {0} /\ Len(Tail(s)) = Len(s) - 1
         /\ \A i \in 1 .. Len(Tail(s)) : i + 1 \in 1 .. Len(s) /\ Tail(s)[i] = s[i + 1]
BY HeadTailProperties, EmptySeq, LenProperties

LEMMA Appended ==
  ASSUME NEW S, NEW s \in Seq(S), NEW e \in S
  PROVE  /\ Append(s, e) \in Seq(S)
         /\ \A i \in 1 .. Len(Append(s, e)) :
              \/ i \in 1 .. Len(s) /\ Append(s, e)[i] = s[i]
              \/ i = Len(s) + 1 /\ Append(s, e)[i] = e
BY AppendProperties, LenProperties
-----------------------------------------------------------------------------
(* Init and Next: the inductive invariant, action by action.               *)
LEMMA InvInit == Init => IInv
<1> SUFFICES ASSUME Init PROVE IInv
  OBVIOUS
<1>1. <<>> \in Seq(Requests) /\ <<>> \in Seq(Answers) /\ Len(<<>>) = 0
  BY EmptySeq
<1>2. 0 \in 0 .. Packets /\ 0 \in 0 .. 2
  BY MqttAssumption
<1>3. toBroker \in Seq(Requests) /\ toClient \in Seq(Answers)
  BY <1>1 DEF Init
<1>4. TypeOK
  BY <1>2, <1>3 DEF Init, TypeOK, Stages
<1> QED
  BY <1>1, <1>4 DEF Init, IInv, Fresh, Unconfirmed, Progress, OneConnect, OneSubscribe, Truthful, Believed, SessionReal

(* What holds of the connection is kept by a step that leaves it alone.    *)
LEMMA SameChannels ==
  ASSUME IInv, UNCHANGED <<toBroker, toClient, broker, attempt, isconnected, handler>>
  PROVE  Fresh' /\ OneConnect' /\ OneSubscribe' /\ Truthful' /\ Believed'
BY DEF IInv, Fresh, OneConnect, OneSubscribe, Truthful, Believed, broker

(* A new or a closed socket has nothing on it.                             *)
LEMMA Emptied ==
  ASSUME toBroker' = <<>>, toClient' = <<>>
  PROVE  /\ toBroker' \in Seq(Requests) /\ toClient' \in Seq(Answers)
         /\ Fresh' /\ OneConnect' /\ OneSubscribe' /\ Truthful'
<1>1. Len(<<>>) = 0 /\ <<>> \in Seq(Requests) /\ <<>> \in Seq(Answers)
  BY EmptySeq
<1> QED
  BY <1>1 DEF Fresh, OneConnect, OneSubscribe, Truthful

LEMMA InvReset == IInv /\ (NetworkInitHandler \/ MQTT_Init) => IInv'
<1> SUFFICES ASSUME IInv, NetworkInitHandler \/ MQTT_Init PROVE IInv'
  OBVIOUS
<1>1. toBroker' = <<>> /\ toClient' = <<>>
  BY DEF NetworkInitHandler, MQTT_Init, ConnectNetwork
<1>2. /\ toBroker' \in Seq(Requests) /\ toClient' \in Seq(Answers)
      /\ Fresh' /\ OneConnect' /\ OneSubscribe' /\ Truthful'
  BY <1>1, Emptied
<1>3. Len(<<>>) = 0
  BY EmptySeq
<1>4. CASE NetworkInitHandler
  <2>1. TypeOK'
    BY <1>2, <1>4 DEF NetworkInitHandler, client, IInv, TypeOK, Stages
  <2>2. Unconfirmed' /\ Progress' /\ Believed' /\ SessionReal'
    BY <1>1, <1>3, <1>4 DEF NetworkInitHandler, client, IInv, Unconfirmed, Progress, Believed, SessionReal
  <2> QED
    BY <1>2, <2>1, <2>2 DEF IInv
<1>5. CASE MQTT_Init
  <2>1. (attempt + 1) % 3 \in 0 .. 2
    BY DEF IInv, TypeOK
  <2>2. TypeOK'
    BY <1>2, <1>5, <2>1 DEF MQTT_Init, ConnectNetwork, MQTTClientInit, AfterAccess, IInv, TypeOK, Stages
  <2>3. Unconfirmed' /\ Progress' /\ Believed' /\ SessionReal'
    BY <1>1, <1>3, <1>5
    DEF MQTT_Init, ConnectNetwork, MQTTClientInit, Unconfirmed, Progress, Believed, SessionReal
  <2> QED
    BY <1>2, <2>2, <2>3 DEF IInv
<1> QED
  BY <1>4, <1>5

LEMMA InvConnect == IInv /\ MQTTConnect => IInv'
<1> SUFFICES ASSUME IInv, MQTTConnect PROVE IInv'
  OBVIOUS
<1>1. UNCHANGED <<events, left, isconnected, handler, ping_outstanding, toClient, accepted, granted, attempt, masked, calm>>
  BY DEF MQTTConnect, broker
<1>2. /\ toBroker = <<>> /\ toClient = <<>> /\ ~accepted /\ ~isconnected /\ ~handler /\ ~granted
      /\ Len(toBroker) = 0 /\ Len(toClient) = 0
  BY EmptySeq DEF MQTTConnect, IInv, Progress
<1>3. CASE pc' = "connack" /\ Send(<<Request("CONNECT")>>)
  <2>1. Request("CONNECT") \in Requests
    BY DEF IInv, TypeOK, Request, Requests
  <2> DEFINE r == Request("CONNECT")
  <2>2. /\ toBroker' \in Seq(Requests)
        /\ \A i \in 1 .. Len(toBroker') :
              \/ i \in 1 .. Len(toBroker) /\ toBroker'[i] = toBroker[i]
              \/ i = Len(toBroker) + 1 /\ toBroker'[i] = r
        /\ SR = "ESTABLISHED" /\ UNCHANGED <<SR, line>>
        /\ sending' = "awaited" /\ unheard' \in Nat /\ pingExpired' = FALSE
        /\ Unconfirmed'
    BY <1>3, <2>1, SendRequest DEF IInv
  <2>3. \A i \in 1 .. Len(toBroker') : i = 1 /\ toBroker'[i] = r
    BY <2>2, <1>2
  <2>4. r.type = "CONNECT" /\ r.of = attempt
    BY DEF Request
  <2> HIDE DEF r
  <2>5. Fresh' /\ OneConnect' /\ OneSubscribe' /\ Truthful' /\ Believed' /\ SessionReal'
    BY <1>1, <1>2, <2>2, <2>3, <2>4
    DEF IInv, Fresh, OneConnect, OneSubscribe, Truthful, Believed, SessionReal
  <2>6. Progress'
    BY <1>1, <1>2, <1>3, <2>3, <2>4 DEF Progress
  <2>7. TypeOK'
    BY <1>1, <1>3, <2>2 DEF IInv, TypeOK, Stages
  <2> QED
    BY <2>2, <2>5, <2>6, <2>7 DEF IInv
<1>4. CASE pc' = "subscribe" /\ UNCHANGED <<socket, toBroker, line>> /\ pingExpired' \in BOOLEAN
  BY <1>1, <1>2, <1>4 DEF socket, IInv, Fresh, Unconfirmed, Progress, OneConnect, OneSubscribe, Truthful, Believed, SessionReal, TypeOK, Stages
<1> QED
  BY <1>3, <1>4 DEF MQTTConnect, IInv, TypeOK

LEMMA InvSubscribe == IInv /\ MQTTSubscribe => IInv'
<1> SUFFICES ASSUME IInv, MQTTSubscribe PROVE IInv'
  OBVIOUS
<1>1. UNCHANGED <<events, left, isconnected, handler, ping_outstanding, toClient, accepted, granted, attempt, masked, calm>>
  BY DEF MQTTSubscribe, broker
<1>2. /\ pc = "subscribe" /\ ~handler /\ ~granted
      /\ \A i \in 1 .. Len(toBroker) : toBroker[i].type # "SUBSCRIBE"
      /\ \A i \in 1 .. Len(toClient) : toClient[i].type # "SUBACK"
  BY DEF MQTTSubscribe, IInv, Progress
<1>3. CASE isconnected /\ pc' = "suback" /\ Send(<<Request("SUBSCRIBE")>>)
  <2>1. Request("SUBSCRIBE") \in Requests
    BY DEF IInv, TypeOK, Request, Requests
  <2> DEFINE r == Request("SUBSCRIBE")
  <2>2. /\ toBroker' \in Seq(Requests)
        /\ \A i \in 1 .. Len(toBroker') :
              \/ i \in 1 .. Len(toBroker) /\ toBroker'[i] = toBroker[i]
              \/ i = Len(toBroker) + 1 /\ toBroker'[i] = r
        /\ SR = "ESTABLISHED" /\ UNCHANGED <<SR, line>>
        /\ sending' = "awaited" /\ unheard' \in Nat /\ pingExpired' = FALSE
        /\ Unconfirmed'
    BY <1>3, <2>1, SendRequest DEF IInv
  <2>3. r.type = "SUBSCRIBE" /\ r.of = attempt
    BY DEF Request
  <2> HIDE DEF r
  <2>4. \A i \in 1 .. Len(toBroker') : toBroker'[i].type = "SUBSCRIBE" => i = Len(toBroker) + 1
    BY <1>2, <2>2
  <2>5. Fresh' /\ OneConnect' /\ OneSubscribe' /\ Truthful' /\ Believed' /\ SessionReal'
    BY <1>1, <1>2, <1>3, <2>2, <2>3, <2>4
    DEF IInv, Fresh, OneConnect, OneSubscribe, Truthful, Believed, SessionReal
  <2>6. Progress' /\ TypeOK'
    BY <1>1, <1>2, <1>3, <2>2 DEF IInv, Progress, TypeOK, Stages
  <2> QED
    BY <2>2, <2>5, <2>6 DEF IInv
<1>4. CASE pc' = "heartbeat" /\ UNCHANGED <<socket, toBroker, line, pingExpired>>
  BY <1>1, <1>2, <1>4 DEF socket, IInv, Fresh, Unconfirmed, Progress, OneConnect, OneSubscribe, Truthful, Believed, SessionReal, TypeOK, Stages
<1> QED
  BY <1>3, <1>4 DEF MQTTSubscribe, SendFails

(* Steps that read a packet: what is left was there before.                *)
LEMMA InvRead ==
  ASSUME IInv, Read, UNCHANGED <<toBroker, broker, attempt>>
  PROVE  /\ toClient' \in Seq(Answers) /\ Fresh' /\ Truthful'
         /\ Packet \in Answers /\ Packet = toClient[1] /\ 1 \in 1 .. Len(toClient)
         /\ \A i \in 1 .. Len(toClient') : \E j \in 1 .. Len(toClient) : toClient'[i] = toClient[j]
<1>1. toClient \in Seq(Answers) /\ toClient # <<>> /\ toClient' = Tail(toClient)
  BY DEF IInv, TypeOK, Read, Readable
<1>2. /\ Tail(toClient) \in Seq(Answers) /\ Head(toClient) \in Answers /\ Head(toClient) = toClient[1]
      /\ Len(toClient) \in Nat \ {0} /\ Len(Tail(toClient)) = Len(toClient) - 1
      /\ \A i \in 1 .. Len(Tail(toClient)) :
           i + 1 \in 1 .. Len(toClient) /\ Tail(toClient)[i] = toClient[i + 1]
  BY <1>1, FirstOf
<1>3. /\ toClient' \in Seq(Answers) /\ Packet \in Answers /\ Packet = toClient[1]
      /\ 1 \in 1 .. Len(toClient)
      /\ \A i \in 1 .. Len(toClient') :
           i + 1 \in 1 .. Len(toClient) /\ toClient'[i] = toClient[i + 1]
  BY <1>1, <1>2 DEF Packet
<1>4. Fresh'
  BY <1>3 DEF IInv, Fresh
<1>5. Truthful'
  BY <1>3 DEF IInv, Truthful, broker
<1> QED
  BY <1>3, <1>4, <1>5

LEMMA InvArrives == IInv /\ (WaitedForArrives \/ OtherArrives) => IInv'
<1> SUFFICES ASSUME IInv, WaitedForArrives \/ OtherArrives PROVE IInv'
  OBVIOUS
<1>1. Read /\ UNCHANGED <<events, left, ping_outstanding, pingExpired, socket, toBroker, line, broker, attempt, masked, calm>>
  BY DEF WaitedForArrives, OtherArrives, client
<1>2. /\ toClient' \in Seq(Answers) /\ Fresh' /\ Truthful'
      /\ Packet \in Answers /\ Packet = toClient[1] /\ 1 \in 1 .. Len(toClient)
      /\ \A i \in 1 .. Len(toClient') : \E j \in 1 .. Len(toClient) : toClient'[i] = toClient[j]
  BY <1>1, InvRead
<1>3. Unconfirmed'
  BY <1>1 DEF IInv, Unconfirmed, socket
<1>4. CASE WaitedForArrives /\ pc = "connack"
  <2>1. /\ Packet.type = "CONNACK" /\ pc' = "subscribe" /\ ~handler /\ ~granted
        /\ isconnected' = Packet.ok /\ UNCHANGED handler
    BY <1>4 DEF WaitedForArrives, Wanted, Waited, IInv, Progress
  <2>2. isconnected' \in BOOLEAN /\ (isconnected' => accepted)
    BY <1>2, <2>1 DEF IInv, Truthful, Answers
  <2>3. \A i \in 1 .. Len(toBroker) : toBroker[i].type # "CONNECT" /\ toBroker[i].type # "SUBSCRIBE"
    BY <1>2, <1>4, <2>1 DEF IInv, OneConnect, Progress
  <2>4. OneConnect' /\ OneSubscribe' /\ Believed' /\ SessionReal'
    BY <1>1, <2>1, <2>2, <2>3 DEF OneConnect, OneSubscribe, Believed, SessionReal, broker
  <2>5. Progress'
    BY <1>1, <1>2, <1>4, <2>1 DEF IInv, Progress, broker
  <2>6. TypeOK'
    BY <1>1, <1>2, <2>1, <2>2 DEF IInv, TypeOK, Stages, socket, broker
  <2> QED
    BY <1>2, <1>3, <2>4, <2>5, <2>6 DEF IInv
<1>5. CASE WaitedForArrives /\ pc = "suback"
  <2>1. /\ Packet.type = "SUBACK" /\ pc' = "heartbeat" /\ isconnected
        /\ handler' = Packet.ok /\ UNCHANGED isconnected
    BY <1>5 DEF WaitedForArrives, Wanted, Waited, IInv, Progress
  <2>2. handler' \in BOOLEAN /\ (handler' => granted)
    BY <1>2, <2>1 DEF IInv, Truthful, Answers
  <2>3. \A i \in 1 .. Len(toBroker) : toBroker[i].type # "CONNECT" /\ toBroker[i].type # "SUBSCRIBE"
    BY <1>2, <2>1 DEF IInv, OneConnect, OneSubscribe
  <2>4. OneConnect' /\ OneSubscribe' /\ Believed' /\ SessionReal' /\ Progress'
    BY <1>1, <2>1, <2>2, <2>3
    DEF IInv, OneConnect, OneSubscribe, Believed, SessionReal, Progress, broker, socket
  <2>5. TypeOK'
    BY <1>1, <1>2, <2>1, <2>2 DEF IInv, TypeOK, Stages, socket, broker
  <2> QED
    BY <1>2, <1>3, <2>4, <2>5 DEF IInv
<1>6. CASE OtherArrives
  <2>1. UNCHANGED <<pc, isconnected, handler>>
    BY <1>6 DEF OtherArrives, client
  <2>2. OneConnect' /\ OneSubscribe' /\ Believed' /\ SessionReal'
    BY <1>1, <1>2, <2>1 DEF IInv, OneConnect, OneSubscribe, Believed, SessionReal, broker, socket
  <2>3. pc # "connect"
    BY <1>6 DEF OtherArrives, Waiting
  <2>4. Progress'
    BY <1>1, <1>2, <2>1, <2>3 DEF IInv, Progress, broker
  <2>5. TypeOK'
    BY <1>1, <1>2, <2>1 DEF IInv, TypeOK, Stages, socket, broker
  <2> QED
    BY <1>2, <1>3, <2>2, <2>4, <2>5 DEF IInv
<1> QED
  BY <1>4, <1>5, <1>6 DEF WaitedForArrives, Waiting

(* The stages and handlers that leave the connection alone, or only fill   *)
(* the chip: what they do to isconnected and handler, nothing.             *)
LEMMA InvServe ==
  IInv /\ (WaitExpires \/ InitEnds \/ HeartBeatHandler \/ SendDataHandler \/ UploadPacket
            \/ PingTimerExpires)
    => IInv'
<1> SUFFICES ASSUME IInv,
                    WaitExpires \/ InitEnds \/ HeartBeatHandler \/ SendDataHandler
                      \/ UploadPacket \/ PingTimerExpires
             PROVE  IInv'
  OBVIOUS
<1> USE DEF HeartBeatHandler, UploadPacket, InitEnds, WaitExpires, SendDataHandler, PingTimerExpires
<1>1. UNCHANGED <<toClient, broker, attempt, calm, isconnected, handler, ping_outstanding>>
  BY DEF Publish, client, net
<1>2. /\ UNCHANGED <<toBroker, SR, line>> /\ Unconfirmed'
      /\ sending' \in {"none", "awaited", "ok"} /\ unheard' \in Nat /\ pingExpired' \in BOOLEAN
  <2>1. CASE Send(<<>>)
    BY <2>1, SendNothing DEF IInv
  <2>2. CASE UNCHANGED <<socket, toBroker, line>> /\ pingExpired' \in BOOLEAN
    BY <2>2 DEF socket, IInv, Unconfirmed, TypeOK
  <2> QED
    BY <2>1, <2>2 DEF Publish, SendFails, client, socket, net, IInv, TypeOK
<1>3. Fresh' /\ OneConnect' /\ OneSubscribe' /\ Truthful' /\ Believed'
  BY <1>1, <1>2, SameChannels
<1>4. SessionReal'
  BY <1>1, <1>2 DEF IInv, SessionReal, broker
<1>5. \/ pc = "connack" /\ pc' = "subscribe"
      \/ pc # "connect" /\ pc' \in {"idle", "heartbeat", "upload"}
  BY DEF Waiting, Waited, IInv, TypeOK, Stages
<1>6. Progress'
  <2>1. pc' = "upload" => left' # 0
    <3>1. CASE WaitExpires
      BY <3>1 DEF Waiting, Waited
    <3>2. CASE InitEnds \/ HeartBeatHandler \/ PingTimerExpires
      BY <3>2 DEF IInv, Progress
    <3>3. CASE SendDataHandler \/ UploadPacket
      BY <3>3, MqttAssumption DEF IInv, Progress, TypeOK
    <3> QED
      BY <3>1, <3>2, <3>3
  <2> QED
    BY <1>1, <1>2, <1>5, <2>1 DEF IInv, Progress, broker
<1>7. left' \in 0 .. Packets
  <2>1. left \in 0 .. Packets /\ Packets \in Nat /\ (pc = "upload" => left # 0)
    BY MqttAssumption DEF IInv, Progress, TypeOK
  <2>2. UNCHANGED left \/ left' = Packets \/ (pc = "upload" /\ left' = left - 1)
    OBVIOUS
  <2> QED
    BY <2>1, <2>2
<1>8. events' \subseteq {"NETINT", "CONNECT", "RECVNET"}
  BY DEF Publish, IInv, TypeOK
<1>9. masked' \in BOOLEAN
  BY DEF AfterAccess, IInv, TypeOK
<1>10. TypeOK'
  BY <1>1, <1>2, <1>5, <1>7, <1>8, <1>9 DEF IInv, TypeOK, Stages, broker
<1> QED
  BY <1>2, <1>3, <1>4, <1>6, <1>10 DEF IInv

LEMMA InvWorking == IInv /\ MQTT_Working => IInv'
<1> SUFFICES ASSUME IInv, MQTT_Working PROVE IInv'
  OBVIOUS
<1>1. UNCHANGED <<events, pc, left, isconnected, handler, broker, attempt, masked, calm>> /\ pc = "idle"
  BY DEF MQTT_Working
<1> DEFINE r == Request("PINGREQ")
<1>2. r \in Requests /\ r.type = "PINGREQ" /\ r.of = attempt
  BY DEF IInv, TypeOK, Request, Requests
<1>3. /\ toClient' \in Seq(Answers)
      /\ \A i \in 1 .. Len(toClient') : \E j \in 1 .. Len(toClient) : toClient'[i] = toClient[j]
  <2>1. CASE Read
    <3>1. toClient \in Seq(Answers) /\ toClient # <<>> /\ toClient' = Tail(toClient)
      BY <2>1 DEF IInv, TypeOK, Read, Readable
    <3> QED
      BY <3>1, FirstOf
  <2>2. CASE UNCHANGED toClient
    BY <2>2 DEF IInv, TypeOK
  <2> QED
    BY <2>1, <2>2 DEF MQTT_Working
<1>4. /\ toBroker' \in Seq(Requests)
      /\ \A i \in 1 .. Len(toBroker') :
              \/ i \in 1 .. Len(toBroker) /\ toBroker'[i] = toBroker[i]
              \/ i = Len(toBroker) + 1 /\ toBroker'[i] = r
      /\ UNCHANGED <<SR, line>>
      /\ sending' \in {"none", "awaited", "ok"} /\ unheard' \in Nat /\ pingExpired' \in BOOLEAN
      /\ Unconfirmed'
  <2>1. CASE Send(<<r>>)
    BY <2>1, <1>2, SendRequest DEF IInv
  <2>2. CASE UNCHANGED <<socket, toBroker, line, pingExpired>>
    BY <2>2 DEF socket, IInv, Unconfirmed, TypeOK
  <2> QED
    BY <2>1, <2>2 DEF MQTT_Working, SendFails
<1>5. ping_outstanding' \in BOOLEAN
  BY DEF MQTT_Working, IInv, TypeOK
<1> HIDE DEF r
<1>6. Fresh'
  BY <1>1, <1>2, <1>3, <1>4 DEF IInv, Fresh
<1>7. OneConnect'
  BY <1>1, <1>2, <1>3, <1>4 DEF IInv, OneConnect, broker
<1>8. OneSubscribe'
  BY <1>1, <1>2, <1>3, <1>4 DEF IInv, OneSubscribe, broker
<1>9. Truthful' /\ Believed' /\ SessionReal' /\ Progress'
  BY <1>1, <1>3, <1>4 DEF IInv, Truthful, Believed, SessionReal, Progress, broker
<1>10. TypeOK'
  BY <1>1, <1>3, <1>4, <1>5 DEF IInv, TypeOK, Stages, broker
<1> QED
  BY <1>4, <1>6, <1>7, <1>8, <1>9, <1>10 DEF IInv

(* The broker takes a request other than a subscription.                   *)
LEMMA SubscribeKept ==
  ASSUME OneSubscribe, UNCHANGED <<handler, granted>>,
         \A i \in 1 .. Len(toBroker') : i + 1 \in 1 .. Len(toBroker) /\ toBroker'[i] = toBroker[i + 1],
         \A i \in 1 .. Len(toClient') :
           (i \in 1 .. Len(toClient) /\ toClient'[i] = toClient[i]) \/ toClient'[i].type # "SUBACK"
  PROVE  OneSubscribe'
<1> SUFFICES ASSUME NEW i \in 1 .. Len(toBroker'), toBroker'[i].type = "SUBSCRIBE"
             PROVE  /\ ~handler' /\ ~granted'
                    /\ \A j \in 1 .. Len(toClient') : toClient'[j].type # "SUBACK"
                    /\ \A j \in 1 .. Len(toBroker') : toBroker'[j].type = "SUBSCRIBE" => j = i
  BY DEF OneSubscribe
<1>1. i + 1 \in 1 .. Len(toBroker) /\ toBroker[i + 1].type = "SUBSCRIBE"
  OBVIOUS
<1>2. /\ ~handler /\ ~granted
      /\ \A j \in 1 .. Len(toClient) : toClient[j].type # "SUBACK"
      /\ \A j \in 1 .. Len(toBroker) : toBroker[j].type = "SUBSCRIBE" => j = i + 1
  BY <1>1 DEF OneSubscribe
<1>3. ASSUME NEW j \in 1 .. Len(toBroker'), toBroker'[j].type = "SUBSCRIBE" PROVE j = i
  <2>1. j + 1 = i + 1
    BY <1>2, <1>3
  <2> QED
    BY <2>1
<1> QED
  BY <1>2, <1>3

(* The broker answers: what it decides is what the packet says.            *)
LEMMA InvBroker == IInv /\ Broker => IInv'
<1> SUFFICES ASSUME IInv, Broker PROVE IInv'
  OBVIOUS
<1> USE DEF BrokerHearsConnect, BrokerHearsSubscribe, BrokerHearsPing, BrokerPublishes, BrokerCloses
<1>1. UNCHANGED <<events, pc, left, client, attempt, masked, line, sending, unheard, calm>>
  BY DEF Broker, Rest, socket, client, net
<1>2. Unconfirmed' /\ Believed'
  BY <1>1 DEF IInv, Unconfirmed, Believed, client
<1>3. ASSUME NEW type \in {"CONNACK", "SUBACK", "PINGRESP"}, NEW ok \in BOOLEAN,
             toBroker # <<>>, toBroker' = Tail(toBroker),
             toClient' = Append(toClient, Answer(type, ok))
      PROVE  /\ toBroker' \in Seq(Requests) /\ toClient' \in Seq(Answers)
             /\ 1 \in 1 .. Len(toBroker) /\ Head(toBroker) = toBroker[1]
             /\ \A i \in 1 .. Len(toBroker') : i + 1 \in 1 .. Len(toBroker) /\ toBroker'[i] = toBroker[i + 1]
             /\ \A i \in 1 .. Len(toClient') :
                  \/ i \in 1 .. Len(toClient) /\ toClient'[i] = toClient[i]
                  \/ toClient'[i] = [type |-> type, ok |-> ok, of |-> attempt]
             /\ Fresh'
  <2>1. toBroker \in Seq(Requests) /\ toClient \in Seq(Answers)
    BY DEF IInv, TypeOK
  <2>2. /\ Tail(toBroker) \in Seq(Requests) /\ Head(toBroker) = toBroker[1]
        /\ 1 \in 1 .. Len(toBroker)
        /\ \A i \in 1 .. Len(Tail(toBroker)) : i + 1 \in 1 .. Len(toBroker) /\ Tail(toBroker)[i] = toBroker[i + 1]
    BY <1>3, <2>1, FirstOf
  <2>3. Head(toBroker).of = attempt
    BY <2>2 DEF IInv, Fresh
  <2> DEFINE a == [type |-> type, ok |-> ok, of |-> attempt]
  <2>4. Answer(type, ok) = a
    BY <2>3 DEF Answer
  <2>5. a \in Answers /\ a.of = attempt
    BY DEF IInv, TypeOK, Answers
  <2> HIDE DEF a
  <2>6. /\ toClient' \in Seq(Answers)
        /\ \A i \in 1 .. Len(toClient') :
             \/ i \in 1 .. Len(toClient) /\ toClient'[i] = toClient[i]
             \/ i = Len(toClient) + 1 /\ toClient'[i] = a
    BY <1>3, <2>1, <2>4, <2>5, Appended
  <2>7. Fresh'
    BY <1>1, <1>3, <2>2, <2>5, <2>6 DEF IInv, Fresh
  <2> QED
    BY <1>3, <2>2, <2>6, <2>7 DEF a
<1>4. CASE BrokerHearsConnect
  <2>1. accepted' \in BOOLEAN /\ UNCHANGED <<granted, SR>>
    BY <1>4 DEF IInv, TypeOK, socket
  <2>2. /\ toBroker' \in Seq(Requests) /\ toClient' \in Seq(Answers)
        /\ 1 \in 1 .. Len(toBroker) /\ Head(toBroker) = toBroker[1]
        /\ \A i \in 1 .. Len(toBroker') : i + 1 \in 1 .. Len(toBroker) /\ toBroker'[i] = toBroker[i + 1]
        /\ \A i \in 1 .. Len(toClient') :
             \/ i \in 1 .. Len(toClient) /\ toClient'[i] = toClient[i]
             \/ toClient'[i] = [type |-> "CONNACK", ok |-> accepted', of |-> attempt]
        /\ Fresh'
    BY <1>3, <1>4, <2>1
  <2>3. /\ ~isconnected /\ ~accepted /\ \A j \in 1 .. Len(toClient) : toClient[j].type # "CONNACK"
    BY <1>4, <2>2 DEF IInv, OneConnect
  <2>4. OneConnect'
    BY <1>1, <2>2 DEF IInv, OneConnect
  <2>5. OneSubscribe'
    <3>1. UNCHANGED <<handler, granted>> /\ OneSubscribe
      BY <1>1, <2>1 DEF client, IInv
    <3> QED
      BY <2>2, <3>1, SubscribeKept
  <2>6. Truthful'
    BY <2>1, <2>2, <2>3 DEF IInv, Truthful
  <2>7. Progress'
    <3>1. pc # "connect"
      BY <1>4, <2>2 DEF IInv, Progress
    <3>2. \A i \in 1 .. Len(toClient') : toClient'[i].type = "SUBACK"
            => \E j \in 1 .. Len(toClient) : toClient[j].type = "SUBACK"
      <4> SUFFICES ASSUME NEW i \in 1 .. Len(toClient'), toClient'[i].type = "SUBACK"
                   PROVE  \E j \in 1 .. Len(toClient) : toClient[j].type = "SUBACK"
        OBVIOUS
      <4>1. toClient'[i] # [type |-> "CONNACK", ok |-> accepted', of |-> attempt]
        OBVIOUS
      <4>2. i \in 1 .. Len(toClient) /\ toClient'[i] = toClient[i]
        BY <2>2, <4>1
      <4> QED
        BY <4>2
    <3>3. \A i \in 1 .. Len(toBroker') : toBroker'[i].type = "SUBSCRIBE"
            => \E j \in 1 .. Len(toBroker) : toBroker[j].type = "SUBSCRIBE"
      BY <2>2
    <3> HIDE <2>2
    <3> QED
      BY <1>1, <2>1, <3>1, <3>2, <3>3 DEF IInv, Progress, client
  <2>8. SessionReal' /\ TypeOK'
    BY <1>1, <2>1, <2>2, <2>3 DEF IInv, SessionReal, Believed, TypeOK, Stages, client
  <2> QED
    BY <1>2, <2>2, <2>4, <2>5, <2>6, <2>7, <2>8 DEF IInv
<1>5. CASE BrokerHearsSubscribe
  <2>1. granted' \in BOOLEAN /\ UNCHANGED <<accepted, SR>>
    BY <1>5 DEF IInv, TypeOK, socket
  <2>2. /\ toBroker' \in Seq(Requests) /\ toClient' \in Seq(Answers)
        /\ 1 \in 1 .. Len(toBroker) /\ Head(toBroker) = toBroker[1]
        /\ \A i \in 1 .. Len(toBroker') : i + 1 \in 1 .. Len(toBroker) /\ toBroker'[i] = toBroker[i + 1]
        /\ \A i \in 1 .. Len(toClient') :
             \/ i \in 1 .. Len(toClient) /\ toClient'[i] = toClient[i]
             \/ toClient'[i] = [type |-> "SUBACK", ok |-> granted', of |-> attempt]
        /\ Fresh'
    BY <1>3, <1>5, <2>1
  <2>3. /\ ~handler /\ ~granted /\ \A j \in 1 .. Len(toClient) : toClient[j].type # "SUBACK"
        /\ \A j \in 1 .. Len(toBroker) : toBroker[j].type = "SUBSCRIBE" => j = 1
        /\ pc \notin {"connect", "connack", "subscribe"}
    BY <1>5, <2>2 DEF IInv, OneSubscribe, Progress
  <2>4. OneConnect'
    BY <1>1, <2>1, <2>2 DEF IInv, OneConnect, client
  <2>5. OneSubscribe'
    <3> SUFFICES \A i \in 1 .. Len(toBroker') : toBroker'[i].type # "SUBSCRIBE"
      BY DEF OneSubscribe
    <3>1. \A i \in 1 .. Len(toBroker') : i + 1 # 1
      BY <2>2
    <3> QED
      BY <2>2, <2>3, <3>1
  <2>6. Truthful'
    BY <2>1, <2>2, <2>3 DEF IInv, Truthful
  <2>7. Progress'
    BY <1>1, <2>1, <2>2, <2>3 DEF IInv, Progress, client
  <2>8. SessionReal' /\ TypeOK'
    BY <1>1, <2>1, <2>2, <2>3 DEF IInv, SessionReal, Believed, TypeOK, Stages, client
  <2> QED
    BY <1>2, <2>2, <2>4, <2>5, <2>6, <2>7, <2>8 DEF IInv
<1>6. CASE BrokerHearsPing
  <2>1. UNCHANGED <<accepted, granted, SR>>
    BY <1>6 DEF broker, socket
  <2>2. /\ toBroker' \in Seq(Requests) /\ toClient' \in Seq(Answers)
        /\ 1 \in 1 .. Len(toBroker)
        /\ \A i \in 1 .. Len(toBroker') : i + 1 \in 1 .. Len(toBroker) /\ toBroker'[i] = toBroker[i + 1]
        /\ \A i \in 1 .. Len(toClient') :
             \/ i \in 1 .. Len(toClient) /\ toClient'[i] = toClient[i]
             \/ toClient'[i] = [type |-> "PINGRESP", ok |-> TRUE, of |-> attempt]
        /\ Fresh'
    BY <1>3, <1>6
  <2>3. pc # "connect"
    BY <1>6, <2>2 DEF IInv, Progress
  <2>4. OneConnect' /\ OneSubscribe'
    <3>1. UNCHANGED <<handler, granted>> /\ OneSubscribe
      BY <1>1, <2>1 DEF client, IInv
    <3>2. OneSubscribe'
      BY <2>2, <3>1, SubscribeKept
    <3>3. OneConnect'
      <4> SUFFICES \A i \in 1 .. Len(toBroker') : toBroker'[i].type # "CONNECT"
        BY DEF OneConnect
      <4>1. \A i \in 1 .. Len(toBroker') : i + 1 # 1
        BY <2>2
      <4> QED
        BY <2>2, <4>1 DEF IInv, OneConnect
    <3> QED
      BY <3>2, <3>3
  <2>5. Truthful' /\ Progress'
    <3>1. \A i \in 1 .. Len(toClient') :
             \/ i \in 1 .. Len(toClient) /\ toClient'[i] = toClient[i]
             \/ toClient'[i].type = "PINGRESP"
      BY <2>2
    <3>2. \A i \in 1 .. Len(toBroker') : i + 1 \in 1 .. Len(toBroker) /\ toBroker'[i] = toBroker[i + 1]
      BY <2>2
    <3> HIDE <2>2
    <3>3. Truthful'
      BY <2>1, <3>1 DEF IInv, Truthful
    <3>4. Progress'
      BY <1>1, <2>1, <2>3, <3>1, <3>2 DEF IInv, Progress, client
    <3> QED
      BY <3>3, <3>4
  <2>6. SessionReal' /\ TypeOK'
    BY <1>1, <2>1, <2>2 DEF IInv, SessionReal, TypeOK, Stages, client
  <2> QED
    BY <1>2, <2>2, <2>4, <2>5, <2>6 DEF IInv
<1>7. CASE BrokerPublishes
  <2>1. UNCHANGED <<toBroker, accepted, granted, SR>>
    BY <1>7 DEF broker, socket
  <2>2. Message \in Answers /\ Message.type = "PUBLISH" /\ Message.of = attempt
    BY DEF IInv, TypeOK, Message, Answers
  <2>3. toClient \in Seq(Answers)
    BY DEF IInv, TypeOK
  <2>4. /\ toClient' \in Seq(Answers)
        /\ \A i \in 1 .. Len(toClient') :
             \/ i \in 1 .. Len(toClient) /\ toClient'[i] = toClient[i]
             \/ i = Len(toClient) + 1 /\ toClient'[i] = Message
    BY <1>7, <2>2, <2>3, Appended
  <2>5. pc \notin {"connect", "connack", "subscribe"}
    <3>1. CASE granted
      BY <3>1 DEF IInv, Progress
    <3>2. CASE toBroker # <<>> /\ Head(toBroker).type = "SUBSCRIBE"
      <4>1. toBroker \in Seq(Requests)
        BY DEF IInv, TypeOK
      <4>2. 1 \in 1 .. Len(toBroker) /\ toBroker[1].type = "SUBSCRIBE"
        BY <3>2, <4>1
      <4>3. toBroker # <<>>
        BY <3>2
      <4> QED
        BY <4>2, <4>3 DEF IInv, Progress
    <3> QED
      BY <1>7, <3>1, <3>2
  <2>6. Fresh' /\ OneConnect' /\ OneSubscribe'
    BY <1>1, <2>1, <2>2, <2>4 DEF IInv, Fresh, OneConnect, OneSubscribe, client
  <2>7. Truthful' /\ Progress'
    BY <1>1, <2>1, <2>2, <2>4, <2>5 DEF IInv, Truthful, Progress, client
  <2>8. SessionReal' /\ TypeOK'
    BY <1>1, <2>1, <2>4 DEF IInv, SessionReal, TypeOK, Stages, client
  <2> QED
    BY <1>2, <2>6, <2>7, <2>8 DEF IInv
<1>8. CASE BrokerCloses
  <2>1. UNCHANGED <<toBroker, toClient, accepted, granted>> /\ SR = "ESTABLISHED" /\ SR' = "CLOSE_WAIT"
    BY <1>8 DEF net, broker, Linked
  <2>2. Fresh' /\ OneConnect' /\ OneSubscribe' /\ Truthful' /\ Progress'
    BY <1>1, <2>1 DEF IInv, Fresh, OneConnect, OneSubscribe, Truthful, Progress, client
  <2>3. SessionReal' /\ TypeOK'
    BY <1>1, <2>1 DEF IInv, SessionReal, TypeOK, Stages, client
  <2> QED
    BY <1>2, <2>2, <2>3 DEF IInv
<1> QED
  BY <1>4, <1>5, <1>6, <1>7, <1>8 DEF Broker

LEMMA InvNetwork == IInv /\ Network => IInv'
<1> SUFFICES ASSUME IInv, Network PROVE IInv'
  OBVIOUS
<1>1. UNCHANGED <<events, pc, left, client, attempt, masked, broker>>
  BY DEF Network, ChipConfirms, ChipGivesUp, LineDies, GrowsCalm, Rest
<1>2. CASE ChipConfirms \/ ChipGivesUp \/ GrowsCalm
  <2>1. UNCHANGED <<toBroker, toClient, line, unheard>>
    BY <1>2 DEF ChipConfirms, ChipGivesUp, GrowsCalm, net, socket
  <2>2. Fresh' /\ OneConnect' /\ OneSubscribe' /\ Truthful' /\ Believed'
    BY <1>1, <2>1, SameChannels DEF client
  <2>3. /\ SR' \in {SR, "CLOSED"} /\ sending' \in {sending, "ok"} /\ calm' \in BOOLEAN
        /\ Unconfirmed'
    BY <1>2, <2>1
    DEF ChipConfirms, ChipGivesUp, GrowsCalm, Linked, socket, IInv, Unconfirmed, TypeOK
  <2>4. Progress' /\ SessionReal'
    BY <1>1, <2>1, <2>3 DEF IInv, Progress, SessionReal, client, broker
  <2>5. TypeOK'
    BY <1>1, <2>1, <2>3 DEF IInv, TypeOK, Stages, client, broker
  <2> QED
    BY <2>2, <2>3, <2>4, <2>5 DEF IInv
<1>3. CASE LineDies
  <2>1. /\ toBroker' = <<>> /\ line' = "dead" /\ UNCHANGED <<SR, sending, unheard, calm>>
        /\ line = "up"
    BY <1>3 DEF LineDies, Linked, socket
  <2>2. toBroker' \in Seq(Requests) /\ Len(toBroker') = 0
    BY <2>1, EmptySeq
  <2>3. /\ toClient' \in Seq(Answers)
        /\ \A i \in 1 .. Len(toClient') : i \in 1 .. Len(toClient) /\ toClient'[i] = toClient[i]
    <3>1. toClient \in Seq(Answers)
      BY DEF IInv, TypeOK
    <3>2. PICK n \in 0 .. Len(toClient) : toClient' = SubSeq(toClient, 1, n)
      BY <1>3 DEF LineDies
    <3>3. Len(toClient) \in Nat /\ \A i \in 1 .. Len(toClient) : toClient[i] \in Answers
      BY <3>1, LenProperties, ElementOfSeq
    <3>4. n \in Int /\ 1 \in Int /\ \A i \in 1 .. n : toClient[i] \in Answers
      BY <3>3
    <3>5. /\ SubSeq(toClient, 1, n) \in Seq(Answers)
          /\ Len(SubSeq(toClient, 1, n)) = IF 1 <= n THEN n - 1 + 1 ELSE 0
          /\ \A i \in 1 .. n - 1 + 1 : SubSeq(toClient, 1, n)[i] = toClient[1 + i - 1]
      BY <3>4, SubSeqProperties
    <3> QED
      BY <3>2, <3>3, <3>5
  <2>4. pc # "connect" \/ (pc = "connect" /\ Len(toClient') = 0 /\ toClient' = <<>>)
    <3>1. CASE pc = "connect"
      <4>1. toClient = <<>> /\ Len(toClient) = 0
        BY <3>1, EmptySeq DEF IInv, Progress
      <4>2. toClient' = SubSeq(toClient, 1, 0)
        BY <1>3, <4>1 DEF LineDies
      <4>3. toClient' = <<>>
        BY <4>2, SubSeqEmpty
      <4> QED
        BY <3>1, <4>1, <4>3
    <3> QED
      BY <3>1
  <2>5. Fresh' /\ OneConnect' /\ OneSubscribe' /\ Truthful' /\ Believed'
    BY <1>1, <2>2, <2>3
    DEF IInv, Fresh, OneConnect, OneSubscribe, Truthful, Believed, client, broker
  <2>6. Unconfirmed'
    BY <2>1 DEF IInv, Unconfirmed
  <2>7. Progress' /\ SessionReal'
    BY <1>1, <2>1, <2>2, <2>3, <2>4 DEF IInv, Progress, SessionReal, client, broker
  <2>8. TypeOK'
    BY <1>1, <2>1, <2>2, <2>3 DEF IInv, TypeOK, Stages, client, broker
  <2> QED
    BY <2>5, <2>6, <2>7, <2>8 DEF IInv
<1> QED
  BY <1>2, <1>3 DEF Network

LEMMA InvNext == IInv /\ [Next]_vars => IInv'
<1> SUFFICES ASSUME IInv, [Next]_vars PROVE IInv'
  OBVIOUS
<1>1. CASE Next
  BY <1>1, InvReset, InvConnect, InvSubscribe, InvArrives, InvServe, InvWorking, InvBroker,
     InvNetwork
  DEF Next, Gateway
<1>2. CASE UNCHANGED vars
  <2>1. Fresh' /\ OneConnect' /\ OneSubscribe' /\ Truthful' /\ Believed'
    BY <1>2, SameChannels DEF vars, client, net
  <2>2. Unconfirmed' /\ Progress' /\ SessionReal'
    BY <1>2 DEF vars, client, socket, net, broker, IInv, Unconfirmed, Progress, SessionReal
  <2>3. TypeOK'
    BY <1>2 DEF vars, client, socket, net, broker, IInv, TypeOK, Stages
  <2> QED
    BY <2>1, <2>2, <2>3 DEF IInv
<1> QED
  BY <1>1, <1>2

LEMMA Invariant == Spec => []IInv
BY InvInit, InvNext, PTL DEF Spec

LEMMA StagedNext == Staged /\ [Next]_vars => Staged'
<1> SUFFICES ASSUME Staged, [Next]_vars PROVE Staged'
  OBVIOUS
<1>1. CASE NetworkInitHandler \/ MQTT_Init \/ SendDataHandler \/ UploadPacket \/ InitEnds
  BY <1>1 DEF NetworkInitHandler, MQTT_Init, SendDataHandler, UploadPacket, InitEnds, Staged
<1>2. CASE MQTTConnect \/ MQTTSubscribe \/ WaitedForArrives \/ OtherArrives \/ WaitExpires
  BY <1>2 DEF MQTTConnect, MQTTSubscribe, WaitedForArrives, OtherArrives, WaitExpires,
     Waiting, Waited, Staged
<1>3. CASE HeartBeatHandler \/ MQTT_Working \/ PingTimerExpires
  BY <1>3 DEF HeartBeatHandler, MQTT_Working, PingTimerExpires, Staged
<1>4. CASE Broker \/ Network
  BY <1>4
  DEF Broker, Network, BrokerHearsConnect, BrokerHearsSubscribe, BrokerHearsPing,
      BrokerPublishes, BrokerCloses, ChipConfirms, ChipGivesUp, LineDies, GrowsCalm, Rest, Staged
<1>5. CASE UNCHANGED vars
  BY <1>5 DEF vars, Staged
<1> QED
  BY <1>1, <1>2, <1>3, <1>4, <1>5 DEF Next, Gateway

LEMMA StagedHolds == Spec => []Staged
<1>1. Init => Staged
  BY DEF Init, Staged
<1> QED
  BY <1>1, StagedNext, PTL DEF Spec
-----------------------------------------------------------------------------
(* The ping: none on its way, or one asked, or one answered.               *)
Asked    == Places(toBroker, "PINGREQ")
Answered == Places(toClient, "PINGRESP")

IsOne(P) == \E i : P = {i}

InFlight ==
  \/ ~ping_outstanding /\ Asked = {} /\ Answered = {}
  \/ ping_outstanding /\ IsOne(Asked) /\ Answered = {}
  \/ ping_outstanding /\ Asked = {} /\ IsOne(Answered)

(* In MQTT_Init none is: its calls of cycle meet no PINGRESP.              *)
PingInv ==
  /\ pc \notin {"idle", "upload"} => ~ping_outstanding
  /\ Linked => InFlight

LEMMA PlacesAppend ==
  ASSUME NEW S, NEW s \in Seq(S), NEW e \in S, NEW type
  PROVE  Places(Append(s, e), type)
           = IF e.type = type THEN Places(s, type) \cup {Len(s) + 1} ELSE Places(s, type)
<1>1. /\ Len(s) \in Nat /\ Len(Append(s, e)) = Len(s) + 1
      /\ \A i \in 1 .. Len(s) : Append(s, e)[i] = s[i]
      /\ Append(s, e)[Len(s) + 1] = e
  BY AppendProperties, LenProperties
<1>2. ASSUME NEW i PROVE i \in 1 .. Len(s) + 1 <=> i \in 1 .. Len(s) \/ i = Len(s) + 1
  BY <1>1
<1> QED
  BY <1>1, <1>2 DEF Places

LEMMA PlacesTail ==
  ASSUME NEW S, NEW s \in Seq(S), s # <<>>, NEW type
  PROVE  /\ Places(s, type) = {} => Places(Tail(s), type) = {} /\ Head(s).type # type
         /\ IsOne(Places(s, type)) =>
              IF Head(s).type = type THEN Places(Tail(s), type) = {}
                                     ELSE IsOne(Places(Tail(s), type))
<1>1. /\ Head(s) = s[1] /\ Len(s) \in Nat \ {0} /\ Len(Tail(s)) = Len(s) - 1
      /\ \A i \in 1 .. Len(Tail(s)) : i + 1 \in 1 .. Len(s) /\ Tail(s)[i] = s[i + 1]
  BY FirstOf
<1>2. ASSUME NEW i PROVE i \in Places(Tail(s), type) <=> i \in Int /\ i # 0 /\ i + 1 \in Places(s, type)
  BY <1>1 DEF Places
<1>3. 1 \in Places(s, type) <=> Head(s).type = type
  BY <1>1 DEF Places
<1>4. Places(s, type) = {} => Places(Tail(s), type) = {} /\ Head(s).type # type
  BY <1>2, <1>3
<1>5. ASSUME NEW k, Places(s, type) = {k}
      PROVE  IF Head(s).type = type THEN Places(Tail(s), type) = {} ELSE IsOne(Places(Tail(s), type))
  <2>1. k \in Int
    BY <1>1, <1>5 DEF Places
  <2>2. CASE Head(s).type = type
    BY <1>2, <1>3, <1>5, <2>1, <2>2
  <2>3. CASE Head(s).type # type
    <3>1. k - 1 \in Int /\ k - 1 # 0
      BY <1>3, <1>5, <2>1, <2>3
    <3>2. Places(Tail(s), type) = {k - 1}
      BY <1>2, <1>5, <2>1, <3>1
    <3> QED
      BY <2>3, <3>2 DEF IsOne
  <2> QED
    BY <2>2, <2>3
<1> QED
  BY <1>4, <1>5 DEF IsOne

(* What a request sent on a live line does to the pings asked.             *)
LEMMA AskedBySend ==
  ASSUME TypeOK, NEW type \in {"CONNECT", "SUBSCRIBE", "PINGREQ"}, line = "up", Send(<<Request(type)>>)
  PROVE  Asked' = IF type = "PINGREQ" THEN Asked \cup {Len(toBroker) + 1} ELSE Asked
<1>1. toBroker \in Seq(Requests) /\ Request(type) \in Requests /\ Request(type).type = type
  BY DEF TypeOK, Request, Requests
<1>2. toBroker' = Append(toBroker, Request(type))
  BY <1>1, AppendIsConcat DEF Send
<1> QED
  BY <1>1, <1>2, PlacesAppend DEF Asked

LEMMA AskedByNothing == ASSUME TypeOK, Send(<<>>) PROVE Asked' = Asked
<1>1. toBroker \o <<>> = toBroker
  BY ConcatEmptySeq DEF TypeOK
<1> QED
  BY <1>1 DEF Send, Asked

(* Reading takes an answer off, or something else.                         *)
LEMMA AnsweredByRead ==
  ASSUME TypeOK, Read
  PROVE  /\ Answered = {} => Answered' = {} /\ Packet.type # "PINGRESP"
         /\ IsOne(Answered) =>
              IF Packet.type = "PINGRESP" THEN Answered' = {} ELSE IsOne(Answered')
<1>1. toClient \in Seq(Answers) /\ toClient # <<>> /\ toClient' = Tail(toClient)
  BY DEF TypeOK, Read, Readable
<1> QED
  BY <1>1, PlacesTail DEF Answered, Packet

LEMMA PingGateway == IInv /\ PingInv /\ Gateway => PingInv'
<1> SUFFICES ASSUME IInv, PingInv, Gateway PROVE PingInv'
  OBVIOUS
<1>t. TypeOK
  BY DEF IInv
<1>1. CASE NetworkInitHandler
  BY <1>1 DEF NetworkInitHandler, PingInv, Linked, client
<1>2. CASE MQTT_Init
  <2>1. toBroker' = <<>> /\ toClient' = <<>> /\ ping_outstanding' = FALSE
    BY <1>2 DEF MQTT_Init, ConnectNetwork, MQTTClientInit
  <2>2. Asked' = {} /\ Answered' = {}
    BY <2>1, EmptySeq DEF Asked, Answered, Places
  <2> QED
    BY <2>1, <2>2 DEF PingInv, InFlight
<1>3. CASE MQTTConnect \/ MQTTSubscribe
  <2>1. /\ UNCHANGED <<ping_outstanding, toClient>> /\ ~ping_outstanding
        /\ UNCHANGED <<SR, line>>
    BY <1>3 DEF MQTTConnect, MQTTSubscribe, PingInv, Send, SendFails, socket
  <2>2. Linked => UNCHANGED Asked
    BY <1>t, <1>3, AskedBySend DEF MQTTConnect, MQTTSubscribe, SendFails, Asked, Linked
  <2> QED
    BY <2>1, <2>2 DEF PingInv, InFlight, Linked, Answered
<1>4. CASE WaitedForArrives \/ OtherArrives
  <2>1. /\ UNCHANGED <<ping_outstanding, toBroker, SR, line>> /\ ~ping_outstanding /\ Read
    BY <1>4 DEF WaitedForArrives, OtherArrives, PingInv, Waiting, socket, client
  <2>2. Linked => Asked' = {} /\ Answered' = {}
    BY <1>t, <2>1, AnsweredByRead DEF PingInv, InFlight, Asked
  <2> QED
    BY <2>1, <2>2 DEF PingInv, InFlight, Linked
<1>5. CASE WaitExpires \/ InitEnds \/ HeartBeatHandler \/ SendDataHandler \/ UploadPacket
             \/ PingTimerExpires
  <2>1. /\ UNCHANGED <<ping_outstanding, toClient, SR, line>>
        /\ pc \in {"idle", "upload"} \/ ~ping_outstanding
    BY <1>5
    DEF WaitExpires, InitEnds, HeartBeatHandler, SendDataHandler, UploadPacket, PingTimerExpires,
        Publish, Send, SendFails, client, socket, net, PingInv
  <2>2. pc \in {"idle", "upload"} => pc' \in {"idle", "upload"}
    BY <1>5
    DEF WaitExpires, InitEnds, HeartBeatHandler, SendDataHandler, UploadPacket, PingTimerExpires, Waiting
  <2>3. UNCHANGED Asked
    BY <1>t, <1>5, AskedByNothing
    DEF WaitExpires, InitEnds, HeartBeatHandler, SendDataHandler, UploadPacket, PingTimerExpires,
        Publish, SendFails, net, Asked
  <2> QED
    BY <2>1, <2>2, <2>3 DEF PingInv, InFlight, Linked, Answered
<1>6. CASE MQTT_Working
  <2>1. pc' = "idle" /\ UNCHANGED <<SR, line>>
    BY <1>6 DEF MQTT_Working, Send, SendFails, socket
  <2> SUFFICES ASSUME Linked PROVE InFlight'
    BY <2>1 DEF PingInv, Linked
  <2> DEFINE pending == ping_outstanding /\ ~(Readable /\ Packet.type = "PINGRESP")
  <2>2. InFlight
    BY DEF PingInv
  <2>3. IF pending
          THEN (IsOne(Asked) /\ Answered' = {}) \/ (Asked = {} /\ IsOne(Answered'))
          ELSE Asked = {} /\ Answered' = {}
    <3>1. CASE Read
      BY <1>t, <2>2, <3>1, AnsweredByRead DEF InFlight, Read, IsOne
    <3>2. CASE ~Readable /\ UNCHANGED toClient
      BY <2>2, <3>2 DEF InFlight, Answered
    <3> QED
      BY <1>6, <3>1, <3>2 DEF MQTT_Working
  <2>4. \/ ~pending /\ Send(<<Request("PINGREQ")>>) /\ ping_outstanding' = TRUE
        \/ UNCHANGED toBroker /\ ping_outstanding' = pending
    BY <1>6 DEF MQTT_Working, SendFails
  <2>5. pending \in BOOLEAN
    BY <1>t DEF TypeOK
  <2> HIDE DEF pending
  <2>6. CASE ~pending /\ Send(<<Request("PINGREQ")>>) /\ ping_outstanding' = TRUE
    <3>1. Asked' = Asked \cup {Len(toBroker) + 1}
      BY <1>t, <2>6, AskedBySend DEF Linked
    <3>2. Asked' = {Len(toBroker) + 1} /\ Answered' = {}
      BY <2>3, <2>6, <3>1
    <3> QED
      BY <2>6, <3>2 DEF InFlight, IsOne
  <2>7. CASE UNCHANGED toBroker /\ ping_outstanding' = pending
    <3>1. UNCHANGED Asked
      BY <2>7 DEF Asked
    <3> QED
      BY <2>3, <2>5, <2>7, <3>1 DEF InFlight
  <2> QED
    BY <2>4, <2>6, <2>7
<1> QED
  BY <1>1, <1>2, <1>3, <1>4, <1>5, <1>6 DEF Gateway

LEMMA PingOutside == IInv /\ PingInv /\ (Broker \/ Network) => PingInv'
<1> SUFFICES ASSUME IInv, PingInv, Broker \/ Network PROVE PingInv'
  OBVIOUS
<1>1. toBroker \in Seq(Requests) /\ toClient \in Seq(Answers)
  BY DEF IInv, TypeOK
<1>2. UNCHANGED <<pc, ping_outstanding>>
  BY
  DEF Broker, Network, BrokerHearsConnect, BrokerHearsSubscribe, BrokerHearsPing, BrokerPublishes,
      BrokerCloses, ChipConfirms, ChipGivesUp, LineDies, GrowsCalm, Rest, client
<1> SUFFICES ASSUME Linked' PROVE InFlight'
  BY <1>2 DEF PingInv
<1>3. ASSUME Linked, toBroker # <<>>, toBroker' = Tail(toBroker),
             NEW a \in Answers, toClient' = Append(toClient, a),
             Head(toBroker).type = "PINGREQ" <=> a.type = "PINGRESP"
      PROVE  InFlight'
  <2>1. InFlight
    BY <1>3 DEF PingInv
  <2>2. Answered' = IF a.type = "PINGRESP" THEN Answered \cup {Len(toClient) + 1} ELSE Answered
    BY <1>1, <1>3, PlacesAppend DEF Answered
  <2>3. /\ Asked = {} => Asked' = {} /\ a.type # "PINGRESP"
        /\ IsOne(Asked) => IF a.type = "PINGRESP" THEN Asked' = {} ELSE IsOne(Asked')
    BY <1>1, <1>3, PlacesTail DEF Asked
  <2>4. CASE a.type = "PINGRESP"
    <3>1. ping_outstanding' /\ Asked' = {} /\ Answered = {}
      BY <1>2, <2>1, <2>3, <2>4 DEF InFlight
    <3>2. Answered' = {Len(toClient) + 1}
      BY <2>2, <2>4, <3>1
    <3> QED
      BY <3>1, <3>2 DEF InFlight, IsOne
  <2>5. CASE a.type # "PINGRESP"
    BY <1>2, <2>1, <2>2, <2>3, <2>5 DEF InFlight
  <2> QED
    BY <2>4, <2>5
<1>4. CASE BrokerHearsConnect \/ BrokerHearsSubscribe \/ BrokerHearsPing
  <2>1. Linked /\ toBroker # <<>> /\ toBroker' = Tail(toBroker)
    BY <1>4 DEF BrokerHearsConnect, BrokerHearsSubscribe, BrokerHearsPing
  <2>2. Head(toBroker).of \in 0 .. 2
    <3>1. Head(toBroker) \in Requests
      BY <1>1, <2>1, FirstOf
    <3> QED
      BY <3>1 DEF Requests
  <2>3. accepted' \in BOOLEAN /\ granted' \in BOOLEAN
    BY <1>4 DEF BrokerHearsConnect, BrokerHearsSubscribe, BrokerHearsPing, IInv, TypeOK, broker
  <2>4. ASSUME NEW type \in {"CONNACK", "SUBACK", "PINGRESP"}, NEW ok \in BOOLEAN
        PROVE  Answer(type, ok) \in Answers /\ Answer(type, ok).type = type
    BY <2>2 DEF Answer, Answers
  <2>5. CASE BrokerHearsConnect
    BY <1>3, <2>1, <2>3, <2>4, <2>5 DEF BrokerHearsConnect
  <2>6. CASE BrokerHearsSubscribe
    BY <1>3, <2>1, <2>3, <2>4, <2>6 DEF BrokerHearsSubscribe
  <2>7. CASE BrokerHearsPing
    BY <1>3, <2>1, <2>4, <2>7 DEF BrokerHearsPing
  <2> QED
    BY <1>4, <2>5, <2>6, <2>7
<1>5. CASE BrokerPublishes
  <2>1. Message \in Answers /\ Message.type # "PINGRESP"
    BY DEF Message, Answers, IInv, TypeOK
  <2>2. Linked /\ UNCHANGED Asked /\ Answered' = Answered
    BY <1>1, <1>5, <2>1, PlacesAppend DEF BrokerPublishes, Asked, Answered
  <2> QED
    BY <1>2, <2>2 DEF PingInv, InFlight
<1>6. CASE ChipConfirms \/ GrowsCalm
  BY <1>2, <1>6 DEF ChipConfirms, GrowsCalm, socket, net, PingInv, InFlight, Linked, Asked, Answered
<1>7. ~(BrokerCloses \/ ChipGivesUp \/ LineDies)
  BY DEF BrokerCloses, ChipGivesUp, LineDies, Linked
<1> QED
  BY <1>4, <1>5, <1>6, <1>7 DEF Broker, Network

LEMMA PingInvariant == Spec => []PingInv
<1>1. Init => PingInv
  BY DEF Init, PingInv, Linked
<1>2. IInv /\ PingInv /\ [Next]_vars => PingInv'
  <2>1. ASSUME PingInv, UNCHANGED vars PROVE PingInv'
    BY <2>1 DEF vars, client, socket, net, PingInv, InFlight, Linked, Asked, Answered
  <2> QED
    BY <2>1, PingGateway, PingOutside DEF Next
<1> QED
  BY <1>1, <1>2, Invariant, PTL DEF Spec
-----------------------------------------------------------------------------
(* The refinement of Session: the client subscribes in a session only.     *)
Subscribing ==
  /\ \A i \in 1 .. Len(toBroker) : toBroker[i].type = "SUBSCRIBE" => isconnected
  /\ granted => accepted

LEMMA SubscribingGateway == IInv /\ Subscribing /\ Gateway => Subscribing'
<1> SUFFICES ASSUME IInv, Subscribing, Gateway PROVE Subscribing'
  OBVIOUS
<1>t. TypeOK /\ Unconfirmed
  BY DEF IInv
<1>1. CASE NetworkInitHandler \/ MQTT_Init
  <2>1. toBroker' = <<>> /\ ~granted'
    BY <1>1 DEF NetworkInitHandler, MQTT_Init, ConnectNetwork
  <2> QED
    BY <2>1, EmptySeq DEF Subscribing
<1>2. ASSUME NEW type \in {"CONNECT", "SUBSCRIBE", "PINGREQ"}, Send(<<Request(type)>>),
             type = "SUBSCRIBE" => isconnected, UNCHANGED <<isconnected, broker>>
      PROVE  Subscribing'
  <2>1. Request(type) \in Requests /\ Request(type).type = type
    BY <1>t DEF TypeOK, Request, Requests
  <2>2. \A i \in 1 .. Len(toBroker') :
          \/ i \in 1 .. Len(toBroker) /\ toBroker'[i] = toBroker[i]
          \/ i = Len(toBroker) + 1 /\ toBroker'[i] = Request(type)
    BY <1>t, <1>2, <2>1, SendRequest
  <2> QED
    BY <1>2, <2>1, <2>2 DEF Subscribing, broker
<1>3. ASSUME UNCHANGED <<toBroker, isconnected, broker>> PROVE Subscribing'
  BY <1>3 DEF Subscribing, broker
<1>4. CASE MQTTConnect \/ MQTTSubscribe \/ MQTT_Working
  BY <1>2, <1>3, <1>4 DEF MQTTConnect, MQTTSubscribe, MQTT_Working, SendFails
<1>5. CASE WaitedForArrives
  <2>1. CASE pc = "connack"
    BY <1>5, <2>1 DEF WaitedForArrives, IInv, Progress, Subscribing, broker
  <2>2. CASE pc # "connack"
    BY <1>3, <1>5, <2>2 DEF WaitedForArrives
  <2> QED
    BY <2>1, <2>2
<1>6. CASE OtherArrives \/ WaitExpires \/ SendDataHandler \/ PingTimerExpires
  BY <1>3, <1>6 DEF OtherArrives, WaitExpires, SendDataHandler, PingTimerExpires, client, net
<1>7. CASE InitEnds \/ HeartBeatHandler \/ UploadPacket
  <2>1. UNCHANGED toBroker
    BY <1>t, <1>7, SendNothing DEF InitEnds, HeartBeatHandler, UploadPacket, Publish, SendFails
  <2>2. UNCHANGED <<isconnected, broker>>
    BY <1>7 DEF InitEnds, HeartBeatHandler, UploadPacket, Publish
  <2> QED
    BY <1>3, <2>1, <2>2
<1> QED
  BY <1>1, <1>4, <1>5, <1>6, <1>7 DEF Gateway

LEMMA SubscribingOutside == IInv /\ Subscribing /\ (Broker \/ Network) => Subscribing'
<1> SUFFICES ASSUME IInv, Subscribing, Broker \/ Network PROVE Subscribing'
  OBVIOUS
<1>t. toBroker \in Seq(Requests)
  BY DEF IInv, TypeOK
<1>1. UNCHANGED isconnected
  BY DEF Broker, Network, BrokerHearsConnect, BrokerHearsSubscribe, BrokerHearsPing, BrokerPublishes,
         BrokerCloses, ChipConfirms, ChipGivesUp, LineDies, GrowsCalm, Rest, client
<1>2. ASSUME toBroker # <<>>, toBroker' = Tail(toBroker)
      PROVE  /\ \A i \in 1 .. Len(toBroker') : toBroker'[i].type = "SUBSCRIBE" => isconnected'
             /\ Head(toBroker) = toBroker[1] /\ 1 \in 1 .. Len(toBroker)
  BY <1>t, <1>1, <1>2, FirstOf DEF Subscribing
<1>3. CASE BrokerHearsConnect
  BY <1>2, <1>3 DEF BrokerHearsConnect, IInv, OneConnect, Subscribing
<1>4. CASE BrokerHearsSubscribe
  <2>1. isconnected /\ SR = "ESTABLISHED"
    BY <1>2, <1>4 DEF BrokerHearsSubscribe, Linked, Subscribing
  <2>2. accepted
    BY <2>1 DEF IInv, SessionReal
  <2> QED
    BY <1>2, <1>4, <2>2 DEF BrokerHearsSubscribe, Subscribing
<1>5. CASE BrokerHearsPing
  BY <1>2, <1>5 DEF BrokerHearsPing, Subscribing, broker
<1>6. CASE LineDies
  BY <1>6, EmptySeq DEF LineDies, Subscribing, broker
<1>7. CASE BrokerPublishes \/ BrokerCloses \/ ChipConfirms \/ ChipGivesUp \/ GrowsCalm
  BY <1>1, <1>7
  DEF BrokerPublishes, BrokerCloses, ChipConfirms, ChipGivesUp, GrowsCalm, net, broker, Subscribing
<1> QED
  BY <1>3, <1>4, <1>5, <1>6, <1>7 DEF Broker, Network

LEMMA SubscribingHolds == Spec => []Subscribing
<1>1. Init => Subscribing
  BY EmptySeq DEF Init, Subscribing
<1>2. Subscribing /\ UNCHANGED vars => Subscribing'
  BY DEF vars, client, net, broker, Subscribing
<1> QED
  BY <1>1, <1>2, SubscribingGateway, SubscribingOutside, Invariant, PTL DEF Spec, Next

(* The gateway's steps, as steps of a session.                             *)
LEMMA SessionGateway ==
  IInv /\ Staged /\ Gateway => [Promise!Next]_(Promise!vars)
<1> SUFFICES ASSUME IInv, Staged, Gateway, ~UNCHANGED Promise!vars PROVE Promise!Next
  OBVIOUS
<1>t. isconnected \in BOOLEAN /\ handler \in BOOLEAN
  BY DEF IInv, TypeOK
<1>s. Serving \in BOOLEAN
  BY DEF Serving
<1>1. CASE NetworkInitHandler \/ MQTT_Init
  <2>1. Serving = FALSE /\ Serving' = FALSE
    BY <1>1 DEF NetworkInitHandler, MQTT_Init, Serving
  <2>2. BrokerSide' = "none" /\ ClientSide' = "closed"
    BY <1>1 DEF NetworkInitHandler, MQTT_Init, ConnectNetwork, MQTTClientInit, BrokerSide, ClientSide
  <2> QED
    BY <2>1, <2>2 DEF Promise!Next, Promise!Reconnect
<1>2. CASE MQTTConnect \/ MQTTSubscribe \/ OtherArrives \/ WaitExpires \/ SendDataHandler
             \/ MQTT_Working \/ PingTimerExpires
  BY <1>2
  DEF MQTTConnect, MQTTSubscribe, OtherArrives, WaitExpires, SendDataHandler, MQTT_Working,
      PingTimerExpires, Send, SendFails, client, socket, net, broker,
      Promise!vars, BrokerSide, ClientSide, Serving
<1>3. CASE WaitedForArrives
  <2>1. SR = "ESTABLISHED" /\ UNCHANGED <<SR, events, accepted, granted>> /\ Packet.type = Wanted
    BY <1>3 DEF WaitedForArrives, Read, Readable, socket, broker
  <2>2. UNCHANGED <<Serving, BrokerSide>>
    BY <2>1 DEF Serving, BrokerSide
  <2>3. Packet \in Answers /\ Packet = toClient[1] /\ 1 \in 1 .. Len(toClient)
    BY <1>3, InvRead DEF WaitedForArrives
  <2>4. (Packet.type = "CONNACK" /\ Packet.ok => accepted) /\ (Packet.type = "SUBACK" /\ Packet.ok => granted)
    BY <2>3 DEF IInv, Truthful
  <2>5. CASE pc = "connack"
    <3>1. ~isconnected /\ ~handler /\ ~granted /\ UNCHANGED handler /\ (isconnected' => accepted)
      BY <1>3, <2>4, <2>5 DEF WaitedForArrives, Wanted, IInv, Progress
    <3>2. CASE isconnected'
      BY <2>1, <2>2, <3>1, <3>2 DEF BrokerSide, ClientSide, Promise!Next, Promise!Open
    <3>3. CASE ~isconnected'
      BY <2>2, <3>1, <3>3 DEF ClientSide, Promise!vars
    <3> QED
      BY <3>2, <3>3
  <2>6. CASE pc = "suback"
    <3>1. isconnected /\ ~handler /\ UNCHANGED isconnected /\ (handler' => granted)
      BY <1>3, <2>4, <2>6 DEF WaitedForArrives, Wanted, IInv, Progress
    <3>2. accepted
      BY <2>1, <3>1 DEF IInv, SessionReal
    <3>3. CASE handler'
      BY <2>1, <2>2, <3>1, <3>2, <3>3 DEF BrokerSide, ClientSide, Promise!Next, Promise!Listen
    <3>4. CASE ~handler'
      BY <2>1, <2>2, <3>1, <3>4 DEF ClientSide, Promise!vars
    <3> QED
      BY <3>3, <3>4
  <2> QED
    BY <1>3, <2>5, <2>6 DEF WaitedForArrives, Waiting
<1>4. CASE InitEnds
  <2>1. UNCHANGED <<BrokerSide, ClientSide>>
    BY <1>4 DEF InitEnds, Send, SendFails, socket, broker, BrokerSide, ClientSide
  <2>2. ~Serving
    BY <1>4 DEF InitEnds, Staged, Serving
  <2>3. Serving' => ClientSide \in {"open", "listening"}
    BY <1>4 DEF InitEnds, MayPublish, Send, CanSend, Serving, ClientSide
  <2>4. Serving'
    BY <1>s, <2>1, <2>2 DEF Promise!vars, Serving
  <2> QED
    BY <2>1, <2>3, <2>4 DEF Promise!Next, Promise!Serve
<1>5. CASE HeartBeatHandler \/ UploadPacket
  <2>1. UNCHANGED <<BrokerSide, ClientSide>>
    <3>1. UNCHANGED <<SR, isconnected, handler, broker>>
      BY <1>5 DEF HeartBeatHandler, UploadPacket, Publish, Send, SendFails, socket
    <3> QED
      BY <3>1 DEF broker, BrokerSide, ClientSide
  <2>2. events' = events \/ events' = events \cup {"CONNECT"}
    BY <1>5 DEF HeartBeatHandler, UploadPacket, Publish
  <2>3. UNCHANGED Serving \/ Serving' = FALSE
    BY <2>2 DEF Serving
  <2> QED
    BY <2>1, <2>3 DEF Promise!vars, Promise!Next, Promise!GiveUp
<1> QED
  BY <1>1, <1>2, <1>3, <1>4, <1>5 DEF Gateway

(* ... and those of the broker, the chip and the line.                     *)
LEMMA SessionOutside ==
  IInv /\ Subscribing /\ (Broker \/ Network) => [Promise!Next]_(Promise!vars)
<1> SUFFICES ASSUME IInv, Subscribing, Broker \/ Network, ~UNCHANGED Promise!vars PROVE Promise!Next
  OBVIOUS
<1>t. toBroker \in Seq(Requests) /\ accepted \in BOOLEAN /\ granted \in BOOLEAN
  BY DEF IInv, TypeOK
<1>1. UNCHANGED <<isconnected, handler, Serving>>
  BY DEF Broker, Network, BrokerHearsConnect, BrokerHearsSubscribe, BrokerHearsPing, BrokerPublishes,
         BrokerCloses, ChipConfirms, ChipGivesUp, LineDies, GrowsCalm, Rest, client, Serving
<1>2. toBroker # <<>> => Head(toBroker) = toBroker[1] /\ 1 \in 1 .. Len(toBroker)
  BY <1>t, FirstOf
<1>3. CASE BrokerHearsConnect
  <2>1. ~isconnected /\ ~accepted /\ ~granted /\ UNCHANGED <<SR, granted>>
    BY <1>2, <1>3 DEF BrokerHearsConnect, IInv, OneConnect, Subscribing, socket
  <2>2. ClientSide = "closed" /\ ClientSide' = "closed"
    BY <1>1, <2>1 DEF ClientSide
  <2>3. CASE accepted'
    BY <1>1, <2>1, <2>2, <2>3 DEF BrokerSide, Promise!Next, Promise!Accept
  <2>4. CASE ~accepted'
    BY <1>1, <2>1, <2>2, <2>4 DEF BrokerSide, Promise!vars
  <2> QED
    BY <2>3, <2>4
<1>4. CASE BrokerHearsSubscribe
  <2>1. SR = "ESTABLISHED" /\ isconnected /\ ~handler /\ ~granted /\ UNCHANGED <<SR, accepted>>
    BY <1>2, <1>4 DEF BrokerHearsSubscribe, Linked, IInv, OneSubscribe, Subscribing, socket
  <2>2. accepted
    BY <2>1 DEF IInv, SessionReal
  <2>3. ClientSide = "open" /\ ClientSide' = "open"
    BY <1>1, <2>1 DEF ClientSide
  <2>4. CASE granted'
    BY <1>1, <2>1, <2>2, <2>3, <2>4 DEF BrokerSide, Promise!Next, Promise!Grant
  <2>5. CASE ~granted'
    BY <1>1, <2>1, <2>2, <2>3, <2>5 DEF BrokerSide, Promise!vars
  <2> QED
    BY <2>4, <2>5
<1>5. CASE ChipGivesUp
  <2>1. ClientSide' = "closed" /\ UNCHANGED BrokerSide
    BY <1>5 DEF ChipGivesUp, broker, ClientSide, BrokerSide
  <2> QED
    BY <1>1, <2>1 DEF Promise!Next, Promise!Lose
<1>6. CASE BrokerHearsPing \/ BrokerPublishes \/ BrokerCloses \/ ChipConfirms \/ LineDies \/ GrowsCalm
  <2>1. UNCHANGED <<accepted, granted>> /\ (UNCHANGED SR \/ (SR # "CLOSED" /\ SR' # "CLOSED"))
    BY <1>6
    DEF BrokerHearsPing, BrokerPublishes, BrokerCloses, ChipConfirms, LineDies, GrowsCalm, Linked,
        socket, broker
  <2> QED
    BY <1>1, <2>1 DEF Promise!vars, ClientSide, BrokerSide
<1> QED
  BY <1>3, <1>4, <1>5, <1>6 DEF Broker, Network
-----------------------------------------------------------------------------
(* The variables keep their types, whatever the broker and the line do.    *)
THEOREM TypeCorrect == Spec => []TypeOK
<1>1. IInv => TypeOK
  BY DEF IInv
<1> QED
  BY <1>1, Invariant, PTL

(* What the client believes of its session is what the broker answered on  *)
(* this connection (MQTTClient.c:388, :431; nobody looks at the results).  *)
THEOREM SessionRealHolds == Spec => []SessionReal
<1>1. IInv => SessionReal
  BY DEF IInv
<1> QED
  BY <1>1, Invariant, PTL

(* A dead line takes at most one packet that is reported as sent           *)
(* (socket.c:335-359).                                                     *)
THEOREM OneUnheardHolds == Spec => []OneUnheard
<1>1. IInv => OneUnheard
  BY DEF IInv, Unconfirmed, OneUnheard
<1> QED
  BY <1>1, Invariant, PTL

(* A ping is outstanding just when one is on its way, asked or answered:   *)
(* the connection of a session is never without the ping its client waits  *)
(* for, nor has one too many (MQTTClient.c:195-220, :278-280).             *)
THEOREM OnePingHolds == Spec => []OnePing
<1>1. PingInv => OnePing
  <2> SUFFICES ASSUME PingInv, Linked
               PROVE  Cardinality(Asked) + Cardinality(Answered) = IF ping_outstanding THEN 1 ELSE 0
    BY DEF OnePing, Asked, Answered
  <2>1. Cardinality({}) = 0 /\ \A P : IsOne(P) => Cardinality(P) = 1
    BY FS_EmptySet, FS_Singleton DEF IsOne
  <2> QED
    BY <2>1 DEF PingInv, InFlight
<1> QED
  BY <1>1, PingInvariant, PTL

(* The answer waitfor takes is the one to this call's request.             *)
THEOREM AnswersThisRequestHolds == Spec => AnswersThisRequest
<1>1. IInv /\ [Next]_vars
        => [(isconnected' /\ ~isconnected) \/ (handler' /\ ~handler)
              => Packet.of = attempt]_vars
  <2> SUFFICES ASSUME IInv, Next, (isconnected' /\ ~isconnected) \/ (handler' /\ ~handler)
               PROVE  Packet.of = attempt
    OBVIOUS
  <2>1. CASE WaitedForArrives
    <3>1. toClient \in Seq(Answers) /\ toClient # <<>>
      BY <2>1 DEF WaitedForArrives, Read, Readable, IInv, TypeOK
    <3>2. Packet = toClient[1] /\ 1 \in 1 .. Len(toClient)
      BY <3>1, FirstOf DEF Packet
    <3> QED
      BY <3>2 DEF IInv, Fresh
  <2>2. CASE Next /\ ~WaitedForArrives
    <3>1. UNCHANGED <<isconnected, handler>> \/ (isconnected' = FALSE /\ handler' = FALSE)
      <4>1. CASE Gateway
        BY <4>1, <2>2
        DEF Gateway, NetworkInitHandler, MQTT_Init, MQTTClientInit, MQTTConnect, MQTTSubscribe,
            OtherArrives, WaitExpires, InitEnds, HeartBeatHandler, SendDataHandler, UploadPacket,
            Publish, MQTT_Working, PingTimerExpires, client
      <4>2. CASE Broker \/ Network
        BY <4>2
        DEF Broker, Network, BrokerHearsConnect, BrokerHearsSubscribe, BrokerHearsPing,
            BrokerPublishes, BrokerCloses, ChipConfirms, ChipGivesUp, LineDies, GrowsCalm,
            Rest, client
      <4> QED
        BY <4>1, <4>2 DEF Next
    <3> QED
      BY <3>1
  <2> QED
    BY <2>1, <2>2
<1> QED
  BY <1>1, Invariant, PTL DEF Spec, AnswersThisRequest

(* The receive stage is begun only in a session the broker accepted.       *)
THEOREM ServesAcceptedHolds == Spec => ServesAccepted
<1>1. IInv /\ Staged /\ [Next]_vars
        => [pc = "heartbeat" /\ "CONNECT" \notin events' /\ "NETINT" \notin events'
              => isconnected /\ accepted]_vars
  <2> SUFFICES ASSUME IInv, Staged, Next, pc = "heartbeat", "CONNECT" \notin events', "NETINT" \notin events'
               PROVE  isconnected /\ accepted
    OBVIOUS
  <2>1. "CONNECT" \in events
    BY DEF Staged
  <2>2. InitEnds
    <3>1. CASE Gateway
      BY <2>1, <3>1
      DEF Gateway, NetworkInitHandler, MQTT_Init, MQTTConnect, MQTTSubscribe, WaitedForArrives,
          OtherArrives, WaitExpires, HeartBeatHandler, SendDataHandler, UploadPacket,
          MQTT_Working, PingTimerExpires
    <3>2. CASE Broker \/ Network
      BY <2>1, <3>2
      DEF Broker, Network, BrokerHearsConnect, BrokerHearsSubscribe, BrokerHearsPing,
          BrokerPublishes, BrokerCloses, ChipConfirms, ChipGivesUp, LineDies, GrowsCalm, Rest
    <3> QED
      BY <3>1, <3>2 DEF Next
  <2>3. isconnected /\ SR = "ESTABLISHED"
    BY <2>2 DEF InitEnds, MayPublish, Send, CanSend
  <2> QED
    BY <2>3 DEF IInv, SessionReal
<1> QED
  BY <1>1, Invariant, StagedHolds, PTL DEF Spec, ServesAccepted

(* Client, broker and line together behave as Session.tla says: what each  *)
(* side believes, and the serving, come in that order on one connection    *)
(* (NetHandler.c:1253-1305, MQTTClient.c:376-397, :418-452).               *)
THEOREM ImplementsSessionHolds == Spec => ImplementsSession
<1>1. Init => Promise!Init
  BY DEF Init, Promise!Init, BrokerSide, ClientSide, Serving
<1>2. UNCHANGED vars => UNCHANGED Promise!vars
  BY DEF vars, client, socket, broker, Promise!vars, BrokerSide, ClientSide, Serving
<1>3. IInv /\ Staged /\ Subscribing /\ [Next]_vars => [Promise!Next]_(Promise!vars)
  BY <1>2, SessionGateway, SessionOutside DEF Next
<1> QED
  BY <1>1, <1>3, Invariant, StagedHolds, SubscribingHolds, PTL DEF Spec, ImplementsSession, Promise!Spec
=============================================================================
