-------------------------------- MODULE Dhcp --------------------------------
(***************************************************************************)
(* How the gateway gets an address: the DHCP client (dhcp.c) as the DHCP   *)
(* block of the main loop runs it to its end (app.c:249-267, DHCP_proc),   *)
(* the initialisation that precedes it (NetworkInitHandler) and the one    *)
(* second timer, with servers whose messages are lost, duplicated, delayed *)
(* and reordered.                                                          *)
(*                                                                         *)
(* A server leases one address, so that a server stands for its address.   *)
(* Messages carry no transaction: the xid is the same after every          *)
(* DHCP_init and parseDHCPMSG does not compare it.  The client leaves the  *)
(* loop as soon as it has a lease and is stopped there: DHCP_run never     *)
(* gets to its STATE_DHCP_REREQUEST.                                       *)
(***************************************************************************)
EXTENDS Naturals, FiniteSets

CONSTANTS
  Servers,           (* DHCP servers, and the addresses they lease         *)
  Unset,             (* 0.0.0.0                                            *)
  Configured,        (* the static address kept in flash                   *)
  MAX_DHCP_RETRY,    (* 2                                                  *)
  DHCP_WAIT_TIME,    (* 10 seconds                                         *)
  Lease,             (* seconds an address is leased for                   *)
  MaxTick,           (* bound: where dhcp_tick_1s stops counting           *)
  MaxNet             (* bound: messages on their way to the client         *)

ASSUME DhcpAssumption ==
  /\ IsFiniteSet(Servers)
  /\ Unset \notin Servers /\ Configured \notin Servers /\ Unset # Configured
  /\ MAX_DHCP_RETRY \in Nat \ {0} /\ DHCP_WAIT_TIME \in Nat \ {0} /\ Lease \in Nat \ {0}
  /\ MaxTick \in Nat /\ MaxTick > DHCP_WAIT_TIME + 1 /\ MaxTick > Lease
  /\ MaxNet \in Nat

VARIABLES
  pc,                    (* "asking": in the loop of the DHCP block;       *)
                         (* "using": past it; "halted": in a while(1)      *)
  dhcp_state,
  DHCP_allocated_ip, DHCP_SIP,
  dhcp_retry_count, dhcp_tick_1s, dhcp_tick_next,
  gWIZNETINFO,           (* its fields ip and dhcp                         *)
  SIPR,                  (* the address the chip uses                      *)
  net,                   (* messages on their way to the client            *)
  granted                (* history: addresses a server has acknowledged   *)

client  == <<dhcp_state, DHCP_allocated_ip, DHCP_SIP>>
timing  == <<dhcp_retry_count, dhcp_tick_1s, dhcp_tick_next>>
network == <<net, granted>>
vars    == <<pc, client, timing, gWIZNETINFO, SIPR, network>>

Messages == [type : {"OFFER", "ACK", "NAK"}, from : Servers]
Nothing  == [type |-> "none"]
-----------------------------------------------------------------------------
(* The servers: what they answer is on its way at once, or lost.           *)
Answer(left, answers) ==
  net' = IF Cardinality(left \cup answers) <= MaxNet THEN left \cup answers ELSE left

Message(type, s) == [type |-> type, from |-> s]

ServersHearDiscover(left) ==
  /\ \E some \in SUBSET Servers : Answer(left, {Message("OFFER", s) : s \in some})
  /\ UNCHANGED granted

(* Only the server a REQUEST names answers it.                             *)
ServersHearRequest(left, s) ==
  \/ Answer(left, {}) /\ UNCHANGED granted
  \/ Answer(left, {Message("NAK", s)}) /\ UNCHANGED granted
  \/ Answer(left, {Message("ACK", s)}) /\ granted' = granted \cup {s}

Lose == pc = "asking" /\ \E m \in net : net' = net \ {m}
        /\ UNCHANGED <<pc, client, timing, gWIZNETINFO, SIPR, granted>>
-----------------------------------------------------------------------------
(***************************************************************************)
(* parseDHCPMSG: at most one message is taken (it may come again).  That   *)
(* of another server than the one known is ignored; any other makes its    *)
(* sender the server known, whatever its type.  Fault: no server is        *)
(* ignored.                                                                *)
(***************************************************************************)
Mine_AnyServer(m) == TRUE
Mine(m) == DHCP_SIP = Unset \/ m.from = DHCP_SIP

Taken == {Nothing} \cup net
Type(m)     == IF m \in net /\ Mine(m) THEN m.type ELSE "none"
Left(m)     == {net, net \ {m}}
ServerOf(m) == IF m \in net /\ Mine(m) THEN m.from ELSE DHCP_SIP

reset_DHCP_timeout ==
  dhcp_tick_1s' = 0 /\ dhcp_tick_next' = DHCP_WAIT_TIME /\ dhcp_retry_count' = 0

(* DHCP_stop: what the block does last, and DHCP_proc before it applies    *)
(* the static address.                                                     *)
DHCP_stop == dhcp_state' = "STOP" /\ pc' = "using"

(* DHCP_run in STATE_DHCP_INIT.                                            *)
RunInit(m) ==
  /\ dhcp_state = "INIT"
  /\ DHCP_allocated_ip' = Unset
  /\ DHCP_SIP' = Unset
  /\ \E left \in Left(m) : ServersHearDiscover(left)
  /\ dhcp_state' = "DISCOVER"
  /\ UNCHANGED <<pc, timing, gWIZNETINFO, SIPR>>

TakeOffer(m) ==
  /\ dhcp_state = "DISCOVER" /\ Type(m) = "OFFER"
  /\ DHCP_allocated_ip' = m.from
  /\ DHCP_SIP' = m.from
  /\ \E left \in Left(m) : ServersHearRequest(left, m.from)
  /\ dhcp_state' = "REQUEST"
  /\ UNCHANGED <<pc, timing, gWIZNETINFO, SIPR>>

(* No host answers for the address: it is assigned (my_ip_assign), and the *)
(* name of the broker is looked up, which halts when it fails.             *)
TakeAck(m) ==
  /\ dhcp_state = "REQUEST" /\ Type(m) = "ACK"
  /\ net' \in Left(m)
  /\ DHCP_SIP' = m.from
  /\ gWIZNETINFO' = [ip |-> DHCP_allocated_ip, dhcp |-> "DHCP"]
  /\ SIPR' = DHCP_allocated_ip
  /\ \/ reset_DHCP_timeout /\ dhcp_state' = "LEASED" /\ UNCHANGED pc
     \/ pc' = "halted" /\ UNCHANGED <<timing, dhcp_state>>
  /\ UNCHANGED <<DHCP_allocated_ip, granted>>

(* Another host answers for the address: it is declined, and               *)
(* my_ip_conflict halts.                                                   *)
TakeConflict(m) ==
  /\ dhcp_state = "REQUEST" /\ Type(m) = "ACK"
  /\ net' \in Left(m)
  /\ DHCP_SIP' = m.from
  /\ reset_DHCP_timeout
  /\ pc' = "halted"
  /\ UNCHANGED <<dhcp_state, DHCP_allocated_ip, gWIZNETINFO, SIPR, granted>>

TakeNak(m) ==
  /\ dhcp_state = "REQUEST" /\ Type(m) = "NAK"
  /\ net' \in Left(m)
  /\ DHCP_SIP' = m.from
  /\ reset_DHCP_timeout
  /\ dhcp_state' = "DISCOVER"
  /\ UNCHANGED <<pc, DHCP_allocated_ip, gWIZNETINFO, SIPR, granted>>

(* DHCP_IP_LEASED: asked to renew if half of the lease is over, but        *)
(* stopped in any case.                                                    *)
RunLeased(m) ==
  /\ dhcp_state = "LEASED"
  /\ DHCP_SIP' = ServerOf(m)
  /\ \E left \in Left(m) :
       IF Lease \div 2 < dhcp_tick_1s
       THEN reset_DHCP_timeout /\ ServersHearRequest(left, DHCP_SIP')
       ELSE net' = left /\ UNCHANGED <<timing, granted>>
  /\ gWIZNETINFO' = [ip |-> DHCP_allocated_ip, dhcp |-> "DHCP"]
  /\ SIPR' = DHCP_allocated_ip
  /\ DHCP_stop
  /\ UNCHANGED <<DHCP_allocated_ip>>
-----------------------------------------------------------------------------
(***************************************************************************)
(* check_DHCP_timeout: what DHCP_run does without a message it waits for.  *)
(***************************************************************************)
NoNews(m) ==
  \/ dhcp_state = "DISCOVER" /\ Type(m) # "OFFER"
  \/ dhcp_state = "REQUEST" /\ Type(m) \notin {"ACK", "NAK"}

RetriesLeft == dhcp_retry_count < MAX_DHCP_RETRY

(* Fault: the repetitions are not counted.                                 *)
Counted_Not == dhcp_retry_count
Counted == dhcp_retry_count + 1

(* The tick interrupt may come between the two assignments that set the    *)
(* time-out.                                                               *)
RestartTimeout ==
  /\ \E tick \in {0, 1} : dhcp_tick_1s' = tick /\ dhcp_tick_next' = tick + DHCP_WAIT_TIME
  /\ dhcp_retry_count' = Counted

Wait(m) ==
  /\ NoNews(m) /\ RetriesLeft /\ dhcp_tick_next >= dhcp_tick_1s
  /\ DHCP_SIP' = ServerOf(m)
  /\ net' \in Left(m)
  /\ UNCHANGED <<pc, dhcp_state, DHCP_allocated_ip, timing, gWIZNETINFO, SIPR, granted>>

ResendDiscover(m) ==
  /\ NoNews(m) /\ RetriesLeft /\ dhcp_tick_next < dhcp_tick_1s
  /\ dhcp_state = "DISCOVER"
  /\ DHCP_SIP' = Unset
  /\ \E left \in Left(m) : ServersHearDiscover(left)
  /\ RestartTimeout
  /\ UNCHANGED <<pc, dhcp_state, DHCP_allocated_ip, gWIZNETINFO, SIPR>>

ResendRequest(m) ==
  /\ NoNews(m) /\ RetriesLeft /\ dhcp_tick_next < dhcp_tick_1s
  /\ dhcp_state = "REQUEST"
  /\ DHCP_SIP' = ServerOf(m)
  /\ \E left \in Left(m) : ServersHearRequest(left, DHCP_SIP')
  /\ RestartTimeout
  /\ UNCHANGED <<pc, dhcp_state, DHCP_allocated_ip, gWIZNETINFO, SIPR>>

(* The repetitions are used up: without an acknowledgement the client      *)
(* starts over,                                                            *)
StartOver(m) ==
  /\ NoNews(m) /\ ~RetriesLeft
  /\ dhcp_state = "REQUEST"
  /\ dhcp_state' = "DISCOVER"
  /\ DHCP_SIP' = Unset
  /\ \E left \in Left(m) : ServersHearDiscover(left)
  /\ reset_DHCP_timeout
  /\ UNCHANGED <<pc, DHCP_allocated_ip, gWIZNETINFO, SIPR>>

(* and without an offer it fails: since MY_MAX_DHCP_RETRY is 0, DHCP_proc  *)
(* takes the static address after the first failure.                       *)
Fail(m) ==
  /\ NoNews(m) /\ ~RetriesLeft
  /\ dhcp_state = "DISCOVER"
  /\ DHCP_SIP' = ServerOf(m)
  /\ net' \in Left(m)
  /\ reset_DHCP_timeout
  /\ gWIZNETINFO' = [gWIZNETINFO EXCEPT !.dhcp = "STATIC"]
  /\ SIPR' = gWIZNETINFO.ip
  /\ DHCP_stop
  /\ UNCHANGED <<DHCP_allocated_ip, granted>>

DHCP_proc ==
  /\ pc = "asking"
  /\ \E m \in Taken :
       \/ RunInit(m) \/ TakeOffer(m) \/ TakeAck(m) \/ TakeConflict(m) \/ TakeNak(m)
       \/ RunLeased(m)
       \/ Wait(m) \/ ResendDiscover(m) \/ ResendRequest(m) \/ StartOver(m) \/ Fail(m)
-----------------------------------------------------------------------------
(* TIMER1_IRQHandler.                                                      *)
DHCP_time_handler ==
  /\ pc # "halted" /\ dhcp_tick_1s < MaxTick
  /\ dhcp_tick_1s' = dhcp_tick_1s + 1
  /\ UNCHANGED <<pc, client, dhcp_retry_count, dhcp_tick_next, gWIZNETINFO, SIPR, network>>

(***************************************************************************)
(* The NETINT block, run again after a lost session: NetworkInitHandler    *)
(* reads the static address from flash and calls DHCP_init.  Fault: the    *)
(* address is not read again.                                              *)
(***************************************************************************)
Read_Flash_TCP_Data_Once == gWIZNETINFO
Read_Flash_TCP_Data == [gWIZNETINFO EXCEPT !.ip = Configured]

NetworkInitHandler ==
  /\ pc = "using"
  /\ pc' = "asking"
  /\ gWIZNETINFO' = Read_Flash_TCP_Data
  /\ SIPR' = Unset
  /\ dhcp_state' = "INIT"
  /\ reset_DHCP_timeout
  /\ UNCHANGED <<DHCP_allocated_ip, DHCP_SIP, network>>

(* The first initialisation has been done.                                 *)
Init ==
  /\ pc = "asking" /\ dhcp_state = "INIT"
  /\ DHCP_allocated_ip = Unset /\ DHCP_SIP = Unset
  /\ dhcp_retry_count = 0 /\ dhcp_tick_1s = 0 /\ dhcp_tick_next = DHCP_WAIT_TIME
  /\ gWIZNETINFO = [ip |-> Configured, dhcp |-> "STATIC"] /\ SIPR = Unset
  /\ net = {} /\ granted = {}

Next == DHCP_proc \/ DHCP_time_handler \/ NetworkInitHandler \/ Lose

(* The loop of the DHCP block asks until it has an address, and the timer  *)
(* runs.  Nothing is assumed of the network.                               *)
Spec == Init /\ [][Next]_vars
FairSpec == Spec /\ WF_vars(DHCP_proc) /\ WF_vars(DHCP_time_handler)
-----------------------------------------------------------------------------
(* Every variable keeps its type (dhcp.c:193-219).                         *)
TypeOK ==
  /\ pc \in {"asking", "using", "halted"}
  /\ dhcp_state \in {"INIT", "DISCOVER", "REQUEST", "LEASED", "STOP"}
  /\ DHCP_allocated_ip \in Servers \cup {Unset} /\ DHCP_SIP \in Servers \cup {Unset}
  /\ dhcp_retry_count \in 0 .. MAX_DHCP_RETRY
  /\ dhcp_tick_1s \in 0 .. MaxTick /\ dhcp_tick_next \in {DHCP_WAIT_TIME, DHCP_WAIT_TIME + 1}
  /\ gWIZNETINFO \in [ip : Servers \cup {Configured}, dhcp : {"DHCP", "STATIC"}]
  /\ SIPR \in Servers \cup {Unset, Configured}
  /\ net \in SUBSET Messages /\ granted \in SUBSET Servers

(***************************************************************************)
(* An address taken by DHCP is one its own server has acknowledged: the    *)
(* late ACK of a server given up, or that of another server, is never      *)
(* taken for it (dhcp.c:617-626, 744-754).                                 *)
(***************************************************************************)
LeaseGranted == pc = "using" /\ gWIZNETINFO.dhcp = "DHCP" => SIPR \in granted

(***************************************************************************)
(* Without a lease the chip uses the address configured in flash, also     *)
(* after an earlier lease overwrote it (NetHandler.c:256, 803, 959-962).   *)
(***************************************************************************)
StaticIsConfigured == pc = "using" /\ gWIZNETINFO.dhcp = "STATIC" => SIPR = Configured

(***************************************************************************)
(* The loop of the DHCP block (app.c:251) ends, unless offers are made for *)
(* ever that are never acknowledged.                                       *)
(***************************************************************************)
AcquisitionEnds ==
  \/ []<>(pc # "asking")
  \/ []<>(dhcp_state = "DISCOVER") /\ []<>(dhcp_state = "REQUEST")
=============================================================================
