----------------------------- MODULE DhcpProofs -----------------------------
(***************************************************************************)
(* For any number of servers, any lease time and any wait time: the        *)
(* variables of Dhcp keep their types, an address taken by DHCP has been   *)
(* acknowledged by its own server, and without a lease the address of the  *)
(* flash is used.                                                          *)
(***************************************************************************)
EXTENDS Dhcp, TLAPS

(* The server the client listens to is the one whose address it asks for.  *)
ServerKnown ==
  dhcp_state \in {"REQUEST", "LEASED"} =>
    DHCP_allocated_ip \in Servers /\ DHCP_SIP = DHCP_allocated_ip

(* An ACK, however late, was sent by a server that granted its address.    *)
AcksGranted == \A m \in net : m.type = "ACK" => m.from \in granted

LeasedGranted == dhcp_state = "LEASED" => DHCP_allocated_ip \in granted

(* Nothing but an ACK overwrites the address read from flash.              *)
AddressRead == pc = "asking" /\ dhcp_state # "LEASED" => gWIZNETINFO.ip = Configured

DhcpInv ==
  /\ TypeOK /\ ServerKnown /\ AcksGranted /\ LeasedGranted /\ AddressRead
  /\ LeaseGranted /\ StaticIsConfigured
-----------------------------------------------------------------------------
(* What the servers send in answer to a DISCOVER.                          *)
LEMMA DiscoverHeard ==
  ASSUME TypeOK, AcksGranted, NEW left \in SUBSET net, ServersHearDiscover(left)
  PROVE  net' \in SUBSET Messages /\ granted' = granted /\ AcksGranted'
<1>1. PICK some \in SUBSET Servers : Answer(left, {Message("OFFER", s) : s \in some})
  BY DEF ServersHearDiscover
<1>2. \A s \in some : Message("OFFER", s) \in Messages /\ Message("OFFER", s).type = "OFFER"
  BY DEF Message, Messages, TypeOK
<1>3. granted' = granted
  BY DEF ServersHearDiscover
<1>4. \A m \in net' : m \in net \/ m \in {Message("OFFER", s) : s \in some}
  BY <1>1 DEF Answer
<1> QED BY <1>2, <1>3, <1>4 DEF AcksGranted, TypeOK

(* What the server named sends in answer to a REQUEST.                     *)
LEMMA RequestHeard ==
  ASSUME TypeOK, AcksGranted, NEW left \in SUBSET net, NEW s \in Servers,
         ServersHearRequest(left, s)
  PROVE  net' \in SUBSET Messages /\ granted' \in SUBSET Servers /\ granted \subseteq granted'
         /\ AcksGranted'
<1> DEFINE nak == Message("NAK", s)
           ack == Message("ACK", s)
<1>1. /\ nak \in Messages /\ nak.type = "NAK"
      /\ ack \in Messages /\ ack.type = "ACK" /\ ack.from = s
  BY DEF Message, Messages, TypeOK
<1>2. CASE Answer(left, {}) /\ granted' = granted
  BY <1>2 DEF Answer, TypeOK, AcksGranted
<1>3. CASE Answer(left, {nak}) /\ granted' = granted
  <2>1. \A m \in net' : m \in net \/ m = nak
    BY <1>3 DEF Answer
  <2> QED BY <1>1, <1>3, <2>1 DEF TypeOK, AcksGranted
<1>4. CASE Answer(left, {ack}) /\ granted' = granted \cup {s}
  <2>1. \A m \in net' : m \in net \/ m = ack
    BY <1>4 DEF Answer
  <2> QED BY <1>1, <1>4, <2>1 DEF TypeOK, AcksGranted
<1> QED BY <1>2, <1>3, <1>4 DEF ServersHearRequest

(* A message that is taken is one of the server listened to, if any.       *)
LEMMA MessageTaken ==
  ASSUME TypeOK, NEW m \in Taken
  PROVE  /\ Type(m) # "none" =>
              /\ m \in net /\ m.from \in Servers /\ m.type = Type(m)
              /\ DHCP_SIP \in Servers => m.from = DHCP_SIP
         /\ ServerOf(m) \in Servers \cup {Unset}
         /\ DHCP_SIP \in Servers => ServerOf(m) = DHCP_SIP
         /\ \A left \in Left(m) : left \in SUBSET net
BY DhcpAssumption DEF TypeOK, Messages, Type, ServerOf, Left, Mine
-----------------------------------------------------------------------------
(* Resetting the time-out keeps its type.                                  *)
LEMMA TimeoutTyped ==
  ASSUME TypeOK
  PROVE  /\ reset_DHCP_timeout =>
              /\ dhcp_retry_count' \in 0 .. MAX_DHCP_RETRY
              /\ dhcp_tick_1s' \in 0 .. MaxTick
              /\ dhcp_tick_next' \in {DHCP_WAIT_TIME, DHCP_WAIT_TIME + 1}
         /\ RetriesLeft /\ RestartTimeout =>
              /\ dhcp_retry_count' \in 0 .. MAX_DHCP_RETRY
              /\ dhcp_tick_1s' \in 0 .. MaxTick
              /\ dhcp_tick_next' \in {DHCP_WAIT_TIME, DHCP_WAIT_TIME + 1}
BY DhcpAssumption DEF TypeOK, reset_DHCP_timeout, RetriesLeft, RestartTimeout, Counted

(* The inductive invariant holds initially.                                *)
LEMMA InitInv == Init => DhcpInv
BY DhcpAssumption DEF Init, DhcpInv, TypeOK, Messages, ServerKnown, AcksGranted, LeasedGranted,
   AddressRead, LeaseGranted, StaticIsConfigured

(* One call of DHCP_proc keeps it.                                         *)
LEMMA ProcInv ==
  ASSUME DhcpInv, DHCP_proc
  PROVE  DhcpInv'
<1> USE DEF DhcpInv
<1>1. PICK m \in Taken :
        \/ RunInit(m) \/ TakeOffer(m) \/ TakeAck(m) \/ TakeConflict(m) \/ TakeNak(m)
        \/ RunLeased(m)
        \/ Wait(m) \/ ResendDiscover(m) \/ ResendRequest(m) \/ StartOver(m) \/ Fail(m)
  BY DEF DHCP_proc
<1>2. pc = "asking"
  BY DEF DHCP_proc
<1>m. /\ Type(m) # "none" =>
           /\ m \in net /\ m.from \in Servers /\ m.type = Type(m)
           /\ DHCP_SIP \in Servers => m.from = DHCP_SIP
      /\ ServerOf(m) \in Servers \cup {Unset}
      /\ DHCP_SIP \in Servers => ServerOf(m) = DHCP_SIP
      /\ \A left \in Left(m) : left \in SUBSET net
  BY MessageTaken
<1>t. gWIZNETINFO.ip \in Servers \cup {Configured}
  BY DEF TypeOK
<1>3. CASE RunInit(m)
  <2>1. PICK left \in Left(m) : ServersHearDiscover(left)
    BY <1>3 DEF RunInit
  <2>2. net' \in SUBSET Messages /\ granted' = granted /\ AcksGranted'
    BY <1>m, <2>1, DiscoverHeard
  <2> QED BY <1>2, <1>3, <2>2 DEF RunInit, timing, TypeOK, ServerKnown, LeasedGranted, AddressRead,
             LeaseGranted, StaticIsConfigured
<1>4. CASE TakeOffer(m)
  <2>1. PICK left \in Left(m) : ServersHearRequest(left, m.from)
    BY <1>4 DEF TakeOffer
  <2>2. net' \in SUBSET Messages /\ granted' \in SUBSET Servers /\ AcksGranted'
    BY <1>m, <1>4, <2>1, RequestHeard DEF TakeOffer
  <2> QED BY <1>m, <1>2, <1>4, <2>2 DEF TakeOffer, timing, TypeOK, ServerKnown, LeasedGranted,
             AddressRead, LeaseGranted, StaticIsConfigured
<1>5. CASE TakeAck(m)
  <2>1. net' \in SUBSET net
    BY <1>m, <1>5 DEF TakeAck
  <2>2. DHCP_allocated_ip \in Servers /\ m.from = DHCP_allocated_ip /\ m.from \in granted
    BY <1>m, <1>5 DEF TakeAck, ServerKnown, AcksGranted
  <2>3. TypeOK'
    <3>1. gWIZNETINFO' \in [ip : Servers \cup {Configured}, dhcp : {"DHCP", "STATIC"}]
      BY <1>5, <2>2 DEF TakeAck
    <3> QED BY <1>m, <1>5, <2>1, <2>2, <3>1, TimeoutTyped DEF TakeAck, timing, TypeOK
  <2> QED BY <1>2, <1>5, <2>1, <2>2, <2>3 DEF TakeAck, ServerKnown, AcksGranted, LeasedGranted,
             AddressRead, LeaseGranted, StaticIsConfigured
<1>6. CASE TakeConflict(m)
  <2>1. net' \in SUBSET net
    BY <1>m, <1>6 DEF TakeConflict
  <2> QED BY <1>m, <1>2, <1>6, <2>1, TimeoutTyped DEF TakeConflict, TypeOK, ServerKnown,
             AcksGranted, LeasedGranted, AddressRead, LeaseGranted, StaticIsConfigured
<1>7. CASE TakeNak(m)
  <2>1. net' \in SUBSET net
    BY <1>m, <1>7 DEF TakeNak
  <2> QED BY <1>m, <1>2, <1>7, <2>1, TimeoutTyped DEF TakeNak, TypeOK, ServerKnown,
             AcksGranted, LeasedGranted, AddressRead, LeaseGranted, StaticIsConfigured
<1>8. CASE RunLeased(m)
  <2>1. DHCP_SIP' = DHCP_allocated_ip /\ DHCP_allocated_ip \in Servers
        /\ DHCP_allocated_ip \in granted
    BY <1>m, <1>8 DEF RunLeased, ServerKnown, LeasedGranted
  <2>2. net' \in SUBSET Messages /\ granted' \in SUBSET Servers /\ granted \subseteq granted'
        /\ AcksGranted' /\ (reset_DHCP_timeout \/ UNCHANGED timing)
    <3>1. PICK left \in Left(m) :
            IF Lease \div 2 < dhcp_tick_1s
            THEN reset_DHCP_timeout /\ ServersHearRequest(left, DHCP_SIP')
            ELSE net' = left /\ UNCHANGED <<timing, granted>>
      BY <1>8 DEF RunLeased
    <3>2. CASE reset_DHCP_timeout /\ ServersHearRequest(left, DHCP_SIP')
      BY <1>m, <2>1, <3>2, RequestHeard
    <3>3. CASE net' = left /\ UNCHANGED <<timing, granted>>
      BY <1>m, <3>3 DEF TypeOK, AcksGranted
    <3> QED BY <3>1, <3>2, <3>3
  <2>3. gWIZNETINFO' \in [ip : Servers \cup {Configured}, dhcp : {"DHCP", "STATIC"}]
        /\ gWIZNETINFO'.dhcp = "DHCP"
    BY <1>8, <2>1 DEF RunLeased
  <2>4. TypeOK'
    BY <1>8, <2>1, <2>2, <2>3, TimeoutTyped DEF RunLeased, DHCP_stop, timing, TypeOK
  <2> QED BY <1>8, <2>1, <2>2, <2>3, <2>4 DEF RunLeased, DHCP_stop, ServerKnown, LeasedGranted,
             AddressRead, LeaseGranted, StaticIsConfigured
<1>9. CASE Wait(m)
  <2>1. net' \in SUBSET net
    BY <1>m, <1>9 DEF Wait
  <2> QED BY <1>m, <1>2, <1>9, <2>1 DEF Wait, NoNews, timing, TypeOK, ServerKnown,
             AcksGranted, LeasedGranted, AddressRead, LeaseGranted, StaticIsConfigured
<1>10. CASE ResendDiscover(m)
  <2>1. PICK left \in Left(m) : ServersHearDiscover(left)
    BY <1>10 DEF ResendDiscover
  <2>2. net' \in SUBSET Messages /\ granted' = granted /\ AcksGranted'
    BY <1>m, <2>1, DiscoverHeard
  <2> QED BY <1>2, <1>10, <2>2, TimeoutTyped DEF ResendDiscover, TypeOK, ServerKnown, LeasedGranted,
             AddressRead, LeaseGranted, StaticIsConfigured
<1>11. CASE ResendRequest(m)
  <2>1. PICK left \in Left(m) : ServersHearRequest(left, DHCP_SIP')
    BY <1>11 DEF ResendRequest
  <2>2. DHCP_SIP' = DHCP_allocated_ip /\ DHCP_allocated_ip \in Servers
    BY <1>m, <1>11 DEF ResendRequest, ServerKnown
  <2>3. net' \in SUBSET Messages /\ granted' \in SUBSET Servers /\ AcksGranted'
    BY <1>m, <2>1, <2>2, RequestHeard
  <2> QED BY <1>2, <1>11, <2>2, <2>3, TimeoutTyped DEF ResendRequest, TypeOK, ServerKnown,
             LeasedGranted, AddressRead, LeaseGranted, StaticIsConfigured
<1>12. CASE StartOver(m)
  <2>1. PICK left \in Left(m) : ServersHearDiscover(left)
    BY <1>12 DEF StartOver
  <2>2. net' \in SUBSET Messages /\ granted' = granted /\ AcksGranted'
    BY <1>m, <2>1, DiscoverHeard
  <2> QED BY <1>2, <1>12, <2>2, TimeoutTyped DEF StartOver, TypeOK, ServerKnown, LeasedGranted,
             AddressRead, LeaseGranted, StaticIsConfigured
<1>13. CASE Fail(m)
  <2>1. net' \in SUBSET net
    BY <1>m, <1>13 DEF Fail
  <2>2. gWIZNETINFO' \in [ip : Servers \cup {Configured}, dhcp : {"DHCP", "STATIC"}]
        /\ gWIZNETINFO'.dhcp = "STATIC" /\ gWIZNETINFO'.ip = Configured /\ SIPR' = Configured
    BY <1>2, <1>13 DEF Fail, TypeOK, AddressRead
  <2>3. TypeOK'
    BY <1>m, <1>13, <2>1, <2>2, TimeoutTyped DEF Fail, DHCP_stop, TypeOK
  <2> QED BY <1>13, <2>1, <2>2, <2>3 DEF Fail, DHCP_stop, ServerKnown, AcksGranted, LeasedGranted,
             AddressRead, LeaseGranted, StaticIsConfigured
<1> QED BY <1>1, <1>3, <1>4, <1>5, <1>6, <1>7, <1>8, <1>9, <1>10, <1>11, <1>12, <1>13

(* Every step keeps it.                                                    *)
LEMMA NextInv == DhcpInv /\ [Next]_vars => DhcpInv'
<1> SUFFICES ASSUME DhcpInv, [Next]_vars PROVE DhcpInv'
  OBVIOUS
<1> USE DEF DhcpInv
<1>1. CASE DHCP_proc
  BY <1>1, ProcInv
<1>2. CASE DHCP_time_handler
  BY <1>2, DhcpAssumption DEF DHCP_time_handler, client, network, TypeOK, ServerKnown, AcksGranted, LeasedGranted,
     AddressRead, LeaseGranted, StaticIsConfigured
<1>3. CASE NetworkInitHandler
  <2>1. gWIZNETINFO' \in [ip : Servers \cup {Configured}, dhcp : {"DHCP", "STATIC"}]
        /\ gWIZNETINFO'.ip = Configured
    BY <1>3 DEF NetworkInitHandler, Read_Flash_TCP_Data, TypeOK
  <2>3. TypeOK'
    BY <1>3, <2>1, TimeoutTyped DEF NetworkInitHandler, network, TypeOK
  <2> QED BY <1>3, <2>1, <2>3 DEF NetworkInitHandler, network, ServerKnown, AcksGranted,
             LeasedGranted, AddressRead, LeaseGranted, StaticIsConfigured
<1>4. CASE Lose
  <2>1. net' \in SUBSET net
    BY <1>4 DEF Lose
  <2> QED BY <1>4, <2>1 DEF Lose, client, timing, TypeOK, ServerKnown, AcksGranted, LeasedGranted,
             AddressRead, LeaseGranted, StaticIsConfigured
<1>5. CASE UNCHANGED vars
  BY <1>5 DEF vars, client, timing, network, TypeOK, Messages, ServerKnown, AcksGranted,
     LeasedGranted, AddressRead, LeaseGranted, StaticIsConfigured
<1> QED BY <1>1, <1>2, <1>3, <1>4, <1>5 DEF Next

(* The inductive invariant holds in every reachable state.                 *)
LEMMA InvHolds == Spec => []DhcpInv
BY InitInv, NextInv, PTL DEF Spec
-----------------------------------------------------------------------------
(* The variables of the DHCP client keep their types (dhcp.c:193-219).     *)
THEOREM TypeCorrect == Spec => []TypeOK
<1>1. DhcpInv => TypeOK
  BY DEF DhcpInv
<1> QED BY <1>1, InvHolds, PTL

(* An address taken by DHCP has been acknowledged by the server it is of,  *)
(* whatever the network delays, repeats or loses (dhcp.c:617-626).         *)
THEOREM LeaseGrantedHolds == Spec => []LeaseGranted
<1>1. DhcpInv => LeaseGranted
  BY DEF DhcpInv
<1> QED BY <1>1, InvHolds, PTL

(* Without a lease the address of the flash is used (NetHandler.c:959-962).*)
THEOREM StaticIsConfiguredHolds == Spec => []StaticIsConfigured
<1>1. DhcpInv => StaticIsConfigured
  BY DEF DhcpInv
<1> QED BY <1>1, InvHolds, PTL
=============================================================================
