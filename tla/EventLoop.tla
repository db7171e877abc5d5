----------------------------- MODULE EventLoop -----------------------------
(***************************************************************************)
(* The cooperative scheduler of the gateway: main() (main.c), the event    *)
(* loop SoftWareEventInLoop, the timer half SoftWareTimeingEventInLoop and *)
(* the timed-event dispatcher SoftTimeingLoopEvent (app.c), together with  *)
(* what NetworkInitHandler and DHCP_proc (NetHandler.c) change of the      *)
(* state the scheduler looks at.                                           *)
(*                                                                         *)
(* The four bit masks LoopEvents, LoopEventstmp, LoopTimeEvents and        *)
(* LoopTimeEventstmp are sets of event names.  pc is the place reached in  *)
(* a pass of main()'s while(1): one value per event block.  The blocks of  *)
(* a pass run in order; between any two of them the 10 ms clock may tick   *)
(* and the broker session may be lost.                                     *)
(*                                                                         *)
(* The clock is kept as ages: hbAge is SystemNowtime - HeartBeatLt, sdAge  *)
(* is SystemNowtime - SendDataLt, uptime is SystemNowtime, each saturating *)
(* at the threshold it is compared with, and newAge is the time since      *)
(* newTime was read.  The wrap of the 32 bit counter is in Clocks.         *)
(***************************************************************************)
EXTENDS Naturals

CONSTANTS
  HEART_BEAT_TIME,  (* ticks between two heartbeats (1000 in app.h)        *)
  SEND_DATA_TIME,   (* ticks between two upload checks (200 in app.h)      *)
  PowerOnTicks,     (* First_Power_ON_TimeCount * 600 ticks                *)
  CycleCount,       (* MQTT_Resv_Cycle * 30 checks make one upload         *)
  LogTicks          (* ticks the log lines of a due timer take, at least   *)

ASSUME ConstantsAssumption ==
  /\ HEART_BEAT_TIME \in Nat \ {0}
  /\ SEND_DATA_TIME \in 1 .. HEART_BEAT_TIME
  /\ PowerOnTicks \in Nat \ {0}
  /\ CycleCount \in Nat \ {0}
  /\ LogTicks \in 1 .. HEART_BEAT_TIME

VARIABLES
  LoopEvents, LoopEventstmp,          (* event masks of the pass            *)
  LoopTimeEvents, LoopTimeEventstmp,  (* timed-event masks                  *)
  pc,                                 (* block of the pass reached          *)
  W5500_NOPHY_TryGPRS_Flag,           (* no Ethernet link: use the modem    *)
  dhcp_state,                         (* "STOP", or "RUN" for all the rest  *)
  dhcp_ret,                           (* last result of DHCP_proc           *)
  session,                            (* the broker's TCP session is usable *)
  First_Power_ON_Flag,                (* uploads are still held back        *)
  MQTT_Count_SendTimes,               (* upload checks since the last upload*)
  MQTT_Resv_Read_data, Clear_Flag,    (* upload asked for / sensor lost     *)
  hbAge, sdAge, uptime, newAge,       (* the clock, as ages                 *)
  due                                 (* comparisons already made by newTime*)

masks  == <<LoopEvents, LoopEventstmp, LoopTimeEvents, LoopTimeEventstmp>>
net    == <<W5500_NOPHY_TryGPRS_Flag, dhcp_state, dhcp_ret, session>>
report == <<First_Power_ON_Flag, MQTT_Count_SendTimes, MQTT_Resv_Read_data, Clear_Flag>>
clock  == <<hbAge, sdAge, uptime, newAge, due>>
vars   == <<masks, pc, net, report, clock>>

LinkEvents == {"NETINT", "DHCP", "CONNECT", "RECVNET"}
ModemEvents == {"GPRSINT", "GPRSDO"}
Events == LinkEvents \cup ModemEvents \cup {"TIMEING"}
TimeEvents == {"HEARTBEAT", "SENDDATA"}

(* The event each block of SoftWareEventInLoop waits for, and the next     *)
(* block.                                                                  *)
Awaits == [netint |-> "NETINT", dhcp |-> "DHCP", connect |-> "CONNECT",
           recvnet |-> "RECVNET", gprsint |-> "GPRSINT", gprsdo |-> "GPRSDO",
           timeing |-> "TIMEING"]
After == [netint |-> "dhcp", dhcp |-> "connect", connect |-> "recvnet",
          recvnet |-> "gprsint", gprsint |-> "gprsdo", gprsdo |-> "timeing",
          timeing |-> "merge"]
Blocks == {"netint", "dhcp", "connect", "recvnet", "gprsint", "gprsdo", "timeing"}
Places == Blocks \cup {"boot", "merge", "timed", "console", "provisioning", "halted"}

DhcpResults == {"STOPPED", "RUNNING", "LEASED", "FAILED"}
Comparisons == {"HEARTBEAT", "SENDDATA", "POWERON"}

Pending == LoopEvents \cup LoopEventstmp
-----------------------------------------------------------------------------
(***************************************************************************)
(* LoopEvents ^= e, which the code uses to clear a bit it has tested.      *)
(***************************************************************************)
Toggle(S, e) == IF e \in S THEN S \ {e} ELSE S \cup {e}

(***************************************************************************)
(* "if (LoopEvents & e)": the block at `place` runs, or is passed over.    *)
(***************************************************************************)
Enter(place) == pc = place /\ Awaits[place] \in LoopEvents

PassOver ==
  /\ pc \in Blocks
  /\ Awaits[pc] \notin LoopEvents
  /\ pc' = After[pc]
  /\ UNCHANGED <<masks, net, report, clock>>

(***************************************************************************)
(* End of a block whose hdlstate is 1: the event is cleared and `raised`   *)
(* is added with LoopEventSetBit.                                          *)
(***************************************************************************)
Finish(place, raised) ==
  /\ pc' = After[place]
  /\ LoopEvents' = Toggle(LoopEvents, Awaits[place])
  /\ LoopEventstmp' = LoopEventstmp \cup raised
  /\ UNCHANGED <<LoopTimeEvents, LoopTimeEventstmp>>

(***************************************************************************)
(* NetworkInitHandler: the reset of the W5500 drops every socket;          *)
(* PhyLinkStatusCheck sets the GPRS flag when the link stays off (the flag *)
(* is never cleared); the DHCP client restarts only on Ethernet.           *)
(***************************************************************************)

(* Fault: the sockets are taken to survive the reset of the chip.          *)
NetworkInitHandler_KeepsSession ==
  \E linkUp \in BOOLEAN :
    /\ W5500_NOPHY_TryGPRS_Flag' = (W5500_NOPHY_TryGPRS_Flag \/ ~linkUp)
    /\ dhcp_state' = IF W5500_NOPHY_TryGPRS_Flag' THEN dhcp_state ELSE "RUN"
    /\ session' = session

NetworkInitHandler ==
  \E linkUp \in BOOLEAN :
    /\ W5500_NOPHY_TryGPRS_Flag' = (W5500_NOPHY_TryGPRS_Flag \/ ~linkUp)
    /\ dhcp_state' = IF W5500_NOPHY_TryGPRS_Flag' THEN dhcp_state ELSE "RUN"
    /\ session' = FALSE

(* The communication path chosen at power-on.                              *)
FirstStage(noLink) == IF noLink THEN {"GPRSINT"} ELSE {"NETINT"}

SoftWareInit ==
  /\ pc = "boot"
  /\ pc' = "netint"
  /\ NetworkInitHandler
  /\ LoopEventstmp' = LoopEventstmp \cup FirstStage(W5500_NOPHY_TryGPRS_Flag')
  /\ First_Power_ON_Flag' = TRUE
  /\ UNCHANGED <<LoopEvents, LoopTimeEvents, LoopTimeEventstmp, dhcp_ret, clock,
                 MQTT_Count_SendTimes, MQTT_Resv_Read_data, Clear_Flag>>

HandleNetInt ==
  /\ Enter("netint")
  /\ NetworkInitHandler
  /\ dhcp_ret' = "STOPPED"
  /\ Finish("netint", {"DHCP"})
  /\ UNCHANGED <<report, clock>>

(***************************************************************************)
(* The while loop of the DHCP block.  A stopped client only ever answers   *)
(* DHCP_STOPPED; a failure switches to the static address and stops it     *)
(* (DHCP_proc); a name server or address conflict fault halts (while(1) in *)
(* DNS_Analyse and my_ip_conflict).                                        *)
(***************************************************************************)
(* Fault: the test of the static fallback is left out.                     *)
DhcpDone_NoStatic == dhcp_ret = "LEASED"
DhcpDone == dhcp_ret \in {"LEASED", "FAILED"}

DHCP_proc ==
  /\ Enter("dhcp")
  /\ ~DhcpDone
  /\ \/ /\ dhcp_state = "STOP"
        /\ dhcp_ret' = "STOPPED"
        /\ UNCHANGED <<dhcp_state, pc>>
     \/ /\ dhcp_state = "RUN"
        /\ dhcp_ret' \in {"RUNNING", "LEASED"}
        /\ UNCHANGED <<dhcp_state, pc>>
     \/ /\ dhcp_state = "RUN"
        /\ dhcp_ret' = "FAILED"
        /\ dhcp_state' = "STOP"
        /\ UNCHANGED pc
     \/ /\ dhcp_state = "RUN"
        /\ pc' = "halted"
        /\ UNCHANGED <<dhcp_state, dhcp_ret>>
  /\ UNCHANGED <<masks, W5500_NOPHY_TryGPRS_Flag, session, report, clock>>

HandleDhcp ==
  /\ Enter("dhcp")
  /\ DhcpDone
  /\ dhcp_state' = "STOP"
  /\ Finish("dhcp", {"CONNECT"})
  /\ UNCHANGED <<W5500_NOPHY_TryGPRS_Flag, dhcp_ret, session, report, clock>>

(***************************************************************************)
(* MQTT_Init returns what its heartbeat publish returned: the session is   *)
(* usable exactly when that is 0.                                          *)
(***************************************************************************)

(* Fault: a failed connection is not retried.                              *)
AfterConnect_NoRetry(ok) == IF ok THEN {"RECVNET"} ELSE {}
AfterConnect(ok) == IF ok THEN {"RECVNET"} ELSE {"NETINT"}

HandleConnect ==
  /\ Enter("connect")
  /\ \/ /\ W5500_NOPHY_TryGPRS_Flag
        /\ Finish("connect", {})
        /\ UNCHANGED session
     \/ /\ ~W5500_NOPHY_TryGPRS_Flag
        /\ session' \in BOOLEAN
        /\ Finish("connect", AfterConnect(session'))
  /\ UNCHANGED <<W5500_NOPHY_TryGPRS_Flag, dhcp_state, dhcp_ret, report, clock>>

(***************************************************************************)
(* MQTT_Working polls the broker: a message may ask for an upload (or take *)
(* the request back).  RECVNET is cleared only when the poll fails; a lost *)
(* session does not make it fail.                                          *)
(***************************************************************************)

(* Fault: the failure is acted upon without looking at the path in use.    *)
PollMayFail_AnyPath == TRUE
PollMayFail == ~W5500_NOPHY_TryGPRS_Flag

HandleRecvNet ==
  /\ Enter("recvnet")
  /\ \/ /\ W5500_NOPHY_TryGPRS_Flag
        /\ pc' = After["recvnet"]
        /\ UNCHANGED <<masks, MQTT_Resv_Read_data>>
     \/ /\ ~W5500_NOPHY_TryGPRS_Flag
        /\ pc' = After["recvnet"]
        /\ MQTT_Resv_Read_data' \in IF session THEN BOOLEAN ELSE {MQTT_Resv_Read_data}
        /\ UNCHANGED masks
     \/ /\ PollMayFail
        /\ Finish("recvnet", {"NETINT"})
        /\ UNCHANGED MQTT_Resv_Read_data
  /\ UNCHANGED <<net, First_Power_ON_Flag, MQTT_Count_SendTimes, Clear_Flag, clock>>

HandleGprsInit ==
  /\ Enter("gprsint")
  /\ Finish("gprsint", {"GPRSDO"})
  /\ UNCHANGED <<net, report, clock>>

(* NB_Work runs one step of the modem machine; AtModem models it.          *)
HandleGprsDo ==
  /\ Enter("gprsdo")
  /\ \/ Finish("gprsdo", {"RECVNET"})       \* GPRS_InitOver_Flag is set
     \/ pc' = After["gprsdo"] /\ UNCHANGED masks
  /\ UNCHANGED <<net, report, clock>>

(***************************************************************************)
(* SoftTimeingLoopEvent: each pending timed event runs its handler and is  *)
(* cleared, and a failed publish asks for a new connection.  On the modem  *)
(* path the handlers return no value at all, so what is tested is          *)
(* arbitrary.                                                              *)
(***************************************************************************)

(* Fault: a publish on a lost session may report success.                  *)
PublishFailures_Unseen == SUBSET LoopTimeEvents
PublishFailures ==
  IF W5500_NOPHY_TryGPRS_Flag \/ session THEN SUBSET LoopTimeEvents ELSE {LoopTimeEvents}

HandleTimeing ==
  /\ Enter("timeing")
  /\ \E failed \in PublishFailures :
       /\ LoopEventstmp' = LoopEventstmp \cup (IF failed = {} THEN {} ELSE {"CONNECT"})
       /\ LoopTimeEvents' = {}
       /\ LoopEvents' = Toggle(LoopEvents, "TIMEING")
  /\ pc' = After["timeing"]
  /\ UNCHANGED <<LoopTimeEventstmp, net, report, clock>>

MergeEvents ==
  /\ pc = "merge"
  /\ pc' = "timed"
  /\ LoopEvents' = LoopEvents \cup LoopEventstmp
  /\ LoopEventstmp' = {}
  /\ UNCHANGED <<LoopTimeEvents, LoopTimeEventstmp, net, report, clock>>
-----------------------------------------------------------------------------
(***************************************************************************)
(* TimeDifference(newtime, oldtime) >= period, for an age that has not     *)
(* wrapped: two equal times differ by 2^32 - 1 (app.c:124).                *)
(***************************************************************************)
Elapsed(age, period) == age = 0 \/ age >= period

(***************************************************************************)
(* newTime = GetSystemNowtime() comes first; everything this call decides  *)
(* by newTime is decided here, whatever time Creat_TCP_Client then takes.  *)
(***************************************************************************)
ReadClock ==
  /\ pc = "timed"
  /\ pc' = "console"
  /\ newAge' = 0
  /\ due' = {c \in Comparisons :
               \/ c = "HEARTBEAT" /\ Elapsed(hbAge, HEART_BEAT_TIME)
               \/ c = "SENDDATA"  /\ Elapsed(sdAge, SEND_DATA_TIME)
               \/ c = "POWERON"   /\ uptime >= PowerOnTicks}
  /\ UNCHANGED <<masks, net, report, hbAge, sdAge, uptime>>

(***************************************************************************)
(* Creat_TCP_Client: once the configuration client on the static network   *)
(* is connected the loop that serves it is left by a reset only.           *)
(***************************************************************************)
StartProvisioning ==
  /\ pc = "console"
  /\ pc' = "provisioning"
  /\ UNCHANGED <<masks, net, report, clock>>

(***************************************************************************)
(* The rest of SoftWareTimeingEventInLoop, as its three ways through.      *)
(***************************************************************************)
InWindow == "RECVNET" \in LoopEvents /\ "SENDDATA" \in due

(* Fault: the flag is tested, but nothing ends the power-on period.        *)
HeldBack_ForEver == First_Power_ON_Flag
HeldBack == First_Power_ON_Flag /\ "POWERON" \notin due
Counted == InWindow /\ ~HeldBack

(* Fault: one check too many.                                              *)
UploadDue_OffByOne == Counted /\ MQTT_Count_SendTimes + 1 > CycleCount
UploadDue == Counted /\ MQTT_Count_SendTimes + 1 >= CycleCount

TimedIdle ==
  /\ pc = "console"
  /\ "RECVNET" \notin LoopEvents
  /\ pc' = "netint"
  /\ LoopTimeEvents' = LoopTimeEvents \cup LoopTimeEventstmp
  /\ LoopTimeEventstmp' = {}
  /\ UNCHANGED <<LoopEvents, LoopEventstmp, net, report, hbAge, sdAge, uptime>>
  /\ newAge' = 0 /\ due' = {}

(* The heartbeat is raised when it is due, and with any timed event the    *)
(* event that has it dispatched.  Fault: that one is not set.              *)
HeartbeatRaised == due \cap {"HEARTBEAT"}
DispatchOf_Nothing(raised) == {}
DispatchOf(raised) == IF raised = {} THEN {} ELSE {"TIMEING"}

(* A due timer prints more than 40 characters, bit-banged at 98 us a bit   *)
(* (IR_SendByte), before the call returns.  Fault: the log is compiled out.*)
LogPrinted_Silent == TRUE
LogPrinted == newAge >= LogTicks

(* "return" at app.c:434, before the timed events are merged.              *)
TimedEarlyReturn ==
  /\ pc = "console"
  /\ Counted /\ ~UploadDue
  /\ LogPrinted
  /\ pc' = "netint"
  /\ First_Power_ON_Flag' = FALSE
  /\ MQTT_Count_SendTimes' = MQTT_Count_SendTimes + 1
  /\ sdAge' = newAge
  /\ hbAge' = IF HeartbeatRaised # {} THEN newAge ELSE hbAge
  /\ LoopEventstmp' = LoopEventstmp \cup DispatchOf(HeartbeatRaised)
  /\ LoopTimeEventstmp' = LoopTimeEventstmp \cup HeartbeatRaised
  /\ UNCHANGED <<LoopEvents, LoopTimeEvents, net, MQTT_Resv_Read_data, Clear_Flag, uptime>>
  /\ newAge' = 0 /\ due' = {}

(* Raised by a call that runs to its end.                                  *)
TimedRaised ==
  HeartbeatRaised \cup
  (IF UploadDue \/ MQTT_Resv_Read_data \/ Clear_Flag THEN {"SENDDATA"} ELSE {})

TimedToEnd ==
  /\ pc = "console"
  /\ "RECVNET" \in LoopEvents
  /\ Counted => UploadDue
  /\ Counted \/ HeartbeatRaised # {} => LogPrinted
  /\ pc' = "netint"
  /\ First_Power_ON_Flag' = (First_Power_ON_Flag /\ ~Counted)
  /\ MQTT_Count_SendTimes' = IF UploadDue THEN 0 ELSE MQTT_Count_SendTimes
  /\ sdAge' = IF UploadDue THEN newAge ELSE sdAge
  /\ hbAge' = IF UploadDue \/ HeartbeatRaised # {} THEN newAge ELSE hbAge
  /\ LoopEventstmp' = LoopEventstmp \cup DispatchOf(TimedRaised)
  /\ LoopTimeEvents' = LoopTimeEvents \cup LoopTimeEventstmp \cup TimedRaised
  /\ LoopTimeEventstmp' = {}
  /\ Clear_Flag' \in BOOLEAN                     \* Clear_Buffer_TimeOutTask
  /\ MQTT_Resv_Read_data' \in                    \* MQTT_GPRS_SendRscvDataCMD
       IF W5500_NOPHY_TryGPRS_Flag THEN BOOLEAN ELSE {FALSE}
  /\ UNCHANGED <<LoopEvents, net, uptime>>
  /\ newAge' = 0 /\ due' = {}
-----------------------------------------------------------------------------
(***************************************************************************)
(* The environment: TIMER2, the broker, and NVIC_SystemReset, which the    *)
(* configuration client asks for and a W5500 whose buffers cannot be set   *)
(* up causes.                                                              *)
(***************************************************************************)
Saturate(age, cap) == IF age < cap THEN age + 1 ELSE age

Tick ==
  /\ hbAge' = Saturate(hbAge, HEART_BEAT_TIME)
  /\ sdAge' = Saturate(sdAge, SEND_DATA_TIME)
  /\ uptime' = Saturate(uptime, PowerOnTicks)
  /\ newAge' = IF pc = "console" THEN Saturate(newAge, HEART_BEAT_TIME) ELSE 0
  /\ UNCHANGED <<masks, pc, net, report, due>>

LoseSession ==
  /\ session
  /\ session' = FALSE
  /\ UNCHANGED <<masks, pc, W5500_NOPHY_TryGPRS_Flag, dhcp_state, dhcp_ret, report, clock>>

Init ==
  /\ LoopEvents = {} /\ LoopEventstmp = {}
  /\ LoopTimeEvents = {} /\ LoopTimeEventstmp = {}
  /\ pc = "boot"
  /\ W5500_NOPHY_TryGPRS_Flag = FALSE
  /\ dhcp_state = "RUN" /\ dhcp_ret = "STOPPED"
  /\ session = FALSE
  /\ First_Power_ON_Flag = FALSE
  /\ MQTT_Count_SendTimes = 0
  /\ MQTT_Resv_Read_data = FALSE /\ Clear_Flag = FALSE
  /\ hbAge = 0 /\ sdAge = 0 /\ uptime = 0 /\ newAge = 0
  /\ due = {}

SystemReset ==
  /\ pc = "provisioning" \/ Enter("netint")
  /\ LoopEvents' = {} /\ LoopEventstmp' = {}
  /\ LoopTimeEvents' = {} /\ LoopTimeEventstmp' = {}
  /\ pc' = "boot"
  /\ W5500_NOPHY_TryGPRS_Flag' = FALSE
  /\ dhcp_state' = "RUN" /\ dhcp_ret' = "STOPPED"
  /\ session' = FALSE
  /\ First_Power_ON_Flag' = FALSE
  /\ MQTT_Count_SendTimes' = 0
  /\ MQTT_Resv_Read_data' = FALSE /\ Clear_Flag' = FALSE
  /\ hbAge' = 0 /\ sdAge' = 0 /\ uptime' = 0 /\ newAge' = 0
  /\ due' = {}
-----------------------------------------------------------------------------
Pass ==
  \/ SoftWareInit \/ PassOver
  \/ HandleNetInt \/ DHCP_proc \/ HandleDhcp \/ HandleConnect \/ HandleRecvNet
  \/ HandleGprsInit \/ HandleGprsDo \/ HandleTimeing \/ MergeEvents
  \/ ReadClock \/ TimedIdle \/ TimedEarlyReturn \/ TimedToEnd

Next == Pass \/ StartProvisioning \/ SystemReset \/ Tick \/ LoseSession

(***************************************************************************)
(* The processor runs the main loop and the timer interrupt for ever; the  *)
(* broker, the configuration client and resets are under no obligation.    *)
(***************************************************************************)
Fairness == WF_vars(Pass) /\ WF_vars(Tick)

Spec == Init /\ [][Next]_vars
FairSpec == Spec /\ Fairness
-----------------------------------------------------------------------------
(***************************************************************************)
(* Every variable keeps its type; in particular the check counter stays    *)
(* below the number of checks that make an upload (app.c:432-439).         *)
(***************************************************************************)
TypeOK ==
  /\ LoopEvents \in SUBSET Events /\ LoopEventstmp \in SUBSET Events
  /\ LoopTimeEvents \in SUBSET TimeEvents /\ LoopTimeEventstmp \in SUBSET TimeEvents
  /\ pc \in Places
  /\ W5500_NOPHY_TryGPRS_Flag \in BOOLEAN
  /\ dhcp_state \in {"STOP", "RUN"} /\ dhcp_ret \in DhcpResults
  /\ session \in BOOLEAN
  /\ First_Power_ON_Flag \in BOOLEAN
  /\ MQTT_Count_SendTimes \in 0 .. CycleCount - 1
  /\ MQTT_Resv_Read_data \in BOOLEAN /\ Clear_Flag \in BOOLEAN
  /\ hbAge \in Nat /\ sdAge \in Nat /\ uptime \in Nat /\ newAge \in Nat
  /\ due \in SUBSET Comparisons

(***************************************************************************)
(* On Ethernet the scheduler never runs out of work: however connection    *)
(* failures, poll failures and failed publishes fall together, one of the  *)
(* four link events is always raised or about to be merged (app.c:232-314  *)
(* clear one only after setting its successor).                            *)
(***************************************************************************)
StageNeverLost ==
  pc # "boot" /\ ~W5500_NOPHY_TryGPRS_Flag => Pending \cap LinkEvents # {}

(***************************************************************************)
(* A live broker session is always polled, or about to be torn down by a   *)
(* chip reset: no order of the CONNECT, RECVNET and NETINT blocks leaves   *)
(* an open session that nobody serves.                                     *)
(***************************************************************************)
SessionServed ==
  session => Pending \cap {"RECVNET", "NETINT"} # {}

(***************************************************************************)
(* On Ethernet the DHCP loop of app.c:251 is never entered with a stopped  *)
(* client, which would answer DHCP_STOPPED for ever, although a second     *)
(* NETINT may queue a DHCP event behind the one that stopped the client.   *)
(***************************************************************************)
DhcpLoopFed ==
  Enter("dhcp") /\ ~DhcpDone /\ ~W5500_NOPHY_TryGPRS_Flag => dhcp_state = "RUN"

(***************************************************************************)
(* The modem is brought up only on the modem path, and never while the     *)
(* W5500 is being brought up.                                              *)
(***************************************************************************)
ModesApart ==
  Pending \cap ModemEvents # {} =>
    W5500_NOPHY_TryGPRS_Flag /\ Pending \cap {"NETINT", "DHCP"} = {}

(***************************************************************************)
(* Once the modem path has a stage, it keeps one until a reset: whatever   *)
(* HeartBeatHandler and SendDataHandler, which return nothing there, are   *)
(* taken to have returned, the scheduler never leaves the modem path.      *)
(***************************************************************************)
ModemStages == ModemEvents \cup {"RECVNET"}
ModemStageKept ==
  [][W5500_NOPHY_TryGPRS_Flag /\ Pending \cap ModemStages # {} /\ pc' # "boot"
       => (Pending \cap ModemStages)' # {}]_vars

(***************************************************************************)
(* The main loop stays for ever inside one call: DHCP that never ends, a   *)
(* halt, or the configuration client.                                      *)
(***************************************************************************)
Blocked == pc \in {"provisioning", "halted"} \/ Enter("dhcp")
LoopBlocked == <>[]Blocked

(***************************************************************************)
(* A lost session is noticed, although the poll never reports it: a        *)
(* heartbeat or an upload comes due, is dispatched, fails and raises       *)
(* CONNECT, early returns and lost TIMEING events notwithstanding.         *)
(***************************************************************************)
LinkLossNoticed ==
  LoopBlocked \/
  (("RECVNET" \in LoopEvents /\ ~session /\ ~W5500_NOPHY_TryGPRS_Flag) ~>
     (\/ session \/ W5500_NOPHY_TryGPRS_Flag \/ pc = "boot"
      \/ Pending \cap {"CONNECT", "NETINT"} # {}))

(***************************************************************************)
(* A raised heartbeat is dispatched: the early return at app.c:434 may     *)
(* leave it in LoopTimeEventstmp for some passes, and separate it from its *)
(* TIMEING event, which then runs with nothing to do; but it is merged in  *)
(* the end, and a later timer has it dispatched.                           *)
(***************************************************************************)
HeartbeatDispatched ==
  LoopBlocked \/ <>[]("RECVNET" \notin LoopEvents) \/
  /\ "HEARTBEAT" \in LoopTimeEventstmp ~> "HEARTBEAT" \notin LoopTimeEventstmp
  /\ "HEARTBEAT" \in LoopTimeEvents ~> "HEARTBEAT" \notin LoopTimeEvents

(***************************************************************************)
(* Uploads go on as long as RECVNET stays raised: neither the power-on     *)
(* period nor the early returns of the check counter hold them back for    *)
(* good.                                                                   *)
(***************************************************************************)
UploadsRecur ==
  LoopBlocked \/ []<>("RECVNET" \notin LoopEvents) \/ []<>("SENDDATA" \in LoopTimeEvents)

(***************************************************************************)
(* NetHandler.c:895: with no PHY link for the time allowed, "it has        *)
(* switched to GPRS".  A switch found by the NETINT block, which leaves    *)
(* DHCP raised, ought to start the modem.                                  *)
(***************************************************************************)
RuntimeFallback ==
  (W5500_NOPHY_TryGPRS_Flag /\ "DHCP" \in Pending) ~>
    ("GPRSINT" \in Pending \/ pc \in {"halted", "boot"})

(***************************************************************************)
(* app.c:410, "entered once every 2 s": the check counter advances at most *)
(* once per SEND_DATA_TIME.  TimeDifference takes two equal times for an   *)
(* elapsed period; it is the time spent printing that keeps a fast loop    *)
(* from reading the same clock twice.                                      *)
(***************************************************************************)
OncePerWindow ==
  [][MQTT_Count_SendTimes' > MQTT_Count_SendTimes => sdAge >= SEND_DATA_TIME]_vars
-----------------------------------------------------------------------------
(***************************************************************************)
(* The scheduler implements Uplink.  The modem path chosen at power-on is  *)
(* told from the switch made at run time by the DHCP client, which was     *)
(* never asked to run there.                                               *)
(***************************************************************************)
OnModem ==
  /\ W5500_NOPHY_TryGPRS_Flag
  /\ dhcp_ret = "STOPPED" /\ dhcp_state = "RUN" /\ "DHCP" \notin Pending

UplinkMode ==
  IF pc = "boot" THEN "off"
  ELSE IF ~W5500_NOPHY_TryGPRS_Flag THEN "ethernet"
  ELSE IF OnModem THEN "modem" ELSE "stranded"

UplinkOnline == session \/ (UplinkMode = "modem" /\ "RECVNET" \in Pending)

U == INSTANCE Uplink WITH mode <- UplinkMode, online <- UplinkOnline

(* Every behaviour of the event loop is one of Uplink: the path is chosen  *)
(* once, and nothing but a reset leads out of the modem path or out of the *)
(* stranded state (app.c:185-192, 232-345).                                *)
ImplementsUplink == U!Spec
=============================================================================
