-------------------------- MODULE EventLoopProofs --------------------------
(***************************************************************************)
(* Proofs about EventLoop, for every value of its constants: the type      *)
(* invariant, the safety invariants, the two action properties, and the    *)
(* refinement of Uplink.                                                   *)
(***************************************************************************)
EXTENDS EventLoop, TLAPS

(***************************************************************************)
(* Strengthening.  Nothing is raised before SoftWareInit; the DHCP client  *)
(* is stopped only once the loop that drives it has its result; a session  *)
(* exists on Ethernet only; on the modem path no W5500 stage is raised.    *)
(***************************************************************************)
NothingAtBoot == pc = "boot" => Pending = {} /\ ~W5500_NOPHY_TryGPRS_Flag /\ ~session
DhcpFed == ~DhcpDone /\ ~W5500_NOPHY_TryGPRS_Flag => dhcp_state = "RUN"
SessionOnEthernet == session => ~W5500_NOPHY_TryGPRS_Flag
ModemOnly == OnModem => "NETINT" \notin Pending

StageInv ==
  /\ NothingAtBoot
  /\ DhcpFed
  /\ SessionOnEthernet
  /\ ModemOnly
  /\ StageNeverLost
  /\ SessionServed
  /\ ModesApart

LEMMA TypeInit == Init => TypeOK
<1> SUFFICES ASSUME Init PROVE TypeOK
  OBVIOUS
<1>1. 0 \in 0 .. CycleCount - 1 /\ 0 \in Nat
  BY ConstantsAssumption
<1>2. pc \in Places /\ dhcp_ret \in DhcpResults
  BY DEF Init, Places, DhcpResults
<1> QED
  BY <1>1, <1>2 DEF Init, TypeOK

(***************************************************************************)
(* What the helpers the handlers share do to the types.                    *)
(***************************************************************************)
LEMMA FinishType ==
  ASSUME TypeOK, NEW place \in Blocks, NEW raised \in SUBSET Events, Finish(place, raised)
  PROVE  /\ LoopEvents' \in SUBSET Events /\ LoopEventstmp' \in SUBSET Events
         /\ LoopTimeEvents' \in SUBSET TimeEvents /\ LoopTimeEventstmp' \in SUBSET TimeEvents
         /\ pc' \in Places
<1>1. Awaits[place] \in Events /\ After[place] \in Places
  BY DEF Awaits, After, Blocks, Places, Events, LinkEvents, ModemEvents
<1> QED
  BY <1>1 DEF Finish, TypeOK, Toggle

LEMMA TypeStep == TypeOK /\ [Next]_vars => TypeOK'
<1> SUFFICES ASSUME TypeOK, [Next]_vars PROVE TypeOK'
  OBVIOUS
<1> USE ConstantsAssumption
<1>1. CASE SoftWareInit
  BY <1>1 DEF SoftWareInit, NetworkInitHandler, FirstStage, TypeOK, clock, Places, Blocks, Events, LinkEvents, ModemEvents
<1>2. CASE PassOver
  BY <1>2 DEF PassOver, TypeOK, masks, net, report, clock, Places, Blocks, After
<1>3. CASE HandleNetInt
  BY <1>3, FinishType DEF HandleNetInt, NetworkInitHandler, TypeOK, report, clock, Blocks, Events, LinkEvents, DhcpResults
<1>4. CASE DHCP_proc
  BY <1>4 DEF DHCP_proc, TypeOK, masks, report, clock, Places, DhcpResults
<1>5. CASE HandleDhcp
  BY <1>5, FinishType DEF HandleDhcp, TypeOK, report, clock, Blocks, Events, LinkEvents
<1>6. CASE HandleConnect
  BY <1>6, FinishType DEF HandleConnect, AfterConnect, TypeOK, report, clock, Blocks, Events, LinkEvents
<1>7. CASE HandleRecvNet
  BY <1>7, FinishType DEF HandleRecvNet, TypeOK, masks, net, clock, Blocks, Events, LinkEvents, Places, After
<1>8. CASE HandleGprsInit
  BY <1>8, FinishType DEF HandleGprsInit, TypeOK, net, report, clock, Blocks, Events, ModemEvents
<1>9. CASE HandleGprsDo
  BY <1>9, FinishType DEF HandleGprsDo, TypeOK, masks, net, report, clock, Blocks, Events, LinkEvents, Places, After
<1>10. CASE HandleTimeing
  BY <1>10 DEF HandleTimeing, TypeOK, net, report, clock, Blocks, Events, LinkEvents, Places, After, Toggle
<1>11. CASE MergeEvents
  BY <1>11 DEF MergeEvents, TypeOK, net, report, clock, Places
<1>12. CASE ReadClock
  BY <1>12 DEF ReadClock, TypeOK, masks, net, report, Places
<1>13. CASE TimedIdle
  BY <1>13 DEF TimedIdle, TypeOK, net, report, Places, Blocks
<1>14. CASE TimedEarlyReturn
  <2>1. MQTT_Count_SendTimes' \in 0 .. CycleCount - 1
    BY <1>14 DEF TimedEarlyReturn, UploadDue, TypeOK
  <2>2. sdAge' \in Nat /\ hbAge' \in Nat
    BY <1>14 DEF TimedEarlyReturn, TypeOK
  <2> QED
    BY <1>14, <2>1, <2>2 DEF TimedEarlyReturn, TypeOK, net, Places, Blocks, Events, TimeEvents,
      DispatchOf, HeartbeatRaised
<1>15. CASE TimedToEnd
  <2>1. MQTT_Count_SendTimes' \in 0 .. CycleCount - 1
    BY <1>15 DEF TimedToEnd, TypeOK
  <2>2. sdAge' \in Nat /\ hbAge' \in Nat
    BY <1>15 DEF TimedToEnd, TypeOK
  <2>3. TimedRaised \in SUBSET TimeEvents /\ DispatchOf(TimedRaised) \in SUBSET Events
    BY DEF TimedRaised, HeartbeatRaised, TimeEvents, DispatchOf, Events
  <2>4. MQTT_Resv_Read_data' \in BOOLEAN /\ Clear_Flag' \in BOOLEAN /\ First_Power_ON_Flag' \in BOOLEAN
    BY <1>15 DEF TimedToEnd, TypeOK
  <2> QED
    BY <1>15, <2>1, <2>2, <2>3, <2>4 DEF TimedToEnd, TypeOK, net, Places, Blocks
<1>16. CASE StartProvisioning
  BY <1>16 DEF StartProvisioning, TypeOK, masks, net, report, clock, Places
<1>17. CASE SystemReset
  <2>1. 0 \in 0 .. CycleCount - 1
    OBVIOUS
  <2> QED
    BY <1>17, <2>1 DEF SystemReset, TypeOK, Places, DhcpResults, Events, LinkEvents, ModemEvents,
      TimeEvents, Comparisons
<1>18. CASE Tick
  BY <1>18 DEF Tick, TypeOK, masks, net, report, Saturate
<1>19. CASE LoseSession
  BY <1>19 DEF LoseSession, TypeOK, masks, report, clock
<1>20. CASE UNCHANGED vars
  BY <1>20 DEF vars, masks, net, report, clock, TypeOK
<1> QED
  BY <1>1, <1>2, <1>3, <1>4, <1>5, <1>6, <1>7, <1>8, <1>9, <1>10, <1>11, <1>12, <1>13, <1>14,
     <1>15, <1>16, <1>17, <1>18, <1>19, <1>20 DEF Next, Pass

(* Every reachable state is well typed, and the check counter of           *)
(* SoftWareTimeingEventInLoop never reaches the count that makes an upload.*)
THEOREM TypeCorrect == Spec => []TypeOK
  BY TypeInit, TypeStep, PTL DEF Spec
-----------------------------------------------------------------------------
(***************************************************************************)
(* The end of a block takes at most its own event from the pending ones    *)
(* and adds only what it raises: the same event may be pending a second    *)
(* time in LoopEventstmp, and then it stays.                               *)
(***************************************************************************)
LEMMA FinishPending ==
  ASSUME NEW place \in Blocks, NEW raised \in SUBSET Events,
         Enter(place), Finish(place, raised)
  PROVE  /\ pc # "boot" /\ pc' # "boot"
         /\ Awaits[place] \in Pending
         /\ raised \subseteq Pending'
         /\ Pending' \subseteq Pending \cup raised
         /\ Pending \ {Awaits[place]} \subseteq Pending'
<1>1. pc # "boot" /\ pc' # "boot"
  BY DEF Enter, Finish, Blocks, After
<1>2. Awaits[place] \in LoopEvents /\ LoopEvents' = LoopEvents \ {Awaits[place]}
  BY DEF Enter, Finish, Toggle
<1>3. LoopEventstmp' = LoopEventstmp \cup raised
  BY DEF Finish
<1> QED
  BY <1>1, <1>2, <1>3 DEF Pending

(***************************************************************************)
(* A step that leaves the network state alone and raises at most TIMEING   *)
(* keeps the invariant.                                                    *)
(***************************************************************************)
LEMMA QuietStep ==
  ASSUME StageInv, UNCHANGED net, pc = "boot" <=> pc' = "boot",
         Pending' = Pending \/ (pc # "boot" /\ Pending' = Pending \cup {"TIMEING"})
  PROVE  StageInv'
  BY DEF StageInv, net, NothingAtBoot, DhcpFed, DhcpDone, SessionOnEthernet, ModemOnly, OnModem,
    StageNeverLost, SessionServed, ModesApart, LinkEvents, ModemEvents

LEMMA StageInit == Init => StageInv
  BY DEF Init, StageInv, Pending, NothingAtBoot, DhcpFed, DhcpDone, SessionOnEthernet, ModemOnly,
    OnModem, StageNeverLost, SessionServed, ModesApart, LinkEvents, ModemEvents

LEMMA StageStep == TypeOK /\ StageInv /\ [Next]_vars => StageInv'
<1> SUFFICES ASSUME TypeOK, StageInv, [Next]_vars PROVE StageInv'
  OBVIOUS
<1> USE DEF StageInv, NothingAtBoot, DhcpFed, DhcpDone, SessionOnEthernet, ModemOnly, OnModem,
        StageNeverLost, SessionServed, ModesApart, LinkEvents, ModemEvents
<1>1. CASE SoftWareInit
  <2>1. Pending' = FirstStage(W5500_NOPHY_TryGPRS_Flag')
    BY <1>1 DEF SoftWareInit, Pending
  <2> QED
    BY <1>1, <2>1 DEF SoftWareInit, NetworkInitHandler, FirstStage, TypeOK
<1>2. CASE PassOver
  <2>1. pc # "boot" /\ pc' # "boot" /\ Pending' = Pending /\ UNCHANGED net
    BY <1>2 DEF PassOver, masks, Pending, Blocks, After
  <2> QED
    BY <2>1, QuietStep
<1>3. CASE HandleNetInt
  <2>1. /\ pc # "boot" /\ pc' # "boot" /\ "NETINT" \in Pending /\ "DHCP" \in Pending'
        /\ Pending' \subseteq Pending \cup {"DHCP"}
        /\ Pending \ {"NETINT"} \subseteq Pending'
    BY <1>3, FinishPending DEF HandleNetInt, Blocks, Events, Awaits
  <2> QED
    BY <1>3, <2>1 DEF HandleNetInt, NetworkInitHandler, TypeOK
<1>4. CASE DHCP_proc
  <2>1. /\ pc # "boot" /\ pc' # "boot" /\ Pending' = Pending /\ "DHCP" \in Pending
        /\ UNCHANGED <<session, W5500_NOPHY_TryGPRS_Flag>>
    BY <1>4 DEF DHCP_proc, Enter, Pending, masks, Awaits
  <2> QED
    BY <1>4, <2>1 DEF DHCP_proc
<1>5. CASE HandleDhcp
  <2>1. /\ pc # "boot" /\ pc' # "boot" /\ "DHCP" \in Pending /\ "CONNECT" \in Pending'
        /\ Pending' \subseteq Pending \cup {"CONNECT"}
        /\ Pending \ {"DHCP"} \subseteq Pending'
    BY <1>5, FinishPending DEF HandleDhcp, Blocks, Events, Awaits
  <2> QED
    BY <1>5, <2>1 DEF HandleDhcp
<1>6. CASE HandleConnect
  <2>1. CASE W5500_NOPHY_TryGPRS_Flag
    <3>1. /\ pc # "boot" /\ pc' # "boot" /\ Pending' \subseteq Pending
          /\ Pending \ {"CONNECT"} \subseteq Pending' /\ UNCHANGED net
      BY <1>6, <2>1, FinishPending DEF HandleConnect, Blocks, Awaits, net
    <3> QED
      BY <2>1, <3>1 DEF net
  <2>2. CASE ~W5500_NOPHY_TryGPRS_Flag
    <3>1. AfterConnect(session') \in SUBSET Events
      BY DEF AfterConnect, Events
    <3>2. /\ pc # "boot" /\ pc' # "boot" /\ AfterConnect(session') \subseteq Pending'
          /\ Pending' \subseteq Pending \cup AfterConnect(session')
          /\ Pending \ {"CONNECT"} \subseteq Pending'
      BY <1>6, <2>2, <3>1, FinishPending DEF HandleConnect, Blocks, Awaits
    <3> QED
      BY <1>6, <2>2, <3>2 DEF HandleConnect, AfterConnect
  <2> QED
    BY <2>1, <2>2
<1>7. CASE HandleRecvNet
  <2>1. CASE Finish("recvnet", {"NETINT"}) /\ PollMayFail
    <3>1. /\ pc # "boot" /\ pc' # "boot" /\ "NETINT" \in Pending' /\ UNCHANGED net
          /\ Pending' \subseteq Pending \cup {"NETINT"}
          /\ Pending \ {"RECVNET"} \subseteq Pending'
      BY <1>7, <2>1, FinishPending DEF HandleRecvNet, Blocks, Events, Awaits
    <3> QED
      BY <2>1, <3>1 DEF net, PollMayFail
  <2>2. CASE pc' = After["recvnet"] /\ UNCHANGED masks
    <3>1. pc # "boot" /\ pc' # "boot" /\ Pending' = Pending /\ UNCHANGED net
      BY <1>7, <2>2 DEF HandleRecvNet, Enter, masks, Pending, After
    <3> QED
      BY <3>1, QuietStep
  <2> QED
    BY <1>7, <2>1, <2>2 DEF HandleRecvNet
<1>8. CASE HandleGprsInit
  <2>1. /\ pc # "boot" /\ pc' # "boot" /\ "GPRSINT" \in Pending /\ UNCHANGED net
        /\ Pending' \subseteq Pending \cup {"GPRSDO"}
        /\ Pending \ {"GPRSINT"} \subseteq Pending'
    BY <1>8, FinishPending DEF HandleGprsInit, Blocks, Events, Awaits
  <2> QED
    BY <2>1 DEF net
<1>9. CASE HandleGprsDo
  <2>1. CASE Finish("gprsdo", {"RECVNET"})
    <3>1. /\ pc # "boot" /\ pc' # "boot" /\ "GPRSDO" \in Pending /\ UNCHANGED net
          /\ Pending' \subseteq Pending \cup {"RECVNET"}
          /\ Pending \ {"GPRSDO"} \subseteq Pending'
      BY <1>9, <2>1, FinishPending DEF HandleGprsDo, Blocks, Events, Awaits
    <3> QED
      BY <3>1 DEF net
  <2>2. CASE pc' = After["gprsdo"] /\ UNCHANGED masks
    <3>1. pc # "boot" /\ pc' # "boot" /\ Pending' = Pending /\ UNCHANGED net
      BY <1>9, <2>2 DEF HandleGprsDo, Enter, masks, Pending, After
    <3> QED
      BY <3>1, QuietStep
  <2> QED
    BY <1>9, <2>1, <2>2 DEF HandleGprsDo
<1>10. CASE HandleTimeing
  <2>1. /\ pc # "boot" /\ pc' # "boot" /\ UNCHANGED net
        /\ Pending' \subseteq Pending \cup {"CONNECT"}
        /\ Pending \ {"TIMEING"} \subseteq Pending'
    BY <1>10 DEF HandleTimeing, Enter, Pending, Toggle, Awaits, After
  <2> QED
    BY <2>1 DEF net
<1>11. CASE MergeEvents
  <2>1. pc # "boot" /\ pc' # "boot" /\ Pending' = Pending /\ UNCHANGED net
    BY <1>11 DEF MergeEvents, Pending
  <2> QED
    BY <2>1, QuietStep
<1>12. CASE ReadClock \/ StartProvisioning \/ Tick \/ UNCHANGED vars
  <2>1. (pc = "boot" <=> pc' = "boot") /\ Pending' = Pending /\ UNCHANGED net
    BY <1>12 DEF ReadClock, StartProvisioning, Tick, vars, masks, Pending
  <2> QED
    BY <2>1, QuietStep
<1>13. CASE TimedIdle \/ TimedEarlyReturn \/ TimedToEnd
  <2>1. pc # "boot" /\ pc' # "boot" /\ UNCHANGED net
    BY <1>13 DEF TimedIdle, TimedEarlyReturn, TimedToEnd
  <2>2. Pending' = Pending \/ Pending' = Pending \cup {"TIMEING"}
    BY <1>13 DEF TimedIdle, TimedEarlyReturn, TimedToEnd, Pending, DispatchOf
  <2> QED
    BY <2>1, <2>2, QuietStep
<1>14. CASE SystemReset
  BY <1>14 DEF SystemReset, Pending
<1>15. CASE LoseSession
  <2>1. Pending' = Pending /\ UNCHANGED pc
    BY <1>15 DEF LoseSession, masks, Pending
  <2> QED
    BY <1>15, <2>1 DEF LoseSession
<1> QED
  BY <1>1, <1>2, <1>3, <1>4, <1>5, <1>6, <1>7, <1>8, <1>9, <1>10, <1>11, <1>12, <1>13, <1>14,
     <1>15 DEF Next, Pass

LEMMA StageCorrect == Spec => [](TypeOK /\ StageInv)
  BY TypeInit, TypeStep, StageInit, StageStep, PTL DEF Spec

(***************************************************************************)
(* On Ethernet the scheduler never runs out of work (app.c:232-314).       *)
(***************************************************************************)
THEOREM StageNeverLostHolds == Spec => []StageNeverLost
<1>1. StageInv => StageNeverLost
  BY DEF StageInv
<1> QED
  BY <1>1, StageCorrect, PTL

(* A live session is always polled or about to be torn down.               *)
THEOREM SessionServedHolds == Spec => []SessionServed
<1>1. StageInv => SessionServed
  BY DEF StageInv
<1> QED
  BY <1>1, StageCorrect, PTL

(* The DHCP loop of app.c:251 is never entered with a stopped client.      *)
THEOREM DhcpLoopFedHolds == Spec => []DhcpLoopFed
<1>1. StageInv => DhcpLoopFed
  BY DEF StageInv, DhcpFed, DhcpLoopFed
<1> QED
  BY <1>1, StageCorrect, PTL

(* The modem is brought up on the modem path only.                         *)
THEOREM ModesApartHolds == Spec => []ModesApart
<1>1. StageInv => ModesApart
  BY DEF StageInv
<1> QED
  BY <1>1, StageCorrect, PTL
-----------------------------------------------------------------------------
LEMMA ModemStageStep ==
  TypeOK /\ StageInv /\ [Next]_vars =>
    (W5500_NOPHY_TryGPRS_Flag /\ Pending \cap ModemStages # {} /\ pc' # "boot"
       => (Pending \cap ModemStages)' # {})
<1> SUFFICES ASSUME TypeOK, StageInv, [Next]_vars, W5500_NOPHY_TryGPRS_Flag, pc' # "boot",
                    Pending \cap ModemStages # {}
             PROVE  (Pending \cap ModemStages)' # {}
  OBVIOUS
<1> USE DEF ModemStages, ModemEvents
<1>1. pc # "boot"
  BY DEF StageInv, NothingAtBoot
<1>2. CASE HandleGprsInit
  BY <1>2, FinishPending DEF HandleGprsInit, Blocks, Events, Awaits
<1>3. CASE HandleGprsDo
  <2>1. CASE Finish("gprsdo", {"RECVNET"})
    BY <1>3, <2>1, FinishPending DEF HandleGprsDo, Blocks, Events, LinkEvents, Awaits
  <2>2. CASE UNCHANGED masks
    BY <2>2 DEF masks, Pending
  <2> QED
    BY <1>3, <2>1, <2>2 DEF HandleGprsDo
<1>4. CASE HandleNetInt
  <2>1. Pending \ {"NETINT"} \subseteq Pending'
    BY <1>4, FinishPending DEF HandleNetInt, Blocks, Events, LinkEvents, Awaits
  <2> QED
    BY <2>1
<1>5. CASE HandleDhcp
  <2>1. Pending \ {"DHCP"} \subseteq Pending'
    BY <1>5, FinishPending DEF HandleDhcp, Blocks, Events, LinkEvents, Awaits
  <2> QED
    BY <2>1
<1>6. CASE HandleConnect
  <2>1. Pending \ {"CONNECT"} \subseteq Pending'
    BY <1>6, FinishPending DEF HandleConnect, Blocks, Events, LinkEvents, Awaits
  <2> QED
    BY <2>1
<1>7. CASE HandleTimeing
  <2>1. Pending \ {"TIMEING"} \subseteq Pending'
    BY <1>7 DEF HandleTimeing, Enter, Pending, Toggle, Awaits
  <2> QED
    BY <2>1
<1>8. CASE HandleRecvNet
  <2>1. Pending' = Pending
    BY <1>8 DEF HandleRecvNet, PollMayFail, masks, Pending
  <2> QED
    BY <2>1
<1>9. CASE TimedIdle \/ TimedEarlyReturn \/ TimedToEnd
  <2>1. Pending \subseteq Pending'
    BY <1>9 DEF TimedIdle, TimedEarlyReturn, TimedToEnd, Pending
  <2> QED
    BY <2>1
<1>10. CASE \/ PassOver \/ DHCP_proc \/ MergeEvents \/ ReadClock \/ StartProvisioning
            \/ Tick \/ LoseSession \/ UNCHANGED vars
  <2>1. Pending' = Pending
    BY <1>10 DEF PassOver, DHCP_proc, MergeEvents, ReadClock, StartProvisioning, Tick, LoseSession,
      vars, masks, Pending
  <2> QED
    BY <2>1
<1>11. ~SoftWareInit /\ ~SystemReset
  BY <1>1 DEF SoftWareInit, SystemReset
<1> QED
  BY <1>2, <1>3, <1>4, <1>5, <1>6, <1>7, <1>8, <1>9, <1>10, <1>11 DEF Next, Pass

(* The modem path keeps a stage until a reset, whatever is taken to be the *)
(* result of the handlers that return none there (app.c:317-345).          *)
THEOREM ModemStageKeptHolds == Spec => ModemStageKept
  BY StageCorrect, ModemStageStep, PTL DEF Spec, ModemStageKept

-----------------------------------------------------------------------------
(***************************************************************************)
(* Why equal times never advance the check counter: the age of SendDataLt  *)
(* is zero only until the first tick after power-on, while the power-on    *)
(* flag is still set; a comparison by equal times is then held back.       *)
(***************************************************************************)
WindowInv ==
  /\ sdAge = 0 => uptime = 0 /\ (pc # "boot" => First_Power_ON_Flag)
  /\ "SENDDATA" \in due =>
       sdAge >= SEND_DATA_TIME \/ ("POWERON" \notin due /\ First_Power_ON_Flag)
  /\ pc = "boot" => due = {}

LEMMA WindowStep == TypeOK /\ WindowInv /\ [Next]_vars => WindowInv'
<1> SUFFICES ASSUME TypeOK, WindowInv, [Next]_vars PROVE WindowInv'
  OBVIOUS
<1> USE ConstantsAssumption DEF TypeOK, WindowInv
<1>1. CASE SoftWareInit
  BY <1>1 DEF SoftWareInit, clock
<1>2. CASE PassOver
  <2>1. pc # "boot" /\ pc' # "boot" /\ UNCHANGED <<report, clock>>
    BY <1>2 DEF PassOver, Blocks, After
  <2> QED
    BY <2>1 DEF report, clock
<1>3. CASE ReadClock
  <2>1. UNCHANGED <<sdAge, uptime, First_Power_ON_Flag>> /\ pc # "boot" /\ pc' # "boot"
    BY <1>3 DEF ReadClock, report
  <2>2. "SENDDATA" \in due' => sdAge = 0 \/ sdAge >= SEND_DATA_TIME
    BY <1>3 DEF ReadClock, Elapsed
  <2>3. "POWERON" \in due' => uptime >= PowerOnTicks
    BY <1>3 DEF ReadClock
  <2> QED
    BY <2>1, <2>2, <2>3
<1>4. CASE TimedIdle
  BY <1>4 DEF TimedIdle, report
<1>5. CASE TimedEarlyReturn
  BY <1>5 DEF TimedEarlyReturn, LogPrinted
<1>6. CASE TimedToEnd
  <2>1. CASE Counted
    <3>1. sdAge' # 0
      BY <1>6, <2>1 DEF TimedToEnd, LogPrinted
    <3> QED
      BY <1>6, <3>1 DEF TimedToEnd
  <2>2. CASE ~Counted
    <3>1. sdAge' = sdAge /\ First_Power_ON_Flag' = First_Power_ON_Flag
      BY <1>6, <2>2 DEF TimedToEnd, UploadDue
    <3> QED
      BY <1>6, <3>1 DEF TimedToEnd
  <2> QED
    BY <2>1, <2>2
<1>7. CASE Tick
  BY <1>7 DEF Tick, Saturate, report
<1>8. CASE SystemReset
  BY <1>8 DEF SystemReset
<1>9. CASE \/ HandleNetInt \/ DHCP_proc \/ HandleDhcp \/ HandleConnect \/ HandleRecvNet
           \/ HandleGprsInit \/ HandleGprsDo \/ HandleTimeing \/ MergeEvents
           \/ StartProvisioning \/ LoseSession \/ UNCHANGED vars
  <2>1. UNCHANGED <<sdAge, uptime, due, First_Power_ON_Flag>>
    BY <1>9 DEF HandleNetInt, DHCP_proc, HandleDhcp, HandleConnect, HandleRecvNet, HandleGprsInit,
      HandleGprsDo, HandleTimeing, MergeEvents, StartProvisioning, LoseSession, vars, report, clock
  <2>2. pc = "boot" <=> pc' = "boot"
    BY <1>9 DEF HandleNetInt, DHCP_proc, HandleDhcp, HandleConnect, HandleRecvNet, HandleGprsInit,
      HandleGprsDo, HandleTimeing, MergeEvents, StartProvisioning, LoseSession, vars, Enter, Finish,
      After
  <2> QED
    BY <2>1, <2>2
<1> QED
  BY <1>1, <1>2, <1>3, <1>4, <1>5, <1>6, <1>7, <1>8, <1>9 DEF Next, Pass

LEMMA CountStep ==
  TypeOK /\ WindowInv /\ [Next]_vars =>
    (MQTT_Count_SendTimes' > MQTT_Count_SendTimes => sdAge >= SEND_DATA_TIME)
<1> SUFFICES ASSUME TypeOK, WindowInv, [Next]_vars, MQTT_Count_SendTimes' > MQTT_Count_SendTimes
             PROVE  sdAge >= SEND_DATA_TIME
  OBVIOUS
<1>1. CASE TimedEarlyReturn
  BY <1>1 DEF TimedEarlyReturn, Counted, InWindow, HeldBack, WindowInv
<1>2. CASE ~TimedEarlyReturn
  <2>1. MQTT_Count_SendTimes' = MQTT_Count_SendTimes \/ MQTT_Count_SendTimes' = 0
    BY <1>2 DEF Next, Pass, SoftWareInit, PassOver, HandleNetInt, DHCP_proc, HandleDhcp, HandleConnect,
      HandleRecvNet, HandleGprsInit, HandleGprsDo, HandleTimeing, MergeEvents, ReadClock, TimedIdle,
      TimedToEnd, StartProvisioning, SystemReset, Tick, LoseSession, vars, report
  <2> QED
    BY <2>1, ConstantsAssumption DEF TypeOK
<1> QED
  BY <1>1, <1>2

(* The check counter advances at most once per SEND_DATA_TIME although     *)
(* TimeDifference takes two equal times for an elapsed period (app.c:124). *)
THEOREM OncePerWindowHolds == Spec => OncePerWindow
<1>1. Init => WindowInv
  BY DEF Init, WindowInv
<1> QED
  BY <1>1, TypeCorrect, WindowStep, CountStep, PTL DEF Spec, OncePerWindow
-----------------------------------------------------------------------------
(***************************************************************************)
(* The refinement of Uplink.  BootState adds to StageInv that the DHCP     *)
(* client has not run before SoftWareInit.                                 *)
(***************************************************************************)
BootState == pc = "boot" => dhcp_ret = "STOPPED" /\ dhcp_state = "RUN"

LEMMA BootStep == TypeOK /\ BootState /\ [Next]_vars => BootState'
<1> SUFFICES ASSUME TypeOK, BootState, [Next]_vars, pc' = "boot"
             PROVE  dhcp_ret' = "STOPPED" /\ dhcp_state' = "RUN"
  BY DEF BootState
<1>1. CASE SystemReset
  BY <1>1 DEF SystemReset
<1>2. CASE Tick \/ LoseSession \/ UNCHANGED vars
  BY <1>2 DEF Tick, LoseSession, vars, net, BootState
<1>3. ~Pass /\ ~StartProvisioning
  BY DEF Pass, SoftWareInit, PassOver, HandleNetInt, DHCP_proc, HandleDhcp, HandleConnect,
    HandleRecvNet, HandleGprsInit, HandleGprsDo, HandleTimeing, MergeEvents, ReadClock, TimedIdle,
    TimedEarlyReturn, TimedToEnd, StartProvisioning, Enter, Finish, After, Blocks
<1> QED
  BY <1>1, <1>2, <1>3 DEF Next

(***************************************************************************)
(* A step that keeps the network configuration and the DHCP event keeps    *)
(* the mode; it implements a step of Uplink unless it loses the modem.     *)
(***************************************************************************)
LEMMA SameModeStep ==
  ASSUME TypeOK, TypeOK', SessionOnEthernet, SessionOnEthernet',
         pc = "boot" <=> pc' = "boot", pc = "boot" => ~session',
         UNCHANGED <<W5500_NOPHY_TryGPRS_Flag, dhcp_state, dhcp_ret>>,
         "DHCP" \in Pending <=> "DHCP" \in Pending',
         NothingAtBoot,
         W5500_NOPHY_TryGPRS_Flag /\ "RECVNET" \in Pending => "RECVNET" \in Pending'
  PROVE  [U!Next]_(U!vars)
<1>1. UplinkMode' = UplinkMode
  BY DEF UplinkMode, OnModem
<1>2. CASE UplinkOnline' = UplinkOnline
  BY <1>1, <1>2 DEF U!vars
<1>3. CASE UplinkOnline /\ ~UplinkOnline'
  <2>1. UplinkMode = "ethernet"
    BY <1>1, <1>3 DEF UplinkMode, UplinkOnline, SessionOnEthernet, NothingAtBoot
  <2>2. U!GoOffline
    BY <1>1, <1>3, <2>1 DEF U!GoOffline, UplinkOnline
  <2> QED
    BY <2>2 DEF U!Next
<1>4. CASE ~UplinkOnline /\ UplinkOnline'
  <2>1. UplinkMode \in {"ethernet", "modem"}
    BY <1>1, <1>4 DEF UplinkMode, UplinkOnline, SessionOnEthernet
  <2>2. U!GoOnline
    BY <1>1, <1>4, <2>1 DEF U!GoOnline, UplinkOnline
  <2> QED
    BY <2>2 DEF U!Next
<1> QED
  BY <1>2, <1>3, <1>4 DEF UplinkOnline, TypeOK

LEMMA UplinkInit == Init => U!Init
  BY DEF Init, U!Init, UplinkMode, UplinkOnline

LEMMA UplinkStep ==
  TypeOK /\ TypeOK' /\ StageInv /\ StageInv' /\ BootState /\ [Next]_vars => [U!Next]_(U!vars)
<1> SUFFICES ASSUME TypeOK, TypeOK', StageInv, StageInv', BootState, [Next]_vars
             PROVE  [U!Next]_(U!vars)
  OBVIOUS
<1>a. NothingAtBoot /\ SessionOnEthernet /\ SessionOnEthernet' /\ ModemOnly
  BY DEF StageInv
<1>1. CASE SoftWareInit
  <2>1. Pending' = FirstStage(W5500_NOPHY_TryGPRS_Flag')
    BY <1>1, <1>a DEF SoftWareInit, NothingAtBoot, Pending
  <2>2. UplinkMode = "off" /\ UplinkMode' \in {"ethernet", "modem"} /\ UplinkOnline' = FALSE
    BY <1>1, <2>1 DEF SoftWareInit, NetworkInitHandler, BootState, UplinkMode, UplinkOnline, OnModem,
      FirstStage, TypeOK
  <2> QED
    BY <2>2 DEF U!Choose, U!Next
<1>2. CASE HandleNetInt
  <2>1. /\ pc # "boot" /\ pc' # "boot" /\ "NETINT" \in Pending /\ "DHCP" \in Pending'
        /\ session' = FALSE
    BY <1>2, FinishPending DEF HandleNetInt, NetworkInitHandler, Blocks, Events, LinkEvents, Awaits
  <2>2. /\ UplinkMode \in {"ethernet", "stranded"} /\ UplinkMode' \in {"ethernet", "stranded"}
        /\ UplinkMode = "stranded" => UplinkMode' = "stranded"
        /\ UplinkOnline' = FALSE
    BY <1>2, <1>a, <2>1 DEF HandleNetInt, NetworkInitHandler, UplinkMode, UplinkOnline, OnModem, ModemOnly
  <2>3. UplinkMode = "stranded" => UplinkOnline = FALSE
    BY <1>a DEF UplinkMode, UplinkOnline, SessionOnEthernet, TypeOK
  <2> QED
    BY <2>2, <2>3 DEF U!GoOffline, U!Strand, U!Next, U!vars
<1>3. CASE DHCP_proc \/ HandleDhcp
  <2>1. /\ pc # "boot" /\ pc' # "boot" /\ "DHCP" \in Pending
        /\ UNCHANGED <<W5500_NOPHY_TryGPRS_Flag, session>>
        /\ "DHCP" \in Pending' \/ dhcp_state' = "STOP"
    BY <1>3, FinishPending DEF DHCP_proc, HandleDhcp, Enter, Finish, After, Awaits, masks, Pending
  <2>2. UplinkMode' = UplinkMode /\ UplinkMode # "modem"
    BY <2>1 DEF UplinkMode, OnModem
  <2>3. UplinkOnline' = UplinkOnline
    BY <2>1, <2>2 DEF UplinkOnline
  <2> QED
    BY <2>2, <2>3 DEF U!vars
<1>4. CASE SystemReset
  <2>1. UplinkMode' = "off" /\ UplinkOnline' = FALSE
    BY <1>4 DEF SystemReset, UplinkMode, UplinkOnline
  <2> QED
    BY <2>1 DEF U!Restart, U!Next
<1>5. CASE HandleConnect
  <2>1. /\ pc # "boot" /\ pc' # "boot" /\ Pending \ {"CONNECT"} \subseteq Pending'
        /\ Pending' \subseteq Pending \cup {"RECVNET", "NETINT"}
        /\ UNCHANGED <<W5500_NOPHY_TryGPRS_Flag, dhcp_state, dhcp_ret>>
    BY <1>5, FinishPending DEF HandleConnect, AfterConnect, Blocks, Events, LinkEvents, Awaits
  <2> QED
    BY <1>a, <2>1, SameModeStep
<1>6. CASE HandleRecvNet
  <2>1. /\ pc # "boot" /\ pc' # "boot"
        /\ "DHCP" \in Pending <=> "DHCP" \in Pending'
        /\ W5500_NOPHY_TryGPRS_Flag => Pending' = Pending
        /\ UNCHANGED <<W5500_NOPHY_TryGPRS_Flag, dhcp_state, dhcp_ret>>
    BY <1>6, FinishPending DEF HandleRecvNet, PollMayFail, Blocks, Events, LinkEvents, Awaits, After, Enter,
      masks, net, Pending
  <2> QED
    BY <1>a, <2>1, SameModeStep
<1>7. CASE HandleGprsInit \/ HandleGprsDo
  <2>1. /\ pc # "boot" /\ pc' # "boot" /\ Pending \ ModemEvents \subseteq Pending'
        /\ Pending' \subseteq Pending \cup {"GPRSDO", "RECVNET"} /\ UNCHANGED net
    BY <1>7, FinishPending DEF HandleGprsInit, HandleGprsDo, Blocks, Events, LinkEvents, ModemEvents,
      Awaits, After, Enter, masks, Pending
  <2> QED
    BY <1>a, <2>1, SameModeStep DEF net, ModemEvents
<1>8. CASE HandleTimeing
  <2>1. /\ pc # "boot" /\ pc' # "boot" /\ Pending \ {"TIMEING"} \subseteq Pending'
        /\ Pending' \subseteq Pending \cup {"CONNECT"} /\ UNCHANGED net
    BY <1>8 DEF HandleTimeing, Enter, Pending, Toggle, Awaits, After
  <2> QED
    BY <1>a, <2>1, SameModeStep DEF net
<1>9. CASE TimedIdle \/ TimedEarlyReturn \/ TimedToEnd
  <2>1. /\ pc # "boot" /\ pc' # "boot" /\ Pending \subseteq Pending'
        /\ Pending' \subseteq Pending \cup {"TIMEING"} /\ UNCHANGED net
    BY <1>9 DEF TimedIdle, TimedEarlyReturn, TimedToEnd, Pending, DispatchOf
  <2> QED
    BY <1>a, <2>1, SameModeStep DEF net
<1>10. CASE \/ PassOver \/ MergeEvents \/ ReadClock \/ StartProvisioning
            \/ Tick \/ LoseSession \/ UNCHANGED vars
  <2>1. /\ pc = "boot" <=> pc' = "boot"
        /\ Pending' = Pending
        /\ UNCHANGED <<W5500_NOPHY_TryGPRS_Flag, dhcp_state, dhcp_ret>>
        /\ session' => session
    BY <1>10 DEF PassOver, Blocks, After, MergeEvents, ReadClock, StartProvisioning, Tick,
      LoseSession, vars, masks, net, Pending
  <2> QED
    BY <1>a, <2>1, SameModeStep DEF NothingAtBoot
<1> QED
  BY <1>1, <1>2, <1>3, <1>4, <1>5, <1>6, <1>7, <1>8, <1>9, <1>10 DEF Next, Pass

(***************************************************************************)
(* Every behaviour of the scheduler is a behaviour of Uplink (app.c:185-   *)
(* 192, 232-345): the path is chosen once, and only a reset leads off the  *)
(* modem path or out of the stranded state.                                *)
(***************************************************************************)
THEOREM ImplementsUplinkHolds == Spec => ImplementsUplink
<1>1. Init => BootState
  BY DEF Init, BootState
<1> QED
  BY <1>1, StageCorrect, BootStep, UplinkInit, UplinkStep, PTL DEF Spec, ImplementsUplink, U!Spec
=============================================================================
