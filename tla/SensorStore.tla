---------------------------- MODULE SensorStore ----------------------------
(***************************************************************************)
(* The readings of the sensors, shared without a lock by the radio         *)
(* interrupt that stores them (nRF24L01_IRQ, NRF_Data_Poll), the main loop *)
(* that clears those too old (Clear_Buffer_TimeOutTask) or all of them     *)
(* (Clear_ALL_nrf24l01_TempData), and the main loop that uploads them      *)
(* (MQTT_SendData, Creat_json_MQTT_SendData).                              *)
(*                                                                         *)
(* GPIOTE runs at the highest priority (SPI1.c:76 asks for 4, of which the *)
(* two bits implemented are 0): to the main loop an interrupt is one step. *)
(* The main loop's loops over the bytes of a reading are two steps each: a *)
(* reading is a pair of halves, of which the interrupt writes both.        *)
(***************************************************************************)
EXTENDS Clocks

CONSTANTS
  DEVICE_COUNT,     (* sensors; 240 in nrf24l01+.c:32                      *)
  PacksSensorNum,   (* sensors in an upload's packet; 40                   *)
  Readings,         (* Readings[s]: what sensor s may report               *)
  SensorCycle,      (* ticks after which a reading is too old              *)
  MaxLag            (* bound: ticks between two looks for old readings     *)

Sensors == 1 .. DEVICE_COUNT
Halves == (UNION {Readings[s] : s \in Sensors}) \cup {0}
Frames == UNION {[sensor : {s}, value : Readings[s]] : s \in Sensors}
NoFrame == [sensor |-> 0, value |-> 0]
Zero == <<0, 0>>

ASSUME StoreAssumption ==
  /\ DEVICE_COUNT \in Nat \ {0} /\ PacksSensorNum \in Nat \ {0}
  /\ Readings \in [Sensors -> SUBSET (Nat \ {0})]
  /\ SensorCycle \in Clock \ {0}
  /\ MaxLag \in Nat \ {0} /\ SensorCycle + MaxLag < Period

VARIABLES
  now,                   (* SystemNowtime                                  *)
  NRF24L01_Buf,          (* the readings, two halves each                  *)
  NRF24L01_Time_Count,   (* when each was stored; 0 for none               *)
  DataToSendBuffer,      (* the same in hexadecimal, as it is uploaded     *)
  stRf,                  (* the frame last read from the radio             *)
  Clear_Flag,            (* a reading was cleared since the last pass      *)
  senddata,              (* APP_T_EVENT_SENDDATA                           *)
  pc, i,                 (* the main loop's step, and sensor               *)
  NewTime,               (* the time Clear_Buffer_TimeOutTask works with   *)
  everything,            (* Clear_ALL_nrf24l01_TempData is running         *)
  masked,                (* DISABLE_GLOBAL_INTERRUPT                       *)
  record,                (* the record being copied into a packet          *)
  known,                 (* sensors whose record last copied was not 0     *)
  silent,                (* no frame comes any more                        *)
  ageless                (* history: sensors whose last reading was stored *)
                         (* while the clock read 0, the mark of no reading *)

store   == <<NRF24L01_Buf, NRF24L01_Time_Count, DataToSendBuffer>>
control == <<pc, i, NewTime, everything, masked>>
upload  == <<record, known>>
vars    == <<now, store, stRf, Clear_Flag, senddata, control, upload, silent, ageless>>
-----------------------------------------------------------------------------
(***************************************************************************)
(* NRF_Data_Poll: the reading and its time are stored and every reading is *)
(* converted again by HexToStr.                                            *)
(***************************************************************************)
NRF_Data_Poll(frame) ==
  /\ NRF24L01_Buf' = [NRF24L01_Buf EXCEPT ![frame.sensor] = <<frame.value, frame.value>>]
  /\ NRF24L01_Time_Count' = [NRF24L01_Time_Count EXCEPT ![frame.sensor] = now]
  /\ DataToSendBuffer' = NRF24L01_Buf'

(* nRF24L01_IRQ: a frame is read if there is one, checksum or not, and the *)
(* frame read last is stored.                                              *)
nRF24L01_IRQ ==
  /\ ~masked /\ ~silent
  /\ \/ stRf' \in Frames
     \/ stRf # NoFrame /\ UNCHANGED stRf
  /\ NRF_Data_Poll(stRf')
  /\ ageless' = IF now = 0 THEN ageless \cup {stRf'.sensor} ELSE ageless \ {stRf'.sensor}
  /\ UNCHANGED <<now, Clear_Flag, senddata, control, upload, silent>>

(* TIMER2_IRQHandler, every ten ms.  The main loop looks for old readings  *)
(* long before the clock goes round once more.                             *)
Tick ==
  /\ ~masked /\ (pc = "blocked" \/ Subtraction(now, NewTime) < MaxLag)
  /\ now' = NextTick(now)
  /\ UNCHANGED <<store, stRf, Clear_Flag, senddata, control, upload, silent, ageless>>
-----------------------------------------------------------------------------
(***************************************************************************)
(* SoftWareTimeingEventInLoop (app.c:465-485): the sensors cleared in the  *)
(* last pass raise an upload, then Clear_Buffer_TimeOutTask reads the time.*)
(***************************************************************************)
StartTimeOutTask ==
  /\ pc = "idle" /\ ~senddata
  /\ senddata' = Clear_Flag /\ Clear_Flag' = FALSE
  /\ NewTime' = now
  /\ pc' = "test" /\ i' = 1 /\ everything' = FALSE
  /\ UNCHANGED <<now, store, stRf, masked, upload, silent, ageless>>

(* MQTT_Init, with the interrupts on again since its first W5500 access.   *)
StartClearAll ==
  /\ pc = "idle" /\ ~senddata
  /\ pc' = "test" /\ i' = 1 /\ everything' = TRUE
  /\ UNCHANGED <<now, store, stRf, Clear_Flag, senddata, NewTime, masked, upload, silent, ageless>>

(* The loop over the sensors.  Fault: one turn too many.                   *)
NextSensor_Beyond ==
  IF i > DEVICE_COUNT THEN pc' = "idle" /\ UNCHANGED i ELSE pc' = "test" /\ i' = i + 1
NextSensor ==
  IF i = DEVICE_COUNT THEN pc' = "idle" /\ UNCHANGED i ELSE pc' = "test" /\ i' = i + 1

(* Unsigned subtraction, as in nrf24l01+.c:314.  Fault: it is signed, and  *)
(* a time that wrapped never ages.                                         *)
Old_Signed(since) == NewTime >= since + SensorCycle
Old(since) == Subtraction(NewTime, since) >= SensorCycle

TimedOut(s) == everything \/ (NRF24L01_Time_Count[s] # 0 /\ Old(NRF24L01_Time_Count[s]))

TestSensor ==
  /\ pc = "test"
  /\ \/ TimedOut(i) /\ pc' = "since" /\ UNCHANGED i
     \/ ~TimedOut(i) /\ NextSensor
  /\ UNCHANGED <<now, store, stRf, Clear_Flag, senddata,
                 NewTime, everything, masked, upload, silent, ageless>>

ClearTime ==
  /\ pc = "since" /\ pc' = "low"
  /\ NRF24L01_Time_Count' = [NRF24L01_Time_Count EXCEPT ![i] = 0]
  /\ UNCHANGED <<now, NRF24L01_Buf, DataToSendBuffer, stRf, Clear_Flag, senddata,
                 i, NewTime, everything, masked, upload, silent, ageless>>

ClearReading ==
  /\ \/ pc = "low"  /\ NRF24L01_Buf' = [NRF24L01_Buf EXCEPT ![i][1] = 0] /\ pc' = "high"
     \/ pc = "high" /\ NRF24L01_Buf' = [NRF24L01_Buf EXCEPT ![i][2] = 0] /\ pc' = "lowHex"
  /\ UNCHANGED <<now, NRF24L01_Time_Count, DataToSendBuffer, stRf, Clear_Flag, senddata,
                 i, NewTime, everything, masked, upload, silent, ageless>>

ClearHex ==
  /\ \/ /\ pc = "lowHex"
        /\ DataToSendBuffer' = [DataToSendBuffer EXCEPT ![i][1] = 0]
        /\ pc' = "highHex" /\ UNCHANGED <<i, Clear_Flag>>
     \/ /\ pc = "highHex"
        /\ DataToSendBuffer' = [DataToSendBuffer EXCEPT ![i][2] = 0]
        /\ Clear_Flag' = (Clear_Flag \/ ~everything)
        /\ NextSensor
  /\ UNCHANGED <<now, NRF24L01_Buf, NRF24L01_Time_Count, stRf, senddata,
                 NewTime, everything, masked, upload, silent, ageless>>
-----------------------------------------------------------------------------
(* The upload period is over (modelled in EventLoop).                      *)
RaiseUpload ==
  /\ pc = "idle" /\ ~senddata
  /\ senddata' = TRUE
  /\ UNCHANGED <<now, store, stRf, Clear_Flag, control, upload, silent, ageless>>

(***************************************************************************)
(* MQTT_SendData: the interrupts are disabled, and stay so until the first *)
(* access to the W5500, whose SPI_CrisExit enables them: only the first    *)
(* packet is copied undisturbed.  Fault: they are not disabled.            *)
(***************************************************************************)
MaskFor_Nothing == FALSE
MaskFor == TRUE

MQTT_SendData ==
  /\ pc = "idle" /\ senddata
  /\ senddata' = FALSE
  /\ masked' = MaskFor
  /\ pc' = "copyLow" /\ i' = 1
  /\ UNCHANGED <<now, store, stRf, Clear_Flag, NewTime, everything, upload, silent, ageless>>

CopyLow ==
  /\ pc = "copyLow"
  /\ record' = <<DataToSendBuffer[i][1], 0>>
  /\ pc' = "copyHigh"
  /\ UNCHANGED <<now, store, stRf, Clear_Flag, senddata, i, NewTime, everything, masked, known, silent, ageless>>

EndOfPacket == i = DEVICE_COUNT \/ i % PacksSensorNum = 0

CopyHigh ==
  /\ pc = "copyHigh"
  /\ record' = [record EXCEPT ![2] = DataToSendBuffer[i][2]]
  /\ known' = IF record' = Zero THEN known \ {i} ELSE known \cup {i}
  /\ pc' = IF EndOfPacket THEN "publish" ELSE "copyLow"
  /\ i' = IF EndOfPacket THEN i ELSE i + 1
  /\ UNCHANGED <<now, store, stRf, Clear_Flag, senddata, NewTime, everything, masked, silent, ageless>>

(* MQTTPublish, with the packet built; after the last one the interrupts   *)
(* are enabled whatever was sent.                                          *)
MQTTPublish ==
  /\ pc = "publish"
  /\ masked' = FALSE
  /\ record' = Zero
  /\ \/ i = DEVICE_COUNT /\ pc' = "idle" /\ UNCHANGED i
     \/ i < DEVICE_COUNT /\ pc' = "copyLow" /\ i' = i + 1
  /\ UNCHANGED <<now, store, stRf, Clear_Flag, senddata, NewTime, everything, known, silent, ageless>>

(* A call that never returns: in another block of the main loop, or in     *)
(* MQTTPublish, whose first access to the W5500 enables the interrupts.    *)
NeverReturns ==
  /\ pc \in {"idle", "publish"}
  /\ pc' = "blocked" /\ masked' = FALSE
  /\ UNCHANGED <<now, store, stRf, Clear_Flag, senddata, i, NewTime, everything, upload, silent, ageless>>

FallSilent ==
  /\ ~silent
  /\ silent' = TRUE
  /\ UNCHANGED <<now, store, stRf, Clear_Flag, senddata, control, upload, ageless>>
-----------------------------------------------------------------------------
Init ==
  /\ now = 0
  /\ NRF24L01_Buf = [s \in Sensors |-> Zero]
  /\ NRF24L01_Time_Count = [s \in Sensors |-> 0]
  /\ DataToSendBuffer = [s \in Sensors |-> Zero]
  /\ stRf = NoFrame
  /\ Clear_Flag = FALSE /\ senddata = FALSE
  /\ pc = "idle" /\ i = 1 /\ NewTime = 0 /\ everything = FALSE /\ masked = FALSE
  /\ record = Zero /\ known = {}
  /\ silent = FALSE /\ ageless = {}

MainLoop ==
  \/ StartTimeOutTask \/ TestSensor \/ ClearTime \/ ClearReading \/ ClearHex
  \/ MQTT_SendData \/ CopyLow \/ CopyHigh \/ MQTTPublish

Next ==
  \/ MainLoop \/ StartClearAll \/ RaiseUpload \/ NeverReturns \/ nRF24L01_IRQ \/ Tick \/ FallSilent

Spec == Init /\ [][Next]_vars

(***************************************************************************)
(* The main loop does not stop inside these functions and, unless it is    *)
(* blocked, calls the timed block for ever; the clock runs; upload periods *)
(* recur (UploadsRecur of EventLoop).  Nothing is assumed of the radios.   *)
(***************************************************************************)
FairSpec ==
  /\ Spec
  /\ WF_vars(TestSensor \/ ClearTime \/ ClearReading \/ ClearHex) /\ SF_vars(StartTimeOutTask)
  /\ WF_vars(MQTT_SendData \/ CopyLow \/ CopyHigh \/ MQTTPublish)
  /\ SF_vars(Tick) /\ SF_vars(RaiseUpload)
-----------------------------------------------------------------------------
(* Every variable keeps its type (nrf24l01+.c:40-46, NetHandler.h).        *)
TypeOK ==
  /\ now \in Clock /\ NewTime \in Clock
  /\ NRF24L01_Buf \in [Sensors -> Halves \X Halves]
  /\ DataToSendBuffer \in [Sensors -> Halves \X Halves]
  /\ NRF24L01_Time_Count \in [Sensors -> Clock]
  /\ stRf \in Frames \cup {NoFrame}
  /\ Clear_Flag \in BOOLEAN /\ senddata \in BOOLEAN
  /\ pc \in {"idle", "test", "since", "low", "high", "lowHex", "highHex",
             "copyLow", "copyHigh", "publish", "blocked"}
  /\ i \in Sensors /\ everything \in BOOLEAN /\ masked \in BOOLEAN
  /\ record \in Halves \X Halves /\ known \in SUBSET Sensors
  /\ silent \in BOOLEAN /\ ageless \in SUBSET Sensors

(***************************************************************************)
(* A record of the first packet sent over the W5500 never joins halves of  *)
(* two readings of a sensor, however frames, clearings and uploads         *)
(* interleave: what the clearing leaves is a reading, or part of one and   *)
(* zeros.                                                                  *)
(***************************************************************************)
FirstPacketWhole ==
  pc = "publish" /\ i <= PacksSensorNum =>
    record[1] = record[2] \/ record[1] = 0 \/ record[2] = 0

(***************************************************************************)
(* Once the sensors are silent, every reading is cleared and an upload     *)
(* made that says so, whatever frames came in the middle of a clearing;    *)
(* only one stored while the clock read 0 may stay for ever, and a call    *)
(* that never returns ends it all.  That the upload arrives is not said:   *)
(* LossNoticed and OneUnheard of MqttClient speak of that.                 *)
(***************************************************************************)
SilenceReported == silent ~> known \subseteq ageless \/ pc = "blocked"

(***************************************************************************)
(* nrf24l01+.c:312, "if timed out": a reading is cleared by the time-out   *)
(* task only when it is at least SensorCycle old.  Here the clock has not  *)
(* wrapped.                                                                *)
(***************************************************************************)
OnlyOldCleared ==
  [][\A s \in Sensors :
       NRF24L01_Time_Count'[s] = 0 /\ NRF24L01_Time_Count[s] # 0 /\ ~everything
       /\ now >= NRF24L01_Time_Count[s]
         => now - NRF24L01_Time_Count[s] >= SensorCycle]_vars
=============================================================================
