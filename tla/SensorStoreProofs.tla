------------------------- MODULE SensorStoreProofs -------------------------
(***************************************************************************)
(* Proofs about the sensor store, for any number of sensors, readings,     *)
(* size of a packet and clock.                                             *)
(***************************************************************************)
EXTENDS SensorStore, TLAPS

LEMMA Sizes ==
  /\ DEVICE_COUNT \in Nat /\ DEVICE_COUNT > 0
  /\ PacksSensorNum \in Nat /\ PacksSensorNum > 0
  /\ Period \in Nat /\ Period > 0
BY StoreAssumption, PeriodAssumption

LEMMA ClockZero == 0 \in Clock
BY Sizes DEF Clock

LEMMA FrameOf ==
  ASSUME NEW frame \in Frames
  PROVE  frame.sensor \in Sensors /\ frame.value \in Halves
BY DEF Frames, Halves

LEMMA ZeroTyped == 0 \in Halves /\ Zero \in Halves \X Halves
BY DEF Halves, Zero

(* Writing 0 into one half of a reading keeps its type                     *)
(* (nrf24l01+.c:318-327).                                                  *)
LEMMA HalfZeroed ==
  ASSUME NEW f \in [Sensors -> Halves \X Halves], NEW s \in Sensors, NEW g,
         \E reading \in Halves \X Halves : g = [f EXCEPT ![s] = reading]
  PROVE  g \in [Sensors -> Halves \X Halves]
OBVIOUS

LEMMA NextSensorTyped ==
  ASSUME i \in Sensors, NextSensor
  PROVE  i' \in Sensors /\ pc' \in {"idle", "test"}
BY Sizes DEF NextSensor, Sensors
-----------------------------------------------------------------------------
LEMMA TypeInit == Init => TypeOK
<1> SUFFICES ASSUME Init PROVE TypeOK
  OBVIOUS
<1>1. 1 \in Sensors
  BY Sizes DEF Sensors
<1> QED
  BY <1>1, ClockZero, ZeroTyped DEF Init, TypeOK

LEMMA TypeIRQ == TypeOK /\ nRF24L01_IRQ => TypeOK'
<1> SUFFICES ASSUME TypeOK, nRF24L01_IRQ PROVE TypeOK'
  OBVIOUS
<1>1. stRf' \in Frames
  BY DEF nRF24L01_IRQ, TypeOK
<1>2. stRf'.sensor \in Sensors /\ <<stRf'.value, stRf'.value>> \in Halves \X Halves
  BY <1>1, FrameOf
<1>3. /\ NRF24L01_Buf' \in [Sensors -> Halves \X Halves]
      /\ DataToSendBuffer' \in [Sensors -> Halves \X Halves]
      /\ NRF24L01_Time_Count' \in [Sensors -> Clock]
  BY <1>2 DEF nRF24L01_IRQ, NRF_Data_Poll, TypeOK
<1>4. ageless' \in SUBSET Sensors
  BY <1>2 DEF nRF24L01_IRQ, TypeOK
<1> QED
  BY <1>1, <1>3, <1>4 DEF nRF24L01_IRQ, control, upload, TypeOK

LEMMA TypeTick == TypeOK /\ Tick => TypeOK'
<1> SUFFICES ASSUME TypeOK, Tick PROVE TypeOK'
  OBVIOUS
<1>1. now' \in Clock
  BY Sizes DEF Tick, TypeOK, Clock, NextTick
<1> QED
  BY <1>1 DEF Tick, store, control, upload, TypeOK

LEMMA TypeStart ==
  TypeOK /\ (StartTimeOutTask \/ StartClearAll \/ RaiseUpload \/ MQTT_SendData \/ NeverReturns
             \/ FallSilent)
    => TypeOK'
<1>1. 1 \in Sensors
  BY Sizes DEF Sensors
<1> USE <1>1 DEF TypeOK, store, control, upload
<1>2. TypeOK /\ StartTimeOutTask => TypeOK'
  BY DEF StartTimeOutTask
<1>3. TypeOK /\ StartClearAll => TypeOK'
  BY DEF StartClearAll
<1>4. TypeOK /\ (RaiseUpload \/ NeverReturns \/ FallSilent) => TypeOK'
  BY DEF RaiseUpload, NeverReturns, FallSilent
<1>5. TypeOK /\ MQTT_SendData => TypeOK'
  BY DEF MQTT_SendData, MaskFor
<1> QED
  BY <1>2, <1>3, <1>4, <1>5

LEMMA TypeClear == TypeOK /\ (TestSensor \/ ClearTime \/ ClearReading \/ ClearHex) => TypeOK'
<1> SUFFICES ASSUME TypeOK, TestSensor \/ ClearTime \/ ClearReading \/ ClearHex PROVE TypeOK'
  OBVIOUS
<1>1. CASE TestSensor
  <2>1. i' \in Sensors /\ pc' \in {"idle", "test", "since"}
    BY <1>1, NextSensorTyped DEF TestSensor, TypeOK
  <2> QED
    BY <1>1, <2>1 DEF TestSensor, store, upload, TypeOK
<1>2. CASE ClearReading
  <2>1. NRF24L01_Buf' \in [Sensors -> Halves \X Halves]
    <3>1. NRF24L01_Buf \in [Sensors -> Halves \X Halves] /\ i \in Sensors
      BY DEF TypeOK
    <3>2. /\ [NRF24L01_Buf[i] EXCEPT ![1] = 0] \in Halves \X Halves
          /\ [NRF24L01_Buf[i] EXCEPT ![2] = 0] \in Halves \X Halves
      BY <3>1, ZeroTyped
    <3>3. \/ NRF24L01_Buf' = [NRF24L01_Buf EXCEPT ![i] = [NRF24L01_Buf[i] EXCEPT ![1] = 0]]
          \/ NRF24L01_Buf' = [NRF24L01_Buf EXCEPT ![i] = [NRF24L01_Buf[i] EXCEPT ![2] = 0]]
      BY <1>2 DEF ClearReading
    <3> QED
      BY <3>1, <3>2, <3>3, HalfZeroed
  <2> QED
    BY <1>2, <2>1 DEF ClearReading, upload, TypeOK
<1>3. CASE ClearHex
  <2>1. DataToSendBuffer' \in [Sensors -> Halves \X Halves]
    <3>1. DataToSendBuffer \in [Sensors -> Halves \X Halves] /\ i \in Sensors
      BY DEF TypeOK
    <3>2. /\ [DataToSendBuffer[i] EXCEPT ![1] = 0] \in Halves \X Halves
          /\ [DataToSendBuffer[i] EXCEPT ![2] = 0] \in Halves \X Halves
      BY <3>1, ZeroTyped
    <3>3. \E h \in {1, 2} : DataToSendBuffer' =
            [DataToSendBuffer EXCEPT ![i] = [DataToSendBuffer[i] EXCEPT ![h] = 0]]
      BY <1>3 DEF ClearHex
    <3> QED
      BY <3>1, <3>2, <3>3, HalfZeroed
  <2>2. i' \in Sensors /\ pc' \in {"idle", "test", "highHex"} /\ Clear_Flag' \in BOOLEAN
    BY <1>3, NextSensorTyped DEF ClearHex, TypeOK
  <2> QED
    BY <1>3, <2>1, <2>2 DEF ClearHex, upload, TypeOK
<1>4. CASE ClearTime
  <2>1. NRF24L01_Time_Count' \in [Sensors -> Clock]
    BY <1>4, ClockZero DEF ClearTime, TypeOK
  <2> QED
    BY <1>4, <2>1 DEF ClearTime, upload, TypeOK
<1> QED
  BY <1>1, <1>2, <1>3, <1>4

LEMMA TypeUpload == TypeOK /\ (CopyLow \/ CopyHigh \/ MQTTPublish) => TypeOK'
<1> SUFFICES ASSUME TypeOK, CopyLow \/ CopyHigh \/ MQTTPublish PROVE TypeOK'
  OBVIOUS
<1>1. DataToSendBuffer[i] \in Halves \X Halves
  BY DEF TypeOK
<1>2. CASE CopyLow
  <2>1. record' \in Halves \X Halves
    BY <1>1, <1>2, ZeroTyped DEF CopyLow
  <2> QED
    BY <1>2, <2>1 DEF CopyLow, store, TypeOK
<1>3. CASE CopyHigh
  <2>1. record' \in Halves \X Halves /\ known' \in SUBSET Sensors
    BY <1>1, <1>3 DEF CopyHigh, TypeOK
  <2>2. i' \in Sensors
    BY <1>3, Sizes DEF CopyHigh, EndOfPacket, Sensors, TypeOK
  <2> QED
    BY <1>3, <2>1, <2>2 DEF CopyHigh, store, TypeOK
<1>4. CASE MQTTPublish
  <2>1. i' \in Sensors /\ record' \in Halves \X Halves
    BY <1>4, Sizes, ZeroTyped DEF MQTTPublish, Sensors, TypeOK
  <2> QED
    BY <1>4, <2>1 DEF MQTTPublish, store, TypeOK
<1> QED
  BY <1>2, <1>3, <1>4

LEMMA TypeStep == TypeOK /\ [Next]_vars => TypeOK'
<1>1. TypeOK /\ UNCHANGED vars => TypeOK'
  BY DEF vars, store, control, upload, TypeOK
<1> QED
  BY <1>1, TypeIRQ, TypeTick, TypeStart, TypeClear, TypeUpload DEF Next, MainLoop
-----------------------------------------------------------------------------
(***************************************************************************)
(* Every stored reading is whole, or the main loop has written a zero into *)
(* it; while the first packet is copied the interrupts are disabled, so    *)
(* that the half copied first is still the one stored.                     *)
(***************************************************************************)
Whole(reading) == reading[1] = reading[2] \/ reading[1] = 0 \/ reading[2] = 0

ReadingsWhole == \A s \in Sensors : Whole(NRF24L01_Buf[s]) /\ Whole(DataToSendBuffer[s])

Copying == pc \in {"copyLow", "copyHigh", "publish"} /\ i <= PacksSensorNum

FirstPacketMasked ==
  /\ Copying => masked
  /\ pc = "publish" => EndOfPacket

HalfCopied == pc = "copyHigh" /\ Copying => record[1] = DataToSendBuffer[i][1]

IInv == TypeOK /\ ReadingsWhole /\ FirstPacketMasked /\ HalfCopied /\ FirstPacketWhole

(* A packet after the first begins beyond it.                              *)
LEMMA LaterPacket ==
  ASSUME NEW k \in Nat, k > 0, NEW n \in Nat, n > 0, k % n = 0
  PROVE  k >= n
<1> SUFFICES ASSUME k < n PROVE FALSE
  OBVIOUS
<1>1. k % n = k
  BY SMT
<1> QED
  BY <1>1

LEMMA WholeStep == TypeOK /\ ReadingsWhole /\ [Next]_vars => ReadingsWhole'
<1> SUFFICES ASSUME TypeOK, ReadingsWhole, [Next]_vars PROVE ReadingsWhole'
  OBVIOUS
<1>1. CASE UNCHANGED <<NRF24L01_Buf, DataToSendBuffer>>
  BY <1>1 DEF ReadingsWhole, Whole
<1>2. CASE nRF24L01_IRQ
  <2>1. \A s \in Sensors : Whole(NRF24L01_Buf'[s])
    BY <1>2 DEF nRF24L01_IRQ, NRF_Data_Poll, ReadingsWhole, Whole, TypeOK
  <2> QED
    BY <1>2, <2>1 DEF nRF24L01_IRQ, NRF_Data_Poll, ReadingsWhole
<1>3. CASE ClearReading
  <2>1. \A s \in Sensors : Whole(NRF24L01_Buf'[s])
    BY <1>3 DEF ClearReading, ReadingsWhole, Whole, TypeOK
  <2> QED
    BY <1>3, <2>1 DEF ClearReading, ReadingsWhole
<1>4. CASE ClearHex
  <2>1. \A s \in Sensors : Whole(DataToSendBuffer'[s])
    BY <1>4 DEF ClearHex, ReadingsWhole, Whole, TypeOK
  <2> QED
    BY <1>4, <2>1 DEF ClearHex, ReadingsWhole
<1> QED
  BY <1>1, <1>2, <1>3, <1>4
     DEF Next, MainLoop, StartTimeOutTask, StartClearAll, TestSensor, ClearTime, Tick, RaiseUpload,
         MQTT_SendData, CopyLow, CopyHigh, MQTTPublish, NeverReturns, FallSilent, store, vars

(* The steps that are not the upload's own.                                *)
LEMMA PacketElsewhere ==
  IInv /\ (StartTimeOutTask \/ StartClearAll \/ TestSensor \/ ClearTime \/ ClearReading \/ ClearHex
           \/ RaiseUpload \/ NeverReturns \/ nRF24L01_IRQ \/ Tick \/ FallSilent \/ UNCHANGED vars)
    => FirstPacketMasked' /\ HalfCopied' /\ FirstPacketWhole'
<1> USE DEF IInv, FirstPacketMasked, HalfCopied, FirstPacketWhole, Copying, EndOfPacket
<1>1. IInv /\ (RaiseUpload \/ Tick \/ FallSilent \/ UNCHANGED vars)
        => FirstPacketMasked' /\ HalfCopied' /\ FirstPacketWhole'
  BY DEF RaiseUpload, Tick, FallSilent, vars, store, control, upload
<1>2. IInv /\ nRF24L01_IRQ => FirstPacketMasked' /\ HalfCopied' /\ FirstPacketWhole'
  BY DEF nRF24L01_IRQ, control, upload
<1>3. IInv /\ (StartTimeOutTask \/ StartClearAll)
        => FirstPacketMasked' /\ HalfCopied' /\ FirstPacketWhole'
  BY DEF StartTimeOutTask, StartClearAll
<1>4. IInv /\ (TestSensor \/ ClearTime \/ ClearReading \/ ClearHex)
        => FirstPacketMasked' /\ HalfCopied' /\ FirstPacketWhole'
  BY DEF TestSensor, ClearTime, ClearReading, ClearHex, NextSensor
<1>5. IInv /\ NeverReturns => FirstPacketMasked' /\ HalfCopied' /\ FirstPacketWhole'
  BY DEF NeverReturns
<1> QED
  BY <1>1, <1>2, <1>3, <1>4, <1>5

LEMMA PacketUpload ==
  IInv /\ (MQTT_SendData \/ CopyLow \/ CopyHigh \/ MQTTPublish)
    => FirstPacketMasked' /\ HalfCopied' /\ FirstPacketWhole'
<1> SUFFICES ASSUME IInv, MQTT_SendData \/ CopyLow \/ CopyHigh \/ MQTTPublish
             PROVE  FirstPacketMasked' /\ HalfCopied' /\ FirstPacketWhole'
  OBVIOUS
<1>1. i \in Nat /\ i > 0 /\ Whole(DataToSendBuffer[i]) /\ record \in Halves \X Halves
  BY Sizes DEF IInv, TypeOK, ReadingsWhole, Sensors
<1> USE DEF FirstPacketMasked, HalfCopied, FirstPacketWhole, Copying
<1>2. CASE MQTT_SendData
  BY <1>2 DEF MQTT_SendData, MaskFor
<1>3. CASE CopyLow
  BY <1>3 DEF CopyLow, IInv, store
<1>4. CASE CopyHigh
  <2>1. record'[1] = record[1] /\ record'[2] = DataToSendBuffer[i][2]
    BY <1>1, <1>4 DEF CopyHigh
  <2>2. CASE EndOfPacket
    BY <1>1, <1>4, <2>1, <2>2 DEF CopyHigh, EndOfPacket, IInv, Whole
  <2>3. CASE ~EndOfPacket
    BY <1>1, <1>4, <2>3, Sizes DEF CopyHigh, IInv
  <2> QED
    BY <2>2, <2>3
<1>5. CASE MQTTPublish
  <2>1. i' = i + 1 => i' > PacksSensorNum
    BY <1>1, <1>5, LaterPacket, Sizes DEF MQTTPublish, EndOfPacket, IInv
  <2> QED
    BY <1>1, <1>5, <2>1, Sizes DEF MQTTPublish
<1> QED
  BY <1>2, <1>3, <1>4, <1>5

LEMMA Invariant == Spec => []IInv
<1>1. Init => IInv
  <2>1. Init => ReadingsWhole
    BY DEF Init, ReadingsWhole, Whole, Zero
  <2> QED
    BY <2>1, TypeInit DEF Init, IInv, FirstPacketMasked, HalfCopied, FirstPacketWhole, Copying
<1>2. IInv /\ [Next]_vars => IInv'
  BY TypeStep, WholeStep, PacketElsewhere, PacketUpload DEF IInv, Next, MainLoop
<1> QED
  BY <1>1, <1>2, PTL DEF Spec
-----------------------------------------------------------------------------
(* The store keeps its types for any number of sensors: neither clearing,  *)
(* whose two steps a frame may come between, nor upload goes beyond the    *)
(* last one (nrf24l01+.c:310, NetHandler.c:1481).                          *)
THEOREM TypeCorrect == Spec => []TypeOK
<1>1. IInv => TypeOK
  BY DEF IInv
<1> QED
  BY <1>1, Invariant, PTL

(* No record of the first packet joins halves of two readings, because the *)
(* interrupts stay disabled until it is built (NetHandler.c:1479).         *)
THEOREM FirstPacketWholeHolds == Spec => []FirstPacketWhole
<1>1. IInv => FirstPacketWhole
  BY DEF IInv
<1> QED
  BY <1>1, Invariant, PTL
=============================================================================
