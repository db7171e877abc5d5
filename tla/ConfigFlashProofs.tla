-------------------------- MODULE ConfigFlashProofs --------------------------
(***************************************************************************)
(* Proofs about the flash pages, for any number of parameters, any numbers *)
(* the broker sends and any addresses, with a loss of power at any step.   *)
(***************************************************************************)
EXTENDS ConfigFlash, TLAPS

(* The parameter by which a written page is told from an erased one.       *)
Tell == CHOOSE f \in Fields : Preset[f] # 255 /\ \A v \in Sent[f] : Byte(v) # 255

LEMMA TellIs == Tell \in Fields /\ Preset[Tell] # 255 /\ \A v \in Sent[Tell] : Byte(v) # 255
BY ConfigAssumption DEF Tell

OrderOK ==
  pc = "update" =>
    \A f \in DOMAIN order :
      /\ f \in Fields /\ order[f] \in Sent[f]
      /\ MQTT_Resv[f] = Byte(order[f]) /\ MQTT_Save_Data.para[f] = Byte(order[f])

(* What is about to be written never looks erased.                         *)
Told ==
  /\ ~Blank(TCP_Save_Data)
  /\ "STORE" \notin torn =>
       /\ MQTT_Save_Data.para[Tell] # 255
       /\ Blank(flash["STORE"]) \/ flash["STORE"].para[Tell] # 255

StoredOrdered ==
  pc # "update" /\ "STORE" \notin lost \cup torn =>
    \A f \in Fields : ordered[f] # None =>
      flash["STORE"].para[f] = ordered[f] /\ ~Blank(flash["STORE"])

(* The address between the reading of its page and the next provisioning.  *)
Settled == pc \in {"bootlink", "link", "CONNECT", "idle", "update"}

StoredProvisioned ==
  /\ pc = "provision" => TCP_Save_Data.address \in Addresses
  /\ provisioned # Nowhere /\ "STATIC" \notin lost =>
       /\ pc # "provision" => ~Blank(flash["STATIC"]) /\ flash["STATIC"].address = provisioned
       /\ Settled => ip = provisioned

NeverProvisioned ==
  provisioned = Nowhere /\ torn = {} =>
    /\ SIP_SaveData = Default
    /\ Blank(flash["STATIC"])
    /\ Blank(flash["STORE"]) \/ flash["STORE"].address = Default
    /\ pc \in {"idle", "update"} => MQTT_Save_Data.address = Default
    /\ Settled => ip = Default

IInv ==
  /\ TypeOK /\ OrderOK /\ Told /\ StoredOrdered /\ StoredProvisioned
  /\ NeverProvisioned /\ UpdateKept
-----------------------------------------------------------------------------
LEMMA ByteType == ASSUME NEW v \in Nat PROVE Byte(v) \in 0 .. 255
BY DEF Byte

LEMMA ErasedIs == Erased \in Content /\ Blank(Erased)
BY DEF Erased, Content, Params, Blank

LEMMA ReadIs ==
  ASSUME TypeOK, NEW page \in Content
  PROVE  ReadInto(page) \in Content /\ ~Blank(ReadInto(page))
<1>1. CASE Blank(page)
  <2>1. ReadInto(page) = [para |-> Preset, address |-> SIP_SaveData]
    BY <1>1 DEF ReadInto
  <2>2. Preset \in Params /\ SIP_SaveData \in Addresses \cup {Garbage}
    BY ConfigAssumption DEF TypeOK
  <2> QED
    BY <2>1, <2>2, TellIs DEF Content, Blank
<1>2. CASE ~Blank(page)
  BY <1>2 DEF ReadInto
<1> QED
  BY <1>1, <1>2

(* The zeros of a start and of a stored update.                            *)
LEMMA ZerosAre ==
  LET zeros == [f \in Fields |-> 0]
  IN  zeros \in Params /\ zeros[Tell] # 255 /\ \A p : p.para = zeros => ~Blank(p)
BY TellIs DEF Params, Blank

LEMMA RestartIs ==
  ASSUME Restart
  PROVE  /\ MQTT_Save_Data' \in Content /\ TCP_Save_Data' \in Content
         /\ MQTT_Save_Data'.para[Tell] # 255 /\ ~Blank(TCP_Save_Data')
         /\ MQTT_Resv' \in Params /\ SIP_SaveData' = Default /\ Default \in Addresses
         /\ ip' = Garbage /\ W5500_NOPHY_TryGPRS_Flag' = FALSE /\ pc' = "boot"
<1> DEFINE zeros == [f \in Fields |-> 0]
<1>1. zeros \in Params /\ zeros[Tell] # 255 /\ \A p : p.para = zeros => ~Blank(p)
  BY ZerosAre
<1>2. /\ MQTT_Save_Data' = [para |-> zeros, address |-> Garbage]
      /\ TCP_Save_Data' = [para |-> zeros, address |-> Garbage]
  BY DEF Restart
<1> HIDE DEF zeros
<1> QED
  BY <1>1, <1>2, ConfigAssumption DEF Restart, Content

LEMMA InvInit == Init => IInv
<1> SUFFICES ASSUME Init PROVE IInv
  OBVIOUS
<1> DEFINE fresh == [para |-> [f \in Fields |-> 0], address |-> Garbage]
<1>a. fresh \in Content
  BY ZerosAre DEF Content
<1>b. MQTT_Save_Data = fresh /\ TCP_Save_Data = fresh
  BY DEF Init
<1>c. flash \in [Pages -> Content]
  BY ErasedIs DEF Init
<1>d. ordered \in [Fields -> 0 .. 256]
  BY DEF Init, None
<1> HIDE DEF fresh
<1>1. TypeOK
  BY <1>a, <1>b, <1>c, <1>d, ConfigAssumption DEF Init, TypeOK
<1>2. flash["STORE"] = Erased /\ flash["STATIC"] = Erased
  BY DEF Init, Pages
<1>3. Told
  BY <1>2, ErasedIs, ZerosAre DEF Init, Told
<1> QED
  BY <1>1, <1>2, <1>3, ErasedIs
  DEF Init, IInv, OrderOK, StoredOrdered, StoredProvisioned, NeverProvisioned, Settled, UpdateKept, None
-----------------------------------------------------------------------------
LEMMA InvStarting == IInv /\ NetworkInitHandler => IInv'
<1> SUFFICES ASSUME IInv, NetworkInitHandler PROVE IInv'
  OBVIOUS
<1>1. /\ UNCHANGED <<flash, MQTT_Save_Data, W5500_NOPHY_TryGPRS_Flag, order, ordered, provisioned, lost, torn>>
      /\ pc' \in {"bootlink", "link"}
      /\ TCP_Save_Data' = ReadInto(flash["STATIC"]) /\ ip' = TCP_Save_Data'.address
      /\ SetGlobals(flash["STATIC"])
  BY DEF NetworkInitHandler, Read_Flash_TCP_Data, history
<1>2. flash["STATIC"] \in Content /\ TypeOK
  BY DEF IInv, TypeOK, Pages
<1>3. TCP_Save_Data' \in Content /\ ~Blank(TCP_Save_Data')
  BY <1>1, <1>2, ReadIs
<1>4. MQTT_Resv' \in Params /\ SIP_SaveData' \in Addresses \cup {Garbage} /\ ip' \in Addresses \cup {Garbage}
  BY <1>1, <1>2, <1>3 DEF SetGlobals, TypeOK, Content
<1>5. TypeOK'
  BY <1>1, <1>2, <1>3, <1>4 DEF TypeOK
<1>6. OrderOK' /\ Told' /\ StoredOrdered' /\ UpdateKept'
  BY <1>1, <1>3 DEF IInv, OrderOK, Told, StoredOrdered, UpdateKept, NetworkInitHandler, Blank
<1>7. StoredProvisioned'
  BY <1>1 DEF IInv, StoredProvisioned, NetworkInitHandler, ReadInto, Blank
<1>8. NeverProvisioned'
  <2> SUFFICES ASSUME provisioned = Nowhere, torn = {} PROVE NeverProvisioned'
    BY <1>1 DEF NeverProvisioned
  <2>1. Blank(flash["STATIC"]) /\ SIP_SaveData = Default
    BY DEF IInv, NeverProvisioned
  <2>2. SIP_SaveData' = Default /\ ip' = Default
    BY <1>1, <2>1 DEF SetGlobals, ReadInto
  <2> QED
    BY <1>1, <2>1, <2>2 DEF IInv, NeverProvisioned
<1> QED
  BY <1>5, <1>6, <1>7, <1>8 DEF IInv

(* What a reading of STORE_PAGE leaves in memory.                          *)
LEMMA StoreRead ==
  ASSUME IInv, ReadStorePage, pc # "update", UNCHANGED <<flash, ordered, lost, torn>>
  PROVE  /\ MQTT_Save_Data' \in Content /\ MQTT_Resv' \in Params
         /\ SIP_SaveData' \in Addresses \cup {Garbage}
         /\ "STORE" \notin torn => MQTT_Save_Data'.para[Tell] # 255
         /\ "STORE" \notin lost \cup torn =>
              \A f \in Fields : ordered[f] # None => MQTT_Resv'[f] = ordered[f]
         /\ provisioned = Nowhere /\ torn = {} =>
              SIP_SaveData' = Default /\ MQTT_Save_Data'.address = Default
<1>1. flash["STORE"] \in Content /\ TypeOK
  BY DEF IInv, TypeOK, Pages
<1>2. MQTT_Save_Data' = ReadInto(flash["STORE"]) /\ MQTT_Save_Data' \in Content
  BY <1>1, ReadIs DEF ReadStorePage
<1>3. MQTT_Resv' \in Params /\ SIP_SaveData' \in Addresses \cup {Garbage}
  BY <1>1 DEF ReadStorePage, SetGlobals, TypeOK, Content
<1>4. "STORE" \notin torn => MQTT_Save_Data'.para[Tell] # 255
  BY <1>2, TellIs DEF IInv, Told, ReadInto
<1>5. "STORE" \notin lost \cup torn =>
        \A f \in Fields : ordered[f] # None => MQTT_Resv'[f] = ordered[f]
  BY DEF IInv, StoredOrdered, ReadStorePage, SetGlobals
<1>6. provisioned = Nowhere /\ torn = {} =>
        SIP_SaveData' = Default /\ MQTT_Save_Data'.address = Default
  BY <1>2 DEF IInv, NeverProvisioned, ReadStorePage, SetGlobals, ReadInto
<1> QED
  BY <1>2, <1>3, <1>4, <1>5, <1>6

LEMMA InvReading == IInv /\ (PhyLinkStatusCheck \/ MQTT_Init \/ SessionLost) => IInv'
<1> SUFFICES ASSUME IInv, PhyLinkStatusCheck \/ MQTT_Init \/ SessionLost PROVE IInv'
  OBVIOUS
<1>1. /\ UNCHANGED <<flash, TCP_Save_Data, ip, order, ordered, provisioned, lost, torn>>
      /\ pc \notin {"update", "provision"} /\ Settled
      /\ pc' \in {"NETINT", "CONNECT", "idle"} /\ W5500_NOPHY_TryGPRS_Flag' \in BOOLEAN
  BY DEF PhyLinkStatusCheck, MQTT_Init, SessionLost, history, ram, IInv, TypeOK, Settled
<1>2. CASE ReadStorePage
  <2>1. /\ MQTT_Save_Data' \in Content /\ MQTT_Resv' \in Params
        /\ SIP_SaveData' \in Addresses \cup {Garbage}
        /\ "STORE" \notin torn => MQTT_Save_Data'.para[Tell] # 255
        /\ "STORE" \notin lost \cup torn =>
             \A f \in Fields : ordered[f] # None => MQTT_Resv'[f] = ordered[f]
        /\ provisioned = Nowhere /\ torn = {} =>
             SIP_SaveData' = Default /\ MQTT_Save_Data'.address = Default
    BY <1>1, <1>2, StoreRead
  <2>2. TypeOK'
    BY <1>1, <2>1 DEF IInv, TypeOK
  <2>3. OrderOK' /\ Told' /\ StoredOrdered' /\ UpdateKept'
    BY <1>1, <2>1 DEF IInv, OrderOK, Told, StoredOrdered, UpdateKept, Blank
  <2>4. StoredProvisioned'
    BY <1>1 DEF IInv, StoredProvisioned, Settled, Blank
  <2>5. NeverProvisioned'
    BY <1>1, <2>1 DEF IInv, NeverProvisioned, Settled, Blank
  <2> QED
    BY <2>2, <2>3, <2>4, <2>5 DEF IInv
<1>3. CASE UNCHANGED <<MQTT_Save_Data, MQTT_Resv, SIP_SaveData>> /\ pc' \in {"NETINT", "CONNECT"}
  <2>1. TypeOK'
    BY <1>1, <1>3 DEF IInv, TypeOK
  <2>2. OrderOK' /\ Told' /\ StoredOrdered' /\ UpdateKept'
    BY <1>1, <1>3 DEF IInv, OrderOK, Told, StoredOrdered, UpdateKept, Blank
  <2>3. StoredProvisioned' /\ NeverProvisioned'
    BY <1>1, <1>3 DEF IInv, StoredProvisioned, NeverProvisioned, Settled, Blank
  <2> QED
    BY <2>1, <2>2, <2>3 DEF IInv
<1> QED
  BY <1>2, <1>3 DEF PhyLinkStatusCheck, MQTT_Init, SessionLost, ram

LEMMA InvTakeUpdate == IInv /\ TakeUpdate => IInv'
<1> SUFFICES ASSUME IInv, TakeUpdate PROVE IInv'
  OBVIOUS
<1>1. PICK o \in Orders :
        /\ Legal(o) /\ order' = o
        /\ MQTT_Resv' = [f \in Fields |-> Carry(o, f, MQTT_Resv[f])]
        /\ MQTT_Save_Data' =
             [MQTT_Save_Data EXCEPT !.para = [f \in Fields |-> Carry(o, f, MQTT_Save_Data.para[f])]]
  BY DEF TakeUpdate
<1>2. /\ UNCHANGED <<TCP_Save_Data, SIP_SaveData, ip, W5500_NOPHY_TryGPRS_Flag, ordered,
                     provisioned, lost, torn>>
      /\ pc = "idle" /\ pc' = "update" /\ flash' = [flash EXCEPT !["STORE"] = Erased]
  BY DEF TakeUpdate, history
<1>3. DOMAIN o \subseteq Fields /\ \A f \in DOMAIN o : o[f] \in Sent[f] /\ o[f] \in Nat
  BY <1>1, ConfigAssumption DEF Orders, Legal
<1>4. \A f \in Fields, old \in 0 .. 255 : Carry(o, f, old) \in 0 .. 255
  BY <1>3, ByteType DEF Carry
<1>5. /\ MQTT_Save_Data \in Content /\ MQTT_Save_Data.para \in Params /\ MQTT_Resv \in Params
      /\ flash \in [Pages -> Content]
  BY DEF IInv, TypeOK, Content
<1>6. /\ MQTT_Resv' \in Params /\ MQTT_Save_Data' \in Content
      /\ MQTT_Save_Data'.para = [f \in Fields |-> Carry(o, f, MQTT_Save_Data.para[f])]
      /\ MQTT_Save_Data'.address = MQTT_Save_Data.address
  BY <1>1, <1>4, <1>5 DEF Params, Content
<1>7. flash' \in [Pages -> Content] /\ flash'["STORE"] = Erased /\ flash'["STATIC"] = flash["STATIC"]
  BY <1>2, <1>5, ErasedIs DEF Pages
<1>8. TypeOK'
  BY <1>2, <1>6, <1>7 DEF IInv, TypeOK
<1>9. OrderOK'
  BY <1>1, <1>3, <1>6 DEF OrderOK, Carry
<1>10. MQTT_Save_Data.para[Tell] # 255 => MQTT_Save_Data'.para[Tell] # 255
  BY <1>3, <1>6, TellIs DEF Carry
<1>11. Told'
  BY <1>2, <1>7, <1>10, ErasedIs DEF IInv, Told, Blank
<1>12. StoredOrdered' /\ UpdateKept'
  BY <1>2 DEF StoredOrdered, UpdateKept
<1>13. StoredProvisioned' /\ NeverProvisioned'
  BY <1>2, <1>6, <1>7, ErasedIs DEF IInv, StoredProvisioned, NeverProvisioned, Settled, Blank
<1> QED
  BY <1>8, <1>9, <1>11, <1>12, <1>13 DEF IInv

LEMMA InvStoreUpdate == IInv /\ StoreUpdate => IInv'
<1> SUFFICES ASSUME IInv, StoreUpdate PROVE IInv'
  OBVIOUS
<1>1. /\ UNCHANGED <<TCP_Save_Data, MQTT_Resv, SIP_SaveData, ip, W5500_NOPHY_TryGPRS_Flag,
                     provisioned, torn>>
      /\ pc = "update" /\ pc' = "idle" /\ lost' = lost \ {"STORE"}
      /\ ordered' = [f \in Fields |-> Carry(order, f, None)]
      /\ flash' = [flash EXCEPT !["STORE"] = MQTT_Save_Data]
      /\ MQTT_Save_Data' = [MQTT_Save_Data EXCEPT !.para = [f \in Fields |-> 0]]
  BY DEF StoreUpdate
<1>2. MQTT_Save_Data \in Content /\ flash \in [Pages -> Content]
  BY DEF IInv, TypeOK
<1>3. /\ flash' \in [Pages -> Content] /\ flash'["STORE"] = MQTT_Save_Data
      /\ flash'["STATIC"] = flash["STATIC"]
  BY <1>1, <1>2 DEF Pages
<1>4. /\ MQTT_Save_Data' \in Content /\ MQTT_Save_Data'.para = [f \in Fields |-> 0]
      /\ MQTT_Save_Data'.address = MQTT_Save_Data.address
  BY <1>1, <1>2, ZerosAre DEF Content
<1>5. /\ \A f \in DOMAIN order : /\ f \in Fields /\ order[f] \in Nat
                                 /\ MQTT_Resv[f] = Byte(order[f])
                                 /\ MQTT_Save_Data.para[f] = Byte(order[f])
  BY <1>1, ConfigAssumption DEF IInv, OrderOK
<1>6. ordered' \in [Fields -> 0 .. 256]
  <2>1. \A f \in Fields : Carry(order, f, None) \in 0 .. 256
    BY <1>5, ByteType DEF Carry, None
  <2> QED
    BY <1>1, <2>1
<1>7. \A f \in Fields : ordered'[f] # None =>
        MQTT_Resv[f] = ordered'[f] /\ MQTT_Save_Data.para[f] = ordered'[f]
  BY <1>1, <1>5 DEF Carry
<1>8. TypeOK'
  BY <1>1, <1>3, <1>4, <1>6 DEF IInv, TypeOK
<1>9. Told'
  BY <1>1, <1>3, <1>4, ZerosAre DEF IInv, Told, Blank
<1>10. "STORE" \notin torn => ~Blank(MQTT_Save_Data)
  BY TellIs DEF IInv, Told, Blank
<1>11. OrderOK' /\ UpdateKept' /\ StoredOrdered'
  BY <1>1, <1>3, <1>7, <1>10 DEF OrderOK, UpdateKept, StoredOrdered, Blank
<1>12. StoredProvisioned' /\ NeverProvisioned'
  BY <1>1, <1>3, <1>4 DEF IInv, StoredProvisioned, NeverProvisioned, Settled, Blank
<1> QED
  BY <1>8, <1>9, <1>11, <1>12 DEF IInv

LEMMA InvProvision == IInv /\ (TakeAddress \/ StoreAddress) => IInv'
<1> SUFFICES ASSUME IInv, TakeAddress \/ StoreAddress PROVE IInv'
  OBVIOUS
<1>1. TCP_Save_Data \in Content /\ flash \in [Pages -> Content]
  BY DEF IInv, TypeOK
<1>2. CASE TakeAddress
  <2>1. PICK a \in Addresses : ip' = a /\ TCP_Save_Data' = [TCP_Save_Data EXCEPT !.address = a]
    BY <1>2 DEF TakeAddress
  <2>2. /\ UNCHANGED <<MQTT_Save_Data, MQTT_Resv, SIP_SaveData, W5500_NOPHY_TryGPRS_Flag, order,
                       ordered, provisioned, lost, torn>>
        /\ pc # "update" /\ pc' = "provision" /\ flash' = [flash EXCEPT !["STATIC"] = Erased]
    BY <1>2 DEF TakeAddress, history
  <2>3. /\ TCP_Save_Data' \in Content /\ TCP_Save_Data'.para = TCP_Save_Data.para
        /\ TCP_Save_Data'.address = a
    BY <1>1, <2>1 DEF Content
  <2>4. /\ flash' \in [Pages -> Content] /\ flash'["STATIC"] = Erased
        /\ flash'["STORE"] = flash["STORE"]
    BY <1>1, <2>2, ErasedIs DEF Pages
  <2>5. TypeOK'
    BY <2>1, <2>2, <2>3, <2>4 DEF IInv, TypeOK
  <2>6. OrderOK' /\ Told' /\ StoredOrdered' /\ UpdateKept'
    BY <2>2, <2>3, <2>4 DEF IInv, OrderOK, Told, StoredOrdered, UpdateKept, Blank
  <2>7. StoredProvisioned' /\ NeverProvisioned'
    BY <2>2, <2>3, <2>4, ErasedIs DEF IInv, StoredProvisioned, NeverProvisioned, Settled, Blank
  <2> QED
    BY <2>5, <2>6, <2>7 DEF IInv
<1>3. CASE StoreAddress
  <2>1. /\ UNCHANGED <<MQTT_Save_Data, TCP_Save_Data, MQTT_Resv, SIP_SaveData, ip,
                       W5500_NOPHY_TryGPRS_Flag, order, ordered, torn>>
        /\ pc = "provision" /\ pc' = "console" /\ lost' = lost \ {"STATIC"}
        /\ provisioned' = TCP_Save_Data.address
        /\ flash' = [flash EXCEPT !["STATIC"] = TCP_Save_Data]
    BY <1>3 DEF StoreAddress, ram
  <2>2. /\ flash' \in [Pages -> Content] /\ flash'["STATIC"] = TCP_Save_Data
        /\ flash'["STORE"] = flash["STORE"]
    BY <1>1, <2>1 DEF Pages
  <2>3. provisioned' \in Addresses /\ provisioned' # Nowhere
    BY <2>1, ConfigAssumption DEF IInv, StoredProvisioned
  <2>4. TypeOK'
    BY <2>1, <2>2, <2>3 DEF IInv, TypeOK
  <2>5. OrderOK' /\ Told' /\ StoredOrdered' /\ UpdateKept'
    BY <2>1, <2>2 DEF IInv, OrderOK, Told, StoredOrdered, UpdateKept, Blank
  <2>6. StoredProvisioned' /\ NeverProvisioned'
    BY <2>1, <2>2, <2>3
    DEF IInv, Told, StoredProvisioned, NeverProvisioned, Settled, Blank
  <2> QED
    BY <2>4, <2>5, <2>6 DEF IInv
<1> QED
  BY <1>2, <1>3
-----------------------------------------------------------------------------
LEMMA InvRestart == IInv /\ (NVIC_SystemReset \/ PowerLoss) => IInv'
<1> SUFFICES ASSUME IInv, NVIC_SystemReset \/ PowerLoss PROVE IInv'
  OBVIOUS
<1>1. /\ UNCHANGED <<flash, ordered, provisioned, lost, torn>> /\ Restart
      /\ pc \notin {"update", "provision"}
  BY DEF NVIC_SystemReset, PowerLoss, history
<1>2. TypeOK'
  BY <1>1, ZerosAre, ConfigAssumption DEF IInv, TypeOK, Restart, Content
<1>3. Told'
  BY <1>1, ZerosAre DEF IInv, Told, Restart, Blank
<1>4. OrderOK' /\ StoredOrdered' /\ UpdateKept'
  BY <1>1 DEF IInv, OrderOK, StoredOrdered, UpdateKept, Restart, Blank
<1>5. StoredProvisioned' /\ NeverProvisioned'
  BY <1>1 DEF IInv, StoredProvisioned, NeverProvisioned, Settled, Restart, Blank
<1> QED
  BY <1>2, <1>3, <1>4, <1>5 DEF IInv

LEMMA InvCut == IInv /\ (UpdateCut \/ AddressCut) => IInv'
<1> SUFFICES ASSUME IInv, NEW page \in Pages, NEW content \in Content,
                    WritingCut(page, content),
                    pc = IF page = "STORE" THEN "update" ELSE "provision"
             PROVE  IInv'
  BY DEF UpdateCut, AddressCut, IInv, TypeOK, Pages
<1>1. PICK n \in 0 .. N :
        /\ flash' = [flash EXCEPT ![page] =
                       [Erased EXCEPT !.para = [f \in Fields |-> IF f <= n THEN content.para[f] ELSE 255]]]
        /\ torn' = IF n = 0 THEN torn ELSE torn \cup {page}
        /\ lost' = lost \cup {page}
        /\ Restart
        /\ UNCHANGED <<ordered, provisioned>>
  BY DEF WritingCut
<1> DEFINE written == [Erased EXCEPT !.para = [f \in Fields |-> IF f <= n THEN content.para[f] ELSE 255]]
<1>2. /\ written \in Content
      /\ written.para = [f \in Fields |-> IF f <= n THEN content.para[f] ELSE 255]
  BY DEF Erased, Content, Params
<1>3. n = 0 => Blank(written)
  BY <1>2 DEF Blank, Fields
<1>4. /\ flash' \in [Pages -> Content] /\ flash'[page] = written
      /\ \A p \in Pages : p # page => flash'[p] = flash[p]
  BY <1>1, <1>2 DEF IInv, TypeOK
<1> HIDE DEF written
<1>5. TypeOK'
  <2>1. torn' \subseteq Pages /\ lost' \subseteq Pages
    BY <1>1 DEF IInv, TypeOK
  <2> QED
    BY <1>1, <1>4, <2>1, RestartIs DEF IInv, TypeOK
<1>6. Told'
  <2>1. CASE page = "STORE"
    <3>1. "STORE" \notin torn' => Blank(flash'["STORE"])
      BY <1>1, <1>3, <1>4, <2>1
    <3>2. MQTT_Save_Data'.para[Tell] # 255 /\ ~Blank(TCP_Save_Data')
      BY <1>1, RestartIs
    <3>3. Blank(TCP_Save_Data') = Blank(TCP_Save_Data)' /\ Blank(flash'["STORE"]) = Blank(flash["STORE"])'
      BY DEF Blank
    <3> QED
      BY <3>1, <3>2, <3>3 DEF Told
  <2>2. CASE page = "STATIC"
    <3>1. flash'["STORE"] = flash["STORE"] /\ ("STORE" \notin torn' => "STORE" \notin torn)
      BY <1>1, <1>4, <2>2 DEF Pages
    <3>2. MQTT_Save_Data'.para[Tell] # 255 /\ ~Blank(TCP_Save_Data')
      BY <1>1, RestartIs
    <3> QED
      BY <3>1, <3>2 DEF IInv, Told, Blank
  <2> QED
    BY <2>1, <2>2 DEF Pages
<1>7. OrderOK' /\ UpdateKept' /\ StoredOrdered'
  BY <1>1, <1>4 DEF IInv, OrderOK, StoredOrdered, UpdateKept, Restart, Blank, Pages
<1>8. StoredProvisioned'
  BY <1>1, <1>4 DEF IInv, StoredProvisioned, Settled, Restart, Blank, Pages
<1>9. NeverProvisioned'
  BY <1>1, <1>3, <1>4 DEF IInv, NeverProvisioned, Settled, Restart, Blank, Pages
<1> QED
  BY <1>5, <1>6, <1>7, <1>8, <1>9 DEF IInv

LEMMA InvNext == IInv /\ [Next]_vars => IInv'
<1> SUFFICES ASSUME IInv, [Next]_vars PROVE IInv'
  OBVIOUS
<1>1. CASE Next
  BY <1>1, InvStarting, InvReading, InvTakeUpdate, InvStoreUpdate, InvProvision, InvRestart, InvCut
  DEF Next
<1>2. CASE UNCHANGED vars
  BY <1>2
  DEF vars, ram, history, IInv, TypeOK, OrderOK, Told, StoredOrdered, StoredProvisioned,
      NeverProvisioned, UpdateKept, Settled, Blank
<1> QED
  BY <1>1, <1>2

LEMMA Invariant == Spec => []IInv
BY InvInit, InvNext, PTL DEF Spec
-----------------------------------------------------------------------------
(* Whatever the broker sends, every parameter stays a byte, in memory and  *)
(* in flash.                                                               *)
THEOREM TypeCorrect == Spec => []TypeOK
<1>1. IInv => TypeOK
  BY DEF IInv
<1> QED
  BY <1>1, Invariant, PTL

(* What the last stored update said of a parameter is what the gateway     *)
(* runs with (NetHandler.c:1306).                                          *)
THEOREM UpdateKeptHolds == Spec => []UpdateKept
<1>1. IInv => UpdateKept
  BY DEF IInv
<1> QED
  BY <1>1, Invariant, PTL

(* The address used without a lease is the one last provisioned, or the    *)
(* compiled one (NetHandler.c:251-262).                                    *)
THEOREM AddressKeptHolds == Spec => []AddressKept
<1>1. IInv => AddressKept
  BY DEF IInv, AddressKept, StoredProvisioned, NeverProvisioned, Settled
<1> QED
  BY <1>1, Invariant, PTL
=============================================================================
