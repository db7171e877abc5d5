---------------------------- MODULE ConfigFlash ----------------------------
(***************************************************************************)
(* The two flash pages of the gateway (NetHandler.c): STORE_PAGE, with the *)
(* parameters of the broker's update messages, and STATIC_PAGE, with the   *)
(* address the TCP console writes.  Each holds a whole para_cfg_t, so each *)
(* page carries a copy of what belongs to the other, and para_read copies  *)
(* the whole of whichever page it reads to the same global variables.      *)
(*                                                                         *)
(* Power may be lost at any step, also between the erasure of a page and   *)
(* the end of its writing.  The gateway's address stands for its mask,     *)
(* router, ports and the broker's address, which are kept beside it.       *)
(***************************************************************************)
EXTENDS Naturals

CONSTANTS
  N,           (* the parameters of para_cfg_t, in the order of the struct *)
  Sent,        (* the numbers the broker sends for each                    *)
  Boot,        (* their initial values, NetHandler.c:41-45                 *)
  Preset,      (* the ones of para_read for a blank page, :173-177         *)
  Addresses, Default, (* SIP_SaveData as compiled, :48                     *)
  Garbage,     (* the bytes of an address that was not, or half, written   *)
  Nowhere      (* no address: the console has never stored one             *)

Fields == 1 .. N
Byte(v) == v % 256
Params == [Fields -> 0 .. 255]

(* An erased page reads 255 throughout.  The broker's numbers are the      *)
(* documented ones: a SensorNum is at most 240 (NetHandler.c:44).          *)
ASSUME ConfigAssumption ==
  /\ N \in Nat \ {0}
  /\ Sent \in [Fields -> SUBSET Nat]
  /\ \E f \in Fields : Preset[f] # 255 /\ \A v \in Sent[f] : Byte(v) # 255
  /\ Boot \in Params /\ Preset \in Params
  /\ Default \in Addresses /\ Garbage \notin Addresses
  /\ Nowhere \notin Addresses \cup {Garbage}

Pages == {"STORE", "STATIC"}
Content == [para : Params, address : Addresses \cup {Garbage}]
None == 256                    (* of a parameter: not known                *)

VARIABLES
  pc,
  flash,
  MQTT_Save_Data, TCP_Save_Data,
  MQTT_Resv,           (* the running parameters: MQTT_Resv_Cycle etc.     *)
  SIP_SaveData,
  ip,                  (* the static address of gWIZNETINFO                *)
  W5500_NOPHY_TryGPRS_Flag,
  order,               (* the update message being handled                 *)
  ordered,             (* history: what the stored updates said            *)
  provisioned,         (* history: the address the console last stored     *)
  lost,                (* history: pages whose last writing was cut        *)
  torn                 (* history: pages a writing of which was ever cut   *)
                       (* after its first byte                             *)

ram     == <<MQTT_Save_Data, TCP_Save_Data, MQTT_Resv, SIP_SaveData, ip,
             W5500_NOPHY_TryGPRS_Flag>>
history == <<ordered, provisioned, lost, torn>>
vars    == <<pc, flash, ram, order, history>>
-----------------------------------------------------------------------------
Erased == [para |-> [f \in Fields |-> 255], address |-> Garbage]
Blank(page) == \A f \in Fields : page.para[f] = 255

(* para_read: what ends up in *ppara, and in the globals.                  *)
ReadInto(page) ==
  IF Blank(page) THEN [para |-> Preset, address |-> SIP_SaveData] ELSE page

SetGlobals(page) ==
  IF Blank(page) THEN UNCHANGED <<MQTT_Resv, SIP_SaveData>>
  ELSE MQTT_Resv' = page.para /\ SIP_SaveData' = page.address

(* Fault: the flag is set, but the parameters are not read.                *)
ReadStorePage_Not == UNCHANGED <<MQTT_Save_Data, MQTT_Resv, SIP_SaveData>>
ReadStorePage ==
  /\ MQTT_Save_Data' = ReadInto(flash["STORE"])
  /\ SetGlobals(flash["STORE"])

(* Read_Flash_TCP_Data at the start of NetworkInitHandler.                 *)
(* Fault: the address is taken from the globals.                           *)
Read_Flash_TCP_Data_Globals ==
  /\ TCP_Save_Data' = ReadInto(flash["STATIC"])
  /\ SetGlobals(flash["STATIC"])
  /\ ip' = SIP_SaveData
Read_Flash_TCP_Data ==
  /\ TCP_Save_Data' = ReadInto(flash["STATIC"])
  /\ SetGlobals(flash["STATIC"])
  /\ ip' = TCP_Save_Data'.address

NetworkInitHandler ==
  /\ pc \in {"boot", "NETINT"}
  /\ pc' = IF pc = "boot" THEN "bootlink" ELSE "link"
  /\ Read_Flash_TCP_Data
  /\ UNCHANGED <<flash, MQTT_Save_Data, W5500_NOPHY_TryGPRS_Flag, order, history>>

(* PhyLinkStatusCheck: with a cable on to the NETINT block (SoftWareInit), *)
(* or to the CONNECT block; without one to the modem.                      *)
PhyLinkStatusCheck ==
  /\ pc \in {"bootlink", "link"}
  /\ \/ /\ pc' = IF pc = "bootlink" THEN "NETINT" ELSE "CONNECT"
        /\ UNCHANGED <<MQTT_Save_Data, MQTT_Resv, SIP_SaveData, W5500_NOPHY_TryGPRS_Flag>>
     \/ /\ pc' = "idle"
        /\ W5500_NOPHY_TryGPRS_Flag' = TRUE
        /\ ReadStorePage
  /\ UNCHANGED <<flash, TCP_Save_Data, ip, order, history>>

(* The end of MQTT_Init, whatever its result.                              *)
MQTT_Init ==
  /\ pc = "CONNECT"
  /\ pc' \in {"idle", "NETINT"}
  /\ ReadStorePage
  /\ UNCHANGED <<flash, TCP_Save_Data, ip, W5500_NOPHY_TryGPRS_Flag, order, history>>

(* A lost session goes through CONNECT or NETINT again (EventLoop).        *)
SessionLost ==
  /\ pc = "idle" /\ ~W5500_NOPHY_TryGPRS_Flag
  /\ pc' \in {"CONNECT", "NETINT"}
  /\ UNCHANGED <<flash, ram, order, history>>
-----------------------------------------------------------------------------
(* An update message: a field that is not there, or no number, is skipped. *)
Orders == UNION {[given -> UNION {Sent[f] : f \in Fields}] : given \in SUBSET Fields}
Legal(o) == \A f \in DOMAIN o : o[f] \in Sent[f]

(* Fault: the number is not cut to the byte it is stored in.               *)
Carry_Wide(o, f, old) == IF f \in DOMAIN o THEN o[f] ELSE old
Carry(o, f, old) == IF f \in DOMAIN o THEN Byte(o[f]) ELSE old

(* Unpack_json_MQTT_ResvData, up to para_store ...                         *)
TakeUpdate ==
  /\ pc = "idle" /\ pc' = "update"
  /\ \E o \in Orders :
       /\ Legal(o) /\ order' = o
       /\ MQTT_Resv' = [f \in Fields |-> Carry(o, f, MQTT_Resv[f])]
       /\ MQTT_Save_Data' =
            [MQTT_Save_Data EXCEPT !.para = [f \in Fields |-> Carry(o, f, @[f])]]
  /\ flash' = [flash EXCEPT !["STORE"] = Erased]
  /\ UNCHANGED <<TCP_Save_Data, SIP_SaveData, ip, W5500_NOPHY_TryGPRS_Flag, history>>

(* ... and from it on: MQTT_Save_Data is zeroed for the next message.      *)
StoreUpdate ==
  /\ pc = "update" /\ pc' = "idle"
  /\ flash' = [flash EXCEPT !["STORE"] = MQTT_Save_Data]
  /\ MQTT_Save_Data' = [MQTT_Save_Data EXCEPT !.para = [f \in Fields |-> 0]]
  /\ ordered' = [f \in Fields |-> Carry(order, f, None)]
  /\ lost' = lost \ {"STORE"}
  /\ order' = <<>>
  /\ UNCHANGED <<TCP_Save_Data, MQTT_Resv, SIP_SaveData, ip, W5500_NOPHY_TryGPRS_Flag,
                 provisioned, torn>>

(* Static_IP_Get, for a W message of the console: erase ...                *)
TakeAddress ==
  /\ pc \in {"idle", "console"} /\ pc' = "provision"
  /\ \E a \in Addresses :
       /\ ip' = a
       /\ TCP_Save_Data' = [TCP_Save_Data EXCEPT !.address = a]
  /\ flash' = [flash EXCEPT !["STATIC"] = Erased]
  /\ UNCHANGED <<MQTT_Save_Data, MQTT_Resv, SIP_SaveData, W5500_NOPHY_TryGPRS_Flag,
                 order, history>>

(* ... and write.                                                          *)
StoreAddress ==
  /\ pc = "provision" /\ pc' = "console"
  /\ flash' = [flash EXCEPT !["STATIC"] = TCP_Save_Data]
  /\ provisioned' = TCP_Save_Data.address
  /\ lost' = lost \ {"STATIC"}
  /\ UNCHANGED <<ram, order, ordered, torn>>
-----------------------------------------------------------------------------
(* What a start finds in RAM.                                              *)
Restart ==
  /\ pc' = "boot"
  /\ MQTT_Save_Data' = [para |-> [f \in Fields |-> 0], address |-> Garbage]
  /\ TCP_Save_Data' = [para |-> [f \in Fields |-> 0], address |-> Garbage]
  /\ MQTT_Resv' = Boot /\ SIP_SaveData' = Default /\ ip' = Garbage
  /\ W5500_NOPHY_TryGPRS_Flag' = FALSE
  /\ order' = <<>>

(* The console's C message.                                                *)
NVIC_SystemReset ==
  /\ pc = "console"
  /\ Restart
  /\ UNCHANGED <<flash, history>>

PowerLoss ==
  /\ pc \notin {"boot", "update", "provision"}
  /\ Restart
  /\ UNCHANGED <<flash, history>>

(* Power is lost with the page erased, and the first n parameters written. *)
WritingCut(page, content) ==
  \E n \in 0 .. N :
    /\ flash' = [flash EXCEPT ![page] =
                   [Erased EXCEPT !.para = [f \in Fields |-> IF f <= n THEN content.para[f] ELSE 255]]]
    /\ torn' = IF n = 0 THEN torn ELSE torn \cup {page}
    /\ lost' = lost \cup {page}
    /\ Restart
    /\ UNCHANGED <<ordered, provisioned>>

UpdateCut  == pc = "update" /\ WritingCut("STORE", MQTT_Save_Data)
AddressCut == pc = "provision" /\ WritingCut("STATIC", TCP_Save_Data)
-----------------------------------------------------------------------------
Init ==
  /\ pc = "boot"
  /\ flash = [p \in Pages |-> Erased]
  /\ MQTT_Save_Data = [para |-> [f \in Fields |-> 0], address |-> Garbage]
  /\ TCP_Save_Data = [para |-> [f \in Fields |-> 0], address |-> Garbage]
  /\ MQTT_Resv = Boot /\ SIP_SaveData = Default /\ ip = Garbage
  /\ W5500_NOPHY_TryGPRS_Flag = FALSE
  /\ order = <<>>
  /\ ordered = [f \in Fields |-> None] /\ provisioned = Nowhere
  /\ lost = {} /\ torn = {}

Next ==
  \/ NetworkInitHandler \/ PhyLinkStatusCheck \/ MQTT_Init \/ SessionLost
  \/ TakeUpdate \/ StoreUpdate \/ TakeAddress \/ StoreAddress
  \/ NVIC_SystemReset \/ PowerLoss \/ UpdateCut \/ AddressCut

Spec == Init /\ [][Next]_vars
-----------------------------------------------------------------------------
TypeOK ==
  /\ pc \in {"boot", "bootlink", "NETINT", "link", "CONNECT", "idle", "update",
             "provision", "console"}
  /\ flash \in [Pages -> Content]
  /\ MQTT_Save_Data \in Content /\ TCP_Save_Data \in Content
  /\ MQTT_Resv \in Params /\ SIP_SaveData \in Addresses \cup {Garbage}
  /\ ip \in Addresses \cup {Garbage} /\ W5500_NOPHY_TryGPRS_Flag \in BOOLEAN
  /\ ordered \in [Fields -> 0 .. 256] /\ provisioned \in Addresses \cup {Nowhere}
  /\ lost \subseteq Pages /\ torn \subseteq Pages

(***************************************************************************)
(* What the last stored update said of a parameter is what the gateway     *)
(* runs with, on either path and after any restart or new session, though  *)
(* NetworkInitHandler overwrites the parameters by those of the other page *)
(* (NetHandler.c:251, :900, :1306); unless the writing was cut.            *)
(***************************************************************************)
UpdateKept ==
  pc = "idle" /\ "STORE" \notin lost \cup torn =>
    \A f \in Fields : ordered[f] # None => MQTT_Resv[f] = ordered[f]

(***************************************************************************)
(* The address used without a lease is the one last provisioned, or the    *)
(* compiled one, though para_read overwrites the globals it falls back to  *)
(* by the copy in the other page (NetHandler.c:179-205, :251-262).         *)
(***************************************************************************)
AddressKept ==
  pc \in {"link", "CONNECT", "idle"} =>
    /\ provisioned # Nowhere /\ "STATIC" \notin lost => ip = provisioned
    /\ provisioned = Nowhere /\ torn = {} => ip = Default
=============================================================================
