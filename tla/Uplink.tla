------------------------------- MODULE Uplink -------------------------------
(***************************************************************************)
(* What the scheduler promises about the gateway's way to the broker,      *)
(* whatever the order of its events: the path is chosen once, at power-on; *)
(* on Ethernet the gateway goes on and off line; on the modem it comes on  *)
(* line and stays there; an Ethernet gateway that loses its cable while    *)
(* running is stranded.  Only a reset changes the path.                    *)
(***************************************************************************)
VARIABLES
  mode,    (* "off", "ethernet", "modem" or "stranded"                     *)
  online   (* data may be published                                        *)

vars == <<mode, online>>

TypeOK == mode \in {"off", "ethernet", "modem", "stranded"} /\ online \in BOOLEAN

Init == mode = "off" /\ online = FALSE

Choose ==
  /\ mode = "off"
  /\ mode' \in {"ethernet", "modem"}
  /\ online' = FALSE

GoOnline ==
  /\ mode \in {"ethernet", "modem"}
  /\ online' = TRUE
  /\ UNCHANGED mode

GoOffline ==
  /\ mode = "ethernet"
  /\ online' = FALSE
  /\ UNCHANGED mode

Strand ==
  /\ mode = "ethernet"
  /\ mode' = "stranded"
  /\ online' = FALSE

Restart ==
  /\ mode' = "off"
  /\ online' = FALSE

Next == Choose \/ GoOnline \/ GoOffline \/ Strand \/ Restart

Spec == Init /\ [][Next]_vars
=============================================================================
