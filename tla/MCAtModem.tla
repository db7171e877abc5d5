----------------------------- MODULE MCAtModem -----------------------------
(***************************************************************************)
(* AtModem with a table of six commands: AT, the SIM query with its own     *)
(* confirmation, the signal query, the broker connection, AT_MQTTMSGSET    *)
(* and AT_MPUB.  As in ATCmds, AT and the last two are confirmed by "OK".  *)
(***************************************************************************)
EXTENDS AtModem

MCLast == 5
MCCsq == 2
MCRtyNum == [c \in 0 .. MCLast |-> CASE c = 0 -> 2 [] c = 3 -> 1 [] OTHER -> 0]
MCExpected ==
  [c \in 0 .. MCLast |->
     CASE c = 1 -> "READY" [] c = 2 -> "+CSQ:" [] c = 3 -> "CONNACK OK" [] OTHER -> "OK"]
=============================================================================
