------------------------------ MODULE Session ------------------------------
(***************************************************************************)
(* What the MQTT client promises of a session, whatever the broker, the    *)
(* chip and the line do: on every connection the broker answers first and  *)
(* the client believes after it; the gateway begins to serve only in a     *)
(* session that is open, and gives it up before it connects again.         *)
(***************************************************************************)
VARIABLES
  broker,    (* of this connection: "none", "accepted" or "granted"        *)
  client,    (* "closed", "open", or "listening" to the subscription       *)
  serving    (* the gateway is in its receive stage                        *)

vars == <<broker, client, serving>>

Init == broker = "none" /\ client = "closed" /\ serving = FALSE

Accept ==
  /\ broker = "none" /\ client = "closed"
  /\ broker' = "accepted"
  /\ UNCHANGED <<client, serving>>

Open ==
  /\ broker = "accepted" /\ client = "closed"
  /\ client' = "open"
  /\ UNCHANGED <<broker, serving>>

Grant ==
  /\ broker = "accepted" /\ client = "open"
  /\ broker' = "granted"
  /\ UNCHANGED <<client, serving>>

Listen ==
  /\ broker = "granted" /\ client = "open"
  /\ client' = "listening"
  /\ UNCHANGED <<broker, serving>>

Serve ==
  /\ client \in {"open", "listening"}
  /\ serving' = TRUE
  /\ UNCHANGED <<broker, client>>

GiveUp == serving' = FALSE /\ UNCHANGED <<broker, client>>

(* The connection is lost: what the gateway does about it comes later.     *)
Lose == client' = "closed" /\ UNCHANGED <<broker, serving>>

Reconnect ==
  /\ ~serving
  /\ broker' = "none" /\ client' = "closed"
  /\ UNCHANGED serving

Next ==
  Accept \/ Open \/ Grant \/ Listen \/ Serve \/ GiveUp \/ Lose \/ Reconnect

Spec == Init /\ [][Next]_vars
=============================================================================
