---------------------------- MODULE MCConfigFlash ----------------------------
(***************************************************************************)
(* ConfigFlash with three of the five parameters, MQTT_Resv_Cycle,         *)
(* MQTT_Resv_AlarmTime and MQTT_Resv_SensorNum.  The broker sends 255 for  *)
(* the two that may have it, and numbers wider than a byte.                *)
(***************************************************************************)
EXTENDS ConfigFlash

MCSent   == <<{1, 255}, {255, 256}, {40}>>
MCBoot   == <<5, 5, 120>>
MCPreset == <<5, 10, 120>>
=============================================================================
