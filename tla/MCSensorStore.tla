--------------------------- MODULE MCSensorStore ---------------------------
(***************************************************************************)
(* SensorStore with a first sensor of two readings, which an upload could  *)
(* mix up, and further sensors of one.                                     *)
(***************************************************************************)
EXTENDS SensorStore

MCReadings == [s \in Sensors |-> IF s = 1 THEN {1, 2} ELSE {1}]
=============================================================================
