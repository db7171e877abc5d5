------------------------------- MODULE Relay -------------------------------
(***************************************************************************)
(* The alarm relay: switched on by the timed block of the main loop when   *)
(* the broker asked for an alarm (app.c:478-484), switched off by          *)
(* Realy_TimeOutTask when the alarm time is over or the broker cancels     *)
(* (main.c:91-107).  One pass of the main loop is three steps: the events, *)
(* in which messages of the broker are handled; the timed block; the task. *)
(***************************************************************************)
EXTENDS Clocks

CONSTANTS
  AlarmTimes,    (* alarm times the broker may set; 0 .. 255               *)
  Continuous,    (* the one NetHandler.c:42 says alarms for ever; 255      *)
  Minute,        (* ticks of a minute; 6000                                *)
  MaxLag         (* bound: ticks between two calls of Realy_TimeOutTask    *)

ASSUME RelayAssumption ==
  /\ Minute \in Nat \ {0} /\ MaxLag \in Nat \ {0}
  /\ AlarmTimes \subseteq Nat
  /\ \A t \in AlarmTimes : t * Minute + 2 * MaxLag < Period

VARIABLES
  pc,                          (* "events", "timed", "timeout" or "blocked"*)
  now,                         (* SystemNowtime                            *)
  newTime,                     (* the timed block's reading of it          *)
  NewTime,                     (* the time-out task's                      *)
  MQTT_Resv_Alarm,             (* an alarm is asked for                    *)
  MQTT_Resv_AlarmTime,
  MQTT_Relay_AlarmCount_flag, MQTT_Relay_AlarmCount,
  Relay_PIN,                   (* the relay is on                          *)
  unanswered,                  (* history: an alarm came while the relay   *)
                               (* was off, and it is not on yet            *)
  onFor                        (* history: the ticks the relay has been on,*)
                               (* counted up to Period                     *)

asked == <<MQTT_Resv_Alarm, MQTT_Resv_AlarmTime>>
alarm == <<MQTT_Relay_AlarmCount_flag, MQTT_Relay_AlarmCount, Relay_PIN>>
vars  == <<pc, now, newTime, NewTime, asked, alarm, unanswered, onFor>>
-----------------------------------------------------------------------------
(* Unpack_json_MQTT_ResvData: an alarm or its cancellation; or new         *)
(* parameters, which the stored alarm time is one of.                      *)
MessageArrived ==
  /\ pc = "events"
  /\ \/ /\ MQTT_Resv_Alarm' \in BOOLEAN
        /\ unanswered' = (MQTT_Resv_Alarm' /\ (unanswered \/ ~Relay_PIN))
        /\ UNCHANGED MQTT_Resv_AlarmTime
     \/ /\ MQTT_Resv_AlarmTime' \in AlarmTimes
        /\ UNCHANGED <<MQTT_Resv_Alarm, unanswered>>
  /\ UNCHANGED <<pc, now, newTime, NewTime, alarm, onFor>>

EventsDone ==
  /\ pc = "events"
  /\ pc' = "timed"
  /\ newTime' = now
  /\ UNCHANGED <<now, NewTime, asked, alarm, unanswered, onFor>>

(* Fault: the time is counted anew in every pass.                          *)
Starts_Again == MQTT_Resv_Alarm
Starts == MQTT_Resv_Alarm /\ ~MQTT_Relay_AlarmCount_flag

StartAlarm ==
  /\ pc = "timed" /\ Starts
  /\ Relay_PIN' = TRUE
  /\ MQTT_Relay_AlarmCount_flag' = TRUE
  /\ MQTT_Relay_AlarmCount' = newTime
  /\ unanswered' = FALSE /\ onFor' = 0
  /\ NewTime' = now
  /\ pc' = "timeout"
  /\ UNCHANGED <<now, newTime, asked>>

(* No alarm to start, or the block returned before it (app.c:434).         *)
PassAlarm ==
  /\ pc = "timed"
  /\ NewTime' = now
  /\ pc' = "timeout"
  /\ UNCHANGED <<now, newTime, asked, alarm, unanswered, onFor>>

(* NewTime was read on entry, one step before.  Fault: it is compared with *)
(* the time the alarm ends at.                                             *)
TimeIsUp_Deadline ==
  /\ MQTT_Relay_AlarmCount_flag
  /\ NewTime >= (MQTT_Relay_AlarmCount + MQTT_Resv_AlarmTime * Minute) % Period
TimeIsUp ==
  /\ MQTT_Relay_AlarmCount_flag
  /\ Subtraction(NewTime, MQTT_Relay_AlarmCount) >= MQTT_Resv_AlarmTime * Minute

(* Faults: the alarm outlives its time; a cancellation leaves the flag.    *)
AlarmLeft_Kept == MQTT_Resv_Alarm
AlarmLeft == MQTT_Resv_Alarm /\ ~TimeIsUp

FlagLeft_Kept == MQTT_Relay_AlarmCount_flag /\ ~TimeIsUp
FlagLeft == MQTT_Relay_AlarmCount_flag /\ ~TimeIsUp /\ MQTT_Resv_Alarm

Realy_TimeOutTask ==
  /\ pc = "timeout"
  /\ pc' = "events"
  /\ MQTT_Resv_Alarm' = AlarmLeft
  /\ MQTT_Relay_AlarmCount_flag' = FlagLeft
  /\ Relay_PIN' = (Relay_PIN /\ ~TimeIsUp /\ AlarmLeft)
  /\ onFor' = IF Relay_PIN' THEN onFor ELSE 0
  /\ UNCHANGED <<now, newTime, NewTime, MQTT_Resv_AlarmTime, MQTT_Relay_AlarmCount, unanswered>>

(* The calls without an end: the DHCP block (app.c:251), the halt after a  *)
(* failed lookup or an address conflict, the console's loop.  The relay    *)
(* stays as it is.                                                         *)
NeverReturns ==
  /\ pc \in {"events", "timed"}
  /\ pc' = "blocked"
  /\ UNCHANGED <<now, newTime, NewTime, asked, alarm, unanswered, onFor>>

(* TIMER2_IRQHandler.                                                      *)
Tick ==
  /\ pc = "blocked" \/ Subtraction(now, NewTime) < MaxLag
  /\ now' = NextTick(now)
  /\ onFor' = IF Relay_PIN /\ onFor < Period THEN onFor + 1 ELSE onFor
  /\ UNCHANGED <<pc, newTime, NewTime, asked, alarm, unanswered>>
-----------------------------------------------------------------------------
Init ==
  /\ pc = "events" /\ now = 0 /\ newTime = 0 /\ NewTime = 0
  /\ MQTT_Resv_Alarm = FALSE /\ MQTT_Resv_AlarmTime \in AlarmTimes
  /\ MQTT_Relay_AlarmCount_flag = FALSE /\ MQTT_Relay_AlarmCount = 0
  /\ Relay_PIN = FALSE /\ unanswered = FALSE /\ onFor = 0

TimedBlock == StartAlarm \/ PassAlarm

Next ==
  MessageArrived \/ EventsDone \/ TimedBlock \/ Realy_TimeOutTask \/ NeverReturns \/ Tick

Spec == Init /\ [][Next]_vars

(* The main loop goes round unless it is blocked, and the clock runs;      *)
(* messages need not come.  The timed block returns early in a few passes  *)
(* only, and a lost receive stage comes back (both modelled in EventLoop): *)
(* it comes to the alarm again and again.                                  *)
FairSpec ==
  /\ Spec
  /\ WF_vars(EventsDone) /\ WF_vars(TimedBlock) /\ SF_vars(StartAlarm) /\ WF_vars(Realy_TimeOutTask)
  /\ SF_vars(Tick)
-----------------------------------------------------------------------------
(* Every variable keeps its type (NetHandler.c:36-42, app.c:64-67).        *)
TypeOK ==
  /\ pc \in {"events", "timed", "timeout", "blocked"}
  /\ now \in Clock /\ newTime \in Clock /\ NewTime \in Clock
  /\ MQTT_Resv_Alarm \in BOOLEAN /\ MQTT_Resv_AlarmTime \in AlarmTimes
  /\ MQTT_Relay_AlarmCount_flag \in BOOLEAN /\ MQTT_Relay_AlarmCount \in Clock
  /\ Relay_PIN \in BOOLEAN /\ unanswered \in BOOLEAN /\ onFor \in 0 .. Period

(***************************************************************************)
(* Whatever the clock reads when a time is remembered, what each of the    *)
(* three measures makes of it later is right (app.c:119, AT_Proc.c:584,    *)
(* main.c:94; MeasuredExact of Clocks says how far).                       *)
(***************************************************************************)
TimesMeasured == MeasuredExact(now)

(***************************************************************************)
(* The relay is switched on at most once for an alarm of the broker: an    *)
(* alarm that is over does not start again by itself.                      *)
(***************************************************************************)
OneAlarmPerMessage == [][~Relay_PIN /\ Relay_PIN' => unanswered]_vars

(***************************************************************************)
(* An alarm that is not cancelled lasts the minutes that were asked for,   *)
(* give or take a pass of the main loop: although the clock wraps, although*)
(* it runs on between its three readings, and although the alarm time may  *)
(* be changed while the relay is on.  Continuous is no number of minutes   *)
(* (NetHandler.c:42), and what the code makes of it not stated.            *)
(***************************************************************************)
AlarmLasts ==
  [][pc = "timeout" /\ pc' = "events"
       /\ Relay_PIN /\ MQTT_Resv_Alarm /\ MQTT_Resv_AlarmTime # Continuous
       => IF Relay_PIN' THEN onFor < MQTT_Resv_AlarmTime * Minute + MaxLag
                        ELSE onFor + MaxLag >= MQTT_Resv_AlarmTime * Minute]_vars

(***************************************************************************)
(* The relay does not stay on, whatever alarms, cancellations and alarm    *)
(* times come while it is on, unless a call of the main loop never returns *)
(* or an alarm for ever is asked for again and again.                      *)
(***************************************************************************)
RelayEnds ==
  <>[](MQTT_Resv_AlarmTime # Continuous) => (Relay_PIN ~> ~Relay_PIN \/ pc = "blocked")

(***************************************************************************)
(* An alarm that finds the relay off switches it on unless the broker      *)
(* cancels it: what an earlier alarm, its end or its cancellation left     *)
(* behind does not swallow it.  Excepted are calls that never return, and  *)
(* the alarm time 0, which asks for no alarm (NetHandler.c:42).            *)
(***************************************************************************)
AlarmHeard ==
  <>[](MQTT_Resv_AlarmTime # 0) => (unanswered ~> ~unanswered \/ pc = "blocked")
=============================================================================
