---------------------------- MODULE RelayProofs ----------------------------
(***************************************************************************)
(* Proofs about the clock and the alarm relay, for a clock of any width    *)
(* and any alarm times that end before it has gone round: the measures of  *)
(* time, types, one alarm for a message, and how long an alarm lasts.      *)
(***************************************************************************)
EXTENDS Relay, TLAPS

(* The ticks since the main loop last read the clock for the time-out, and *)
(* since the reading remembered for the alarm.                             *)
Lag == Subtraction(now, NewTime)
Age == Subtraction(now, MQTT_Relay_AlarmCount)

(* The pass of the main loop: its first reading is not older than the last *)
(* of the pass before, which is at most MaxLag old.  A blocked main loop   *)
(* reads the clock no more.                                                *)
Paced ==
  /\ pc # "blocked" => Lag <= MaxLag
  /\ pc = "timed" => Subtraction(now, newTime) <= Lag

(* The flag is up just while the relay is on, and its time was taken at    *)
(* most a pass before; an alarm ends before the clock has gone round.      *)
AlarmInv ==
  /\ MQTT_Relay_AlarmCount_flag <=> Relay_PIN
  /\ Relay_PIN /\ pc # "blocked" =>
       /\ Lag <= Age /\ onFor <= Age /\ Age <= onFor + MaxLag
       /\ Age - Lag + MaxLag < Period
       /\ pc # "timeout" => Age - Lag + 2 * MaxLag < Period

(* An alarm that is asked for while the relay is off is a new one.         *)
Answered == ~Relay_PIN /\ MQTT_Resv_Alarm => unanswered

IInv == TypeOK /\ Paced /\ AlarmInv /\ Answered
-----------------------------------------------------------------------------
(* Subtraction across a tick, and of a reading in between.                 *)
LEMMA ClockSize == 0 \in Clock /\ 0 \in 0 .. Period /\ Clock \subseteq Nat /\ Period \in Nat \ {0}
BY PeriodAssumption DEF Clock

LEMMA SubtractionInClock ==
  ASSUME NEW new \in Clock, NEW old \in Clock
  PROVE  Subtraction(new, old) \in Clock /\ Subtraction(new, new) = 0
BY PeriodAssumption DEF Clock, Subtraction

LEMMA SubtractionTicks ==
  ASSUME NEW t \in Clock, NEW old \in Clock, Subtraction(t, old) < Period - 1
  PROVE  NextTick(t) \in Clock /\ Subtraction(NextTick(t), old) = Subtraction(t, old) + 1
BY PeriodAssumption DEF Clock, Subtraction, NextTick

LEMMA SubtractionBetween ==
  ASSUME NEW t \in Clock, NEW mid \in Clock, NEW old \in Clock,
         Subtraction(t, mid) <= Subtraction(t, old)
  PROVE  Subtraction(mid, old) = Subtraction(t, old) - Subtraction(t, mid)
BY PeriodAssumption DEF Clock, Subtraction

LEMMA EndsInTime ==
  ASSUME NEW t \in AlarmTimes
  PROVE  t * Minute \in Nat /\ t * Minute + 2 * MaxLag < Period
         /\ MaxLag \in Nat \ {0} /\ 2 * MaxLag < Period
<1>1. t \in Nat /\ Minute \in Nat /\ MaxLag \in Nat \ {0} /\ Period \in Nat
  BY RelayAssumption, PeriodAssumption
<1>2. t * Minute \in Nat
  BY <1>1
<1>3. t * Minute + 2 * MaxLag < Period
  BY RelayAssumption
<1> QED
  BY <1>1, <1>2, <1>3
-----------------------------------------------------------------------------
LEMMA InvInit == Init => IInv
<1> SUFFICES ASSUME Init PROVE IInv
  OBVIOUS
<1>1. TypeOK
  BY ClockSize DEF Init, TypeOK
<1>2. Lag = 0
  BY ClockSize, SubtractionInClock DEF Init, Lag
<1>3. Paced /\ AlarmInv /\ Answered
  <2>1. MaxLag \in Nat
    BY RelayAssumption
  <2> QED
    BY <1>2, <2>1 DEF Init, Paced, AlarmInv, Answered
<1> QED
  BY <1>1, <1>3 DEF IInv

(* What a step of the invariant starts from.                               *)
LEMMA Facts ==
  ASSUME IInv
  PROVE  /\ Period \in Nat \ {0} /\ MaxLag \in Nat \ {0} /\ 2 * MaxLag < Period
         /\ now \in Clock /\ newTime \in Clock /\ NewTime \in Clock
         /\ MQTT_Relay_AlarmCount \in Clock
         /\ Lag \in Nat /\ Age \in Nat /\ onFor \in 0 .. Period
         /\ Lag < Period /\ Age < Period
<1>1. TypeOK
  BY DEF IInv
<1>2. MaxLag \in Nat \ {0} /\ 2 * MaxLag < Period
  BY <1>1, EndsInTime DEF TypeOK
<1>3. Lag \in Clock /\ Age \in Clock
  BY <1>1, SubtractionInClock DEF TypeOK, Lag, Age
<1> QED
  BY <1>1, <1>2, <1>3, ClockSize DEF TypeOK, Clock

LEMMA InvMessage == IInv /\ MessageArrived => IInv'
<1> SUFFICES ASSUME IInv, MessageArrived PROVE IInv'
  OBVIOUS
<1>1. UNCHANGED <<pc, now, newTime, NewTime, alarm, onFor>>
  BY DEF MessageArrived
<1>2. TypeOK'
  BY <1>1 DEF MessageArrived, IInv, TypeOK, alarm
<1>3. Paced' /\ AlarmInv'
  BY <1>1 DEF IInv, Paced, AlarmInv, Lag, Age, alarm
<1>4. Answered'
  <2>1. CASE unanswered' = (MQTT_Resv_Alarm' /\ (unanswered \/ ~Relay_PIN)) /\ UNCHANGED Relay_PIN
    BY <2>1 DEF Answered
  <2>2. CASE UNCHANGED <<MQTT_Resv_Alarm, unanswered, Relay_PIN>>
    BY <2>2 DEF IInv, Answered
  <2> QED
    BY <1>1, <2>1, <2>2 DEF MessageArrived, alarm
<1> QED
  BY <1>2, <1>3, <1>4 DEF IInv

LEMMA InvRead == IInv /\ (EventsDone \/ PassAlarm) => IInv'
<1> SUFFICES ASSUME IInv, EventsDone \/ PassAlarm PROVE IInv'
  OBVIOUS
<1>1. UNCHANGED <<now, asked, alarm, unanswered, onFor>>
  BY DEF EventsDone, PassAlarm
<1>2. TypeOK' /\ Answered'
  BY <1>1 DEF EventsDone, PassAlarm, IInv, TypeOK, Answered, asked, alarm
<1>3. CASE EventsDone
  <2>1. UNCHANGED Lag /\ UNCHANGED Age /\ Subtraction(now', newTime') = 0
    BY <1>1, <1>3, Facts, SubtractionInClock DEF EventsDone, Lag, Age, alarm
  <2>2. pc = "events" /\ pc' = "timed"
    BY <1>3 DEF EventsDone
  <2> QED
    BY <1>1, <1>2, <2>1, <2>2, Facts DEF IInv, Paced, AlarmInv, alarm
<1>4. CASE PassAlarm
  <2>1. Lag' = 0 /\ UNCHANGED Age /\ pc = "timed" /\ pc' = "timeout"
    BY <1>1, <1>4, Facts, SubtractionInClock DEF PassAlarm, Lag, Age, alarm
  <2> QED
    BY <1>1, <1>2, <2>1, Facts DEF IInv, Paced, AlarmInv, alarm
<1> QED
  BY <1>3, <1>4

LEMMA InvStart == IInv /\ StartAlarm => IInv'
<1> SUFFICES ASSUME IInv, StartAlarm PROVE IInv'
  OBVIOUS
<1>1. /\ Relay_PIN' = TRUE /\ MQTT_Relay_AlarmCount_flag' = TRUE
      /\ MQTT_Relay_AlarmCount' = newTime /\ NewTime' = now
      /\ unanswered' = FALSE /\ onFor' = 0 /\ pc = "timed" /\ pc' = "timeout"
      /\ UNCHANGED <<now, newTime, asked>>
  BY DEF StartAlarm
<1>2. TypeOK'
  BY <1>1, ClockSize DEF IInv, TypeOK, asked
<1>3. Lag' = 0
  BY <1>1, Facts, SubtractionInClock DEF Lag
<1>4. Age' <= MaxLag /\ Age' \in Nat
  <2>1. Age' = Subtraction(now, newTime)
    BY <1>1 DEF Age
  <2>2. Subtraction(now, newTime) \in Nat
    BY Facts, SubtractionInClock, ClockSize
  <2>3. Subtraction(now, newTime) <= Lag /\ Lag <= MaxLag
    BY <1>1 DEF IInv, Paced
  <2> QED
    BY <2>1, <2>2, <2>3, Facts
<1> QED
  BY <1>1, <1>2, <1>3, <1>4, Facts DEF IInv, Paced, AlarmInv, Answered

(* The time-out task compares the age that the alarm had when it read the  *)
(* clock.                                                                  *)
LEMMA Compared ==
  ASSUME IInv, Relay_PIN, pc # "blocked"
  PROVE  TimeIsUp <=> Age - Lag >= MQTT_Resv_AlarmTime * Minute
<1>1. MQTT_Relay_AlarmCount_flag /\ Lag <= Age
  BY DEF IInv, AlarmInv
<1>2. Subtraction(NewTime, MQTT_Relay_AlarmCount) = Age - Lag
  BY <1>1, Facts, SubtractionBetween DEF Lag, Age
<1> QED
  BY <1>1, <1>2 DEF TimeIsUp

LEMMA InvTimeOut == IInv /\ Realy_TimeOutTask => IInv'
<1> SUFFICES ASSUME IInv, Realy_TimeOutTask PROVE IInv'
  OBVIOUS
<1>1. /\ pc = "timeout" /\ pc' = "events"
      /\ UNCHANGED <<now, newTime, NewTime, MQTT_Resv_AlarmTime, MQTT_Relay_AlarmCount, unanswered>>
      /\ UNCHANGED Lag /\ UNCHANGED Age
  BY DEF Realy_TimeOutTask, Lag, Age
<1>2. TimeIsUp \in BOOLEAN
  BY DEF TimeIsUp
<1>3. /\ MQTT_Resv_Alarm' = (MQTT_Resv_Alarm /\ ~TimeIsUp)
      /\ MQTT_Relay_AlarmCount_flag' = (MQTT_Relay_AlarmCount_flag /\ ~TimeIsUp /\ MQTT_Resv_Alarm)
      /\ Relay_PIN' = (Relay_PIN /\ ~TimeIsUp /\ MQTT_Resv_Alarm /\ ~TimeIsUp)
      /\ onFor' = IF Relay_PIN' THEN onFor ELSE 0
  BY DEF Realy_TimeOutTask, AlarmLeft, FlagLeft
<1>4. TypeOK'
  <2>1. onFor' \in 0 .. Period
    BY <1>3, Facts
  <2> QED
    BY <1>1, <1>2, <1>3, <2>1 DEF IInv, TypeOK
<1>5. Paced'
  BY <1>1 DEF IInv, Paced
<1>6. AlarmInv'
  <2>1. MQTT_Relay_AlarmCount_flag' <=> Relay_PIN'
    BY <1>2, <1>3 DEF IInv, AlarmInv
  <2>2. ASSUME Relay_PIN' PROVE Age - Lag + 2 * MaxLag < Period
    <3>1. Relay_PIN /\ ~TimeIsUp
      BY <1>3, <2>2
    <3>2. ~(Age - Lag >= MQTT_Resv_AlarmTime * Minute)
      BY <1>1, <3>1, Compared
    <3>3. /\ MQTT_Resv_AlarmTime * Minute \in Nat
          /\ MQTT_Resv_AlarmTime * Minute + 2 * MaxLag < Period
      BY EndsInTime DEF IInv, TypeOK
    <3> HIDE DEF TimeIsUp
    <3> QED
      BY <3>2, <3>3, Facts
  <2> QED
    BY <1>1, <1>3, <2>1, <2>2 DEF IInv, AlarmInv
<1>7. Answered'
  BY <1>1, <1>2, <1>3 DEF IInv, Answered
<1> QED
  BY <1>4, <1>5, <1>6, <1>7 DEF IInv

(* A main loop that is blocked: of the relay nothing is said but its flag. *)
LEMMA InvBlocked ==
  IInv /\ (NeverReturns \/ (Tick /\ pc = "blocked")) => IInv'
<1> SUFFICES ASSUME IInv, NeverReturns \/ (Tick /\ pc = "blocked") PROVE IInv'
  OBVIOUS
<1>1. pc' = "blocked" /\ UNCHANGED <<newTime, NewTime, asked, alarm, unanswered>>
  BY DEF NeverReturns, Tick
<1>2. now' \in Clock
  BY Facts, ClockSize DEF NeverReturns, Tick, NextTick, Clock
<1>3. onFor' \in 0 .. Period
  BY Facts DEF NeverReturns, Tick
<1>4. TypeOK' /\ Answered'
  BY <1>1, <1>2, <1>3 DEF IInv, TypeOK, Answered, asked, alarm
<1>5. Paced' /\ AlarmInv'
  BY <1>1 DEF IInv, Paced, AlarmInv, alarm
<1> QED
  BY <1>4, <1>5 DEF IInv

LEMMA InvTick == IInv /\ Tick /\ pc # "blocked" => IInv'
<1> SUFFICES ASSUME IInv, Tick, pc # "blocked" PROVE IInv'
  OBVIOUS
<1>1. /\ Lag < MaxLag /\ now' = NextTick(now)
      /\ onFor' = IF Relay_PIN /\ onFor < Period THEN onFor + 1 ELSE onFor
      /\ UNCHANGED <<pc, newTime, NewTime, asked, alarm, unanswered>>
  BY DEF Tick, Lag
<1>2. Lag' = Lag + 1 /\ now' \in Clock
  BY <1>1, Facts, SubtractionTicks DEF Lag
<1>3. onFor' \in 0 .. Period
  BY <1>1, Facts
<1>4. TypeOK' /\ Answered'
  BY <1>1, <1>2, <1>3 DEF IInv, TypeOK, Answered, asked, alarm
<1>5. Paced'
  <2>1. ASSUME pc = "timed" PROVE Subtraction(now', newTime') = Subtraction(now, newTime) + 1
    <3>1. Subtraction(now, newTime) <= Lag /\ Subtraction(now, newTime) \in Clock
      BY <2>1, Facts, SubtractionInClock DEF IInv, Paced
    <3>2. Subtraction(now, newTime) < Period - 1
      BY <1>1, <3>1, Facts DEF Clock
    <3> QED
      BY <1>1, <3>2, Facts, SubtractionTicks
  <2>2. pc = "timed" => Subtraction(now, newTime) <= Lag /\ Subtraction(now, newTime) \in Nat
    BY Facts, SubtractionInClock DEF IInv, Paced, Clock
  <2> QED
    BY <1>1, <1>2, <2>1, <2>2, Facts DEF Paced
<1>6. AlarmInv'
  <2>1. ASSUME Relay_PIN PROVE Age' = Age + 1
    <3>1. Age < Period - 1
      BY <1>1, <2>1, Facts DEF IInv, AlarmInv
    <3> QED
      BY <1>1, <3>1, Facts, SubtractionTicks DEF Age, alarm
  <2>2. ASSUME Relay_PIN PROVE onFor' = onFor + 1
    BY <1>1, <2>2, Facts DEF IInv, AlarmInv
  <2> QED
    BY <1>1, <1>2, <2>1, <2>2, Facts DEF IInv, AlarmInv, alarm
<1> QED
  BY <1>4, <1>5, <1>6 DEF IInv

LEMMA InvNext == IInv /\ [Next]_vars => IInv'
<1>1. ASSUME IInv, UNCHANGED vars PROVE IInv'
  BY <1>1 DEF vars, asked, alarm, IInv, TypeOK, Paced, AlarmInv, Answered, Lag, Age
<1>2. IInv /\ Tick => IInv'
  BY InvBlocked, InvTick
<1>3. IInv /\ NeverReturns => IInv'
  BY InvBlocked
<1> QED
  BY <1>1, <1>2, <1>3, InvMessage, InvRead, InvStart, InvTimeOut DEF Next, TimedBlock

LEMMA Invariant == Spec => []IInv
BY InvInit, InvNext, PTL DEF Spec
-----------------------------------------------------------------------------
(* Every variable keeps its type.                                          *)
THEOREM TypeCorrect == Spec => []TypeOK
<1>1. IInv => TypeOK
  BY DEF IInv
<1> QED
  BY <1>1, Invariant, PTL

(* The three measures of time are right across the wrap: the unsigned      *)
(* subtraction exactly, the others up to the tick that 0xFFFFFFFF loses    *)
(* (app.c:119, AT_Proc.c:584, main.c:94).                                  *)
THEOREM TimesMeasuredHolds == Spec => []TimesMeasured
<1>1. ASSUME NEW start \in Clock, NEW age \in Clock
      PROVE  DifferenceExact(start, age) /\ CompareExact(start, age) /\ SubtractionExact(start, age)
  <2>1. DifferenceExact(start, age)
    BY PeriodAssumption DEF Clock, DifferenceExact, TimeDifference, After
  <2>2. CompareExact(start, age)
    BY PeriodAssumption DEF Clock, CompareExact, CompareTime, After
  <2>3. SubtractionExact(start, age)
    BY PeriodAssumption DEF Clock, SubtractionExact, Subtraction, After
  <2> QED
    BY <2>1, <2>2, <2>3
<1>2. IInv => TimesMeasured
  BY <1>1 DEF IInv, TypeOK, TimesMeasured, MeasuredExact
<1> QED
  BY <1>2, Invariant, PTL

(* The relay is switched on once for an alarm of the broker (app.c:478-484,*)
(* main.c:94-105): one that is over or cancelled does not start again.     *)
THEOREM OneAlarmPerMessageHolds == Spec => OneAlarmPerMessage
<1>1. IInv /\ [Next]_vars => [~Relay_PIN /\ Relay_PIN' => unanswered]_vars
  <2> SUFFICES ASSUME IInv, Next, ~Relay_PIN, Relay_PIN' PROVE unanswered
    OBVIOUS
  <2>1. StartAlarm
    BY DEF Next, TimedBlock, MessageArrived, EventsDone, PassAlarm, Realy_TimeOutTask, NeverReturns,
      Tick, alarm
  <2> QED
    BY <2>1 DEF StartAlarm, Starts, IInv, Answered
<1> QED
  BY <1>1, Invariant, PTL DEF Spec, OneAlarmPerMessage

(* An alarm lasts the minutes that were asked for, give or take a pass of  *)
(* the main loop, for any number of them that ends before the clock has    *)
(* gone round.                                                             *)
THEOREM AlarmLastsHolds == Spec => AlarmLasts
<1>1. IInv /\ [Next]_vars
        => [pc = "timeout" /\ pc' = "events"
             /\ Relay_PIN /\ MQTT_Resv_Alarm /\ MQTT_Resv_AlarmTime # Continuous
             => IF Relay_PIN' THEN onFor < MQTT_Resv_AlarmTime * Minute + MaxLag
                              ELSE onFor + MaxLag >= MQTT_Resv_AlarmTime * Minute]_vars
  <2> SUFFICES ASSUME IInv, Next, pc = "timeout", pc' = "events", Relay_PIN, MQTT_Resv_Alarm
               PROVE  IF Relay_PIN' THEN onFor < MQTT_Resv_AlarmTime * Minute + MaxLag
                                    ELSE onFor + MaxLag >= MQTT_Resv_AlarmTime * Minute
    OBVIOUS
  <2>1. Realy_TimeOutTask
    BY DEF Next, TimedBlock, MessageArrived, EventsDone, StartAlarm, PassAlarm, NeverReturns, Tick
  <2>2. Relay_PIN' <=> ~(Age - Lag >= MQTT_Resv_AlarmTime * Minute)
    BY <2>1, Compared DEF Realy_TimeOutTask, AlarmLeft
  <2>3. MQTT_Resv_AlarmTime * Minute \in Nat
    BY EndsInTime DEF IInv, TypeOK
  <2>4. Lag <= MaxLag /\ onFor <= Age /\ Age <= onFor + MaxLag
    BY DEF IInv, Paced, AlarmInv
  <2> QED
    BY <2>2, <2>3, <2>4, Facts
<1> QED
  BY <1>1, Invariant, PTL DEF Spec, AlarmLasts
=============================================================================
