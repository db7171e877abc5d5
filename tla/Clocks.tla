------------------------------- MODULE Clocks -------------------------------
(***************************************************************************)
(* The system clock SystemNowtime (10 ms ticks, 32 bits) and the three     *)
(* ways the code measures a time passed: TimeDifference of the scheduler,  *)
(* CompareTime of the modem's commands, and the plain subtraction of the   *)
(* relay and of the sensor store.                                          *)
(***************************************************************************)
EXTENDS Naturals

CONSTANT Period      (* the clock counts modulo Period; 2^32               *)

ASSUME PeriodAssumption == Period \in Nat \ {0}

Clock == 0 .. Period - 1

(* SystemNowtime++ of TIMER2_IRQHandler.                                   *)
NextTick(t) == IF t = Period - 1 THEN 0 ELSE t + 1

(* The reading of the clock age ticks after it read start: less than a     *)
(* whole round of it later.                                                *)
After(start, age) == IF start + age < Period THEN start + age ELSE start + age - Period
-----------------------------------------------------------------------------
(* 0xFFFFFFFF is Period - 1.  Fault: 0 is taken for Period.                *)
TimeDifference_NoWrap(newtime, oldtime) ==
  IF newtime > oldtime THEN newtime - oldtime ELSE newtime
TimeDifference(newtime, oldtime) ==
  IF newtime > oldtime THEN newtime - oldtime ELSE newtime + (Period - 1 - oldtime)

(* What CompareTime compares with TimeInter.                               *)
CompareTime(nowtime, TimeStart) ==
  IF nowtime >= TimeStart THEN nowtime - TimeStart ELSE nowtime + (Period - 1 - TimeStart)

(* Unsigned subtraction.                                                   *)
Subtraction(new, old) == IF new >= old THEN new - old ELSE new + Period - old
-----------------------------------------------------------------------------
(* TimeDifference (app.c:119-125), once a tick has passed: of a time and   *)
(* itself it makes a whole round (Elapsed of EventLoop).                   *)
DifferenceExact(start, age) ==
  age > 0 =>
    LET d == TimeDifference(After(start, age), start)
    IN  d <= age /\ age <= d + 1 /\ (start < After(start, age) => d = age)

(* CompareTime (AT_Proc.c:584-593): the same, and exact at once.           *)
CompareExact(start, age) ==
  LET d == CompareTime(After(start, age), start)
  IN  d <= age /\ age <= d + 1 /\ (start <= After(start, age) => d = age)

(* The unsigned subtraction (main.c:94, nrf24l01+.c:314).                  *)
SubtractionExact(start, age) == Subtraction(After(start, age), start) = age

(***************************************************************************)
(* Across the wrap of the clock none of the three ways to measure a time   *)
(* makes anything due early, and none is late by more than the one tick    *)
(* that 0xFFFFFFFF loses; the unsigned subtraction loses none.             *)
(***************************************************************************)
MeasuredExact(start) ==
  \A age \in Clock :
    DifferenceExact(start, age) /\ CompareExact(start, age) /\ SubtractionExact(start, age)
=============================================================================
