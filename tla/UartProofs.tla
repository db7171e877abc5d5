----------------------------- MODULE UartProofs -----------------------------
(***************************************************************************)
(* Proofs about the receive buffer, for any size and any time-out.         *)
(***************************************************************************)
EXTENDS Uart, TLAPS

LEMMA Sizes ==
  /\ UART_BUF_SIZE \in Nat /\ UART_BUF_SIZE > 0
  /\ UART_RX_OVER_TIME \in Nat /\ UART_RX_OVER_TIME > 0
BY SizesAssumption

LEMMA TypeInit == Init => TypeOK
<1> SUFFICES ASSUME Init PROVE TypeOK
  OBVIOUS
<1>1. 0 \in TimerValues /\ UART_RX_OVER_TIME \in 0 .. UART_RX_OVER_TIME
  BY Sizes DEF TimerValues, Stopped
<1>2. 0 \in 0 .. UART_BUF_SIZE
  BY Sizes
<1>3. Buf \in [Cells -> {"NUL", "byte"}]
  BY DEF Init
<1> QED
  BY <1>1, <1>2, <1>3 DEF Init, TypeOK

(* A byte is stored only below the end of the buffer.                      *)
LEMMA TypeByte == TypeOK /\ UART0_IRQHandler => TypeOK'
<1> SUFFICES ASSUME TypeOK, UART0_IRQHandler PROVE TypeOK'
  OBVIOUS
<1> USE Sizes DEF TimerValues, Stopped, Cells
<1>1. UNCHANGED <<main, wipe, loadedTimer, loadedRxOK, isr, isrTimer, isrRxOK>>
  BY DEF UART0_IRQHandler, mainRegs, isrRegs
<1>2. quiet' \in 0 .. UART_RX_OVER_TIME /\ inTheClear' \in BOOLEAN
  BY DEF UART0_IRQHandler
<1>3. /\ RxOK' \in BOOLEAN /\ u8Timer' \in TimerValues
      /\ u8Count' \in 0 .. UART_BUF_SIZE /\ Buf' \in [Cells -> {"NUL", "byte"}]
  <2>1. CASE Full(u8Count)
    BY <2>1 DEF UART0_IRQHandler, TypeOK
  <2>2. CASE ~Full(u8Count)
    <3>1. /\ RxOK' = FALSE /\ u8Timer' = 0
          /\ Buf' = [Buf EXCEPT ![u8Count] = "byte"] /\ u8Count' = u8Count + 1
      BY <2>2 DEF UART0_IRQHandler, TimerAfterByte
    <3>2. u8Count + 1 \in 0 .. UART_BUF_SIZE /\ 0 \in TimerValues
      BY <2>2 DEF Full, TypeOK
    <3>3. Buf' \in [Cells -> {"NUL", "byte"}]
      <4>1. Buf \in [Cells -> {"NUL", "byte"}]
        BY DEF TypeOK
      <4> HIDE DEF Cells
      <4> QED
        BY <3>1, <4>1
    <3> QED
      BY <3>1, <3>2, <3>3
  <2> QED
    BY <2>1, <2>2
<1> QED
  BY <1>1, <1>2, <1>3 DEF TypeOK

LEMMA TypeMain == TypeOK /\ (StartClearing \/ clearUart) => TypeOK'
<1> SUFFICES ASSUME TypeOK, StartClearing \/ clearUart PROVE TypeOK'
  OBVIOUS
<1> USE Sizes DEF TypeOK, TimerValues, Stopped, Cells, flags, isrRegs, history
<1>1. CASE StartClearing
  BY <1>1 DEF StartClearing
<1>2. CASE LoadForRxOK \/ StoreRxOK
  BY <1>2 DEF LoadForRxOK, StoreRxOK
<1>3. CASE ZeroCount
  BY <1>3 DEF ZeroCount
<1>4. CASE LoadForTimer \/ StoreTimer
  BY <1>4 DEF LoadForTimer, StoreTimer
<1>5. CASE ZeroBuffer
  BY <1>5 DEF ZeroBuffer
<1> QED
  BY <1>1, <1>2, <1>3, <1>4, <1>5 DEF clearUart

LEMMA TypeTimer == TypeOK /\ TIMER2_IRQHandler => TypeOK'
<1> SUFFICES ASSUME TypeOK, TIMER2_IRQHandler PROVE TypeOK'
  OBVIOUS
<1> USE Sizes DEF TypeOK, TimerValues, Stopped, flags, mainRegs, history
<1>1. CASE TimerTick
  <2>1. /\ isr' \in {"idle", "count", "stop"}
        /\ isr' = "count" => u8Timer < UART_RX_OVER_TIME
    BY <1>1 DEF TimerTick
  <2>2. quiet' \in 0 .. UART_RX_OVER_TIME
    BY <1>1 DEF TimerTick
  <2> QED
    BY <1>1, <2>1, <2>2 DEF TimerTick
<1>2. CASE TimerCount
  BY <1>2 DEF TimerCount
<1>3. CASE TimerStop
  BY <1>3 DEF TimerStop
<1>4. CASE TimerLoad \/ TimerDone
  BY <1>4 DEF TimerLoad, TimerDone
<1> QED
  BY <1>1, <1>2, <1>3, <1>4 DEF TIMER2_IRQHandler

LEMMA TypeStep == TypeOK /\ [Next]_vars => TypeOK'
<1>1. TypeOK /\ UNCHANGED vars => TypeOK'
  BY DEF vars, flags, mainRegs, isrRegs, history, TypeOK
<1> QED
  BY <1>1, TypeByte, TypeMain, TypeTimer DEF Next
-----------------------------------------------------------------------------
(***************************************************************************)
(* While the last byte is one that came in the clear, every copy of the    *)
(* timer, in stUart or loaded by either context, is at most the time that  *)
(* has passed, so that it does not run out early; and every copy of RxOK   *)
(* that says "complete" has a reason, which for a full buffer ends when    *)
(* the main loop zeroes the count, after it has cleared RxOK.              *)
(***************************************************************************)
Silent == quiet = UART_RX_OVER_TIME

Complete ==
  Silent \/ (u8Count = UART_BUF_SIZE /\ main \in {"idle", "loadForRxOK", "storeRxOK"})

TimersBehind ==
  /\ u8Timer # Stopped => u8Timer <= quiet
  /\ main = "storeRxOK" /\ loadedTimer # Stopped => loadedTimer <= quiet
  /\ isr = "count" => isrTimer + 1 <= quiet
  /\ isr \in {"stop", "loadForDone", "done"} => Silent

ReportsFounded ==
  /\ RxOK => Complete
  /\ isr # "idle" /\ isrRxOK => Complete
  /\ main = "storeTimer" /\ loadedRxOK => Silent

ClearInv == inTheClear => TimersBehind /\ ReportsFounded

IInv == TypeOK /\ ClearInv

LEMMA ClearByte == IInv /\ UART0_IRQHandler => ClearInv'
<1> SUFFICES ASSUME IInv, UART0_IRQHandler, main = "idle", isr = "idle" PROVE ClearInv'
  BY DEF UART0_IRQHandler, ClearInv
<1> USE Sizes
<1>1. main' = "idle" /\ isr' = "idle" /\ quiet' = 0
  BY DEF UART0_IRQHandler, mainRegs, isrRegs
<1>2. CASE Full(u8Count)
  <2>1. u8Count' = UART_BUF_SIZE /\ u8Timer' = Stopped
    BY <1>2 DEF UART0_IRQHandler, Full, IInv, TypeOK
  <2> QED
    BY <1>1, <2>1 DEF ClearInv, TimersBehind, ReportsFounded, Complete, Silent
<1>3. CASE ~Full(u8Count)
  <2>1. RxOK' = FALSE /\ u8Timer' = 0
    BY <1>3 DEF UART0_IRQHandler, TimerAfterByte
  <2> QED
    BY <1>1, <2>1 DEF ClearInv, TimersBehind, ReportsFounded, Complete, Silent
<1> QED
  BY <1>2, <1>3

LEMMA ClearMain == IInv /\ (StartClearing \/ clearUart) => ClearInv'
<1> SUFFICES ASSUME IInv, StartClearing \/ clearUart, inTheClear PROVE ClearInv'
  BY DEF StartClearing, clearUart, LoadForRxOK, StoreRxOK, ZeroCount, LoadForTimer, StoreTimer,
         ZeroBuffer, history, ClearInv
<1>1. TimersBehind /\ ReportsFounded /\ TypeOK
  BY DEF IInv, ClearInv
<1>2. UNCHANGED <<isr, isrTimer, isrRxOK, quiet>> /\ isr = "idle"
  BY DEF StartClearing, clearUart, LoadForRxOK, StoreRxOK, ZeroCount, LoadForTimer, StoreTimer,
         ZeroBuffer, history, isrRegs, MainRuns
<1> USE <1>1, <1>2 DEF ClearInv, TimersBehind, ReportsFounded, Complete, Silent, flags
<1>3. CASE StartClearing
  BY <1>3 DEF StartClearing
<1>4. CASE LoadForRxOK
  BY <1>4 DEF LoadForRxOK
<1>5. CASE StoreRxOK
  BY <1>5 DEF StoreRxOK
<1>6. CASE ZeroCount
  BY <1>6 DEF ZeroCount
<1>7. CASE LoadForTimer
  BY <1>7 DEF LoadForTimer
<1>8. CASE StoreTimer
  BY <1>8 DEF StoreTimer
<1>9. CASE ZeroBuffer
  BY <1>9 DEF ZeroBuffer
<1> QED
  BY <1>3, <1>4, <1>5, <1>6, <1>7, <1>8, <1>9 DEF clearUart

LEMMA ClearTimer == IInv /\ TIMER2_IRQHandler => ClearInv'
<1> SUFFICES ASSUME IInv, TIMER2_IRQHandler, inTheClear PROVE ClearInv'
  BY DEF TIMER2_IRQHandler, TimerTick, TimerCount, TimerStop, TimerLoad, TimerDone, history, ClearInv
<1>1. TimersBehind /\ ReportsFounded /\ TypeOK
  BY DEF IInv, ClearInv
<1>2. UNCHANGED <<main, loadedTimer, loadedRxOK, u8Count>>
  BY DEF TIMER2_IRQHandler, TimerTick, TimerCount, TimerStop, TimerLoad, TimerDone, mainRegs
<1> USE Sizes, <1>1, <1>2
    DEF ClearInv, TimersBehind, ReportsFounded, Complete, Silent, flags, history, TypeOK,
        TimerValues, Stopped
<1>3. CASE TimerTick
  <2>1. UNCHANGED <<RxOK, u8Timer>> /\ isrTimer' = u8Timer /\ isrRxOK' = RxOK
    BY <1>3 DEF TimerTick
  <2>2. /\ quiet <= quiet' /\ quiet' <= UART_RX_OVER_TIME
        /\ quiet' = UART_RX_OVER_TIME \/ quiet' = quiet + 1
    BY <1>3 DEF TimerTick
  <2>3. /\ isr' = "count" => u8Timer < UART_RX_OVER_TIME
        /\ isr' \in {"stop", "loadForDone", "done"} => u8Timer = UART_RX_OVER_TIME
    BY <1>3 DEF TimerTick
  <2>4. TimersBehind'
    BY <2>1, <2>2, <2>3
  <2>5. ReportsFounded'
    BY <2>1, <2>2
  <2> QED
    BY <2>4, <2>5
<1>4. CASE TimerCount
  BY <1>4 DEF TimerCount
<1>5. CASE TimerStop
  BY <1>5 DEF TimerStop
<1>6. CASE TimerLoad
  BY <1>6 DEF TimerLoad
<1>7. CASE TimerDone
  BY <1>7 DEF TimerDone
<1> QED
  BY <1>3, <1>4, <1>5, <1>6, <1>7 DEF TIMER2_IRQHandler

LEMMA Invariant == Spec => []IInv
<1>1. Init => IInv
  BY TypeInit DEF Init, IInv, ClearInv
<1>2. IInv /\ [Next]_vars => IInv'
  <2>1. IInv /\ UNCHANGED vars => ClearInv'
    BY DEF vars, flags, mainRegs, isrRegs, history, IInv, ClearInv, TimersBehind, ReportsFounded,
           Complete, Silent
  <2> QED
    BY <2>1, TypeStep, ClearByte, ClearMain, ClearTimer DEF Next, IInv
<1> QED
  BY <1>1, <1>2, PTL DEF Spec
-----------------------------------------------------------------------------
(* No byte is stored beyond the buffer, whatever its size and however the  *)
(* three contexts interleave (Uart.c:154).                                 *)
THEOREM TypeCorrect == Spec => []TypeOK
<1>1. IInv => TypeOK
  BY DEF IInv
<1> QED
  BY <1>1, Invariant, PTL

(* RxOK reports a frame whose last byte came in the clear only after the   *)
(* time-out, or because the buffer is full (nrf_it.c:188, Uart.c:154).     *)
THEOREM CompleteMeansQuietHolds == Spec => []CompleteMeansQuiet
<1>1. IInv => CompleteMeansQuiet
  BY DEF IInv, ClearInv, ReportsFounded, Complete, Silent, CompleteMeansQuiet
<1> QED
  BY <1>1, Invariant, PTL
=============================================================================
