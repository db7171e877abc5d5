-------------------------------- MODULE Uart --------------------------------
(***************************************************************************)
(* The receive buffer stUart, shared without any lock by the main loop     *)
(* (clearUart, and ATRec and MQTT_GPRS_ResvData that take a frame), the    *)
(* 1 ms timer interrupt TIMER2 (priority 3) that ends a frame, and the     *)
(* UART interrupt (priority 1) that stores a byte.                         *)
(*                                                                         *)
(* RxOK:1 and u8Timer:7 share one byte of memory, so that an assignment to *)
(* either is a load of both followed by a store of both.  An interrupt may *)
(* come between the two steps: the UART's at any time, TIMER2's while the  *)
(* main loop runs.  The order of the stores is that of the source.         *)
(***************************************************************************)
EXTENDS Naturals

CONSTANTS
  UART_BUF_SIZE,       (* 180 in Uart.h:25                                 *)
  UART_RX_OVER_TIME    (* 30 in nrf_it.c:147                               *)

ASSUME SizesAssumption ==
  /\ UART_BUF_SIZE \in Nat \ {0}
  /\ UART_RX_OVER_TIME \in Nat \ {0}

Stopped == UART_RX_OVER_TIME + 1      (* 0x7F, above every running value   *)
TimerValues == 0 .. Stopped
Cells == 0 .. UART_BUF_SIZE - 1

VARIABLES
  RxOK, u8Timer,     (* the byte that holds both bit fields                *)
  u8Count, Buf,      (* Buf[i]: "NUL" or "byte"                            *)
  main,              (* what the main loop does next with stUart           *)
  wipe,              (* the buffer is to be zeroed too (clearUart)         *)
  loadedTimer,       (* u8Timer as the main loop loaded it                 *)
  loadedRxOK,        (* RxOK as the main loop loaded it                    *)
  isr,               (* what TIMER2_IRQHandler does next                   *)
  isrTimer, isrRxOK, (* the two fields as TIMER2_IRQHandler loaded them    *)
  quiet,             (* history: ms since the last byte, up to the limit   *)
  inTheClear         (* history: no clearing ran when the last byte came   *)

flags    == <<RxOK, u8Timer>>
mainRegs == <<main, wipe, loadedTimer, loadedRxOK>>
isrRegs  == <<isr, isrTimer, isrRxOK>>
history  == <<quiet, inTheClear>>
vars     == <<flags, u8Count, Buf, mainRegs, isrRegs, history>>

MainRuns == isr = "idle"      (* TIMER2 preempts the main loop             *)
-----------------------------------------------------------------------------
(***************************************************************************)
(* The main loop: clearUart at any time (ATSend), or a frame taken when    *)
(* RxOK says one is complete (ATRec; MQTT_GPRS_ResvData wipes the buffer   *)
(* as well).                                                               *)
(***************************************************************************)
StartClearing ==
  /\ MainRuns /\ main = "idle"
  /\ main' = "loadForRxOK"
  /\ \/ wipe' = TRUE
     \/ wipe' = FALSE /\ RxOK
  /\ UNCHANGED <<flags, u8Count, Buf, loadedTimer, loadedRxOK, isrRegs, history>>

(* stUart.RxOK = 0                                                         *)
LoadForRxOK ==
  /\ MainRuns /\ main = "loadForRxOK"
  /\ loadedTimer' = u8Timer
  /\ main' = "storeRxOK"
  /\ UNCHANGED <<flags, u8Count, Buf, wipe, loadedRxOK, isrRegs, history>>

StoreRxOK ==
  /\ MainRuns /\ main = "storeRxOK"
  /\ RxOK' = FALSE /\ u8Timer' = loadedTimer
  /\ main' = "zeroCount"
  /\ UNCHANGED <<u8Count, Buf, wipe, loadedTimer, loadedRxOK, isrRegs, history>>

(* stUart.u8Count = 0                                                      *)
ZeroCount ==
  /\ MainRuns /\ main = "zeroCount"
  /\ u8Count' = 0
  /\ main' = "loadForTimer"
  /\ UNCHANGED <<flags, Buf, wipe, loadedTimer, loadedRxOK, isrRegs, history>>

(* stUart.u8Timer = 0x7F                                                   *)
LoadForTimer ==
  /\ MainRuns /\ main = "loadForTimer"
  /\ loadedRxOK' = RxOK
  /\ main' = "storeTimer"
  /\ UNCHANGED <<flags, u8Count, Buf, wipe, loadedTimer, isrRegs, history>>

StoreTimer ==
  /\ MainRuns /\ main = "storeTimer"
  /\ RxOK' = loadedRxOK /\ u8Timer' = Stopped
  /\ main' = IF wipe THEN "zeroBuffer" ELSE "idle"
  /\ UNCHANGED <<u8Count, Buf, wipe, loadedTimer, loadedRxOK, isrRegs, history>>

(* memset, shorter than the time between two bytes.                        *)
ZeroBuffer ==
  /\ MainRuns /\ main = "zeroBuffer"
  /\ Buf' = [i \in Cells |-> "NUL"]
  /\ main' = "idle"
  /\ UNCHANGED <<flags, u8Count, wipe, loadedTimer, loadedRxOK, isrRegs, history>>

clearUart ==
  LoadForRxOK \/ StoreRxOK \/ ZeroCount \/ LoadForTimer \/ StoreTimer \/ ZeroBuffer
-----------------------------------------------------------------------------
(***************************************************************************)
(* TIMER2_IRQHandler, once per ms.                                         *)
(***************************************************************************)
TimerTick ==
  /\ isr = "idle"
  /\ quiet' = IF quiet < UART_RX_OVER_TIME THEN quiet + 1 ELSE quiet
  /\ isr' = CASE u8Timer < UART_RX_OVER_TIME -> "count"
              [] u8Timer = UART_RX_OVER_TIME -> "stop"
              [] OTHER                       -> "idle"
  /\ isrTimer' = u8Timer /\ isrRxOK' = RxOK
  /\ UNCHANGED <<flags, u8Count, Buf, mainRegs, inTheClear>>

(* u8Timer++ stores the value loaded, plus one, and RxOK as it was.        *)
TimerCount ==
  /\ isr = "count"
  /\ u8Timer' = isrTimer + 1 /\ RxOK' = isrRxOK
  /\ isr' = "idle"
  /\ UNCHANGED <<u8Count, Buf, mainRegs, isrTimer, isrRxOK, history>>

(* u8Timer = 0x7F, then RxOK = 1: the second load finds u8Timer as it is.  *)
TimerStop ==
  /\ isr = "stop"
  /\ u8Timer' = Stopped /\ RxOK' = isrRxOK
  /\ isr' = "loadForDone"
  /\ UNCHANGED <<u8Count, Buf, mainRegs, isrTimer, isrRxOK, history>>

TimerLoad ==
  /\ isr = "loadForDone"
  /\ isrTimer' = u8Timer
  /\ isr' = "done"
  /\ UNCHANGED <<flags, u8Count, Buf, mainRegs, isrRxOK, history>>

(* Fault: RxOK is not set.                                                 *)
TimerDone_NoReport ==
  /\ isr = "done"
  /\ u8Timer' = isrTimer /\ UNCHANGED RxOK
  /\ isr' = "idle"
  /\ UNCHANGED <<u8Count, Buf, mainRegs, isrTimer, isrRxOK, history>>

TimerDone ==
  /\ isr = "done"
  /\ u8Timer' = isrTimer /\ RxOK' = TRUE
  /\ isr' = "idle"
  /\ UNCHANGED <<u8Count, Buf, mainRegs, isrTimer, isrRxOK, history>>

TIMER2_IRQHandler == TimerTick \/ TimerCount \/ TimerStop \/ TimerLoad \/ TimerDone
-----------------------------------------------------------------------------
(***************************************************************************)
(* UART0_IRQHandler: nothing that touches stUart preempts it.  A byte that *)
(* finds the buffer full is dropped and ends the frame.  Fault: the limit  *)
(* is off by one; only the first byte of a frame starts the timer.         *)
(***************************************************************************)
Full_OffByOne(count) == count > UART_BUF_SIZE
Full(count) == count >= UART_BUF_SIZE

TimerAfterByte_FirstOnly == IF u8Timer = Stopped THEN 0 ELSE u8Timer
TimerAfterByte == 0

UART0_IRQHandler ==
  /\ \/ /\ ~Full(u8Count)
        /\ RxOK' = FALSE /\ u8Timer' = TimerAfterByte
        /\ Buf' = [Buf EXCEPT ![u8Count] = "byte"]
        /\ u8Count' = u8Count + 1
     \/ /\ Full(u8Count)
        /\ RxOK' = TRUE /\ u8Timer' = Stopped
        /\ UNCHANGED <<u8Count, Buf>>
  /\ quiet' = 0
  /\ inTheClear' = (main = "idle" /\ isr = "idle")
  /\ UNCHANGED <<mainRegs, isrRegs>>
-----------------------------------------------------------------------------
(* Static storage: u8Timer is 0, and TIMER2 ends an empty frame first.     *)
Init ==
  /\ RxOK = FALSE /\ u8Timer = 0 /\ u8Count = 0
  /\ Buf = [i \in Cells |-> "NUL"]
  /\ main = "idle" /\ wipe = FALSE /\ loadedTimer = 0 /\ loadedRxOK = FALSE
  /\ isr = "idle" /\ isrTimer = 0 /\ isrRxOK = FALSE
  /\ quiet = UART_RX_OVER_TIME /\ inTheClear = FALSE

Next == StartClearing \/ clearUart \/ TIMER2_IRQHandler \/ UART0_IRQHandler

(***************************************************************************)
(* The timer interrupt recurs and the main loop finishes what it begins;   *)
(* it need not begin anything, and bytes need not come.                    *)
(***************************************************************************)
Spec == Init /\ [][Next]_vars
FairSpec == Spec /\ WF_vars(TIMER2_IRQHandler) /\ WF_vars(clearUart)
-----------------------------------------------------------------------------
(* The fields of stUart keep their ranges (Uart.h:27-33): no byte is       *)
(* stored beyond the buffer.                                               *)
TypeOK ==
  /\ RxOK \in BOOLEAN /\ u8Timer \in TimerValues
  /\ u8Count \in 0 .. UART_BUF_SIZE
  /\ Buf \in [Cells -> {"NUL", "byte"}]
  /\ main \in {"idle", "loadForRxOK", "storeRxOK", "zeroCount", "loadForTimer", "storeTimer", "zeroBuffer"}
  /\ wipe \in BOOLEAN /\ loadedTimer \in TimerValues /\ loadedRxOK \in BOOLEAN
  /\ isr \in {"idle", "count", "stop", "loadForDone", "done"}
  /\ isrTimer \in TimerValues /\ isrRxOK \in BOOLEAN
  /\ isr = "count" => isrTimer < UART_RX_OVER_TIME
  /\ quiet \in 0 .. UART_RX_OVER_TIME /\ inTheClear \in BOOLEAN

(***************************************************************************)
(* A byte that came while neither the main loop nor TIMER2 was at work on  *)
(* stUart is reported by RxOK or cleared by the main loop: whatever comes  *)
(* after it, the frame it belongs to is not forgotten.                     *)
(***************************************************************************)
FrameReported == (inTheClear /\ u8Count > 0) ~> (RxOK \/ u8Count = 0)

(***************************************************************************)
(* RxOK says "reception complete" (Uart.h:29): the line has been silent    *)
(* for the time-out, or the buffer is full.  This is so unless the last    *)
(* byte came between the steps of the main loop or of TIMER2: TimerDone    *)
(* sets RxOK although the byte has begun a new wait.                       *)
(***************************************************************************)
CompleteMeansQuiet ==
  main = "idle" /\ isr = "idle" /\ RxOK /\ inTheClear =>
    quiet = UART_RX_OVER_TIME \/ u8Count = UART_BUF_SIZE
=============================================================================
