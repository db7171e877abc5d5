------------------------------ MODULE AtModem ------------------------------
(***************************************************************************)
(* The bring-up of the GPRS modem: the command machine NB_Init, NB_Work,   *)
(* ATSend, ATRec, Rec_WaitAT and the downlink poll MQTT_GPRS_ResvData      *)
(* (AT_Proc.c), with the receive buffer they share with the UART interrupt *)
(* (Uart.c) and with a modem that answers late, negatively or not at all.  *)
(*                                                                         *)
(* Command c of ATCmds is sent, answered by a text that must contain       *)
(* Expected[c], and sent again RtyNum[c] times when its timer ends; then   *)
(* the modem is reset and the table starts over.  Texts are abstracted to  *)
(* the token an answer contains: what a buffer holds is a set of tokens.   *)
(***************************************************************************)
EXTENDS Naturals, Sequences

CONSTANTS
  AT_MPUB,     (* the last command of the table (18 in AT_Proc.h)          *)
  AT_CSQ,      (* the signal query, repeated until its value can be read   *)
  RtyNum,      (* RtyNum[c]: how often c is sent again                     *)
  Expected,    (* Expected[c]: the token that confirms c (ATRecStr)        *)
  MaxQueue     (* bound: commands the modem has taken and not yet answered *)

AT == 0
AT_MQTTMSGSET == AT_MPUB - 1
Cmds == AT .. AT_MPUB
Tokens == {Expected[c] : c \in Cmds} \cup {"OK", "ERROR"}

ASSUME TableAssumption ==
  /\ AT_MPUB \in Nat \ {0}
  /\ AT_CSQ \in Cmds \ {AT_MPUB}
  /\ RtyNum \in [Cmds -> Nat]
  /\ \A c \in Cmds : Expected[c] \in STRING \ {"ERROR"}
  /\ MaxQueue \in Nat \ {0}

VARIABLES
  NB_TaskStatus,       (* "NB_SEND" or "NB_WAIT"                           *)
  ATCurrentCmdNum, ATNextCmdNum, CurrentRty,
  ATStatus,            (* ATStatus of the current command                  *)
  expired,             (* TimeNB has run out                               *)
  GPRSDO,              (* the event that has NB_Work called                *)
  GPRS_InitOver_Flag,
  RxOK,                (* a frame is complete                              *)
  u8Count,             (* "empty", or "some" bytes not yet taken           *)
  Buf,                 (* tokens found in the receive buffer               *)
  queue, accepted,     (* modem: commands to answer, answered well         *)
  good,                (* from now on the modem answers well and in time   *)
  tries                (* history: times the current command has been sent *)

machine == <<NB_TaskStatus, ATCurrentCmdNum, ATNextCmdNum, CurrentRty, ATStatus, tries>>
uart    == <<RxOK, u8Count, Buf>>
modem   == <<queue, accepted, good>>
vars    == <<machine, expired, GPRSDO, GPRS_InitOver_Flag, uart, modem>>

(* The confirmation of c is neither the common "OK" nor that of another.   *)
Own(c) == Expected[c] # "OK" /\ \A d \in Cmds : Expected[d] = Expected[c] => d = c
-----------------------------------------------------------------------------
(***************************************************************************)
(* clearUart.  Fault: the bytes stay in the buffer.                        *)
(***************************************************************************)
clearUart_KeepsBytes == RxOK' = FALSE /\ u8Count' = "empty" /\ UNCHANGED Buf
clearUart == RxOK' = FALSE /\ u8Count' = "empty" /\ Buf' = {}

(***************************************************************************)
(* ATSend(c): the buffer is cleared, the command goes to the modem if it   *)
(* has room for one more, the timer starts.  (AT_MPUB and AT_MIPSTART also *)
(* look for an answer at once, in the buffer just cleared; one found there *)
(* is found by the next NB_WAIT as well.)  Fault: the timer is not started *)
(* again.                                                                  *)
(***************************************************************************)
ATSend_OldTimer(c, pending) ==
  /\ clearUart
  /\ ATStatus' = "NO_REC"
  /\ queue' = IF Len(pending) < MaxQueue THEN Append(pending, c) ELSE pending
  /\ UNCHANGED expired
  /\ NB_TaskStatus' = "NB_WAIT"

ATSend(c, pending) ==
  /\ clearUart
  /\ ATStatus' = "NO_REC"
  /\ queue' = IF Len(pending) < MaxQueue THEN Append(pending, c) ELSE pending
  /\ expired' = FALSE
  /\ NB_TaskStatus' = "NB_WAIT"

(***************************************************************************)
(* NB_WORK, case NB_SEND: the retries are loaded unless the command is     *)
(* being repeated.  Fault: they are loaded every time.                     *)
(***************************************************************************)
Retries_Reloaded(cur, next, left) == RtyNum[cur]
Retries(cur, next, left) == IF cur # next THEN RtyNum[cur] ELSE left

SendCommand ==
  /\ GPRSDO /\ NB_TaskStatus = "NB_SEND"
  /\ CurrentRty' = Retries(ATCurrentCmdNum, ATNextCmdNum, CurrentRty)
  /\ ATSend(ATCurrentCmdNum, queue)
  /\ tries' = tries + 1
  /\ UNCHANGED <<ATCurrentCmdNum, ATNextCmdNum, GPRSDO, GPRS_InitOver_Flag, accepted, good>>

(***************************************************************************)
(* NB_WORK, case NB_WAIT: ATRec takes a complete frame, leaving its bytes  *)
(* in the buffer, then Rec_WaitAT decides.                                 *)
(***************************************************************************)
Waiting == GPRSDO /\ NB_TaskStatus = "NB_WAIT"

ATRec ==
  /\ RxOK' = FALSE
  /\ u8Count' = IF RxOK THEN "empty" ELSE u8Count
  /\ UNCHANGED Buf

Confirmed == ATStatus = "SUCCESS_REC" \/ (RxOK /\ Expected[ATCurrentCmdNum] \in Buf)

Advance(cur) ==
  /\ ATCurrentCmdNum' = cur
  /\ ATNextCmdNum' = cur + 1
  /\ NB_TaskStatus' = "NB_SEND"
  /\ ATStatus' = "SUCCESS_REC"
  /\ tries' = 0
  /\ UNCHANGED <<CurrentRty, expired, modem>>

Succeed ==
  /\ Waiting /\ Confirmed
  /\ ATRec
  /\ ATCurrentCmdNum # AT_MPUB
  /\ \/ Advance(ATCurrentCmdNum + 1)
     \/ ATCurrentCmdNum = AT_CSQ /\ ~good /\ Advance(AT_CSQ)   \* value not readable
  /\ UNCHANGED <<GPRSDO, GPRS_InitOver_Flag>>

(* AT_MPUB: the bring-up is over, and SoftWareEventInLoop, which reads the *)
(* flag right after NB_Work, clears the GPRSDO event.                      *)
InitOver ==
  /\ Waiting /\ Confirmed
  /\ ATRec
  /\ ATCurrentCmdNum = AT_MPUB
  /\ Advance(AT_MQTTMSGSET)
  /\ GPRS_InitOver_Flag' = TRUE
  /\ GPRSDO' = FALSE

(* Fault: one repetition too few.                                          *)
CanRetry_Short(left) == left > 1
CanRetry(left) == left > 0

Resend ==
  /\ Waiting /\ ~Confirmed /\ expired /\ CanRetry(CurrentRty)
  /\ ATRec
  /\ ATStatus' = "TIME_OUT"
  /\ CurrentRty' = CurrentRty - 1
  /\ ATNextCmdNum' = ATCurrentCmdNum
  /\ NB_TaskStatus' = "NB_SEND"
  /\ UNCHANGED <<ATCurrentCmdNum, tries, expired, GPRSDO, GPRS_InitOver_Flag, modem>>

(* The retries are used up: NB_RESET restarts the modem, which forgets what*)
(* it was told; ATNextCmdNum is left as it was.                            *)
GiveUp ==
  /\ Waiting /\ ~Confirmed /\ expired /\ ~CanRetry(CurrentRty)
  /\ ATRec
  /\ ATStatus' = "TIME_OUT"
  /\ ATCurrentCmdNum' = AT
  /\ NB_TaskStatus' = "NB_SEND"
  /\ queue' = <<>> /\ accepted' = {}
  /\ tries' = 0
  /\ UNCHANGED <<ATNextCmdNum, CurrentRty, expired, GPRSDO, GPRS_InitOver_Flag, good>>

KeepWaiting ==
  /\ Waiting /\ ~Confirmed /\ ~expired /\ RxOK
  /\ ATRec
  /\ UNCHANGED <<machine, expired, GPRSDO, GPRS_InitOver_Flag, modem>>

NB_Work == SendCommand \/ Succeed \/ InitOver \/ Resend \/ GiveUp \/ KeepWaiting
-----------------------------------------------------------------------------
(***************************************************************************)
(* MQTT_GPRS_ResvData, polled once the bring-up is over: the frame is      *)
(* searched and cleared; one with five errors starts the bring-up again    *)
(* with NB_Init and one call of NB_Work.                                   *)
(***************************************************************************)
PollDownlink ==
  /\ GPRS_InitOver_Flag /\ RxOK
  /\ clearUart
  /\ UNCHANGED <<machine, expired, GPRSDO, GPRS_InitOver_Flag, modem>>

Reinitialise ==
  /\ GPRS_InitOver_Flag /\ RxOK /\ "ERROR" \in Buf
  /\ ATCurrentCmdNum' = AT /\ ATNextCmdNum' = AT + 1
  /\ CurrentRty' = RtyNum[AT] /\ tries' = 1
  /\ accepted' = {}
  /\ ATSend(AT, <<>>)
  /\ UNCHANGED <<GPRSDO, GPRS_InitOver_Flag, good>>
-----------------------------------------------------------------------------
(***************************************************************************)
(* The modem and the UART interrupts.  Bytes that arrive after a frame was *)
(* taken overwrite the start of the buffer and may leave older text behind *)
(* them.                                                                   *)
(***************************************************************************)
Receive(tokens) ==
  /\ RxOK' = TRUE
  /\ u8Count' = "some"
  /\ \E old \in SUBSET Buf :
       /\ u8Count = "some" => old = Buf
       /\ Buf' = old \cup tokens

(* A good answer ends in "OK" besides what the command asks for.           *)
ModemAnswers ==
  /\ queue # <<>>
  /\ queue' = Tail(queue)
  /\ Receive({Expected[Head(queue)], "OK"})
  /\ accepted' = accepted \cup {Head(queue)}
  /\ UNCHANGED <<machine, expired, GPRSDO, GPRS_InitOver_Flag, good>>

(* A modem that is not good refuses a command, drops it, or answers "OK"   *)
(* before what the command asks for.                                       *)
ModemFails ==
  /\ queue # <<>> /\ ~good
  /\ queue' \in {queue, Tail(queue)}
  /\ \/ \E token \in {"OK", "ERROR"} : Receive({token})
     \/ queue' # queue /\ UNCHANGED uart
  /\ UNCHANGED <<machine, expired, GPRSDO, GPRS_InitOver_Flag, accepted, good>>

(* What uploads, heartbeats and polls are answered with; on a lost         *)
(* connection, errors.                                                     *)
ModemReplies ==
  /\ GPRS_InitOver_Flag
  /\ \/ Receive({"OK"})
     \/ ~good /\ Receive({"ERROR"})
  /\ UNCHANGED <<machine, expired, GPRSDO, GPRS_InitOver_Flag, modem>>

TimerExpires ==
  /\ NB_TaskStatus = "NB_WAIT" /\ ~expired
  /\ good => queue = <<>> /\ ~RxOK
  /\ expired' = TRUE
  /\ UNCHANGED <<machine, GPRSDO, GPRS_InitOver_Flag, uart, modem>>

ModemRecovers ==
  /\ ~good
  /\ good' = TRUE
  /\ UNCHANGED <<machine, expired, GPRSDO, GPRS_InitOver_Flag, uart, queue, accepted>>
-----------------------------------------------------------------------------
(* The state NB_Init leaves.                                               *)
Init ==
  /\ NB_TaskStatus = "NB_SEND"
  /\ ATCurrentCmdNum = AT /\ ATNextCmdNum = AT + 1 /\ CurrentRty = 0
  /\ ATStatus = "NO_REC"
  /\ expired = FALSE
  /\ GPRSDO = TRUE /\ GPRS_InitOver_Flag = FALSE
  /\ RxOK = FALSE /\ u8Count = "empty" /\ Buf = {}
  /\ queue = <<>> /\ accepted = {} /\ good = FALSE
  /\ tries = 0

Next ==
  \/ NB_Work \/ PollDownlink \/ Reinitialise
  \/ ModemAnswers \/ ModemFails \/ ModemReplies \/ TimerExpires \/ ModemRecovers

(***************************************************************************)
(* The main loop calls NB_Work and polls for ever, and the clock runs.     *)
(* That the modem answers is an assumption about the modem, used once it   *)
(* has become good.                                                        *)
(***************************************************************************)
Fairness ==
  /\ WF_vars(NB_Work) /\ WF_vars(PollDownlink) /\ WF_vars(TimerExpires)
  /\ WF_vars(ModemAnswers)

Spec == Init /\ [][Next]_vars
FairSpec == Spec /\ Fairness
-----------------------------------------------------------------------------
(* Every variable keeps its type (AT_Proc.c:20-39, Uart.h).                *)
TypeOK ==
  /\ NB_TaskStatus \in {"NB_SEND", "NB_WAIT"}
  /\ ATCurrentCmdNum \in Cmds /\ ATNextCmdNum \in 0 .. AT_MPUB + 1
  /\ CurrentRty \in Nat /\ tries \in Nat
  /\ ATStatus \in {"NO_REC", "SUCCESS_REC", "TIME_OUT"}
  /\ expired \in BOOLEAN /\ GPRSDO \in BOOLEAN /\ GPRS_InitOver_Flag \in BOOLEAN
  /\ RxOK \in BOOLEAN /\ u8Count \in {"empty", "some"} /\ Buf \in SUBSET Tokens
  /\ queue \in Seq(Cmds) /\ Len(queue) <= MaxQueue
  /\ accepted \in SUBSET Cmds /\ good \in BOOLEAN

(***************************************************************************)
(* A command whose confirmation no other command shares is passed only     *)
(* when the modem has accepted it since its last restart: late answers and *)
(* text left behind in the buffer by ATRec never stand in for it.          *)
(***************************************************************************)
ConfirmedForReal ==
  \A c \in Cmds : Own(c) /\ c < ATCurrentCmdNum => c \in accepted

(***************************************************************************)
(* No command is sent more often than the table allows before the modem    *)
(* answers or is restarted (AT_Proc.c:412-417, 553-574).                   *)
(***************************************************************************)
RetryBudget == tries <= RtyNum[ATCurrentCmdNum] + 1

(***************************************************************************)
(* The modem is restarted only when the command it does not answer has been*)
(* sent as often as the table says, whichever answers, late ones and       *)
(* unreadable values came before (AT_Proc.c:560-574); AT itself excepted.  *)
(***************************************************************************)
AllTriesMade ==
  [][GiveUp /\ ATCurrentCmdNum # AT => tries = RtyNum[ATCurrentCmdNum] + 1]_vars

(***************************************************************************)
(* AT_Proc.c:568, of the restart, "the repetitions are used up": also those*)
(* of AT, the first command of the table, which the restart comes back to. *)
(***************************************************************************)
RepetitionsUsedUp ==
  [][GiveUp => tries = RtyNum[ATCurrentCmdNum] + 1]_vars

(***************************************************************************)
(* Once the modem answers well, the bring-up ends, whatever late answers   *)
(* and half-used retries it starts from, and however the answers of one    *)
(* command are taken for those of the next.                                *)
(***************************************************************************)
BringUpConverges == good ~> GPRS_InitOver_Flag

(***************************************************************************)
(* AT_Proc.c:345, after errors "the initialisation is done again": the     *)
(* bring-up that was started again comes to its end.                       *)
(***************************************************************************)
ReinitCompletes ==
  (GPRS_InitOver_Flag /\ NB_TaskStatus = "NB_WAIT" /\ good) ~> NB_TaskStatus = "NB_SEND"
=============================================================================
