--------------------------- MODULE AtModemProofs ---------------------------
(***************************************************************************)
(* Proofs about AtModem, for every command table and every queue bound:    *)
(* the type invariant, the bound on retries, and that a command with a     *)
(* confirmation of its own is passed only when the modem accepted it.      *)
(***************************************************************************)
EXTENDS AtModem, SequenceTheorems, TLAPS

(***************************************************************************)
(* Strengthening.  While an answer is awaited nothing has been taken for   *)
(* one yet, and a confirmation found in the buffer is one the modem gave   *)
(* since its last restart; the sendings done and the repetitions left of a *)
(* command never exceed what its row of the table allows.                  *)
(***************************************************************************)
AwaitingAnswer == NB_TaskStatus = "NB_WAIT" => ATStatus = "NO_REC"

BufferIsRecent ==
  NB_TaskStatus = "NB_WAIT" => \A c \in Cmds : Own(c) /\ Expected[c] \in Buf => c \in accepted

BudgetLeft ==
  /\ NB_TaskStatus = "NB_WAIT" => tries + CurrentRty <= RtyNum[ATCurrentCmdNum] + 1
  /\ NB_TaskStatus = "NB_SEND" /\ ATCurrentCmdNum # ATNextCmdNum => tries = 0
  /\ NB_TaskStatus = "NB_SEND" /\ ATCurrentCmdNum = ATNextCmdNum =>
       tries + CurrentRty <= RtyNum[ATCurrentCmdNum]

ModemInv == AwaitingAnswer /\ BufferIsRecent /\ ConfirmedForReal /\ BudgetLeft

LEMMA TableFacts ==
  /\ AT \in Cmds /\ AT_MQTTMSGSET \in Cmds /\ AT_MPUB \in Cmds /\ AT_CSQ \in Cmds
  /\ \A c \in Cmds : RtyNum[c] \in Nat /\ Expected[c] \in Tokens
  /\ Cmds \subseteq Nat /\ MaxQueue \in Nat
BY TableAssumption DEF Cmds, AT, AT_MQTTMSGSET, Tokens

LEMMA NoCommands == <<>> \in Seq(Cmds) /\ Len(<<>>) = 0 /\ Len(<<>>) <= MaxQueue
BY EmptySeq, TableAssumption

LEMMA TypeInit == Init => TypeOK
<1> SUFFICES ASSUME Init PROVE TypeOK
  OBVIOUS
<1>1. AT + 1 \in 0 .. AT_MPUB + 1
  BY TableAssumption DEF AT
<1>2. queue \in Seq(Cmds) /\ Len(queue) <= MaxQueue
  BY NoCommands DEF Init
<1> QED
  BY <1>1, <1>2, TableFacts DEF Init, TypeOK

(***************************************************************************)
(* What ATSend, ATRec and a received frame do to the types.                *)
(***************************************************************************)
LEMMA SendType ==
  ASSUME NEW c \in Cmds, NEW pending \in Seq(Cmds), Len(pending) <= MaxQueue, ATSend(c, pending)
  PROVE  /\ NB_TaskStatus' \in {"NB_SEND", "NB_WAIT"}
         /\ ATStatus' \in {"NO_REC", "SUCCESS_REC", "TIME_OUT"}
         /\ expired' \in BOOLEAN /\ RxOK' \in BOOLEAN /\ u8Count' \in {"empty", "some"}
         /\ Buf' \in SUBSET Tokens
         /\ queue' \in Seq(Cmds) /\ Len(queue') <= MaxQueue
<1>1. Append(pending, c) \in Seq(Cmds) /\ Len(Append(pending, c)) = Len(pending) + 1
  BY AppendProperties
<1>2. Len(pending) \in Nat /\ MaxQueue \in Nat
  BY LenProperties, TableFacts
<1>3. queue' \in Seq(Cmds) /\ Len(queue') <= MaxQueue
  <2>1. CASE Len(pending) < MaxQueue
    BY <1>1, <1>2, <2>1 DEF ATSend
  <2>2. CASE ~(Len(pending) < MaxQueue)
    BY <2>2 DEF ATSend
  <2> QED
    BY <2>1, <2>2
<1> QED
  BY <1>3 DEF ATSend, clearUart

LEMMA RecType ==
  ASSUME TypeOK, ATRec
  PROVE  RxOK' \in BOOLEAN /\ u8Count' \in {"empty", "some"} /\ Buf' \in SUBSET Tokens
BY DEF ATRec, TypeOK

LEMMA ReceiveType ==
  ASSUME TypeOK, NEW tokens \in SUBSET Tokens, Receive(tokens)
  PROVE  RxOK' \in BOOLEAN /\ u8Count' \in {"empty", "some"} /\ Buf' \in SUBSET Tokens
BY DEF Receive, TypeOK

LEMMA TailType ==
  ASSUME TypeOK, queue # <<>>
  PROVE  /\ Tail(queue) \in Seq(Cmds) /\ Len(Tail(queue)) <= MaxQueue
         /\ Head(queue) \in Cmds
<1>1. Len(queue) \in Nat /\ MaxQueue \in Nat /\ Len(queue) <= MaxQueue
  BY LenProperties, TableFacts DEF TypeOK
<1> QED
  BY <1>1, HeadTailProperties DEF TypeOK

LEMMA TypeStep == TypeOK /\ [Next]_vars => TypeOK'
<1> SUFFICES ASSUME TypeOK, [Next]_vars PROVE TypeOK'
  OBVIOUS
<1>1. CASE SendCommand
  <2>1. ATCurrentCmdNum \in Cmds /\ queue \in Seq(Cmds) /\ Len(queue) <= MaxQueue
    BY DEF TypeOK
  <2>2. ATSend(ATCurrentCmdNum, queue)
    BY <1>1 DEF SendCommand
  <2> QED
    BY <1>1, <2>1, <2>2, SendType, TableFacts DEF SendCommand, Retries, TypeOK
<1>2. CASE Succeed
  <2>1. ATCurrentCmdNum + 1 \in Cmds /\ ATCurrentCmdNum + 2 \in 0 .. AT_MPUB + 1
    BY <1>2, TableAssumption DEF Succeed, TypeOK, Cmds, AT
  <2>2. AT_CSQ \in Cmds /\ AT_CSQ + 1 \in 0 .. AT_MPUB + 1
    BY TableAssumption DEF Cmds, AT
  <2>3. PICK cur \in Cmds : cur + 1 \in 0 .. AT_MPUB + 1 /\ Advance(cur)
    <3>1. (ATCurrentCmdNum + 1) + 1 \in 0 .. AT_MPUB + 1
      BY <2>1 DEF TypeOK, Cmds, AT
    <3> QED
      BY <1>2, <2>1, <2>2, <3>1 DEF Succeed
  <2> QED
    BY <1>2, <2>3, RecType DEF Succeed, Advance, TypeOK, modem
<1>3. CASE InitOver
  <2>1. AT_MQTTMSGSET \in Cmds /\ AT_MQTTMSGSET + 1 \in 0 .. AT_MPUB + 1
    BY TableAssumption DEF Cmds, AT, AT_MQTTMSGSET
  <2> QED
    BY <1>3, <2>1, RecType DEF InitOver, Advance, TypeOK, modem
<1>4. CASE Resend
  <2>1. CurrentRty - 1 \in Nat /\ ATCurrentCmdNum \in 0 .. AT_MPUB + 1
    BY <1>4, TableAssumption DEF Resend, CanRetry, TypeOK, Cmds, AT
  <2> QED
    BY <1>4, <2>1, RecType DEF Resend, CanRetry, TypeOK, modem
<1>5. CASE GiveUp
  <2>1. queue' \in Seq(Cmds) /\ Len(queue') <= MaxQueue
    BY <1>5, NoCommands DEF GiveUp
  <2> QED
    BY <1>5, <2>1, TableFacts, RecType DEF GiveUp, CanRetry, TypeOK
<1>6. CASE KeepWaiting
  BY <1>6, RecType DEF KeepWaiting, TypeOK, modem, machine
<1>7. CASE PollDownlink
  BY <1>7 DEF PollDownlink, clearUart, TypeOK, modem, machine
<1>8. CASE Reinitialise
  <2>1. <<>> \in Seq(Cmds) /\ Len(<<>>) <= MaxQueue
    BY NoCommands
  <2>2. AT + 1 \in 0 .. AT_MPUB + 1 /\ AT \in Cmds
    BY TableAssumption DEF AT, Cmds
  <2>3. ATSend(AT, <<>>)
    BY <1>8 DEF Reinitialise
  <2> QED
    BY <1>8, <2>1, <2>2, <2>3, SendType, TableFacts DEF Reinitialise, TypeOK
<1>9. CASE ModemAnswers
  <2>1. {Expected[Head(queue)], "OK"} \in SUBSET Tokens
    BY <1>9, TailType DEF ModemAnswers, Tokens
  <2> QED
    BY <1>9, <2>1, TailType, ReceiveType DEF ModemAnswers, TypeOK, machine
<1>10. CASE ModemFails
  <2>1. \A token \in {"OK", "ERROR"} : {token} \in SUBSET Tokens
    BY DEF Tokens
  <2> QED
    BY <1>10, <2>1, TailType, ReceiveType DEF ModemFails, TypeOK, machine, uart
<1>11. CASE ModemReplies
  <2>1. {"OK"} \in SUBSET Tokens /\ {"ERROR"} \in SUBSET Tokens
    BY DEF Tokens
  <2> QED
    BY <1>11, <2>1, ReceiveType DEF ModemReplies, TypeOK, machine, modem
<1>12. CASE TimerExpires
  BY <1>12 DEF TimerExpires, TypeOK, machine, uart, modem
<1>13. CASE ModemRecovers
  BY <1>13 DEF ModemRecovers, TypeOK, machine, uart
<1>14. CASE UNCHANGED vars
  BY <1>14 DEF vars, machine, uart, modem, TypeOK
<1> QED
  BY <1>1, <1>2, <1>3, <1>4, <1>5, <1>6, <1>7, <1>8, <1>9, <1>10, <1>11, <1>12, <1>13, <1>14
     DEF Next, NB_Work

(***************************************************************************)
(* The variables of the command machine, the buffer and the modem keep     *)
(* their types (AT_Proc.c:20-39, Uart.h).                                  *)
(***************************************************************************)
THEOREM TypeCorrect == Spec => []TypeOK
BY TypeInit, TypeStep, PTL DEF Spec
-----------------------------------------------------------------------------
LEMMA InvInit == Init => ModemInv
BY TableFacts DEF Init, ModemInv, AwaitingAnswer, BufferIsRecent, ConfirmedForReal, BudgetLeft, AT, Cmds

(***************************************************************************)
(* A frame without a confirmation that only c can get, or with that of a   *)
(* command just accepted, keeps the buffer recent.                         *)
(***************************************************************************)
LEMMA ReceiveRecent ==
  ASSUME TypeOK, BufferIsRecent, NEW tokens \in SUBSET Tokens, Receive(tokens),
         UNCHANGED NB_TaskStatus, accepted \subseteq accepted',
         \A c \in Cmds : Own(c) /\ Expected[c] \in tokens => c \in accepted'
  PROVE  BufferIsRecent'
BY DEF Receive, BufferIsRecent, Own

LEMMA PlainFrame ==
  ASSUME NEW c \in Cmds, Own(c)
  PROVE  Expected[c] # "OK" /\ Expected[c] # "ERROR"
BY TableAssumption DEF Own

LEMMA InvStep == TypeOK /\ TypeOK' /\ ModemInv /\ [Next]_vars => ModemInv'
<1> SUFFICES ASSUME TypeOK, TypeOK', ModemInv, [Next]_vars PROVE ModemInv'
  OBVIOUS
<1>1. CASE SendCommand
  <2>1. AwaitingAnswer' /\ BufferIsRecent' /\ ConfirmedForReal'
    BY <1>1 DEF SendCommand, ATSend, clearUart, ModemInv, AwaitingAnswer, BufferIsRecent, ConfirmedForReal, Own
  <2>2. BudgetLeft'
    BY <1>1, TableFacts DEF SendCommand, ATSend, Retries, ModemInv, BudgetLeft, TypeOK
  <2> QED
    BY <2>1, <2>2 DEF ModemInv
<1>2. CASE Succeed
  <2>1. Own(ATCurrentCmdNum) => ATCurrentCmdNum \in accepted
    BY <1>2 DEF Succeed, Waiting, Confirmed, ModemInv, AwaitingAnswer, BufferIsRecent, TypeOK
  <2>2. \A c \in Cmds : Own(c) /\ c < ATCurrentCmdNum + 1 => c \in accepted
    BY <2>1, TableFacts DEF ModemInv, ConfirmedForReal, TypeOK
  <2>3. \/ Advance(ATCurrentCmdNum + 1)
        \/ ATCurrentCmdNum = AT_CSQ /\ Advance(AT_CSQ)
    BY <1>2 DEF Succeed
  <2>4. ConfirmedForReal'
    BY <2>2, <2>3 DEF Advance, modem, ModemInv, ConfirmedForReal, Own
  <2>5. AwaitingAnswer' /\ BufferIsRecent' /\ BudgetLeft'
    BY <2>3 DEF Advance, AwaitingAnswer, BufferIsRecent, BudgetLeft, TypeOK
  <2> QED
    BY <2>4, <2>5 DEF ModemInv
<1>3. CASE InitOver
  <2>1. ConfirmedForReal'
    BY <1>3, TableFacts, TableAssumption
       DEF InitOver, Advance, modem, ModemInv, ConfirmedForReal, Own, AT_MQTTMSGSET
  <2>2. AwaitingAnswer' /\ BufferIsRecent' /\ BudgetLeft'
    BY <1>3, TableFacts DEF InitOver, Advance, AwaitingAnswer, BufferIsRecent, BudgetLeft, AT_MQTTMSGSET
  <2> QED
    BY <2>1, <2>2 DEF ModemInv
<1>4. CASE Resend
  <2>1. AwaitingAnswer' /\ BufferIsRecent' /\ ConfirmedForReal'
    BY <1>4 DEF Resend, CanRetry, modem, ModemInv, AwaitingAnswer, BufferIsRecent, ConfirmedForReal, Own
  <2>2. BudgetLeft'
    BY <1>4, TableFacts DEF Resend, CanRetry, Waiting, ModemInv, BudgetLeft, TypeOK
  <2> QED
    BY <2>1, <2>2 DEF ModemInv
<1>5. CASE GiveUp
  <2>1. ConfirmedForReal'
    BY <1>5 DEF GiveUp, CanRetry, ConfirmedForReal, Cmds, AT
  <2>2. AwaitingAnswer' /\ BufferIsRecent' /\ BudgetLeft'
    BY <1>5, TableFacts DEF GiveUp, CanRetry, Waiting, AwaitingAnswer, BufferIsRecent, BudgetLeft, TypeOK
  <2> QED
    BY <2>1, <2>2 DEF ModemInv
<1>6. CASE KeepWaiting
  BY <1>6 DEF KeepWaiting, ATRec, machine, modem, ModemInv, AwaitingAnswer, BufferIsRecent,
              ConfirmedForReal, BudgetLeft, Own
<1>7. CASE PollDownlink
  BY <1>7 DEF PollDownlink, clearUart, machine, modem, ModemInv, AwaitingAnswer, BufferIsRecent,
              ConfirmedForReal, BudgetLeft, Own
<1>8. CASE Reinitialise
  <2>1. ConfirmedForReal'
    BY <1>8 DEF Reinitialise, ConfirmedForReal, Cmds, AT
  <2>2. AwaitingAnswer' /\ BufferIsRecent'
    BY <1>8 DEF Reinitialise, ATSend, clearUart, AwaitingAnswer, BufferIsRecent, Own
  <2>3. BudgetLeft'
    BY <1>8, TableFacts DEF Reinitialise, ATSend, BudgetLeft
  <2> QED
    BY <2>1, <2>2, <2>3 DEF ModemInv
<1>9. CASE ModemAnswers
  <2>1. Head(queue) \in Cmds /\ {Expected[Head(queue)], "OK"} \in SUBSET Tokens
    BY <1>9, TailType DEF ModemAnswers, Tokens
  <2>2. \A c \in Cmds : Own(c) /\ Expected[c] \in {Expected[Head(queue)], "OK"} => c \in accepted'
    BY <1>9, <2>1 DEF ModemAnswers, Own
  <2>3. BufferIsRecent'
    BY <1>9, <2>1, <2>2, ReceiveRecent DEF ModemAnswers, machine, ModemInv
  <2>4. AwaitingAnswer' /\ ConfirmedForReal' /\ BudgetLeft'
    BY <1>9 DEF ModemAnswers, machine, ModemInv, AwaitingAnswer, ConfirmedForReal, BudgetLeft, Own
  <2> QED
    BY <2>3, <2>4 DEF ModemInv
<1>10. CASE ModemFails
  <2>1. BufferIsRecent'
    <3>1. CASE UNCHANGED uart
      BY <1>10, <3>1 DEF ModemFails, machine, uart, ModemInv, BufferIsRecent, Own
    <3>2. ASSUME NEW token \in {"OK", "ERROR"}, Receive({token}) PROVE BufferIsRecent'
      BY <1>10, <3>2, ReceiveRecent, PlainFrame DEF ModemFails, machine, ModemInv, Tokens
    <3> QED
      BY <1>10, <3>1, <3>2 DEF ModemFails
  <2>2. AwaitingAnswer' /\ ConfirmedForReal' /\ BudgetLeft'
    BY <1>10 DEF ModemFails, machine, ModemInv, AwaitingAnswer, ConfirmedForReal, BudgetLeft, Own
  <2> QED
    BY <2>1, <2>2 DEF ModemInv
<1>11. CASE ModemReplies
  <2>1. ASSUME NEW token \in {"OK", "ERROR"}, Receive({token}) PROVE BufferIsRecent'
    BY <1>11, <2>1, ReceiveRecent, PlainFrame DEF ModemReplies, machine, modem, ModemInv, Tokens
  <2>2. BufferIsRecent'
    BY <1>11, <2>1 DEF ModemReplies
  <2>3. AwaitingAnswer' /\ ConfirmedForReal' /\ BudgetLeft'
    BY <1>11 DEF ModemReplies, machine, modem, ModemInv, AwaitingAnswer, ConfirmedForReal, BudgetLeft, Own
  <2> QED
    BY <2>2, <2>3 DEF ModemInv
<1>12. CASE TimerExpires
  BY <1>12 DEF TimerExpires, machine, uart, modem, ModemInv, AwaitingAnswer, BufferIsRecent,
               ConfirmedForReal, BudgetLeft, Own
<1>13. CASE ModemRecovers
  BY <1>13 DEF ModemRecovers, machine, uart, ModemInv, AwaitingAnswer, BufferIsRecent,
               ConfirmedForReal, BudgetLeft, Own
<1>14. CASE UNCHANGED vars
  BY <1>14 DEF vars, machine, uart, modem, ModemInv, AwaitingAnswer, BufferIsRecent,
               ConfirmedForReal, BudgetLeft, Own
<1> QED
  BY <1>1, <1>2, <1>3, <1>4, <1>5, <1>6, <1>7, <1>8, <1>9, <1>10, <1>11, <1>12, <1>13, <1>14
     DEF Next, NB_Work

LEMMA InvCorrect == Spec => []ModemInv
<1>1. TypeOK /\ ModemInv /\ [Next]_vars => (TypeOK /\ ModemInv)'
  BY TypeStep, InvStep
<1> QED
  BY <1>1, TypeInit, InvInit, PTL DEF Spec

(***************************************************************************)
(* A command with a confirmation of its own is passed only when the modem  *)
(* has accepted it since its last restart, whatever the table, however     *)
(* late the answers and whatever text is left in the receive buffer.       *)
(***************************************************************************)
THEOREM ConfirmedForRealHolds == Spec => []ConfirmedForReal
<1>1. ModemInv => ConfirmedForReal
  BY DEF ModemInv
<1> QED
  BY <1>1, InvCorrect, PTL

(***************************************************************************)
(* No command is sent more than RtyNum + 1 times in a row.                 *)
(***************************************************************************)
THEOREM RetryBudgetHolds == Spec => []RetryBudget
<1>1. TypeOK /\ ModemInv => RetryBudget
  BY TableFacts DEF TypeOK, ModemInv, BudgetLeft, RetryBudget
<1> QED
  BY <1>1, TypeCorrect, InvCorrect, PTL
-----------------------------------------------------------------------------
(* What has been sent of a command and what is left add up to its table    *)
(* entry.  Not so for AT, to which GiveUp comes back with retries left as  *)
(* they were.                                                              *)
TriesSpent ==
  ATCurrentCmdNum # AT =>
    /\ NB_TaskStatus = "NB_WAIT" => tries + CurrentRty = RtyNum[ATCurrentCmdNum] + 1
    /\ NB_TaskStatus = "NB_SEND" /\ ATCurrentCmdNum = ATNextCmdNum =>
         tries + CurrentRty = RtyNum[ATCurrentCmdNum]

LEMMA SpentStep == TypeOK /\ ModemInv /\ TriesSpent /\ [Next]_vars => TriesSpent'
<1> SUFFICES ASSUME TypeOK, ModemInv, TriesSpent, [Next]_vars PROVE TriesSpent'
  OBVIOUS
<1>1. CASE SendCommand
  <2>1. /\ NB_TaskStatus = "NB_SEND" /\ NB_TaskStatus' = "NB_WAIT"
        /\ ATCurrentCmdNum' = ATCurrentCmdNum /\ tries' = tries + 1
        /\ CurrentRty' = IF ATCurrentCmdNum # ATNextCmdNum THEN RtyNum[ATCurrentCmdNum] ELSE CurrentRty
    BY <1>1 DEF SendCommand, ATSend, Retries
  <2>2. ATCurrentCmdNum # ATNextCmdNum => tries = 0
    BY <2>1 DEF ModemInv, BudgetLeft
  <2>3. RtyNum[ATCurrentCmdNum] \in Nat /\ tries \in Nat /\ CurrentRty \in Nat
    BY TableFacts DEF TypeOK
  <2> QED
    BY <2>1, <2>2, <2>3 DEF TriesSpent
<1>2. CASE Succeed \/ InitOver
  <2>1. \/ ATCurrentCmdNum # AT_MPUB /\ Advance(ATCurrentCmdNum + 1)
        \/ ATCurrentCmdNum = AT_CSQ /\ Advance(AT_CSQ)
        \/ Advance(AT_MQTTMSGSET)
    BY <1>2 DEF Succeed, InitOver
  <2>2. ATCurrentCmdNum \in Cmds
    BY DEF TypeOK
  <2>3. /\ ATCurrentCmdNum # AT_MPUB => ATCurrentCmdNum + 1 \in Cmds
        /\ AT_MQTTMSGSET \in Cmds
    BY <2>2, TableFacts DEF Cmds
  <2>4. \E cur \in Cmds : Advance(cur)
    BY <2>1, <2>2, <2>3
  <2>5. PICK cur \in Cmds : Advance(cur)
    BY <2>4
  <2>6. NB_TaskStatus' = "NB_SEND" /\ ATCurrentCmdNum' = cur /\ ATNextCmdNum' = cur + 1 /\ cur \in Nat
    BY <2>5, TableFacts DEF Advance, Cmds
  <2> QED
    BY <2>6 DEF TriesSpent
<1>3. CASE Resend
  BY <1>3, TableFacts DEF Resend, CanRetry, Waiting, TypeOK, TriesSpent
<1>4. CASE GiveUp \/ Reinitialise
  BY <1>4 DEF GiveUp, Reinitialise, TriesSpent
<1>5. CASE KeepWaiting \/ PollDownlink \/ ModemAnswers \/ ModemFails \/ ModemReplies
           \/ TimerExpires \/ ModemRecovers \/ UNCHANGED vars
  BY <1>5 DEF KeepWaiting, PollDownlink, ModemAnswers, ModemFails, ModemReplies, TimerExpires,
    ModemRecovers, vars, machine, TriesSpent
<1> QED
  BY <1>1, <1>2, <1>3, <1>4, <1>5 DEF Next, NB_Work

(***************************************************************************)
(* The modem is restarted only when the command it does not answer has been*)
(* sent as often as the table says, unless that command is AT.             *)
(***************************************************************************)
THEOREM AllTriesMadeHolds == Spec => AllTriesMade
<1>1. Init => TriesSpent
  BY DEF Init, TriesSpent
<1>2. TypeOK /\ TriesSpent /\ [Next]_vars
        => [GiveUp /\ ATCurrentCmdNum # AT => tries = RtyNum[ATCurrentCmdNum] + 1]_vars
  BY TableFacts DEF TypeOK, TriesSpent, GiveUp, Waiting, CanRetry
<1> QED
  BY <1>1, <1>2, TypeCorrect, InvCorrect, SpentStep, PTL DEF Spec, AllTriesMade
=============================================================================
