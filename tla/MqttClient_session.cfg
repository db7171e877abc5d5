SPECIFICATION FairSpec
CONSTANTS
  Packets = 2
  MaxInbox = 2
INVARIANTS SessionReal OnePing OneUnheard
PROPERTIES ServesAccepted AnswersThisRequest LossNoticed SessionKept CallsEnd ImplementsSession
