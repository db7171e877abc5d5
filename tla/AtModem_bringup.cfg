SPECIFICATION FairSpec
INVARIANTS ConfirmedForReal RetryBudget
PROPERTIES AllTriesMade BringUpConverges
CONSTANTS
  AT_MPUB <- MCLast
  AT_CSQ <- MCCsq
  RtyNum <- MCRtyNum
  Expected <- MCExpected
  MaxQueue = 3
