SPECIFICATION FairSpec
PROPERTIES ReinitCompletes
CONSTANTS
  AT_MPUB <- MCLast
  AT_CSQ <- MCCsq
  RtyNum <- MCRtyNum
  Expected <- MCExpected
  MaxQueue = 3
