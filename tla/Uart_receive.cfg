SPECIFICATION FairSpec
INVARIANTS TypeOK CompleteMeansQuiet
PROPERTY FrameReported
CONSTANTS
  UART_BUF_SIZE = 3
  UART_RX_OVER_TIME = 2
