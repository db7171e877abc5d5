SPECIFICATION FairSpec
CONSTANTS
  Servers = {a, b}
  Unset = Unset
  Configured = Configured
  MAX_DHCP_RETRY = 2
  DHCP_WAIT_TIME = 1
  Lease = 3
  MaxTick = 4
  MaxNet = 3
INVARIANTS LeaseGranted StaticIsConfigured
PROPERTY AcquisitionEnds
CHECK_DEADLOCK FALSE
