\* Who learns of the end of a connection, and whether all is released.
SPECIFICATION FairSpec
CONSTANTS
  Cap = 1
  MaxSend = 1
  MayLose = FALSE
PROPERTIES
  SocksAnswered
  TargetCloseReaches
  PipeReleasesTarget
CHECK_DEADLOCK FALSE
