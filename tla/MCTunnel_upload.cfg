\* Whether the HTTP proxy passes on all it is sent.
SPECIFICATION Spec
CONSTANTS
  Cap = 1
  MaxSend = 2
  MayLose = FALSE
INVARIANTS
  HttpUploadComplete
CHECK_DEADLOCK FALSE
