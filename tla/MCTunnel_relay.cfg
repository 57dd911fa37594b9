\* What arrives at either end, whoever ends, closes or fails first.
SPECIFICATION Spec
CONSTANTS
  Cap = 1
  MaxSend = 2
  MayLose = TRUE
INVARIANTS
  TypeOK
  ResponseComplete
  UploadComplete
CHECK_DEADLOCK FALSE
