CONSTANTS
  N_AMP = 0
  Commands <- MCCommands
  ScanIds <- MCScanIds
  Serial <- MCSerial
  FirstPage <- MCFirstPage
  BuildId = 31
  Torn <- MCTorn
  OtherIds <- MCOtherIds
  OtherSubs <- MCOtherSubs
  N_RTT = 1
  FIELDS <- MCFields
  LISTEN_BEFORE_TX = 2
  TIMEOUT_REPLY = 1
  TIMEOUT_PROG = 2
  TIMEOUT_RTT = 3
  POLL = 1
  DEADLINE = 16
  RUN = 4
  MaxLatency = 2
  Budget = 3
SPECIFICATION Spec
INVARIANTS CleanRunSucceeds FoundIsPresent RecordSnapshot
PROPERTIES SilentAfterCascade ImplementsPageWrite EveryCommandEnds
CHECK_DEADLOCK FALSE
