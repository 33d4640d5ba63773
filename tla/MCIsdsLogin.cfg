SPECIFICATION FairSpec
CHECK_DEADLOCK FALSE
PROPERTIES
  SmsAcknowledged
  NothingResent
  CLIEnds
