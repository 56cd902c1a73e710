SPECIFICATION FairSpec
CONSTANTS
  MaxAttempts = 2
  Configs <- MCConfigs
  Retried <- MCRetried
CHECK_DEADLOCK FALSE
INVARIANTS TypeOK OnlineIsDeclared ReturnedMeansClosed StatsFollow FramingAgrees
PROPERTIES ImplementsTunnel CancelEnds SetupEnds SilentIsDetected NoGoroutineLeak
