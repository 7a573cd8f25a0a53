SPECIFICATION BreakerSpec

CONSTANTS
  Caller = {c1}
  FailureThreshold = 2
  RecoveryTimeout = 2
  MaxAttempts = 2

PROPERTIES
  FailedProbeReopens

CHECK_DEADLOCK FALSE
