CONSTANTS
  api = api
  files = files
  object1 = object1
  object2 = object2
  file1 = file1
  Urls <- MCUrls
  Objects <- MCObjects
  Files <- MCFiles
  Calls <- MCCalls
  Strategies <- MCStrategies
  certificateVerificationEnabled = TRUE
  Certificates = {"server", "other"}
  pinnedCertificate = "server"
  NoCertificate = NoCertificate
  None = None
  MaxInFlight = 3
  MaxWait = 1000
  MaxAttempts = 4
SPECIFICATION ClientSpec
INVARIANTS
  ClientTypeOK
  RetryPending
  RequestsAreCalls
  CountFollowsLoad
PROPERTIES
  FailureIsRetried
  NoRetryStorm
  NewestIsDelivered
