CONSTANTS
  s1 = s1
  s2 = s2
  v1 = v1
  v2 = v2
  Senders = {s1}
  Verifiers = {v1, v2}
  MaxAttempts = 2
  SmsConfigured = TRUE
  MaxCodes = 2
  MaxLost = 1
SPECIFICATION Spec
PROPERTIES CodeRequestSucceeds
