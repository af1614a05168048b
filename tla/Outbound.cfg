SPECIFICATION Spec
CONSTANTS
  Senders = {s1, s2, s3}
  CALLS = 2
  PERIOD = 2
  HEADROOM = 1
  MAX_WAIT = 3
  ATTEMPTS = 2
  MAX_BACKOFF = 2
INVARIANTS
  TypeOK
  ProviderLimitKept
PROPERTIES
  RefusedBehindAFullWindow
  EverySendEnds
