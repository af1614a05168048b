SPECIFICATION Spec
CONSTANTS
  Senders = {s1, s2, s3}
  CALLS = 2
  PERIOD = 10
  HEADROOM = 1
  MAX_WAIT = 10
  ATTEMPTS = 2
  MAX_BACKOFF = 2
PROPERTIES
  RefusedBehindAFullWindow
