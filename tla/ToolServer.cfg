SPECIFICATION Spec
CONSTANTS
  Flights = {f1}
  Hotels = {h1, h2}
  Attractions = {a1}
  Threads = 2
  NoCall = NoCall
INVARIANTS
  TypeOK
  OneSearchPerKey
  NeverAsksForWhatItHas
  EntriesAreCounted
PROPERTIES
  EveryCallAnswered
\* The calls are answered and nobody calls again.
CHECK_DEADLOCK FALSE
