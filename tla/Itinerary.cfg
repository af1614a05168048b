SPECIFICATION MCSpec
CONSTANTS
  AIRPORT = 40
  StopCost = 100
  Trips <- TheTrips
  ConflictTrips <- TheConflictTrips
  Offers <- TheOffers
  MaxRounds = 3
  LastDay = 3
  MAX_RESULTS = 2
  Markets <- TheMarkets
  Budgets = {1, 4, 9}
  Airlines = {"AI"}
  PlaceNames <- ThePlaceNames
  Sights <- TheSights
  KindOf <- TheKinds
  Wishes <- TheWishes
  Skies <- TheSkies
  TripDays <- TheDays
INVARIANTS
  TypeOK
  PlanStands
  PageShowsTrue
  WaysOutHold
  AskedAndFound
PROPERTY RepairsHurtNobody
CHECK_DEADLOCK FALSE
