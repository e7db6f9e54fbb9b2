\* Two processes on one log; one crash or exception, one reset, one trip.
CONSTANTS
  Runners = {r1, r2}
  Keys = {k1, k2}
  NoOne = NoOne
  NoKey = NoKey
  Quotes = {1, 2, 3}
  PerJobCap = 2
  PerDayCap = 3
  Day = 1
  Windows = {1}
  MaxTime = 1
  MaxFaults = 1
  MaxResets = 1
SPECIFICATION Spec
SYMMETRY Symmetry
INVARIANTS TypeOK StartedIsCharged AtMostOneInDoubt LiveReservationNeverEscalated OneCallPerKey OutcomeIsEarned IncidentHoldsBreaker SpendWithinCap
PROPERTIES AdmissionRespectsBreaker ReservationLifecycle ImplementsSpendAuthority
