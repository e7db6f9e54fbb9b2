\* Two tickets, which may both run or both lie before a human, one fault, and
\* polls that may raise at any time.
CONSTANTS
  Tickets = {1, 2}
  Jobs = {j1, j2}
  NoTicket = NoTicket
  Trackers = {"linear", "github"}
  MaxConcurrent = 2
  MaxAwaiting = 2
  PollsRaise = TRUE
  MaxFaults = 1
SPECIFICATION Spec
SYMMETRY Symmetry
INVARIANTS TypeOK InFlightIsAttended
PROPERTIES RetriedByHumanOnly
