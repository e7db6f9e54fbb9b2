\* Three tickets and a job, two at a time, one before a human, one fault, and
\* polls that may raise at any time.
CONSTANTS
  Tickets = {1, 2, 3}
  Jobs = {j1}
  NoTicket = NoTicket
  Trackers = {"linear", "github"}
  MaxConcurrent = 2
  MaxAwaiting = 1
  PollsRaise = TRUE
  MaxFaults = 1
SPECIFICATION FairSpec
INVARIANTS ConcurrencyBounded
PROPERTIES DispatchStallsOnReview DispatchEnds
