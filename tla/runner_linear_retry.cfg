\* The Linear adapter, no crash and no exception: a ticket before a human.
CONSTANTS
  Tickets = {1, 2}
  Jobs = {j1, j2}
  NoTicket = NoTicket
  Trackers = {"linear"}
  MaxConcurrent = 1
  MaxAwaiting = 2
  PollsRaise = FALSE
  MaxFaults = 0
SPECIFICATION Spec
PROPERTY NeverRetried
