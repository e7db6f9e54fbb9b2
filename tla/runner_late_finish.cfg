\* No crash and no exception: a job that finishes between the two polls.
CONSTANTS
  Tickets = {1, 2}
  Jobs = {j1, j2}
  NoTicket = NoTicket
  Trackers = {"linear", "github"}
  MaxConcurrent = 1
  MaxAwaiting = 1
  PollsRaise = FALSE
  MaxFaults = 0
SPECIFICATION Spec
INVARIANT UnattendedIsAnswered
