\* One runner: every job gets exactly one outcome, and gets it in the end; the
\* clock leaves the trailing day, and two prices cross the daily cap.
CONSTANTS
  Runners = {r1}
  Keys = {k1, k2}
  NoOne = NoOne
  NoKey = NoKey
  Quotes = {1, 2}
  PerJobCap = 2
  PerDayCap = 2
  Day = 1
  Windows = {1}
  MaxTime = 2
  MaxFaults = 1
  MaxResets = 1
SPECIFICATION FairSpec
INVARIANTS SpendWithinCap
PROPERTIES OutcomeIsFinal EveryJobSettles
