\* Two runners settle the same job: the second row overwrites the first.
CONSTANTS
  Runners = {r1, r2}
  Keys = {k1}
  NoOne = NoOne
  NoKey = NoKey
  Quotes = {1}
  PerJobCap = 1
  PerDayCap = 1
  Day = 1
  Windows = {1}
  MaxTime = 1
  MaxFaults = 0
  MaxResets = 0
SPECIFICATION Spec
PROPERTIES OutcomeIsFinal
