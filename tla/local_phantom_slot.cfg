\* One crash of a submitter, between meta.json and the pid.
CONSTANTS
  Keys = {k1}
  Handles = {h1, h2}
  NoKey = NoKey
  NoHandle = NoHandle
  MaxConcurrent = 1
  MaxFaults = 1
SPECIFICATION FairSpec
PROPERTY EverySlotIsFreed
CHECK_DEADLOCK FALSE
