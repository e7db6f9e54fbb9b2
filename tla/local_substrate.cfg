\* One card, two intents, a directory to spare for a submit that died before
\* its marker; two faults.
CONSTANTS
  Keys = {k1, k2}
  Handles = {h1, h2, h3}
  NoKey = NoKey
  NoHandle = NoHandle
  MaxConcurrent = 1
  MaxFaults = 2
SPECIFICATION FairSpec
INVARIANTS TypeOK OneJobPerIntent RefusedIsUnstarted AnswersAreTrue CardIsNotShared
PROPERTIES RecordedSlotIsFreed ImplementsSubstrate
\* Nothing is left to do once every job is over and every directory is used.
CHECK_DEADLOCK FALSE
