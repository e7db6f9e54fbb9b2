\* One session at a time, two lineages, four rows.
CONSTANTS
  NotFinite = NotFinite
  NoDiff = NoDiff
  NoJob = NoJob
  NoRule = NoRule
  NoExp = NoExp
  Unrecorded = Unrecorded
  NoVerdict = NoVerdict
  NotRunning = NotRunning
  Unjudged = Unjudged
  MaxUsd = 1
  MaxAttempts = 1
  Base = base
  Child = child
  S1 = s1
  S2 = s2
  Sessions = {s1}
  ExpIds = {base, child}
  Rules <- MCRules
  Evidence <- MCEvidence
  Jobs <- MCJobs
  Grouped = TRUE
  MaxRows = 4
SPECIFICATION Spec
INVARIANTS TypeOK ClaimIsAudited PromotionRestsOnSeeds NoHindsight
PROPERTIES ExhaustedStaysClosed  ImplementsPromotionRecord
CHECK_DEADLOCK FALSE
