\* Two tickets behind a pull request, one human and one bot.
CONSTANTS
  Tickets = {2, 3}
  PullRequests = {1}
  Parties = {"human", "bot"}
  Humans = {"human"}
  Trackers = {"github", "linear"}
  MaxEvents = 2
  MaxTime = 1
  MaxMoves = 1
SPECIFICATION FairSpec
INVARIANTS TypeOK
PROPERTIES DispatchedOnce GrantStoodDuringTick ListingIsWhole GrantedIsDispatched
