\* A pick-up that reads on: the number of a new card collides with one of the source.
CONSTANTS
  MaxCid = 2
  a = a
  b = b
  Texts = {a}
  Artworks = {}
  NoCard = NoCard
  MaxDrafts = 2
  Contributors = {ann}
  Admins = {}
  HasEmail = {ann}
  Workers = {w1}
  Requests = {r1}
  MaxActive = 2
  MaxPerDay = 2
  MaxPasses = 1
  MaxTalk = 1
  DailyBudget = 0
  MaxCost = 0
  MaxSpent = 0
  NoOne = NoOne
  NoWorker = NoWorker
  NoReq = NoReq
  Proposals <- ChatProposals
SPECIFICATION Spec
INVARIANT NothingUndecidedIsLost
CHECK_DEADLOCK FALSE
