\* One draft, a card turned down, a later pass.
CONSTANTS
  MaxCid = 2
  a = a
  b = b
  Texts = {a, b}
  Artworks = {}
  NoCard = NoCard
  MaxDrafts = 1
  Contributors = {ann}
  Admins = {}
  HasEmail = {ann}
  Workers = {w1}
  Requests = {r1}
  MaxActive = 1
  MaxPerDay = 1
  MaxPasses = 2
  MaxTalk = 1
  DailyBudget = 0
  MaxCost = 0
  MaxSpent = 0
  NoOne = NoOne
  NoWorker = NoWorker
  NoReq = NoReq
  Proposals <- ChatProposals
SPECIFICATION Spec
PROPERTY ContributorNoBinds
CHECK_DEADLOCK FALSE
