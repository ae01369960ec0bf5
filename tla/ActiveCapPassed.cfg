\* Two drafts where one may be active: a failed one is chatted back.
CONSTANTS
  MaxCid = 1
  a = a
  b = b
  Texts = {a}
  Artworks = {}
  NoCard = NoCard
  MaxDrafts = 2
  Contributors = {ann}
  Admins = {}
  HasEmail = {ann}
  Workers = {w1}
  Requests = {r1}
  MaxActive = 1
  MaxPerDay = 2
  MaxPasses = 2
  MaxTalk = 1
  DailyBudget = 0
  MaxCost = 0
  MaxSpent = 0
  NoOne = NoOne
  NoWorker = NoWorker
  NoReq = NoReq
  Proposals <- PickupProposals
SPECIFICATION Spec
INVARIANT ActiveCapHolds
CHECK_DEADLOCK FALSE
