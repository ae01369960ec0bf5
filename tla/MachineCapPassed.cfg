\* Two drafts, one machine allowed, two slots, two requests spawn at once.
CONSTANTS
  MaxCid = 1
  Texts = {a}
  Artworks = {}
  NoCard = NoCard
  MaxDrafts = 2
  Contributors = {ann}
  Admins = {}
  HasEmail = {}
  Workers = {1, 2}
  Requests = {}
  MaxActive = 2
  MaxPerDay = 2
  MaxPasses = 1
  MaxTalk = 0
  DailyBudget = 0
  MaxCost = 0
  MaxSpent = 0
  NoOne = NoOne
  NoWorker = NoWorker
  NoReq = NoReq
  Proposals = {}
  MaxMachines = 1
  MaxTicks = 1
  MaxMishaps = 0
SPECIFICATION PoolSpec
INVARIANT MachineCapHolds
CHECK_DEADLOCK FALSE
