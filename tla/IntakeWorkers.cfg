\* One draft and both its passes, one machine allowed, three slots, two mishaps, or two ticks at once.
CONSTANTS
  MaxCid = 1
  Texts = {a}
  Artworks = {}
  NoCard = NoCard
  MaxDrafts = 1
  Contributors = {ann}
  Admins = {}
  HasEmail = {}
  Workers = {1, 2, 3}
  Requests = {}
  MaxActive = 1
  MaxPerDay = 1
  MaxPasses = 2
  MaxTalk = 0
  DailyBudget = 1
  MaxCost = 1
  MaxSpent = 2
  NoOne = NoOne
  NoWorker = NoWorker
  NoReq = NoReq
  Proposals = {}
  MaxMachines = 1
  MaxTicks = 2
  MaxMishaps = 2
SPECIFICATION PoolSpec
INVARIANTS
  MachinesBounded
PROPERTIES
  JobsEnd
  MachinesGo
CHECK_DEADLOCK FALSE
