\* A read with an image left open and its pick-ups by two contributors, both
\* confirms in flight at once; a worker may remove the copies and note what the
\* graph has under their numbers.
CONSTANTS
  MaxCid = 2
  a = a
  b = b
  Texts = {a}
  Artworks = {a}
  NoCard = NoCard
  MaxDrafts = 3
  Contributors = {ann, bob}
  Admins = {}
  HasEmail = {ann, bob}
  Workers = {w1}
  Requests = {r1, r2}
  MaxActive = 1
  MaxPerDay = 0
  MaxPasses = 1
  MaxTalk = 0
  DailyBudget = 0
  MaxCost = 0
  MaxSpent = 0
  NoOne = NoOne
  NoWorker = NoWorker
  NoReq = NoReq
  Proposals <- NoteProposals
SYMMETRY PickerSymmetry
SPECIFICATION LeftReadSpec
INVARIANTS
  DecidedByItsPickup
PROPERTIES
  ItemsDecidedOnce
  ContractKept
CHECK_DEADLOCK FALSE
