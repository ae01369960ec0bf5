\* One draft and its cards through every pass, two workers, an admin beside the
\* owner, one confirm in flight.
CONSTANTS
  MaxCid = 2
  a = a
  b = b
  Texts = {a, b}
  Artworks = {a}
  NoCard = NoCard
  MaxDrafts = 1
  Contributors = {ann, root}
  Admins = {root}
  HasEmail = {ann}
  Workers = {w1, w2}
  Requests = {r1}
  MaxActive = 1
  MaxPerDay = 1
  MaxPasses = 2
  MaxTalk = 1
  DailyBudget = 0
  MaxCost = 0
  MaxSpent = 0
  NoOne = NoOne
  NoWorker = NoWorker
  NoReq = NoReq
  Proposals <- ReviewProposals
SYMMETRY WorkerSymmetry
SPECIFICATION Spec
INVARIANTS
  TypeOK
  QueueConsistent
  PassesBounded
  BatchAsReviewed
  BatchClosed
  CardsAccountedFor
PROPERTIES
  ClaimsExclusive
  TouchedCardsStand
  SubmittedIsFinal
CHECK_DEADLOCK FALSE
