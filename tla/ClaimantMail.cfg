SPECIFICATION Spec
CONSTANTS
  e1 = e1  e2 = e2
  ana = ana
  server = server  daily = daily
  Events = {e1, e2}
  Claimants = {ana}
  AtFirst <- MCAtFirst
  ClaimantOf <- MCClaimantOf
  Passes = {server, daily}
  Daily = {daily}
  Batches = {1, 2}
  MAX_ATTEMPTS = 2
  MaxChanges = 1
  MaxCrashes = 2
  NoBatch = NoBatch
  NoPass = NoPass
  NoOne = NoOne
INVARIANTS
  MailTypeOK
  NeverTwice
  DeliveriesAccounted
PROPERTIES
  MailIsTrue
  FrozenForGood
  MailSettles
CHECK_DEADLOCK FALSE
