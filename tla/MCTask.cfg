SPECIFICATION TaskSpec
CONSTANTS
  Contracts <- MCContracts
  Counts = {2, 9}
  IoIntents = {2, 3}
  Sizes = {2}
  MaxTicks = 4
  MaxBytes = 11
  MaxLive = 2
INVARIANTS TaskTypeOK IoWithinLimit  IntentNotLeaked BounceReturned MemExact
