SPECIFICATION FairSpec
CONSTANTS
  MaxPrompts = 2
  MaxLoops = 2
  MaxUses = 2
  MaxNotes = 1
INVARIANTS TurnKeepsPairing OneToolAfterInterrupt ExecutedIsRecorded
PROPERTIES TurnReturns
CHECK_DEADLOCK FALSE
