SPECIFICATION CommandSpec
CONSTANTS
  N = 2
  D = 2
  Setups <- Tables
  MaxChains = 2
  MaxTime = 2
  MaxBytes = 1
INVARIANTS TypeOK ReadIsTheMachine GroupsAreMembers PingsAreExcused GraphIsFed RateIsEarned SuccessIsTrue
