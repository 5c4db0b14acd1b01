SPECIFICATION Spec
CONSTANTS
  Prop = {1, 2, 3, 4}
  Player = {1}
  Word = {1, 2, 3, 4}
  Slots = 3
  WordsOf <- MCWordsOf
  PropsAt <- MCPropsAt
  VarLen = {1}
  LocalOnly = {1}
  MaxChanges = 2
  MaxTick = 3
  MaxSwitches = 3
CHECK_DEADLOCK FALSE
INVARIANTS
  PacketsAreCurrent
  OffsetsFit
  DeltasAreComplete
