SPECIFICATION Spec
CONSTANTS
  h1 = h1
  h2 = h2
  h3 = h3
  h4 = h4
  c1 = c1
  c2 = c2
  c3 = c3
  c4 = c4
  equip = equip
  think = think
  touch = touch
  NULL = NULL
  Hook = {h1, h2, h3, h4}
  NumWords = 4
  TableStart <- MCTableStart
  Target <- MCTarget
  CallbackOf <- MCCallbackOf
  Pristine <- MCPristine
  EarlyHooks = {}
INVARIANTS
  CallsRunHooks
  OldPointersEnd
  SitsOnItsFunction
PROPERTIES
  KeepsHookOrder
