SPECIFICATION BotSpec
CONSTANTS
  Bot = {b1, b2, b3}
  Builder = {b1, b2}
  Addr = {a1, a2, a3}
  NULL = NULL
INVARIANT NoneIsLeft
