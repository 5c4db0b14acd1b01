SPECIFICATION Spec
CONSTANTS
  f1 = f1
  f2 = f2
  a = a
  b = b
  c = c
  d1 = d1
  d2 = d2
  d3 = d3
  d4 = d4
  t1 = t1
  NULL = NULL
  Func = {f1, f2}
  Callback = {a, b, c}
  Detour = {d1, d2, d3, d4}
  Trace = {t1}
  TChunk = {tc1, tc2}
  WChunk = {wc1, wc2}
  FuncOf <- MCFuncOf
  CallbackOf <- MCCallbackOf
  Priority <- MCPriority
SYMMETRY MCSymmetry
INVARIANTS
  TypeOK
  ActiveIsListed
  EntryFollowsLists
  ChainIsWhole
  ChunksAreOwned
  EnabledCallbacksDiffer
  NoCallbackCycle
PROPERTY KeepsPromise
