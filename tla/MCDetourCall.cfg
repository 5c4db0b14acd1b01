SPECIFICATION CallSpec
CONSTANTS
  f1 = f1
  f2 = f2
  a = a
  b = b
  c = c
  d1 = d1
  d2 = d2
  d3 = d3
  t1 = t1
  NULL = NULL
  Func = {f1, f2}
  Callback = {a, b, c}
  Detour = {d1, d2, d3}
  Trace = {t1}
  TChunk = {tc1, tc2}
  WChunk = {wc1, wc2}
  FuncOf <- MCTwoFuncs
  CallbackOf <- MCCallbackOf
  Priority <- MCRanked
  MaxDepth = 8
  MaxOpen = 2
  MaxMidCall <- MCMidCall
  MaxDrift = 1
SYMMETRY MCSymmetry
CHECK_DEADLOCK FALSE
INVARIANTS
  OnlyCutCallsFail
  CallStaysInFunc
  ReturnsToCaller
  CountsOpenCalls
  PriorityNeverRises
  RunsOncePerCall
