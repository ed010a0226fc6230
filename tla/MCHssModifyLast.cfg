CONSTANTS
  Levels = 1
  LeavesPerTree = 4
  TreeBound = 4
  Message = {m1}
  Unasked = Unasked
  Refused = Refused
SPECIFICATION ModifySpec
INVARIANT LastIndexLeavesOne
