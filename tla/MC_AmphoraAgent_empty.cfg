\* Requests served one at a time, no LVS listeners.
CONSTANTS
  LBs <- MCLBs
  LvsListeners <- MCNoLvs
  Threads <- MCOneThread
  NoOwner = NoOwner
SPECIFICATION Spec
INVARIANT NeverPassesWithoutProxy
