\* Requests served one at a time.
CONSTANTS
  LBs <- MCLBs
  LvsListeners <- MCLvs
  Threads <- MCOneThread
  NoOwner = NoOwner
SPECIFICATION Spec
INVARIANT AgentTypeOK
INVARIANT RunningMonitored
