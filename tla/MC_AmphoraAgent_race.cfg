\* Two request handlers for different load balancers.
CONSTANTS
  LBs <- MCLBs
  LvsListeners <- MCNoLvs
  Threads <- MCTwoThreads
  NoOwner = NoOwner
SPECIFICATION Spec
INVARIANT RunningMonitored
