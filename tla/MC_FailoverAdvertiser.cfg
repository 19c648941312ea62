\* Every interface is eventually plugged; up to two transient send failures.
CONSTANTS
  Lists <- MCLists
  Plugged <- MCPlugged
  Unpluggable <- MCNone
  MaxSendFailures = 2
SPECIFICATION Spec
INVARIANT AdvTypeOK
PROPERTY EveryReachableAdvertised
