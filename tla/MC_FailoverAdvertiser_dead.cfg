\* The first VIP of the list has no interface in the namespace.
CONSTANTS
  Lists <- MCLists
  Plugged <- MCPlugged
  Unpluggable <- MCDeadV6
  MaxSendFailures = 0
SPECIFICATION Spec
PROPERTY EveryReachableAdvertised
