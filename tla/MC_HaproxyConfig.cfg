\* One bind target per listener, up to two listeners and two LVS groups.
CONSTANTS
  Vips <- MCVips
  Modes <- MCModes
  MaxTargets = 1
  MaxGroups = 2
SPECIFICATION ICSpec
INVARIANT ParseRoundTrip
INVARIANT VipRoundTrip
INVARIANT LvsRoundTrip
CHECK_DEADLOCK FALSE
