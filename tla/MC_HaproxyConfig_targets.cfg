\* Up to two bind targets per listener, one listener: a bind line
\* `bind a:p,b:p` as haproxy_template renders for a VIP with additional VIPs.
CONSTANTS
  Vips <- MCVips
  Modes <- MCModes
  MaxTargets = 2
  MaxGroups = 1
SPECIFICATION ICSpec
INVARIANT VipRoundTrip
CHECK_DEADLOCK FALSE
