SPECIFICATION Spec
CONSTANTS
  Net <- TwoNets
  OCTET = 6
  HALF = 3
  DHCPS_MAX_LEASE = 2
  DHCPS_LEASE_TIME_DEF = 2
  MaxMinutes = 2
INVARIANTS
  TypeOK
  StartedRangeIsSound
PROPERTIES
  StartedConfigIsStable
