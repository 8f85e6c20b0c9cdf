SPECIFICATION Spec
CONSTANTS
  Mac = {a, b}
  NETS = 1
  OCTET = 5
  ServedRange <- TwoToThree
  MaxRequests = 1
  MaxReplies = 1
  DHCPS_LEASE_TIMER = 2
  MAX_STATION_NUM = 8
SYMMETRY Symmetry
INVARIANTS
  TypeOK
  AckIsKept
  BoundAsAsked
  SharedOnlyAfterNak
