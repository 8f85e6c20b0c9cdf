SPECIFICATION Spec
CONSTANTS
  Mac = {a, b, c}
  NETS = 2
  OCTET = 8
  Ciaddr <- CiaddrBothNets
  Ranges <- RangesSecondNet
  DHCPS_LEASE_TIMER = 2
  MAX_STATION_NUM = 3
SYMMETRY Symmetry
INVARIANTS
  TypeOK
  NoSharedAddress
  UsesWhatIsLeased
  OneLeasePerClient
  Sorted
PROPERTIES
  RefusedOnlyWhenFull
