SPECIFICATION Spec
CONSTANTS
  Mac = {a, b, c}
  NETS = 1
  OCTET = 8
  Ciaddr <- CiaddrBelow
  Ranges <- RangeThreeToFour
  DHCPS_LEASE_TIMER = 2
  MAX_STATION_NUM = 8
SYMMETRY Symmetry
INVARIANT AddressesDiffer
