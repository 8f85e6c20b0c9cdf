SPECIFICATION Spec
CONSTANTS
  Mac = {a, b, c}
  NETS = 1
  OCTET = 8
  Ciaddr <- CiaddrUpward
  Ranges <- RangeTwoToFour
  DHCPS_LEASE_TIMER = 2
  MAX_STATION_NUM = 3
SYMMETRY Symmetry
PROPERTY UsedIsKept
