SPECIFICATION DriversSpec
CONSTANTS
  Hosts = {"Windows", "Debian", "Linux"}
  Releases <- MCReleases
  Disks <- MCDisks
  MaxSwitches = 1
  MaxInstalls = 0
INVARIANTS
  BannerIsOfTheMode
CHECK_DEADLOCK FALSE
