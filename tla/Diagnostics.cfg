SPECIFICATION DSpec
CHECK_DEADLOCK FALSE
CONSTANTS
  None = None
  Junk = Junk
  Firmware <- MCFirmware
  MaxSwitches = 1
  Hosts <- MCHosts
  Defaults <- MCDefaults
  MaxStarts = 2
  MaxTrouble = 1
  Timeouts = {5, 60}
INVARIANTS
  IdsReported
  TopologyMatchesIds
  DiscoveryComplete
  SupportsIsTrue
  ProbedPairReported
  AddressAgrees
PROPERTIES
  Returns
