SPECIFICATION Spec
CONSTANTS
  g1 = g1
  light = light
  other = other
  RouterGroups = {g1}
  DeviceIds = {light, other}
  Loads = {light, other}
  ErrorCode = ErrorCode
  ErrorGroup = ErrorGroup
  ErrorNumber = 15
  None = None
  SubnetOf <- MCSubnetOf
  RouterMembers <- MCRouterMembers
  RouterLastScene <- MCRouterLastScene
  RouterNames <- MCRouterNames
  RouterLevel <- MCRouterLevel
  Watched = {g1, light}
  MaxSubscribed = 1
  TableLevel <- MCTableLevel
  MaxLeft = 1
  MaxEvents = 2
CHECK_DEADLOCK FALSE
INVARIANTS
  TypeOK
  CompleteDiscovery
  GroupStateIsReal
  SubscribersTold
PROPERTIES
  SubscriptionsKept
  NamesNeverAbort
