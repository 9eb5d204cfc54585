SPECIFICATION Spec
CONSTANTS
  NoGroup = NoGroup
  NoScene = NoScene
  NoFunc = NoFunc
  f1 = f1
  f2 = f2
  Fickle <- MCFickle
  MaxChanges = 1
  g1 = g1
  g2 = g2
  d1 = d1
  d2 = d2
  d3 = d3
  d4 = d4
  d5 = d5
  a = a
  b = b
  c = c
  u = u
  GroupIds <- MCGroups
  DeviceIds <- MCDevices
  Scenes <- MCScenes
  GroupOf <- MCGroupOf
  Members <- MCMembers
  Registered <- MCRegistered
  Loads <- MCLoads
  Entry <- MCEntry
  Subscribers <- MCSubscribers
  Raising <- MCRaising
  Levels <- MCLevels
  Sent <- MCSent
  MaxTasks = 2
INVARIANTS
  TypeOK
  SerialEffect
  GroupRemembersLatest
  SubscribersUpToDate
PROPERTIES
  GroupHears
