SPECIFICATION Spec
CONSTANTS
  NoGroup = NoGroup
  NoScene = NoScene
  NoFunc = NoFunc
  f1 = f1
  f2 = f2
  Fickle = {}
  MaxChanges = 0
  g1 = g1
  g2 = g2
  d1 = d1
  d2 = d2
  d3 = d3
  d4 = d4
  d5 = d5
  a = a
  b = b
  c = c
  u = u
  GroupIds <- PairGroups
  DeviceIds <- PairDevices
  Scenes <- PairScenes
  GroupOf <- PairGroupOf
  Members <- PairMembers
  Registered <- PairDevices
  Loads <- PairDevices
  Entry <- PairEntry
  Subscribers <- PairSubscribers
  Raising = {}
  Levels <- MCLevels
  Sent <- PairSent
  MaxTasks = 2
PROPERTY
  LastLevelIsBeforeOff
