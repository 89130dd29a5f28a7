SPECIFICATION Spec
CONSTANTS
  backpack = backpack
  pouch = pouch
  c1 = c1
  c2 = c2
  n1 = n1
  Thing = {backpack, pouch, c1, c2, n1}
  Bag = {backpack, pouch}
  Type <- MCType
  Capacity <- MCCapacity
  StackMax = 2
  Slot = {1, 2}
  Pack = 1
  Fits <- MCFits
  InitialPlaces <- MCPlaces
  Me = Me
  Floor = Floor
  NoThing = NoThing
  MaxGifts = 1
  Things = {"bag", "coin"}
  Bags = {"bag"}
  Slots = {3}
  Depots = {0}
  Conditions = {"poison"}
  Looks = {1, 2}
  Dex = {1}
  Quests = {1}
  OthersKeys = {1}
  PacketRows = 2
  MaxChanges = 3
  MaxFaults = 1
SYMMETRY CoinSymmetry
CONSTRAINT NothingLostYet
INVARIANTS ItemsPlaced Conserved SavedWhole
CHECK_DEADLOCK FALSE
