SPECIFICATION Spec
CONSTANTS
  Trader = {p1, p2, p3}
  Item = {i1, i2, i3}
  Box = {i3}
  BagSize = 1
  Stacks <- MCStacks
  Nobody = Nobody
  NoItem = NoItem
  Ground = Ground
  Gone = Gone
  Member = {m1, m2, m3, m4}
  PartyId = {x1, x2, x3, x4}
  NoParty = NoParty
  Trafficker = {a, b}
  Amounts = {1, 2}
  Prices = {1}
  Fee = 1
  MaxOffers = 2
  Funds = 3
  LastOffer = 2
  LastCheck = 2
  Keeper = {k1, k2}
  Caught = {g1, g2, g3}
  NoKeeper = NoKeeper
  Slots = {1, 2}
  Pokemon = {1, 2, 3}
  RateSpawn = 1
  Decaying = {t}
  Kind <- MCKind
  Never = "never"
  Away = "away"
  Durations = {1, 3, 15}
  MaxEntries = 2
  lila = lila
  tom = tom
  ana = ana
  house = house
  b1 = b1
  b2 = b2
  House = {house}
  Person = {lila, tom, ana}
  Premium = {lila, ana}
  HalfBed = {b1, b2}
  NextBedItem <- MCNextBedItem
  HouseOf <- MCHouseOf
  Texts <- MCTexts
  RentWarnings = 1
  NoOne = NoOne
  NoSale = NoSale
  Street = Street
  MaxTenancies = 2
  MaxRestarts = 2
  Talker = {a1, a2}
  Subscriber = {a1, a2}
  Public = {World}
  Circle = {x5}
  PrivateId = {100, 101}
  NoCircle = NoCircle
SYMMETRY HouseSymmetry
INVARIANTS OutOfItsBall PokemonHeld SpawnGoesOn ChannelsSound HousesSound
PROPERTIES TradeFair PartyGoesOn MarketConserves DecayPunctual HousesKept
