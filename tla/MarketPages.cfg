SPECIFICATION Spec
CONSTANTS
  Stocks = {1, 2}
  Sector <- Banks
  MacroSectors = {"auto"}
  Prices = {1, 2}
  IndicatorRows <- Indicators
  Week = 1
  Month = 2
  Scale = 10000
  MaxSessions = 3
  Missing = Missing
  Tracked = {1, 2}
  Branch <- TwoBranches
  Capitalisation <- Capitalisations
  Shocks <- Scenarios
  Closes = {10, 20}
  Index <- Benchmark
  Quantities = {1, 2}
  MinObservations = 1
  Recent = 2
  LastDate = 3
  MaxEdits = 2
  Unknown = Unknown
  Owners = {u1, u2}
  Screened = {1, 2, 3}
  HomeSector <- Homes
  Facts <- Days
  Texts <- Screens
  ScreenIds = {1}
  Undefined = Undefined
INVARIANTS
  MissingIsNeutral
  PagesAgree
  
  ScreensAreHonest
CHECK_DEADLOCK FALSE
