SPECIFICATION Spec
CONSTANTS
  Markets = {1, 2}
  Commodities = {1, 2}
  Codes = {"teff", "oil", "salt"}
  Basket <- MCBasket
  Prices = {1, 2}
  NoPrice = NoPrice
  NoRow = NoRow
  Instants = {0, 1, 2, 3, 4, 5, 6, 7, 8}
  DayLength = 2
  MaxTied = 2
  CompareDays = 1
  WeekDays = 1
  SpikeDays = 4
  MinPoints = 5
  Databases <- MCDatabases
  Start = 7
  Batches <- MCBatches
  Quotes = {1, 3}
  MaxChanges = 1
CHECK_DEADLOCK FALSE
INVARIANT WholeBaskets
