SPECIFICATION Spec
CONSTANTS
  Listed = {shola}
  Other = other
  Commodities = {teff}
  long = long
  short = short
  rounded = rounded
  Prices <- MCPrices
  Printed <- MCPrinted
  Phones = {short}
  Names = {skip}
  Skip = skip
  Junk = junk
  None = None
  SttEnabled = TRUE
  Slots = {s1}
  Modes = {"polling"}
  Doors = {TRUE, FALSE}
INVARIANTS
  TypeOK
  SentIsLastShown
  AppliedIsShown
  BanHasCause
  ReportersWereApproved
