\* Two wallets; TRM's indicators in both orders.
CONSTANTS
  Addresses = {x1, x2}
  Unnamed = Unnamed
  Listed = {x2}
  Reports <- MCReports
SPECIFICATION ScreeningSpec
INVARIANTS
  StrictestWins
CHECK_DEADLOCK FALSE
