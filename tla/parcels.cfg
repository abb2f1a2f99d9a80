\* Two players take, join, part and give up three plots in a row.
SPECIFICATION Spec
CONSTANTS
  p1 = p1
  p2 = p2
  f1 = f1
  f2 = f2
  f3 = f3
  None = None
  Players = {p1, p2}
  Plots = {f1, f2, f3}
  Neighbours <- MCNeighbours
  Estates = {e1}
  StartMoney <- MCStartMoney
  GroundPrice = 1
  MaxVerdopplungen = 1
  JoinPrice = 1
  MaxPlots = 3
  MaxFields = 3
  Faults = {"refused", "no_answer", "crash"}
CHECK_DEADLOCK FALSE
INVARIANTS MoneyMatchesPlots EstatesAreWhole CacheIsTrue
PROPERTIES BuildersKeepTheirRight
