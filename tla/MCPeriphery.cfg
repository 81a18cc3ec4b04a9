SPECIFICATION Spec
CONSTANTS
  None = None
  a = a
  b = b
  Ids = {a, b}
  MaxVisits = 3
  MaxLost = 1
  MaxRequeues = 1
  Routes = {ab, ac}
  MaxNavigations = 3
  Archives = {small, other, large}
  Large = {large}
  MaxGeneration = 5
  ProductionApis = {prod}
  ReceiptApis = {rec}
  MaxCrashes = 2
  commit1 = commit1
  commit2 = commit2
  Commits <- MCCommits
  Trees <- MCTrees
  OutputLimit = 2
CHECK_DEADLOCK FALSE
INVARIANTS
  PeripheryTypeOK
  PagesShowTheirOwn
  StartIsSafe
  InspectionIsTrue
  CommandsEndWhole
PROPERTIES
  PagesOnlyMoveForward
  EverythingSettles
