SPECIFICATION EventSpec
CONSTANTS
  Values = {a, b}
  Iterators = {i, j}
  MaxLen = 3
SYMMETRY Symmetry
INVARIANTS VisitsSnapshot CurrentSurvives RegistryExact
CHECK_DEADLOCK FALSE
