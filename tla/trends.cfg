CONSTANTS
  a = a
  b = b
  c = c
  d = d
  NoFilter = NoFilter
  Id = {a, b, c, d}
  Category = {"pay", "rent"}
  Tables <- MCTables
  NewRows <- MCNewRows
  Filters <- MCFilters
  Limits = {0, 1, 2, 250}
  Months <- MCMonths
  Instants <- MCInstants
  MaxChanges = 2
SPECIFICATION Spec
INVARIANT TrendsCoverMonths
