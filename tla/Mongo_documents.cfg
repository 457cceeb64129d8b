CONSTANTS
  i1 = i1  i2 = i2  t1 = t1  t2 = t2
  NIL = NIL
  Threads = {t1}
  Ids = {i1, i2}
  Fields = {"a", "b"}
  Indexed = "a"
  Numbers = {1}
  Puts <- MCPuts
  Filters <- MCFilters
  Asked <- MCAsked
  Updates <- MCUpdates
  Threshold = 2
  MaxOps = 3
SPECIFICATION MongoSpec
CHECK_DEADLOCK FALSE
INVARIANTS IndexesInvisible TraceBothWays FindIsMatch InsertsAreNew
PROPERTIES UpdatesKeepIds
