SPECIFICATION CacheSpec
CONSTANTS
  Nodes = {n1, n2, n3, n4}
  my_id_list = my_id_list
  NULL = NULL
INVARIANTS
  WellLinked
  NothingLeaks
  OnlyGenaRemains
PROPERTIES
  FindExact
\* linked_list_init() and linked_list_exit() come to their end.
CHECK_DEADLOCK FALSE
