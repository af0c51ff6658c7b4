SPECIFICATION Spec
CONSTANTS
  Sirka = 3
  NULL = NULL
  MAX_ROUTES = 4
  ADDRESS_COUNT = 2
INVARIANTS TypeOK PocetSedi
PROPERTIES NajdlhsiPrefix
CHECK_DEADLOCK FALSE
