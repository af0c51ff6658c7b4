SPECIFICATION Spec
CONSTANTS
  cisloHraca = 0
  Partia <- Otvorenie
  ChybySiete = {0}
INVARIANTS KoniecJeSkutocny
CHECK_DEADLOCK FALSE
