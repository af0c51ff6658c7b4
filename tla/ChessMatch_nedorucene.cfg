SPECIFICATION Spec
CONSTANTS
  Partia <- KratkeOtvorenie
  ChybySiete = {0, 11}
INVARIANTS NikdyNecakajuObaja
CHECK_DEADLOCK FALSE
