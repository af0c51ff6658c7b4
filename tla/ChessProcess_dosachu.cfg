SPECIFICATION Spec
CONSTANTS
  cisloHraca = 0
  Partia <- Otvorenie
  ChybySiete = {0}
PROPERTIES NikdyDoSachu
CHECK_DEADLOCK FALSE
