SPECIFICATION Spec
CONSTANTS
  Partia <- Spor
  ChybySiete = {0}
INVARIANTS ZiadnaFalosnaKontumacia
CHECK_DEADLOCK FALSE
