SPECIFICATION Spec
CONSTANTS
  Partia <- Pochody
  ChybySiete = {0}
INVARIANTS ZhodaPostavenia PesiaciNaMieste
CHECK_DEADLOCK FALSE
