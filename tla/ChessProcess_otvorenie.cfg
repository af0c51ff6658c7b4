SPECIFICATION Spec
CONSTANTS
  cisloHraca = 0
  Partia <- Otvorenie
  ChybySiete = {0, 10}
INVARIANTS TypeOK PamatVlastnena SuradniceFigurok PesiaciNaMieste
PROPERTIES OdmietnutyTahVrateny VlastnyKralVBezpeci
CHECK_DEADLOCK FALSE
