SPECIFICATION Spec
CONSTANTS
  Mena = {jan}
  Cudzi = {eva}
  Skupiny = {10, 11, 12}
  NULL = NULL
  PRIKAZOV = 4
  CUDZICH = 1
INVARIANTS TypeOK PisesTamKdeSi PoOdhlaseniJedna EchoIbaPoZmene
PROPERTIES PocuvasVoVsetkych StalePocuva
CHECK_DEADLOCK FALSE
