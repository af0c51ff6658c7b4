SPECIFICATION Spec
CONSTANTS
  POCET = 3
  Hostia = {a, b}
  Ciele = {a, b}
  NULL = NULL
  RAMCOV = 1
  CHYB = 1
INVARIANTS TypeOK JedenRiadok VidenyAleboChyba
PROPERTIES UciaciSaMost KazdyPrideNaRad
