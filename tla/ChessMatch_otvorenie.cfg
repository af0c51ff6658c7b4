SPECIFICATION Spec
CONSTANTS
  Partia <- KratkeOtvorenie
  ChybySiete = {0, 10}
INVARIANTS TypeOK JedenNaTahu JednaSprava NikdyNecakajuObaja
PROPERTIES KoniecSaDozvieme HostitelHra KlientHra
CHECK_DEADLOCK FALSE
