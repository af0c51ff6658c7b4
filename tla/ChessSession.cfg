SPECIFICATION Spec
CONSTANTS
  Procesy = {p1, p2, p3}
  NULL = NULL
  PORT = PORT
  SPOJENI = 2
  KONCOV = 1
INVARIANTS TypeOK KanalHry JedenNaTahu UnikLenPoKlientovi
PROPERTIES CakajuciSaDocka
CHECK_DEADLOCK FALSE
