CONSTANTS
  Palabras = 2
  Renglones = 12
  Teclas = 1
SPECIFICATION FairSpec
PROPERTIES MainTermina
CHECK_DEADLOCK FALSE
