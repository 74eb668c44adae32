CONSTANTS
  Palabras = 3
  Renglones = 12
  Teclas = 2
SPECIFICATION FairSpec
INVARIANTS FilasCompletas SinMezcla
PROPERTIES ManejadorTermina MainTerminaSinTecla TeclaAtendida
CHECK_DEADLOCK FALSE
