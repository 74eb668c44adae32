CONSTANTS
  B = 4
  CERO = 4
  ESC = 15
  BUFMAX = 5
  FALLOS = 2
  Sesion <- MCSesion
SPECIFICATION EFairSpec
INVARIANTS SoloLoPedido SinDesborde
PROPERTIES RespuestaDeSuPeticion Contestada
