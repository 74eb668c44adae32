CONSTANTS
  B = 4
  CERO = 4
  ESC = 8
  TOPE = 3
  Programa = "bucle"
  RAM <- MCRAM
  Imagen <- MCImagen
  Insn <- MCInsn
  MAIN <- MCMAIN
  Peticiones <- MCPeticiones
SPECIFICATION FairSpec
INVARIANTS StubIntegro
PROPERTIES RespuestaVeraz InterrupcionesAlReanudar PasoTermina ImplementaDepurador
