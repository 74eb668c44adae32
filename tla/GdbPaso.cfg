CONSTANTS
  B = 4
  CERO = 4
  ESC = 8
  TOPE = 3
  Programa = "vecino"
  RAM <- MCRAM
  Imagen <- MCImagen
  Insn <- MCInsn
  MAIN <- MCMAIN
  Peticiones <- MCPeticiones
SPECIFICATION Spec
INVARIANTS MemoriaIntegra
