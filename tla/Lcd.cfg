CONSTANTS
  N = 6
  Palabras = 2
  Letras = 2
  Textos = {"uno", "otro"}
  Blanco = "uno"
  Maestros = {"obediente", "libre"}
SPECIFICATION FairSpec
INVARIANTS FilaMostrada FilaEnSuLinea DoneEsReposo
PROPERTIES DatosEstables SiempreVuelve
