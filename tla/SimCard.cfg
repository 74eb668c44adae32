CONSTANTS
  Etu = 8
  Muestra = 4
  MuestraTarjeta = 4
  MinPausa = 16
  MaxPausa = 19
SPECIFICATION FairSpec
INVARIANTS Acuerdo NoChoque ByteLeido ComandoOido
PROPERTIES ImplementaLinea SesionTermina
