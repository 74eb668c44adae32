CONSTANTS
  BB = 8
  ANCHO = 2
  LINESIZE = 40
  Ficheros <- MCFicheros
  rambase = 8
  ramsize = 4
  PAL = 2
  Basura = {0, 7}
  RAM <- MCRAM
  PRIMERA = 8
  CUANTAS = 4
  RELLENO = 6
  ASTERISCO = 0
  U = 1
  D = 2
  G = 3
  OTRA = 4
  Saludo <- MCSaludo
  Firmas <- MCFirmas
  max_tries = 3
  COLA = 8
SPECIFICATION FairSpec
INVARIANTS CargaIntegra VramCompleta
PROPERTIES SinFalsaAlarma SesionAcaba
CHECK_DEADLOCK FALSE
