CONSTANTS
  W = 6
  FCPU = 60
  SEG_MS = 2
  SEG_TIC = 3
  TW = 4
  DIGITO = 2
  VECES = 2
  LEDS = 3
  TXC = 5
  RETRASO = 1
SPECIFICATION FairSpec
INVARIANTS SalidaIntegra TicsContados
PROPERTIES MsleepJusto LedsRecorren
