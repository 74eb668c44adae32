CONSTANTS
  DELAY = 3
  N = 3
  Pulso = 2
  Rebote = 15
  Pausa = 44
  Teclas <- MCTeclas
SPECIFICATION Spec
INVARIANTS PulsacionUnica Anunciada
