CONSTANTS
  Sesiones = 2
SPECIFICATION RSpec
INVARIANTS FilasDelRegistro
