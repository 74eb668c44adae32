CONSTANTS
  NM = 3
  Esclavos = {"bram0", "lcd0"}
  SinReset = {"bram0"}
  ConSel = {"lcd0"}
  Mudos = {"nadie"}
  MaxPalabras = 2
SPECIFICATION FairSpec
INVARIANTS CadaPalabraUnaVez Turnos IInv
PROPERTIES SeAtiende
