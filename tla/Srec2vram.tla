----------------------------- MODULE Srec2vram ------------------------------
(***************************************************************************)
(* src/tools/srec2vram/srec2vram.c, which turns a file into the words of a *)
(* memory of the FPGA: line by line, until the end of file is seen.        *)
(***************************************************************************)
EXTENDS Srec

CONSTANTS
  rambase, ramsize,   \* the memory: its arguments
  PAL,                \* bytes of a word: four in the code
  Basura              \* what malloc may give

ASSUME VramAssumption ==
  /\ rambase \in Dir /\ PAL \in Nat \ {0} /\ ramsize \in Nat
  /\ ramsize % PAL = 0 /\ rambase + ramsize < M
  /\ Basura \subseteq Byte

VARIABLES
  ram,        \* the memory's bytes
  line,       \* the line buffer
  leidas,     \* lines read
  salto,      \* the file ends with a newline
  vfase,
  vram        \* what was printed: a word a line

vvars == <<ram, line, leidas, salto, vfase, vram>>

EnVentana_incluida(a) == rambase <= a /\ a <= (rambase + ramsize) % M
EnVentana(a) == rambase <= a /\ a < (rambase + ramsize) % M

\* parseline: the bytes of the line that lie in the window are written.
parseline(l, bytes) ==
  LET escritas == {i \in 0..bytes - 1 : EnVentana((l.dir + i) % M)}
      Sitio(i) == ((l.dir + i) % M) - rambase
  IN [o \in DOMAIN ram \cup {Sitio(i) : i \in escritas} |->
        IF \E i \in escritas : Sitio(i) = o
        THEN l.dat[1 + ((rambase + o - l.dir) % M)] ELSE ram[o]]

\* A line that is data is put in memory, any other is passed over.
Procesa_cinco(l) == ram' = IF l.tipo \in Datos THEN parseline(l, l.cuenta - 5) ELSE ram
Procesa(l) == ram' = IF l.tipo \in Datos
                     THEN parseline(l, l.cuenta - Cabecera(l.tipo)) ELSE ram

\* One turn of the loop. feof is true only behind a read that met the end: a
\* file that ends with a newline has the last line processed once more, since
\* the result of fgets is not looked at.
Linea ==
  /\ vfase = "lee"
  /\ IF leidas < Len(fichero)
     THEN /\ leidas' = leidas + 1 /\ line' = fichero[leidas + 1]
          /\ vfase' = IF leidas + 1 = Len(fichero) /\ ~salto THEN "escribe" ELSE "lee"
     ELSE /\ vfase' = "escribe" /\ UNCHANGED <<leidas, line>>
  /\ Procesa(line')
  /\ UNCHANGED <<salto, vram>>

\* The words, their first byte the most significant.
Imprime ==
  /\ vfase = "escribe" /\ vfase' = "fin"
  /\ vram' = [w \in 1..ramsize \div PAL |-> [b \in 1..PAL |-> ram[(w - 1) * PAL + b - 1]]]
  /\ UNCHANGED <<ram, line, leidas, salto>>

VInit == /\ \E x \in Basura : ram = [o \in 0..ramsize - 1 |-> x]
         /\ line = [tipo |-> "", cuenta |-> 0, dir |-> 0, dat |-> <<>>]
         /\ leidas = 0 /\ salto \in BOOLEAN /\ vfase = "lee" /\ vram = <<>>

VNext == (Linea \/ Imprime) /\ UNCHANGED fichero
=============================================================================
