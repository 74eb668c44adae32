------------------------------- MODULE Carga --------------------------------
(***************************************************************************)
(* A program in an S-record file reaches the board on two ways, through    *)
(* srec2vram into the memories of the FPGA and through the uploader and    *)
(* the boot loader into RAM. They are told here to agree.                  *)
(***************************************************************************)
EXTENDS Srec2vram, Arranque

vars == <<fichero, vvars, avars>>

Init == fichero \in Ficheros /\ VInit /\ AInit

Vram == VNext /\ UNCHANGED avars
Sesion == ANext /\ UNCHANGED vvars

Next == Vram \/ Sesion

Spec == Init /\ [][Next]_vars
FairSpec == Spec /\ WF_vars(Vram) /\ WF_vars(Sesion)
-----------------------------------------------------------------------------
\* Every variable has a value the code can give it.
TypeOK ==
  /\ fichero \in Ficheros
  /\ ram \in [0..ramsize - 1 -> Byte] /\ leidas \in 0..Len(fichero)
  /\ vfase \in {"lee", "escribe", "fin"}
  /\ lpc \in {"saluda", "orden", "start", "size", "sube", "baja", "saltado"}
  /\ c \in Byte /\ k \in 0..ANCHO + Len(Saludo) /\ {start, size, p} \subseteq Dir
  /\ mem \in [RAM -> Byte] /\ rx \in Byte \cup {NADA}
  /\ hl \in Seq(Byte) /\ lh \in Seq(Byte)
  /\ upc \in {"busca", "escucha", "limpia", "lineas", "comprueba", "espera", "fin",
             "terminal", "error"}
  /\ n \in 0..Len(fichero) /\ startAddress \in Dir \cup {NADA}
  /\ firma \in Firmas /\ count \in 0..max_tries

SoloS3(f) == \A x \in DOMAIN f : f[x].tipo \in Datos => f[x].tipo = "S3"

\* When the loader jumps, it is to the file's start address, and memory holds
\* what the file puts there, the filling around it and nothing else new.
ImagenEnMemoria ==
  lpc = "saltado" /\ SoloS3(fichero) =>
    /\ start = startAddress
    /\ \A a \in RAM :
         mem[a] = IF a \in Cubierta(fichero) THEN Pone(fichero, a)
                  ELSE IF a \in PRIMERA..PRIMERA + CUANTAS - 1 THEN RELLENO ELSE 0

\* An uploader whose signature is not in the loader's line, as in the source
\* (upload:15, main.c:51), never gets behind find_bootloader: no byte of memory
\* is written and nothing is started.
SinFirma == ~index(Saludo, firma) =>
              /\ upc \in {"busca", "escucha", "error"} /\ lpc \in {"orden", "saluda"}
              /\ mem = [a \in RAM |-> 0]

\* These, with every write of srec2vram inside what malloc gave, and every
\* byte, address and count of the loader and the uploader in its range.
CargaIntegra == TypeOK /\ ImagenEnMemoria /\ SinFirma

\* The words of srec2vram hold every byte that the file puts in the window,
\* whatever malloc gave and although the last line is read twice.
VramCompleta ==
  vfase = "fin" =>
    \A w \in DOMAIN vram : \A b \in 1..PAL :
      LET a == rambase + (w - 1) * PAL + b - 1
      IN IF a \in Cubierta(fichero) THEN vram[w][b] = Pone(fichero, a) ELSE vram[w][b] \in Basura

\* A difference that the check shows at byte x of a line is one between memory
\* and the line, unless it is at the byte behind a line of one byte or none: there
\* the check asks one too many (upload:179) and what it shows says nothing.
Fundada(l, x) == IF x \in DOMAIN l.dat THEN Leido(Lugar(l, x)) # l.dat[x]
                 ELSE Len(l.dat) <= 1 /\ x = Len(l.dat) + 1
SinFalsaAlarma == [][\A d \in difs' \ difs : Fundada(fichero[d[2]], d[1])]_vars

\* A session ends. If the loader's line has the signature, a file with a start
\* address is started; if not, as in the source, the uploader gives up.
SesionAcaba ==
  /\ (/\ upc = "busca" /\ index(Saludo, firma)
      /\ \E x \in DOMAIN fichero : fichero[x].tipo = "S7") ~> lpc = "saltado"
  /\ (upc = "busca" /\ ~index(Saludo, firma)) ~> upc = "error"
=============================================================================
