-------------------------------- MODULE Keypad --------------------------------
(***************************************************************************)
(* The matrix keyboard: the scan of the columns, the decoder, the debounce *)
(* filter and the interrupt pulse.  A step is one edge of the clock, with  *)
(* what the registers clocked by it clock in turn.                         *)
(*                                                                         *)
(* A register clocked by another register's output (dato_temp by           *)
(* presionar_temp, SHIFT_PB by CLK_5ms) may see the signals that change on *)
(* the same edge as they were or as they become: the choice is left open.  *)
(* So is the length of the interrupt pulse, up to Pulso cycles: the count  *)
(* that ends it is loaded asynchronously while presionar_db is high, and a *)
(* netlist runs it faster than the clock.  That a clock edge sees it is    *)
(* assumed.                                                                *)
(***************************************************************************)
EXTENDS Integers, Sequences

CONSTANTS
  DELAY, N,        \* cycles of a column, and of a sample; 2500 in the code
  Pulso,           \* longest pulse; 250 in the code
  Rebote,          \* the contact bounces for at most these cycles
  Pausa,           \* bound: cycles between a press and a release, and back
  Teclas           \* keys that are pressed, pairs of column and row

Lineas == 0..3

ASSUME KeypadAssumption ==
  /\ DELAY \in Nat \ {0} /\ N \in Nat /\ N >= 2 /\ Pulso \in Nat \ {0}
  /\ Rebote \in Nat /\ Pausa \in Nat
  /\ Teclas \subseteq Lineas \X Lineas

\* The two dividers have one period (2500 both), a contact bounces for less
\* than a scan of the four columns, and a key is held, and let go, for longer
\* than that and a scan and a column more.
ASSUME RitmoAssumption ==
  /\ DELAY = N /\ Rebote < 4 * (N + 1) /\ Rebote + 5 * (N + 1) + 1 < Pausa

VARIABLES
  Estado, cont, columnas,           \* the scan
  presionar_temp, dato_temp,        \* some row is active; the decoded key
  contador_div, CLK_5ms,            \* the sampling clock
  SHIFT_PB, PB_D,                   \* the samples, newest first; a key is down
  cont_intr, dato_valido,           \* the interrupt pulse
  tecla, abajo, contacto, edad,     \* the key, its state and its contact, since when
  avisos                            \* pulses since the key was pressed

barrido  == <<Estado, cont, columnas>>
filtro   == <<contador_div, CLK_5ms, SHIFT_PB, PB_D>>
pulso    == <<cont_intr, dato_valido>>
mecanica == <<tecla, abajo, contacto, edad>>
vars == <<barrido, presionar_temp, dato_temp, filtro, pulso, mecanica, avisos>>

Ninguna == 4            \* no column is driven before the first edge

Init ==
  /\ Estado = 0 /\ cont = 0 /\ columnas = Ninguna
  /\ presionar_temp = FALSE /\ dato_temp = <<1, 0>>
  /\ contador_div = 0 /\ CLK_5ms = FALSE
  /\ SHIFT_PB = [i \in 1..4 |-> FALSE] /\ PB_D = FALSE
  /\ cont_intr = 0 /\ dato_valido = FALSE
  /\ tecla \in Teclas /\ abajo = FALSE /\ contacto = FALSE /\ edad = Pausa
  /\ avisos = 0

-----------------------------------------------------------------------------
\* The rows that are high when column c is driven and the contact is k.
Filas(c, k) == IF k /\ c = tecla[1] THEN {tecla[2]} ELSE {}

\* IF the column has had its time THEN the next one.
Barre ==
  /\ columnas' = Estado
  /\ IF cont < DELAY THEN cont' = cont + 1 /\ UNCHANGED Estado
                     ELSE cont' = 0 /\ Estado' = (Estado + 1) % 4

\* Mutant: the decoder takes the column that the scan is about to drive.
Decodifica_adelantado ==
  IF presionar_temp' /\ ~presionar_temp
    THEN dato_temp' = <<(columnas + 1) % 4, tecla[2]>>
    ELSE UNCHANGED dato_temp

\* IF a row becomes active THEN the key of that row and column; a code of no
\* key leaves the last one.
Decodifica ==
  IF presionar_temp' /\ ~presionar_temp
    THEN \E c \in {columnas, columnas'},
            f \in {Filas(columnas, contacto), Filas(columnas', contacto')} :
           dato_temp' = IF f = {} THEN dato_temp ELSE <<c, CHOOSE r \in f : TRUE>>
    ELSE UNCHANGED dato_temp

\* Mutant: the division restarts one cycle late.
Divide_largo ==
  /\ contador_div' = IF contador_div = N + 1 THEN 0 ELSE contador_div + 1
  /\ CLK_5ms' = (contador_div < N \div 2)

Divide ==
  /\ contador_div' = IF contador_div = N THEN 0 ELSE contador_div + 1
  /\ CLK_5ms' = (contador_div < N \div 2)

\* Mutant: a key is down when one of the last three samples was.
Filtra_tres ==
  IF CLK_5ms' /\ ~CLK_5ms
    THEN /\ \E m \in {presionar_temp, presionar_temp'} :
              SHIFT_PB' = <<m>> \o SubSeq(SHIFT_PB, 1, 3)
         /\ PB_D' = \E i \in 1..3 : SHIFT_PB[i]
    ELSE UNCHANGED <<SHIFT_PB, PB_D>>

\* A key is down when one of the last four samples, one of each column, was.
Filtra ==
  IF CLK_5ms' /\ ~CLK_5ms
    THEN /\ \E m \in {presionar_temp, presionar_temp'} :
              SHIFT_PB' = <<m>> \o SubSeq(SHIFT_PB, 1, 3)
         /\ PB_D' = \E i \in 1..4 : SHIFT_PB[i]
    ELSE UNCHANGED <<SHIFT_PB, PB_D>>

\* One pulse when presionar_db rises; the next one takes its fall.
Avisa ==
  IF ~PB_D' THEN cont_intr' = 0 /\ dato_valido' = FALSE
  ELSE IF ~PB_D THEN cont_intr' = 1 /\ dato_valido' = TRUE
  ELSE \E n \in {cont_intr + 1, Pulso + 1} :
         /\ cont_intr' = IF cont_intr = Pulso + 1 THEN cont_intr ELSE n
         /\ dato_valido' = (cont_intr' <= Pulso)

\* The contact bounces after a press and after a release, then is firm.
Contacto ==
  /\ edad' = IF edad < Pausa THEN edad + 1 ELSE edad
  /\ contacto' \in IF edad < Rebote THEN BOOLEAN ELSE {abajo}
  /\ UNCHANGED <<tecla, abajo>>

Reloj ==
  /\ Contacto /\ Barre
  /\ presionar_temp' = (Filas(columnas, contacto) # {})
  /\ Decodifica /\ Divide /\ Filtra /\ Avisa
  /\ avisos' = IF dato_valido' /\ ~dato_valido /\ avisos < 2 THEN avisos + 1 ELSE avisos

Pulsa ==
  /\ ~abajo /\ edad = Pausa
  /\ tecla' \in Teclas /\ abajo' = TRUE /\ edad' = 0 /\ avisos' = 0
  /\ UNCHANGED <<barrido, presionar_temp, dato_temp, filtro, pulso, contacto>>

Suelta ==
  /\ abajo /\ edad = Pausa
  /\ abajo' = FALSE /\ edad' = 0
  /\ UNCHANGED <<barrido, presionar_temp, dato_temp, filtro, pulso, tecla, contacto, avisos>>

Next == Reloj \/ Pulsa \/ Suelta

Spec == Init /\ [][Next]_vars

-----------------------------------------------------------------------------
TypeOK ==
  /\ Estado \in Lineas /\ cont \in 0..DELAY /\ columnas \in Lineas \cup {Ninguna}
  /\ presionar_temp \in BOOLEAN /\ dato_temp \in Lineas \X Lineas
  /\ contador_div \in 0..N /\ CLK_5ms \in BOOLEAN
  /\ SHIFT_PB \in [1..4 -> BOOLEAN] /\ PB_D \in BOOLEAN
  /\ cont_intr \in 0..Pulso + 1 /\ dato_valido \in BOOLEAN
  /\ tecla \in Teclas /\ abajo \in BOOLEAN /\ contacto \in BOOLEAN
  /\ edad \in 0..Pausa /\ avisos \in 0..2

\* However the contact bounces, a press and its release raise one interrupt
\* at most: a key that is held shows in one sample of four only
\* (Keypad_debounce.v:40-47, Keypad.v:180-194).
UnaVez == avisos <= 1

\* The same, with the scan, the dividers and the pulse in their ranges
\* (Keypad.v:89-101, 180-194).
PulsacionUnica == TypeOK /\ UnaVez

\* A key that has been held is announced, and its code is the one that can be
\* read, whichever column the scan was at when it was pressed
\* (Keypad.v:44-85, 103-176).
Anunciada == (abajo /\ edad = Pausa) => avisos = 1 /\ dato_temp = tecla
=============================================================================
