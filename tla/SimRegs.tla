------------------------------- MODULE SimRegs -------------------------------
(***************************************************************************)
(* What the SIM interface keeps of a session, and shows on the bus: the    *)
(* capture memory of Main_SIM.v, the rows it forms, and the registers of   *)
(* wb_simcard.v.  A step is one byte time of the card interface (SimCard,  *)
(* which shows that bytes arrive whole and in the order of the script) or  *)
(* one bus access.  A captured byte is known by its place in the script.   *)
(***************************************************************************)
EXTENDS SimScript

CONSTANT Sesiones     \* bound: sessions that are started

ASSUME SesionesAssumption == Sesiones \in Nat

VARIABLES
  sc_en, sc_dw,       \* the bits of sc_reg that are used
  contadorByte,
  ram_atr, cont_ram,  \* the capture memory and where the next byte goes
  sesiones,           \* sessions started so far
  inicio              \* ghost: the pointer when the session began

rvars == <<sc_en, sc_dw, contadorByte, ram_atr, cont_ram, sesiones, inicio>>

Celdas == 0..63
Vacio == -1           \* a cell never written
Cero == -2            \* a cell written while Salida was gated to zero

RInit ==
  /\ sc_en = FALSE /\ sc_dw = 0 /\ contadorByte = 0
  /\ ram_atr = [i \in Celdas |-> Vacio] /\ cont_ram = 0
  /\ sesiones = 0 /\ inicio = 0

-----------------------------------------------------------------------------
\* Dato_Valido is the byte clock gated by the count, which that same clock
\* moves on.  What the gate lets through at byte n, from count n to n + 1:
\*   open before and after   one edge, byte n
\*   opening                 one edge, Salida being opened at the same time
\*   closing                 a pulse as long as the count takes to change
Valores(n) ==
  CASE DatoListo(n) /\ DatoListo(n + 1)   -> {<<n>>}
    [] ~DatoListo(n) /\ DatoListo(n + 1)  -> {<<n>>, <<Cero>>}
    [] DatoListo(n) /\ ~DatoListo(n + 1)  -> {<<n>>, <<Cero>>, <<>>}
    [] OTHER                              -> {<<>>}

\* Mutant: the first byte through the gate is dropped.
Captura_tarde(n) ==
  \E v \in Valores(n) :
    IF v = <<>> \/ ~DatoListo(n) THEN UNCHANGED <<ram_atr, cont_ram>>
    ELSE /\ ram_atr' = [ram_atr EXCEPT ![cont_ram] = v[1]]
         /\ cont_ram' = (cont_ram + 1) % 64

\* IF Dato_Valido rises THEN store Salida; the pointer has six bits.
Captura(n) ==
  \E v \in Valores(n) :
    IF v = <<>> THEN UNCHANGED <<ram_atr, cont_ram>>
    ELSE /\ ram_atr' = [ram_atr EXCEPT ![cont_ram] = v[1]]
         /\ cont_ram' = (cont_ram + 1) % 64

\* Mutant: the count goes on after the last byte.
UnByte_sin_fin ==
  /\ sc_en
  /\ contadorByte' = contadorByte + 1
  /\ Captura(contadorByte)
  /\ UNCHANGED <<sc_en, sc_dw, sesiones, inicio>>

\* IF a session is on and the card has not said its last byte THEN count.
UnByte ==
  /\ sc_en /\ contadorByte <= UltimoByte
  /\ contadorByte' = contadorByte + 1
  /\ Captura(contadorByte)
  /\ UNCHANGED <<sc_en, sc_dw, sesiones, inicio>>

\* IF bit 4 is written as zero THEN the session is cut.
EscribeSC_REG(en, dw) ==
  /\ en /\ ~sc_en => sesiones < Sesiones
  /\ sc_en' = en /\ sc_dw' = dw
  /\ contadorByte' = IF en THEN contadorByte ELSE 0
  /\ sesiones' = IF en /\ ~sc_en THEN sesiones + 1 ELSE sesiones
  /\ inicio' = IF en /\ ~sc_en THEN cont_ram ELSE inicio
  /\ UNCHANGED <<ram_atr, cont_ram>>

\* A write to any other offset clears sc_reg, and so does the system reset;
\* the capture memory has no reset.
BorraSC_REG == EscribeSC_REG(FALSE, 0)

RNext ==
  \/ UnByte
  \/ \E en \in BOOLEAN, dw \in 0..3 : EscribeSC_REG(en, dw)
  \/ BorraSC_REG

RSpec == RInit /\ [][RNext]_rvars

-----------------------------------------------------------------------------
(* The rows, without their labels.                                         *)

Nombre(a) == [j \in 1..12 |-> ram_atr[a + j - 1]]

\* Mutant: the digits of a byte in the order they are written.
Digitos_sin_cambio(a) ==
  [j \in 1..10 |-> <<ram_atr[a + (j - 1) \div 2], IF j % 2 = 1 THEN "alto" ELSE "bajo">>]

\* Ten digits, the low half of each byte first.
Digitos(a) ==
  [j \in 1..10 |-> <<ram_atr[a + (j - 1) \div 2], IF j % 2 = 1 THEN "bajo" ELSE "alto">>]

Dato_LCD(dw) == CASE dw = 0 -> Nombre(1) [] dw = 1 -> Digitos(17)
                  [] dw = 2 -> Nombre(31) [] dw = 3 -> Digitos(47)

\* The first record as the card sends it, after the procedure byte.
PrimerDato == 64
NombreDe == [j \in 1..12 |-> PrimerDato + j - 1]
NumeroDe == [j \in 1..10 |-> <<PrimerDato + 16 + (j - 1) \div 2,
                               IF j % 2 = 1 THEN "bajo" ELSE "alto">>]

-----------------------------------------------------------------------------
RTypeOK ==
  /\ sc_en \in BOOLEAN /\ sc_dw \in 0..3
  /\ contadorByte \in 0..UltimoByte + 1
  /\ ram_atr \in [Celdas -> {Vacio, Cero} \cup (0..UltimoByte)]
  /\ {cont_ram, inicio} \subseteq Celdas /\ sesiones \in 0..Sesiones

\* Row 0 shows the name of the first record, from its first letter, as soon
\* as the record is in and for as long as the session lasts, however many
\* bytes follow (Main_SIM.v:79 "Nombre: "), in a session that began with the
\* pointer at the first cell: one that follows a session that stored a byte
\* does not, since nothing brings the pointer back.
NombreIntegro == contadorByte >= 92 /\ inicio = 0 => Dato_LCD(0) = NombreDe

\* Row 1 shows the ten digits of its number, as the card packs them
\* (Main_SIM.v:52-62, 80), in such a session.
NumeroIntegro == contadorByte >= 92 /\ inicio = 0 => Dato_LCD(1) = NumeroDe

\* The two rows together, with the six bits of the pointer and the count of
\* bytes in their ranges through both sessions (Main_SIM.v:42, simcard.v:259).
FilasDelRegistro == RTypeOK /\ NombreIntegro /\ NumeroIntegro
=============================================================================
