------------------------------ MODULE SimAcuerdo ------------------------------
(***************************************************************************)
(* The agreement between the reader and the card, phase by phase of the    *)
(* reader: what the card is doing when the reader is in a given state of   *)
(* its machine.  It is the inductive invariant of SimCard (with TypeOK):   *)
(* the properties of SimCard speak of the line and of finished bytes, and  *)
(* hold because the two bit timers stay at a fixed distance.               *)
(***************************************************************************)
EXTENDS SimCard

EsTarjeta(n) == n \in 0..UltimoByte /\ ~Escrito(n) /\ n \notin Silencio

EnPunto == contador = 0 /\ contadorBit = 0

\* The card has turned to byte n and has not begun it.
Dispuesta(n) ==
  /\ tbyte = n
  /\ tmodo = IF n = UltimoByte + 1 THEN "fin"
             ELSE IF Escrito(n) THEN "oye" ELSE "pausa"

Apagada ==
  /\ EstadoActual \in {"Inactivo", "Inicio", "CLKHab"}
  /\ EnPunto /\ contadorByte = 0
  /\ Dispuesta(0)

\* The card is within a frame of the reader's, or has heard it to the end.
OyeHasta(n, bit, tick) ==
  /\ tmodo = "recibe" /\ tbyte = n /\ tbit = bit /\ ttick = tick
  /\ \A i \in 0..9 :
       (i < bit \/ (i = bit /\ tick > MuestraTarjeta)) => trama[i] = <<n, i>>

\* The card notices the start bit 1 tick after the timer starts when the
\* line falls with the state, 2 ticks when it falls with the load.
retraso(n) == IF ComandoListo(n) THEN 1 ELSE 2

Esperando ==
  /\ EstadoActual = "EsperarDato" /\ EnPunto
  /\ \/ EsTarjeta(contadorByte) /\ Dispuesta(contadorByte)
     \/ contadorByte = UltimoByte + 1 /\ Dispuesta(contadorByte)
     \/ /\ EsTarjeta(contadorByte) /\ tbyte = contadorByte
        /\ tmodo = "envia" /\ tbit = 0 /\ ttick = 0
     \/ /\ ComandoFin(contadorByte)
        /\ ttick \in (Etu - retraso(contadorByte - 1))..(Etu - 1)
        /\ OyeHasta(contadorByte - 1, 9, ttick)

\* The card's tick leads the reader's by one: the bits coincide.
muestras == IF Muestra < contador /\ contador < Etu - 1
              THEN contadorBit + 1 ELSE contadorBit

Leyendo ==
  /\ EstadoActual = "LeerDato" /\ contadorBit < 10
  /\ EsTarjeta(contadorByte)
  /\ tmodo = "envia" /\ tbyte = contadorByte /\ tbit = contadorBit
  /\ ttick = IF contador = Etu - 1 THEN 0 ELSE contador + 1
  /\ \A i \in 0..9 : i < muestras => datos[i] = <<contadorByte, muestras - 1 - i>>

EnSilencio ==
  /\ EstadoActual = "LeerDato" /\ contadorBit < 10
  /\ contadorByte \in Silencio
  /\ Dispuesta(contadorByte + 1)

Leido ==
  /\ EstadoActual = "LeerDato" /\ contadorBit = 10 /\ contador = Etu - 1
  /\ \/ /\ EsTarjeta(contadorByte - 1)
        /\ Dispuesta(Siguiente(contadorByte - 1)) /\ ttick = 0
        /\ datos = [i \in 0..9 |-> <<contadorByte - 1, 9 - i>>]
     \/ /\ contadorByte - 1 \in Silencio
        /\ Dispuesta(contadorByte)

Procesando ==
  /\ EstadoActual = "ProcesarDato" /\ EnPunto /\ datos = Borrado
  /\ \/ EsTarjeta(contadorByte) /\ Dispuesta(contadorByte) /\ ttick = 1
     \/ contadorByte = UltimoByte + 1 /\ Dispuesta(contadorByte)
     \/ ComandoListo(contadorByte) /\ Dispuesta(contadorByte)
     \/ contadorByte \in Silencio /\ Dispuesta(contadorByte + 1)

\* What is left of byte n after k shifts.
Resto(n, k) == [i \in 0..9 |-> IF i + k <= 9 THEN <<n, i + k>> ELSE Alto]

Vacio == [i \in 0..9 |-> Alto]

\* Before the card has noticed the start bit.
Arrancando ==
  /\ EstadoActual = "EscribirComando" /\ contadorBit = 0
  /\ Escrito(contadorByte) /\ Dispuesta(contadorByte)
  /\ \/ contador = 0 /\ ComandoListo(contadorByte) /\ datos = Borrado
     \/ contador \in {0, Etu - 1} /\ ~ComandoListo(contadorByte) /\ datos = Vacio
     \/ contador = 1 /\ ~ComandoListo(contadorByte) /\ datos = Resto(contadorByte, 0)

\* The bit on the line: the counter moves one tick before the shift.
celda == IF contador = Etu - 1 THEN contadorBit - 1 ELSE contadorBit

\* The card follows n, the byte being written, by its delay.
Sigue(n) ==
  /\ datos = Resto(n, celda)
  /\ IF contador >= retraso(n)
       THEN OyeHasta(n, celda, contador - retraso(n))
       ELSE OyeHasta(n, celda - 1, contador + Etu - retraso(n))

Escribiendo ==
  /\ EstadoActual = "EscribirComando" /\ contadorBit < 10
  /\ Escrito(contadorByte)
  /\ contadorBit = 0 => contador \in retraso(contadorByte)..(Etu - 2)
  /\ Sigue(contadorByte)

Escrita ==
  /\ EstadoActual = "EscribirComando" /\ contadorBit = 10
  /\ Escrito(contadorByte - 1)
  /\ \/ /\ ComandoFin(contadorByte) => contador = Etu - 1
        /\ contador \in {Etu - 1} \cup 0..(retraso(contadorByte - 1) - 1)
        /\ Sigue(contadorByte - 1)
     \/ /\ ~ComandoFin(contadorByte)
        /\ contador \in retraso(contadorByte - 1)..(Etu - 2)
        /\ Dispuesta(contadorByte)
        /\ datos = Vacio

\* Reader and card are always at matching places of the script, the card's
\* bit timer at a fixed distance from the reader's (simcard.v:143-197): the
\* two ends, which share only the line, never drift apart by a bit, until the
\* card sends a byte that the reader does not expect.
Acuerdo ==
  \/ confirmada /\ SIM_RST
  \/ Apagada \/ Esperando \/ Leyendo \/ EnSilencio \/ Leido \/ Procesando
  \/ Arrancando \/ Escribiendo \/ Escrita
==============================================================================
