------------------------------- MODULE SimCard -------------------------------
(***************************************************************************)
(* The card reader of rtl/wb_simcard/simcard.v, bit by bit, with the card  *)
(* at the other end of SIM_IO.  One step is one rising edge of CLK         *)
(* (Flanco), on which reader and card act together from the line they both *)
(* see before the edge, or an asynchronous change of Habilitar.            *)
(*                                                                         *)
(* What a bit is worth is abstracted to where it comes from: <<n, p>> is   *)
(* position p of the frame of byte n (0 the start bit, 1..8 data, 9        *)
(* parity); Alto is the pulled-up line, Bajo a cleared register.           *)
(***************************************************************************)
EXTENDS SimScript

CONSTANTS
  Etu,              \* CLK ticks of a bit; 372 in the code
  Muestra,          \* value of contador at which the reader samples; 186
  MuestraTarjeta,   \* tick of a bit at which the card samples
  MinPausa,         \* shortest silence of the card before a byte, in ticks
  MaxPausa          \* longest silence of the card before a byte, in ticks

ASSUME EtuAssumption ==
  /\ Etu \in Nat /\ Muestra \in Nat /\ MuestraTarjeta \in Nat
  /\ 0 < Muestra /\ Muestra < Etu - 2
  /\ 0 < MuestraTarjeta /\ MuestraTarjeta < Etu - 2

\* ISO 7816-3: two etu of guard time at least between two characters.
ASSUME PausaAssumption ==
  /\ MinPausa \in Nat /\ MaxPausa \in Nat
  /\ 2 * Etu <= MinPausa /\ MinPausa <= MaxPausa

VARIABLES
  Habilitar,        \* bit 4 of sc_reg, cleared by the system reset as well
  EstadoActual, Enable, contador, contadorBit, contadorByte, datos,
  tmodo,            \* the card: "pausa", "envia", "oye", "recibe" or "fin"
  tbyte,            \* the byte of the script the card is at
  tbit, ttick,      \* bit and tick within the frame; ttick times pauses too
  trama,            \* the frame the card has sampled
  confirmada        \* the card has confirmed a header in this session

lector  == <<EstadoActual, Enable, contador, contadorBit, contadorByte, datos>>
tarjeta == <<tmodo, tbyte, tbit, ttick, trama, confirmada>>
vars    == <<Habilitar, lector, tarjeta>>

Estados == {"Inactivo", "Inicio", "CLKHab", "EsperarDato", "LeerDato",
            "ProcesarDato", "EscribirComando"}

Alto == <<-1, 1>>
Bajo == <<-1, 0>>
Simbolo == {Alto, Bajo} \cup ((0..255) \X (0..9))

\* Start bits are low; a data or parity bit may have either level.
EsBajo(s) == s # Alto
EsAlto(s) == s[2] # 0

Borrado == [i \in 0..9 |-> Bajo]

\* Mutant: the data bits are sent most significant first.
datos_mux_msb(n) ==
  IF Escrito(n) THEN [i \in 0..9 |-> <<n, IF i \in 1..8 THEN 9 - i ELSE i>>]
                ELSE [i \in 0..9 |-> Alto]

\* The frame loaded for byte n: its ten bits, the start bit rightmost.
datos_mux(n) == IF Escrito(n) THEN [i \in 0..9 |-> <<n, i>>]
                              ELSE [i \in 0..9 |-> Alto]

io_rw == EstadoActual # "EscribirComando"
SIM_RST == EstadoActual \notin {"Inactivo", "Inicio", "CLKHab"}

\* The reader drives the line push-pull while it writes, and only then.
SIM_IO == IF ~io_rw THEN datos[0]
          ELSE IF tmodo = "envia" THEN <<tbyte, tbit>> ELSE Alto

-----------------------------------------------------------------------------
Init ==
  /\ Habilitar = FALSE /\ EstadoActual = "Inactivo" /\ Enable = FALSE
  /\ contador = 0 /\ contadorBit = 0 /\ contadorByte = 0 /\ datos = Borrado
  /\ tmodo = "pausa" /\ tbyte = 0 /\ tbit = 0 /\ ttick = 0 /\ trama = Borrado
  /\ confirmada = FALSE

(* Counters.  contadorBit is clocked by contador reaching Etu - 1, and     *)
(* contadorByte by contadorBit reaching 10, so a tick may carry through    *)
(* all three.                                                              *)

Contador == IF contador = Etu - 1 THEN 0 ELSE contador + 1

ContadorBit ==
  IF Contador # Etu - 1 THEN contadorBit
  ELSE IF contadorBit = 10 THEN 0 ELSE contadorBit + 1

CuentaTick ==
  /\ contador' = Contador
  /\ contadorBit' = ContadorBit
  /\ contadorByte' = IF ContadorBit = 10 /\ contadorBit # 10
                       THEN (contadorByte + 1) % 256 ELSE contadorByte

\* Mutant: the bit timer keeps its value between frames.
LimpiaMarco_sin_contador ==
  /\ contadorBit' = 0 /\ datos' = Borrado
  /\ UNCHANGED <<contador, contadorByte>>

\* Leaving LeerDato or EscribirComando clears all but the byte counter.
LimpiaMarco ==
  /\ contador' = 0 /\ contadorBit' = 0 /\ datos' = Borrado
  /\ UNCHANGED contadorByte

\* Mutant: the line is sampled at the end of the bit.
Muestrea_tarde == contador = Etu - 1

\* The reader samples the line on this tick.
Muestrea == contador = Muestra

MarcoQuieto == UNCHANGED <<contador, contadorBit, contadorByte, datos>>

-----------------------------------------------------------------------------
(* The reader, one action for each state its machine is in at the edge.    *)

\* IF Enable was set at an earlier edge THEN power the card; set Enable.
EnInactivo ==
  /\ EstadoActual = "Inactivo"
  /\ EstadoActual' = IF Enable THEN "Inicio" ELSE "Inactivo"
  /\ Enable' = TRUE
  /\ MarcoQuieto

\* IF powered THEN let SIM_CLK through.
EnInicio ==
  /\ EstadoActual = "Inicio"
  /\ EstadoActual' = "CLKHab"
  /\ UNCHANGED Enable /\ MarcoQuieto

\* IF the clock runs THEN release the card's reset.
EnCLKHab ==
  /\ EstadoActual = "CLKHab"
  /\ EstadoActual' = "EsperarDato"
  /\ UNCHANGED Enable /\ MarcoQuieto

\* IF the line is low THEN take it for a start bit.
EnEsperarDato ==
  /\ EstadoActual = "EsperarDato"
  /\ \/ EsBajo(SIM_IO) /\ EstadoActual' = "LeerDato"
     \/ EsAlto(SIM_IO) /\ UNCHANGED EstadoActual
  /\ UNCHANGED Enable /\ MarcoQuieto

\* IF ten bits are in THEN stop ELSE count, and shift the line in when the
\* counter is at mid-bit.
EnLeerDato ==
  /\ EstadoActual = "LeerDato"
  /\ \/ /\ contadorBit = 10
        /\ EstadoActual' = "ProcesarDato"
        /\ LimpiaMarco
     \/ /\ contadorBit # 10
        /\ UNCHANGED EstadoActual
        /\ CuentaTick
        /\ datos' = IF Muestrea
                      THEN [i \in 0..9 |-> IF i = 0 THEN SIM_IO
                                                    ELSE datos[i - 1]]
                      ELSE datos
  /\ UNCHANGED Enable

\* IF the count says so THEN read a silent byte or write ELSE wait again.
EnProcesarDato ==
  /\ EstadoActual = "ProcesarDato"
  /\ EstadoActual' = IF EspereByte(contadorByte) THEN "LeerDato"
                     ELSE IF ComandoListo(contadorByte) THEN "EscribirComando"
                     ELSE "EsperarDato"
  /\ UNCHANGED Enable /\ MarcoQuieto

\* IF the command is out THEN turn the line round ELSE count, load the next
\* byte at the start of its frame, shift at the end of every bit.
EnEscribirComando ==
  /\ EstadoActual = "EscribirComando"
  /\ \/ /\ ComandoFin(contadorByte)
        /\ EstadoActual' = "EsperarDato"
        /\ LimpiaMarco
     \/ /\ ~ComandoFin(contadorByte)
        /\ UNCHANGED EstadoActual
        /\ CuentaTick
        /\ datos' = IF contadorBit = 0 /\ contador = 0
                      THEN datos_mux(contadorByte)
                      ELSE IF contador = Etu - 1
                      THEN [i \in 0..9 |-> IF i = 9 THEN Alto
                                                    ELSE datos[i + 1]]
                      ELSE datos
  /\ UNCHANGED Enable

FlancoLector ==
  \/ EnInactivo \/ EnInicio \/ EnCLKHab \/ EnEsperarDato
  \/ EnLeerDato \/ EnProcesarDato \/ EnEscribirComando

-----------------------------------------------------------------------------
(* The card, external: an ISO 7816 card that holds the conversation the    *)
(* script expects, at its own pace.  It may confirm the header of a SELECT *)
(* with a procedure byte before it hears the rest, as the comments of      *)
(* simcard.v:204 ("A4") and :213 ("91") have it.                           *)

\* The last byte of the header of either SELECT.
Cabecera == {15, 26}

\* The procedure byte sent behind byte n, a byte that the script has not.
Confirmacion(n) == 200 + n
EsConfirmacion(n) == n \in {Confirmacion(c) : c \in Cabecera}

Proximo(n) == IF EsConfirmacion(n) THEN n - 199 ELSE Siguiente(n)

\* The card turns to byte n: to send it, to hear it, or to rest.
Toma(n) ==
  /\ tbyte' = n
  /\ tmodo' = IF n = UltimoByte + 1 THEN "fin"
              ELSE IF Escrito(n) THEN "oye" ELSE "pausa"
  /\ tbit' = 0 /\ ttick' = 0 /\ trama' = Borrado

Arranca(m) ==
  /\ tmodo' = m /\ tbit' = 0 /\ ttick' = 0
  /\ UNCHANGED <<tbyte, trama, confirmada>>

\* IF SIM_RST is low THEN the card stays at its first byte.
TarjetaReset ==
  /\ ~SIM_RST
  /\ Toma(0) /\ confirmada' = FALSE

\* IF it is the card's turn THEN it waits, MaxPausa ticks at most.
TarjetaEspera ==
  /\ SIM_RST /\ tmodo = "pausa" /\ ttick < MaxPausa
  /\ ttick' = ttick + 1
  /\ UNCHANGED <<tmodo, tbyte, tbit, trama, confirmada>>

\* IF the guard time is over THEN it pulls the line low.
TarjetaArranca ==
  /\ SIM_RST /\ tmodo = "pausa" /\ ttick >= MinPausa
  /\ Arranca("envia")

FinDeMarco == ttick >= Etu - 1 /\ tbit = 9

CuentaTarjeta ==
  /\ ttick' = IF ttick < Etu - 1 THEN ttick + 1 ELSE 0
  /\ tbit' = IF ttick < Etu - 1 THEN tbit ELSE tbit + 1
  /\ UNCHANGED <<tmodo, tbyte, confirmada>>

\* IF the frame is over THEN turn to the next byte ELSE hold the bit an etu.
TarjetaEnvia ==
  /\ SIM_RST /\ tmodo = "envia"
  /\ \/ FinDeMarco /\ Toma(Proximo(tbyte)) /\ UNCHANGED confirmada
     \/ ~FinDeMarco /\ CuentaTarjeta /\ UNCHANGED trama

\* IF it expects a byte THEN it watches for a start bit.
TarjetaOye ==
  /\ SIM_RST /\ tmodo = "oye"
  /\ \/ EsBajo(SIM_IO) /\ Arranca("recibe")
     \/ EsAlto(SIM_IO) /\ UNCHANGED tarjeta

\* IF the frame is over THEN turn to the next byte, or confirm the header it
\* ends, ELSE sample at mid-bit.
TarjetaRecibe ==
  /\ SIM_RST /\ tmodo = "recibe"
  /\ \/ FinDeMarco /\ Toma(Proximo(tbyte)) /\ UNCHANGED confirmada
     \/ /\ FinDeMarco /\ tbyte \in Cabecera
        /\ Toma(Confirmacion(tbyte)) /\ confirmada' = TRUE
     \/ /\ ~FinDeMarco /\ CuentaTarjeta
        /\ trama' = IF ttick = MuestraTarjeta
                      THEN [trama EXCEPT ![tbit] = SIM_IO] ELSE trama

TarjetaCalla ==
  /\ SIM_RST /\ tmodo = "fin"
  /\ UNCHANGED tarjeta

FlancoTarjeta ==
  \/ TarjetaReset \/ TarjetaEspera \/ TarjetaArranca \/ TarjetaEnvia
  \/ TarjetaOye \/ TarjetaRecibe \/ TarjetaCalla

-----------------------------------------------------------------------------
(* Time and Habilitar.  Both halves of an edge see the line before it.     *)

Flanco == Habilitar /\ FlancoLector /\ FlancoTarjeta /\ UNCHANGED Habilitar

Habilita ==
  /\ ~Habilitar /\ Habilitar' = TRUE
  /\ UNCHANGED <<lector, tarjeta>>

\* Reset acts at once: the machine to Inactivo, the counters to zero, and
\* the card loses its power.
Deshabilita ==
  /\ Habilitar /\ Habilitar' = FALSE
  /\ EstadoActual' = "Inactivo" /\ Enable' = FALSE
  /\ contador' = 0 /\ contadorBit' = 0 /\ contadorByte' = 0
  /\ datos' = Borrado
  /\ Toma(0) /\ confirmada' = FALSE

Next == Flanco \/ Habilita \/ Deshabilita

Spec == Init /\ [][Next]_vars

\* The clock of the board never stops.
FairSpec == Spec /\ WF_vars(Flanco)

-----------------------------------------------------------------------------
LectorOK ==
  /\ EstadoActual \in Estados
  /\ Enable \in BOOLEAN
  /\ contador \in 0..(Etu - 1)
  /\ contadorBit \in 0..10
  /\ contadorByte \in CuentaByte
  /\ datos \in [0..9 -> Simbolo]

TarjetaOK ==
  /\ tmodo \in {"pausa", "envia", "oye", "recibe", "fin"}
  /\ tbyte \in 0..(UltimoByte + 1) \/ EsConfirmacion(tbyte)
  /\ tmodo = "fin" <=> tbyte = UltimoByte + 1
  /\ tbit \in 0..9
  /\ ttick \in Nat
  /\ trama \in [0..9 -> Simbolo]
  /\ confirmada \in BOOLEAN

\* Every variable has its type: the bit timer never passes an etu, the bit
\* counter never passes ten.
TypeOK == Habilitar \in BOOLEAN /\ LectorOK /\ TarjetaOK

\* Both ends drive the line.
Choque == ~io_rw /\ tmodo = "envia"

\* The reader (simcard.v:125) drives SIM_IO while the card is sending only where
\* the comments of simcard.v:204 and :213 place a byte of the card and the
\* code, which has no state for it, writes on: over a procedure byte.  At all
\* other times the turns of the script keep the two ends apart although
\* neither sees the other's counters, and a card that is confused by such a
\* collision never speaks over the reader again.
NoChoque == Choque => EsConfirmacion(tbyte)

\* When the tenth bit of a byte of the card is in (simcard.v:80), datos
\* holds the ten bits of that very byte, the start bit leftmost: no bit was
\* sampled twice, skipped, or taken from a neighbouring byte.  (Of a session
\* without a procedure byte: the reader takes one, or half of it, for the
\* answer.)
ByteLeido ==
  ( /\ EstadoActual = "LeerDato" /\ contadorBit = 10
    /\ ~EspereByte(contadorByte - 1) /\ ~confirmada )
    => datos = [i \in 0..9 |-> <<contadorByte - 1, 9 - i>>]

\* When the card has heard a frame, the frame is, bit for bit, the
\* byte of the script that the card waits for (simcard.v:183-236), up to a
\* procedure byte of its own.
ComandoOido ==
  (tmodo = "recibe" /\ FinDeMarco /\ ~confirmada) => trama = [i \in 0..9 |-> <<tbyte, i>>]

\* The line discipline of SimLine.  The reader's place is its byte counter
\* with the silent byte times skipped; it speaks for the ten bits of a frame.
\* SimLine has no procedure bytes: one is seen there as the end of the
\* session, which the next reset begins anew.
lugar == IF EspereByte(contadorByte) THEN contadorByte + 1 ELSE contadorByte

hablan == (IF ~io_rw /\ contadorBit # 10 THEN {"lector"} ELSE {})
            \cup (IF tmodo = "envia" THEN {"tarjeta"} ELSE {})

Linea == INSTANCE SimLine WITH hablan   <- IF confirmada THEN {} ELSE hablan,
                               plector  <- IF confirmada THEN 0 ELSE lugar,
                               ptarjeta <- IF confirmada THEN 0 ELSE tbyte

\* simcard.v and the card together implement SimLine.
ImplementaLinea == Linea!Spec

\* A session that is left enabled reaches sc_done (simcard.v:280): neither
\* end ever waits for the other for good, unless the card sends a procedure
\* byte, behind which they do.  (sc_done does not last: it falls with the
\* second status byte.)
SesionTermina ==
  EstadoActual = "Inicio" ~> (Hecho(contadorByte) \/ ~Habilitar \/ confirmada)
=============================================================================
