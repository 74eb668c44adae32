---------------------------- MODULE SimCard_proofs ----------------------------
(***************************************************************************)
(* Proofs about SimCard for every bit length, every sampling point and     *)
(* every pace of the card that the assumptions of SimCard allow.           *)
(***************************************************************************)
EXTENDS SimAcuerdo, TLAPS

USE DEF UltimoByte, CuentaByte

LEMMA SimboloBasico == Alto \in Simbolo /\ Bajo \in Simbolo
  BY DEF Simbolo

LEMMA SimboloBit ==
  ASSUME NEW n \in 0..255, NEW p \in 0..9
  PROVE  <<n, p>> \in Simbolo
  BY DEF Simbolo

LEMMA MarcoBasico ==
  /\ Borrado \in [0..9 -> Simbolo]
  /\ \A n \in CuentaByte : datos_mux(n) \in [0..9 -> Simbolo]
<1>1. Borrado \in [0..9 -> Simbolo]
  BY SimboloBasico DEF Borrado
<1>2. ASSUME NEW n \in CuentaByte
      PROVE  datos_mux(n) \in [0..9 -> Simbolo]
  <2>1. CASE Escrito(n)
    <3>1. \A i \in 0..9 : <<n, i>> \in Simbolo
      BY SimboloBit
    <3>2. QED
      BY <2>1, <3>1 DEF datos_mux
  <2>2. CASE ~Escrito(n)
    BY <2>2, SimboloBasico DEF datos_mux
  <2>3. QED
    BY <2>1, <2>2
<1>3. QED
  BY <1>1, <1>2

\* The line carries a symbol whoever drives it.
LEMMA LineaTipo == TypeOK => SIM_IO \in Simbolo
<1> SUFFICES ASSUME TypeOK PROVE SIM_IO \in Simbolo
  OBVIOUS
<1>1. datos[0] \in Simbolo
  BY DEF TypeOK, LectorOK
<1>2. <<tbyte, tbit>> \in Simbolo
  <2>1. tbyte \in 0..255 /\ tbit \in 0..9
    BY DEF TypeOK, TarjetaOK, EsConfirmacion, Confirmacion, Cabecera
  <2>2. QED
    BY <2>1, SimboloBit
<1>3. QED
  BY <1>1, <1>2, SimboloBasico DEF SIM_IO

LEMMA TomaTipo ==
  ASSUME NEW n \in Int, n \in 0..(UltimoByte + 1) \/ EsConfirmacion(n), Toma(n),
         confirmada' \in BOOLEAN
  PROVE  TarjetaOK'
<1>1. EsConfirmacion(n) => n # UltimoByte + 1
  BY DEF EsConfirmacion, Confirmacion, Cabecera
<1> QED
  BY <1>1, MarcoBasico DEF Toma, TarjetaOK, EsConfirmacion

LEMMA ProximoTipo ==
  ASSUME NEW n \in Int, n \in 0..UltimoByte \/ EsConfirmacion(n)
  PROVE  Proximo(n) \in 0..(UltimoByte + 1)
  BY DEF Proximo, Siguiente, Silencio, EsConfirmacion, Confirmacion, Cabecera

LEMMA LectorTipo ==
  ASSUME TypeOK, FlancoLector
  PROVE  LectorOK'
<1>1. CASE EnInactivo \/ EnInicio \/ EnCLKHab \/ EnEsperarDato \/ EnProcesarDato
  <2>1. MarcoQuieto
    BY Zenon, <1>1 DEF EnInactivo, EnInicio, EnCLKHab, EnEsperarDato, EnProcesarDato
  <2>2. EstadoActual' \in Estados
    BY Zenon, <1>1 DEF TypeOK, LectorOK, EnInactivo, EnInicio, EnCLKHab, EnEsperarDato,
                       EnProcesarDato, Estados
  <2>3. Enable' \in BOOLEAN
    BY Zenon, <1>1 DEF TypeOK, LectorOK, EnInactivo, EnInicio, EnCLKHab, EnEsperarDato,
                       EnProcesarDato
  <2>4. /\ contador' \in 0..(Etu - 1) /\ contadorBit' \in 0..10
        /\ contadorByte' \in CuentaByte /\ datos' \in [0..9 -> Simbolo]
    BY Zenon, <2>1 DEF TypeOK, LectorOK, MarcoQuieto
  <2> QED
    BY Zenon, <2>2, <2>3, <2>4 DEF LectorOK
<1>2. ASSUME LimpiaMarco
      PROVE  /\ contador' \in 0..(Etu - 1) /\ contadorBit' \in 0..10
             /\ contadorByte' \in CuentaByte /\ datos' \in [0..9 -> Simbolo]
  BY <1>2, EtuAssumption, MarcoBasico DEF TypeOK, LectorOK, LimpiaMarco
<1>3. ASSUME CuentaTick
      PROVE  /\ contador' \in 0..(Etu - 1) /\ contadorBit' \in 0..10
             /\ contadorByte' \in CuentaByte
  BY <1>3, EtuAssumption DEF TypeOK, LectorOK, CuentaTick, Contador, ContadorBit
<1>4. CASE EnLeerDato
  <2>1. CASE contadorBit = 10
    BY <1>2, <1>4, <2>1 DEF TypeOK, LectorOK, EnLeerDato, Estados
  <2>2. CASE contadorBit # 10
    <3>1. datos' \in [0..9 -> Simbolo]
      BY <1>4, <2>2, LineaTipo DEF TypeOK, LectorOK, EnLeerDato
    <3>2. QED
      BY <1>3, <1>4, <2>2, <3>1 DEF TypeOK, LectorOK, EnLeerDato, Estados
  <2>3. QED
    BY <2>1, <2>2
<1>5. CASE EnEscribirComando
  <2>1. CASE ComandoFin(contadorByte)
    BY <1>2, <1>5, <2>1 DEF TypeOK, LectorOK, EnEscribirComando, Estados
  <2>2. CASE ~ComandoFin(contadorByte)
    <3>1. datos' \in [0..9 -> Simbolo]
      <4>1. CASE contadorBit = 0 /\ contador = 0
        <5>1. datos' = datos_mux(contadorByte)
          BY Zenon, <1>5, <2>2, <4>1 DEF EnEscribirComando
        <5>2. contadorByte \in CuentaByte
          BY Zenon DEF TypeOK, LectorOK
        <5> QED
          BY Zenon, <5>1, <5>2, MarcoBasico
      <4>2. CASE ~(contadorBit = 0 /\ contador = 0) /\ contador = Etu - 1
        <5>1. \A i \in 0..9 : (IF i = 9 THEN Alto ELSE datos[i + 1]) \in Simbolo
          BY SimboloBasico DEF TypeOK, LectorOK
        <5>2. QED
          BY <1>5, <2>2, <4>2, <5>1 DEF EnEscribirComando
      <4>3. QED
        BY <1>5, <2>2, <4>1, <4>2 DEF TypeOK, LectorOK, EnEscribirComando
    <3>2. QED
      BY <1>3, <1>5, <2>2, <3>1 DEF TypeOK, LectorOK, EnEscribirComando, Estados
  <2>3. QED
    BY <2>1, <2>2
<1>6. QED
  BY <1>1, <1>4, <1>5 DEF FlancoLector

LEMMA TarjetaTipo ==
  ASSUME TypeOK, FlancoTarjeta
  PROVE  TarjetaOK'
<1>1. CASE TarjetaReset
  <2>1. Toma(0) /\ confirmada' \in BOOLEAN
    BY <1>1 DEF TarjetaReset
  <2> QED
    BY <2>1, TomaTipo
<1>2. CASE TarjetaEspera \/ TarjetaCalla \/ TarjetaArranca \/ TarjetaOye
  BY <1>2 DEF TypeOK, TarjetaOK, TarjetaEspera, TarjetaCalla, TarjetaArranca,
              TarjetaOye, Arranca, tarjeta
<1>3. tmodo \in {"envia", "recibe"} =>
        tbyte \in Int /\ (tbyte \in 0..UltimoByte \/ EsConfirmacion(tbyte))
  BY DEF TypeOK, TarjetaOK, EsConfirmacion, Confirmacion, Cabecera
<1>4. ASSUME ~FinDeMarco, CuentaTarjeta
      PROVE  tbit' \in 0..9 /\ ttick' \in Nat
  BY <1>4, EtuAssumption DEF TypeOK, TarjetaOK, FinDeMarco, CuentaTarjeta
<1>5. CASE TarjetaEnvia
  <2>1. CASE FinDeMarco
    <3>1. PICK n \in Int : n = Proximo(tbyte) /\ n \in 0..(UltimoByte + 1)
      BY <1>3, <1>5, ProximoTipo DEF TarjetaEnvia
    <3>2. Toma(n) /\ confirmada' \in BOOLEAN
      BY <1>5, <2>1, <3>1 DEF TarjetaEnvia, TypeOK, TarjetaOK
    <3> QED
      BY <3>1, <3>2, TomaTipo
  <2>2. CASE ~FinDeMarco
    BY <1>4, <1>5, <2>2 DEF TypeOK, TarjetaOK, TarjetaEnvia, CuentaTarjeta
  <2> QED
    BY <2>1, <2>2
<1>6. CASE TarjetaRecibe
  <2>1. CASE FinDeMarco
    <3>1. CASE Toma(Proximo(tbyte)) /\ UNCHANGED confirmada
      <4>1. PICK n \in Int : n = Proximo(tbyte) /\ n \in 0..(UltimoByte + 1)
        BY <1>3, <1>6, ProximoTipo DEF TarjetaRecibe
      <4>2. Toma(n) /\ confirmada' \in BOOLEAN
        BY <3>1, <4>1 DEF TypeOK, TarjetaOK
      <4> QED
        BY <4>1, <4>2, TomaTipo
    <3>2. CASE Toma(Confirmacion(tbyte)) /\ tbyte \in Cabecera /\ confirmada' = TRUE
      <4>1. PICK n \in Int : n = Confirmacion(tbyte) /\ EsConfirmacion(n)
        BY <3>2 DEF EsConfirmacion, Confirmacion, Cabecera
      <4> QED
        BY <3>2, <4>1, TomaTipo
    <3> QED
      BY <1>6, <2>1, <3>1, <3>2 DEF TarjetaRecibe
  <2>2. CASE ~FinDeMarco
    <3>1. trama' \in [0..9 -> Simbolo]
      BY <1>6, <2>2, LineaTipo DEF TypeOK, TarjetaOK, TarjetaRecibe
    <3>2. QED
      BY <1>4, <1>6, <2>2, <3>1 DEF TypeOK, TarjetaOK, TarjetaRecibe, CuentaTarjeta
  <2>3. QED
    BY <2>1, <2>2
<1>7. QED
  BY <1>1, <1>2, <1>5, <1>6 DEF FlancoTarjeta

LEMMA TipoInicial == Init => TypeOK
<1> SUFFICES ASSUME Init PROVE TypeOK
  OBVIOUS
<1>1. LectorOK
  <2>1. contador \in 0..(Etu - 1) /\ contadorBit \in 0..10 /\ contadorByte \in CuentaByte
    BY EtuAssumption DEF Init
  <2>2. EstadoActual \in Estados /\ Enable \in BOOLEAN
    BY DEF Init, Estados
  <2>3. datos \in [0..9 -> Simbolo]
    BY MarcoBasico DEF Init
  <2>4. QED
    BY <2>1, <2>2, <2>3 DEF LectorOK
<1>2. TarjetaOK
  <2>1. confirmada \in BOOLEAN
    BY Zenon DEF Init
  <2>2. trama \in [0..9 -> Simbolo]
    BY MarcoBasico DEF Init
  <2> QED
    BY <2>1, <2>2 DEF Init, TarjetaOK
<1>3. QED
  BY <1>1, <1>2 DEF Init, TypeOK

LEMMA TipoPaso == TypeOK /\ [Next]_vars => TypeOK'
<1> SUFFICES ASSUME TypeOK, [Next]_vars PROVE TypeOK'
  OBVIOUS
<1>1. CASE Flanco
  BY <1>1, LectorTipo, TarjetaTipo DEF TypeOK, Flanco
<1>2. CASE Habilita
  BY <1>2 DEF TypeOK, LectorOK, TarjetaOK, Habilita, lector, tarjeta
<1>3. CASE Deshabilita
  <2>1. TarjetaOK'
    <3>1. Toma(0) /\ confirmada' \in BOOLEAN
      BY <1>3 DEF Deshabilita
    <3> QED
      BY <3>1, TomaTipo
  <2>2. LectorOK'
    <3>1. contador' \in 0..(Etu - 1) /\ contadorBit' \in 0..10 /\ contadorByte' \in CuentaByte
      BY <1>3, EtuAssumption DEF Deshabilita
    <3>2. EstadoActual' \in Estados
      BY <1>3 DEF Deshabilita, Estados
    <3>3. Enable' \in BOOLEAN
      BY <1>3 DEF Deshabilita, Estados
    <3>4. datos' \in [0..9 -> Simbolo]
      BY <1>3,MarcoBasico DEF Deshabilita, Estados
    <3>5. QED
      BY <3>1, <3>2, <3>3, <3>4 DEF LectorOK
  <2>3. Habilitar' \in BOOLEAN
    BY <1>3 DEF Deshabilita
  <2>4. QED
    BY <2>1, <2>2, <2>3 DEF TypeOK
<1>4. CASE UNCHANGED vars
  BY <1>4 DEF TypeOK, LectorOK, TarjetaOK, vars, lector, tarjeta
<1>5. QED
  BY <1>1, <1>2, <1>3, <1>4 DEF Next

\* Whatever the length of an etu and the sampling points, the bit timer and
\* the counters it clocks stay in range, and so does the card.
THEOREM TipoCorrecto == Spec => []TypeOK
  BY TipoInicial, TipoPaso, PTL DEF Spec

-----------------------------------------------------------------------------
(* The agreement of the two ends.  Each phase of Acuerdo is followed, at    *)
(* the next edge, by itself or by one of few others; the lemmas below take  *)
(* the phases one by one, for an edge at which the card does not confirm a  *)
(* header.                                                                  *)

LEMMA GuionTarjeta ==
  ASSUME NEW n \in Int, EsTarjeta(n)
  PROVE  \/ n + 1 \in Silencio /\ Siguiente(n) = n + 2
         \/ n + 1 = UltimoByte + 1 /\ Siguiente(n) = n + 1
         \/ EsTarjeta(n + 1) /\ Siguiente(n) = n + 1
  BY DEF EsTarjeta, Escrito, Silencio, Siguiente

LEMMA GuionSilencio ==
  ASSUME NEW n \in Int, n \in Silencio
  PROVE  ComandoListo(n + 1) /\ EspereByte(n)
  BY DEF Silencio, ComandoListo, EspereByte

LEMMA GuionListo ==
  ASSUME NEW n \in Int, ComandoListo(n)
  PROVE  /\ Escrito(n) /\ n # UltimoByte + 1
         /\ ~EspereByte(n) /\ ~ComandoFin(n)
  BY DEF ComandoListo, Escrito, EspereByte, ComandoFin

LEMMA GuionEscrito ==
  ASSUME NEW n \in Int, Escrito(n)
  PROVE  /\ ~ComandoFin(n) /\ Siguiente(n) = n + 1 /\ n \in 0..UltimoByte
         /\ \/ ComandoFin(n + 1) /\ EsTarjeta(n + 1)
            \/ ~ComandoFin(n + 1) /\ Escrito(n + 1) /\ ~ComandoListo(n + 1)
  BY DEF Escrito, ComandoFin, Siguiente, Silencio, EsTarjeta, ComandoListo

LEMMA GuionLibre ==
  ASSUME NEW n \in Int, EsTarjeta(n) \/ n = UltimoByte + 1
  PROVE  ~EspereByte(n) /\ ~ComandoListo(n) /\ ~Escrito(n)
  BY DEF EsTarjeta, Escrito, Silencio, EspereByte, ComandoListo

\* The state of the machine tells which of its actions an edge takes.
LEMMA LectorEn ==
  ASSUME FlancoLector
  PROVE  /\ EstadoActual = "Inactivo" => EnInactivo
         /\ EstadoActual = "Inicio" => EnInicio
         /\ EstadoActual = "CLKHab" => EnCLKHab
         /\ EstadoActual = "EsperarDato" => EnEsperarDato
         /\ EstadoActual = "LeerDato" => EnLeerDato
         /\ EstadoActual = "ProcesarDato" => EnProcesarDato
         /\ EstadoActual = "EscribirComando" => EnEscribirComando
  BY DEF FlancoLector, EnInactivo, EnInicio, EnCLKHab, EnEsperarDato,
         EnLeerDato, EnProcesarDato, EnEscribirComando

\* The same for the card, once its reset is released.
LEMMA TarjetaEn ==
  ASSUME FlancoTarjeta, SIM_RST
  PROVE  /\ tmodo = "pausa" => TarjetaEspera \/ TarjetaArranca
         /\ tmodo = "envia" => TarjetaEnvia
         /\ tmodo = "oye" => TarjetaOye
         /\ tmodo = "recibe" => TarjetaRecibe
         /\ tmodo = "fin" => TarjetaCalla
  BY DEF FlancoTarjeta, TarjetaReset, TarjetaEspera, TarjetaArranca,
         TarjetaEnvia, TarjetaOye, TarjetaRecibe, TarjetaCalla

LEMMA TomaDispuesta ==
  ASSUME NEW n, Toma(n)
  PROVE  Dispuesta(n)' /\ ttick' = 0
  BY DEF Toma, Dispuesta

LEMMA ProximoSiguiente ==
  ASSUME NEW n \in 0..UltimoByte
  PROVE  Proximo(n) = Siguiente(n)
  BY DEF Proximo, EsConfirmacion, Confirmacion, Cabecera

LEMMA PasoApagada ==
  ASSUME TypeOK, Flanco, Apagada
  PROVE  Apagada' \/ Esperando'
<1>1. Toma(0)
  BY DEF Flanco, FlancoTarjeta, Apagada, SIM_RST, TarjetaReset, TarjetaEspera,
         TarjetaArranca, TarjetaEnvia, TarjetaOye, TarjetaRecibe, TarjetaCalla
<1>2. Dispuesta(0)'
  BY <1>1, TomaDispuesta
<1>3. EnPunto' /\ contadorByte' = 0
      /\ EstadoActual' \in {"Inactivo", "Inicio", "CLKHab", "EsperarDato"}
  BY LectorEn DEF Flanco, Apagada, EnPunto, EnInactivo, EnInicio, EnCLKHab, MarcoQuieto
<1>4. EsTarjeta(0)
  BY DEF EsTarjeta, Escrito, Silencio
<1>5. QED
  BY <1>2, <1>3, <1>4 DEF Apagada, Esperando, Dispuesta

\* A card that has turned to one of its own bytes waits or starts it.
LEMMA PasoDispuesta ==
  ASSUME TypeOK, FlancoTarjeta, SIM_RST, NEW n \in 0..255,
         EsTarjeta(n), Dispuesta(n)
  PROVE  /\ ttick < MinPausa /\ ttick < MaxPausa =>
              Dispuesta(n)' /\ ttick' = ttick + 1
         /\ \/ Dispuesta(n)'
            \/ tbyte' = n /\ tmodo' = "envia" /\ tbit' = 0 /\ ttick' = 0
<1>1. tmodo = "pausa" /\ tbyte = n /\ n # UltimoByte + 1 /\ ~Escrito(n)
  BY DEF Dispuesta, EsTarjeta
<1>2. CASE TarjetaEspera
  BY <1>1, <1>2 DEF TarjetaEspera, Dispuesta
<1>3. CASE TarjetaArranca
  BY <1>1, <1>3, PausaAssumption
     DEF TypeOK, TarjetaOK, TarjetaArranca, Arranca
<1>4. QED
  BY <1>1, <1>2, <1>3, TarjetaEn

\* The last tick of a frame that the card hears: it turns to the next byte.
LEMMA PasoOido ==
  ASSUME ~confirmada', FlancoTarjeta, SIM_RST, NEW n \in 0..UltimoByte,
         OyeHasta(n, 9, Etu - 1)
  PROVE  Dispuesta(Siguiente(n))' /\ ttick' = 0
<1>1. TarjetaRecibe /\ FinDeMarco
  BY TarjetaEn, EtuAssumption DEF OyeHasta, FinDeMarco
<1>2. Toma(Siguiente(n))
  BY <1>1, ProximoSiguiente DEF TarjetaRecibe, OyeHasta
<1>3. QED
  BY <1>2, TomaDispuesta

LEMMA PasoEsperando ==
  ASSUME TypeOK, ~confirmada', Flanco, Esperando
  PROVE  Esperando' \/ Leyendo'
<1> DEFINE w == contadorByte
<1>1. /\ EnEsperarDato /\ SIM_RST /\ FlancoTarjeta /\ w \in 0..255
      /\ w' = w /\ EnPunto' /\ EnPunto
      /\ EstadoActual' \in {"EsperarDato", "LeerDato"}
  BY LectorEn DEF Flanco, Esperando, TypeOK, LectorOK, SIM_RST, EnEsperarDato,
                  MarcoQuieto, EnPunto
<1>2. tmodo # "envia" => EstadoActual' = "EsperarDato"
  BY <1>1 DEF EnEsperarDato, SIM_IO, io_rw, EsBajo, EsAlto, Alto
<1>3. CASE EsTarjeta(w) /\ Dispuesta(w)
  <2>1. EstadoActual' = "EsperarDato"
    BY <1>2, <1>3, GuionLibre DEF Dispuesta, EsTarjeta
  <2>2. \/ Dispuesta(w)'
        \/ tbyte' = w /\ tmodo' = "envia" /\ tbit' = 0 /\ ttick' = 0
    BY <1>1, <1>3, PasoDispuesta
  <2>3. QED
    BY <1>1, <1>3, <2>1, <2>2 DEF Esperando, Dispuesta
<1>4. CASE w = UltimoByte + 1 /\ Dispuesta(w)
  <2>1. tmodo = "fin"
    BY <1>4 DEF Dispuesta
  <2>2. UNCHANGED tarjeta
    BY <1>1, <2>1, TarjetaEn DEF TarjetaCalla
  <2>3. QED
    BY <1>1, <1>2, <1>4, <2>1, <2>2 DEF Esperando, Dispuesta, tarjeta
<1>5. CASE EsTarjeta(w) /\ tbyte = w /\ tmodo = "envia" /\ tbit = 0 /\ ttick = 0
  <2>1. SIM_IO = <<w, 0>>
    BY <1>1, <1>5 DEF SIM_IO, io_rw, EnEsperarDato
  <2>2. EstadoActual' = "LeerDato"
    BY <1>1, <2>1 DEF EnEsperarDato, EsAlto
  <2>3. tmodo' = "envia" /\ tbyte' = w /\ tbit' = 0 /\ ttick' = 1
    BY <1>1, <1>5, TarjetaEn, EtuAssumption
       DEF TarjetaEnvia, FinDeMarco, CuentaTarjeta
  <2>4. muestras' = 0
    BY <1>1, EtuAssumption DEF muestras, EnPunto
  <2>5. QED
    BY <1>1, <1>5, <2>2, <2>3, <2>4, EtuAssumption DEF Leyendo, EnPunto
<1>6. CASE /\ ComandoFin(w) /\ ttick \in (Etu - retraso(w - 1))..(Etu - 1)
           /\ OyeHasta(w - 1, 9, ttick)
  <2>1. EstadoActual' = "EsperarDato"
    BY <1>2, <1>6 DEF OyeHasta
  <2>2. w - 1 \in 0..UltimoByte /\ EsTarjeta(w) /\ Siguiente(w - 1) = w
    BY <1>1, <1>6 DEF ComandoFin, EsTarjeta, Escrito, Silencio, Siguiente
  <2>3. CASE ttick = Etu - 1
    <3>1. Dispuesta(w)'
      BY <1>1, <1>6, <2>2, <2>3, PasoOido
    <3>2. QED
      BY <1>1, <2>1, <2>2, <3>1 DEF Esperando, Dispuesta
  <2>4. CASE ttick # Etu - 1
    <3>0. ttick \in (Etu - 2)..(Etu - 2) /\ tbit = 9 /\ TarjetaRecibe
      BY <1>1, <1>6, <2>4, TarjetaEn, EtuAssumption DEF OyeHasta, retraso
    <3>1. /\ ttick' = ttick + 1 /\ UNCHANGED <<tmodo, tbyte, tbit>>
          /\ ttick > MuestraTarjeta /\ UNCHANGED trama
          /\ ttick' \in (Etu - retraso(w - 1))..(Etu - 1)
      <4>1. ~FinDeMarco
        BY <3>0, EtuAssumption DEF FinDeMarco
      <4>2. CuentaTarjeta /\ trama' = IF ttick = MuestraTarjeta
                                     THEN [trama EXCEPT ![tbit] = SIM_IO] ELSE trama
        BY <3>0, <4>1 DEF TarjetaRecibe
      <4> QED
        BY <1>6, <3>0, <4>2, EtuAssumption DEF CuentaTarjeta, retraso
    <3>2. OyeHasta(w - 1, 9, ttick)'
      BY <1>1, <1>6, <3>1, EtuAssumption DEF OyeHasta
    <3>3. QED
      BY <1>1, <1>6, <2>1, <3>1, <3>2 DEF Esperando, retraso
  <2>5. QED
    BY <2>3, <2>4
<1>7. QED
  BY <1>3, <1>4, <1>5, <1>6 DEF Esperando

\* A tick of the counters: within a bit, into its last tick, or past it.
LEMMA CuentaTickCasos ==
  ASSUME TypeOK, CuentaTick
  PROVE  /\ contador < Etu - 2 =>
              /\ contador' = contador + 1 /\ UNCHANGED <<contadorBit, contadorByte>>
         /\ contador = Etu - 2 =>
              /\ contador' = Etu - 1
              /\ contadorBit' = IF contadorBit = 10 THEN 0 ELSE contadorBit + 1
              /\ contadorByte' = IF contadorBit = 9 THEN (contadorByte + 1) % 256
                                                    ELSE contadorByte
         /\ contador = Etu - 1 =>
              /\ contador' = 0 /\ UNCHANGED <<contadorBit, contadorByte>>
  BY EtuAssumption DEF TypeOK, LectorOK, CuentaTick, Contador, ContadorBit

LEMMA PasoLeyendo ==
  ASSUME TypeOK, ~confirmada', Flanco, Leyendo
  PROVE  Leyendo' \/ Leido'
<1> DEFINE w == contadorByte
<1>1. /\ SIM_RST /\ FlancoTarjeta /\ CuentaTick /\ EstadoActual' = "LeerDato"
      /\ w \in 0..UltimoByte /\ EsTarjeta(w) /\ TarjetaEnvia /\ EnLeerDato
      /\ contadorBit \in 0..9 /\ contador \in 0..(Etu - 1)
      /\ tbyte = w /\ tbit = contadorBit
  BY LectorEn, TarjetaEn
     DEF Flanco, Leyendo, EnLeerDato, SIM_RST, TypeOK, LectorOK, EsTarjeta
<1>2. datos' = IF contador = Muestra
                 THEN [i \in 0..9 |-> IF i = 0 THEN <<w, contadorBit>> ELSE datos[i - 1]]
                 ELSE datos
  BY <1>1 DEF Leyendo, EnLeerDato, Muestrea, SIM_IO, io_rw
<1>3. CASE contador < Etu - 2
  <2>1. contador' = contador + 1 /\ UNCHANGED <<contadorBit, contadorByte>>
    BY <1>1, <1>3, CuentaTickCasos
  <2>2. /\ tmodo' = "envia" /\ tbyte' = w /\ tbit' = tbit
        /\ ttick' = contador + 2
    BY <1>1, <1>3, EtuAssumption
       DEF Leyendo, TarjetaEnvia, FinDeMarco, CuentaTarjeta
  <2>3. \A i \in 0..9 : i < muestras' => datos'[i] = <<w, muestras' - 1 - i>>
    <3>1. CASE contador = Muestra
      <4>1. muestras = contadorBit /\ muestras' = contadorBit + 1
        BY <1>1, <2>1, <3>1, EtuAssumption DEF muestras
      <4>2. \A i \in 0..9 : i < contadorBit => datos[i] = <<w, contadorBit - 1 - i>>
        BY <4>1 DEF Leyendo
      <4>3. QED
        BY <1>1, <1>2, <3>1, <4>1, <4>2
    <3>2. CASE contador # Muestra
      <4>1. muestras' = muestras
        BY <1>1, <1>3, <2>1, <3>2, EtuAssumption DEF muestras
      <4>2. QED
        BY <1>2, <3>2, <4>1 DEF Leyendo
    <3>3. QED
      BY <3>1, <3>2
  <2>4. QED
    BY <1>1, <1>3, <2>1, <2>2, <2>3, EtuAssumption DEF Leyendo
<1>4. CASE contador = Etu - 2
  <2>1. /\ contador' = Etu - 1 /\ contadorBit' = contadorBit + 1
        /\ contadorByte' = IF contadorBit = 9 THEN w + 1 ELSE w
    BY <1>1, <1>4, CuentaTickCasos
  <2>2. muestras = contadorBit + 1 /\ datos' = datos
    BY <1>1, <1>2, <1>4, EtuAssumption DEF muestras
  <2>3. \A i \in 0..9 : i < contadorBit + 1 => datos[i] = <<w, contadorBit - i>>
    BY <1>1, <2>2 DEF Leyendo
  <2>4. CASE contadorBit < 9
    <3>1. tmodo' = "envia" /\ tbyte' = w /\ tbit' = tbit + 1 /\ ttick' = 0
      BY <1>1, <1>4, <2>4, EtuAssumption
         DEF Leyendo, TarjetaEnvia, FinDeMarco, CuentaTarjeta
    <3>2. muestras' = contadorBit + 1
      BY <2>1, EtuAssumption DEF muestras
    <3>3. QED
      BY <1>1, <2>1, <2>2, <2>3, <2>4, <3>1, <3>2 DEF Leyendo
  <2>5. CASE contadorBit = 9
    <3>1. Toma(Siguiente(w))
      BY <1>1, <1>4, <2>5, ProximoSiguiente, EtuAssumption
         DEF Leyendo, TarjetaEnvia, FinDeMarco
    <3>2. datos' = [i \in 0..9 |-> <<w, 9 - i>>]
      BY <2>2, <2>3, <2>5 DEF TypeOK, LectorOK
    <3>3. contadorByte' - 1 = w
      BY <1>1, <2>1, <2>5
    <3>4. QED
      BY <1>1, <2>1, <2>5, <3>1, <3>2, <3>3, TomaDispuesta DEF Leido
  <2>6. QED
    BY <1>1, <2>4, <2>5
<1>5. CASE contador = Etu - 1
  <2>1. contador' = 0 /\ UNCHANGED <<contadorBit, contadorByte>>
    BY <1>1, <1>5, CuentaTickCasos
  <2>2. /\ tmodo' = "envia" /\ tbyte' = w /\ tbit' = tbit /\ ttick' = 1
    BY <1>1, <1>5, EtuAssumption
       DEF Leyendo, TarjetaEnvia, FinDeMarco, CuentaTarjeta
  <2>3. muestras' = muestras /\ datos' = datos
    BY <1>2, <1>5, <2>1, EtuAssumption DEF muestras
  <2>4. QED
    BY <1>1, <2>1, <2>2, <2>3, EtuAssumption DEF Leyendo
<1>6. QED
  BY <1>1, <1>3, <1>4, <1>5, EtuAssumption

\* A card that listens hears nothing on an idle line.
LEMMA PasoOyeNada ==
  ASSUME FlancoTarjeta, SIM_RST, NEW n, Escrito(n), n # UltimoByte + 1,
         Dispuesta(n), SIM_IO = Alto
  PROVE  Dispuesta(n)'
  BY TarjetaEn DEF Dispuesta, TarjetaOye, EsBajo, tarjeta

LEMMA PasoEnSilencio ==
  ASSUME TypeOK, Flanco, EnSilencio
  PROVE  EnSilencio' \/ Leido'
<1> DEFINE w == contadorByte
<1>1. /\ SIM_RST /\ FlancoTarjeta /\ CuentaTick /\ EstadoActual' = "LeerDato"
      /\ w \in Silencio /\ contadorBit \in 0..9 /\ contador \in 0..(Etu - 1)
  BY LectorEn DEF Flanco, EnSilencio, EnLeerDato, SIM_RST, TypeOK, LectorOK
<1>2. w \in 0..UltimoByte /\ Escrito(w + 1) /\ w + 1 # UltimoByte + 1
  BY <1>1, GuionSilencio, GuionListo DEF Silencio
<1>3. SIM_IO = Alto
  BY <1>2 DEF EnSilencio, Dispuesta, SIM_IO, io_rw
<1>4. \A n \in Int : n = w + 1 => Dispuesta(n)'
  BY <1>1, <1>2, <1>3, PasoOyeNada DEF EnSilencio
<1>5. \/ contadorBit' < 10 /\ contadorByte' = w
      \/ contadorBit' = 10 /\ contador' = Etu - 1 /\ contadorByte' = w + 1
  BY <1>1, <1>2, CuentaTickCasos, EtuAssumption
<1>6. CASE contadorBit' < 10 /\ contadorByte' = w
  BY <1>1, <1>2, <1>4, <1>6 DEF EnSilencio, Dispuesta
<1>7. CASE contadorBit' = 10 /\ contador' = Etu - 1 /\ contadorByte' = w + 1
  BY <1>1, <1>2, <1>4, <1>7 DEF Leido, Dispuesta
<1>8. QED
  BY <1>5, <1>6, <1>7

LEMMA PasoLeido ==
  ASSUME TypeOK, Flanco, Leido
  PROVE  Procesando'
<1> DEFINE w == contadorByte
<1>1. /\ SIM_RST /\ FlancoTarjeta /\ EstadoActual' = "ProcesarDato"
      /\ EnPunto' /\ datos' = Borrado /\ w' = w /\ w \in 0..255
  BY LectorEn DEF Flanco, Leido, EnLeerDato, LimpiaMarco, EnPunto, SIM_RST,
                  TypeOK, LectorOK
<1>2. tmodo # "envia" => SIM_IO = Alto
  BY DEF Leido, SIM_IO, io_rw
<1>3. CASE EsTarjeta(w - 1) /\ Dispuesta(Siguiente(w - 1)) /\ ttick = 0
  <2>1. CASE w \in Silencio /\ Siguiente(w - 1) = w + 1
    <3>1. Escrito(w + 1) /\ w + 1 # UltimoByte + 1
      BY <2>1, GuionSilencio, GuionListo DEF Silencio
    <3>2. Dispuesta(w + 1)'
      BY <1>1, <1>2, <1>3, <2>1, <3>1, PasoOyeNada DEF Dispuesta
    <3>3. QED
      BY <1>1, <2>1, <3>2 DEF Procesando
  <2>2. CASE w = UltimoByte + 1 /\ Siguiente(w - 1) = w
    <3>1. UNCHANGED tarjeta /\ tmodo = "fin"
      BY <1>1, <1>3, <2>2, TarjetaEn DEF Dispuesta, TarjetaCalla
    <3>2. QED
      BY <1>1, <1>3, <2>2, <3>1 DEF Procesando, Dispuesta, tarjeta
  <2>3. CASE EsTarjeta(w) /\ Siguiente(w - 1) = w
    <3>1. Dispuesta(w)' /\ ttick' = 1
      BY <1>1, <1>3, <2>3, PasoDispuesta, PausaAssumption, EtuAssumption
    <3>2. QED
      BY <1>1, <2>3, <3>1 DEF Procesando
  <2>4. QED
    BY <1>1, <1>3, <2>1, <2>2, <2>3, GuionTarjeta
<1>4. CASE w - 1 \in Silencio /\ Dispuesta(w)
  <2>1. ComandoListo(w) /\ Escrito(w) /\ w # UltimoByte + 1
    BY <1>1, <1>4, GuionSilencio, GuionListo
  <2>2. Dispuesta(w)'
    BY <1>1, <1>2, <1>4, <2>1, PasoOyeNada DEF Dispuesta
  <2>3. QED
    BY <1>1, <2>1, <2>2 DEF Procesando
<1>5. QED
  BY <1>3, <1>4 DEF Leido

LEMMA PasoProcesando ==
  ASSUME TypeOK, Flanco, Procesando
  PROVE  Esperando' \/ EnSilencio' \/ Arrancando'
<1> DEFINE w == contadorByte
<1>1. /\ SIM_RST /\ FlancoTarjeta /\ EnProcesarDato
      /\ EnPunto' /\ w' = w /\ w \in 0..255
  BY LectorEn DEF Flanco, Procesando, EnProcesarDato, MarcoQuieto, EnPunto, SIM_RST,
                  TypeOK, LectorOK
<1>2. tmodo # "envia" => SIM_IO = Alto
  BY DEF Procesando, SIM_IO, io_rw
<1>3. CASE EsTarjeta(w) /\ Dispuesta(w) /\ ttick = 1
  <2>1. EstadoActual' = "EsperarDato"
    BY <1>1, <1>3, GuionLibre DEF EnProcesarDato
  <2>2. Dispuesta(w)'
    BY <1>1, <1>3, PasoDispuesta, PausaAssumption, EtuAssumption
  <2>3. QED
    BY <1>1, <1>3, <2>1, <2>2 DEF Esperando
<1>4. CASE w = UltimoByte + 1 /\ Dispuesta(w)
  <2>1. EstadoActual' = "EsperarDato"
    BY <1>1, <1>4, GuionLibre DEF EnProcesarDato
  <2>2. UNCHANGED tarjeta
    BY <1>1, <1>4, TarjetaEn DEF Dispuesta, TarjetaCalla
  <2>3. QED
    BY <1>1, <1>4, <2>1, <2>2 DEF Esperando, Dispuesta, tarjeta
<1>5. CASE ComandoListo(w) /\ Dispuesta(w)
  <2>1. EstadoActual' = "EscribirComando" /\ Escrito(w) /\ w # UltimoByte + 1
    BY <1>1, <1>5, GuionListo DEF EnProcesarDato
  <2>2. Dispuesta(w)'
    BY <1>1, <1>2, <1>5, <2>1, PasoOyeNada DEF Dispuesta
  <2>3. datos' = Borrado
    BY <1>1 DEF Procesando, EnProcesarDato, MarcoQuieto
  <2>4. QED
    BY <1>1, <1>5, <2>1, <2>2, <2>3 DEF Arrancando, EnPunto
<1>6. CASE w \in Silencio /\ Dispuesta(w + 1)
  <2>1. EstadoActual' = "LeerDato"
    BY <1>1, <1>6, GuionSilencio DEF EnProcesarDato
  <2>2. Escrito(w + 1) /\ w + 1 # UltimoByte + 1
    BY <1>6, GuionSilencio, GuionListo DEF Silencio
  <2>3. Dispuesta(w + 1)'
    BY <1>1, <1>2, <1>6, <2>2, PasoOyeNada DEF Dispuesta
  <2>4. QED
    BY <1>1, <1>6, <2>1, <2>3 DEF EnSilencio, EnPunto
<1>7. QED
  BY <1>3, <1>4, <1>5, <1>6 DEF Procesando

\* A tick of a frame the card hears: the bit on the line at its sampling
\* point is the bit it records.
LEMMA PasoOye ==
  ASSUME TypeOK, FlancoTarjeta, SIM_RST,
         NEW n \in 0..255, NEW b \in 0..9, NEW t \in 0..(Etu - 1),
         OyeHasta(n, b, t),
         t = MuestraTarjeta => SIM_IO = <<n, b>>
  PROVE  /\ t < Etu - 1 => OyeHasta(n, b, t + 1)'
         /\ (t = Etu - 1 /\ b < 9) => OyeHasta(n, b + 1, 0)'
<1>1. /\ TarjetaRecibe /\ tbyte = n /\ tbit = b /\ ttick = t
      /\ trama \in [0..9 -> Simbolo]
      /\ \A i \in 0..9 : (i < b \/ (i = b /\ t > MuestraTarjeta)) => trama[i] = <<n, i>>
  BY TarjetaEn DEF OyeHasta, TypeOK, TarjetaOK
<1>2. CASE t < Etu - 1
  <2>1. /\ tmodo' = "recibe" /\ tbyte' = n /\ tbit' = b /\ ttick' = t + 1
        /\ trama' = IF t = MuestraTarjeta THEN [trama EXCEPT ![b] = SIM_IO] ELSE trama
    BY <1>1, <1>2, EtuAssumption DEF TarjetaRecibe, FinDeMarco, CuentaTarjeta
  <2>2. ASSUME NEW i \in 0..9, i < b \/ (i = b /\ t + 1 > MuestraTarjeta)
        PROVE  trama'[i] = <<n, i>>
    <3>1. CASE t = MuestraTarjeta /\ i = b
      BY <1>1, <2>1, <3>1
    <3>2. CASE ~(t = MuestraTarjeta /\ i = b)
      <4>1. trama'[i] = trama[i]
        BY <1>1, <2>1, <3>2
      <4>2. i < b \/ (i = b /\ t > MuestraTarjeta)
        BY <2>2, <3>2, EtuAssumption
      <4>3. QED
        BY <1>1, <4>1, <4>2
    <3>3. QED
      BY <3>1, <3>2
  <2>3. QED
    BY <1>2, <2>1, <2>2 DEF OyeHasta
<1>3. CASE t = Etu - 1 /\ b < 9
  <2>1. /\ tmodo' = "recibe" /\ tbyte' = n /\ tbit' = b + 1 /\ ttick' = 0
        /\ trama' = trama
    BY <1>1, <1>3, EtuAssumption DEF TarjetaRecibe, FinDeMarco, CuentaTarjeta
  <2>2. \A i \in 0..9 : i < b + 1 => trama[i] = <<n, i>>
    BY <1>1, <1>3, EtuAssumption
  <2>3. QED
    BY <1>3, <2>1, <2>2, EtuAssumption DEF OyeHasta
<1>4. QED
  BY <1>2, <1>3

LEMMA RestoLinea ==
  ASSUME NEW n \in 0..255, NEW k \in 0..9
  PROVE  Resto(n, k)[0] = <<n, k>>
  BY DEF Resto

LEMMA RestoFin ==
  ASSUME NEW n \in 0..255
  PROVE  Resto(n, 10) = Vacio
  BY DEF Resto, Vacio

LEMMA RestoCorre ==
  ASSUME NEW n \in 0..255, NEW k \in 0..9
  PROVE  [i \in 0..9 |-> IF i = 9 THEN Alto ELSE Resto(n, k)[i + 1]] = Resto(n, k + 1)
<1>1. ASSUME NEW i \in 0..9
      PROVE  (IF i = 9 THEN Alto ELSE Resto(n, k)[i + 1]) = Resto(n, k + 1)[i]
  BY DEF Resto
<1>2. Resto(n, k + 1) = [i \in 0..9 |-> Resto(n, k + 1)[i]]
  BY DEF Resto
<1>3. QED
  BY <1>1, <1>2

LEMMA PasoArrancando ==
  ASSUME TypeOK, Flanco, Arrancando
  PROVE  Arrancando' \/ Escribiendo'
<1>1. PICK w \in 0..255 : w = contadorByte
  BY DEF TypeOK, LectorOK
<1>2. /\ SIM_RST /\ FlancoTarjeta /\ EnEscribirComando /\ ~ComandoFin(w)
      /\ Escrito(w) /\ Dispuesta(w) /\ w # UltimoByte + 1 /\ tmodo = "oye"
      /\ contadorBit = 0
  BY <1>1, LectorEn, GuionEscrito DEF Flanco, Arrancando, SIM_RST, Dispuesta
<1>3. /\ CuentaTick /\ EstadoActual' = "EscribirComando" /\ SIM_IO = datos[0]
      /\ datos' = IF contador = 0 THEN datos_mux(w)
                  ELSE IF contador = Etu - 1
                  THEN [i \in 0..9 |-> IF i = 9 THEN Alto ELSE datos[i + 1]]
                  ELSE datos
  BY <1>1, <1>2 DEF EnEscribirComando, SIM_IO, io_rw
<1>4. datos_mux(w) = Resto(w, 0)
  BY <1>2 DEF datos_mux, Resto
<1>5. ASSUME contadorBit' = 0, contadorByte' = w, celda' = 0,
             contador' = retraso(w), retraso(w) <= Etu - 2,
             datos' = Resto(w, 0), SIM_IO[2] = 0
      PROVE  Escribiendo'
  <2>1. tmodo' = "recibe" /\ tbit' = 0 /\ ttick' = 0 /\ tbyte' = w
    BY <1>2, <1>5, TarjetaEn DEF TarjetaOye, EsAlto, Arranca, Dispuesta
  <2>2. OyeHasta(w, 0, 0)'
    BY <2>1, EtuAssumption DEF OyeHasta
  <2>3. Sigue(w)'
    BY <1>5, <2>2 DEF Sigue, retraso
  <2>4. contadorBit' = 0 => contador' \in retraso(w)..(Etu - 2)
    BY <1>5 DEF retraso
  <2>5. QED
    BY <1>2, <1>3, <1>5, <2>3, <2>4 DEF Escribiendo
<1>6. CASE contador = 0 /\ ComandoListo(w) /\ datos = Borrado
  <2>1. contador' = 1 /\ contadorBit' = 0 /\ contadorByte' = w
    BY <1>1, <1>2, <1>3, <1>6, CuentaTickCasos, EtuAssumption
  <2>2. SIM_IO[2] = 0
    BY <1>3, <1>6 DEF Borrado, Bajo
  <2>3. QED
    BY <1>2, <1>3, <1>4, <1>5, <1>6, <2>1, <2>2, EtuAssumption DEF retraso, celda
<1>7. CASE contador = 1 /\ ~ComandoListo(w) /\ datos = Resto(w, 0)
  <2>1. contador' = 2 /\ contadorBit' = 0 /\ contadorByte' = w
    BY <1>1, <1>2, <1>3, <1>7, CuentaTickCasos, EtuAssumption
  <2>2. SIM_IO[2] = 0
    <3>1. SIM_IO = <<w, 0>>
      <4>1. SIM_IO = datos[0] /\ datos = Resto(w, 0)
        BY <1>3, <1>7
      <4>2. 0 \in 0..9
        OBVIOUS
      <4>3. Resto(w, 0)[0] = <<w, 0>>
        BY <4>2, RestoLinea
      <4>4. QED
        BY <4>1, <4>3
    <3>2. QED
      BY <3>1
  <2>3. datos' = Resto(w, 0)
    BY <1>3, <1>7, EtuAssumption
  <2>4. celda' = 0
    BY <2>1, EtuAssumption DEF celda
  <2>5. QED
    BY <1>5, <1>7, <2>1, <2>2, <2>3, <2>4, EtuAssumption DEF retraso
<1>8. CASE contador \in {0, Etu - 1} /\ ~ComandoListo(w) /\ datos = Vacio
  <2>1. SIM_IO = Alto
    BY <1>3, <1>8 DEF Vacio
  <2>2. Dispuesta(w)'
    BY <1>2, <2>1, PasoOyeNada
  <2>3. contadorBit' = 0 /\ contadorByte' = w
        /\ contador' = IF contador = 0 THEN 1 ELSE 0
    BY <1>1, <1>2, <1>3, <1>8, CuentaTickCasos, EtuAssumption
  <2>4. contador # 0 => datos' = Vacio
    BY <1>3, <1>8 DEF Vacio
  <2>5. contador = 0 => datos' = Resto(w, 0)
    BY <1>3, <1>4
  <2>6. QED
    BY <1>2, <1>3, <1>8, <2>2, <2>3, <2>4, <2>5 DEF Arrancando
<1>9. QED
  BY <1>1, <1>6, <1>7, <1>8 DEF Arrancando

LEMMA PasoEscribiendo ==
  ASSUME TypeOK, Flanco, Escribiendo
  PROVE  Escribiendo' \/ Escrita'
<1>1. PICK w \in 0..255, b \in 0..9, c \in 0..(Etu - 1) :
        w = contadorByte /\ b = contadorBit /\ c = contador
  BY DEF Escribiendo, TypeOK, LectorOK
<1>2. PICK r \in {1, 2} : r = retraso(w)
  BY DEF retraso
<1>3. /\ SIM_RST /\ FlancoTarjeta /\ EnEscribirComando /\ ~ComandoFin(w)
      /\ Escrito(w) /\ w \in 0..UltimoByte
      /\ b = 0 => c \in r..(Etu - 2)
      /\ Sigue(w)
  BY <1>1, <1>2, LectorEn, GuionEscrito DEF Flanco, Escribiendo, SIM_RST
<1>4. PICK k \in 0..9 : k = celda
  BY <1>1, <1>2, <1>3, EtuAssumption DEF celda
<1>5. k = IF c = Etu - 1 THEN b - 1 ELSE b
  BY <1>1, <1>4 DEF celda
<1>6. /\ datos = Resto(w, k)
      /\ c >= r => OyeHasta(w, k, c - r)
      /\ c < r => OyeHasta(w, k - 1, c + Etu - r)
  BY <1>1, <1>2, <1>3, <1>4 DEF Sigue
<1>7. /\ CuentaTick /\ EstadoActual' = "EscribirComando" /\ SIM_IO = <<w, k>>
      /\ datos' = IF c = Etu - 1 THEN Resto(w, k + 1) ELSE Resto(w, k)
  <2>1. ~(b = 0 /\ c = 0)
    BY <1>2, <1>3
  <2>2. QED
    BY <1>1, <1>3, <1>6, <2>1, RestoLinea, RestoCorre DEF EnEscribirComando, SIM_IO, io_rw
<1>8. CASE c < Etu - 2
  <2>1. contador' = c + 1 /\ contadorBit' = b /\ contadorByte' = w /\ celda' = k
    BY <1>1, <1>5, <1>7, <1>8, CuentaTickCasos, EtuAssumption DEF celda
  <2>2. datos' = Resto(w, k)
    BY <1>7, <1>8, EtuAssumption
  <2>3. CASE c >= r
    <3>1. OyeHasta(w, k, c + 1 - r)'
      <4>1. c - r \in 0..(Etu - 1) /\ c - r < Etu - 1 /\ c - r + 1 = c + 1 - r
        BY <1>2, <1>8, <2>3, EtuAssumption
      <4>2. QED
        BY <1>3, <1>6, <1>7, <2>3, <4>1, PasoOye
    <3>2. Sigue(w)'
      <4>1. retraso(w) = r /\ c + 1 >= r
        BY <1>2, <2>3
      <4>2. QED
        BY <2>1, <2>2, <3>1, <4>1 DEF Sigue, retraso
    <3>3. b = 0 => c + 1 \in r..(Etu - 2)
      BY <1>2, <1>3, <1>8, EtuAssumption
    <3>4. QED
      BY <1>1, <1>2, <1>3, <1>7, <2>1, <3>2, <3>3 DEF Escribiendo, retraso
  <2>4. CASE c < r
    <3>1. k \in 1..9 /\ k = b
      BY <1>1, <1>2, <1>3, <1>5, <1>8, <2>4, EtuAssumption
    <3>2. c + Etu - r \in 0..(Etu - 1) /\ c + Etu - r > MuestraTarjeta
      BY <1>2, <2>4, EtuAssumption
    <3>3. /\ c + 1 < r => OyeHasta(w, k - 1, c + 1 + Etu - r)'
          /\ c + 1 = r => OyeHasta(w, k, 0)'
      <4>1. PICK t \in 0..(Etu - 1) : t = c + Etu - r
        BY <3>2
      <4>2. /\ k - 1 \in 0..9 /\ k - 1 < 9 /\ (k - 1) + 1 = k
            /\ t # MuestraTarjeta /\ OyeHasta(w, k - 1, t)
        BY <1>6, <2>4, <3>1, <3>2, <4>1, EtuAssumption
      <4>3. /\ t < Etu - 1 => OyeHasta(w, k - 1, t + 1)'
            /\ t = Etu - 1 => OyeHasta(w, (k - 1) + 1, 0)'
        BY <1>3, <4>2, PasoOye
      <4>4. /\ c + 1 < r => t < Etu - 1 /\ t + 1 = c + 1 + Etu - r
            /\ c + 1 = r => t = Etu - 1
        BY <1>2, <4>1, EtuAssumption
      <4>5. QED
        BY <4>2, <4>3, <4>4
    <3>4. Sigue(w)'
      <4>1. CASE c + 1 < r
        BY <1>2, <2>1, <2>2, <3>3, <4>1 DEF Sigue, retraso
      <4>2. CASE c + 1 = r
        BY <1>2, <2>1, <2>2, <3>3, <4>2 DEF Sigue, retraso
      <4>3. QED
        BY <1>2, <2>4, <4>1, <4>2
    <3>5. QED
      BY <1>1, <1>3, <1>7, <2>1, <3>1, <3>4 DEF Escribiendo
  <2>5. QED
    BY <1>2, <2>3, <2>4
<1>9. CASE c = Etu - 2
  <2>1. /\ contador' = Etu - 1 /\ contadorBit' = b + 1 /\ celda' = k
        /\ contadorByte' = IF b = 9 THEN w + 1 ELSE w
    BY <1>1, <1>3, <1>5, <1>7, <1>9, CuentaTickCasos, EtuAssumption DEF celda
  <2>2. OyeHasta(w, k, Etu - 1 - r)'
    <3>1. c >= r /\ c - r \in 0..(Etu - 1) /\ c - r < Etu - 1 /\ c - r + 1 = Etu - 1 - r
      BY <1>2, <1>9, EtuAssumption
    <3>2. QED
      BY <1>3, <1>6, <1>7, <3>1, PasoOye
  <2>3. Sigue(w)'
    <3>1. datos' = Resto(w, k)
      BY <1>7, <1>9, EtuAssumption
    <3>2. retraso(w) = r /\ Etu - 1 >= r
      BY <1>2, EtuAssumption
    <3>3. QED
      BY <2>1, <2>2, <3>1, <3>2 DEF Sigue, retraso
  <2>4. CASE b < 9
    BY <1>1, <1>3, <1>7, <2>1, <2>3, <2>4 DEF Escribiendo
  <2>5. CASE b = 9
    <3>1. contadorByte' - 1 = w
      BY <2>1, <2>5
    <3>2. QED
      BY <1>1, <1>3, <1>7, <2>1, <2>3, <2>5, <3>1 DEF Escrita
  <2>6. QED
    BY <2>4, <2>5
<1>10. CASE c = Etu - 1
  <2>1. b \in 1..9 /\ k = b - 1
    BY <1>1, <1>3, <1>5, <1>10
  <2>2. contador' = 0 /\ contadorBit' = b /\ contadorByte' = w /\ celda' = b
    BY <1>1, <1>7, <1>10, CuentaTickCasos, EtuAssumption DEF celda
  <2>3. OyeHasta(w, b - 1, Etu - r)'
    <3>1. c >= r /\ c - r \in 0..(Etu - 1) /\ c - r < Etu - 1 /\ c - r + 1 = Etu - r
      BY <1>2, <1>10, EtuAssumption
    <3>2. QED
      BY <1>3, <1>6, <1>7, <2>1, <3>1, PasoOye
  <2>4. Sigue(w)'
    <3>1. datos' = Resto(w, b)
      BY <1>7, <1>10, <2>1
    <3>2. retraso(w) = r /\ ~(0 >= r) /\ 0 + Etu - r = Etu - r
      BY <1>2, EtuAssumption
    <3>3. QED
      BY <2>2, <2>3, <3>1, <3>2 DEF Sigue, retraso
  <2>5. QED
    BY <1>3, <1>7, <2>1, <2>2, <2>4 DEF Escribiendo
<1>11. QED
  BY <1>1, <1>8, <1>9, <1>10, EtuAssumption

LEMMA PasoEscrita ==
  ASSUME TypeOK, ~confirmada', Flanco, Escrita
  PROVE  Esperando' \/ Arrancando' \/ Escrita'
<1>1. PICK n \in 0..UltimoByte, c \in 0..(Etu - 1) :
        contadorByte = n + 1 /\ c = contador /\ Escrito(n)
  <2>1. contadorByte - 1 \in 0..UltimoByte /\ contadorByte = (contadorByte - 1) + 1
    BY DEF Escrita, Escrito, TypeOK, LectorOK
  <2>2. QED
    BY <2>1 DEF Escrita, TypeOK, LectorOK
<1>2. PICK r \in {1, 2} : r = retraso(n)
  BY DEF retraso
<1>3. contadorByte - 1 = n
  BY <1>1
<1>4. /\ SIM_RST /\ FlancoTarjeta /\ EnEscribirComando /\ contadorBit = 10
      /\ n \in 0..255 /\ Siguiente(n) = n + 1
      /\ \/ ComandoFin(n + 1) /\ EsTarjeta(n + 1)
         \/ ~ComandoFin(n + 1) /\ Escrito(n + 1) /\ ~ComandoListo(n + 1)
  BY <1>1, LectorEn, GuionEscrito DEF Flanco, Escrita, SIM_RST
<1>5. celda = IF c = Etu - 1 THEN 9 ELSE 10
  BY <1>1, <1>4 DEF celda
<1>6. ASSUME c \in {Etu - 1} \cup 0..(r - 1), Sigue(n)
      PROVE  /\ c = Etu - 1 => OyeHasta(n, 9, Etu - r)'
             /\ c + 1 < r => OyeHasta(n, 9, c + 1 + Etu - r)'
             /\ c + 1 = r => OyeHasta(n, 9, Etu - 1)
  <2> DEFINE t == IF c = Etu - 1 THEN Etu - 1 - r ELSE c + Etu - r
  <2>1. PICK u \in 0..(Etu - 1) : u = t
    BY <1>1, <1>2, <1>6, EtuAssumption
  <2>2. OyeHasta(n, 9, u)
    <3>1. CASE c = Etu - 1
      BY <1>1, <1>2, <1>5, <1>6, <2>1, <3>1, EtuAssumption DEF Sigue
    <3>2. CASE c # Etu - 1
      <4>1. c < r /\ celda - 1 = 9
        BY <1>1, <1>2, <1>5, <1>6, <3>2
      <4>2. QED
        BY <1>1, <1>2, <1>6, <2>1, <3>2, <4>1, EtuAssumption DEF Sigue
    <3>3. QED
      BY <3>1, <3>2
  <2>3. u = MuestraTarjeta => SIM_IO = <<n, 9>>
    <3>1. u = MuestraTarjeta => c = Etu - 1
      BY <1>1, <1>2, <2>1, EtuAssumption
    <3>2. c = Etu - 1 => SIM_IO = Resto(n, 9)[0]
      BY <1>4, <1>5, <1>6 DEF Sigue, SIM_IO, io_rw, EnEscribirComando
    <3>3. 9 \in 0..9 /\ n \in 0..255
      BY <1>4
    <3>4. Resto(n, 9)[0] = <<n, 9>>
      BY <3>3, RestoLinea
    <3>5. QED
      BY <3>1, <3>2, <3>4
  <2>4. u < Etu - 1 => OyeHasta(n, 9, u + 1)'
    <3>1. 9 \in 0..9 /\ n \in 0..255
      BY <1>4
    <3>2. QED
      BY <1>4, <2>2, <2>3, <3>1, PasoOye
  <2>5. /\ c = Etu - 1 => u + 1 = Etu - r /\ u < Etu - 1
        /\ c + 1 < r => u + 1 = c + 1 + Etu - r /\ u < Etu - 1
        /\ c + 1 = r => u = Etu - 1
    BY <1>1, <1>2, <2>1, EtuAssumption
  <2>6. QED
    BY <2>2, <2>4, <2>5
<1>7. CASE c = Etu - 1 /\ Sigue(n) /\ ComandoFin(n + 1)
  <2>1. EstadoActual' = "EsperarDato" /\ EnPunto' /\ contadorByte' = n + 1
    BY <1>1, <1>4, <1>7 DEF EnEscribirComando, LimpiaMarco, EnPunto
  <2>2. Etu - r \in (Etu - r)..(Etu - 1) /\ OyeHasta(n, 9, Etu - r)'
    BY <1>2, <1>6, <1>7, EtuAssumption
  <2>3. (contadorByte - 1)' = n /\ ttick' = Etu - r
    BY <2>1, <2>2 DEF OyeHasta
  <2>4. ttick' \in (Etu - retraso((contadorByte - 1)'))..(Etu - 1)
    BY <1>2, <2>2, <2>3
  <2>5. OyeHasta(contadorByte - 1, 9, ttick)'
    BY <2>2, <2>3 DEF OyeHasta
  <2>6. QED
    BY <1>7, <2>1, <2>4, <2>5 DEF Esperando, retraso
<1>8. ASSUME ~ComandoFin(n + 1)
      PROVE  /\ CuentaTick /\ EstadoActual' = "EscribirComando"
             /\ SIM_IO = datos[0] /\ Escrito(n + 1) /\ ~ComandoListo(n + 1)
             /\ c < Etu - 1 => datos' = datos
             /\ c = Etu - 1 => datos' = [i \in 0..9 |-> IF i = 9 THEN Alto ELSE datos[i + 1]]
  BY <1>1, <1>4, <1>8 DEF EnEscribirComando, SIM_IO, io_rw
<1>9. CASE c = Etu - 1 /\ Sigue(n) /\ ~ComandoFin(n + 1)
  <2>1. contador' = 0 /\ contadorBit' = 10 /\ contadorByte' = n + 1 /\ celda' = 10
    BY <1>1, <1>4, <1>8, <1>9, CuentaTickCasos, EtuAssumption DEF celda
  <2>2. datos' = Resto(n, 10)
    <3>1. /\ datos = Resto(n, 9)
          /\ datos' = [i \in 0..9 |-> IF i = 9 THEN Alto ELSE datos[i + 1]]
      BY <1>5, <1>8, <1>9 DEF Sigue
    <3>2. 9 \in 0..9 /\ n \in 0..255 /\ 9 + 1 = 10
      BY <1>4
    <3>3. [i \in 0..9 |-> IF i = 9 THEN Alto ELSE Resto(n, 9)[i + 1]] = Resto(n, 9 + 1)
      BY <3>2, RestoCorre
    <3>4. QED
      BY <3>1, <3>2, <3>3
  <2>3. OyeHasta(n, 10 - 1, 0 + Etu - r)'
    <3>1. OyeHasta(n, 9, Etu - r)' /\ 0 + Etu - r = Etu - r /\ 10 - 1 = 9
      BY <1>2, <1>6, <1>9, EtuAssumption
    <3>2. QED
      BY <3>1
  <2>4. Sigue(n)'
    BY <1>2, <2>1, <2>2, <2>3 DEF Sigue, retraso
  <2>5. (contadorByte - 1)' = n /\ contador' \in 0..(retraso(n) - 1)
    BY <1>2, <2>1
  <2>6. QED
    BY <1>1, <1>8, <1>9, <2>1, <2>4, <2>5 DEF Escrita, retraso
<1>10. CASE c \in 0..(r - 1) /\ Sigue(n) /\ ~ComandoFin(n + 1)
  <2>1. /\ contador' = c + 1 /\ contadorBit' = 10 /\ contadorByte' = n + 1
        /\ celda' = 10 /\ c < Etu - 2 /\ c + 1 <= Etu - 2
    BY <1>1, <1>2, <1>4, <1>8, <1>10, CuentaTickCasos, EtuAssumption DEF celda
  <2>2. datos = Resto(n, 10) /\ datos' = Resto(n, 10)
    BY <1>5, <1>8, <1>10, <2>1, EtuAssumption DEF Sigue
  <2>3. (contadorByte - 1)' = n
    BY <2>1
  <2>4. CASE c + 1 < r
    <3>1. OyeHasta(n, 10 - 1, c + 1 + Etu - r)'
      <4>1. OyeHasta(n, 9, c + 1 + Etu - r)' /\ 10 - 1 = 9
        BY <1>6, <1>10, <2>4
      <4>2. QED
        BY <4>1
    <3>2. retraso(n)' = r /\ ~(c + 1 >= r) /\ c + 1 \in 0..(r - 1)
      BY <1>1, <1>2, <2>4 DEF retraso
    <3>3. Sigue(n)'
      BY <2>1, <2>2, <3>1, <3>2 DEF Sigue
    <3>4. QED
      BY <1>1, <1>8, <1>10, <2>1, <2>3, <3>2, <3>3 DEF Escrita
  <2>5. CASE c + 1 = r
    <3>1. OyeHasta(n, 9, Etu - 1)
      BY <1>6, <1>10, <2>5
    <3>2. Dispuesta(n + 1)'
      BY <1>4, <3>1, PasoOido
    <3>3. retraso(n)' = r /\ c + 1 \in r..(Etu - 2)
      BY <1>2, <2>1, <2>5 DEF retraso
    <3>4. datos' = Vacio
      BY <1>4, <2>2, RestoFin
    <3>5. QED
      BY <1>1, <1>8, <1>10, <2>1, <2>3, <3>2, <3>3, <3>4 DEF Escrita, Dispuesta
  <2>6. QED
    BY <1>1, <1>2, <1>10, <2>4, <2>5
<1>11. CASE /\ c \in r..(Etu - 2) /\ ~ComandoFin(n + 1)
            /\ Dispuesta(n + 1) /\ datos = Vacio
  <2>1. SIM_IO = Alto /\ datos' = Vacio
    BY <1>1, <1>2, <1>8, <1>11, EtuAssumption DEF Vacio
  <2>2. n + 1 # UltimoByte + 1
    BY <1>8, <1>11 DEF Escrito
  <2>3. Dispuesta(n + 1)'
    BY <1>4, <1>8, <1>11, <2>1, <2>2, PasoOyeNada
  <2>4. CASE c < Etu - 2
    <3>1. /\ contador' = c + 1 /\ contadorBit' = 10 /\ contadorByte' = n + 1
          /\ c + 1 \in r..(Etu - 2)
      BY <1>1, <1>2, <1>4, <1>8, <1>11, <2>4, CuentaTickCasos, EtuAssumption
    <3>2. (contadorByte - 1)' = n /\ retraso(n)' = r
      BY <1>2, <3>1 DEF retraso
    <3>3. QED
      BY <1>1, <1>8, <1>11, <2>1, <2>3, <3>1, <3>2 DEF Escrita, Dispuesta
  <2>5. CASE c = Etu - 2
    <3>1. contador' = Etu - 1 /\ contadorBit' = 0 /\ contadorByte' = n + 1
      BY <1>1, <1>4, <1>8, <1>11, <2>5, CuentaTickCasos, EtuAssumption
    <3>2. QED
      BY <1>8, <1>11, <2>1, <2>3, <3>1 DEF Arrancando, Dispuesta
  <2>6. QED
    BY <1>11, <2>4, <2>5, <1>2, EtuAssumption
<1>12. QED
  BY <1>1, <1>2, <1>3, <1>7, <1>9, <1>10, <1>11 DEF Escrita

LEMMA AcuerdoInicial == Init => Acuerdo
  BY DEF Init, Acuerdo, Apagada, EnPunto, Dispuesta, Escrito, UltimoByte

LEMMA AcuerdoPaso ==
  ASSUME TypeOK, Acuerdo, [Next]_vars
  PROVE  Acuerdo'
<1>1. CASE Flanco
  <2>1. CASE ~confirmada'
    <3>1. ~(confirmada /\ SIM_RST)
      BY <1>1, <2>1 DEF Flanco, FlancoTarjeta, TarjetaReset, TarjetaEspera, TarjetaArranca,
                        TarjetaEnvia, TarjetaOye, TarjetaRecibe, TarjetaCalla, Arranca,
                        CuentaTarjeta, tarjeta
    <3> QED
      BY <1>1, <2>1, <3>1, PasoApagada, PasoEsperando, PasoLeyendo, PasoEnSilencio,
         PasoLeido, PasoProcesando, PasoArrancando, PasoEscribiendo, PasoEscrita DEF Acuerdo
  <2>2. CASE confirmada'
    <3>1. SIM_RST
      BY <1>1, <2>2 DEF Flanco, FlancoTarjeta, TarjetaReset, TarjetaEspera, TarjetaArranca,
                        TarjetaEnvia, TarjetaOye, TarjetaRecibe, TarjetaCalla
    <3>2. SIM_RST'
      BY <1>1, <3>1 DEF Flanco, FlancoLector, SIM_RST, EnInactivo, EnInicio, EnCLKHab,
                        EnEsperarDato, EnLeerDato, EnProcesarDato, EnEscribirComando
    <3> QED
      BY <2>2, <3>2 DEF Acuerdo
  <2> QED
    BY <2>1, <2>2 DEF TypeOK, TarjetaOK
<1>2. CASE Deshabilita
  <2>1. Dispuesta(0)'
    BY <1>2, TomaDispuesta DEF Deshabilita
  <2>2. Apagada'
    BY <1>2, <2>1 DEF Deshabilita, Apagada, EnPunto, Dispuesta
  <2>3. QED
    BY <2>2 DEF Acuerdo
<1>3. CASE Habilita \/ UNCHANGED vars
  <2>1. UNCHANGED <<lector, tarjeta>>
    BY <1>3 DEF Habilita, vars
  <2>2. QED
    <3> USE DEF lector, tarjeta, EnPunto, SIM_RST, Dispuesta, Sigue, OyeHasta, celda, muestras
    <3>1. Apagada => Apagada'
      BY <2>1 DEF Apagada
    <3>2. Esperando => Esperando'
      BY <2>1 DEF Esperando
    <3>3. Leyendo => Leyendo'
      BY <2>1 DEF Leyendo
    <3>4. EnSilencio => EnSilencio'
      BY <2>1 DEF EnSilencio
    <3>5. Leido => Leido'
      BY <2>1 DEF Leido
    <3>6. Procesando => Procesando'
      BY <2>1 DEF Procesando
    <3>7. Arrancando => Arrancando'
      BY <2>1 DEF Arrancando
    <3>8. Escribiendo => Escribiendo'
      BY <2>1 DEF Escribiendo
    <3>9. Escrita => Escrita'
      BY <2>1 DEF Escrita
    <3>10. confirmada /\ SIM_RST => (confirmada /\ SIM_RST)'
      BY <2>1
    <3> QED
      BY Zenon, <3>10, <3>1, <3>2, <3>3, <3>4, <3>5, <3>6, <3>7, <3>8, <3>9 DEF Acuerdo
<1>4. QED
  BY <1>1, <1>2, <1>3 DEF Next

\* For every length of an etu, every sampling point and every pace of the
\* card, the two ends stay in agreement, until the card confirms a header.
THEOREM SiempreDeAcuerdo == Spec => []Acuerdo
<1>1. Init => TypeOK /\ Acuerdo
  BY TipoInicial, AcuerdoInicial
<1>2. (TypeOK /\ Acuerdo) /\ [Next]_vars => (TypeOK /\ Acuerdo)'
  BY TipoPaso, AcuerdoPaso
<1>3. QED
  BY <1>1, <1>2, PTL DEF Spec

-----------------------------------------------------------------------------
(* What the agreement gives. *)

\* Whatever the card, the reader never drives the line while the card sends,
\* unless the card has confirmed a header in this session, as the comments of
\* simcard.v:204 and :213 have it: then it does (README, section 6).
THEOREM SinChoque == Spec => [](~confirmada => ~Choque)
<1>1. TypeOK /\ Acuerdo => (~confirmada => ~Choque)
  BY DEF Acuerdo, Apagada, Esperando, Leyendo, EnSilencio, Leido, Procesando,
         Arrancando, Escribiendo, Escrita, Dispuesta, Sigue, OyeHasta, Choque, io_rw
<1>2. QED
  BY <1>1, TipoCorrecto, SiempreDeAcuerdo, PTL

\* Every byte the card sends arrives whole, at its place in the script, for
\* every card and up to its first procedure byte.
THEOREM ByteIntegro == Spec => []ByteLeido
<1>1. TypeOK /\ Acuerdo => ByteLeido
  <2> SUFFICES ASSUME TypeOK, Acuerdo, EstadoActual = "LeerDato", contadorBit = 10,
                      ~EspereByte(contadorByte - 1), ~confirmada
               PROVE  datos = [i \in 0..9 |-> <<contadorByte - 1, 9 - i>>]
    BY DEF ByteLeido
  <2>1. Leido
    BY DEF Acuerdo, Apagada, Esperando, Leyendo, EnSilencio, Procesando,
           Arrancando, Escribiendo, Escrita
  <2>2. contadorByte - 1 \notin Silencio
    BY DEF EspereByte, Silencio
  <2>3. QED
    BY <2>1, <2>2 DEF Leido
<1>2. QED
  BY <1>1, TipoCorrecto, SiempreDeAcuerdo, PTL

\* Every byte of a command is heard whole by a card that waits for it, for
\* every card and up to its first procedure byte.
THEOREM ComandoIntegro == Spec => []ComandoOido
<1>1. TypeOK /\ Acuerdo => ComandoOido
  <2> SUFFICES ASSUME TypeOK, Acuerdo, tmodo = "recibe", FinDeMarco, ~confirmada
               PROVE  trama = [i \in 0..9 |-> <<tbyte, i>>]
    BY DEF ComandoOido
  <2>1. OyeHasta(tbyte, tbit, ttick)
    <3>1. \/ Esperando /\ OyeHasta(contadorByte - 1, 9, ttick)
          \/ \E n, b, t : OyeHasta(n, b, t)
      BY DEF Acuerdo, Apagada, Esperando, Leyendo, EnSilencio, Leido, Procesando,
             Arrancando, Escribiendo, Escrita, Dispuesta, Sigue
    <3>2. QED
      BY <3>1 DEF OyeHasta
  <2>2. tbit = 9 /\ ttick > MuestraTarjeta
    BY EtuAssumption DEF FinDeMarco, TypeOK, TarjetaOK
  <2>3. \A i \in 0..9 : trama[i] = <<tbyte, i>>
    BY <2>1, <2>2 DEF OyeHasta
  <2>4. QED
    BY <2>3 DEF TypeOK, TarjetaOK
<1>2. QED
  BY <1>1, TipoCorrecto, SiempreDeAcuerdo, PTL

-----------------------------------------------------------------------------
(* simcard.v and the card implement SimLine.  Each phase of Acuerdo is one  *)
(* or two situations of the line; an edge leads from the situation of one   *)
(* phase to that of the next, which is a step of SimLine or none.           *)

\* The situation of each phase, and where it has two, what tells them apart.
Situacion ==
  /\ Apagada => hablan = {} /\ lugar = 0 /\ tbyte = 0
  /\ Esperando =>
       /\ lugar = contadorByte
       /\ \/ hablan = {} /\ tbyte = contadorByte /\ tmodo \in {"pausa", "fin"}
          \/ /\ hablan = {"tarjeta"} /\ tbyte = contadorByte /\ EsTarjeta(contadorByte)
             /\ tmodo = "envia" /\ tbit = 0
          \/ /\ hablan = {} /\ tbyte = contadorByte - 1 /\ ComandoFin(contadorByte)
             /\ tmodo = "recibe"
  /\ Leyendo => /\ hablan = {"tarjeta"} /\ lugar = contadorByte /\ tbyte = contadorByte
                /\ EsTarjeta(contadorByte)
  /\ EnSilencio => hablan = {} /\ lugar = contadorByte + 1 /\ tbyte = contadorByte + 1
  /\ Leido => /\ hablan = {} /\ lugar = tbyte
              /\ EsTarjeta(contadorByte - 1) => lugar = Siguiente(contadorByte - 1)
              /\ contadorByte - 1 \in Silencio => lugar = contadorByte
  /\ Procesando => hablan = {} /\ lugar = tbyte /\ tmodo \in {"pausa", "oye", "fin"}
  /\ Arrancando \/ Escribiendo =>
       /\ hablan = {"lector"} /\ lugar = contadorByte /\ tbyte = contadorByte
       /\ Escrito(contadorByte)
  /\ Escrita =>
       /\ hablan = {} /\ lugar = contadorByte /\ Escrito(contadorByte - 1)
       /\ \/ tbyte = contadorByte - 1 /\ tmodo = "recibe" /\ contador # Etu - 2
          \/ tbyte = contadorByte /\ tmodo = "oye" /\ contador # Etu - 1

LEMMA SituacionBien == TypeOK => Situacion
<1> SUFFICES ASSUME TypeOK PROVE Situacion
  OBVIOUS
<1> DEFINE w == contadorByte
<1>1. w \in 0..255
  BY DEF TypeOK, LectorOK, CuentaByte
<1>2. /\ io_rw => hablan = IF tmodo = "envia" THEN {"tarjeta"} ELSE {}
      /\ tmodo # "envia" => hablan = IF ~io_rw /\ contadorBit # 10 THEN {"lector"} ELSE {}
  BY DEF hablan
<1>3. io_rw <=> EstadoActual # "EscribirComando"
  BY DEF io_rw
<1>4. ~EspereByte(w) => lugar = w
  BY DEF lugar
<1>5. Apagada => hablan = {} /\ lugar = 0 /\ tbyte = 0
  BY <1>2, <1>3, <1>4 DEF Apagada, Dispuesta, Escrito, UltimoByte, EspereByte
<1>6. ASSUME Esperando
      PROVE  /\ lugar = w
             /\ \/ hablan = {} /\ tbyte = w /\ tmodo \in {"pausa", "fin"}
                \/ /\ hablan = {"tarjeta"} /\ tbyte = w /\ EsTarjeta(w)
                   /\ tmodo = "envia" /\ tbit = 0
                \/ hablan = {} /\ tbyte = w - 1 /\ ComandoFin(w) /\ tmodo = "recibe"
  <2>1. ~EspereByte(w)
    BY <1>6, <1>1, GuionLibre DEF Esperando, ComandoFin, EspereByte
  <2>2. (EsTarjeta(w) \/ w = UltimoByte + 1) /\ Dispuesta(w) => tmodo \in {"pausa", "fin"} /\ tbyte = w
    BY <1>1, GuionLibre DEF Dispuesta
  <2>3. io_rw
    BY <1>3, <1>6 DEF Esperando
  <2> QED
    BY <1>2, <1>4, <1>6, <2>1, <2>2, <2>3 DEF Esperando, OyeHasta
<1>7. ASSUME Leyendo
      PROVE  hablan = {"tarjeta"} /\ lugar = w /\ tbyte = w /\ EsTarjeta(w)
  BY <1>1, <1>2, <1>3, <1>4, <1>7, GuionLibre DEF Leyendo
<1>8. ASSUME EnSilencio
      PROVE  hablan = {} /\ lugar = w + 1 /\ tbyte = w + 1
  <2>1. EspereByte(w) /\ Escrito(w + 1) /\ w + 1 # UltimoByte + 1
    BY <1>1, <1>8, GuionSilencio, GuionListo DEF EnSilencio
  <2>2. tbyte = w + 1 /\ tmodo = "oye"
    BY <1>8, <2>1 DEF EnSilencio, Dispuesta
  <2>3. io_rw
    BY <1>3, <1>8 DEF EnSilencio
  <2> QED
    BY <1>2, <2>1, <2>2, <2>3 DEF lugar
<1>9. ASSUME Leido
      PROVE  /\ hablan = {} /\ lugar = tbyte
             /\ EsTarjeta(w - 1) => lugar = Siguiente(w - 1)
             /\ w - 1 \in Silencio => lugar = w
  <2>1. io_rw /\ tmodo # "envia"
    BY <1>3, <1>9 DEF Leido, Dispuesta
  <2>2. EsTarjeta(w - 1) => lugar = Siguiente(w - 1) /\ w - 1 \notin Silencio
    BY <1>1 DEF lugar, EspereByte, Siguiente, Silencio, EsTarjeta
  <2>3. w - 1 \in Silencio => lugar = w /\ ~EsTarjeta(w - 1)
    BY <1>1 DEF lugar, EspereByte, Silencio, EsTarjeta
  <2>4. \/ EsTarjeta(w - 1) /\ tbyte = Siguiente(w - 1)
        \/ w - 1 \in Silencio /\ tbyte = w
    BY <1>9 DEF Leido, Dispuesta
  <2> QED
    BY <1>2, <2>1, <2>2, <2>3, <2>4
<1>10. ASSUME Procesando
       PROVE  hablan = {} /\ lugar = tbyte /\ tmodo \in {"pausa", "oye", "fin"}
  <2>1. io_rw /\ tmodo \in {"pausa", "oye", "fin"}
    BY <1>3, <1>10 DEF Procesando, Dispuesta
  <2>2. \/ ~EspereByte(w) /\ tbyte = w
        \/ EspereByte(w) /\ tbyte = w + 1
    BY <1>1, <1>10, GuionLibre, GuionListo, GuionSilencio DEF Procesando, Dispuesta
  <2> QED
    BY <1>2, <2>1, <2>2 DEF lugar
<1>11. ASSUME Arrancando \/ Escribiendo
       PROVE  hablan = {"lector"} /\ lugar = w /\ tbyte = w /\ Escrito(w)
  <2>1. Escrito(w) /\ EstadoActual = "EscribirComando" /\ contadorBit # 10
    BY <1>11 DEF Arrancando, Escribiendo, TypeOK, LectorOK
  <2>2. ~EspereByte(w) /\ w # UltimoByte + 1
    BY <2>1 DEF Escrito, EspereByte, UltimoByte
  <2>3. tbyte = w /\ tmodo # "envia"
    BY <1>11, <2>1, <2>2 DEF Arrancando, Escribiendo, Dispuesta, Sigue, OyeHasta
  <2> QED
    BY <1>2, <1>3, <1>4, <2>1, <2>2, <2>3
<1>12. ASSUME Escrita
       PROVE  /\ hablan = {} /\ lugar = w /\ Escrito(w - 1)
              /\ \/ tbyte = w - 1 /\ tmodo = "recibe" /\ contador # Etu - 2
                 \/ tbyte = w /\ tmodo = "oye" /\ contador # Etu - 1
  <2>1. Escrito(w - 1) /\ contadorBit = 10
    BY <1>12 DEF Escrita
  <2>2. /\ ~EspereByte(w) /\ w # UltimoByte + 1
        /\ ~ComandoFin(w) => Escrito(w)
    BY <1>1, <2>1 DEF Escrito, EspereByte, UltimoByte, ComandoFin
  <2>3. CASE /\ contador \in {Etu - 1} \cup 0..(retraso(w - 1) - 1)
             /\ Sigue(w - 1)
    <3>1. tbyte = w - 1 /\ tmodo = "recibe"
      BY <2>3 DEF Sigue, OyeHasta
    <3>2. contador # Etu - 2
      BY <2>3, EtuAssumption DEF retraso
    <3> QED
      BY <1>2, <1>4, <2>1, <2>2, <3>1, <3>2
  <2>4. CASE ~ComandoFin(w) /\ contador \in retraso(w - 1)..(Etu - 2) /\ Dispuesta(w)
    <3>1. tbyte = w /\ tmodo = "oye"
      BY <2>2, <2>4 DEF Dispuesta
    <3>2. contador # Etu - 1
      BY <2>4, EtuAssumption DEF retraso
    <3> QED
      BY <1>2, <1>4, <2>1, <2>2, <3>1, <3>2
  <2> QED
    BY <1>12, <2>3, <2>4 DEF Escrita
<1> QED
  BY <1>5, <1>6, <1>7, <1>8, <1>9, <1>10, <1>11, <1>12 DEF Situacion

LEMMA SituacionDespues == TypeOK' => Situacion'
  BY SituacionBien, PTL

\* The ways a step of the line is taken, in terms of the two ends.
LineaQuieta == UNCHANGED <<hablan, lugar, tbyte>>

\* What is to be shown of a step before the card confirms a header.
PasoDeLinea == ~confirmada /\ ~confirmada' => [Linea!Next]_(Linea!vars)

LEMMA QuietaEsPaso == LineaQuieta => PasoDeLinea
  BY DEF LineaQuieta, PasoDeLinea, Linea!vars

LEMMA HablaEsPaso ==
  ASSUME NEW q \in {"lector", "tarjeta"}, hablan = {}, lugar = tbyte, lugar <= UltimoByte,
         Escrito(lugar) <=> q = "lector",
         hablan' = {q}, lugar' = lugar, tbyte' = tbyte
  PROVE  PasoDeLinea
<1> SUFFICES ASSUME ~confirmada, ~confirmada' PROVE [Linea!Next]_(Linea!vars)
  BY DEF PasoDeLinea
<1>1. Linea!DeQuien(lugar) = q
  BY DEF Linea!DeQuien, Linea!Escrito, Escrito
<1>2. Linea!Habla(q)
  BY <1>1 DEF Linea!Habla, Linea!UltimoByte, UltimoByte
<1> QED
  BY <1>2 DEF Linea!Next

LEMMA CallaTarjetaEsPaso ==
  ASSUME hablan = {"tarjeta"}, hablan' = {}, lugar' = Siguiente(lugar), tbyte' = lugar'
  PROVE  PasoDeLinea
<1> SUFFICES ASSUME ~confirmada, ~confirmada' PROVE [Linea!Next]_(Linea!vars)
  BY DEF PasoDeLinea
<1>1. Linea!CallaTarjeta
  BY DEF Linea!CallaTarjeta, Linea!Siguiente, Siguiente, Linea!Silencio, Silencio
<1> QED
  BY <1>1 DEF Linea!Next

LEMMA CallaLectorEsPaso ==
  ASSUME hablan = {"lector"}, hablan' = {}, lugar' = Siguiente(lugar), tbyte' = tbyte
  PROVE  PasoDeLinea
<1> SUFFICES ASSUME ~confirmada, ~confirmada' PROVE [Linea!Next]_(Linea!vars)
  BY DEF PasoDeLinea
<1>1. Linea!CallaLector
  BY DEF Linea!CallaLector, Linea!Siguiente, Siguiente, Linea!Silencio, Silencio
<1> QED
  BY <1>1 DEF Linea!Next

LEMMA OyoEsPaso ==
  ASSUME hablan = {}, lugar = Siguiente(tbyte), tbyte' = lugar, hablan' = {}, lugar' = lugar
  PROVE  PasoDeLinea
<1> SUFFICES ASSUME ~confirmada, ~confirmada' PROVE [Linea!Next]_(Linea!vars)
  BY DEF PasoDeLinea
<1>1. Linea!TarjetaOyo
  BY DEF Linea!TarjetaOyo, Linea!Siguiente, Siguiente, Linea!Silencio, Silencio
<1> QED
  BY <1>1 DEF Linea!Next

\* What the card does to its place: only a frame that ends moves it.
LEMMA LugarTarjeta ==
  ASSUME FlancoTarjeta, SIM_RST
  PROVE  /\ tmodo \in {"pausa", "fin"} => tbyte' = tbyte
         /\ tmodo = "oye" => tbyte' = tbyte /\ tmodo' # "envia"
         /\ tmodo = "recibe" => tmodo' # "envia"
         /\ tmodo = "envia" /\ tbit # 9 => tmodo' = "envia" /\ tbyte' = tbyte
<1>1. /\ tmodo \in {"pausa", "fin"} => tbyte' = tbyte
      /\ tmodo = "oye" => tbyte' = tbyte /\ tmodo' # "envia"
  BY TarjetaEn DEF TarjetaEspera, TarjetaArranca, TarjetaCalla, TarjetaOye, Arranca, tarjeta
<1>2. tmodo = "recibe" => tmodo' # "envia"
  BY TarjetaEn DEF TarjetaRecibe, Toma, CuentaTarjeta
<1>3. tmodo = "envia" /\ tbit # 9 => tmodo' = "envia" /\ tbyte' = tbyte
  BY TarjetaEn DEF TarjetaEnvia, FinDeMarco, CuentaTarjeta
<1> QED
  BY <1>1, <1>2, <1>3

\* What the reader does to its place: only a tenth bit moves it.
LEMMA LugarLector ==
  ASSUME TypeOK, Flanco
  PROVE  /\ EstadoActual \notin {"LeerDato", "EscribirComando"} => contadorByte' = contadorByte
         /\ contadorBit' # 10 \/ contadorBit = 10 => contadorByte' = contadorByte
         /\ contadorBit' = 10 /\ contadorBit # 10 =>
              /\ EstadoActual \in {"LeerDato", "EscribirComando"} =>
                   contadorByte' = (contadorByte + 1) % 256
              /\ EstadoActual \in {"LeerDato", "EscribirComando"} => contador' = Etu - 1
<1>1. FlancoLector
  BY DEF Flanco
<1>2. CuentaTick =>
        /\ contadorBit' # 10 \/ contadorBit = 10 => contadorByte' = contadorByte
        /\ contadorBit' = 10 /\ contadorBit # 10 =>
             contadorByte' = (contadorByte + 1) % 256 /\ contador' = Etu - 1
  BY Zenon DEF CuentaTick, ContadorBit
<1>3. EstadoActual \in {"LeerDato", "EscribirComando"} => CuentaTick \/ LimpiaMarco
  BY <1>1, LectorEn DEF EnLeerDato, EnEscribirComando
<1>4. LimpiaMarco => contadorBit' = 0 /\ contadorByte' = contadorByte
  BY DEF LimpiaMarco
<1>5. EstadoActual \notin {"LeerDato", "EscribirComando"} => contadorByte' = contadorByte
  BY <1>1 DEF FlancoLector, EnInactivo, EnInicio, EnCLKHab, EnEsperarDato, EnLeerDato,
              EnProcesarDato, EnEscribirComando, MarcoQuieto
<1> QED
  BY <1>2, <1>3, <1>4, <1>5

\* The steps, phase by phase.
LEMMA LineaApagada ==
  ASSUME TypeOK, TypeOK', Flanco, Apagada
  PROVE  PasoDeLinea
<1>1. Situacion /\ Situacion'
  BY SituacionBien, SituacionDespues
<1>2. Toma(0)
  BY DEF Flanco, FlancoTarjeta, Apagada, SIM_RST, TarjetaReset, TarjetaEspera,
         TarjetaArranca, TarjetaEnvia, TarjetaOye, TarjetaRecibe, TarjetaCalla
<1>3. tmodo' = "pausa" /\ contadorByte' = 0
  <2>1. tmodo' = "pausa"
    BY <1>2 DEF Toma, UltimoByte, Escrito
  <2>2. contadorByte' = 0
    BY LugarLector DEF Apagada
  <2> QED
    BY <2>1, <2>2
<1>4. Apagada' \/ Esperando'
  BY PasoApagada
<1>5. hablan' = {} /\ lugar' = 0 /\ tbyte' = 0
  BY <1>1, <1>3, <1>4 DEF Situacion, ComandoFin
<1> QED
  BY <1>1, <1>5, QuietaEsPaso DEF Situacion, LineaQuieta

LEMMA LineaEsperando ==
  ASSUME TypeOK, TypeOK', ~confirmada', Flanco, Esperando
  PROVE  PasoDeLinea
<1> DEFINE w == contadorByte
<1>1. Situacion /\ Situacion' /\ w \in 0..255
  BY SituacionBien, SituacionDespues DEF TypeOK, LectorOK, CuentaByte
<1>2. w' = w /\ FlancoTarjeta /\ SIM_RST
  BY LugarLector DEF Esperando, Flanco, SIM_RST
<1>3. Esperando' \/ Leyendo'
  BY PasoEsperando
<1>4. lugar = w /\ lugar' = w
  BY <1>1, <1>2, <1>3 DEF Situacion
<1>5. \/ hablan' = {} /\ tbyte' = w
      \/ hablan' = {"tarjeta"} /\ tbyte' = w /\ tmodo' = "envia" /\ EsTarjeta(w)
      \/ hablan' = {} /\ tbyte' = w - 1 /\ tmodo' = "recibe"
  <2>1. Leyendo => tmodo = "envia"
    BY DEF Leyendo
  <2>2. Leyendo' => tmodo' = "envia"
    BY DEF Leyendo
  <2> QED
    BY <1>1, <1>2, <1>3, <2>2 DEF Situacion
<1>6. CASE hablan = {} /\ tbyte = w /\ tmodo \in {"pausa", "fin"}
  <2>1. tbyte' = w
    BY <1>2, <1>6, LugarTarjeta
  <2>2. CASE hablan' = {}
    BY <1>4, <1>6, <2>1, <2>2, QuietaEsPaso DEF LineaQuieta
  <2>3. CASE hablan' = {"tarjeta"} /\ EsTarjeta(w)
    <3>1. ~Escrito(w) /\ w <= UltimoByte
      BY <1>1, <2>3 DEF EsTarjeta
    <3> QED
      BY <1>4, <1>6, <2>1, <2>3, <3>1, HablaEsPaso
  <2> QED
    BY <1>5, <2>2, <2>3
<1>7. CASE hablan = {"tarjeta"} /\ tbyte = w /\ tmodo = "envia" /\ tbit = 0
  <2>1. tbyte' = w /\ tmodo' = "envia"
    BY <1>2, <1>7, LugarTarjeta
  <2>2. hablan' # {}
    BY <2>1 DEF hablan
  <2>3. hablan' = {"tarjeta"}
    BY <1>5, <2>2
  <2> QED
    BY <1>4, <1>7, <2>1, <2>3, QuietaEsPaso DEF LineaQuieta
<1>8. CASE hablan = {} /\ tbyte = w - 1 /\ ComandoFin(w) /\ tmodo = "recibe"
  <2>1. tmodo' # "envia"
    BY <1>2, <1>8, LugarTarjeta
  <2>2. hablan' = {} /\ (tbyte' = w \/ tbyte' = w - 1)
    BY <1>5, <2>1
  <2>3. CASE tbyte' = w
    <3>1. w = Siguiente(w - 1)
      BY <1>1, <1>8 DEF ComandoFin, Siguiente, Silencio
    <3> QED
      BY <1>4, <1>8, <2>2, <2>3, <3>1, OyoEsPaso
  <2>4. CASE tbyte' = w - 1
    BY <1>4, <1>8, <2>2, <2>4, QuietaEsPaso DEF LineaQuieta
  <2> QED
    BY <2>2, <2>3, <2>4
<1> QED
  BY <1>1, <1>6, <1>7, <1>8 DEF Situacion

LEMMA LineaLeyendo ==
  ASSUME TypeOK, TypeOK', ~confirmada', Flanco, Leyendo
  PROVE  PasoDeLinea
<1> DEFINE w == contadorByte
<1>1. Situacion /\ Situacion'
  BY SituacionBien, SituacionDespues
<1>2. /\ EsTarjeta(w) /\ w \in 0..UltimoByte /\ EstadoActual = "LeerDato" /\ contadorBit # 10
      /\ hablan = {"tarjeta"} /\ lugar = w /\ tbyte = w
  BY <1>1 DEF Situacion, Leyendo, EsTarjeta, TypeOK, LectorOK
<1>3. CASE Leyendo'
  <2>1. contadorBit' # 10
    BY <1>3 DEF Leyendo, TypeOK, LectorOK
  <2>2. w' = w
    BY <2>1, LugarLector
  <2> QED
    BY <1>1, <1>2, <1>3, <2>2, QuietaEsPaso DEF Situacion, LineaQuieta
<1>4. CASE Leido'
  <2>1. contadorBit' = 10
    BY <1>4 DEF Leido
  <2>2. w' - 1 = w
    BY <1>2, <2>1, LugarLector DEF UltimoByte
  <2>3. hablan' = {} /\ lugar' = Siguiente(w) /\ tbyte' = lugar'
    BY <1>1, <1>2, <1>4, <2>2 DEF Situacion
  <2> QED
    BY <1>2, <2>3, CallaTarjetaEsPaso
<1> QED
  BY <1>3, <1>4, PasoLeyendo

LEMMA LineaEnSilencio ==
  ASSUME TypeOK, TypeOK', Flanco, EnSilencio
  PROVE  PasoDeLinea
<1> DEFINE w == contadorByte
<1>1. Situacion /\ Situacion'
  BY SituacionBien, SituacionDespues
<1>2. /\ w \in Silencio /\ EstadoActual = "LeerDato" /\ contadorBit # 10
      /\ hablan = {} /\ lugar = w + 1 /\ tbyte = w + 1
  BY <1>1 DEF Situacion, EnSilencio, TypeOK, LectorOK
<1>3. CASE EnSilencio'
  <2>1. contadorBit' # 10
    BY <1>3 DEF EnSilencio, TypeOK, LectorOK
  <2>2. w' = w
    BY <2>1, LugarLector
  <2> QED
    BY <1>1, <1>2, <1>3, <2>2, QuietaEsPaso DEF Situacion, LineaQuieta
<1>4. CASE Leido'
  <2>1. contadorBit' = 10
    BY <1>4 DEF Leido
  <2>2. w' = w + 1 /\ w' - 1 = w
    BY <1>2, <2>1, LugarLector DEF Silencio
  <2>3. hablan' = {} /\ lugar' = w' /\ tbyte' = lugar'
    BY <1>1, <1>2, <1>4, <2>2 DEF Situacion
  <2> QED
    BY <1>2, <2>2, <2>3, QuietaEsPaso DEF LineaQuieta
<1> QED
  BY <1>3, <1>4, PasoEnSilencio

LEMMA LineaLeido ==
  ASSUME TypeOK, TypeOK', Flanco, Leido
  PROVE  PasoDeLinea
<1>1. Situacion /\ Situacion' /\ Procesando'
  BY SituacionBien, SituacionDespues, PasoLeido
<1>2. contadorByte' = contadorByte
  BY LugarLector DEF Leido
<1>3. lugar' = lugar
  BY <1>2 DEF lugar
<1> QED
  BY <1>1, <1>3, QuietaEsPaso DEF Situacion, LineaQuieta

LEMMA LineaProcesando ==
  ASSUME TypeOK, TypeOK', Flanco, Procesando
  PROVE  PasoDeLinea
<1> DEFINE w == contadorByte
<1>1. /\ Situacion /\ Situacion' /\ w \in 0..255
      /\ hablan = {} /\ lugar = tbyte /\ tmodo \in {"pausa", "oye", "fin"}
  BY SituacionBien, SituacionDespues DEF Situacion, TypeOK, LectorOK, CuentaByte
<1>2. w' = w /\ FlancoTarjeta /\ SIM_RST
  BY LugarLector DEF Procesando, Flanco, SIM_RST
<1>3. lugar' = lugar /\ tbyte' = tbyte
  BY <1>1, <1>2, LugarTarjeta DEF lugar
<1>4. CASE Esperando'
  <2>1. lugar' = w /\ tbyte' = w
    BY <1>1, <1>2, <1>3, <1>4 DEF Situacion
  <2>2. CASE hablan' = {}
    BY <1>1, <1>3, <2>2, QuietaEsPaso DEF LineaQuieta
  <2>3. CASE hablan' = {"tarjeta"} /\ EsTarjeta(w')
    <3>1. ~Escrito(w) /\ w <= UltimoByte
      BY <1>1, <1>2, <2>3 DEF EsTarjeta
    <3> QED
      BY <1>1, <1>3, <2>1, <2>3, <3>1, HablaEsPaso
  <2> QED
    BY <1>1, <1>4, <2>2, <2>3 DEF Situacion
<1>5. CASE EnSilencio'
  BY <1>1, <1>3, <1>5, QuietaEsPaso DEF Situacion, LineaQuieta
<1>6. CASE Arrancando'
  <2>1. hablan' = {"lector"} /\ lugar' = w /\ Escrito(w)
    BY <1>1, <1>2, <1>6 DEF Situacion
  <2>2. w <= UltimoByte
    BY <2>1 DEF Escrito, UltimoByte
  <2> QED
    BY <1>1, <1>3, <2>1, <2>2, HablaEsPaso
<1> QED
  BY <1>4, <1>5, <1>6, PasoProcesando

LEMMA LineaEscribe ==
  ASSUME TypeOK, TypeOK', Flanco, Arrancando \/ Escribiendo
  PROVE  PasoDeLinea
<1> DEFINE w == contadorByte
<1>1. Situacion /\ Situacion'
  BY SituacionBien, SituacionDespues
<1>2. /\ Escrito(w) /\ w \in 0..UltimoByte /\ EstadoActual = "EscribirComando"
      /\ contadorBit # 10 /\ hablan = {"lector"} /\ lugar = w /\ tbyte = w
  BY <1>1, GuionEscrito DEF Situacion, Arrancando, Escribiendo, TypeOK, LectorOK, CuentaByte
<1>3. CASE Arrancando' \/ Escribiendo'
  <2>1. contadorBit' # 10
    BY <1>3 DEF Arrancando, Escribiendo, TypeOK, LectorOK
  <2>2. w' = w
    BY <2>1, LugarLector
  <2> QED
    BY <1>1, <1>2, <1>3, <2>2, QuietaEsPaso DEF Situacion, LineaQuieta
<1>4. CASE Escrita'
  <2>1. contadorBit' = 10
    BY <1>4 DEF Escrita
  <2>2. w' = w + 1 /\ contador' = Etu - 1
    BY <1>2, <2>1, LugarLector DEF UltimoByte
  <2>3. hablan' = {} /\ lugar' = w + 1 /\ tbyte' = w
    BY <1>1, <1>2, <1>4, <2>2 DEF Situacion
  <2>4. Siguiente(w) = w + 1
    BY <1>2, GuionEscrito
  <2> QED
    BY <1>2, <2>3, <2>4, CallaLectorEsPaso
<1>5. Arrancando' \/ Escribiendo' \/ Escrita'
  BY PasoArrancando, PasoEscribiendo
<1> QED
  BY <1>3, <1>4, <1>5

LEMMA LineaEscrita ==
  ASSUME TypeOK, TypeOK', ~confirmada', Flanco, Escrita
  PROVE  PasoDeLinea
<1> DEFINE w == contadorByte
<1>1. /\ Situacion /\ Situacion' /\ Escrito(w - 1) /\ w \in 0..255
      /\ hablan = {} /\ lugar = w
      /\ \/ tbyte = w - 1 /\ tmodo = "recibe" /\ contador # Etu - 2
         \/ tbyte = w /\ tmodo = "oye" /\ contador # Etu - 1
  BY SituacionBien, SituacionDespues DEF Situacion, TypeOK, LectorOK, CuentaByte
<1>2. w' = w /\ FlancoTarjeta /\ SIM_RST /\ FlancoLector /\ contadorBit = 10
  BY LugarLector DEF Escrita, Flanco, SIM_RST
<1>3. Siguiente(w - 1) = w
  BY <1>1, GuionEscrito
<1>4. /\ tmodo = "oye" => tbyte' = w /\ tmodo' # "envia"
      /\ tmodo = "recibe" => tmodo' # "envia"
  BY <1>1, <1>2, LugarTarjeta
<1>5. CASE Escrita' \/ Esperando'
  <2>1. hablan' = {} /\ lugar' = w /\ (tbyte' = w \/ tbyte' = w - 1)
    BY <1>1, <1>2, <1>4, <1>5 DEF Situacion
  <2>2. CASE tbyte' = tbyte
    BY <1>1, <2>1, <2>2, QuietaEsPaso DEF LineaQuieta
  <2>3. CASE tbyte = w - 1 /\ tbyte' = w
    BY <1>1, <1>3, <2>1, <2>3, OyoEsPaso
  <2> QED
    BY <1>1, <1>4, <2>1, <2>2, <2>3
<1>6. CASE Arrancando'
  <2>1. hablan' = {"lector"} /\ lugar' = w /\ tbyte' = w /\ Escrito(w) /\ contadorBit' = 0
    BY <1>1, <1>2, <1>6 DEF Situacion, Arrancando
  <2>2. EstadoActual = "EscribirComando" /\ EstadoActual' = "EscribirComando"
    BY <1>6 DEF Escrita, Arrancando
  <2>3. CuentaTick
    BY <1>2, <2>2, LectorEn DEF EnEscribirComando
  <2>4. contador = Etu - 2
    BY <1>2, <2>1, <2>3, EtuAssumption DEF CuentaTick, ContadorBit, Contador, TypeOK, LectorOK
  <2>5. tbyte = w /\ w <= UltimoByte
    BY <1>1, <2>1, <2>4 DEF Escrito, UltimoByte
  <2> QED
    BY <1>1, <2>1, <2>5, HablaEsPaso
<1> QED
  BY <1>5, <1>6, PasoEscrita

\* Every step of the two ends is a step of the line, or none.
LEMMA LineaPaso ==
  ASSUME TypeOK, TypeOK', Acuerdo, [Next]_vars
  PROVE  [Linea!Next]_(Linea!vars)
<1>1. CASE confirmada /\ confirmada'
  BY <1>1 DEF Linea!vars
<1>2. CASE ~confirmada /\ confirmada'
  <2>1. Linea!Corta
    BY <1>2 DEF Linea!Corta
  <2> QED
    BY <2>1 DEF Linea!Next
<1>3. CASE Deshabilita
  <2>1. Dispuesta(0)' /\ confirmada' = FALSE
    BY <1>3, TomaDispuesta DEF Deshabilita
  <2>2. Apagada'
    BY <1>3, <2>1 DEF Deshabilita, Apagada, EnPunto, Dispuesta
  <2>3. hablan' = {} /\ lugar' = 0 /\ tbyte' = 0
    BY <2>2, SituacionDespues DEF Situacion
  <2>4. Linea!Corta
    BY <2>1, <2>3 DEF Linea!Corta
  <2> QED
    BY <2>4 DEF Linea!Next
<1>4. CASE Habilita \/ UNCHANGED vars
  <2>1. UNCHANGED <<lector, tarjeta>>
    BY <1>4 DEF Habilita, vars
  <2>2. UNCHANGED <<hablan, lugar, tbyte, confirmada>>
    BY <2>1 DEF lector, tarjeta, hablan, lugar, io_rw
  <2> QED
    BY <2>2 DEF Linea!vars
<1>5. CASE Flanco /\ ~confirmada /\ ~confirmada'
  BY <1>5, LineaApagada, LineaEsperando, LineaLeyendo, LineaEnSilencio, LineaLeido,
     LineaProcesando, LineaEscribe, LineaEscrita DEF Acuerdo, PasoDeLinea
<1>6. Flanco => ~(confirmada /\ SIM_RST) \/ confirmada'
  BY DEF Flanco, FlancoTarjeta, TarjetaReset, TarjetaEspera, TarjetaArranca,
         TarjetaEnvia, TarjetaOye, TarjetaRecibe, TarjetaCalla, Arranca,
         CuentaTarjeta, tarjeta
<1>7. CASE confirmada /\ ~confirmada'
  <2>1. CASE Flanco
    <3>1. ~SIM_RST
      BY <1>6, <1>7, <2>1
    <3>2. Apagada
      BY <3>1 DEF Acuerdo, SIM_RST, Apagada, Esperando, Leyendo, EnSilencio, Leido, Procesando,
                  Arrancando, Escribiendo, Escrita
    <3>3. Toma(0)
      BY <2>1, <3>1 DEF Flanco, FlancoTarjeta, TarjetaReset, TarjetaEspera,
             TarjetaArranca, TarjetaEnvia, TarjetaOye, TarjetaRecibe, TarjetaCalla
    <3>4. lugar' = 0 /\ hablan' = {} /\ tbyte' = 0
      <4>1. Apagada' \/ Esperando'
        BY <2>1, <3>2, PasoApagada
      <4>2. contadorByte' = 0
        BY <2>1, <3>2, LugarLector DEF Apagada
      <4>3. Dispuesta(0)'
        BY <3>3, TomaDispuesta
      <4>4. tmodo' = "pausa" /\ tbyte' = 0
        BY <4>3 DEF Dispuesta, Escrito
      <4> QED
        BY <4>1, <4>2, <4>4, SituacionDespues DEF Situacion, ComandoFin
    <3>5. Linea!Corta
      BY <1>7, <3>4 DEF Linea!Corta
    <3> QED
      BY <3>5 DEF Linea!Next
  <2> QED
    BY <1>3, <1>4, <2>1 DEF Next
<1>8. confirmada \in BOOLEAN /\ confirmada' \in BOOLEAN
  BY DEF TypeOK, TarjetaOK
<1> QED
  BY <1>1, <1>2, <1>3, <1>4, <1>5, <1>7, <1>8 DEF Next

\* The interface and a card of any pace keep the discipline of the line, for
\* every length of an etu: they take turns along the script (SimLine), until
\* the card confirms a header.
THEOREM LineaImplementada == Spec => ImplementaLinea
<1>1. Init => Linea!Init
  BY DEF Init, Linea!Init, hablan, lugar, io_rw, EspereByte
<1>2. TypeOK /\ TypeOK' /\ Acuerdo /\ [Next]_vars => [Linea!Next]_(Linea!vars)
  BY LineaPaso
<1> QED
  BY <1>1, <1>2, TipoCorrecto, SiempreDeAcuerdo, PTL DEF Spec, ImplementaLinea, Linea!Spec
=============================================================================
