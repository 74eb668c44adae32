------------------------------ MODULE GdbEnlace ------------------------------
(***************************************************************************)
(* The packets of the debug stub, getpacket and putpacket of               *)
(* src/firmware/gdb-test/gdb.c, character by character over a serial line  *)
(* that may lose characters (the receiver of the UART holds one) and       *)
(* damage replies, with a host that retries as GDB does. What a request    *)
(* does is GdbStub's; here a reply names the request it answers.           *)
(***************************************************************************)
EXTENDS GdbTexto, FiniteSets

CONSTANTS
  Sesion,   \* the requests the host makes, one after another, for ever
  BUFMAX,   \* characters of the packet buffer: 400 in the code
  FALLOS    \* how many times line or host may fail

DOLAR == 1
ALMOHADILLA == 2
MAS == 3
MENOS == 8
DOSPUNTOS == 9
NUL == 0

ASSUME EnlaceAssumption ==
  /\ BUFMAX \in Nat /\ BUFMAX > 2 /\ FALLOS \in Nat
  /\ Sesion \in Seq(Seq(Byte \ {NUL, DOLAR, ALMOHADILLA}))
  /\ {DOLAR, ALMOHADILLA, MAS, MENOS, DOSPUNTOS} \subseteq Byte \ Digitos

VARIABLES
  \* the stub: where it is in getpacket or putpacket, and their data
  gpc, buffer, count, checksum, xmitcsum,
  pisado,           \* a NUL has been written behind the buffer
  respuesta,        \* the request that the reply in hand answers
  hs, sh,           \* the line: characters to the stub, and what it sends
  hst, turno,       \* the host: what it waits for, and its request
  fallos,           \* failures left
  envios, hechas    \* ghosts: times that request was sent, and carried out

stub == <<gpc, buffer, pisado, count, checksum, xmitcsum, respuesta>>
host == <<hst, turno, envios>>
evars == <<stub, hs, sh, host, fallos, hechas>>

\* The sum of the first n characters of s, in a register of two digits.
Suma(s, n) ==
  LET t[k \in 0..n] == IF k = 0 THEN 0 ELSE (t[k - 1] + s[k]) % (B * B)
  IN t[n]

\* What putpacket writes, and a host too.
Trama(s) == LET suma == Suma(s, Len(s))
            IN <<DOLAR>> \o s \o <<ALMOHADILLA>> \o mem2hex(suma)

\* A request that has a sequence, two characters and ':', is the rest of it.
ConSecuencia(s) == Len(s) > 2 /\ s[3] = DOSPUNTOS
Contenido(s) == IF ConSecuencia(s) THEN SubSeq(s, 4, Len(s)) ELSE s

\* gdb.c:198 reads the third character of a packet of any length, which a
\* short one does not write. So the host makes no request of fewer than two
\* characters behind one that has a sequence: the stub would take the ':' that
\* this one left, and carry out what is behind it.
Anterior(k) == IF k = 1 THEN Len(Sesion) ELSE k - 1
ASSUME SesionAssumption ==
  /\ Sesion # <<>>
  /\ \A k \in DOMAIN Sesion : Len(Sesion[k]) < 2 => ~ConSecuencia(Sesion[Anterior(k)])

\* The items the stub sends: an acknowledgement, a reply, something else.
Senal(t) == [t |-> t, r |-> <<>>, bien |-> TRUE]
Respuesta(r) == [t |-> "trama", r |-> r, bien |-> TRUE]
-----------------------------------------------------------------------------
(* getpacket *)

\* The text at buffer[k], up to its NUL. One that has none in the buffer goes on
\* behind it; it is taken to end there, at the NUL of gdb.c:170, although that
\* place is another variable's.
Texto(buf, k) ==
  LET fin == CHOOSE f \in k..BUFMAX :
               (f = BUFMAX \/ buf[f] = NUL) /\ \A x \in k..f - 1 : buf[x] # NUL
  IN [x \in 1..fin - k |-> buf[k + x - 1]]

\* After a '$', also in the middle of a packet.
Empieza_sin_suma == /\ gpc' = "datos" /\ xmitcsum' = B * B - 1 /\ count' = 0
                    /\ UNCHANGED <<buffer, pisado, checksum, respuesta>>
Empieza_sin_cuenta == /\ gpc' = "datos" /\ checksum' = 0 /\ xmitcsum' = B * B - 1
                      /\ UNCHANGED <<buffer, pisado, count, respuesta>>
Empieza == /\ gpc' = "datos" /\ checksum' = 0 /\ xmitcsum' = B * B - 1 /\ count' = 0
           /\ UNCHANGED <<buffer, pisado, respuesta>>

EsperaInicio(ch) ==
  /\ gpc = "espera"
  /\ IF ch = DOLAR THEN Empieza ELSE UNCHANGED stub
  /\ UNCHANGED <<sh, hechas>>

\* There is room in the buffer for one more behind the character just taken.
Cabe_uno_mas(c) == c <= BUFMAX
Cabe(c) == c < BUFMAX

\* The NUL behind the characters of a packet.
Cierra_nada(buf, c) == buf
Cierra(buf, c) == [buf EXCEPT ![c] = NUL]

\* A character of the packet; buffer[count] = 0 ends it. A packet that fills the
\* buffer is given up, and that NUL is written in the place behind the buffer.
LeeDato(ch) ==
  /\ gpc = "datos"
  /\ \/ ch = DOLAR /\ Empieza
     \/ /\ ch = ALMOHADILLA
        /\ gpc' = "suma1" /\ buffer' = Cierra(buffer, count)
        /\ UNCHANGED <<pisado, count, checksum, xmitcsum, respuesta>>
     \/ /\ ch \notin {DOLAR, ALMOHADILLA}
        /\ checksum' = (checksum + ch) % (B * B)
        /\ count' = count + 1 /\ buffer' = [buffer EXCEPT ![count] = ch]
        /\ IF Cabe(count + 1) THEN UNCHANGED <<gpc, pisado>>
                              ELSE gpc' = "espera" /\ pisado' = TRUE
        /\ UNCHANGED <<xmitcsum, respuesta>>
  /\ UNCHANGED <<sh, hechas>>

LeeSuma1(ch) ==
  /\ gpc = "suma1" /\ gpc' = "suma2"
  /\ xmitcsum' = (hex(ch) * B) % (B * B)
  /\ UNCHANGED <<buffer, pisado, count, checksum, respuesta, sh, hechas>>

\* What goes back for a packet that is taken: '+', the two characters of the
\* sequence if it has them, and the reply, in that order.
Acepta_al_final(texto, ecos) == ecos \o <<Respuesta(texto), Senal("+")>>
Acepta(texto, ecos) == <<Senal("+")>> \o ecos \o <<Respuesta(texto)>>

\* putpacket, when the frame is out: it waits for the host's '+'.
putpacket_sin_acuse(r) == gpc' = "espera" /\ respuesta' = r
putpacket(r) == gpc' = "ack" /\ respuesta' = r

\* A packet is taken, and carried out, if its sum is right; the third
\* character tells whether two of sequence go before it.
LeeSuma2(ch) ==
  LET x == (xmitcsum + hex(ch)) % (B * B)
      conSecuencia == (buffer[2] = DOSPUNTOS)
      texto == Texto(buffer, IF conSecuencia THEN 3 ELSE 0)
      ecos == IF conSecuencia THEN <<Senal("otro"), Senal("otro")>> ELSE <<>>
  IN /\ gpc = "suma2"
     /\ xmitcsum' = x
     /\ IF checksum # x
        THEN /\ gpc' = "espera" /\ sh' = Append(sh, Senal("-"))
             /\ UNCHANGED <<respuesta, hechas>>
        ELSE /\ putpacket(texto)
             /\ sh' = sh \o Acepta(texto, ecos)
             /\ hechas' = IF texto = Contenido(Sesion[turno]) /\ hechas < 3
                          THEN hechas + 1 ELSE hechas
     /\ UNCHANGED <<buffer, pisado, count, checksum>>

\* putpacket, after the frame: anything but '+' has it sent once more.
LeeAck(ch) ==
  /\ gpc = "ack"
  /\ IF ch = MAS THEN gpc' = "espera" /\ sh' = sh
     ELSE gpc' = gpc /\ sh' = Append(sh, Respuesta(respuesta))
  /\ UNCHANGED <<buffer, pisado, count, checksum, xmitcsum, respuesta, hechas>>

Lee == /\ hs # <<>> /\ hs' = Tail(hs)
       /\ LET ch == Head(hs)
          IN \/ EsperaInicio(ch) \/ LeeDato(ch)
             \/ LeeSuma1(ch) \/ LeeSuma2(ch) \/ LeeAck(ch)
       /\ UNCHANGED <<host, fallos>>
-----------------------------------------------------------------------------
(* The host *)

Manda(s) == hs' = hs \o s

Pide == /\ hst = "libre"
        /\ turno' = 1 + (turno % Len(Sesion))
        /\ Manda(Trama(Sesion[turno']))
        /\ hst' = "ack" /\ envios' = 1 /\ hechas' = 0
        /\ UNCHANGED <<stub, sh, fallos>>

Repite == /\ Manda(Trama(Sesion[turno]))
          /\ hst' = "ack" /\ envios' = IF envios = 3 THEN 3 ELSE envios + 1

\* What the host does with an item, by what it waits for: a reply that it did
\* not wait for is acknowledged and dropped.
Oye ==
  /\ sh # <<>> /\ sh' = Tail(sh)
  /\ LET m == Head(sh)
         quiere == hst \in {"respuesta", "insiste"}
     IN \/ /\ m.t = "+" /\ hst = "ack" /\ hst' = "respuesta"
           /\ UNCHANGED <<hs, envios>>
        \/ m.t = "-" /\ hst = "ack" /\ Repite
        \/ /\ m.t = "trama" /\ hst # "libre"
           /\ Manda(<<IF m.bien THEN MAS ELSE MENOS>>)
           /\ hst' = IF m.bien /\ quiere THEN "libre" ELSE hst
           /\ UNCHANGED envios
        \/ /\ \/ m.t = "otro"
              \/ hst = "libre"
              \/ m.t \in {"+", "-"} /\ quiere
           /\ UNCHANGED <<hs, hst, envios>>
  /\ UNCHANGED <<stub, turno, fallos, hechas>>

\* The host waits in vain: it sends its request again, or asks for the reply
\* once more and then sends the request again.
Vence ==
  /\ \/ hst = "ack" /\ Repite
     \/ hst = "respuesta" /\ Manda(<<MENOS>>) /\ hst' = "insiste" /\ UNCHANGED envios
     \/ hst = "insiste" /\ Repite
  /\ UNCHANGED <<stub, sh, turno, hechas>>

\* Its time is longer than an answer takes, as a rule.
VenceTiempo == hs = <<>> /\ sh = <<>> /\ Vence /\ UNCHANGED fallos

Falla ==
  /\ fallos > 0 /\ fallos' = fallos - 1
  /\ \/ hs # <<>> /\ hs' = Tail(hs) /\ UNCHANGED <<stub, sh, host, hechas>>
     \/ sh # <<>> /\ sh' = Tail(sh) /\ UNCHANGED <<stub, hs, host, hechas>>
     \/ /\ sh # <<>> /\ sh[1].t = "trama"
        /\ sh' = [sh EXCEPT ![1].bien = FALSE]
        /\ UNCHANGED <<stub, hs, host, hechas>>
     \/ Vence
-----------------------------------------------------------------------------
EInit ==
  /\ gpc = "espera" /\ buffer = [k \in 0..BUFMAX - 1 |-> NUL] /\ pisado = FALSE /\ count = 0
  /\ checksum = 0 /\ xmitcsum = 0 /\ respuesta = <<>>
  /\ hs = <<>> /\ sh = <<>> /\ hst = "libre" /\ turno = Len(Sesion)
  /\ fallos = FALLOS /\ envios = 0 /\ hechas = 0

ENext == Lee \/ Pide \/ Oye \/ VenceTiempo \/ Falla

ESpec == EInit /\ [][ENext]_evars
EFairSpec == /\ ESpec
             /\ WF_evars(Lee) /\ WF_evars(Pide) /\ WF_evars(Oye) /\ WF_evars(VenceTiempo)
-----------------------------------------------------------------------------
ETypeOK ==
  /\ gpc \in {"espera", "datos", "suma1", "suma2", "ack"}
  /\ buffer \in [0..BUFMAX - 1 -> Byte] /\ pisado \in BOOLEAN /\ count \in 0..BUFMAX
  /\ checksum \in Byte /\ xmitcsum \in Byte
  /\ respuesta \in Seq(Byte) /\ hs \in Seq(Byte)
  /\ hst \in {"libre", "ack", "respuesta", "insiste"} /\ turno \in 1..Len(Sesion)
  /\ fallos \in 0..FALLOS /\ envios \in 0..3 /\ hechas \in 0..3

\* What the stub carries out is a request the host made, whole: not one with
\* a character lost, nor two run together, nor what an earlier one left in
\* the buffer.
SoloLoEnviado == gpc = "ack" => \E k \in DOMAIN Sesion : respuesta = Contenido(Sesion[k])

\* With one failure at most, the reply that the host takes for its request's
\* was computed for it, after it was made. A second one may bring it the
\* reply to the request before: putpacket repeats it for any character.
RespuestaDeSuPeticion ==
  [][hst' = "libre" /\ hst # "libre" /\ fallos >= FALLOS - 1 =>
       Head(sh).r = Contenido(Sesion[turno]) /\ hechas > 0]_evars

\* A request is carried out no more often than it was sent; once, while
\* nothing has failed.
UnaVezPorEnvio == hechas <= envios /\ (fallos = FALLOS => hechas <= 1)

\* The two together, in a state of the right type: the stub carries out what
\* it was asked for, and only that (gdb.c:136-214).
SoloLoPedido == ETypeOK /\ SoloLoEnviado /\ UnaVezPorEnvio

\* The code does write behind its buffer: BUFMAX characters without a '#' have
\* their NUL in the place after the last (gdb.c:95, 159-170). A host whose
\* requests fit brings that about only when the line has failed, as with a '#'
\* lost; and until it has happened the buffer's last place holds a NUL, so that
\* no text read from the buffer leaves it (gdb.c:203-206).
SinDesborde ==
  /\ pisado \/ buffer[BUFMAX - 1] = NUL
  /\ pisado => fallos < FALLOS \/ \E k \in DOMAIN Sesion : Len(Sesion[k]) >= BUFMAX

\* Every request is answered in the end.
Contestada == hst = "ack" ~> hst = "libre"
=============================================================================
