------------------------------ MODULE SimScript ------------------------------
(***************************************************************************)
(* The script that simcard.v carries in its byte counter.  contadorByte,   *)
(* the number of byte times completed in the session, decides alone what   *)
(* the next one is for:                                                    *)
(*                                                                         *)
(*    0..9   answer to reset           10  silent                          *)
(*   11..17  SELECT 7F10 (written)    18..20   answer      21  silent      *)
(*   22..28  SELECT 6F3A (written)    29..31   answer      32  silent      *)
(*   33..37  GET RESPONSE (written)   38..56   answer      57  silent      *)
(*   58..62  READ RECORD (written)    63..93   answer      94  silent      *)
(*   95..99  READ RECORD (written)   100..130  answer                      *)
(*                                                                         *)
(* During a silent byte time the reader samples an idle line.              *)
(***************************************************************************)
EXTENDS Integers

\* contadorByte is an 8-bit register.
CuentaByte == 0..255

\* Mutant: the silence after the first answer is forgotten.
EspereByte_olvida(n) == n \in {10, 32, 57, 94}

\* The next byte time is a silent one: no start bit is awaited.
EspereByte(n) == n \in {10, 21, 32, 57, 94}

\* A command starts with this byte.
ComandoListo(n) == n \in {11, 22, 33, 58, 95}

\* Mutants: the line is turned round one byte late, one byte early.
ComandoFin_tarde(n) == n \in {19, 30, 39, 64, 101}
ComandoFin_pronto(n) == n \in {17, 28, 37, 62, 99}

\* The command has been written completely.
ComandoFin(n) == n \in {18, 29, 38, 63, 100}

\* The bytes for which datos_mux holds a command byte.
Escrito(n) == n \in (11..17 \cup 22..28 \cup 33..37 \cup 58..62 \cup 95..99)

\* The session is complete: the first status byte of the last answer is in.
Hecho(n) == n = 130

\* Dato_Listo: the counts at which Salida shows the byte just completed.
DatoListo(n) == n \in (64..91 \cup 101..128)

-----------------------------------------------------------------------------
(* The card, which is outside the repository, follows the same script with *)
(* no silent bytes: after byte n of the script the card's next one is      *)
(* Siguiente(n), and the card has nothing left to say after UltimoByte.    *)

UltimoByte == 130

Silencio == {10, 21, 32, 57, 94}

Siguiente(n) == IF n + 1 \in Silencio THEN n + 2 ELSE n + 1
=============================================================================
