------------------------------- MODULE SimLine -------------------------------
(***************************************************************************)
(* What the card interface promises, without bits or clocks: two ends that *)
(* take turns on one line along the script.  Each end keeps its own place  *)
(* in the script; nobody speaks unless the places agree and it is its      *)
(* turn, and nobody ever speaks over the other.                            *)
(***************************************************************************)
EXTENDS SimScript

VARIABLES
  hablan,      \* who is speaking
  plector,     \* the byte of the script the reader is at
  ptarjeta     \* the byte of the script the card is at

vars == <<hablan, plector, ptarjeta>>

DeQuien(n) == IF Escrito(n) THEN "lector" ELSE "tarjeta"

Init == hablan = {} /\ plector = 0 /\ ptarjeta = 0

\* The session is cut, at any moment, and both ends start afresh.
Corta == hablan' = {} /\ plector' = 0 /\ ptarjeta' = 0

Habla(quien) ==
  /\ hablan = {} /\ plector = ptarjeta
  /\ plector <= UltimoByte /\ DeQuien(plector) = quien
  /\ hablan' = {quien}
  /\ UNCHANGED <<plector, ptarjeta>>

\* The reader follows the card bit by bit: a byte said is a byte heard.
CallaTarjeta ==
  /\ hablan = {"tarjeta"}
  /\ hablan' = {}
  /\ plector' = Siguiente(plector)
  /\ ptarjeta' = plector'

CallaLector ==
  /\ hablan = {"lector"}
  /\ hablan' = {}
  /\ plector' = Siguiente(plector)
  /\ UNCHANGED ptarjeta

\* The card, whose clock runs behind, hears the reader's byte a little later.
TarjetaOyo ==
  /\ hablan = {} /\ plector = Siguiente(ptarjeta)
  /\ ptarjeta' = plector
  /\ UNCHANGED <<hablan, plector>>

Next ==
  \/ Corta
  \/ \E quien \in {"lector", "tarjeta"} : Habla(quien)
  \/ CallaTarjeta \/ CallaLector \/ TarjetaOyo

Spec == Init /\ [][Next]_vars
=============================================================================
