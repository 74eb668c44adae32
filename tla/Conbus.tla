------------------------------- MODULE Conbus -------------------------------
(***************************************************************************)
(* The Wishbone interconnect of rtl/wb_conbus with the masters of the lm32 *)
(* processor at one side and the slaves of system.v at the other.  One     *)
(* step is one rising edge of the clock.                                   *)
(*                                                                         *)
(* All masters share one bus: the arbiter's grant decides whose request    *)
(* the slaves see and who sees their ack.                                  *)
(***************************************************************************)
EXTENDS Integers

CONSTANTS
  NM,           \* masters; 8 in the code, of which system.v wires two
  Esclavos,     \* the slaves that answer
  SinReset,     \* those of them whose ack the reset leaves alone (wb_bram)
  ConSel,       \* those that take a write only with sel[0] (wb_lcd.v:70)
  Mudos,        \* addresses nobody acknowledges: slaves 1, 7 and unmapped
  MaxPalabras   \* longest transfer, in words; 4 in the code (a cache line)

ASSUME ConbusAssumption ==
  /\ NM \in Nat \ {0} /\ MaxPalabras \in Nat \ {0}
  /\ SinReset \subseteq Esclavos /\ ConSel \subseteq Esclavos /\ Esclavos \cap Mudos = {}

VARIABLES
  gnt,          \* the master that has the bus
  cyc,          \* the masters that request it
  destino,      \* the address a master wants, as the slave it decodes to
  parcial,      \* the masters that write without the lowest byte, sel[0]
  faltan,       \* words a master has still to transfer
  ack,          \* the slaves whose ack register is set
  pend,         \* operations done for a master and not acknowledged yet
  adelantos     \* who had the bus and left it since a master asked for it

vars == <<gnt, cyc, destino, parcial, faltan, ack, pend, adelantos>>

Maestros == 0..NM - 1
Destinos == Esclavos \cup Mudos
Libre == "libre"                 \* the destination of a master that asks nothing

\* Masters from g to m, going up and around.
Dist(g, m) == IF m >= g THEN m - g ELSE m - g + NM

-----------------------------------------------------------------------------
\* The strobe of a slave: the granted master's request, decoded.
stb(s) == gnt \in cyc /\ destino[gnt] = s

\* Whether slave s takes the request: wb_wr has sel[0] in it, wb_rd does not.
Oye(s) == ~(s \in ConSel /\ gnt \in parcial)

\* A slave's answer reaches the granted master alone.
Acusado(m) == gnt = m /\ \E s \in ack : stb(s)

Init ==
  /\ gnt = 0 /\ cyc = {} /\ ack = {} /\ parcial = {}
  /\ destino = [m \in Maestros |-> Libre]
  /\ faltan = [m \in Maestros |-> 0]
  /\ pend = [m \in Maestros |-> 0]
  /\ adelantos = [m \in Maestros |-> {}]

\* Mutant: the lowest master that asks goes first.
Arbitra_prioridad ==
  IF gnt \in cyc \/ cyc = {} THEN gnt' = gnt
  ELSE gnt' \in {k \in cyc : \A j \in cyc : k <= j}

\* Mutant: the search stops at the highest master.
Arbitra_sin_vuelta ==
  IF gnt \in cyc \/ \A k \in cyc : k < gnt THEN gnt' = gnt
  ELSE gnt' \in {k \in cyc : gnt < k /\ \A j \in cyc : gnt < j => k <= j}

\* Mutant: the round is taken downwards.
Arbitra_abajo ==
  IF gnt \in cyc \/ cyc = {} THEN gnt' = gnt
  ELSE gnt' \in {k \in cyc : \A j \in cyc : Dist(gnt, j) <= Dist(gnt, k)}

\* IF the granted master asks, or nobody does, THEN the bus stays with it,
\* ELSE it goes to the next one that asks.
Arbitra ==
  IF gnt \in cyc \/ cyc = {} THEN gnt' = gnt
  ELSE gnt' \in {k \in cyc : \A j \in cyc : Dist(gnt, k) <= Dist(gnt, j)}

\* Mutant: ack is held for as long as the request is.
Contesta_sostiene == {s \in Esclavos : stb(s) /\ Oye(s)}

\* A slave acknowledges a request it takes one edge after it sees it, for one
\* cycle.
Contesta == {s \in Esclavos : stb(s) /\ Oye(s) /\ s \notin ack}

\* Mutant: the bus is kept for a word too many.
Termina_tarde == {m \in cyc : Acusado(m) /\ faltan[m] = 0}

\* The masters whose transfer ends on this edge.
Termina == {m \in cyc : Acusado(m) /\ faltan[m] = 1}

\* A slave does what it is asked when it sees the request, once. (The memories
\* write the word again on the edge that clears their ack, wb_bram.v:43 and
\* wb_sram.v:49: the same word at the same place.)
Opera ==
  pend' = [m \in Maestros |->
             IF Acusado(m) THEN 0
             ELSE IF \E s \in Esclavos \ ack : m = gnt /\ stb(s) /\ Oye(s) THEN pend[m] + 1
             ELSE pend[m]]

\* The masters of pide start a transfer; those that are acknowledged go on to
\* the next word or drop the bus for a cycle at least.
Maestro(pide) ==
  /\ cyc' = (cyc \ Termina) \cup pide
  /\ \E d \in [pide -> Destinos], n \in [pide -> 1..MaxPalabras] :
       /\ destino' = [m \in Maestros |-> IF m \in pide THEN d[m]
                                         ELSE IF m \in Termina THEN Libre ELSE destino[m]]
       /\ faltan' = [m \in Maestros |-> IF m \in pide THEN n[m]
                                        ELSE IF Acusado(m) THEN faltan[m] - 1 ELSE faltan[m]]
  /\ \E w \in SUBSET {m \in pide : destino'[m] \in ConSel} :
       parcial' = (parcial \ Termina) \cup w
  /\ adelantos' = [m \in Maestros |-> IF m \in cyc \ Termina THEN adelantos[m] \cup Termina
                                           ELSE {}]

Ciclo ==
  /\ Arbitra
  /\ ack' = Contesta
  /\ Opera
  /\ \E pide \in SUBSET (Maestros \ cyc) : Maestro(pide)

\* The arbiter and the masters are reset, and the slaves that have a reset.
Reinicia ==
  /\ gnt' = 0 /\ cyc' = {} /\ ack' = Contesta \cap SinReset
  /\ pend' = [m \in Maestros |-> 0]
  /\ adelantos' = [m \in Maestros |-> {}]
  /\ destino' = [m \in Maestros |-> Libre] /\ parcial' = {}
  /\ faltan' = [m \in Maestros |-> 0]

Next == Ciclo \/ Reinicia

Spec == Init /\ [][Next]_vars

\* The clock never stops.
FairSpec == Spec /\ WF_vars(Ciclo)

-----------------------------------------------------------------------------
TypeOK ==
  /\ gnt \in Maestros /\ cyc \subseteq Maestros /\ ack \subseteq Esclavos
  /\ destino \in [Maestros -> Destinos \cup {Libre}] /\ parcial \subseteq Maestros
  /\ faltan \in [Maestros -> 0..MaxPalabras]
  /\ pend \in [Maestros -> Nat]
  /\ adelantos \in [Maestros -> SUBSET Maestros]

\* A word is acknowledged if and only if it has been done, and it is done
\* once: no master is told of an operation that did not take place, none is
\* done twice (a second read of a data register would lose what it holds),
\* whoever had the bus before (wb_conbus_top.v:389, wb_lcd.v:91, wb_bram.v:47).
CadaPalabraUnaVez ==
  \A m \in Maestros : pend[m] = IF Acusado(m) THEN 1 ELSE 0

\* Nobody uses the bus twice while another waits for it
\* (wb_conbus_top.v:40 "8 masters are processed in a round robin way").
Turnos ==
  \A m \in cyc, k \in cyc : gnt = k => k \notin adelantos[m]

Atascado == /\ gnt \in cyc
            /\ destino[gnt] \in Mudos \/ (destino[gnt] \in ConSel /\ gnt \in parcial)

\* Every request is served in the end, unless somebody is waiting at an
\* address that nobody acknowledges or writes bytes that its slave does not
\* take.
SeAtiende == \A m \in Maestros : m \in cyc ~> (m \notin cyc \/ Atascado)

-----------------------------------------------------------------------------
(* The strengthening under which the two invariants are inductive.         *)

\* A slave with its ack set has done the granted master's word: the slaves
\* without a reset may keep it one cycle more, with nobody asking.
AckConDueno == ack # {} => cyc = {} \/ \E s \in ack : ack = {s} /\ stb(s)

\* A master that had the bus since m asked is either letting it go or behind
\* m in the round.
Ronda ==
  \A m \in cyc : \A k \in adelantos[m] :
    /\ k # m
    /\ (gnt = k /\ k \notin cyc) \/ Dist(gnt, m) < Dist(gnt, k)

Faltan == \A m \in cyc : faltan[m] \in 1..MaxPalabras

IInv == TypeOK /\ Faltan /\ AckConDueno /\ CadaPalabraUnaVez /\ Ronda
=============================================================================
