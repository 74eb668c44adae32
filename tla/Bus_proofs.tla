---------------------------- MODULE Bus_proofs -------------------------------
(***************************************************************************)
(* Proofs about the bus and about the SIM interface as the bus sees it,    *)
(* which share no state.                                                   *)
(*                                                                         *)
(* The interconnect, for any number of masters and slaves.  Its two safety *)
(* invariants are not inductive alone: an ack must be known to belong to   *)
(* the transfer in progress, and the masters that have been served to be   *)
(* behind, in the round, those that wait.                                  *)
(***************************************************************************)
EXTENDS Conbus, SimRegs, TLAPS

\* The distance from one master to another is less than a full turn.
LEMMA DistRango ==
  ASSUME NEW g \in Maestros, NEW m \in Maestros
  PROVE  Dist(g, m) \in 0..NM - 1 /\ (Dist(g, m) = 0 <=> g = m)
BY ConbusAssumption DEF Dist, Maestros

\* On the way from g to m, h no farther than m, the distances to all that is
\* beyond h decrease alike.
LEMMA DistAvanza ==
  ASSUME NEW g \in Maestros, NEW h \in Maestros, NEW m \in Maestros,
         Dist(g, h) <= Dist(g, m)
  PROVE  Dist(h, m) = Dist(g, m) - Dist(g, h)
BY ConbusAssumption DEF Dist, Maestros

\* Who has just been passed is as far as can be: farther than who is ahead.
LEMMA DistPasado ==
  ASSUME NEW g \in Maestros, NEW h \in Maestros, NEW m \in Maestros,
         h # g, Dist(g, h) <= Dist(g, m)
  PROVE  Dist(h, m) < Dist(h, g)
BY ConbusAssumption DEF Dist, Maestros

LEMMA InitIInv == Init => IInv
<1> SUFFICES ASSUME Init PROVE IInv
  OBVIOUS
<1> USE ConbusAssumption DEF Init
<1>1. TypeOK
  BY DEF TypeOK, Maestros, Destinos
<1>2. Faltan /\ AckConDueno /\ Ronda
  BY DEF Faltan, AckConDueno, Ronda
<1>3. CadaPalabraUnaVez
  BY DEF CadaPalabraUnaVez, Acusado
<1> QED BY <1>1, <1>2, <1>3 DEF IInv

\* The masters that end a transfer, as far as the invariant knows them.
LEMMA TerminaHecho ==
  ASSUME IInv
  PROVE  /\ Termina \subseteq cyc
         /\ \A m \in Termina : m = gnt
         /\ (\E m \in Maestros : Acusado(m)) => ack # {} /\ gnt \in cyc
BY DEF Termina, Acusado, stb

LEMMA CicloTipo ==
  ASSUME IInv, Ciclo
  PROVE  TypeOK' /\ Faltan'
<1> USE ConbusAssumption DEF IInv
<1>0. PICK pide \in SUBSET (Maestros \ cyc) : Maestro(pide)
  BY DEF Ciclo
<1>1. PICK d \in [pide -> Destinos], n \in [pide -> 1..MaxPalabras] :
       /\ destino' = [m \in Maestros |-> IF m \in pide THEN d[m]
                                         ELSE IF m \in Termina THEN Libre ELSE destino[m]]
       /\ faltan' = [m \in Maestros |-> IF m \in pide THEN n[m]
                                        ELSE IF Acusado(m) THEN faltan[m] - 1 ELSE faltan[m]]
  BY <1>0 DEF Maestro
<1>2. gnt' \in Maestros
  BY DEF Ciclo, Arbitra, TypeOK
<1>3. cyc' \subseteq Maestros /\ ack' \subseteq Esclavos
  BY <1>0 DEF Maestro, TypeOK, Ciclo, Contesta
<1>4. destino' \in [Maestros -> Destinos \cup {Libre}]
  BY <1>1 DEF TypeOK
<1>5. \A m \in Maestros : Acusado(m) => m \in cyc
  BY DEF Acusado, stb
<1>6. faltan' \in [Maestros -> 0..MaxPalabras]
  <2> SUFFICES ASSUME NEW m \in Maestros
               PROVE  (IF m \in pide THEN n[m]
                       ELSE IF Acusado(m) THEN faltan[m] - 1 ELSE faltan[m]) \in 0..MaxPalabras
    BY <1>1
  <2>1. CASE m \in pide
    BY <2>1
  <2>2. CASE m \notin pide /\ Acusado(m)
    <3>1. faltan[m] \in 1..MaxPalabras
      BY <2>2, <1>5 DEF Faltan
    <3> QED BY <3>1, <2>2
  <2>3. CASE m \notin pide /\ ~Acusado(m)
    BY <2>3 DEF TypeOK
  <2> QED BY <2>1, <2>2, <2>3
<1>7. Faltan'
  <2> SUFFICES ASSUME NEW m \in cyc' PROVE faltan'[m] \in 1..MaxPalabras
    BY DEF Faltan
  <2>0. m \in Maestros /\ faltan'[m] = IF m \in pide THEN n[m]
                         ELSE IF Acusado(m) THEN faltan[m] - 1 ELSE faltan[m]
    BY <1>1, <1>3
  <2>1. CASE m \in pide
    BY <2>0, <2>1
  <2>2. CASE m \notin pide
    <3>1. m \in cyc /\ m \notin Termina
      BY <2>2, <1>0 DEF Maestro
    <3>2. faltan[m] \in 1..MaxPalabras
      BY <3>1 DEF Faltan
    <3>3. Acusado(m) => faltan[m] # 1
      BY <3>1 DEF Termina
    <3> QED BY <2>0, <2>2, <3>2, <3>3
  <2> QED BY <2>1, <2>2
<1>8. pend' \in [Maestros -> Nat]
  <2> SUFFICES ASSUME NEW m \in Maestros PROVE pend[m] + 1 \in Nat /\ pend[m] \in Nat
    BY DEF Ciclo, Opera
  <2> QED BY DEF TypeOK
<1>9. adelantos' \in [Maestros -> SUBSET Maestros]
  <2>1. Termina \subseteq Maestros
    BY DEF Termina, TypeOK
  <2> QED BY <1>0, <2>1 DEF Maestro, TypeOK
<1>10. parcial' \subseteq Maestros
  BY <1>0 DEF Maestro, TypeOK
<1> QED BY <1>2, <1>3, <1>4, <1>6, <1>7, <1>8, <1>9, <1>10 DEF TypeOK

\* What the request of a master that goes on looks like after the edge.
LEMMA SigueIgual ==
  ASSUME IInv, Ciclo, NEW m \in cyc, m \notin Termina
  PROVE  m \in cyc' /\ destino'[m] = destino[m]
<1>0. PICK pide \in SUBSET (Maestros \ cyc) : Maestro(pide)
  BY DEF Ciclo
<1>1. m \in Maestros
  BY DEF IInv, TypeOK
<1> QED BY <1>0, <1>1 DEF Maestro

LEMMA CicloAck ==
  ASSUME IInv, Ciclo
  PROVE  AckConDueno' /\ CadaPalabraUnaVez'
<1> USE DEF IInv
<1>0. gnt \in Maestros
  BY DEF TypeOK
<1>1. CASE gnt \in cyc /\ \E s \in Esclavos \ ack : stb(s) /\ Oye(s)
  <2>1. PICK s \in Esclavos \ ack : stb(s) /\ Oye(s)
    BY <1>1
  <2>2. \A r : stb(r) <=> r = s
    BY <2>1 DEF stb
  <2>3. \A m \in Maestros : ~Acusado(m)
    BY <2>1, <2>2 DEF Acusado
  <2>4. ack' = {s}
    BY <2>1, <2>2 DEF Ciclo, Contesta
  <2>5. gnt \notin Termina
    BY <2>3, <1>0 DEF Termina
  <2>6. gnt' = gnt
    BY <1>1 DEF Ciclo, Arbitra
  <2>7. gnt' \in cyc' /\ destino'[gnt'] = s
    BY <1>1, <2>1, <2>5, <2>6, SigueIgual DEF stb
  <2>8. stb(s)' /\ (\A m \in Maestros : Acusado(m)' <=> m = gnt)
    BY <2>4, <2>6, <2>7 DEF stb, Acusado
  <2>9. \A m \in Maestros : pend'[m] = IF m = gnt THEN 1 ELSE 0
    <3> TAKE m \in Maestros
    <3>1. pend[m] = 0
      BY <2>3 DEF CadaPalabraUnaVez
    <3>2. pend'[m] = IF m = gnt THEN pend[m] + 1 ELSE pend[m]
      BY <2>1, <2>3 DEF Ciclo, Opera
    <3> QED BY <3>1, <3>2
  <2> QED BY <2>4, <2>8, <2>9 DEF AckConDueno, CadaPalabraUnaVez
<1>2. CASE ~(gnt \in cyc /\ \E s \in Esclavos \ ack : stb(s) /\ Oye(s))
  <2>1. \A s \in Esclavos \ ack : ~(stb(s) /\ Oye(s))
    BY <1>2 DEF stb
  <2>2. ack' = {}
    BY <2>1 DEF Ciclo, Contesta
  <2>3. \A m \in Maestros : pend'[m] = 0
    <3> TAKE m \in Maestros
    <3>1. pend'[m] = IF Acusado(m) THEN 0 ELSE pend[m]
      BY <2>1 DEF Ciclo, Opera
    <3> QED BY <3>1 DEF CadaPalabraUnaVez
  <2>4. \A m \in Maestros : ~Acusado(m)'
    BY <2>2 DEF Acusado
  <2> QED BY <2>2, <2>3, <2>4 DEF AckConDueno, CadaPalabraUnaVez
<1> QED BY <1>1, <1>2

LEMMA CicloRonda ==
  ASSUME IInv, Ciclo
  PROVE  Ronda'
<1> USE DEF IInv
<1>0. PICK pide \in SUBSET (Maestros \ cyc) : Maestro(pide)
  BY DEF Ciclo
<1> SUFFICES ASSUME NEW m \in cyc', NEW k \in adelantos'[m]
             PROVE  /\ k # m
                    /\ (gnt' = k /\ k \notin cyc') \/ Dist(gnt', m) < Dist(gnt', k)
  BY DEF Ronda, Dist
<1>1. m \in Maestros /\ gnt \in Maestros /\ gnt' \in Maestros
  BY CicloTipo, <1>0 DEF TypeOK
<1>2. m \in cyc \ Termina /\ k \in adelantos[m] \cup Termina
  BY <1>0, <1>1 DEF Maestro
<1>3. k \in Maestros
  BY <1>1, <1>2 DEF TypeOK, Termina
<1>4. CASE k \in Termina
  <2>1. k = gnt /\ k \in cyc /\ k # m
    BY <1>2, <1>4, TerminaHecho
  <2>2. gnt' = k
    BY <2>1 DEF Ciclo, Arbitra
  <2>3. k \notin cyc'
    BY <1>0, <1>4, <2>1 DEF Maestro
  <2> QED BY <2>1, <2>2, <2>3
<1>5. CASE k \notin Termina
  <2>1. k \in adelantos[m]
    BY <1>2, <1>5
  <2>2. k # m /\ ((gnt = k /\ k \notin cyc) \/ Dist(gnt, m) < Dist(gnt, k))
    BY <1>2, <2>1 DEF Ronda
  <2>3. CASE gnt \in cyc
    <3>1. gnt' = gnt
      BY <2>3 DEF Ciclo, Arbitra
    <3> QED BY <2>2, <2>3, <3>1
  <2>4. CASE gnt \notin cyc
    <3>1. gnt' \in cyc /\ Dist(gnt, gnt') <= Dist(gnt, m)
      BY <1>2, <2>4 DEF Ciclo, Arbitra
    <3>2. CASE gnt = k
      <4>1. Dist(gnt', m) < Dist(gnt', k)
        BY <1>1, <2>4, <3>1, <3>2, DistPasado
      <4> QED BY <2>2, <4>1
    <3>3. CASE gnt # k
      <4>1. Dist(gnt, m) < Dist(gnt, k)
        BY <2>2, <3>3
      <4>2. /\ Dist(gnt, gnt') \in 0..NM - 1 /\ Dist(gnt, m) \in 0..NM - 1
            /\ Dist(gnt, k) \in 0..NM - 1
        BY <1>1, <1>3, DistRango
      <4>3. NM \in Nat
        BY ConbusAssumption
      <4>4. Dist(gnt, gnt') <= Dist(gnt, k)
        BY <3>1, <4>1, <4>2, <4>3
      <4>5. /\ Dist(gnt', m) = Dist(gnt, m) - Dist(gnt, gnt')
            /\ Dist(gnt', k) = Dist(gnt, k) - Dist(gnt, gnt')
        BY <1>1, <1>3, <3>1, <4>4, DistAvanza
      <4> QED BY <2>2, <4>1, <4>2, <4>3, <4>5
    <3> QED BY <3>2, <3>3
  <2> QED BY <2>3, <2>4
<1> QED BY <1>4, <1>5

LEMMA ReiniciaIInv ==
  ASSUME IInv, Reinicia
  PROVE  IInv'
<1> USE ConbusAssumption DEF Reinicia
<1>1. TypeOK'
  BY DEF TypeOK, Maestros, Contesta
<1>2. Faltan' /\ AckConDueno' /\ Ronda'
  BY DEF Faltan, AckConDueno, Ronda
<1>3. CadaPalabraUnaVez'
  BY DEF CadaPalabraUnaVez, Acusado, stb
<1> QED BY <1>1, <1>2, <1>3 DEF IInv

\* A step that changes nothing keeps the invariant.
LEMMA QuietoIInv ==
  ASSUME IInv, UNCHANGED vars
  PROVE  IInv'
BY DEF IInv, vars, TypeOK, Faltan, AckConDueno, CadaPalabraUnaVez, Ronda, Acusado, stb, Dist

\* The invariant behind the results below is inductive (wb_conbus_top.v,
\* wb_conbus_arb.v and the masters and slaves around them).
THEOREM SiempreIInv == Spec => []IInv
<1>1. IInv /\ [Next]_vars => IInv'
  <2> SUFFICES ASSUME IInv, [Next]_vars PROVE IInv'
    OBVIOUS
  <2>1. CASE Ciclo
    BY <2>1, CicloTipo, CicloAck, CicloRonda DEF IInv
  <2>2. CASE Reinicia
    BY <2>2, ReiniciaIInv
  <2>3. CASE UNCHANGED vars
    BY <2>3, QuietoIInv
  <2> QED BY <2>1, <2>2, <2>3 DEF Next
<1> QED BY InitIInv, <1>1, PTL DEF Spec

\* Grant, requests, transfers and their history stay in range.
THEOREM ConbusTipo == Spec => []TypeOK
<1>1. IInv => TypeOK
  BY DEF IInv
<1> QED BY <1>1, SiempreIInv, PTL

\* Every word that is acknowledged has been done, once, and no other
\* (wb_conbus_top.v:389-447, wb_lcd.v:91-103, wb_bram.v:41-49).
THEOREM PalabraExacta == Spec => []CadaPalabraUnaVez
<1>1. IInv => CadaPalabraUnaVez
  BY DEF IInv
<1> QED BY <1>1, SiempreIInv, PTL

\* While a master waits, no other has the bus twice
\* (wb_conbus_arb.v:100-249).
THEOREM RondaJusta == Spec => []Turnos
<1>1. IInv => Turnos
  <2> SUFFICES ASSUME IInv, NEW m \in cyc, NEW k \in cyc, gnt = k, k \in adelantos[m]
               PROVE  FALSE
    BY DEF Turnos
  <2>1. m \in Maestros /\ k \in Maestros
    BY DEF IInv, TypeOK
  <2>2. Dist(k, m) < Dist(k, k)
    BY DEF IInv, Ronda
  <2> QED BY <2>1, <2>2, ConbusAssumption DEF Dist, Maestros
<1> QED BY <1>1, SiempreIInv, PTL
-----------------------------------------------------------------------------
(* The registers of the SIM interface, for any number of sessions.         *)

\* Where the pointer is in a session that began with it at the first cell:
\* each window of the capture stores a byte as it opens and may store one as
\* it closes.
Puntero(p, n) ==
  /\ n \in 0..63    => p = 0
  /\ n \in 64..91   => p = n - 63
  /\ n \in 92..100  => p \in 28..29
  /\ n \in 101..128 => p \in n - 72..n - 71
  /\ n \in 129..131 => p \in 56..58

\* The cells behind the first hold the record's bytes in order, as far as
\* they have come.
Celdas1 == \A k \in 1..27 : contadorByte >= 64 + k => ram_atr[k] = 63 + k

Capturado == sc_en /\ inicio = 0 => Puntero(cont_ram, contadorByte) /\ Celdas1

RIInv == RTypeOK /\ (~sc_en => contadorByte = 0) /\ Capturado

\* RIInv with numbers for the names.
LEMMA Numeros == RIInv => /\ contadorByte \in 0..131 /\ cont_ram \in 0..63
                         /\ inicio \in 0..63
  BY DEF RIInv, RTypeOK, UltimoByte, Celdas

LEMMA RIInvInit == RInit => RIInv
<1> SUFFICES ASSUME RInit PROVE RIInv
  OBVIOUS
<1>1. ram_atr \in [Celdas -> {Vacio, Cero} \cup (0..UltimoByte)]
  BY DEF RInit
<1>2. RTypeOK
  <2>1. sc_en \in BOOLEAN
    BY Zenon DEF RInit
  <2>2. /\ sc_dw \in 0..3 /\ contadorByte \in 0..UltimoByte + 1
        /\ {cont_ram, inicio} \subseteq Celdas /\ sesiones \in 0..Sesiones
    BY SesionesAssumption DEF RInit, Celdas, UltimoByte
  <2> QED
    BY <1>1, <2>1, <2>2 DEF RTypeOK
<1> QED
  BY <1>2 DEF RInit, RIInv, Capturado

\* A byte that is stored moves the pointer; one is stored whenever the gate
\* is open before and after.
LEMMA CapturaPuntero ==
  ASSUME NEW n \in 0..130, cont_ram \in 0..63, Captura(n), ram_atr \in [Celdas -> {Vacio, Cero} \cup 0..130]
  PROVE  /\ cont_ram' \in 0..63
         /\ ram_atr' \in [Celdas -> {Vacio, Cero} \cup 0..130]
         /\ \A k \in Celdas : k # cont_ram => ram_atr'[k] = ram_atr[k]
         /\ cont_ram' \in {cont_ram, (cont_ram + 1) % 64}
         /\ DatoListo(n + 1) => cont_ram' = (cont_ram + 1) % 64
         /\ DatoListo(n) /\ DatoListo(n + 1) => ram_atr'[cont_ram] = n
         /\ ~DatoListo(n) /\ ~DatoListo(n + 1) => cont_ram' = cont_ram /\ ram_atr' = ram_atr
<1>1. PICK v \in Valores(n) :
        IF v = <<>> THEN UNCHANGED <<ram_atr, cont_ram>>
        ELSE /\ ram_atr' = [ram_atr EXCEPT ![cont_ram] = v[1]]
             /\ cont_ram' = (cont_ram + 1) % 64
  BY DEF Captura
<1>a. /\ <<n>> # <<>> /\ <<Cero>> # <<>>
      /\ <<n>>[1] = n /\ <<Cero>>[1] = Cero
  OBVIOUS
<1>2. /\ v \in {<<n>>, <<Cero>>, <<>>}
      /\ DatoListo(n + 1) => v # <<>>
      /\ DatoListo(n) /\ DatoListo(n + 1) => v = <<n>>
      /\ ~DatoListo(n) /\ ~DatoListo(n + 1) => v = <<>>
  BY <1>a DEF Valores
<1>3. v # <<>> => v[1] \in {Cero} \cup 0..130
  BY <1>a, <1>2
<1>4. (cont_ram + 1) % 64 \in 0..63
  OBVIOUS
<1>5. CASE v = <<>>
  BY <1>1, <1>2, <1>5
<1>6. CASE v # <<>>
  <2>1. ram_atr' = [ram_atr EXCEPT ![cont_ram] = v[1]] /\ cont_ram' = (cont_ram + 1) % 64
    BY <1>1, <1>6
  <2>2. v[1] \in {Vacio, Cero} \cup 0..130 /\ cont_ram \in Celdas
    BY <1>3, <1>6 DEF Celdas
  <2>3. /\ ram_atr' \in [Celdas -> {Vacio, Cero} \cup 0..130]
        /\ ram_atr'[cont_ram] = v[1]
        /\ \A k \in Celdas : k # cont_ram => ram_atr'[k] = ram_atr[k]
    <3> HIDE DEF Celdas
    <3> QED
      BY <2>1, <2>2
  <2>4. DatoListo(n) /\ DatoListo(n + 1) => v[1] = n
    BY <1>a, <1>2
  <2>5. DatoListo(n) \/ DatoListo(n + 1)
    BY <1>2, <1>6
  <2> QED
    BY <1>4, <2>1, <2>3, <2>4, <2>5
<1> QED
  BY <1>5, <1>6

\* A byte time of a session that began at the first cell.
LEMMA CapturadoByte ==
  ASSUME RIInv, UnByte
  PROVE  RIInv'
<1> DEFINE c == contadorByte
<1>1. /\ sc_en /\ c \in 0..130 /\ contadorByte' = c + 1
      /\ UNCHANGED <<sc_en, sc_dw, sesiones, inicio>> /\ Captura(c)
  BY Numeros DEF UnByte, UltimoByte
<1>2. /\ cont_ram \in 0..63
      /\ ram_atr \in [Celdas -> {Vacio, Cero} \cup 0..130]
  BY DEF RIInv, RTypeOK, UltimoByte, Celdas
<1>3. /\ cont_ram' \in 0..63
      /\ ram_atr' \in [Celdas -> {Vacio, Cero} \cup 0..130]
      /\ \A k \in Celdas : k # cont_ram => ram_atr'[k] = ram_atr[k]
      /\ cont_ram' \in {cont_ram, (cont_ram + 1) % 64}
      /\ DatoListo(c + 1) => cont_ram' = (cont_ram + 1) % 64
      /\ DatoListo(c) /\ DatoListo(c + 1) => ram_atr'[cont_ram] = c
      /\ ~DatoListo(c) /\ ~DatoListo(c + 1) => cont_ram' = cont_ram /\ ram_atr' = ram_atr
  BY <1>1, <1>2, CapturaPuntero
<1>4. RTypeOK'
  <2>1. /\ contadorByte' \in 0..UltimoByte + 1 /\ sc_en' \in BOOLEAN /\ sc_dw' \in 0..3
        /\ inicio' \in Celdas /\ sesiones' \in 0..Sesiones
    BY <1>1 DEF RIInv, RTypeOK, UltimoByte
  <2>2. cont_ram' \in Celdas /\ ram_atr' \in [Celdas -> {Vacio, Cero} \cup 0..UltimoByte]
    BY <1>3 DEF UltimoByte, Celdas
  <2> QED
    BY <2>1, <2>2 DEF RTypeOK
<1>5. ASSUME inicio = 0 PROVE Puntero(cont_ram', c + 1) /\ Celdas1'
  <2>1. Puntero(cont_ram, c) /\ Celdas1
    BY <1>1, <1>5 DEF RIInv, Capturado
  <2>b. ASSUME c >= 91, cont_ram >= 28 PROVE Celdas1'
    <3>1. \A k \in 1..27 : ram_atr[k] = 63 + k
      BY <1>1, <2>1, <2>b DEF Celdas1
    <3>2. \A k \in 1..27 : k \in Celdas /\ k # cont_ram
      BY <1>2, <2>b DEF Celdas
    <3>3. \A k \in 1..27 : ram_atr'[k] = ram_atr[k]
      BY <1>3, <3>2
    <3> QED
      BY <3>1, <3>3 DEF Celdas1
  <2>2. (cont_ram + 1) % 64 = IF cont_ram = 63 THEN 0 ELSE cont_ram + 1
    BY <1>2
  <2>3. CASE c \in 0..62
    BY <1>1, <1>3, <2>1, <2>3 DEF DatoListo, Puntero, Celdas1
  <2>4. CASE c = 63
    BY <1>1, <1>3, <2>1, <2>2, <2>4 DEF DatoListo, Puntero, Celdas1
  <2>5. CASE c \in 64..90
    <3>1. cont_ram = c - 63 /\ cont_ram' = c - 62 /\ ram_atr'[c - 63] = c
      BY <1>3, <2>1, <2>2, <2>5 DEF DatoListo, Puntero
    <3>2. Celdas1'
      <4> SUFFICES ASSUME NEW k \in 1..27, c + 1 >= 64 + k
                   PROVE  ram_atr'[k] = 63 + k
        BY <1>1 DEF Celdas1
      <4>1. CASE c = 63 + k
        BY <3>1, <4>1
      <4>2. CASE c # 63 + k
        <5>1. k \in Celdas /\ k # cont_ram /\ c >= 64 + k
          BY <2>5, <3>1, <4>2 DEF Celdas
        <5> QED
          BY <1>3, <2>1, <5>1 DEF Celdas1
      <4> QED
        BY <4>1, <4>2
    <3>3. c + 1 \in 64..91 /\ cont_ram' = (c + 1) - 63
      BY <2>5, <3>1
    <3>4. Puntero(cont_ram', c + 1)
      BY <3>3 DEF Puntero
    <3> QED
      BY <3>2, <3>4
  <2>6. CASE c \in 91..99
    <3>1. cont_ram' \in 28..29
      BY <1>3, <2>1, <2>2, <2>6 DEF DatoListo, Puntero
    <3>2. cont_ram \in 28..29
      BY <2>1, <2>6 DEF Puntero
    <3>3. Celdas1'
      <4>1. c >= 91 /\ cont_ram >= 28
        BY <2>6, <3>2
      <4> QED
        BY <2>b, <4>1
    <3> QED
      BY <2>6, <3>1, <3>3 DEF Puntero
  <2>7. CASE c \in 100..127
    <3>1. /\ cont_ram \in 28..63 /\ cont_ram' = cont_ram + 1
          /\ cont_ram' \in (c + 1) - 72..(c + 1) - 71
      BY <1>3, <2>1, <2>2, <2>7 DEF DatoListo, Puntero
    <3>2. Celdas1'
      <4>1. c >= 91 /\ cont_ram >= 28
        BY <2>7, <3>1
      <4> QED
        BY <2>b, <4>1
    <3>3. c + 1 \in 101..128
      BY <2>7
    <3>4. Puntero(cont_ram', c + 1)
      BY <3>1, <3>3 DEF Puntero
    <3> QED
      BY <3>2, <3>4
  <2>8. CASE c \in 128..130
    <3>1. cont_ram \in 56..58 /\ cont_ram' \in 56..58
      BY <1>3, <2>1, <2>2, <2>8 DEF DatoListo, Puntero
    <3>2. Celdas1'
      <4>1. c >= 91 /\ cont_ram >= 28
        BY <2>8, <3>1
      <4> QED
        BY <2>b, <4>1
    <3> QED
      BY <2>8, <3>1, <3>2 DEF Puntero
  <2> QED
    BY <1>1, <2>3, <2>4, <2>5, <2>6, <2>7, <2>8
<1> QED
  BY <1>1, <1>4, <1>5 DEF RIInv, Capturado

\* A write of the control register, with the pointer where it is.
LEMMA RIInvEscribe ==
  ASSUME RIInv, NEW en \in BOOLEAN, NEW dw \in 0..3, EscribeSC_REG(en, dw)
  PROVE  RIInv'
<1>1. RTypeOK'
  <2>1. sc_en' \in BOOLEAN /\ sc_dw' \in 0..3
    BY Zenon DEF EscribeSC_REG
  <2>2. contadorByte' \in 0..UltimoByte + 1
    BY DEF EscribeSC_REG, RIInv, RTypeOK, UltimoByte
  <2>3. {cont_ram', inicio'} \subseteq Celdas
    BY Zenon DEF EscribeSC_REG, RIInv, RTypeOK
  <2>4. ram_atr' \in [Celdas -> {Vacio, Cero} \cup (0..UltimoByte)]
    BY Zenon DEF EscribeSC_REG, RIInv, RTypeOK
  <2>5. sesiones' \in 0..Sesiones
    <3>1. /\ sesiones \in 0..Sesiones /\ (en /\ ~sc_en => sesiones < Sesiones)
          /\ sesiones' = IF en /\ ~sc_en THEN sesiones + 1 ELSE sesiones
      BY Zenon DEF EscribeSC_REG, RIInv, RTypeOK
    <3>2. CASE en /\ ~sc_en
      <4>1. sesiones < Sesiones /\ sesiones' = sesiones + 1
        BY <3>1, <3>2
      <4> QED
        BY <3>1, <4>1, SesionesAssumption
    <3>3. CASE ~(en /\ ~sc_en)
      BY <3>1, <3>3
    <3> QED
      BY <3>2, <3>3
  <2> QED
    BY <2>1, <2>2, <2>3, <2>4, <2>5 DEF RTypeOK
<1>2. ~sc_en' => contadorByte' = 0
  BY DEF EscribeSC_REG
<1>3. CASE sc_en /\ en
  BY <1>1, <1>2, <1>3 DEF EscribeSC_REG, RIInv, Capturado, Celdas1
<1>4. CASE ~sc_en /\ en
  BY <1>1, <1>2, <1>4 DEF EscribeSC_REG, RIInv, Capturado, Celdas1, Puntero
<1>5. CASE ~en
  BY <1>1, <1>2, <1>5 DEF EscribeSC_REG, RIInv, Capturado
<1> QED
  BY <1>3, <1>4, <1>5

LEMMA RIInvPaso == RIInv /\ [RNext]_rvars => RIInv'
<1> SUFFICES ASSUME RIInv, [RNext]_rvars PROVE RIInv'
  OBVIOUS
<1>1. CASE UnByte
  BY <1>1, CapturadoByte
<1>2. CASE \E en \in BOOLEAN, dw \in 0..3 : EscribeSC_REG(en, dw)
  BY <1>2, RIInvEscribe
<1>3. CASE BorraSC_REG
  <2>1. EscribeSC_REG(FALSE, 0)
    BY <1>3, Zenon DEF BorraSC_REG
  <2>2. 0 \in 0..3
    OBVIOUS
  <2> QED
    BY <2>1, <2>2, RIInvEscribe, Zenon
<1>4. CASE UNCHANGED rvars
  BY <1>4 DEF rvars, RIInv, RTypeOK, Capturado, Celdas1
<1> QED
  BY <1>1, <1>2, <1>3, <1>4 DEF RNext

\* The rows of a record that is in.
LEMMA FilasDeRIInv == RIInv => FilasDelRegistro
<1> SUFFICES ASSUME RIInv PROVE FilasDelRegistro
  OBVIOUS
<1>1. ASSUME contadorByte >= 92, inicio = 0
      PROVE  \A k \in 1..27 : ram_atr[k] = 63 + k
  BY <1>1, Numeros DEF RIInv, Capturado, Celdas1
<1>2. NombreIntegro
  BY <1>1 DEF NombreIntegro, Dato_LCD, Nombre, NombreDe, PrimerDato
<1>3. NumeroIntegro
  <2> SUFFICES ASSUME contadorByte >= 92, inicio = 0 PROVE Digitos(17) = NumeroDe
    BY DEF NumeroIntegro, Dato_LCD
  <2>1. \A j \in 1..10 : 17 + (j - 1) \div 2 \in 17..21
    OBVIOUS
  <2>2. \A j \in 1..10 : ram_atr[17 + (j - 1) \div 2] = PrimerDato + 16 + (j - 1) \div 2
    BY <1>1, <2>1 DEF PrimerDato
  <2> QED
    BY <2>2 DEF Digitos, NumeroDe
<1> QED
  BY <1>2, <1>3 DEF RIInv, FilasDelRegistro

\* The rows are the first record's name and number, in any number of sessions
\* of which this one began with the pointer at its first cell
\* (Main_SIM.v:42-80).
THEOREM SiempreFilas == RSpec => []FilasDelRegistro
  BY RIInvInit, RIInvPaso, FilasDeRIInv, PTL DEF RSpec
=============================================================================
