--------------------------- MODULE Firmware_proofs ---------------------------
(***************************************************************************)
(* No row of mixed words, and no row lost, for rows of any size and any    *)
(* number of keys.                                                         *)
(*                                                                         *)
(* SinMezcla is not inductive: what main has written of a row may have     *)
(* been overwritten when it gives the order.  What saves it is that the    *)
(* order is then dropped.  The handler returns with the display busy       *)
(* (VuelveOcupada) and the display cannot end what it does while main is   *)
(* inside a row; so, whenever the display would take the order, the words  *)
(* written so far are those of the row being written (RenglonPropio).      *)
(*                                                                         *)
(* FilasCompletas speaks of the ends of the two routines.  In between, who *)
(* cannot be interrupted, the handler or a main without keys, finds the    *)
(* display ready at each order (Preparada), so that the orders taken are   *)
(* the first ones of Orden, as many as the place in the routine says.      *)
(***************************************************************************)
EXTENDS Firmware, SequenceTheorems, TLAPS

\* Orders given before each operation of the handler and of main.
HechasManejador == <<0, 0, 0, 1, 1, 2, 2, 2, 3, 3, 4, 4, 4, 5, 5, 6, 6, 6, 7>>
HechasMain == <<0, 0, 0, 1, 1, 2, 2, 3, 3, 4, 4, 5, 5, 6, 6, 7, 7, 8, 8, 8>>

Orden == CuatroFilas \o <<"chr">>

Funciones ==
  /\ pos \in [Contextos -> Nat] /\ reg \in [Contextos -> (Contextos \cup {"blanco"}) \X Nat]
  /\ dato = [w \in 1..Palabras |-> dato[w]]
  /\ obra \in Seq({"wr", "chr"})

RenglonPropio ==
  (Ahora.op = "fila" /\ lcd = "lista") =>
    \A w \in 1..paso[Corre] - 1 : dato[w] = reg[Corre]

VuelveOcupada == Ahora.op = "vuelve" => lcd # "lista"

\* Between two interrupts the handler is at its first operation.
ManejadorListo ==
  /\ ~enIrq => pos["irq"] = 1
  /\ pos["irq"] \in {1, 19} => paso["irq"] = 0

SinInterrumpir == enIrq \/ teclas = 0

Preparada ==
  /\ SinInterrumpir /\ Ahora.op \in {"fila", "chr"} => lcd = "lista"
  /\ enIrq /\ Ahora.op = "sim" => lcd = "lista"

EnOrden == SinInterrumpir => \A i \in 1..Len(obra) : obra[i] = Orden[i]

Cuenta ==
  /\ enIrq => Len(obra) = HechasManejador[pos["irq"]]
  /\ teclas = 0 => ~enIrq /\ ~ip /\ pulso = "no" /\ Len(obra) = HechasMain[pos["main"]]

UltimaFila ==
  enIrq =>
    /\ pos["irq"] = 18 => sc_dw = 3 /\ (paso["irq"] > 0 => reg["irq"] = <<"irq", 3>>)
    /\ pos["irq"] = 19 => mostrada[1] = <<"irq", 3>>

IInv ==
  /\ TypeOK /\ Funciones /\ RenglonPropio /\ VuelveOcupada /\ ManejadorListo /\ SinMezcla
  /\ Preparada /\ EnOrden /\ Cuenta /\ UltimaFila

-----------------------------------------------------------------------------
(* What the proofs need to know of the two routines (main.c:3-47): which   *)
(* operations they have, that a row is written where the order says, that  *)
(* every row and every row change is followed by a wait, or by the end.    *)

\* The handler's operations, one by one (main.c:3-23).
LEMMA ManejadorOp ==
  /\ Len(PManejador) = 18
  /\ PManejador[1] = Espera /\ PManejador[2] = Sim(0) /\ PManejador[3] = Fila(0)
  /\ PManejador[4] = Espera /\ PManejador[5] = Chr /\ PManejador[6] = Espera
  /\ PManejador[7] = Sim(1) /\ PManejador[8] = Fila(1) /\ PManejador[9] = Espera
  /\ PManejador[10] = Chr /\ PManejador[11] = Espera /\ PManejador[12] = Sim(2)
  /\ PManejador[13] = Fila(2) /\ PManejador[14] = Espera /\ PManejador[15] = Chr
  /\ PManejador[16] = Espera /\ PManejador[17] = Sim(3) /\ PManejador[18] = Fila(3)
<1>1. PManejador = <<Espera, Sim(0), Fila(0)>>
         \o <<Espera, Chr, Espera, Sim(1), Fila(1)>>
         \o <<Espera, Chr, Espera, Sim(2), Fila(2)>>
         \o <<Espera, Chr, Espera, Sim(3), Fila(3)>>
  BY DEF PManejador, Otra
<1> QED
  BY <1>1

\* The same for main (main.c:25-47).
LEMMA PrincipalOp ==
  /\ Len(PMain) = 20
  /\ PMain[1] = Op("irq", 0) /\ PMain[2] = Espera /\ PMain[3] = Fila(1)
  /\ PMain[4] = Espera /\ PMain[5] = Chr /\ PMain[6] = Espera
  /\ PMain[7] = Fila(2) /\ PMain[8] = Espera /\ PMain[9] = Chr
  /\ PMain[10] = Espera /\ PMain[11] = Fila(3) /\ PMain[12] = Espera
  /\ PMain[13] = Chr /\ PMain[14] = Espera /\ PMain[15] = Fila(4)
  /\ PMain[16] = Espera /\ PMain[17] = Chr /\ PMain[18] = Sim(0)
  /\ PMain[19] = Op("sondeo", 0) /\ PMain[20] = Op("fin", 0)
<1>1. PMain = <<Op("irq", 0)>>
         \o <<Espera, Fila(1), Espera, Chr>> \o <<Espera, Fila(2), Espera, Chr>>
         \o <<Espera, Fila(3), Espera, Chr>> \o <<Espera, Fila(4), Espera, Chr>>
         \o <<Sim(0), Op("sondeo", 0), Op("fin", 0)>>
  BY DEF PMain, Renglon
<1> QED
  BY <1>1

\* What of them the proofs use: where a row may begin and what follows it.
LEMMA Manejador ==
  /\ Len(PManejador) = 18
  /\ PManejador[1].op = "espera" /\ PManejador[18].op = "fila" /\ PManejador[17] = Sim(3)
  /\ \A p \in 1..18 : PManejador[p].op \in {"espera", "sim", "fila", "chr"}
  /\ \A p \in 1..18 : PManejador[p].op = "sim" => PManejador[p].arg \in 0..3
  /\ \A p \in 1..17 : PManejador[p].op \in {"fila", "chr"} => PManejador[p + 1].op = "espera"
BY ManejadorOp DEF Espera, Fila, Chr, Sim, Op

\* The same for main, whose last operation is its endless loop.
LEMMA Principal ==
  /\ Len(PMain) = 20
  /\ PMain[1].op = "irq" /\ PMain[20].op = "fin"
  /\ \A p \in 1..20 : PMain[p].op \in {"irq", "espera", "sim", "fila", "chr", "sondeo", "fin"}
  /\ \A p \in 1..20 : PMain[p].op = "sim" => PMain[p].arg \in 0..3
  /\ \A p \in 1..19 : PMain[p + 1].op \in {"fila", "chr"} => PMain[p].op = "espera"
BY PrincipalOp DEF Espera, Fila, Chr, Sim, Op

\* The orders alternate: a row, a change of row.
LEMMA OrdenEs ==
  /\ Orden[1] = "wr" /\ Orden[2] = "chr" /\ Orden[3] = "wr" /\ Orden[4] = "chr"
  /\ Orden[5] = "wr" /\ Orden[6] = "chr" /\ Orden[7] = "wr" /\ Orden[8] = "chr"
BY DEF Orden, CuatroFilas

\* The table counts the handler's orders, and Orden lists them.
LEMMA TablaManejador ==
  /\ HechasManejador[1] = 0 /\ HechasManejador[19] = 7
  /\ \A p \in 1..19 : HechasManejador[p] \in 0..7
  /\ \A p \in 1..18 :
       IF PManejador[p].op \in {"fila", "chr"}
         THEN /\ HechasManejador[p + 1] = HechasManejador[p] + 1
              /\ Orden[HechasManejador[p] + 1] = IF PManejador[p].op = "chr" THEN "chr" ELSE "wr"
         ELSE HechasManejador[p + 1] = HechasManejador[p]
<1> QED
  BY ManejadorOp, OrdenEs DEF HechasManejador, Espera, Fila, Chr, Sim, Op

\* The same for main.
LEMMA TablaMain ==
  /\ HechasMain[1] = 0 /\ \A p \in 18..20 : HechasMain[p] = 8
  /\ \A p \in 1..20 : HechasMain[p] \in 0..8
  /\ \A p \in 1..19 :
       IF PMain[p].op \in {"fila", "chr"}
         THEN /\ HechasMain[p + 1] = HechasMain[p] + 1
              /\ Orden[HechasMain[p] + 1] = IF PMain[p].op = "chr" THEN "chr" ELSE "wr"
         ELSE HechasMain[p + 1] = HechasMain[p]
<1> QED
  BY PrincipalOp, OrdenEs DEF HechasMain, Espera, Fila, Chr, Sim, Op

-----------------------------------------------------------------------------
\* Which routine runs and what its next operation is.
LEMMA AhoraEs ==
  ASSUME TypeOK
  PROVE  /\ enIrq => /\ Corre = "irq"
                     /\ \/ pos["irq"] \in 1..18 /\ Ahora = PManejador[pos["irq"]]
                        \/ pos["irq"] = 19 /\ Ahora.op = "vuelve"
         /\ ~enIrq => Corre = "main" /\ pos["main"] \in 1..20 /\ Ahora = PMain[pos["main"]]
<1>1. /\ pos["main"] \in 1..20 /\ pos["irq"] \in 1..19
  BY Manejador, Principal DEF TypeOK
<1>2. ASSUME enIrq
      PROVE  /\ Corre = "irq"
             /\ \/ pos["irq"] \in 1..18 /\ Ahora = PManejador[pos["irq"]]
                \/ pos["irq"] = 19 /\ Ahora.op = "vuelve"
  <2>1. Corre = "irq"
    BY <1>2 DEF Corre
  <2>2. Ahora = IF pos["irq"] <= Len(PManejador) THEN PManejador[pos["irq"]]
                                                 ELSE Op("vuelve", 0)
    BY <2>1 DEF Ahora, Rutina
  <2> QED
    BY <1>1, <2>1, <2>2, Manejador DEF Op
<1>3. ASSUME ~enIrq
      PROVE  Corre = "main" /\ Ahora = PMain[pos["main"]]
  <2>1. Corre = "main"
    BY <1>3 DEF Corre
  <2>2. Ahora = IF pos["main"] <= Len(PMain) THEN PMain[pos["main"]]
                                             ELSE Op("vuelve", 0)
    BY <2>1 DEF Ahora, Rutina
  <2> QED
    BY <1>1, <2>1, <2>2, Principal
<1> QED
  BY <1>1, <1>2, <1>3

\* The same after a step.
LEMMA AhoraSera ==
  ASSUME TypeOK'
  PROVE  /\ enIrq' => /\ Corre' = "irq"
                      /\ \/ pos'["irq"] \in 1..18 /\ Ahora' = PManejador[pos'["irq"]]
                         \/ pos'["irq"] = 19 /\ Ahora'.op = "vuelve"
         /\ ~enIrq' => Corre' = "main" /\ pos'["main"] \in 1..20 /\ Ahora' = PMain[pos'["main"]]
<1>1. /\ pos'["main"] \in 1..20 /\ pos'["irq"] \in 1..19
  BY Manejador, Principal DEF TypeOK
<1>2. ASSUME enIrq'
      PROVE  /\ Corre' = "irq"
             /\ \/ pos'["irq"] \in 1..18 /\ Ahora' = PManejador[pos'["irq"]]
                \/ pos'["irq"] = 19 /\ Ahora'.op = "vuelve"
  <2>1. Corre' = "irq"
    BY <1>2 DEF Corre
  <2>2. Ahora' = IF pos'["irq"] <= Len(PManejador) THEN PManejador[pos'["irq"]]
                                                 ELSE Op("vuelve", 0)
    BY <2>1 DEF Ahora, Rutina
  <2> QED
    BY <1>1, <2>1, <2>2, Manejador DEF Op
<1>3. ASSUME ~enIrq'
      PROVE  Corre' = "main" /\ Ahora' = PMain[pos'["main"]]
  <2>1. Corre' = "main"
    BY <1>3 DEF Corre
  <2>2. Ahora' = IF pos'["main"] <= Len(PMain) THEN PMain[pos'["main"]]
                                             ELSE Op("vuelve", 0)
    BY <2>1 DEF Ahora, Rutina
  <2> QED
    BY <1>1, <2>1, <2>2, Principal
<1> QED
  BY <1>1, <1>2, <1>3

\* Advancing within a routine keeps its place inside it.
LEMMA Avanzando ==
  ASSUME IInv, enIrq' <=> enIrq, Ahora.op \notin {"fin", "vuelve"},
         NEW c \in Contextos, c = Corre, Avanza(c)
  PROVE  /\ pos' \in [Contextos -> Nat]
         /\ paso' \in [Contextos -> 0..Palabras + 1] /\ paso'[c] = 0
         /\ \A d \in Contextos \ {c} : pos'[d] = pos[d] /\ paso'[d] = paso[d]
         /\ pos'[c] = pos[c] + 1
         /\ pos'["main"] \in 1..Len(PMain) /\ pos'["irq"] \in 1..Len(PManejador) + 1
<1>1. /\ pos' \in [Contextos -> Nat]
      /\ paso' \in [Contextos -> 0..Palabras + 1] /\ paso'[c] = 0
      /\ \A d \in Contextos \ {c} : pos'[d] = pos[d] /\ paso'[d] = paso[d]
      /\ pos'[c] = pos[c] + 1
  <2>1. /\ pos \in [Contextos -> Nat] /\ paso \in [Contextos -> 0..Palabras + 1]
        /\ 0 \in 0..Palabras + 1
    BY FirmwareAssumption DEF IInv, TypeOK, Funciones
  <2>2. pos' = [pos EXCEPT ![c] = @ + 1] /\ paso' = [paso EXCEPT ![c] = 0]
    BY DEF Avanza
  <2> QED
    BY <2>1, <2>2
<1>2. TypeOK
  BY DEF IInv
<1>3. /\ pos["main"] \in 1..20 /\ pos["irq"] \in 1..19
      /\ c = "irq" => pos["irq"] # 19
      /\ c = "main" => pos["main"] # 20
  <2>1. CASE enIrq
    BY <1>2, <2>1, AhoraEs, Manejador, Principal DEF TypeOK
  <2>2. CASE ~enIrq
    BY <1>2, <2>2, AhoraEs, Manejador, Principal DEF TypeOK
  <2> QED
    BY <2>1, <2>2
<1>4. pos'["main"] \in 1..20 /\ pos'["irq"] \in 1..19
  <2>1. CASE c = "main"
    BY <1>1, <1>3, <2>1 DEF Contextos
  <2>2. CASE c = "irq"
    BY <1>1, <1>3, <2>2 DEF Contextos
  <2> QED
    BY <2>1, <2>2 DEF Contextos
<1> QED
  BY <1>1, <1>4, Manejador, Principal

\* An operation that touches neither the display nor the keys: the interrupt
\* enable, a wait that is over, the card's register, the end of the poll.
LEMMA SinPanel ==
  ASSUME IInv, enIrq' <=> enIrq, ip' <=> ip, UNCHANGED <<reg, lcd, dato, mostrada, obra, pulso, teclas>>,
         NEW c \in Contextos, c = Corre, Avanza(c),
         Ahora.op \in {"irq", "espera", "sim", "sondeo"},
         Ahora.op = "espera" => lcd = "lista",
         sc_dw' = IF Ahora.op = "sim" THEN Ahora.arg ELSE sc_dw,
         ie' \in BOOLEAN, sim' \in {"apagada", "leyendo", "hecha", "pasada"},
         resta' \in 0..Renglones
  PROVE  IInv'
<1>1. /\ pos' \in [Contextos -> Nat]
      /\ paso' \in [Contextos -> 0..Palabras + 1] /\ paso'[c] = 0
      /\ \A d \in Contextos \ {c} : pos'[d] = pos[d] /\ paso'[d] = paso[d]
      /\ pos'[c] = pos[c] + 1
      /\ pos'["main"] \in 1..Len(PMain) /\ pos'["irq"] \in 1..Len(PManejador) + 1
  BY Avanzando
<1>2. TypeOK /\ TypeOK'
  <2>1. TypeOK
    BY DEF IInv
  <2>2. sc_dw' \in 0..3
    BY <2>1, AhoraEs, Manejador, Principal DEF TypeOK
  <2> QED
    BY <1>1, <2>1, <2>2 DEF TypeOK
<1>3. Corre' = c
  BY <1>2 DEF Corre
<1>4. Funciones' /\ RenglonPropio' /\ ManejadorListo' /\ SinMezcla' /\ EnOrden'
  <2>1. Funciones' /\ SinMezcla' /\ EnOrden'
    BY <1>1, SMTT(20) DEF IInv, Funciones, SinMezcla, EnOrden, SinInterrumpir
  <2>2. RenglonPropio'
    BY <1>1, <1>3 DEF RenglonPropio
  <2>3. ManejadorListo'
    BY <1>1 DEF IInv, ManejadorListo, Corre, Contextos
  <2> QED
    BY <2>1, <2>2, <2>3
<1>5. CASE enIrq
  <2>1. /\ c = "irq" /\ pos["irq"] \in 1..17 /\ Ahora = PManejador[pos["irq"]]
        /\ Ahora' = PManejador[pos["irq"] + 1]
    <3>1. c = "irq" /\ pos["irq"] \in 1..17 /\ Ahora = PManejador[pos["irq"]]
      BY <1>2, <1>5, AhoraEs, Manejador
    <3>2. enIrq'
      BY <1>5
    <3>3. pos'["irq"] = pos["irq"] + 1
      BY <1>1, <3>1, Zenon
    <3>4. pos'["irq"] \in 1..18
      BY <3>1, <3>3
    <3> QED
      BY <1>2, <3>1, <3>2, <3>3, <3>4, AhoraSera
  <2>2. VuelveOcupada' /\ Preparada'
    BY <1>5, <2>1, Manejador DEF IInv, VuelveOcupada, Preparada
  <2>3. Cuenta'
    <3>1. pos["irq"] \in 1..18 /\ pos'["irq"] = pos["irq"] + 1
      BY <1>1, <2>1
    <3>2. HechasManejador[pos["irq"] + 1] = HechasManejador[pos["irq"]]
      BY <2>1, TablaManejador
    <3>3. Len(obra) = HechasManejador[pos["irq"]] /\ teclas # 0
      BY <1>5 DEF IInv, Cuenta
    <3> QED
      BY <1>5, <3>1, <3>2, <3>3 DEF Cuenta
  <2>4. UltimaFila'
    <3>1. pos["irq"] \in 1..17 /\ pos'["irq"] = pos["irq"] + 1 /\ paso'["irq"] = 0
      BY <1>1, <2>1
    <3>2. pos["irq"] = 17 => sc_dw' = 3
      BY <2>1, Manejador DEF Sim, Op
    <3> QED
      BY <3>1, <3>2 DEF UltimaFila
  <2> QED
    BY <1>2, <1>4, <2>2, <2>3, <2>4 DEF IInv
<1>6. CASE ~enIrq
  <2>1. /\ c = "main" /\ pos["main"] \in 1..19 /\ Ahora = PMain[pos["main"]]
        /\ Ahora' = PMain[pos["main"] + 1]
    <3>1. c = "main" /\ pos["main"] \in 1..19 /\ Ahora = PMain[pos["main"]]
      BY <1>2, <1>6, AhoraEs, Principal
    <3>2. ~enIrq' /\ pos'["main"] = pos["main"] + 1
      BY <1>1, <1>6, <3>1
    <3> QED
      BY <1>2, <3>1, <3>2, AhoraSera
  <2>2. VuelveOcupada' /\ Preparada'
    BY <1>6, <2>1, Principal DEF IInv, VuelveOcupada, Preparada, SinInterrumpir
  <2>3. Cuenta'
    <3>1. pos["main"] \in 1..19 /\ pos'["main"] = pos["main"] + 1
      BY <1>1, <2>1
    <3>2. HechasMain[pos["main"] + 1] = HechasMain[pos["main"]]
      BY <2>1, TablaMain
    <3> QED
      BY <1>6, <3>1, <3>2 DEF IInv, Cuenta
  <2>4. UltimaFila'
    BY <1>6 DEF UltimaFila
  <2> QED
    BY <1>2, <1>4, <2>2, <2>3, <2>4 DEF IInv
<1> QED
  BY <1>5, <1>6

\* An order to the display, after the words of a row or without them.
LEMMA UnaOrden ==
  ASSUME IInv, enIrq' <=> enIrq, ip' <=> ip, UNCHANGED <<reg, dato, sim, sc_dw, teclas>>,
         ie' \in BOOLEAN, resta' \in 0..Renglones,
         NEW c \in Contextos, c = Corre, Avanza(c), Ahora.op \in {"fila", "chr"},
         Ahora.op = "fila" => paso[c] = Palabras + 1,
         Ordena(IF Ahora.op = "chr" THEN "chr" ELSE "wr")
  PROVE  IInv'
<1> DEFINE o == IF Ahora.op = "chr" THEN "chr" ELSE "wr"
<1>1. /\ pos' \in [Contextos -> Nat]
      /\ paso' \in [Contextos -> 0..Palabras + 1] /\ paso'[c] = 0
      /\ \A d \in Contextos \ {c} : pos'[d] = pos[d] /\ paso'[d] = paso[d]
      /\ pos'[c] = pos[c] + 1
      /\ pos'["main"] \in 1..Len(PMain) /\ pos'["irq"] \in 1..Len(PManejador) + 1
  BY Avanzando
<1>2. /\ lcd' \in {"inicia", "lista", "ocupada"} /\ lcd' # "lista"
      /\ pulso' \in {"no", "nuevo", "viejo"} /\ (pulso = "no" => pulso' = "no")
  BY DEF IInv, TypeOK, Ordena
<1>3. TypeOK /\ TypeOK'
  BY <1>1, <1>2 DEF IInv, TypeOK
<1>4. /\ lcd = "lista" => /\ obra' = Append(obra, o)
                          /\ mostrada' = IF o = "chr" THEN mostrada ELSE dato
      /\ lcd # "lista" => obra' = obra /\ mostrada' = mostrada
  BY DEF Ordena
<1>5. Funciones' /\ RenglonPropio' /\ VuelveOcupada'
  <2>1. obra' \in Seq({"wr", "chr"})
    <3>1. obra \in Seq({"wr", "chr"}) /\ o \in {"wr", "chr"}
      BY DEF IInv, Funciones
    <3>2. obra' = obra \/ obra' = Append(obra, o)
      BY <1>4
    <3> HIDE DEF o
    <3> QED
      BY <3>1, <3>2
  <2> QED
    BY <1>1, <1>2, <2>1 DEF IInv, Funciones, RenglonPropio, VuelveOcupada
<1>6. lcd = "lista" /\ Ahora.op = "fila" => \A w \in 1..Palabras : dato[w] = reg[c]
  BY FirmwareAssumption DEF IInv, RenglonPropio
<1>7. SinMezcla'
  BY <1>4, <1>6 DEF IInv, SinMezcla
<1>8. CASE enIrq
  <2>1. /\ c = "irq" /\ pos["irq"] \in 1..18 /\ Ahora = PManejador[pos["irq"]]
        /\ pos'["irq"] = pos["irq"] + 1 /\ paso'["irq"] = 0
    BY <1>1, <1>3, <1>8, AhoraEs
  <2>2. enIrq' /\ lcd = "lista" /\ teclas # 0 /\ Len(obra) = HechasManejador[pos["irq"]]
    BY <1>8 DEF IInv, Preparada, SinInterrumpir, Cuenta
  <2>3. /\ HechasManejador[pos["irq"] + 1] = HechasManejador[pos["irq"]] + 1
        /\ HechasManejador[pos["irq"]] \in 0..7
        /\ Orden[HechasManejador[pos["irq"]] + 1] = o
    BY <2>1, TablaManejador
  <2>4. Cuenta' /\ EnOrden'
    <3>1. obra' = Append(obra, o) /\ obra \in Seq({"wr", "chr"}) /\ o \in {"wr", "chr"}
      BY <1>4, <2>2 DEF IInv, Funciones
    <3>2. \A i \in 1..Len(obra) : obra[i] = Orden[i]
      BY <1>8 DEF IInv, EnOrden, SinInterrumpir
    <3>3. Len(obra') = Len(obra) + 1 /\ \A i \in 1..Len(obra') : obra'[i] = Orden[i]
      BY <2>2, <2>3, <3>1, <3>2
    <3> QED
      BY <2>1, <2>2, <2>3, <3>3 DEF Cuenta, EnOrden
  <2>5. Preparada'
    <3>1. CASE pos["irq"] = 18
      BY <1>3, <2>1, <2>2, <3>1, AhoraSera DEF Preparada
    <3>2. CASE pos["irq"] # 18
      <4>1. pos["irq"] \in 1..17 /\ Ahora'.op = "espera"
        <5>1. pos["irq"] \in 1..17 /\ PManejador[pos["irq"] + 1].op = "espera"
          BY <2>1, <3>2, Manejador
        <5> QED
          BY <1>3, <2>1, <2>2, <5>1, AhoraSera
      <4> QED
        BY <4>1 DEF Preparada
    <3> QED
      BY <3>1, <3>2
  <2>6. UltimaFila' /\ ManejadorListo'
    <3>1. pos["irq"] # 17
      BY <2>1, Manejador DEF Sim, Op
    <3>2. ASSUME pos["irq"] = 18
          PROVE  mostrada'[1] = <<"irq", 3>>
      <4>1. Ahora.op = "fila" /\ paso["irq"] > 0
        BY <2>1, <3>2, Manejador, FirmwareAssumption
      <4>2. mostrada' = dato /\ dato[1] = reg["irq"]
        BY <1>4, <1>6, <2>1, <2>2, <4>1, FirmwareAssumption
      <4>3. reg["irq"] = <<"irq", 3>>
        BY <1>8, <3>2, <4>1 DEF IInv, UltimaFila
      <4> QED
        BY <4>2, <4>3
    <3>3. UltimaFila'
      BY <2>1, <3>1, <3>2 DEF UltimaFila
    <3>4. ManejadorListo'
      BY <2>1, <2>2 DEF ManejadorListo
    <3> QED
      BY <3>3, <3>4
  <2> QED
    BY <1>3, <1>5, <1>7, <2>4, <2>5, <2>6 DEF IInv
<1>9. CASE ~enIrq
  <2>1. c = "main" /\ pos["main"] \in 1..20 /\ Ahora = PMain[pos["main"]]
    BY <1>3, <1>9, AhoraEs
  <2>2. /\ pos["main"] \in 1..19 /\ pos'["main"] = pos["main"] + 1
        /\ pos'["irq"] = pos["irq"] /\ paso'["irq"] = paso["irq"]
    <3>1. pos["main"] # 20
      BY <2>1, Principal
    <3> QED
      BY <1>1, <2>1, <3>1 DEF Contextos
  <2>3. ~enIrq' /\ Ahora' = PMain[pos["main"] + 1]
    BY <1>3, <1>9, <2>2, AhoraSera
  <2>4. UltimaFila' /\ ManejadorListo'
    BY <1>9, <2>2, <2>3 DEF IInv, UltimaFila, ManejadorListo
  <2>5. Preparada'
    BY <2>1, <2>2, <2>3, Principal DEF Preparada
  <2>6. ASSUME teclas = 0
        PROVE  Cuenta' /\ EnOrden'
    <3>1. lcd = "lista" /\ Len(obra) = HechasMain[pos["main"]] /\ ~ip' /\ pulso' = "no"
      BY <1>2, <2>6 DEF IInv, Preparada, SinInterrumpir, Cuenta
    <3>2. /\ HechasMain[pos["main"] + 1] = HechasMain[pos["main"]] + 1
          /\ HechasMain[pos["main"]] \in 0..8
          /\ Orden[HechasMain[pos["main"]] + 1] = o
      BY <2>1, <2>2, TablaMain
    <3>3. obra' = Append(obra, o) /\ obra \in Seq({"wr", "chr"}) /\ o \in {"wr", "chr"}
      BY <1>4, <3>1 DEF IInv, Funciones
    <3>4. \A i \in 1..Len(obra) : obra[i] = Orden[i]
      BY <2>6 DEF IInv, EnOrden, SinInterrumpir
    <3>5. Len(obra') = Len(obra) + 1 /\ \A i \in 1..Len(obra') : obra'[i] = Orden[i]
      BY <3>1, <3>2, <3>3, <3>4
    <3> QED
      BY <2>2, <2>3, <3>1, <3>2, <3>5 DEF Cuenta, EnOrden
  <2>7. ASSUME teclas # 0
        PROVE  Cuenta' /\ EnOrden'
    BY <2>3, <2>7 DEF Cuenta, EnOrden, SinInterrumpir
  <2> QED
    BY <1>3, <1>5, <1>7, <2>4, <2>5, <2>6, <2>7 DEF IInv
<1> QED
  BY <1>8, <1>9

\* A row begins, if the display is ready.  If it is not, the routine is a main
\* that a key has interrupted.
LEMMA Empieza ==
  ASSUME IInv, NEW c \in Contextos, c = Corre, EmpiezaFila(c)
  PROVE  IInv'
<1>1. TypeOK /\ Funciones /\ Ahora.op = "fila" /\ paso[c] = 0 /\ (enIrq' <=> enIrq) /\ (ip' <=> ip) /\ enIrq' \in BOOLEAN /\ ip' \in BOOLEAN
      /\ UNCHANGED <<lcd, dato, mostrada, obra, sim, sc_dw, resta, pulso, teclas>> /\ ie' \in BOOLEAN
  BY DEF IInv, TypeOK, EmpiezaFila, panel, tarjeta, teclado
<1>2. /\ reg' \in [Contextos -> (Contextos \cup {"blanco"}) \X Nat]
      /\ reg'[c] = <<c, IF c = "main" THEN Ahora.arg ELSE sc_dw>>
  <2>1. (IF c = "main" THEN Ahora.arg ELSE sc_dw) \in Nat
    <3>1. CASE enIrq
      BY <1>1, <3>1, AhoraEs DEF TypeOK
    <3>2. CASE ~enIrq
      <4>1. Ahora = PMain[pos["main"]] /\ pos["main"] \in 1..20 /\ c = "main"
        BY <1>1, <3>2, AhoraEs
      <4>2. \A p \in 1..20 : PMain[p].arg \in Nat
        BY PrincipalOp DEF Espera, Fila, Chr, Sim, Op
      <4> QED
        BY <4>1, <4>2
    <3> QED
      BY <3>1, <3>2
  <2> QED
    BY <1>1, <2>1 DEF Funciones, EmpiezaFila
<1>3. CASE lcd = "lista"
  <2>1. /\ pos' = pos /\ paso' = [paso EXCEPT ![c] = 1]
    BY <1>1, <1>3 DEF EmpiezaFila, Dentro
  <2>2. /\ paso' \in [Contextos -> 0..Palabras + 1] /\ paso'[c] = 1
        /\ \A d \in Contextos \ {c} : paso'[d] = paso[d]
    BY <1>1, <2>1, FirmwareAssumption DEF TypeOK
  <2>3. TypeOK' /\ Funciones'
    <3>1. TypeOK'
      BY <1>1, <1>2, <2>1, <2>2 DEF TypeOK
    <3>2. Funciones'
      BY <1>1, <1>2, <2>1, <2>2 DEF Funciones
    <3> QED
      BY <3>1, <3>2
  <2>4. Corre' = Corre /\ Ahora' = Ahora
    BY <1>1, <2>1 DEF Corre, Ahora
  <2>5. RenglonPropio' /\ VuelveOcupada' /\ SinMezcla' /\ Preparada' /\ EnOrden' /\ Cuenta'
    BY <1>1, <1>3, <2>1, <2>2, <2>4 DEF IInv, RenglonPropio, VuelveOcupada, SinMezcla, Preparada,
       EnOrden, Cuenta, SinInterrumpir
  <2>6. ManejadorListo' /\ UltimaFila'
    <3>1. CASE enIrq
      <4>1. c = "irq" /\ pos["irq"] \in 1..18 /\ Ahora = PManejador[pos["irq"]]
        BY <1>1, <3>1, AhoraEs
      <4>2. pos["irq"] # 1 /\ pos["irq"] # 19
        BY <1>1, <4>1, Manejador
      <4>3. pos["irq"] = 18 => sc_dw = 3
        BY <3>1 DEF IInv, UltimaFila
      <4> QED
        BY <1>1, <1>2, <2>1, <3>1, <4>1, <4>2, <4>3 DEF ManejadorListo, UltimaFila
    <3>2. CASE ~enIrq
      <4>1. c = "main"
        BY <1>1, <3>2, AhoraEs
      <4> QED
        BY <1>1, <2>1, <2>2, <3>2, <4>1 DEF IInv, ManejadorListo, UltimaFila, Contextos
    <3> QED
      BY <3>1, <3>2
  <2> QED
    BY <2>3, <2>5, <2>6 DEF IInv
<1>4. CASE lcd # "lista"
  <2>1. ~enIrq /\ ~enIrq' /\ teclas # 0 /\ teclas' # 0
    BY <1>1, <1>4 DEF IInv, Preparada, SinInterrumpir
  <2>2. Avanza(c) /\ c = "main"
    BY <1>1, <1>4, <2>1, AhoraEs DEF EmpiezaFila
  <2>3. /\ pos' \in [Contextos -> Nat]
        /\ paso' \in [Contextos -> 0..Palabras + 1]
        /\ pos'["irq"] = pos["irq"] /\ paso'["irq"] = paso["irq"]
        /\ pos'["main"] \in 1..Len(PMain) /\ pos'["irq"] \in 1..Len(PManejador) + 1
    BY <1>1, <2>2, Avanzando DEF Contextos
  <2>4. TypeOK' /\ Funciones'
    <3>1. TypeOK'
      BY <1>1, <1>2, <2>3 DEF TypeOK
    <3>2. Funciones'
      BY <1>1, <1>2, <2>3 DEF Funciones
    <3> QED
      BY <3>1, <3>2
  <2>5. VuelveOcupada' /\ RenglonPropio' /\ Preparada'
    BY <1>1, <1>4, <2>1 DEF VuelveOcupada, RenglonPropio, Preparada, SinInterrumpir
  <2>6. SinMezcla' /\ EnOrden' /\ Cuenta' /\ UltimaFila' /\ ManejadorListo'
    BY <1>1, <2>1, <2>3 DEF IInv, SinMezcla, EnOrden, Cuenta, UltimaFila, ManejadorListo, SinInterrumpir
  <2> QED
    BY <2>4, <2>5, <2>6 DEF IInv
<1> QED
  BY <1>3, <1>4

\* One more word of the row is its own.
LEMMA Escribe ==
  ASSUME IInv, NEW c \in Contextos, c = Corre, EscribeDato(c)
  PROVE  IInv'
<1>1. TypeOK /\ Funciones /\ Ahora.op = "fila" /\ paso[c] \in 1..Palabras
      /\ (enIrq' <=> enIrq) /\ (ip' <=> ip) /\ enIrq' \in BOOLEAN /\ ip' \in BOOLEAN
      /\ UNCHANGED <<reg, lcd, mostrada, obra, sim, sc_dw, resta, pulso, teclas, pos>> /\ ie' \in BOOLEAN
  BY DEF IInv, TypeOK, EscribeDato, Dentro, panel, tarjeta, teclado
<1>2. paso' = [paso EXCEPT ![c] = @ + 1] /\ dato' = [dato EXCEPT ![paso[c]] = reg[c]]
  BY DEF EscribeDato, Dentro
<1>3. /\ paso' \in [Contextos -> 0..Palabras + 1] /\ paso'[c] = paso[c] + 1
      /\ \A d \in Contextos \ {c} : paso'[d] = paso[d]
  BY <1>1, <1>2, FirmwareAssumption DEF TypeOK
<1>4. /\ dato' = [w \in 1..Palabras |-> dato'[w]] /\ dato'[paso[c]] = reg[c]
      /\ \A w \in 1..Palabras : w # paso[c] => dato'[w] = dato[w]
  BY <1>1, <1>2, FirmwareAssumption DEF Funciones
<1>5. TypeOK' /\ Funciones'
  <2>1. TypeOK'
    BY <1>1, <1>3, <1>4 DEF TypeOK
  <2>2. Funciones'
    BY <1>1, <1>3, <1>4 DEF Funciones
  <2> QED
    BY <2>1, <2>2
<1>6. Corre' = Corre /\ Ahora' = Ahora
  BY <1>1 DEF Corre, Ahora
<1>7. RenglonPropio'
  <2> SUFFICES ASSUME lcd = "lista", NEW w \in 1..paso[c]
               PROVE  dato'[w] = reg[c]
    BY <1>1, <1>3, <1>6 DEF RenglonPropio
  <2>1. \A v \in 1..paso[c] - 1 : dato[v] = reg[c]
    BY <1>1 DEF IInv, RenglonPropio
  <2>2. w = paso[c] \/ w \in 1..paso[c] - 1
    BY <1>1
  <2>3. w \in 1..Palabras
    BY <1>1, FirmwareAssumption
  <2> QED
    BY <1>4, <2>1, <2>2, <2>3
<1>8. VuelveOcupada' /\ SinMezcla' /\ Preparada' /\ EnOrden' /\ Cuenta'
  BY <1>1, <1>6 DEF IInv, VuelveOcupada, SinMezcla, Preparada, EnOrden, Cuenta, SinInterrumpir
<1>9. ManejadorListo' /\ UltimaFila'
  <2>1. CASE c = "irq"
    <3>1. enIrq
      BY <1>1, <2>1, AhoraEs
    <3>2. pos["irq"] \notin {1, 19}
      BY <1>1, <2>1, FirmwareAssumption DEF IInv, ManejadorListo
    <3> QED
      BY <1>1, <2>1, <3>1, <3>2 DEF IInv, ManejadorListo, UltimaFila
  <2>2. CASE c = "main"
    BY <1>1, <1>3, <2>2 DEF IInv, ManejadorListo, UltimaFila, Contextos
  <2> QED
    BY <2>1, <2>2 DEF Contextos
<1> QED
  BY <1>5, <1>7, <1>8, <1>9 DEF IInv

\* The handler returns with the display busy.
LEMMA Volver ==
  ASSUME IInv, Vuelve
  PROVE  IInv'
<1>1. TypeOK /\ Funciones /\ enIrq /\ Ahora.op = "vuelve" /\ ~enIrq' /\ enIrq' \in BOOLEAN
      /\ ie' \in BOOLEAN /\ ip' \in BOOLEAN
      /\ UNCHANGED <<paso, reg, lcd, dato, mostrada, obra, sim, sc_dw, resta, pulso, teclas>>
      /\ pos' = [pos EXCEPT !["irq"] = 1]
  BY DEF IInv, Vuelve, panel, tarjeta, teclado
<1>2. pos["irq"] = 19
  BY <1>1, AhoraEs, Manejador
<1>3. pos' \in [Contextos -> Nat] /\ pos'["irq"] = 1 /\ pos'["main"] = pos["main"]
  BY <1>1 DEF Funciones, Contextos
<1>4. TypeOK' /\ Funciones'
  <2>1. TypeOK'
    BY <1>1, <1>3, Manejador DEF TypeOK
  <2>2. Funciones'
    BY <1>1, <1>3, Manejador DEF Funciones
  <2> QED
    BY <2>1, <2>2
<1>5. lcd' # "lista" /\ teclas' # 0
  BY <1>1 DEF IInv, VuelveOcupada, Cuenta
<1>6. RenglonPropio' /\ VuelveOcupada' /\ SinMezcla' /\ Preparada' /\ EnOrden' /\ Cuenta' /\ UltimaFila'
  BY <1>1, <1>5 DEF IInv, RenglonPropio, VuelveOcupada, SinMezcla, Preparada, EnOrden, Cuenta,
     UltimaFila, SinInterrumpir
<1>7. ManejadorListo'
  BY <1>1, <1>2, <1>3 DEF IInv, ManejadorListo
<1> QED
  BY <1>4, <1>6, <1>7 DEF IInv

\* The handler begins, with no order of its own.
LEMMA Interrumpir ==
  ASSUME IInv, Interrumpe
  PROVE  IInv'
<1>1. TypeOK /\ Funciones /\ ~enIrq /\ enIrq' /\ ip /\ (ip' <=> ip)
      /\ ie' \in BOOLEAN /\ ip' \in BOOLEAN /\ enIrq' \in BOOLEAN /\ obra' = <<>>
      /\ UNCHANGED <<pos, paso, reg, lcd, dato, mostrada, sim, sc_dw, resta, pulso, teclas>>
  BY DEF IInv, Interrumpe, Pendiente, tarjeta, teclado
<1>2. pos["irq"] = 1 /\ paso["irq"] = 0 /\ teclas # 0
  BY <1>1 DEF IInv, ManejadorListo, Cuenta
<1>3. TypeOK' /\ Funciones'
  <2>1. TypeOK'
    BY <1>1 DEF IInv, TypeOK
  <2>2. Funciones'
    BY <1>1 DEF IInv, Funciones
  <2> QED
    BY <2>1, <2>2
<1>4. Ahora'.op = "espera"
  BY <1>1, <1>2, <1>3, AhoraSera, Manejador
<1>5. RenglonPropio' /\ VuelveOcupada' /\ SinMezcla' /\ Preparada' /\ ManejadorListo'
  BY <1>1, <1>2, <1>4 DEF IInv, RenglonPropio, VuelveOcupada, SinMezcla, Preparada, ManejadorListo
<1>6. EnOrden' /\ Cuenta' /\ UltimaFila'
  BY <1>1, <1>2, TablaManejador DEF EnOrden, Cuenta, UltimaFila
<1> QED
  BY <1>3, <1>5, <1>6 DEF IInv

\* What the display, the card and the keys do takes no routine further.
LEMMA Dispositivos ==
  ASSUME IInv, LcdTermina \/ SimTermina \/ SimPasa \/ Presiona \/ Suelta
  PROVE  IInv'
<1>1. TypeOK /\ Funciones /\ (enIrq' <=> enIrq)
      /\ UNCHANGED <<pos, paso, reg, dato, mostrada, obra, sc_dw, resta>>
  BY DEF IInv, LcdTermina, SimTermina, SimPasa, Presiona, Suelta, cpu, panel, tarjeta, teclado
<1>2. TypeOK'
  <2>1. /\ enIrq' \in BOOLEAN /\ ie' \in BOOLEAN /\ ip' \in BOOLEAN
    BY <1>1 DEF TypeOK, LcdTermina, SimTermina, SimPasa, Presiona, Suelta, cpu
  <2>2. lcd' \in {"inicia", "lista", "ocupada"}
    BY <1>1 DEF TypeOK, LcdTermina, SimTermina, SimPasa, Presiona, Suelta, panel
  <2>3. sim' \in {"apagada", "leyendo", "hecha", "pasada"}
    BY <1>1 DEF TypeOK, LcdTermina, SimTermina, SimPasa, Presiona, Suelta, tarjeta
  <2>4. pulso' \in {"no", "nuevo", "viejo"} /\ teclas' \in 0..Teclas
    BY <1>1, FirmwareAssumption
       DEF TypeOK, LcdTermina, SimTermina, SimPasa, Presiona, Suelta, teclado
  <2> QED
    BY <1>1, <2>1, <2>2, <2>3, <2>4 DEF TypeOK
<1>3. Corre' = Corre /\ Ahora' = Ahora
  BY <1>1 DEF Corre, Ahora
<1>4. lcd' = lcd \/ (lcd' = "lista" /\ Ahora.op \in {"espera", "sondeo", "fin"})
  BY DEF LcdTermina, SimTermina, SimPasa, Presiona, Suelta, panel, Sondea
<1>5. teclas' = 0 => teclas = 0 /\ (ip' <=> ip) /\ (pulso' = pulso \/ pulso' = "no")
  BY <1>1 DEF TypeOK, LcdTermina, SimTermina, SimPasa, Presiona, Suelta, cpu, teclado
<1>6. Funciones' /\ ManejadorListo' /\ SinMezcla' /\ UltimaFila'
  BY <1>1 DEF IInv, Funciones, ManejadorListo, SinMezcla, UltimaFila
<1>7. RenglonPropio' /\ VuelveOcupada' /\ Preparada'
  BY <1>1, <1>3, <1>4, <1>5 DEF IInv, RenglonPropio, VuelveOcupada, Preparada, SinInterrumpir
<1>8. EnOrden' /\ Cuenta'
  BY <1>1, <1>5 DEF IInv, EnOrden, Cuenta, SinInterrumpir
<1> QED
  BY <1>2, <1>6, <1>7, <1>8 DEF IInv

\* Neither does time that passes: main polls again, or nothing happens at all.
LEMMA Quieto ==
  ASSUME IInv, resta' \in 0..Renglones,
         UNCHANGED <<enIrq, ie, ip, pos, paso, reg, lcd, dato, mostrada, obra, sim, sc_dw, pulso, teclas>>
  PROVE  IInv'
<1>1. Corre' = Corre /\ Ahora' = Ahora
  BY DEF Corre, Ahora
<1>2. TypeOK' /\ Funciones'
  BY DEF IInv, TypeOK, Funciones
<1>3. RenglonPropio' /\ VuelveOcupada' /\ SinMezcla' /\ Preparada' /\ EnOrden'
  BY <1>1 DEF IInv, RenglonPropio, VuelveOcupada, SinMezcla, Preparada, EnOrden, SinInterrumpir
<1>4. ManejadorListo' /\ Cuenta' /\ UltimaFila'
  BY DEF IInv, ManejadorListo, Cuenta, UltimaFila
<1> QED
  BY <1>2, <1>3, <1>4 DEF IInv

-----------------------------------------------------------------------------
\* The invariant holds when the machine starts.
LEMMA Inicial == Init => IInv
<1> SUFFICES ASSUME Init
             PROVE  IInv
  OBVIOUS
<1>1. /\ pos["main"] = 1 /\ pos["irq"] = 1 /\ paso["main"] = 0 /\ paso["irq"] = 0 /\ ~enIrq
      /\ lcd = "inicia" /\ obra = <<>> /\ ~ip /\ pulso = "no"
  BY DEF Init, Contextos
<1>2. TypeOK
  <2>0. enIrq \in BOOLEAN /\ ie \in BOOLEAN /\ ip \in BOOLEAN
    BY DEF Init
  <2>1. /\ lcd \in {"inicia", "lista", "ocupada"} /\ pulso \in {"no", "nuevo", "viejo"}
        /\ sim \in {"apagada", "leyendo", "hecha", "pasada"} /\ sc_dw \in 0..3
    BY DEF Init
  <2>2. paso \in [Contextos -> 0..Palabras + 1] /\ teclas \in 0..Teclas /\ resta \in 0..Renglones
    BY FirmwareAssumption DEF Init
  <2> QED
    BY <1>1, <2>0, <2>1, <2>2, Manejador, Principal DEF TypeOK
<1>3. Funciones
  BY DEF Init, Funciones, Blanco
<1>4. SinMezcla
  BY DEF Init, SinMezcla
<1>5. Ahora.op = "irq"
  BY <1>1, <1>2, AhoraEs, Principal
<1>6. RenglonPropio /\ VuelveOcupada /\ ManejadorListo /\ Preparada
  BY <1>1, <1>5 DEF RenglonPropio, VuelveOcupada, ManejadorListo, Preparada
<1>7. EnOrden /\ Cuenta /\ UltimaFila
  BY <1>1, TablaMain DEF EnOrden, Cuenta, UltimaFila
<1> QED
  BY <1>2, <1>3, <1>4, <1>6, <1>7 DEF IInv

\* Every step keeps it: the cases are the actions of Next.
LEMMA UnPaso == IInv /\ [Next]_vars => IInv'
<1> SUFFICES ASSUME IInv, [Next]_vars
             PROVE  IInv'
  OBVIOUS
<1>0. TypeOK
  BY DEF IInv
<1>1. ASSUME NEW c \in Contextos, Paso(c)
      PROVE  IInv'
  <2>0. c = Corre
    BY <1>1 DEF Paso
  <2>1. CASE HabilitaIrq(c)
    BY <1>0, <2>0, <2>1, SinPanel DEF TypeOK, HabilitaIrq, panel, tarjeta, teclado
  <2>2. CASE EsperaLista(c)
    BY <1>0, <2>0, <2>2, SinPanel DEF TypeOK, EsperaLista, panel, tarjeta, teclado
  <2>3. CASE EmpiezaFila(c)
    BY <2>0, <2>3, Empieza
  <2>4. CASE EscribeDato(c)
    BY <2>0, <2>4, Escribe
  <2>5. CASE OrdenaFila(c)
    <3>1. resta' \in 0..Renglones
      BY <1>0, <2>5, FirmwareAssumption DEF TypeOK, OrdenaFila
    <3> QED
      BY <1>0, <2>0, <2>5, <3>1, UnaOrden DEF TypeOK, OrdenaFila, tarjeta
  <2>6. CASE OrdenaChr(c)
    BY <1>0, <2>0, <2>6, UnaOrden DEF TypeOK, OrdenaChr, tarjeta
  <2>7. CASE EscribeSim(c)
    <3>1. resta' \in 0..Renglones
      BY <1>0, <2>7, FirmwareAssumption DEF TypeOK, EscribeSim
    <3> QED
      BY <1>0, <2>0, <2>7, <3>1, SinPanel DEF TypeOK, EscribeSim, panel, teclado
  <2>8. CASE Sondeo(c)
    <3>1. resta' \in 0..Renglones
      BY <1>0, <2>8, FirmwareAssumption DEF TypeOK, Sondeo
    <3>2. CASE sim = "hecha"
      BY <1>0, <2>0, <2>8, <3>1, <3>2, SinPanel DEF TypeOK, Sondeo, panel, teclado
    <3>3. CASE sim # "hecha"
      BY <2>8, <3>1, <3>3, Quieto DEF Sondeo, panel, teclado
    <3> QED
      BY <3>2, <3>3
  <2> QED
    BY <1>1, <2>1, <2>2, <2>3, <2>4, <2>5, <2>6, <2>7, <2>8 DEF Paso
<1>2. CASE Vuelve
  BY <1>2, Volver
<1>3. CASE Interrumpe
  BY <1>3, Interrumpir
<1>4. CASE LcdTermina \/ SimTermina \/ SimPasa \/ Presiona \/ Suelta
  BY <1>4, Dispositivos
<1>5. CASE UNCHANGED vars
  BY <1>0, <1>5, Quieto DEF TypeOK, vars, cpu, panel, tarjeta, teclado
<1> QED
  BY <1>1, <1>2, <1>3, <1>4, <1>5 DEF Next, Cpu

\* IInv holds in every behaviour: the strengthening on which the two theorems
\* below rest (main.c:3-50, soc-hw.c:51-66).
THEOREM SiempreIInv == Spec => []IInv
BY Inicial, UnPaso, PTL DEF Spec

\* The display never shows a row made of the words of two rows, although the
\* handler may run between any two writes of main (SinMezcla).
THEOREM SiempreSinMezcla == Spec => []SinMezcla
BY SiempreIInv, PTL DEF IInv

\* At the ends of the routines it says what FilasCompletas says.
LEMMA Completas == IInv => FilasCompletas
<1> SUFFICES ASSUME IInv
             PROVE  FilasCompletas
  OBVIOUS
<1>1. TypeOK
  BY DEF IInv
<1>2. obra \in Seq({"wr", "chr"})
  BY DEF IInv, Funciones
<1>3. CuatroFilas \in Seq({"wr", "chr"}) /\ Len(CuatroFilas) = 7
      /\ \A i \in 1..7 : CuatroFilas[i] = Orden[i]
  BY OrdenEs DEF CuatroFilas
<1>4. Orden \in Seq({"wr", "chr"}) /\ Len(Orden) = 8
  <2>1. <<"chr">> \in Seq({"wr", "chr"}) /\ Len(<<"chr">>) = 1
    OBVIOUS
  <2>2. /\ CuatroFilas \o <<"chr">> \in Seq({"wr", "chr"})
        /\ Len(CuatroFilas \o <<"chr">>) = Len(CuatroFilas) + Len(<<"chr">>)
    BY <1>3, <2>1, ConcatProperties, Zenon
  <2>3. Len(CuatroFilas) + Len(<<"chr">>) = 8
    BY <1>3, <2>1
  <2> QED
    BY <2>2, <2>3, Zenon DEF Orden
<1>5. ASSUME enIrq, Ahora.op = "vuelve"
      PROVE  obra = CuatroFilas /\ mostrada[1] = <<"irq", 3>>
  <2>1. pos["irq"] = 19
    BY <1>1, <1>5, AhoraEs, Manejador
  <2>2. Len(obra) = 7 /\ mostrada[1] = <<"irq", 3>> /\ \A i \in 1..7 : obra[i] = Orden[i]
    <3>1. Len(obra) = 7
      BY <1>5, <2>1, TablaManejador DEF IInv, Cuenta
    <3>2. mostrada[1] = <<"irq", 3>> /\ \A i \in 1..Len(obra) : obra[i] = Orden[i]
      BY <1>5, <2>1 DEF IInv, UltimaFila, EnOrden, SinInterrumpir
    <3> QED
      BY <3>1, <3>2
  <2> QED
    BY <1>2, <1>3, <2>2
<1>6. ASSUME teclas = 0, pos["main"] >= Len(PMain) - 2
      PROVE  obra = Orden
  <2>1. pos["main"] \in 18..20
    <3>1. pos["main"] \in 1..20
      BY <1>1, Principal DEF TypeOK
    <3> QED
      BY <1>6, <3>1, Principal
  <2>2. Len(obra) = 8 /\ \A i \in 1..8 : obra[i] = Orden[i]
    BY <1>6, <2>1, TablaMain DEF IInv, Cuenta, EnOrden, SinInterrumpir
  <2> QED
    BY <1>2, <1>4, <2>2
<1> QED
  BY <1>1, <1>5, <1>6 DEF FilasCompletas, ManejadorCompleto, MainCompleto, Orden

\* When the handler returns its four rows have been shown, and so have main's
\* if no key is pressed: no order is lost (FilasCompletas).
THEOREM SiempreCompletas == Spec => []FilasCompletas
BY SiempreIInv, Completas, PTL
=============================================================================
