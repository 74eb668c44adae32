---------------------------- MODULE HwTest_proofs -----------------------------
(***************************************************************************)
(* Proofs about hw-test, for every period of the timer, length of its      *)
(* loops, width of its numbers and pace of the processor, if a tick is     *)
(* long enough for the handler of the one before (RitmoAssumption).        *)
(***************************************************************************)
EXTENDS HwTest, SequenceTheorems, TLAPS

(* Places of the program: those behind the start, the timer test, each of  *)
(* the three numbers and the lights.                                       *)
N0 == 12 + 8 * VECES
ND == TW \div DIGITO
N1 == N0 + 2 * ND + 2
N2 == N1 + 2 * ND + 2
N3 == N2 + 2 * TW + 2
NF == N3 + 5 * LEDS

P == FCPU \div SEG_TIC
D == FCPU \div SEG_MS
T == RETRASO + 1

Mide == Reg("compare", 1, D)
Pone == Reg("counter", 1, 0)
Echa == Reg("tcr", 1, TIMER_EN)

\* What main has set up, place by place; the tick runs from the eighth on and
\* may interrupt from the eleventh on.
Puesta ==
  /\ mi > 3 => \A l \in Lineas : isr_table[l] # "nada"
  /\ mi > 8 => isr_table[1] = "tic_isr"
  /\ isr_table[0] # "tic_isr"
  /\ im = IF mi <= 9 THEN {} ELSE {TIC}
  /\ ie <=> mi > 10 /\ hpc = "no"
  /\ mi <= 10 => /\ hpc = "no" /\ TIC \notin ip /\ ~trig[0]
                 /\ ticks = 0 /\ tic_msec = 0
  /\ mi > 5 => compare[0] = P
  /\ mi <= 7 => ~en[0] /\ ~ar[0]
  /\ mi = 7 => counter[0] = 0
  /\ mi > 7 => en[0] /\ ar[0] /\ counter[0] <= P
  /\ mi \in 8..10 => counter[0] - quieto <= (mi - 8) * T

\* How long after the match a place of the handler may be entered.
Cota == CASE hpc = "no" -> 0
          [] hpc = "irq_handler" /\ 0 \in pend -> T
          [] hpc = "irq_handler" /\ 0 \notin pend /\ TIC \in pend -> 2 * T
          [] hpc = "tic_isr" -> 3 * T
          [] hpc = "rearma" -> 4 * T
          [] hpc = "irq_handler" /\ pend = {} -> 5 * T
          [] hpc = "eret" -> 6 * T

\* The handler is at work on the tick, or behind it.
Antes_de_rearmar == TIC \in pend \/ hpc \in {"tic_isr", "rearma"}

Manejador ==
  /\ hpc = "no" =>
       IF trig[0] THEN counter[0] - quieto <= 2 /\ (TIC \notin ip => counter[0] = 1)
       ELSE TIC \notin ip
  /\ hpc # "no" => /\ counter[0] - quieto <= 2 + Cota
                   /\ trig[0] <=> Antes_de_rearmar
  /\ hpc = "irq_handler" /\ pend # {} => TIC \in pend
  /\ hpc # "irq_handler" => pend = {}

Cuenta == IF trig[0] /\ hpc # "rearma" THEN Suma(tic_msec, TOPE) = ticks
          ELSE tic_msec = ticks

\* main is to write register r of msleep's counter.
Escribira(r) == Ahora.op = "bus" /\ Ahora.a.reg = r /\ Ahora.a.t = 1

\* msleep's counter, from the store of its period to the poll that ends it.
Espera_msleep ==
  /\ ~ar[1] /\ t1 \in 0..MOD
  /\ Escribira("counter") \/ Escribira("tcr") \/ Ahora.op = "sondeo" => compare[1] = D
  /\ Escribira("tcr") => counter[1] = 0
  /\ Ahora.op # "sondeo" => ~en[1]
  /\ Ahora.op = "sondeo" =>
       IF trig[1] THEN ~en[1] /\ t1 > D
       ELSE en[1] /\ counter[1] = t1 /\ t1 <= D

\* How long ago it ended: the handler may have come between once.
Tarde == t1 - (D + 1) - quieto
Margen ==
  Ahora.op = "sondeo" /\ trig[1] =>
    IF hpc = "no"
    THEN \/ Tarde <= 0
         \/ Tarde <= 7 * T /\ counter[0] - quieto <= 2 + 7 * T /\ ~trig[0]
    ELSE Tarde <= Cota

Transmisor == /\ Ahora.op = "rxtx" => tx_busy = 0 /\ ~tx_wr
              /\ tx_wr => quieto = 0

\* What has been written of the number that main is at.
Numero ==
  /\ \A b \in {N0 + 1, N1 + 1} :
       mi \in b + 1..b + 1 + 2 * ND =>
         salida = [d \in 1..(mi - b - 1) \div 2 |-> Digito(val, d)]
  /\ mi \in N2 + 2..N2 + 2 + 2 * TW =>
       salida = [d \in 1..(mi - N2 - 2) \div 2 |-> Bit(val, d)]

IInv == /\ TypeOK /\ Puesta /\ Manejador /\ Cuenta
        /\ Espera_msleep /\ Margen /\ Transmisor /\ Numero
-----------------------------------------------------------------------------
(* The constants. *)

LEMMA Numeros_de_la_placa ==
  /\ {VECES, LEDS, TXC, RETRASO, TW, DIGITO, TOPE, MOD} \subseteq Nat \ {0}
  /\ ND \in Nat \ {0} /\ ND <= TW
  /\ P \in Nat /\ P < MOD /\ D \in Nat /\ D < MOD
  /\ T \in Nat /\ T = RETRASO + 1 /\ P >= 8 * T + 2 /\ MARGEN = 8 * T + 2
<1>1. /\ {VECES, LEDS, TXC, RETRASO, TW, DIGITO, TOPE, MOD} \subseteq Nat \ {0}
      /\ {FCPU, SEG_TIC, SEG_MS} \subseteq Nat \ {0}
  BY HwTestAssumption, WbTimerAssumption
<1>2. ND \in Nat /\ ND <= TW /\ ND > 0
  <2>1. TW \in Nat \ {0} /\ DIGITO \in Nat \ {0} /\ TW % DIGITO = 0
    BY HwTestAssumption
  <2>2. TW \div DIGITO \in Nat
    BY <2>1
  <2>3. TW \div DIGITO <= TW
    BY <2>1
  <2>4. TW \div DIGITO > 0
    BY <2>1
  <2> QED
    BY <2>2, <2>3, <2>4 DEF ND
<1>3. P \in Nat /\ D \in Nat
  <2>1. FCPU \div SEG_TIC \in Nat
    BY <1>1
  <2>2. FCPU \div SEG_MS \in Nat
    BY <1>1
  <2> QED
    BY <2>1, <2>2 DEF P, D
<1>4. P < MOD /\ D < MOD
  BY HwTestAssumption DEF P, D
<1>5. T \in Nat /\ T = RETRASO + 1 /\ P >= 8 * T + 2 /\ MARGEN = 8 * T + 2
  BY <1>1, <1>3, RitmoAssumption DEF P, T, MARGEN
<1> QED
  BY <1>1, <1>2, <1>3, <1>4, <1>5

LEMMA Duracion1 == Duracion(1) = D
<1>1. D * 1 = D
  BY Numeros_de_la_placa
<1>2. D % MOD = D
  BY Numeros_de_la_placa
<1> QED
  BY <1>1, <1>2 DEF Duracion, D
-----------------------------------------------------------------------------
(* The program, place by place. *)

\* s is a sequence of n elements.
EsLista(s, n) == n \in Nat /\ s = [i \in 1..n |-> s[i]]

LEMMA Largo == ASSUME NEW s, NEW n, EsLista(s, n) PROVE Len(s) = n
<1>1. n \in Nat /\ Len([i \in 1..n |-> s[i]]) = n
  BY DEF EsLista
<1> QED
  BY <1>1 DEF EsLista

LEMMA Lista == ASSUME NEW s, NEW n \in Nat, s = [i \in 1..n |-> s[i]] PROVE EsLista(s, n)
  BY DEF EsLista

\* u is s and t, one behind the other, r elements in all.
Pegadas(u, s, t, n, m, r) == /\ EsLista(u, r)
                             /\ \A i \in 1..n : u[i] = s[i]
                             /\ \A i \in n + 1..r : u[i] = t[i - n]

LEMMA Pega ==
  ASSUME NEW s, NEW t, NEW n, NEW m, NEW r, EsLista(s, n), EsLista(t, m), r = n + m
  PROVE  Pegadas(s \o t, s, t, n, m, r)
<1> DEFINE S == {s[i] : i \in 1..n} \cup {t[i] : i \in 1..m}
<1>0. n \in Nat /\ m \in Nat /\ r \in Nat
  BY DEF EsLista
<1>1. s \in Seq(S) /\ Len(s) = n
  <2>1. [i \in 1..n |-> s[i]] \in Seq(S)
    <3>1. \A i \in 1..n : s[i] \in S
      OBVIOUS
    <3> QED
      BY <1>0, <3>1, IsASeq
  <2> QED
    BY <2>1, Largo DEF EsLista
<1>2. t \in Seq(S) /\ Len(t) = m
  <2>1. [i \in 1..m |-> t[i]] \in Seq(S)
    <3>1. \A i \in 1..m : t[i] \in S
      OBVIOUS
    <3> QED
      BY <1>0, <3>1, IsASeq
  <2> QED
    BY <2>1, Largo DEF EsLista
<1> HIDE DEF S
<1>3. /\ s \o t \in Seq(S) /\ Len(s \o t) = r
      /\ \A i \in 1..n : (s \o t)[i] = s[i]
      /\ \A i \in n + 1..r : (s \o t)[i] = t[i - n]
  <2>1. /\ s \o t \in Seq(S) /\ Len(s \o t) = n + m
        /\ \A i \in 1..n + m : (s \o t)[i] = IF i <= n THEN s[i] ELSE t[i - n]
    BY <1>1, <1>2, ConcatProperties
  <2> QED
    BY <1>0, <2>1
<1>4. s \o t = [i \in 1..r |-> (s \o t)[i]]
  BY <1>3, LenProperties
<1>5. EsLista(s \o t, r)
  BY <1>0, <1>4, Lista
<1> QED
  BY <1>3, <1>5, Zenon DEF Pegadas

\* n sequences of k elements, one behind another.
LEMMA Juntas ==
  ASSUME NEW n \in Nat \ {0}, NEW k \in Nat \ {0}, NEW s, EsLista(s, n), Len(s[1]) = k,
         NEW m \in Nat, m = n * k
  PROVE  EsLista(Junta(s), m)
<1>1. Len(s) = n
  BY Largo
<1>2. Junta(s) = [i \in 1..m |-> s[1 + (i - 1) \div k][1 + ((i - 1) % k)]]
  BY <1>1 DEF Junta
<1> QED
  BY <1>2 DEF EsLista

LEMMA Elemento ==
  ASSUME NEW n \in Nat \ {0}, NEW k \in Nat \ {0}, NEW s, EsLista(s, n), Len(s[1]) = k,
         NEW m \in Nat, m = n * k, NEW i \in 1..m
  PROVE  Junta(s)[i] = s[1 + (i - 1) \div k][1 + ((i - 1) % k)]
<1>1. Len(s) = n
  BY Largo
<1> QED
  BY <1>1 DEF Junta

LEMMA JuntaPares ==
  ASSUME NEW n \in Nat \ {0}, NEW s, EsLista(s, n), Len(s[1]) = 2
  PROVE  /\ EsLista(Junta(s), 2 * n)
         /\ \A i \in 1..2 * n : Junta(s)[i] = s[1 + (i - 1) \div 2][1 + ((i - 1) % 2)]
<1> DEFINE k == 2 m == 2 * n
<1>1. k \in Nat \ {0} /\ m \in Nat /\ m = n * k /\ Len(s[1]) = k
  OBVIOUS
<1> HIDE DEF k, m
<1>2. EsLista(Junta(s), m)
  BY <1>1, Juntas
<1>3. ASSUME NEW i \in 1..m
      PROVE  Junta(s)[i] = s[1 + (i - 1) \div k][1 + ((i - 1) % k)]
  BY <1>1, Elemento
<1> QED
  BY <1>2, <1>3 DEF k, m

\* A character on its way, letra or digit: two places.
LEMMA Caracteres ==
  ASSUME NEW n \in Nat \ {0}, NEW s, NEW f,
         s = [x \in 1..n |-> uart_putchar(f[x])]
  PROVE  /\ EsLista(Junta(s), 2 * n)
         /\ \A i \in 1..2 * n : Junta(s)[i] = IF i % 2 = 1 THEN Op("ucr", 0)
                                              ELSE Op("rxtx", f[i \div 2])
<1>1. EsLista(s, n) /\ Len(s[1]) = 2
  BY DEF EsLista, uart_putchar
<1>2. /\ EsLista(Junta(s), 2 * n)
      /\ \A i \in 1..2 * n : Junta(s)[i] = s[1 + (i - 1) \div 2][1 + ((i - 1) % 2)]
  BY <1>1, JuntaPares
<1>3. ASSUME NEW i \in 1..2 * n
      PROVE  Junta(s)[i] = IF i % 2 = 1 THEN Op("ucr", 0) ELSE Op("rxtx", f[i \div 2])
  <2>1. 1 + (i - 1) \div 2 \in 1..n
    OBVIOUS
  <2>2. Junta(s)[i] = uart_putchar(f[1 + (i - 1) \div 2])[1 + ((i - 1) % 2)]
    BY <1>2, <2>1
  <2>3. CASE i % 2 = 1
    <3>1. 1 + ((i - 1) % 2) = 1
      BY <2>3
    <3>2. Junta(s)[i] = uart_putchar(f[1 + (i - 1) \div 2])[1]
      BY <2>2, <3>1
    <3>3. Junta(s)[i] = Op("ucr", 0)
      BY <3>2 DEF uart_putchar
    <3> QED
      BY <2>3, <3>3
  <2>4. CASE i % 2 = 0
    <3>1. 1 + ((i - 1) % 2) = 2 /\ 1 + (i - 1) \div 2 = i \div 2
      BY <2>4
    <3>2. Junta(s)[i] = uart_putchar(f[i \div 2])[2]
      BY <2>2, <3>1
    <3>3. Junta(s)[i] = Op("rxtx", f[i \div 2])
      BY <3>2 DEF uart_putchar
    <3> QED
      BY <2>4, <3>3
  <2> QED
    BY <2>3, <2>4
<1> QED
  BY <1>2, <1>3

LEMMA Letras ==
  ASSUME NEW n \in Nat \ {0}
  PROVE  /\ EsLista(uart_putstr(n), 2 * n)
         /\ \A i \in 1..2 * n : uart_putstr(n)[i] = IF i % 2 = 1 THEN Op("ucr", 0)
                                                   ELSE Op("rxtx", <<"letra", 0>>)
<1> DEFINE f == [x \in 1..n |-> <<"letra", 0>>]
           s == [x \in 1..n |-> uart_putchar(<<"letra", 0>>)]
<1>1. s = [x \in 1..n |-> uart_putchar(f[x])]
  OBVIOUS
<1>2. \A i \in 1..2 * n : i % 2 # 1 => f[i \div 2] = <<"letra", 0>>
  <2> SUFFICES ASSUME NEW i \in 1..2 * n, i % 2 # 1 PROVE f[i \div 2] = <<"letra", 0>>
    OBVIOUS
  <2>1. i \div 2 \in 1..n
    OBVIOUS
  <2> QED
    BY <2>1
<1>3. uart_putstr(n) = Junta(s)
  BY DEF uart_putstr
<1> HIDE DEF f, s
<1>4. /\ EsLista(Junta(s), 2 * n)
      /\ \A i \in 1..2 * n : Junta(s)[i] = IF i % 2 = 1 THEN Op("ucr", 0)
                                           ELSE Op("rxtx", f[i \div 2])
  BY <1>1, Caracteres
<1> QED
  BY <1>2, <1>3, <1>4

LEMMA Siesta ==
  /\ EsLista(msleep(1), 4)
  /\ msleep(1)[1] = Mide /\ msleep(1)[2] = Pone /\ msleep(1)[3] = Echa
  /\ msleep(1)[4] = Op("sondeo", 1)
<1>1. msleep(1) = <<Mide, Pone, Echa, Op("sondeo", 1)>>
  BY Duracion1 DEF msleep, Mide, Pone, Echa
<1> HIDE DEF Mide, Pone, Echa, Op
<1> QED
  BY <1>1 DEF EsLista

LEMMA PruebaEs ==
  /\ EsLista(Prueba, 8)
  /\ \A i \in 1..4 : Prueba[i] = IF i % 2 = 1 THEN Op("ucr", 0)
                                 ELSE Op("rxtx", <<"letra", 0>>)
  /\ Prueba[5] = Mide /\ Prueba[6] = Pone /\ Prueba[7] = Echa
  /\ Prueba[8] = Op("sondeo", 1)
<1>1. /\ EsLista(uart_putstr(2), 4)
      /\ \A i \in 1..4 : uart_putstr(2)[i] = IF i % 2 = 1 THEN Op("ucr", 0)
                                             ELSE Op("rxtx", <<"letra", 0>>)
  <2> DEFINE n == 2
  <2>1. n \in Nat \ {0} /\ 2 * n = 4
    OBVIOUS
  <2> HIDE DEF n
  <2>2. /\ EsLista(uart_putstr(n), 2 * n)
        /\ \A i \in 1..2 * n : uart_putstr(n)[i] = IF i % 2 = 1 THEN Op("ucr", 0)
                                                   ELSE Op("rxtx", <<"letra", 0>>)
    BY <2>1, Letras
  <2>3. /\ EsLista(uart_putstr(n), 4)
        /\ \A i \in 1..4 : uart_putstr(n)[i] = IF i % 2 = 1 THEN Op("ucr", 0)
                                               ELSE Op("rxtx", <<"letra", 0>>)
    BY <2>1, <2>2
  <2> QED
    BY <2>3 DEF n
<1>2. 8 = 4 + 4
  OBVIOUS
<1>3. Pegadas(Prueba, uart_putstr(2), msleep(1), 4, 4, 8)
  BY <1>1, <1>2, Siesta, Pega, Zenon DEF Prueba
<1> QED
  BY <1>1, <1>3, Siesta DEF Pegadas

LEMMA Letra ==
  /\ EsLista(uart_putstr(1), 2)
  /\ uart_putstr(1)[1] = Op("ucr", 0) /\ uart_putstr(1)[2] = Op("rxtx", <<"letra", 0>>)
<1> DEFINE n == 1
<1>1. n \in Nat \ {0} /\ 2 * n = 2
  OBVIOUS
<1> HIDE DEF n
<1>2. /\ EsLista(uart_putstr(n), 2 * n)
      /\ \A i \in 1..2 * n : uart_putstr(n)[i] = IF i % 2 = 1 THEN Op("ucr", 0)
                                                 ELSE Op("rxtx", <<"letra", 0>>)
  BY <1>1, Letras
<1>3. /\ EsLista(uart_putstr(n), 2) /\ uart_putstr(n)[1] = Op("ucr", 0)
      /\ uart_putstr(n)[2] = Op("rxtx", <<"letra", 0>>)
  BY <1>1, <1>2
<1> QED
  BY <1>3 DEF n

LEMMA AntesEs ==
  /\ EsLista(Antes, 12)
  /\ Antes[1] = Op("ucr", 0) /\ Antes[2] = Op("rxtx", <<"letra", 0>>)
  /\ Antes[3] = Op("isr_init", 0) /\ Antes[4] = Op("tic_msec", 0)
  /\ Antes[5] = Reg("compare", 0, P) /\ Antes[6] = Reg("counter", 0, 0)
  /\ Antes[7] = Reg("tcr", 0, TIMER_EN_AR) /\ Antes[8] = Op("isr_register", 0)
  /\ Antes[9] = Op("irq_set_mask", {TIC}) /\ Antes[10] = Op("irq_enable", 0)
  /\ Antes[11] = Op("ucr", 0) /\ Antes[12] = Op("rxtx", <<"letra", 0>>)
<1> DEFINE s1 == uart_putstr(1)
           s3 == <<Op("irq_set_mask", {TIC}), Op("irq_enable", 0)>>
           u1 == s1 \o isr_init
           u2 == u1 \o tic_init
           u3 == u2 \o s3
<1>1. /\ EsLista(s1, 2) /\ EsLista(isr_init, 1) /\ EsLista(tic_init, 5) /\ EsLista(s3, 2)
      /\ isr_init[1] = Op("isr_init", 0)
      /\ tic_init[1] = Op("tic_msec", 0) /\ tic_init[2] = Reg("compare", 0, P)
      /\ tic_init[3] = Reg("counter", 0, 0) /\ tic_init[4] = Reg("tcr", 0, TIMER_EN_AR)
      /\ tic_init[5] = Op("isr_register", 0)
      /\ s3[1] = Op("irq_set_mask", {TIC}) /\ s3[2] = Op("irq_enable", 0)
  <2>1. tic_init = <<Op("tic_msec", 0), Reg("compare", 0, P), Reg("counter", 0, 0),
                     Reg("tcr", 0, TIMER_EN_AR), Op("isr_register", 0)>>
    BY DEF tic_init, P
  <2>2. isr_init = <<Op("isr_init", 0)>>
    BY DEF isr_init
  <2> HIDE DEF Op, Reg
  <2>3. EsLista(tic_init, 5) /\ EsLista(isr_init, 1) /\ EsLista(s3, 2)
    BY <2>1, <2>2 DEF EsLista
  <2> QED
    BY <2>1, <2>2, <2>3, Letra
<1>2. 3 = 2 + 1 /\ 8 = 3 + 5 /\ 10 = 8 + 2 /\ 12 = 10 + 2
  OBVIOUS
<1>3. Antes = u3 \o s1
  BY DEF Antes
<1>4. Pegadas(u1, s1, isr_init, 2, 1, 3)
  BY <1>1, <1>2, Pega, Zenon
<1>5. Pegadas(u2, u1, tic_init, 3, 5, 8)
  <2>1. EsLista(u1, 3)
    BY <1>4, Zenon DEF Pegadas
  <2> QED
    BY <1>1, <1>2, <2>1, Pega, Zenon
<1>6. Pegadas(u3, u2, s3, 8, 2, 10)
  <2>1. EsLista(u2, 8)
    BY <1>5, Zenon DEF Pegadas
  <2> QED
    BY <1>1, <1>2, <2>1, Pega, Zenon
<1>7. Pegadas(Antes, u3, s1, 10, 2, 12)
  <2>1. EsLista(u3, 10)
    BY <1>6, Zenon DEF Pegadas
  <2> QED
    BY <1>1, <1>2, <1>3, <2>1, Pega, Zenon
<1> HIDE DEF s1, s3, u1, u2, u3
<1>8. /\ \A i \in 1..2 : Antes[i] = s1[i]
      /\ Antes[3] = isr_init[1]
      /\ \A i \in 4..8 : Antes[i] = tic_init[i - 3]
      /\ Antes[9] = s3[1] /\ Antes[10] = s3[2]
      /\ Antes[11] = s1[1] /\ Antes[12] = s1[2]
  BY <1>4, <1>5, <1>6, <1>7 DEF Pegadas
<1>9. EsLista(Antes, 12)
  BY <1>7, Zenon DEF Pegadas
<1> QED
  BY <1>1, <1>8, <1>9, Letra DEF s1

\* The digits, or the bits, of a number.
LEMMA EnteroEs ==
  /\ EsLista(writeint, 2 * ND)
  /\ \A i \in 1..2 * ND : writeint[i] = IF i % 2 = 1 THEN Op("ucr", 0)
                                        ELSE Op("rxtx", <<"digito", i \div 2>>)
<1> DEFINE f == [d \in 1..ND |-> <<"digito", d>>]
           s == [d \in 1..ND |-> uart_putchar(<<"digito", d>>)]
<1>1. s = [x \in 1..ND |-> uart_putchar(f[x])]
  OBVIOUS
<1>2. \A i \in 1..2 * ND : i % 2 # 1 => f[i \div 2] = <<"digito", i \div 2>>
  <2> SUFFICES ASSUME NEW i \in 1..2 * ND, i % 2 # 1 PROVE f[i \div 2] = <<"digito", i \div 2>>
    OBVIOUS
  <2>1. i \div 2 \in 1..ND
    BY Numeros_de_la_placa
  <2> QED
    BY <2>1
<1>3. writeint = Junta(s)
  BY DEF writeint, ND
<1> HIDE DEF f, s
<1>4. ND \in Nat \ {0}
  BY Numeros_de_la_placa
<1>5. /\ EsLista(Junta(s), 2 * ND)
      /\ \A i \in 1..2 * ND : Junta(s)[i] = IF i % 2 = 1 THEN Op("ucr", 0)
                                            ELSE Op("rxtx", f[i \div 2])
  BY <1>1, <1>4, Caracteres
<1> QED
  BY <1>2, <1>3, <1>5

LEMMA DesplazaEs ==
  /\ EsLista(Desplaza, 2 * TW)
  /\ \A i \in 1..2 * TW : Desplaza[i] = IF i % 2 = 1 THEN Op("ucr", 0)
                                        ELSE Op("rxtx", <<"bit", i \div 2>>)
<1> DEFINE f == [d \in 1..TW |-> <<"bit", d>>]
           s == [d \in 1..TW |-> uart_putchar(<<"bit", d>>)]
<1>1. s = [x \in 1..TW |-> uart_putchar(f[x])]
  OBVIOUS
<1>2. \A i \in 1..2 * TW : i % 2 # 1 => f[i \div 2] = <<"bit", i \div 2>>
  <2> SUFFICES ASSUME NEW i \in 1..2 * TW, i % 2 # 1 PROVE f[i \div 2] = <<"bit", i \div 2>>
    OBVIOUS
  <2>1. i \div 2 \in 1..TW
    BY Numeros_de_la_placa
  <2> QED
    BY <2>1
<1>3. Desplaza = Junta(s)
  BY DEF Desplaza
<1> HIDE DEF f, s
<1>4. TW \in Nat \ {0}
  BY Numeros_de_la_placa
<1>5. /\ EsLista(Junta(s), 2 * TW)
      /\ \A i \in 1..2 * TW : Junta(s)[i] = IF i % 2 = 1 THEN Op("ucr", 0)
                                            ELSE Op("rxtx", f[i \div 2])
  BY <1>1, <1>4, Caracteres
<1> QED
  BY <1>2, <1>3, <1>5

LEMMA NumerosEs ==
  /\ EsLista(Numeros, 6 + 4 * ND + 2 * TW)
  /\ Numeros[1] = Op("lee", 0)
  /\ \A i \in 2..1 + 2 * ND : Numeros[i] = writeint[i - 1]
  /\ Numeros[2 + 2 * ND] = Op("escrito", "digitos")
  /\ Numeros[3 + 2 * ND] = Op("lee", 0)
  /\ \A i \in 4 + 2 * ND..3 + 4 * ND : Numeros[i] = writeint[i - (3 + 2 * ND)]
  /\ Numeros[4 + 4 * ND] = Op("escrito", "digitos")
  /\ Numeros[5 + 4 * ND] = Op("lee", "val")
  /\ \A i \in 6 + 4 * ND..5 + 4 * ND + 2 * TW : Numeros[i] = Desplaza[i - (5 + 4 * ND)]
  /\ Numeros[6 + 4 * ND + 2 * TW] = Op("escrito", "bits")
<1> DEFINE l == <<Op("lee", 0)>>
           lv == <<Op("lee", "val")>>
           e == <<Op("escrito", "digitos")>>
           eb == <<Op("escrito", "bits")>>
           u2 == l \o writeint
           u3 == u2 \o e
           u4 == u3 \o l
           u5 == u4 \o writeint
           u6 == u5 \o e
           u7 == u6 \o lv
           u8 == u7 \o Desplaza
<1>0. ND \in Nat /\ TW \in Nat
  BY Numeros_de_la_placa
<1>1. /\ EsLista(l, 1) /\ EsLista(lv, 1) /\ EsLista(e, 1) /\ EsLista(eb, 1)
      /\ l[1] = Op("lee", 0) /\ lv[1] = Op("lee", "val")
      /\ e[1] = Op("escrito", "digitos") /\ eb[1] = Op("escrito", "bits")
  <2> HIDE DEF Op
  <2> QED
    BY DEF EsLista
<1>2. /\ 1 + 2 * ND = 1 + 2 * ND /\ 2 + 2 * ND = (1 + 2 * ND) + 1
      /\ 3 + 2 * ND = (2 + 2 * ND) + 1 /\ 3 + 4 * ND = (3 + 2 * ND) + 2 * ND
      /\ 4 + 4 * ND = (3 + 4 * ND) + 1 /\ 5 + 4 * ND = (4 + 4 * ND) + 1
      /\ 5 + 4 * ND + 2 * TW = (5 + 4 * ND) + 2 * TW
      /\ 6 + 4 * ND + 2 * TW = (5 + 4 * ND + 2 * TW) + 1
  BY <1>0
<1>3. Numeros = u8 \o eb
  BY DEF Numeros
<1>4. Pegadas(u2, l, writeint, 1, 2 * ND, 1 + 2 * ND)
  BY <1>1, <1>2, EnteroEs, Pega, Zenon
<1>5. Pegadas(u3, u2, e, 1 + 2 * ND, 1, 2 + 2 * ND)
  <2>1. EsLista(u2, 1 + 2 * ND)
    BY <1>4, Zenon DEF Pegadas
  <2> QED
    BY <1>1, <1>2, <2>1, Pega, Zenon
<1>6. Pegadas(u4, u3, l, 2 + 2 * ND, 1, 3 + 2 * ND)
  <2>1. EsLista(u3, 2 + 2 * ND)
    BY <1>5, Zenon DEF Pegadas
  <2> QED
    BY <1>1, <1>2, <2>1, Pega, Zenon
<1>7. Pegadas(u5, u4, writeint, 3 + 2 * ND, 2 * ND, 3 + 4 * ND)
  <2>1. EsLista(u4, 3 + 2 * ND)
    BY <1>6, Zenon DEF Pegadas
  <2> QED
    BY <1>2, <2>1, EnteroEs, Pega, Zenon
<1>8. Pegadas(u6, u5, e, 3 + 4 * ND, 1, 4 + 4 * ND)
  <2>1. EsLista(u5, 3 + 4 * ND)
    BY <1>7, Zenon DEF Pegadas
  <2> QED
    BY <1>1, <1>2, <2>1, Pega, Zenon
<1>9. Pegadas(u7, u6, lv, 4 + 4 * ND, 1, 5 + 4 * ND)
  <2>1. EsLista(u6, 4 + 4 * ND)
    BY <1>8, Zenon DEF Pegadas
  <2> QED
    BY <1>1, <1>2, <2>1, Pega, Zenon
<1>10. Pegadas(u8, u7, Desplaza, 5 + 4 * ND, 2 * TW, 5 + 4 * ND + 2 * TW)
  <2>1. EsLista(u7, 5 + 4 * ND)
    BY <1>9, Zenon DEF Pegadas
  <2> QED
    BY <1>2, <2>1, DesplazaEs, Pega, Zenon
<1>11. Pegadas(Numeros, u8, eb, 5 + 4 * ND + 2 * TW, 1, 6 + 4 * ND + 2 * TW)
  <2>1. EsLista(u8, 5 + 4 * ND + 2 * TW)
    BY <1>10, Zenon DEF Pegadas
  <2> QED
    BY <1>1, <1>2, <1>3, <2>1, Pega, Zenon
<1> HIDE DEF l, lv, e, eb, u2, u3, u4, u5, u6, u7, u8
<1>12. \A i \in 1..1 + 2 * ND : Numeros[i] = u2[i]
  BY <1>0, <1>5, <1>6, <1>7, <1>8, <1>9, <1>10, <1>11 DEF Pegadas
<1>13. /\ Numeros[2 + 2 * ND] = e[1] /\ Numeros[3 + 2 * ND] = l[1]
       /\ \A i \in 4 + 2 * ND..3 + 4 * ND : Numeros[i] = writeint[i - (3 + 2 * ND)]
  BY <1>0, <1>5, <1>6, <1>7, <1>8, <1>9, <1>10, <1>11 DEF Pegadas
<1>14. /\ Numeros[4 + 4 * ND] = e[1] /\ Numeros[5 + 4 * ND] = lv[1]
       /\ \A i \in 6 + 4 * ND..5 + 4 * ND + 2 * TW : Numeros[i] = Desplaza[i - (5 + 4 * ND)]
       /\ Numeros[6 + 4 * ND + 2 * TW] = eb[1]
  <2>1. Numeros[4 + 4 * ND] = e[1]
    BY <1>0, <1>8, <1>9, <1>10, <1>11 DEF Pegadas
  <2>2. Numeros[5 + 4 * ND] = lv[1]
    BY <1>0, <1>9, <1>10, <1>11 DEF Pegadas
  <2>3. \A i \in 6 + 4 * ND..5 + 4 * ND + 2 * TW : Numeros[i] = Desplaza[i - (5 + 4 * ND)]
    BY <1>0, <1>10, <1>11 DEF Pegadas
  <2>4. Numeros[6 + 4 * ND + 2 * TW] = eb[1]
    BY <1>0, <1>11 DEF Pegadas
  <2> QED
    BY <2>1, <2>2, <2>3, <2>4
<1>15. Numeros[1] = l[1] /\ \A i \in 2..1 + 2 * ND : Numeros[i] = writeint[i - 1]
  BY <1>0, <1>4, <1>12 DEF Pegadas
<1>16. EsLista(Numeros, 6 + 4 * ND + 2 * TW)
  BY <1>11, Zenon DEF Pegadas
<1> QED
  BY <1>1, <1>13, <1>14, <1>15, <1>16

\* A turn of the lights: one lamp, and msleep.
LEMMA GpioEs ==
  /\ EsLista(Gpio, 5 * LEDS)
  /\ \A i \in 1..5 * LEDS :
       LET k == (i - 1) % 5
       IN /\ k = 0 => Gpio[i] = Op("gpio", (i - 1) \div 5)
          /\ k = 1 => Gpio[i] = Mide
          /\ k = 2 => Gpio[i] = Pone
          /\ k = 3 => Gpio[i] = Echa
          /\ k = 4 => Gpio[i] = Op("sondeo", 1)
<1> DEFINE g(x) == <<Op("gpio", x - 1)>> \o msleep(1)
           s == [x \in 1..LEDS |-> g(x)]
           k == 5
           m == 5 * LEDS
<1>1. ASSUME NEW x
      PROVE  /\ EsLista(g(x), 5) /\ g(x)[1] = Op("gpio", x - 1) /\ g(x)[2] = Mide
             /\ g(x)[3] = Pone /\ g(x)[4] = Echa /\ g(x)[5] = Op("sondeo", 1)
  <2> DEFINE h == <<Op("gpio", x - 1)>>
  <2>1. EsLista(h, 1) /\ h[1] = Op("gpio", x - 1)
    <3> HIDE DEF Op
    <3> QED
      BY DEF EsLista
  <2>2. 5 = 1 + 4
    OBVIOUS
  <2>3. Pegadas(g(x), h, msleep(1), 1, 4, 5)
    BY <2>1, <2>2, Siesta, Pega, Zenon
  <2> HIDE DEF g, h
  <2>4. EsLista(g(x), 5)
    BY <2>3, Zenon DEF Pegadas
  <2>5. /\ g(x)[1] = h[1] /\ g(x)[2] = msleep(1)[1] /\ g(x)[3] = msleep(1)[2]
        /\ g(x)[4] = msleep(1)[3] /\ g(x)[5] = msleep(1)[4]
    BY <2>3 DEF Pegadas
  <2> QED
    BY <2>1, <2>4, <2>5, Siesta
<1>2. Gpio = Junta(s)
  BY DEF Gpio
<1> HIDE DEF g
<1>3. LEDS \in Nat \ {0} /\ EsLista(s, LEDS)
  BY Numeros_de_la_placa DEF EsLista
<1>x. \A x \in 1..LEDS : s[x] = g(x)
  OBVIOUS
<1>4. k \in Nat \ {0} /\ m \in Nat /\ m = LEDS * k /\ Len(s[1]) = k
  <2>1. Len(g(1)) = 5
    BY <1>1, Largo, Zenon
  <2> QED
    BY <1>3, <1>x, <2>1
<1> HIDE DEF s, k, m
<1>5. EsLista(Gpio, m)
  BY <1>2, <1>3, <1>4, Juntas
<1>6. ASSUME NEW i \in 1..m PROVE Gpio[i] = s[1 + (i - 1) \div k][1 + ((i - 1) % k)]
  <2>1. Junta(s)[i] = s[1 + (i - 1) \div k][1 + ((i - 1) % k)]
    BY <1>3, <1>4, Elemento
  <2> QED
    BY <1>2, <2>1, Zenon
<1>7. ASSUME NEW i \in 1..5 * LEDS
      PROVE  Gpio[i] = g(1 + (i - 1) \div 5)[1 + ((i - 1) % 5)]
  <2>1. 1 + (i - 1) \div 5 \in 1..LEDS
    BY <1>3
  <2>2. Gpio[i] = s[1 + (i - 1) \div 5][1 + ((i - 1) % 5)]
    BY <1>6 DEF k, m
  <2> QED
    BY <1>x, <2>1, <2>2
<1>8. ASSUME NEW i \in 1..5 * LEDS
      PROVE  LET j == (i - 1) % 5
             IN /\ j = 0 => Gpio[i] = Op("gpio", (i - 1) \div 5)
                /\ j = 1 => Gpio[i] = Mide
                /\ j = 2 => Gpio[i] = Pone
                /\ j = 3 => Gpio[i] = Echa
                /\ j = 4 => Gpio[i] = Op("sondeo", 1)
  <2> DEFINE x == 1 + (i - 1) \div 5
             j == (i - 1) % 5
  <2>1. Gpio[i] = g(x)[1 + j]
    BY <1>7
  <2>2. x - 1 = (i - 1) \div 5
    OBVIOUS
  <2> HIDE DEF x, j
  <2>3. /\ j = 0 => Gpio[i] = g(x)[1]
        /\ j = 1 => Gpio[i] = g(x)[2]
        /\ j = 2 => Gpio[i] = g(x)[3]
        /\ j = 3 => Gpio[i] = g(x)[4]
        /\ j = 4 => Gpio[i] = g(x)[5]
    BY <2>1
  <2>4. /\ j = 0 => Gpio[i] = Op("gpio", (i - 1) \div 5)
        /\ j = 1 => Gpio[i] = Mide
        /\ j = 2 => Gpio[i] = Pone
        /\ j = 3 => Gpio[i] = Echa
        /\ j = 4 => Gpio[i] = Op("sondeo", 1)
    BY <1>1, <2>2, <2>3, Zenon
  <2> QED
    BY <2>4 DEF j
<1> QED
  BY <1>5, <1>8 DEF m

\* main, place by place.
LEMMA Plan ==
  /\ Len(Programa) = NF /\ Bucle = N3 + 1
  /\ \A i \in 1..12 : Programa[i] = Antes[i]
  /\ \A i \in 13..N0 : Programa[i] = Prueba[1 + ((i - 13) % 8)]
  /\ \A i \in N0 + 1..N3 : Programa[i] = Numeros[i - N0]
  /\ \A i \in N3 + 1..NF : Programa[i] = Gpio[i - N3]
<1> DEFINE s == [x \in 1..VECES |-> Prueba]
           k == 8
           m == 8 * VECES
           u1 == Antes \o Junta(s)
           u2 == u1 \o Numeros
<1>1. VECES \in Nat \ {0} /\ EsLista(s, VECES) /\ \A x \in 1..VECES : s[x] = Prueba
  BY Numeros_de_la_placa DEF EsLista
<1>2. k \in Nat \ {0} /\ m \in Nat /\ m = VECES * k /\ Len(s[1]) = k
  <2>1. Len(Prueba) = 8
    BY PruebaEs, Largo, Zenon
  <2> QED
    BY <1>1, <2>1
<1>a. Programa = u2 \o Gpio
  BY DEF Programa
<1> HIDE DEF s, k, m
<1>3. EsLista(Junta(s), m)
  BY <1>1, <1>2, Juntas
<1>4. ASSUME NEW i \in 1..m PROVE Junta(s)[i] = s[1 + (i - 1) \div k][1 + ((i - 1) % k)]
  BY <1>1, <1>2, Elemento
<1>5. ASSUME NEW i \in 1..8 * VECES PROVE Junta(s)[i] = Prueba[1 + ((i - 1) % 8)]
  <2>1. 1 + (i - 1) \div 8 \in 1..VECES
    BY <1>1
  <2>2. Junta(s)[i] = s[1 + (i - 1) \div 8][1 + ((i - 1) % 8)]
    BY <1>4 DEF k, m
  <2> QED
    BY <1>1, <2>1, <2>2
<1>6. /\ N0 = 12 + m /\ N3 = N0 + (6 + 4 * ND + 2 * TW) /\ NF = N3 + 5 * LEDS
      /\ m = 8 * VECES /\ m \in Nat /\ N0 \in Nat /\ N3 \in Nat /\ NF \in Nat
      /\ ND \in Nat /\ TW \in Nat /\ LEDS \in Nat
  BY Numeros_de_la_placa DEF N0, N1, N2, N3, NF, m
<1>7. Pegadas(u1, Antes, Junta(s), 12, m, N0)
  BY <1>3, <1>6, AntesEs, Pega, Zenon
<1>8. Pegadas(u2, u1, Numeros, N0, 6 + 4 * ND + 2 * TW, N3)
  <2>1. EsLista(u1, N0)
    BY <1>7, Zenon DEF Pegadas
  <2> QED
    BY <1>6, <2>1, NumerosEs, Pega, Zenon
<1>9. Pegadas(Programa, u2, Gpio, N3, 5 * LEDS, NF)
  <2>1. EsLista(u2, N3)
    BY <1>8, Zenon DEF Pegadas
  <2> QED
    BY <1>6, <1>a, <2>1, GpioEs, Pega, Zenon
<1> HIDE DEF u1, u2
<1>10. Len(Programa) = NF /\ Bucle = N3 + 1
  <2>1. Len(Programa) = NF /\ Len(Gpio) = 5 * LEDS
    BY <1>9, GpioEs, Largo, Zenon DEF Pegadas
  <2> QED
    BY <1>6, <2>1 DEF Bucle
<1>11. /\ \A i \in 1..12 : Programa[i] = Antes[i]
       /\ \A i \in 13..N0 : Programa[i] = Junta(s)[i - 12]
       /\ \A i \in N0 + 1..N3 : Programa[i] = Numeros[i - N0]
       /\ \A i \in N3 + 1..NF : Programa[i] = Gpio[i - N3]
  <2>1. 12 <= N0 /\ N0 <= N3 /\ N3 <= NF
    BY <1>6
  <2>2. \A i \in 1..12 : Programa[i] = Antes[i]
    BY <1>6, <1>7, <1>8, <1>9, <2>1 DEF Pegadas
  <2>3. \A i \in 13..N0 : Programa[i] = Junta(s)[i - 12]
    BY <1>6, <1>7, <1>8, <1>9, <2>1 DEF Pegadas
  <2>4. \A i \in N0 + 1..N3 : Programa[i] = Numeros[i - N0]
    <3> SUFFICES ASSUME NEW i \in N0 + 1..N3 PROVE Programa[i] = Numeros[i - N0]
      OBVIOUS
    <3>1. Programa[i] = u2[i]
      BY <1>6, <1>9, <2>1 DEF Pegadas
    <3>2. u2[i] = Numeros[i - N0]
      BY <1>6, <1>8 DEF Pegadas
    <3> QED
      BY <3>1, <3>2
  <2>5. \A i \in N3 + 1..NF : Programa[i] = Gpio[i - N3]
    BY <1>6, <1>9, <2>1 DEF Pegadas
  <2> QED
    BY <2>2, <2>3, <2>4, <2>5
<1>12. ASSUME NEW i \in 13..N0 PROVE Programa[i] = Prueba[1 + ((i - 13) % 8)]
  <2>1. i - 12 \in 1..8 * VECES /\ (i - 12) - 1 = i - 13
    BY <1>6
  <2> QED
    BY <1>5, <1>11, <2>1
<1> QED
  BY <1>10, <1>11, <1>12
-----------------------------------------------------------------------------
(* What stands where, and what comes next. *)

LEMMA Sitios ==
  /\ {N0, N1, N2, N3, NF, ND, TW, VECES, LEDS} \subseteq Nat
  /\ N0 >= 20 /\ N0 = 12 + 8 * VECES /\ N1 = N0 + 2 * ND + 2 /\ N2 = N1 + 2 * ND + 2
  /\ N3 = N2 + 2 * TW + 2 /\ NF = N3 + 5 * LEDS
  /\ ND >= 1 /\ TW >= ND /\ LEDS >= 1 /\ VECES >= 1
  BY Numeros_de_la_placa DEF N0, N1, N2, N3, NF

Escribe_alli(i, r, t, v) ==
  Programa[i].op = "bus" /\ Programa[i].a.reg = r /\ Programa[i].a.t = t /\ Programa[i].a.v = v

LEMMA Empieza ==
  /\ Programa[1].op = "ucr" /\ Programa[2].op = "rxtx" /\ Programa[2].a[1] = "letra"
  /\ Programa[3].op = "isr_init" /\ Programa[4].op = "tic_msec"
  /\ Escribe_alli(5, "compare", 0, P) /\ Escribe_alli(6, "counter", 0, 0)
  /\ Escribe_alli(7, "tcr", 0, TIMER_EN_AR) /\ Programa[8].op = "isr_register"
  /\ Programa[9].op = "irq_set_mask" /\ Programa[9].a = {TIC}
  /\ Programa[10].op = "irq_enable"
  /\ Programa[11].op = "ucr" /\ Programa[12].op = "rxtx" /\ Programa[12].a[1] = "letra"
<1>1. \A i \in 1..12 : Programa[i] = Antes[i]
  BY Plan
<1> QED
  BY <1>1, AntesEs DEF Escribe_alli, Op, Reg, Escribe

LEMMA Escrituras ==
  ASSUME NEW i
  PROVE  /\ Programa[i] = Mide => Escribe_alli(i, "compare", 1, D)
         /\ Programa[i] = Pone => Escribe_alli(i, "counter", 1, 0)
         /\ Programa[i] = Echa => Escribe_alli(i, "tcr", 1, TIMER_EN)
  BY DEF Escribe_alli, Mide, Pone, Echa, Op, Reg, Escribe

LEMMA EnPrueba ==
  ASSUME NEW i \in 13..N0, NEW k, k = (i - 13) % 8
  PROVE  /\ k \in {0, 2} => Programa[i].op = "ucr"
         /\ k \in {1, 3} => Programa[i].op = "rxtx" /\ Programa[i].a[1] = "letra"
         /\ k = 4 => Escribe_alli(i, "compare", 1, D)
         /\ k = 5 => Escribe_alli(i, "counter", 1, 0)
         /\ k = 6 => Escribe_alli(i, "tcr", 1, TIMER_EN)
         /\ k = 7 => Programa[i].op = "sondeo" /\ Programa[i].a = 1
<1>1. Programa[i] = Prueba[1 + k]
  BY Plan
<1>2. k \in 0..7
  BY Sitios
<1>3. /\ k \in {0, 2} => Programa[i] = Op("ucr", 0)
      /\ k \in {1, 3} => Programa[i] = Op("rxtx", <<"letra", 0>>)
      /\ k = 4 => Programa[i] = Mide
      /\ k = 5 => Programa[i] = Pone
      /\ k = 6 => Programa[i] = Echa
      /\ k = 7 => Programa[i] = Op("sondeo", 1)
  BY <1>1, <1>2, PruebaEs
<1> QED
  BY <1>3, Escrituras DEF Op

LEMMA EnLuces ==
  ASSUME NEW i \in N3 + 1..NF, NEW k, k = (i - N3 - 1) % 5
  PROVE  /\ k = 0 => Programa[i].op = "gpio" /\ Programa[i].a \in 0..LEDS - 1
         /\ k = 1 => Escribe_alli(i, "compare", 1, D)
         /\ k = 2 => Escribe_alli(i, "counter", 1, 0)
         /\ k = 3 => Escribe_alli(i, "tcr", 1, TIMER_EN)
         /\ k = 4 => Programa[i].op = "sondeo" /\ Programa[i].a = 1
<1>1. Programa[i] = Gpio[i - N3]
  BY Plan
<1>2. i - N3 \in 1..5 * LEDS /\ (i - N3 - 1) \div 5 \in 0..LEDS - 1
  BY Sitios
<1>3. /\ k = 0 => Programa[i] = Op("gpio", (i - N3 - 1) \div 5)
      /\ k = 1 => Programa[i] = Mide
      /\ k = 2 => Programa[i] = Pone
      /\ k = 3 => Programa[i] = Echa
      /\ k = 4 => Programa[i] = Op("sondeo", 1)
  BY <1>1, <1>2, GpioEs
<1> QED
  BY <1>2, <1>3, Escrituras DEF Op

\* b is where a number of n digits is read.
LEMMA EnNumero ==
  /\ \A b \in {N0 + 1, N1 + 1} :
       /\ Programa[b].op = "lee"
       /\ \A i \in b + 1..b + 2 * ND :
            IF (i - b) % 2 = 1 THEN Programa[i].op = "ucr"
            ELSE Programa[i].op = "rxtx" /\ Programa[i].a = <<"digito", (i - b) \div 2>>
       /\ Programa[b + 2 * ND + 1].op = "escrito"
       /\ Programa[b + 2 * ND + 1].a = "digitos"
  /\ Programa[N2 + 1].op = "lee"
  /\ \A i \in N2 + 2..N2 + 1 + 2 * TW :
       IF (i - N2 - 1) % 2 = 1 THEN Programa[i].op = "ucr"
       ELSE Programa[i].op = "rxtx" /\ Programa[i].a = <<"bit", (i - N2 - 1) \div 2>>
  /\ Programa[N3].op = "escrito" /\ Programa[N3].a = "bits"
<1>1. \A i \in N0 + 1..N3 : Programa[i] = Numeros[i - N0]
  BY Plan
<1>2. ASSUME NEW b \in {N0 + 1, N1 + 1}
      PROVE  /\ Programa[b] = Op("lee", 0)
             /\ \A i \in b + 1..b + 2 * ND : Programa[i] = writeint[i - b]
             /\ Programa[b + 2 * ND + 1] = Op("escrito", "digitos")
  <2>1. CASE b = N0 + 1
    <3>1. /\ b \in N0 + 1..N3 /\ b - N0 = 1
          /\ b + 2 * ND + 1 \in N0 + 1..N3 /\ b + 2 * ND + 1 - N0 = 2 + 2 * ND
      BY <2>1, Sitios
    <3>2. \A i \in b + 1..b + 2 * ND : Programa[i] = writeint[i - b]
      <4> SUFFICES ASSUME NEW i \in b + 1..b + 2 * ND PROVE Programa[i] = writeint[i - b]
        OBVIOUS
      <4>1. i \in N0 + 1..N3 /\ i - N0 \in 2..1 + 2 * ND /\ i - N0 - 1 = i - b
        BY <2>1, Sitios
      <4> QED
        BY <1>1, <4>1, NumerosEs
    <3>3. Programa[b] = Numeros[b - N0]
      BY <1>1, <3>1
    <3>4. Programa[b + 2 * ND + 1] = Numeros[2 + 2 * ND]
      <4> DEFINE c == b + 2 * ND + 1  j == 2 + 2 * ND
      <4>1. c \in N0 + 1..N3 /\ c - N0 = j
        BY <3>1, Sitios
      <4> HIDE DEF c, j
      <4>2. Programa[c] = Numeros[j]
        BY <1>1, <4>1
      <4> QED
        BY <4>2 DEF c, j
    <3>5. Programa[b] = Op("lee", 0)
      BY <3>1, <3>3, NumerosEs
    <3>6. Programa[b + 2 * ND + 1] = Op("escrito", "digitos")
      BY <3>1, <3>4, NumerosEs
    <3> QED
      BY <3>2, <3>5, <3>6
  <2>2. CASE b = N1 + 1
    <3>1. /\ b \in N0 + 1..N3 /\ b - N0 = 3 + 2 * ND
          /\ b + 2 * ND + 1 \in N0 + 1..N3 /\ b + 2 * ND + 1 - N0 = 4 + 4 * ND
      BY <2>2, Sitios
    <3>2. \A i \in b + 1..b + 2 * ND : Programa[i] = writeint[i - b]
      <4> SUFFICES ASSUME NEW i \in b + 1..b + 2 * ND PROVE Programa[i] = writeint[i - b]
        OBVIOUS
      <4>1. /\ i \in N0 + 1..N3 /\ i - N0 \in 4 + 2 * ND..3 + 4 * ND
            /\ i - N0 - (3 + 2 * ND) = i - b
        BY <2>2, Sitios
      <4> QED
        BY <1>1, <4>1, NumerosEs
    <3>3. Programa[b] = Numeros[b - N0]
      BY <1>1, <3>1
    <3>4. Programa[b + 2 * ND + 1] = Numeros[4 + 4 * ND]
      <4> DEFINE c == b + 2 * ND + 1  j == 4 + 4 * ND
      <4>1. c \in N0 + 1..N3 /\ c - N0 = j
        BY <3>1, Sitios
      <4> HIDE DEF c, j
      <4>2. Programa[c] = Numeros[j]
        BY <1>1, <4>1
      <4> QED
        BY <4>2 DEF c, j
    <3>5. Programa[b] = Op("lee", 0)
      BY <3>1, <3>3, NumerosEs
    <3>6. Programa[b + 2 * ND + 1] = Op("escrito", "digitos")
      BY <3>1, <3>4, NumerosEs
    <3> QED
      BY <3>2, <3>5, <3>6
  <2> QED
    BY <2>1, <2>2
<1>3. ASSUME NEW b \in {N0 + 1, N1 + 1}, NEW i \in b + 1..b + 2 * ND
      PROVE  IF (i - b) % 2 = 1 THEN Programa[i].op = "ucr"
             ELSE Programa[i].op = "rxtx" /\ Programa[i].a = <<"digito", (i - b) \div 2>>
  <2>1. i - b \in 1..2 * ND
    BY Sitios
  <2>2. Programa[i] = IF (i - b) % 2 = 1 THEN Op("ucr", 0)
                      ELSE Op("rxtx", <<"digito", (i - b) \div 2>>)
    BY <1>2, <2>1, EnteroEs
  <2> QED
    BY <2>2 DEF Op
<1>4. ASSUME NEW b \in {N0 + 1, N1 + 1}
      PROVE  /\ Programa[b].op = "lee"
             /\ Programa[b + 2 * ND + 1].op = "escrito"
             /\ Programa[b + 2 * ND + 1].a = "digitos"
  BY <1>2 DEF Op
<1>5. /\ Programa[N2 + 1] = Op("lee", "val")
      /\ \A i \in N2 + 2..N2 + 1 + 2 * TW : Programa[i] = Desplaza[i - N2 - 1]
      /\ Programa[N3] = Op("escrito", "bits")
  <2>1. /\ N2 + 1 \in N0 + 1..N3 /\ N2 + 1 - N0 = 5 + 4 * ND
        /\ N3 \in N0 + 1..N3 /\ N3 - N0 = 6 + 4 * ND + 2 * TW
    BY Sitios
  <2>2. \A i \in N2 + 2..N2 + 1 + 2 * TW : Programa[i] = Desplaza[i - N2 - 1]
    <3> SUFFICES ASSUME NEW i \in N2 + 2..N2 + 1 + 2 * TW
                 PROVE  Programa[i] = Desplaza[i - N2 - 1]
      OBVIOUS
    <3>1. /\ i \in N0 + 1..N3 /\ i - N0 \in 6 + 4 * ND..5 + 4 * ND + 2 * TW
          /\ i - N0 - (5 + 4 * ND) = i - N2 - 1
      BY Sitios
    <3> QED
      BY <1>1, <3>1, NumerosEs
  <2>3. Programa[N2 + 1] = Numeros[5 + 4 * ND]
    <3> DEFINE c == N2 + 1  j == 5 + 4 * ND
    <3>1. c \in N0 + 1..N3 /\ c - N0 = j
      BY <2>1, Sitios
    <3> HIDE DEF c, j
    <3>2. Programa[c] = Numeros[j]
      BY <1>1, <3>1
    <3> QED
      BY <3>2 DEF c, j
  <2>4. Programa[N3] = Numeros[6 + 4 * ND + 2 * TW]
    BY <1>1, <2>1
  <2> QED
    BY <2>2, <2>3, <2>4, NumerosEs
<1>6. ASSUME NEW i \in N2 + 2..N2 + 1 + 2 * TW
      PROVE  IF (i - N2 - 1) % 2 = 1 THEN Programa[i].op = "ucr"
             ELSE Programa[i].op = "rxtx" /\ Programa[i].a = <<"bit", (i - N2 - 1) \div 2>>
  <2>1. i - N2 - 1 \in 1..2 * TW
    BY Sitios
  <2>2. Programa[i] = IF (i - N2 - 1) % 2 = 1 THEN Op("ucr", 0)
                      ELSE Op("rxtx", <<"bit", (i - N2 - 1) \div 2>>)
    BY <1>5, <2>1, DesplazaEs
  <2> QED
    BY <2>2 DEF Op
<1> QED
  BY <1>3, <1>4, <1>5, <1>6 DEF Op

\* The place behind i.
Sig(i) == IF i = NF THEN N3 + 1 ELSE i + 1

Alli1(i, r) == Programa[i].op = "bus" /\ Programa[i].a.reg = r /\ Programa[i].a.t = 1

LEMMA Clases ==
  ASSUME NEW i \in 13..NF
  PROVE  /\ Programa[i].op \in {"ucr", "rxtx", "bus", "sondeo", "lee", "escrito", "gpio"}
         /\ Programa[i].op = "bus" => \/ Escribe_alli(i, "compare", 1, D)
                                      \/ Escribe_alli(i, "counter", 1, 0)
                                      \/ Escribe_alli(i, "tcr", 1, TIMER_EN)
         /\ Programa[i].op = "sondeo" => Programa[i].a = 1
         /\ Programa[i].op = "lee" => i \in {N0 + 1, N1 + 1, N2 + 1}
         /\ Programa[i].op = "escrito" => \/ i \in {N1, N2} /\ Programa[i].a = "digitos"
                                          \/ i = N3 /\ Programa[i].a = "bits"
         /\ Programa[i].op = "rxtx" /\ i \notin N0 + 1..N3 => Programa[i].a[1] = "letra"
<1>1. CASE i \in 13..N0
  <2> DEFINE k == (i - 13) % 8
  <2>1. k \in 0..7 /\ i \notin N0 + 1..N3
    BY <1>1, Sitios
  <2>2. /\ k \in {0, 2} => Programa[i].op = "ucr"
        /\ k \in {1, 3} => Programa[i].op = "rxtx" /\ Programa[i].a[1] = "letra"
        /\ k = 4 => Escribe_alli(i, "compare", 1, D)
        /\ k = 5 => Escribe_alli(i, "counter", 1, 0)
        /\ k = 6 => Escribe_alli(i, "tcr", 1, TIMER_EN)
        /\ k = 7 => Programa[i].op = "sondeo" /\ Programa[i].a = 1
    BY <1>1, EnPrueba, Zenon
  <2> HIDE DEF k
  <2> QED
    BY <2>1, <2>2 DEF Escribe_alli
<1>2. CASE i \in N3 + 1..NF
  <2> DEFINE k == (i - N3 - 1) % 5
  <2>1. k \in 0..4 /\ i \notin N0 + 1..N3
    BY <1>2, Sitios
  <2>2. /\ k = 0 => Programa[i].op = "gpio"
        /\ k = 1 => Escribe_alli(i, "compare", 1, D)
        /\ k = 2 => Escribe_alli(i, "counter", 1, 0)
        /\ k = 3 => Escribe_alli(i, "tcr", 1, TIMER_EN)
        /\ k = 4 => Programa[i].op = "sondeo" /\ Programa[i].a = 1
    BY <1>2, EnLuces, Zenon
  <2> HIDE DEF k
  <2> QED
    BY <2>1, <2>2 DEF Escribe_alli
<1>3. CASE i \in N0 + 1..N3
  <2>1. \/ i = N0 + 1 \/ i = N1 + 1 \/ i = N2 + 1
        \/ i \in N0 + 2..N0 + 1 + 2 * ND \/ i \in N1 + 2..N1 + 1 + 2 * ND
        \/ i \in N2 + 2..N2 + 1 + 2 * TW
        \/ i = N1 \/ i = N2 \/ i = N3
    BY <1>3, Sitios
  <2>2. CASE i \in {N0 + 1, N1 + 1, N2 + 1}
    BY <2>2, EnNumero
  <2>3. CASE i \in N0 + 2..N0 + 1 + 2 * ND \/ i \in N1 + 2..N1 + 1 + 2 * ND
    <3>1. PICK b \in {N0 + 1, N1 + 1} : i \in b + 1..b + 2 * ND
      BY <2>3, Sitios
    <3>2. Programa[i].op \in {"ucr", "rxtx"}
      BY <3>1, EnNumero
    <3> QED
      BY <1>3, <3>2
  <2>4. CASE i \in N2 + 2..N2 + 1 + 2 * TW
    <3>1. Programa[i].op \in {"ucr", "rxtx"}
      BY <2>4, EnNumero
    <3> QED
      BY <1>3, <3>1
  <2>5. CASE i \in {N1, N2}
    <3>1. PICK b \in {N0 + 1, N1 + 1} : i = b + 2 * ND + 1
      BY <2>5, Sitios
    <3>2. Programa[i].op = "escrito" /\ Programa[i].a = "digitos"
      BY <3>1, EnNumero
    <3> QED
      BY <2>5, <3>2
  <2>6. CASE i = N3
    BY <2>6, EnNumero
  <2> QED
    BY <2>1, <2>2, <2>3, <2>4, <2>5, <2>6
<1> QED
  BY <1>1, <1>2, <1>3, Sitios

\* What must have come before a character, a store of msleep or its polls.
Previo(i, j) ==
  /\ Programa[j].op = "rxtx" => Programa[i].op = "ucr"
  /\ Alli1(j, "counter") => Escribe_alli(i, "compare", 1, D)
  /\ Alli1(j, "tcr") => Escribe_alli(i, "counter", 1, 0)
  /\ Programa[j].op = "sondeo" => Escribe_alli(i, "tcr", 1, TIMER_EN)

LEMMA Tras ==
  ASSUME NEW i \in 1..NF, NEW j, j = Sig(i)
  PROVE  /\ j \in 1..NF /\ (i <= 12 => j = i + 1) /\ (i > 12 => j > 13)
         /\ Previo(i, j)
<1>1. j \in 1..NF /\ (i <= 12 => j = i + 1) /\ (i > 12 => j > 13)
  BY Sitios DEF Sig
<1> SUFFICES Previo(i, j)
  BY <1>1
<1>2. ASSUME Programa[j].op \in {"ucr", "lee", "escrito", "gpio"} PROVE Previo(i, j)
  BY <1>2 DEF Previo, Alli1
<1>3. CASE i \in 1..11
  <2>1. j = i + 1
    BY <1>1, <1>3
  <2>2. j \in 2..12
    BY <1>3, <2>1
  <2>3. CASE j \in {2, 12}
    BY <2>1, <2>3, Empieza DEF Previo, Alli1, Escribe_alli
  <2>4. CASE j \in {5, 6, 7}
    BY <2>4, Empieza DEF Previo, Alli1, Escribe_alli
  <2>5. CASE j \in {3, 4, 8, 9, 10, 11}
    BY <2>5, Empieza DEF Previo, Alli1, Escribe_alli
  <2> QED
    BY <2>2, <2>3, <2>4, <2>5
<1>4. CASE i = 12
  <2>1. j = 13 /\ 13 \in 13..N0 /\ 0 = (13 - 13) % 8
    BY <1>1, <1>4, Sitios
  <2>2. Programa[13].op = "ucr"
    <3> DEFINE k == 0
    <3>1. k = (13 - 13) % 8 /\ k \in {0, 2}
      OBVIOUS
    <3> HIDE DEF k
    <3> QED
      BY <2>1, <3>1, EnPrueba, Zenon
  <2> QED
    BY <1>2, <2>1, <2>2
<1>5. CASE i \in 13..N0 - 1
  <2> DEFINE k == (i - 13) % 8
             l == (j - 13) % 8
  <2>1. /\ j \in 13..N0 /\ i \in 13..N0 /\ k \in 0..7
        /\ l = IF k = 7 THEN 0 ELSE k + 1
    BY <1>5, Sitios DEF Sig
  <2>2. /\ k \in {0, 2} => Programa[i].op = "ucr"
        /\ k = 4 => Escribe_alli(i, "compare", 1, D)
        /\ k = 5 => Escribe_alli(i, "counter", 1, 0)
        /\ k = 6 => Escribe_alli(i, "tcr", 1, TIMER_EN)
    BY <2>1, EnPrueba, Zenon
  <2>3. /\ l \in {0, 2} => Programa[j].op = "ucr"
        /\ l \in {1, 3} => Programa[j].op = "rxtx"
        /\ l = 4 => Escribe_alli(j, "compare", 1, D)
        /\ l = 5 => Escribe_alli(j, "counter", 1, 0)
        /\ l = 6 => Escribe_alli(j, "tcr", 1, TIMER_EN)
        /\ l = 7 => Programa[j].op = "sondeo"
    BY <2>1, EnPrueba, Zenon
  <2> HIDE DEF k, l
  <2>4. CASE k \in {1, 7}
    BY <1>2, <2>1, <2>3, <2>4
  <2>5. CASE k \in {0, 2}
    BY <2>1, <2>2, <2>3, <2>5 DEF Previo, Alli1
  <2>6. CASE k \in {3, 4, 5}
    BY <2>1, <2>2, <2>3, <2>6 DEF Previo, Alli1, Escribe_alli
  <2>7. CASE k = 6
    BY <2>1, <2>2, <2>3, <2>7 DEF Previo, Alli1
  <2> QED
    BY <2>1, <2>4, <2>5, <2>6, <2>7
<1>6. CASE i = N0 \/ i = N1 \/ i = N2
  <2>1. j \in {N0 + 1, N1 + 1, N2 + 1}
    BY <1>6, Sitios DEF Sig
  <2> QED
    BY <1>2, <2>1, EnNumero
<1>7. CASE i = N3 \/ i = NF
  <2>1. j = N3 + 1 /\ j \in N3 + 1..NF
    BY <1>7, Sitios DEF Sig
  <2>2. Programa[j].op = "gpio"
    <3> DEFINE k == (j - N3 - 1) % 5
    <3>1. k = 0
      BY <2>1, Sitios
    <3> HIDE DEF k
    <3>2. k = 0 => Programa[j].op = "gpio"
      BY <2>1, EnLuces, Zenon DEF k
    <3> QED
      BY <3>1, <3>2
  <2> QED
    BY <1>2, <2>2
<1>8. ASSUME NEW b \in {N0 + 1, N1 + 1}, i \in b..b + 2 * ND
      PROVE  Previo(i, j)
  <2>1. j = i + 1 /\ j \in b + 1..b + 2 * ND + 1 /\ i \in Nat /\ b \in Nat
    BY <1>8, Sitios DEF Sig
  <2>2. CASE j = b + 2 * ND + 1
    BY <1>2, <2>2, EnNumero
  <2>3. CASE j \in b + 1..b + 2 * ND /\ (j - b) % 2 = 1
    BY <1>2, <2>3, EnNumero
  <2>4. CASE j \in b + 1..b + 2 * ND /\ (j - b) % 2 # 1
    <3>1. i \in b + 1..b + 2 * ND /\ (i - b) % 2 = 1
      BY <2>1, <2>4, Sitios
    <3>2. Programa[i].op = "ucr"
      BY <3>1, EnNumero
    <3>3. Programa[j].op = "rxtx"
      BY <2>4, EnNumero
    <3> QED
      BY <3>2, <3>3 DEF Previo, Alli1
  <2>5. j = b + 2 * ND + 1 \/ j \in b + 1..b + 2 * ND
    BY <2>1, Sitios
  <2> QED
    BY <2>2, <2>3, <2>4, <2>5
<1>9. CASE i \in N2 + 1..N2 + 1 + 2 * TW
  <2>1. j = i + 1 /\ j \in N2 + 2..N3 /\ i \in Nat
    BY <1>9, Sitios DEF Sig
  <2>2. CASE j = N3
    BY <1>2, <2>2, EnNumero
  <2>3. CASE j \in N2 + 2..N2 + 1 + 2 * TW /\ (j - N2 - 1) % 2 = 1
    BY <1>2, <2>3, EnNumero
  <2>4. CASE j \in N2 + 2..N2 + 1 + 2 * TW /\ (j - N2 - 1) % 2 # 1
    <3>1. i \in N2 + 2..N2 + 1 + 2 * TW /\ (i - N2 - 1) % 2 = 1
      BY <2>1, <2>4, Sitios
    <3>2. Programa[i].op = "ucr"
      BY <3>1, EnNumero
    <3>3. Programa[j].op = "rxtx"
      BY <2>4, EnNumero
    <3> QED
      BY <3>2, <3>3 DEF Previo, Alli1
  <2>5. j = N3 \/ j \in N2 + 2..N2 + 1 + 2 * TW
    BY <2>1, Sitios
  <2> QED
    BY <2>2, <2>3, <2>4, <2>5
<1>10. CASE i \in N3 + 1..NF - 1
  <2> DEFINE k == (i - N3 - 1) % 5
             l == (j - N3 - 1) % 5
  <2>1. /\ j \in N3 + 1..NF /\ i \in N3 + 1..NF /\ k \in 0..4
        /\ l = IF k = 4 THEN 0 ELSE k + 1
    <3> DEFINE u == i - N3 - 1
    <3>1. /\ u \in Nat /\ j - N3 - 1 = u + 1
          /\ j \in N3 + 1..NF /\ i \in N3 + 1..NF
      BY <1>10, Sitios DEF Sig
    <3>2. k = u % 5 /\ l = (u + 1) % 5
      BY <3>1
    <3> HIDE DEF u, k, l
    <3>3. k \in 0..4 /\ l = IF k = 4 THEN 0 ELSE k + 1
      BY <3>1, <3>2
    <3> QED
      BY <3>1, <3>3
  <2>2. /\ k = 1 => Escribe_alli(i, "compare", 1, D)
        /\ k = 2 => Escribe_alli(i, "counter", 1, 0)
        /\ k = 3 => Escribe_alli(i, "tcr", 1, TIMER_EN)
    BY <2>1, EnLuces, Zenon
  <2>3. /\ l = 0 => Programa[j].op = "gpio"
        /\ l = 1 => Escribe_alli(j, "compare", 1, D)
        /\ l = 2 => Escribe_alli(j, "counter", 1, 0)
        /\ l = 3 => Escribe_alli(j, "tcr", 1, TIMER_EN)
        /\ l = 4 => Programa[j].op = "sondeo"
    BY <2>1, EnLuces, Zenon
  <2> HIDE DEF k, l
  <2>4. CASE k = 4
    BY <1>2, <2>1, <2>3, <2>4
  <2>5. CASE k \in {0, 1, 2}
    BY <2>1, <2>2, <2>3, <2>5 DEF Previo, Alli1, Escribe_alli
  <2>6. CASE k = 3
    BY <2>1, <2>2, <2>3, <2>6 DEF Previo, Alli1
  <2> QED
    BY <2>1, <2>4, <2>5, <2>6
<1>11. \/ i \in 1..11 \/ i = 12 \/ i \in 13..N0 - 1 \/ i = N0 \/ i = N1 \/ i = N2
       \/ i = N3 \/ i = NF \/ (\E b \in {N0 + 1, N1 + 1} : i \in b..b + 2 * ND)
       \/ i \in N2 + 1..N2 + 1 + 2 * TW \/ i \in N3 + 1..NF - 1
  BY Sitios
<1> QED
  BY <1>1, <1>3, <1>4, <1>5, <1>6, <1>7, <1>8, <1>9, <1>10, <1>11
-----------------------------------------------------------------------------
(* A cycle of the timer. *)

\* What IInv says of each variable's values.
LEMMA Hechos ==
  ASSUME TypeOK
  PROVE  /\ mi \in 1..NF
         /\ counter \in [{0, 1} -> 0..MOD - 1] /\ compare \in [{0, 1} -> 0..MOD - 1]
         /\ en \in [{0, 1} -> BOOLEAN] /\ ar \in [{0, 1} -> BOOLEAN]
         /\ trig \in [{0, 1} -> BOOLEAN]
         /\ counter[0] \in Nat /\ counter[1] \in Nat
         /\ counter[0] < MOD /\ counter[1] < MOD
         /\ en[0] \in BOOLEAN /\ en[1] \in BOOLEAN /\ ar[0] \in BOOLEAN /\ ar[1] \in BOOLEAN
         /\ trig[0] \in BOOLEAN /\ trig[1] \in BOOLEAN
         /\ val \in 0..TOPE - 1 /\ tic_msec \in 0..TOPE - 1 /\ ticks \in 0..TOPE - 1
         /\ pend \subseteq {0, 1} /\ im \subseteq {0, 1} /\ ip \subseteq {0, 1}
         /\ ie \in BOOLEAN /\ tx_wr \in BOOLEAN /\ quieto \in 0..RETRASO /\ tx_busy \in 0..TXC
<1>1. mi \in 1..NF
  BY Plan DEF TypeOK
<1>2. /\ counter \in [{0, 1} -> 0..MOD - 1] /\ compare \in [{0, 1} -> 0..MOD - 1]
      /\ en \in [{0, 1} -> BOOLEAN] /\ ar \in [{0, 1} -> BOOLEAN]
      /\ trig \in [{0, 1} -> BOOLEAN]
  BY DEF TypeOK, TimerTypeOK, Palabra
<1>3. /\ counter[0] \in 0..MOD - 1 /\ counter[1] \in 0..MOD - 1
      /\ en[0] \in BOOLEAN /\ en[1] \in BOOLEAN /\ ar[0] \in BOOLEAN /\ ar[1] \in BOOLEAN
      /\ trig[0] \in BOOLEAN /\ trig[1] \in BOOLEAN
  <2>1. 0 \in {0, 1} /\ 1 \in {0, 1}
    OBVIOUS
  <2> QED
    BY <1>2, <2>1, Zenon
<1>4. /\ counter[0] \in Nat /\ counter[1] \in Nat
      /\ counter[0] < MOD /\ counter[1] < MOD
  BY <1>3, WbTimerAssumption
<1>5. val \in 0..TOPE - 1 /\ tic_msec \in 0..TOPE - 1 /\ ticks \in 0..TOPE - 1
  BY Zenon DEF TypeOK
<1>6. pend \subseteq {0, 1} /\ im \subseteq {0, 1} /\ ip \subseteq {0, 1}
  <2>1. {pend, im, ip} \subseteq SUBSET {0, 1}
    BY DEF TypeOK, Lineas, TIC
  <2> QED
    BY <2>1, Zenon
<1>7. ie \in BOOLEAN /\ tx_wr \in BOOLEAN
  BY Zenon DEF TypeOK
<1>8. quieto \in 0..RETRASO /\ tx_busy \in 0..TXC
  BY Zenon DEF TypeOK
<1> QED
  BY <1>1, <1>2, <1>3, <1>4, <1>5, <1>6, <1>7, <1>8

\* An access that leaves the ranges of the timer alone.
Bueno(op) ==
  /\ op.reg \in {"counter", "compare"} => op.v \in 0..MOD - 1
  /\ op.reg = "tcr" => op.v.en \in BOOLEAN /\ op.v.ar \in BOOLEAN

LEMMA TimerTipo ==
  ASSUME TypeOK, NEW op, Bueno(op), Timer(op)
  PROVE  TimerTypeOK'
<1>1. /\ counter \in [{0, 1} -> 0..MOD - 1] /\ compare \in [{0, 1} -> 0..MOD - 1]
      /\ en \in [{0, 1} -> BOOLEAN] /\ ar \in [{0, 1} -> BOOLEAN]
      /\ trig \in [{0, 1} -> BOOLEAN]
  BY Hechos, Zenon
<1>2. MOD \in Nat /\ 1 < MOD
  BY Numeros_de_la_placa
<1>3. counter' \in [{0, 1} -> 0..MOD - 1]
  <2>1. \A t \in {0, 1} : (counter[t] + 1) % MOD \in 0..MOD - 1
    BY <1>1, <1>2
  <2> DEFINE f(t) == IF op.reg = "counter" /\ op.t = t THEN op.v
                     ELSE IF ar[t] /\ match(t) THEN 1
                     ELSE IF en[t] /\ ~match(t) THEN (counter[t] + 1) % MOD
                     ELSE counter[t]
  <2>2. counter' = [t \in {0, 1} |-> f(t)]
    BY DEF Timer
  <2>3. 1 \in 0..MOD - 1
    BY <1>2
  <2>4. \A t \in {0, 1} : f(t) \in 0..MOD - 1
    BY <1>1, <2>1, <2>3, Zenon DEF Bueno
  <2> HIDE DEF f
  <2> QED
    BY <2>2, <2>4
<1>4. compare' \in [{0, 1} -> 0..MOD - 1]
  BY <1>1 DEF Timer, Bueno
<1>5. /\ en' \in [{0, 1} -> BOOLEAN] /\ ar' \in [{0, 1} -> BOOLEAN]
      /\ trig' \in [{0, 1} -> BOOLEAN]
  BY <1>1 DEF Timer, Bueno
<1> QED
  BY <1>3, <1>4, <1>5 DEF TimerTypeOK, Palabra

\* A counter in a cycle, written out.
LEMMA Reloj ==
  ASSUME NEW op, Timer(op), NEW t \in {0, 1}
  PROVE  /\ counter'[t] = IF op.reg = "counter" /\ op.t = t THEN op.v
                          ELSE IF ar[t] /\ counter[t] = compare[t] THEN 1
                          ELSE IF en[t] /\ counter[t] # compare[t] THEN (counter[t] + 1) % MOD
                          ELSE counter[t]
         /\ trig'[t] = (~(op.reg = "tcr" /\ op.t = t)
                        /\ (trig[t] \/ (en[t] /\ counter[t] = compare[t])))
         /\ en'[t] = IF op.reg = "tcr" /\ op.t = t THEN op.v.en
                     ELSE en[t] /\ (ar[t] \/ counter[t] # compare[t])
         /\ ar'[t] = IF op.reg = "tcr" /\ op.t = t THEN op.v.ar ELSE ar[t]
         /\ compare'[t] = IF op.reg = "compare" /\ op.t = t THEN op.v ELSE compare[t]
  BY DEF Timer, match

\* An access that leaves counter t alone.
Ajeno(op, t) == ~(op.t = t /\ op.reg \in {"counter", "compare", "tcr"})

LEMMA NadaAjena == ASSUME NEW t PROVE Ajeno(Nada, t) /\ Bueno(Nada)
<1>1. Nada.reg \notin {"counter", "compare", "tcr"}
  BY Zenon DEF Nada, Escribe
<1>2. Nada.reg # "counter" /\ Nada.reg # "compare" /\ Nada.reg # "tcr"
  BY <1>1, Zenon
<1> QED
  BY <1>1, <1>2, Zenon DEF Ajeno, Bueno

LEMMA RearmeAjeno ==
  /\ Ajeno(Rearme, 1) /\ Bueno(Rearme)
  /\ Rearme.reg = "tcr" /\ Rearme.t = 0 /\ Rearme.v = TIMER_EN_AR
<1>1. Rearme.reg = "tcr" /\ Rearme.t = 0 /\ Rearme.v = TIMER_EN_AR
  BY DEF Rearme, Escribe
<1>2. TIMER_EN_AR.en \in BOOLEAN /\ TIMER_EN_AR.ar \in BOOLEAN
  BY DEF TIMER_EN_AR
<1>3. Ajeno(Rearme, 1)
  BY <1>1 DEF Ajeno
<1>4. Rearme.v.en \in BOOLEAN /\ Rearme.v.ar \in BOOLEAN
  BY <1>1, <1>2, Zenon
<1>5. Bueno(Rearme)
  BY <1>1, <1>4 DEF Bueno
<1> QED
  BY <1>1, <1>3, <1>5

\* The tick's counter, once it runs.
LEMMA Corre0 ==
  ASSUME TypeOK, en[0], ar[0], compare[0] = P, counter[0] <= P, NEW op, Timer(op),
         Ajeno(op, 0) \/ op = Rearme
  PROVE  /\ counter'[0] = IF counter[0] = P THEN 1 ELSE counter[0] + 1
         /\ trig'[0] <=> op # Rearme /\ (trig[0] \/ counter[0] = P)
         /\ en'[0] /\ ar'[0] /\ compare'[0] = P /\ counter'[0] <= P
<1>1. 0 \in {0, 1}
  OBVIOUS
<1>2. TIMER_EN_AR.en = TRUE /\ TIMER_EN_AR.ar = TRUE
  BY DEF TIMER_EN_AR
<1>3. /\ op.reg = "tcr" /\ op.t = 0 <=> op = Rearme
      /\ ~(op.reg = "counter" /\ op.t = 0) /\ ~(op.reg = "compare" /\ op.t = 0)
  BY RearmeAjeno DEF Ajeno
<1>4. /\ counter'[0] = IF ar[0] /\ counter[0] = compare[0] THEN 1
                       ELSE IF en[0] /\ counter[0] # compare[0] THEN (counter[0] + 1) % MOD
                       ELSE counter[0]
      /\ trig'[0] = (op # Rearme /\ (trig[0] \/ (en[0] /\ counter[0] = compare[0])))
      /\ en'[0] = IF op = Rearme THEN op.v.en ELSE en[0] /\ (ar[0] \/ counter[0] # compare[0])
      /\ ar'[0] = IF op = Rearme THEN op.v.ar ELSE ar[0]
      /\ compare'[0] = compare[0]
  <2>1. /\ counter'[0] = IF ar[0] /\ counter[0] = compare[0] THEN 1
                         ELSE IF en[0] /\ counter[0] # compare[0] THEN (counter[0] + 1) % MOD
                         ELSE counter[0]
        /\ compare'[0] = compare[0]
    BY <1>1, <1>3, Reloj
  <2>2. trig'[0] = (op # Rearme /\ (trig[0] \/ (en[0] /\ counter[0] = compare[0])))
    BY <1>1, <1>3, Reloj
  <2>3. en'[0] = IF op = Rearme THEN op.v.en ELSE en[0] /\ (ar[0] \/ counter[0] # compare[0])
    BY <1>1, <1>3, Reloj
  <2>4. ar'[0] = IF op = Rearme THEN op.v.ar ELSE ar[0]
    BY <1>1, <1>3, Reloj
  <2> QED
    BY <2>1, <2>2, <2>3, <2>4, Zenon
<1>5. /\ P \in Nat /\ P < MOD /\ P >= 1 /\ MOD \in Nat /\ counter[0] \in Nat
      /\ trig[0] \in BOOLEAN
  BY Hechos, Numeros_de_la_placa
<1>6. counter[0] # P => (counter[0] + 1) % MOD = counter[0] + 1
  BY <1>5
<1>7. /\ counter'[0] = IF counter[0] = P THEN 1 ELSE counter[0] + 1
      /\ counter'[0] <= P
  BY <1>4, <1>5, <1>6
<1>8. trig'[0] <=> op # Rearme /\ (trig[0] \/ counter[0] = P)
  BY <1>4, Zenon
<1>9. en'[0] /\ ar'[0] /\ compare'[0] = P
  BY <1>2, <1>4, RearmeAjeno, Zenon
<1> QED
  BY <1>7, <1>8, <1>9

\* msleep's counter, in a cycle in which nobody writes it.
LEMMA Corre1 ==
  ASSUME TypeOK, ~ar[1], NEW op, Timer(op), Ajeno(op, 1)
  PROVE  /\ ~ar'[1] /\ compare'[1] = compare[1]
         /\ en'[1] <=> en[1] /\ counter[1] # compare[1]
         /\ trig'[1] <=> trig[1] \/ (en[1] /\ counter[1] = compare[1])
         /\ counter'[1] = IF en[1] /\ counter[1] # compare[1] THEN (counter[1] + 1) % MOD
                          ELSE counter[1]
<1>1. 1 \in {0, 1}
  OBVIOUS
<1>2. /\ ~(op.reg = "tcr" /\ op.t = 1) /\ ~(op.reg = "counter" /\ op.t = 1)
      /\ ~(op.reg = "compare" /\ op.t = 1)
  BY DEF Ajeno
<1>3. /\ counter'[1] = IF ar[1] /\ counter[1] = compare[1] THEN 1
                       ELSE IF en[1] /\ counter[1] # compare[1] THEN (counter[1] + 1) % MOD
                       ELSE counter[1]
      /\ trig'[1] = (trig[1] \/ (en[1] /\ counter[1] = compare[1]))
      /\ en'[1] = (en[1] /\ (ar[1] \/ counter[1] # compare[1]))
      /\ ar'[1] = ar[1]
      /\ compare'[1] = compare[1]
  BY <1>1, <1>2, Reloj
<1> QED
  BY <1>3, Zenon
-----------------------------------------------------------------------------
(* A cycle of the machine. *)

LEMMA Linea_de_tic ==
  ASSUME TypeOK, NEW op, NEW e, NEW b, Dispositivos(op, e, b)
  PROVE  TIC \in ip' <=> TIC \notin b /\ (TIC \in ip \/ trig[0])
<1>1. TIC \in Lineas_altas <=> trig[0]
  BY DEF Lineas_altas, LineaDe, TIC
<1>2. ip' = (ip \cup Lineas_altas) \ b
  BY DEF Dispositivos
<1> QED
  BY <1>1, <1>2

\* The tick's counter runs from the eighth place on.
LEMMA EnMarcha ==
  ASSUME TypeOK, Puesta, mi > 7, NEW op, NEW e, NEW b, Dispositivos(op, e, b),
         Ajeno(op, 0) \/ op = Rearme
  PROVE  /\ counter'[0] = IF counter[0] = P THEN 1 ELSE counter[0] + 1
         /\ trig'[0] <=> op # Rearme /\ (trig[0] \/ counter[0] = P)
         /\ en'[0] /\ ar'[0] /\ compare'[0] = P /\ counter'[0] <= P
         /\ ticks' = IF counter[0] = P THEN Suma(ticks, TOPE) ELSE ticks
<1>1. mi \in Nat /\ mi > 5
  BY Hechos, Sitios
<1>2. en[0] /\ ar[0] /\ compare[0] = P /\ counter[0] <= P
  BY <1>1 DEF Puesta
<1>3. Timer(op) /\ ticks' = IF en[0] /\ match(0) THEN Suma(ticks, TOPE) ELSE ticks
  BY DEF Dispositivos
<1>4. ticks' = IF counter[0] = P THEN Suma(ticks, TOPE) ELSE ticks
  BY <1>2, <1>3, Zenon DEF match
<1>5. /\ counter'[0] = IF counter[0] = P THEN 1 ELSE counter[0] + 1
      /\ trig'[0] <=> op # Rearme /\ (trig[0] \/ counter[0] = P)
      /\ en'[0] /\ ar'[0] /\ compare'[0] = P /\ counter'[0] <= P
  BY <1>2, <1>3, Corre0, Zenon
<1> QED
  BY <1>4, <1>5

\* When the tick comes, the handler of the one before has ended.
LEMMA Casa ==
  ASSUME TypeOK, Puesta, Manejador, mi > 7, counter[0] = P
  PROVE  hpc = "no" /\ ~trig[0] /\ TIC \notin ip /\ mi > 10
<1>1. /\ counter[0] \in Nat /\ quieto \in 0..RETRASO /\ T \in Nat /\ T = RETRASO + 1
      /\ RETRASO \in Nat /\ P >= 8 * T + 2 /\ mi \in Nat
  BY Hechos, Numeros_de_la_placa, Sitios
<1>2. counter[0] - quieto > 2 + 6 * T
  BY <1>1
<1>3. mi > 10
  <2> SUFFICES ASSUME mi <= 10 PROVE FALSE
    BY <1>1
  <2>1. mi \in 8..10
    BY <1>1
  <2>2. counter[0] - quieto <= (mi - 8) * T
    BY <2>1 DEF Puesta
  <2>3. CASE mi = 8
    BY <1>1, <1>2, <2>2, <2>3
  <2>4. CASE mi = 9
    BY <1>1, <1>2, <2>2, <2>4
  <2>5. CASE mi = 10
    BY <1>1, <1>2, <2>2, <2>5
  <2> QED
    BY <2>1, <2>3, <2>4, <2>5
<1>4. hpc = "no"
  <2> SUFFICES ASSUME hpc # "no" PROVE FALSE
    OBVIOUS
  <2>1. counter[0] - quieto <= 2 + Cota
    BY DEF Manejador
  <2>2. pend \subseteq {0, TIC} /\ hpc \in {"irq_handler", "tic_isr", "rearma", "eret"}
    BY DEF TypeOK, Lineas
  <2>3. Cota \in {T, 2 * T, 3 * T, 4 * T, 5 * T, 6 * T}
    BY <2>2 DEF Cota
  <2> QED
    BY <1>1, <1>2, <2>1, <2>3
<1>5. ~trig[0]
  <2> SUFFICES ASSUME trig[0] PROVE FALSE
    OBVIOUS
  <2>1. counter[0] - quieto <= 2
    BY <1>4 DEF Manejador
  <2> QED
    BY <1>1, <1>2, <2>1
<1> QED
  BY <1>3, <1>4, <1>5 DEF Manejador

\* A poll that has to be repeated.
Repite == \/ Ahora.op = "sondeo" /\ ~trig[1]
          \/ Ahora.op = "ucr" /\ tx_busy # 0

\* What a step of main does, whichever it is.
Efecto(op, e) ==
  /\ hpc = "no" /\ hpc' = "no" /\ pend' = pend /\ quieto' = 0
  /\ ~Interrumpe /\ Dispositivos(op, e, {})
  /\ IF Ahora.op = "bus" THEN op = Ahora.a ELSE op = Nada
  /\ e <=> Ahora.op = "rxtx"
  /\ Ahora.op \in {"ucr", "rxtx", "sondeo", "bus"} => quieto > 0
  /\ IF Repite THEN mi' = mi ELSE Avanza
  /\ isr_table' = IF Ahora.op = "isr_init" THEN [l \in Lineas |-> "isr_null"]
                  ELSE IF Ahora.op = "isr_register" THEN [isr_table EXCEPT ![TIC] = "tic_isr"]
                  ELSE isr_table
  /\ im' = IF Ahora.op = "irq_set_mask" THEN Ahora.a ELSE im
  /\ IF Ahora.op = "irq_enable" THEN ie' = TRUE ELSE ie' = ie
  /\ tic_msec' = IF Ahora.op = "tic_msec" THEN 0 ELSE tic_msec
  /\ val' = IF Ahora.op = "lee" THEN tic_msec ELSE val
  /\ IF Ahora.op = "lee" THEN salida' = <<>>
     ELSE IF Ahora.op = "rxtx" THEN Putchar ELSE salida' = salida

LEMMA DeMain == ASSUME Main PROVE \E op, e : Efecto(op, e)
<1>1. CASE EscribeRegistro
  <2>1. Efecto(Ahora.a, FALSE)
    BY <1>1 DEF EscribeRegistro, Efecto, EnMain, Acceso, Paso, Repite
  <2> QED
    BY <2>1, Zenon
<1>2. CASE Duerme
  <2>1. Efecto(Nada, FALSE)
    BY <1>2 DEF Duerme, Sondea, Efecto, EnMain, Acceso, Paso, Repite
  <2> QED
    BY <2>1, Zenon
<1>3. CASE EsperaUart
  <2>1. Efecto(Nada, FALSE)
    BY <1>3 DEF EsperaUart, Sondea, Efecto, EnMain, Acceso, Paso, Repite
  <2> QED
    BY <2>1, Zenon
<1>4. CASE Putchar
  <2>1. /\ EnMain("rxtx") /\ Acceso /\ Avanza /\ Dispositivos(Nada, TRUE, {})
        /\ UNCHANGED <<val, out, hpc, pend, ie, im, isr_table, tic_msec>>
    BY <1>4 DEF Putchar
  <2>2. Efecto(Nada, TRUE)
    BY <1>4, <2>1 DEF Efecto, EnMain, Acceso, Paso, Repite
  <2> QED
    BY <2>2, Zenon
<1>5. CASE IsrInit
  <2>1. Efecto(Nada, FALSE)
    BY <1>5 DEF IsrInit, Instruccion, Efecto, EnMain, Acceso, Paso, Repite
  <2> QED
    BY <2>1, Zenon
<1>6. CASE IsrRegister
  <2>1. Efecto(Nada, FALSE)
    BY <1>6 DEF IsrRegister, Instruccion, Efecto, EnMain, Acceso, Paso, Repite
  <2> QED
    BY <2>1, Zenon
<1>7. CASE TicCero
  <2>1. Efecto(Nada, FALSE)
    BY <1>7 DEF TicCero, Instruccion, Efecto, EnMain, Acceso, Paso, Repite
  <2> QED
    BY <2>1, Zenon
<1>8. CASE IrqSetMask
  <2>1. Efecto(Nada, FALSE)
    BY <1>8 DEF IrqSetMask, Instruccion, Efecto, EnMain, Acceso, Paso, Repite
  <2> QED
    BY <2>1, Zenon
<1>9. CASE IrqEnable
  <2>1. Efecto(Nada, FALSE)
    BY <1>9 DEF IrqEnable, Instruccion, Efecto, EnMain, Acceso, Paso, Repite
  <2> QED
    BY <2>1, Zenon
<1>10. CASE LeeTic
  <2>1. Efecto(Nada, FALSE)
    BY <1>10 DEF LeeTic, Instruccion, Efecto, EnMain, Acceso, Paso, Repite
  <2> QED
    BY <2>1, Zenon
<1>11. CASE Escrito
  <2>1. Efecto(Nada, FALSE)
    BY <1>11 DEF Escrito, Instruccion, Efecto, EnMain, Acceso, Paso, Repite
  <2> QED
    BY <2>1, Zenon
<1>12. CASE PonGpio
  <2>1. Efecto(Nada, FALSE)
    BY <1>12 DEF PonGpio, Instruccion, Efecto, EnMain, Acceso, Paso, Repite
  <2> QED
    BY <2>1, Zenon
<1> QED
  BY <1>1, <1>2, <1>3, <1>4, <1>5, <1>6, <1>7, <1>8, <1>9, <1>10, <1>11, <1>12 DEF Main

LEMMA Lugares ==
  ASSUME NEW i \in 1..NF
  PROVE  /\ Programa[i].op = "isr_init" <=> i = 3
         /\ Programa[i].op = "tic_msec" <=> i = 4
         /\ Programa[i].op = "isr_register" <=> i = 8
         /\ Programa[i].op = "irq_set_mask" <=> i = 9
         /\ Programa[i].op = "irq_enable" <=> i = 10
         /\ Programa[i].op = "bus" /\ i <= 12 =>
              \/ i = 5 /\ Escribe_alli(i, "compare", 0, P)
              \/ i = 6 /\ Escribe_alli(i, "counter", 0, 0)
              \/ i = 7 /\ Escribe_alli(i, "tcr", 0, TIMER_EN_AR)
         /\ Programa[i].op = "bus" /\ i > 12 =>
              \/ Escribe_alli(i, "compare", 1, D)
              \/ Escribe_alli(i, "counter", 1, 0)
              \/ Escribe_alli(i, "tcr", 1, TIMER_EN)
         /\ Programa[i].op \in {"lee", "escrito", "gpio", "sondeo"} => i > 12
<1>1. i \in 1..12 \/ i \in 13..NF
  BY Sitios
<1>2. CASE i \in 1..12
  BY <1>2, Empieza DEF Escribe_alli
<1>3. CASE i \in 13..NF
  BY <1>3, Clases, Sitios
<1> QED
  BY <1>1, <1>2, <1>3

LEMMA Acceso_de_main ==
  ASSUME TypeOK, NEW op, NEW e, Efecto(op, e)
  PROVE  /\ Bueno(op)
         /\ mi > 7 => Ajeno(op, 0) /\ op # Rearme
         /\ mi <= 12 => Ajeno(op, 1)
         /\ Ahora.op # "bus" => op = Nada
         /\ Ahora.op = "bus" /\ mi <= 12 =>
              \/ mi = 5 /\ op.reg = "compare" /\ op.t = 0 /\ op.v = P
              \/ mi = 6 /\ op.reg = "counter" /\ op.t = 0 /\ op.v = 0
              \/ mi = 7 /\ op.reg = "tcr" /\ op.t = 0 /\ op.v = TIMER_EN_AR
         /\ Ahora.op = "bus" /\ mi > 12 =>
              \/ op.reg = "compare" /\ op.t = 1 /\ op.v = D
              \/ op.reg = "counter" /\ op.t = 1 /\ op.v = 0
              \/ op.reg = "tcr" /\ op.t = 1 /\ op.v = TIMER_EN
<1>1. IF Programa[mi].op = "bus" THEN op = Programa[mi].a ELSE op = Nada
  BY DEF Efecto, Ahora
<1>2. CASE Ahora.op # "bus"
  <2>1. op = Nada
    BY <1>1, <1>2, Zenon DEF Ahora
  <2>2. Nada # Rearme
    <3>1. Nada.reg # "tcr"
      BY Zenon DEF Nada, Escribe
    <3> QED
      BY <3>1, RearmeAjeno, Zenon
  <2> QED
    BY <1>2, <2>1, <2>2, NadaAjena, Zenon
<1>3. CASE Ahora.op = "bus"
  <2>1. op = Programa[mi].a /\ Programa[mi].op = "bus"
    BY <1>1, <1>3, Zenon DEF Ahora
  <2>2. mi \in 1..NF /\ mi \in Nat
    BY Hechos, Sitios
  <2>3. mi <= 12 => \/ mi = 5 /\ op.reg = "compare" /\ op.t = 0 /\ op.v = P
                    \/ mi = 6 /\ op.reg = "counter" /\ op.t = 0 /\ op.v = 0
                    \/ mi = 7 /\ op.reg = "tcr" /\ op.t = 0 /\ op.v = TIMER_EN_AR
    <3>1. mi <= 12 => \/ mi = 5 /\ Escribe_alli(mi, "compare", 0, P)
                      \/ mi = 6 /\ Escribe_alli(mi, "counter", 0, 0)
                      \/ mi = 7 /\ Escribe_alli(mi, "tcr", 0, TIMER_EN_AR)
      BY <2>1, <2>2, Lugares, Zenon
    <3> QED
      BY <2>1, <3>1, Zenon DEF Escribe_alli
  <2>4. mi > 12 => \/ op.reg = "compare" /\ op.t = 1 /\ op.v = D
                   \/ op.reg = "counter" /\ op.t = 1 /\ op.v = 0
                   \/ op.reg = "tcr" /\ op.t = 1 /\ op.v = TIMER_EN
    <3>1. mi > 12 => \/ Escribe_alli(mi, "compare", 1, D)
                     \/ Escribe_alli(mi, "counter", 1, 0)
                     \/ Escribe_alli(mi, "tcr", 1, TIMER_EN)
      BY <2>1, <2>2, Lugares, Zenon
    <3> QED
      BY <2>1, <3>1, Zenon DEF Escribe_alli
  <2>5. /\ TIMER_EN.en \in BOOLEAN /\ TIMER_EN.ar \in BOOLEAN
        /\ TIMER_EN_AR.en \in BOOLEAN /\ TIMER_EN_AR.ar \in BOOLEAN
    BY DEF TIMER_EN, TIMER_EN_AR
  <2>6. 0 \in 0..MOD - 1 /\ P \in 0..MOD - 1 /\ D \in 0..MOD - 1
    BY Numeros_de_la_placa
  <2>7. mi <= 12 \/ mi > 12
    BY <2>2
  <2>8. Bueno(op)
    <3>1. CASE mi <= 12
      <4>1. CASE op.reg = "compare" /\ op.v = P
        BY <2>6, <4>1 DEF Bueno
      <4>2. CASE op.reg = "counter" /\ op.v = 0
        BY <2>6, <4>2 DEF Bueno
      <4>3. CASE op.reg = "tcr" /\ op.v = TIMER_EN_AR
        BY <2>5, <4>3 DEF Bueno
      <4> QED
        BY <2>3, <3>1, <4>1, <4>2, <4>3
    <3>2. CASE mi > 12
      <4>1. CASE op.reg = "compare" /\ op.v = D
        BY <2>6, <4>1 DEF Bueno
      <4>2. CASE op.reg = "counter" /\ op.v = 0
        BY <2>6, <4>2 DEF Bueno
      <4>3. CASE op.reg = "tcr" /\ op.v = TIMER_EN
        BY <2>5, <4>3 DEF Bueno
      <4> QED
        BY <2>4, <3>2, <4>1, <4>2, <4>3
    <3> QED
      BY <2>7, <3>1, <3>2
  <2>9. mi > 7 => Ajeno(op, 0)
    BY <2>2, <2>3, <2>4 DEF Ajeno
  <2>10. mi <= 12 => Ajeno(op, 1)
    BY <2>3 DEF Ajeno
  <2>11. mi > 7 => op # Rearme
    BY <2>9, RearmeAjeno DEF Ajeno
  <2> QED
    BY <1>3, <2>3, <2>4, <2>8, <2>9, <2>10, <2>11
<1> QED
  BY <1>2, <1>3

LEMMA Adelante == ASSUME TypeOK, Avanza PROVE mi' = Sig(mi)
  BY Plan DEF Avanza, Sig

LEMMA Entero == ASSUME TypeOK PROVE mi \in 1..NF /\ mi \in Nat
  BY Hechos, Sitios

\* A repeated poll is none of the start's steps but a wait for the UART.
LEMMA Avance ==
  ASSUME TypeOK, NEW op, NEW e, Efecto(op, e)
  PROVE  /\ mi' = mi \/ mi' = Sig(mi)
         /\ mi' = mi => Ahora.op \in {"sondeo", "ucr"}
         /\ mi' \in 1..NF
<1>1. mi \in 1..NF /\ Sig(mi) \in 1..NF /\ Sig(mi) # mi
  BY Entero, Tras, Sitios DEF Sig
<1>2. IF Repite THEN mi' = mi ELSE mi' = Sig(mi)
  BY Adelante, Zenon DEF Efecto
<1> QED
  BY <1>1, <1>2 DEF Repite

\* While no tick has come, none is due.
LEMMA Parado ==
  ASSUME TypeOK, Puesta, mi <= 10, NEW op, NEW e, NEW b, Dispositivos(op, e, b),
         mi > 7 => Ajeno(op, 0), Manejador
  PROVE  TIC \notin ip' /\ ~trig'[0] /\ ticks' = 0
<1>1. TIC \notin ip /\ ~trig[0] /\ ticks = 0 /\ mi \in Nat
  BY Entero DEF Puesta
<1>2. TIC \notin ip'
  BY <1>1, Linea_de_tic, Zenon
<1>3. CASE mi <= 7
  <2>1. ~en[0]
    BY <1>3 DEF Puesta
  <2>2. 0 \in {0, 1}
    OBVIOUS
  <2>3. ~trig'[0]
    <3>1. Timer(op)
      BY DEF Dispositivos
    <3>2. trig'[0] = (~(op.reg = "tcr" /\ op.t = 0)
                      /\ (trig[0] \/ (en[0] /\ counter[0] = compare[0])))
      BY <2>2, <3>1, Reloj, Zenon
    <3> QED
      BY <1>1, <2>1, <3>2, Zenon
  <2>4. ticks' = 0
    BY <1>1, <2>1 DEF Dispositivos
  <2> QED
    BY <1>2, <2>3, <2>4
<1>4. CASE mi > 7
  <2>1. counter[0] # P
    BY <1>1, <1>4, Casa
  <2>2. /\ trig'[0] <=> op # Rearme /\ (trig[0] \/ counter[0] = P)
        /\ ticks' = IF counter[0] = P THEN Suma(ticks, TOPE) ELSE ticks
    BY <1>4, EnMarcha, Zenon
  <2> QED
    BY <1>1, <1>2, <2>1, <2>2, Zenon
<1> QED
  BY <1>1, <1>3, <1>4

\* The tick's counter, before it runs and while nobody writes it.
LEMMA Parado0 ==
  ASSUME TypeOK, ~en[0], ~ar[0], NEW op, Timer(op), Ajeno(op, 0)
  PROVE  ~en'[0] /\ ~ar'[0] /\ counter'[0] = counter[0] /\ compare'[0] = compare[0]
<1>1. 0 \in {0, 1}
  OBVIOUS
<1>2. /\ ~(op.reg = "tcr" /\ op.t = 0) /\ ~(op.reg = "counter" /\ op.t = 0)
      /\ ~(op.reg = "compare" /\ op.t = 0)
  BY DEF Ajeno
<1>3. /\ counter'[0] = IF ar[0] /\ counter[0] = compare[0] THEN 1
                       ELSE IF en[0] /\ counter[0] # compare[0] THEN (counter[0] + 1) % MOD
                       ELSE counter[0]
      /\ en'[0] = (en[0] /\ (ar[0] \/ counter[0] # compare[0]))
      /\ ar'[0] = ar[0] /\ compare'[0] = compare[0]
  BY <1>1, <1>2, Reloj
<1> QED
  BY <1>3, Zenon

\* How the tick's counter comes to run.
LEMMA Arranca ==
  ASSUME TypeOK, Puesta, mi <= 7, NEW op, NEW e, Efecto(op, e)
  PROVE  /\ mi' <= 7 => ~en'[0] /\ ~ar'[0]
         /\ mi' > 5 => compare'[0] = P
         /\ mi' = 7 => counter'[0] = 0
         /\ mi' > 7 => mi' = 8 /\ en'[0] /\ ar'[0] /\ counter'[0] = 0
<1>1. mi \in 1..7 /\ mi \in Nat /\ mi <= 12 /\ ~en[0] /\ ~ar[0] /\ 0 \in {0, 1}
  BY Entero DEF Puesta
<1>2. Timer(op) /\ quieto' = 0
  BY DEF Efecto, Dispositivos
<1>3. /\ mi' = mi \/ mi' = mi + 1
      /\ mi' = mi => Ahora.op \in {"sondeo", "ucr"}
      /\ mi \in 1..NF
  <2>1. Sig(mi) = mi + 1
    BY <1>1, Sitios DEF Sig
  <2> QED
    BY <2>1, Avance, Entero, Zenon
<1>4. Ahora.op = "bus" <=> mi \in {5, 6, 7}
  BY <1>1, Empieza DEF Ahora, Escribe_alli
<1>5. CASE mi \in 1..4
  <2>1. op = Nada
    BY <1>4, <1>5, Acceso_de_main
  <2>2. Ajeno(op, 0)
    BY <2>1, NadaAjena, Zenon
  <2>3. ~en'[0] /\ ~ar'[0]
    BY <1>1, <1>2, <2>2, Parado0, Zenon
  <2> QED
    BY <1>3, <1>5, <2>3
<1>6. CASE mi = 5
  <2>1. op.reg = "compare" /\ op.t = 0 /\ op.v = P
    BY <1>1, <1>4, <1>6, Acceso_de_main
  <2>2. op.reg # "tcr"
    BY <2>1
  <2>3. /\ en'[0] = (en[0] /\ (ar[0] \/ counter[0] # compare[0]))
        /\ ar'[0] = ar[0] /\ compare'[0] = P
    BY <1>1, <1>2, <2>1, <2>2, Reloj, Zenon
  <2>4. ~en'[0] /\ ~ar'[0]
    BY <1>1, <2>3, Zenon
  <2>5. mi' \in {5, 6}
    BY <1>3, <1>6
  <2> QED
    BY <2>3, <2>4, <2>5
<1>7. CASE mi = 6
  <2>1. op.reg = "counter" /\ op.t = 0 /\ op.v = 0
    BY <1>1, <1>4, <1>7, Acceso_de_main
  <2>2. op.reg # "tcr" /\ op.reg # "compare" /\ compare[0] = P
    BY <1>7, <2>1 DEF Puesta
  <2>3. /\ en'[0] = (en[0] /\ (ar[0] \/ counter[0] # compare[0]))
        /\ ar'[0] = ar[0] /\ compare'[0] = P /\ counter'[0] = 0
    BY <1>1, <1>2, <2>1, <2>2, Reloj, Zenon
  <2>4. mi' \in {6, 7}
    BY <1>3, <1>7
  <2>5. ~en'[0] /\ ~ar'[0]
    BY <1>1, <2>3, Zenon
  <2> QED
    BY <2>3, <2>4, <2>5
<1>8. CASE mi = 7
  <2>1. op.reg = "tcr" /\ op.t = 0 /\ op.v = TIMER_EN_AR
    BY <1>1, <1>4, <1>8, Acceso_de_main
  <2>2. op.reg # "counter" /\ op.reg # "compare" /\ compare[0] = P /\ counter[0] = 0
    BY <1>8, <2>1 DEF Puesta
  <2>3. TIMER_EN_AR.en = TRUE /\ TIMER_EN_AR.ar = TRUE
    BY DEF TIMER_EN_AR
  <2>4. en'[0] /\ ar'[0]
    BY <1>1, <1>2, <2>1, <2>3, Reloj, Zenon
  <2>5. compare'[0] = P /\ counter'[0] = 0
    BY <1>1, <1>2, <2>2, Reloj, Zenon
  <2>6. mi' = 8
    BY <1>3, <1>4, <1>8
  <2> QED
    BY <2>4, <2>5, <2>6
<1> QED
  BY <1>1, <1>5, <1>6, <1>7, <1>8

LEMMA PuestaMain ==
  ASSUME TypeOK, Puesta, Manejador, NEW op, NEW e, Efecto(op, e)
  PROVE  Puesta'
<1>1. mi \in 1..NF /\ mi \in Nat /\ T \in Nat /\ T = RETRASO + 1 /\ RETRASO \in Nat
  BY Entero, Numeros_de_la_placa
<1>2. /\ mi' = mi \/ mi' = Sig(mi)
      /\ mi' = mi => Ahora.op \in {"sondeo", "ucr"}
      /\ mi' \in Nat
  BY Avance, Sitios
<1>3. /\ mi <= 12 => Sig(mi) = mi + 1
      /\ mi > 12 => Sig(mi) > 13
  BY <1>1, Tras, Zenon
<1>4. /\ Ahora.op = "isr_init" <=> mi = 3
      /\ Ahora.op = "tic_msec" <=> mi = 4
      /\ Ahora.op = "isr_register" <=> mi = 8
      /\ Ahora.op = "irq_set_mask" <=> mi = 9
      /\ Ahora.op = "irq_enable" <=> mi = 10
  BY <1>1, Lugares DEF Ahora
<1>5. hpc = "no" /\ hpc' = "no" /\ quieto' = 0 /\ Dispositivos(op, e, {})
  BY DEF Efecto
<1>6. isr_table' = IF mi = 3 THEN [l \in Lineas |-> "isr_null"]
                   ELSE IF mi = 8 THEN [isr_table EXCEPT ![TIC] = "tic_isr"]
                   ELSE isr_table
  BY <1>4, Zenon DEF Efecto
<1>7. \/ mi \in {3, 8} /\ mi' = mi + 1
      \/ mi \notin {3, 8} /\ isr_table' = isr_table
  BY <1>2, <1>3, <1>4, <1>6
<1>8. (\A l \in Lineas : mi' > 3 => isr_table'[l] # "nada")
      /\ (mi' > 8 => isr_table'[1] = "tic_isr") /\ isr_table'[0] # "tic_isr"
  <2>1. isr_table \in [{0, 1} -> {"nada", "isr_null", "tic_isr"}] /\ Lineas = {0, 1} /\ TIC = 1
    BY DEF TypeOK, Lineas, TIC
  <2>2. CASE mi = 3
    BY <1>6, <1>7, <2>1, <2>2
  <2>3. CASE mi = 8
    <3>1. \A l \in Lineas : isr_table[l] # "nada"
      BY <2>3 DEF Puesta
    <3>2. isr_table' = [isr_table EXCEPT ![1] = "tic_isr"]
      BY <1>6, <2>1, <2>3
    <3> QED
      BY <2>1, <2>3, <3>1, <3>2 DEF Puesta
  <2>4. CASE mi \notin {3, 8}
    <3>1. isr_table' = isr_table
      BY <1>7, <2>4
    <3>2. (mi' > 3 => mi > 3) /\ (mi' > 8 => mi > 8)
      BY <1>1, <1>2, <1>3, <2>4
    <3> QED
      BY <3>1, <3>2 DEF Puesta
  <2> QED
    BY <2>2, <2>3, <2>4
<1>9. im' = IF mi' <= 9 THEN {} ELSE {TIC}
  <2>1. mi = 9 => Ahora.a = {TIC}
    BY Empieza DEF Ahora
  <2>2. im' = IF mi = 9 THEN {TIC} ELSE im
    BY <1>4, <2>1, Zenon DEF Efecto
  <2>3. im = IF mi <= 9 THEN {} ELSE {TIC}
    BY DEF Puesta
  <2>4. mi = 9 => mi' = 10
    BY <1>2, <1>3, <1>4
  <2>5. mi # 9 => (mi' <= 9 <=> mi <= 9)
    BY <1>1, <1>2, <1>3
  <2> QED
    BY <1>1, <1>2, <2>2, <2>3, <2>4, <2>5
<1>10. ie' <=> mi' > 10 /\ hpc' = "no"
  <2>1. ie <=> mi > 10
    BY <1>5 DEF Puesta
  <2>2. CASE mi = 10
    <3>1. ie' = TRUE
      BY <1>4, <2>2, Zenon DEF Efecto
    <3>2. mi' = 11
      BY <1>2, <1>3, <1>4, <2>2
    <3> QED
      BY <1>5, <3>1, <3>2
  <2>3. CASE mi # 10
    <3>1. ie' = ie
      BY <1>4, <2>3, Zenon DEF Efecto
    <3>2. mi' > 10 <=> mi > 10
      BY <1>1, <1>2, <1>3, <2>3
    <3> QED
      BY <1>5, <2>1, <3>1, <3>2, Zenon
  <2> QED
    BY <2>2, <2>3
<1>11. mi' <= 10 => /\ hpc' = "no" /\ TIC \notin ip' /\ ~trig'[0]
                    /\ ticks' = 0 /\ tic_msec' = 0
  <2> SUFFICES ASSUME mi' <= 10
               PROVE  TIC \notin ip' /\ ~trig'[0] /\ ticks' = 0 /\ tic_msec' = 0
    BY <1>5
  <2>1. mi <= 10
    BY <1>1, <1>2, <1>3
  <2>2. TIC \notin ip' /\ ~trig'[0] /\ ticks' = 0
    BY <1>5, <2>1, Acceso_de_main, Parado, Zenon
  <2>3. tic_msec' = 0
    <3>1. tic_msec = 0
      BY <2>1 DEF Puesta
    <3>2. tic_msec' = IF Ahora.op = "tic_msec" THEN 0 ELSE tic_msec
      BY DEF Efecto
    <3> QED
      BY <3>1, <3>2, Zenon
  <2> QED
    BY <2>2, <2>3
<1>12. /\ mi' > 5 => compare'[0] = P
       /\ mi' <= 7 => ~en'[0] /\ ~ar'[0]
       /\ mi' = 7 => counter'[0] = 0
       /\ mi' > 7 => en'[0] /\ ar'[0] /\ counter'[0] <= P
       /\ mi' \in 8..10 => counter'[0] - quieto' <= (mi' - 8) * T
  <2>1. P \in Nat
    BY Numeros_de_la_placa
  <2>2. CASE mi <= 7
    <3>1. /\ mi' <= 7 => ~en'[0] /\ ~ar'[0]
          /\ mi' > 5 => compare'[0] = P
          /\ mi' = 7 => counter'[0] = 0
          /\ mi' > 7 => mi' = 8 /\ en'[0] /\ ar'[0] /\ counter'[0] = 0
      BY <2>2, Arranca, Zenon
    <3>2. CASE mi' <= 7
      BY <1>2, <3>1, <3>2
    <3>3. CASE mi' > 7
      <4>1. mi' = 8 /\ en'[0] /\ ar'[0] /\ counter'[0] = 0 /\ compare'[0] = P
        BY <1>2, <3>1, <3>3
      <4>2. (8 - 8) * T = 0
        BY <1>1
      <4> QED
        BY <1>5, <2>1, <4>1, <4>2
    <3> QED
      BY <1>2, <3>2, <3>3
  <2>3. CASE mi > 7
    <3>1. /\ counter'[0] = IF counter[0] = P THEN 1 ELSE counter[0] + 1
          /\ en'[0] /\ ar'[0] /\ compare'[0] = P /\ counter'[0] <= P
      BY <1>5, <2>3, Acceso_de_main, EnMarcha, Zenon
    <3>2. mi' > 7
      BY <1>1, <1>2, <1>3, <2>3
    <3>3. mi' \in 8..10 => counter'[0] - quieto' <= (mi' - 8) * T
      <4> SUFFICES ASSUME mi' \in 8..10 PROVE counter'[0] <= (mi' - 8) * T
        BY <1>5, <3>1, Hechos, <2>1
      <4>1. mi \in 8..9 /\ mi' = mi + 1
        <5>1. mi \in 8..10
          BY <1>1, <1>2, <1>3, <2>3
        <5>2. Ahora.op \notin {"sondeo", "ucr"}
          BY <5>1, Empieza DEF Ahora
        <5> QED
          BY <1>2, <1>3, <5>1, <5>2
      <4>2. counter[0] # P
        BY <1>1, <2>3, <4>1, Casa
      <4>3. counter[0] - quieto <= (mi - 8) * T /\ counter[0] \in Nat /\ quieto \in 0..RETRASO
        BY <4>1, Hechos DEF Puesta
      <4>4. CASE mi = 8
        <5>1. counter'[0] <= T /\ mi' = 9
          BY <1>1, <3>1, <4>1, <4>2, <4>3, <4>4
        <5> QED
          BY <1>1, <5>1
      <4>5. CASE mi = 9
        <5>1. counter'[0] <= 2 * T /\ mi' = 10
          BY <1>1, <3>1, <4>1, <4>2, <4>3, <4>5
        <5> QED
          BY <1>1, <5>1
      <4> QED
        BY <4>1, <4>4, <4>5
    <3> QED
      BY <1>2, <3>1, <3>2, <3>3
  <2> QED
    BY <1>1, <2>2, <2>3
<1> QED
  BY <1>8, <1>9, <1>10, <1>11, <1>12 DEF Puesta

\* The places of the handler, in its order.
Turno ==
  \/ hpc = "no" /\ trig[0] /\ TIC \in ip /\ hpc' = "irq_handler" /\ pend' = ip
  \/ hpc = "irq_handler" /\ 0 \in pend /\ TIC \in pend /\ hpc' = hpc /\ pend' = {TIC}
  \/ hpc = "irq_handler" /\ pend = {TIC} /\ hpc' = "tic_isr" /\ pend' = {}
  \/ hpc = "tic_isr" /\ hpc' = "rearma" /\ pend' = {}
  \/ hpc = "rearma" /\ hpc' = "irq_handler" /\ pend' = {}
  \/ hpc = "irq_handler" /\ pend = {} /\ hpc' = "eret" /\ pend' = {}
  \/ hpc = "eret" /\ hpc' = "no" /\ pend' = {} /\ TIC \notin ip'

\* What a step of the handler does, whichever it is.
Servicio(op, b) ==
  /\ mi' = mi /\ val' = val /\ im' = im /\ isr_table' = isr_table /\ salida' = salida
  /\ mi > 10 /\ quieto' = 0 /\ Dispositivos(op, FALSE, b)
  /\ IF hpc = "rearma" THEN op = Rearme ELSE op = Nada
  /\ IF hpc' = "no" THEN ie' = TRUE ELSE ie' = FALSE
  /\ tic_msec' = IF hpc = "tic_isr" THEN Suma(tic_msec, TOPE) ELSE tic_msec
  /\ Turno

LEMMA Menor ==
  ASSUME NEW S, TIC \in S, S \subseteq {0, TIC}
  PROVE  (CHOOSE x \in S : \A y \in S : x <= y) = IF 0 \in S THEN 0 ELSE TIC
<1> DEFINE m == CHOOSE x \in S : \A y \in S : x <= y
<1>1. S = {0, 1} \/ S = {1}
  BY DEF TIC
<1>2. \E x \in S : \A y \in S : x <= y
  BY <1>1
<1>3. m \in S /\ \A y \in S : m <= y
  BY <1>2
<1> HIDE DEF m
<1>4. m = IF 0 \in S THEN 0 ELSE TIC
  BY <1>1, <1>3 DEF TIC
<1> QED
  BY <1>4 DEF m

LEMMA DeIrq ==
  ASSUME TypeOK, Puesta, Manejador, Irq
  PROVE  \E op, b : Servicio(op, b)
<1>1. mi \in Nat /\ pend \subseteq {0, TIC} /\ ie \in BOOLEAN
  BY Hechos, Entero DEF TIC
<1>2. ASSUME hpc # "no" PROVE mi > 10 /\ ie = FALSE
  BY <1>1, <1>2 DEF Puesta
<1>3. CASE EntraIrq
  <2>1. /\ hpc = "no" /\ ie /\ ip \cap im # {} /\ hpc' = "irq_handler" /\ pend' = ip
        /\ ie' = FALSE /\ quieto' = 0 /\ Dispositivos(Nada, FALSE, {})
        /\ tic_msec' = tic_msec
        /\ mi' = mi /\ val' = val /\ im' = im /\ isr_table' = isr_table /\ salida' = salida
    BY <1>3 DEF EntraIrq, Interrumpe, Paso, Quieta, programa
  <2>2. mi > 10
    BY <2>1 DEF Puesta
  <2>3. TIC \in ip
    <3>1. im = {TIC}
      BY <1>1, <2>2 DEF Puesta
    <3> QED
      BY <2>1, <3>1
  <2>4. trig[0]
    BY <2>1, <2>3 DEF Manejador
  <2>5. Servicio(Nada, {})
    BY <2>1, <2>2, <2>3, <2>4 DEF Servicio, Turno
  <2> QED
    BY <2>5, Zenon
<1>4. CASE LlamaIsr
  <2>1. /\ hpc = "irq_handler" /\ quieto' = 0 /\ Dispositivos(Nada, FALSE, {})
        /\ ie' = ie /\ tic_msec' = tic_msec
        /\ mi' = mi /\ val' = val /\ im' = im /\ isr_table' = isr_table /\ salida' = salida
    BY <1>4 DEF LlamaIsr, Paso, Quieta, programa
  <2>2. mi > 10 /\ ie = FALSE
    BY <1>2, <2>1
  <2>3. Turno
    <3>1. CASE pend = {}
      BY <1>4, <3>1 DEF LlamaIsr, Turno
    <3>2. CASE pend # {}
      <4> DEFINE l == CHOOSE x \in pend : \A y \in pend : x <= y
      <4>1. TIC \in pend
        BY <2>1, <3>2 DEF Manejador
      <4>2. l = IF 0 \in pend THEN 0 ELSE TIC
        BY <1>1, <4>1, Menor, Zenon
      <4>3. /\ pend' = pend \ {l}
            /\ hpc' = CASE isr_table[l] = "tic_isr" -> "tic_isr"
                        [] isr_table[l] = "isr_null" -> hpc
                        [] OTHER -> "perdido"
        BY <1>4, <3>2, Zenon DEF LlamaIsr
      <4> HIDE DEF l
      <4>4. CASE 0 \in pend
        <5>1. isr_table[0] = "isr_null"
          <6>1. 0 \in Lineas /\ isr_table \in [Lineas -> {"nada", "isr_null", "tic_isr"}]
            BY DEF TypeOK, Lineas
          <6>2. isr_table[0] # "nada" /\ isr_table[0] # "tic_isr"
            BY <1>1, <2>2, <6>1 DEF Puesta
          <6> QED
            BY <6>1, <6>2
        <5>2. l = 0
          BY <4>2, <4>4
        <5>3. hpc' = hpc /\ pend' = pend \ {0}
          BY <4>3, <5>1, <5>2
        <5>4. pend' = {TIC}
          <6>1. pend = {0, TIC}
            BY <1>1, <4>1, <4>4
          <6>2. 0 # TIC
            BY DEF TIC
          <6> QED
            BY <5>3, <6>1, <6>2
        <5> QED
          BY <2>1, <4>1, <4>4, <5>3, <5>4 DEF Turno
      <4>5. CASE 0 \notin pend
        <5>1. isr_table[TIC] = "tic_isr"
          BY <1>1, <2>2 DEF Puesta, TIC
        <5>2. l = TIC
          BY <4>2, <4>5
        <5>3. hpc' = "tic_isr" /\ pend' = pend \ {TIC}
          BY <4>3, <5>1, <5>2
        <5>4. pend = {TIC} /\ pend' = {}
          BY <1>1, <4>1, <4>5, <5>3 DEF TIC
        <5> QED
          BY <2>1, <5>3, <5>4 DEF Turno
      <4> QED
        BY <4>4, <4>5
    <3> QED
      BY <3>1, <3>2
  <2>4. hpc' # "no"
    BY <2>1, <2>3 DEF Turno
  <2>5. Servicio(Nada, {})
    BY <2>1, <2>2, <2>3, <2>4 DEF Servicio
  <2> QED
    BY <2>5, Zenon
<1>5. CASE TicIsr
  <2>1. /\ hpc = "tic_isr" /\ hpc' = "rearma" /\ quieto' = 0 /\ Dispositivos(Nada, FALSE, {})
        /\ ie' = ie /\ tic_msec' = Suma(tic_msec, TOPE) /\ pend' = pend
        /\ mi' = mi /\ val' = val /\ im' = im /\ isr_table' = isr_table /\ salida' = salida
    BY <1>5 DEF TicIsr, Paso, Quieta, programa
  <2>2. pend = {}
    BY <2>1 DEF Manejador
  <2>3. Servicio(Nada, {})
    BY <1>2, <2>1, <2>2 DEF Servicio, Turno
  <2> QED
    BY <2>3, Zenon
<1>6. CASE Rearma
  <2>1. /\ hpc = "rearma" /\ hpc' = "irq_handler" /\ quieto' = 0
        /\ Dispositivos(Rearme, FALSE, {})
        /\ ie' = ie /\ tic_msec' = tic_msec /\ pend' = pend
        /\ mi' = mi /\ val' = val /\ im' = im /\ isr_table' = isr_table /\ salida' = salida
    BY <1>6 DEF Rearma, Acceso, Paso, Quieta, programa
  <2>2. pend = {}
    BY <2>1 DEF Manejador
  <2>3. Servicio(Rearme, {})
    BY <1>2, <2>1, <2>2 DEF Servicio, Turno
  <2> QED
    BY <2>3, Zenon
<1>7. CASE Eret
  <2>1. /\ hpc = "eret" /\ hpc' = "no" /\ quieto' = 0 /\ Dispositivos(Nada, FALSE, Borra)
        /\ ie' = TRUE /\ tic_msec' = tic_msec /\ pend' = pend
        /\ mi' = mi /\ val' = val /\ im' = im /\ isr_table' = isr_table /\ salida' = salida
    BY <1>7 DEF Eret, Paso, Quieta, programa
  <2>2. pend = {}
    BY <2>1 DEF Manejador
  <2>3. TIC \notin ip'
    <3>1. TIC \in Borra
      BY DEF Borra, Lineas
    <3> QED
      BY <2>1, <3>1, Linea_de_tic, Zenon
  <2>4. Servicio(Nada, Borra)
    BY <1>2, <2>1, <2>2, <2>3 DEF Servicio, Turno
  <2> QED
    BY <2>4, Zenon
<1> QED
  BY <1>3, <1>4, <1>5, <1>6, <1>7 DEF Irq

\* What a cycle does in which the processor takes no step.
Reposo ==
  /\ mi' = mi /\ val' = val /\ im' = im /\ isr_table' = isr_table /\ salida' = salida
  /\ hpc' = hpc /\ pend' = pend /\ ie' = ie /\ tic_msec' = tic_msec
  /\ quieto < RETRASO /\ quieto' = quieto + 1 /\ Dispositivos(Nada, FALSE, {})

LEMMA DeEspera == ASSUME Espera PROVE Reposo
  BY DEF Espera, Reposo, programa

LEMMA PuestaReposo ==
  ASSUME TypeOK, Puesta, Manejador, Reposo
  PROVE  Puesta'
<1>1. /\ mi' = mi /\ im' = im /\ isr_table' = isr_table /\ hpc' = hpc /\ ie' = ie
      /\ tic_msec' = tic_msec /\ quieto' = quieto + 1 /\ Dispositivos(Nada, FALSE, {})
      /\ mi \in Nat /\ quieto \in 0..RETRASO /\ counter[0] \in Nat /\ T \in Nat /\ P \in Nat
      /\ RETRASO \in Nat
  BY Entero, Hechos, Numeros_de_la_placa DEF Reposo
<1>2. Ajeno(Nada, 0) /\ Nada # Rearme /\ Timer(Nada)
  BY <1>1, NadaAjena, RearmeAjeno DEF Ajeno, Dispositivos
<1>3. /\ mi' > 3 => \A l \in Lineas : isr_table'[l] # "nada"
      /\ mi' > 8 => isr_table'[1] = "tic_isr"
      /\ isr_table'[0] # "tic_isr"
      /\ im' = IF mi' <= 9 THEN {} ELSE {TIC}
      /\ ie' <=> mi' > 10 /\ hpc' = "no"
  BY <1>1 DEF Puesta
<1>4. mi' <= 10 => /\ hpc' = "no" /\ TIC \notin ip' /\ ~trig'[0]
                   /\ ticks' = 0 /\ tic_msec' = 0
  <2> SUFFICES ASSUME mi <= 10
               PROVE  hpc = "no" /\ TIC \notin ip' /\ ~trig'[0] /\ ticks' = 0 /\ tic_msec = 0
    BY <1>1
  <2>1. TIC \notin ip' /\ ~trig'[0] /\ ticks' = 0
    BY <1>1, <1>2, Parado, Zenon
  <2> QED
    BY <2>1 DEF Puesta
<1>5. /\ mi' > 5 => compare'[0] = P
      /\ mi' <= 7 => ~en'[0] /\ ~ar'[0]
      /\ mi' = 7 => counter'[0] = 0
      /\ mi' > 7 => en'[0] /\ ar'[0] /\ counter'[0] <= P
      /\ mi' \in 8..10 => counter'[0] - quieto' <= (mi' - 8) * T
  <2>1. CASE mi <= 7
    <3>1. ~en[0] /\ ~ar[0]
      BY <2>1 DEF Puesta
    <3>2. ~en'[0] /\ ~ar'[0] /\ counter'[0] = counter[0] /\ compare'[0] = compare[0]
      BY <1>2, <3>1, Parado0, Zenon
    <3> QED
      BY <1>1, <2>1, <3>2 DEF Puesta
  <2>2. CASE mi > 7
    <3>1. /\ counter'[0] = IF counter[0] = P THEN 1 ELSE counter[0] + 1
          /\ en'[0] /\ ar'[0] /\ compare'[0] = P /\ counter'[0] <= P
      BY <1>1, <1>2, <2>2, EnMarcha, Zenon
    <3>2. mi \in 8..10 => counter'[0] - quieto' <= (mi - 8) * T
      <4> SUFFICES ASSUME mi \in 8..10 PROVE counter'[0] - quieto' <= (mi - 8) * T
        OBVIOUS
      <4>1. counter[0] # P
        BY <2>2, Casa
      <4>2. counter[0] - quieto <= (mi - 8) * T
        BY DEF Puesta
      <4>3. counter'[0] - quieto' = counter[0] - quieto
        BY <1>1, <3>1, <4>1
      <4> QED
        BY <4>2, <4>3
    <3> QED
      BY <1>1, <2>2, <3>1, <3>2
  <2> QED
    BY <1>1, <2>1, <2>2
<1> QED
  BY <1>3, <1>4, <1>5 DEF Puesta

\* The handler's steps and the tick's counter: no tick comes meanwhile.
LEMMA Atendiendo ==
  ASSUME TypeOK, Puesta, Manejador, NEW op, NEW b, Servicio(op, b)
  PROVE  /\ counter[0] # P /\ counter'[0] = counter[0] + 1
         /\ trig'[0] <=> hpc # "rearma" /\ trig[0]
         /\ en'[0] /\ ar'[0] /\ compare'[0] = P /\ counter'[0] <= P
         /\ ticks' = ticks
<1>0. mi > 10 /\ Dispositivos(op, FALSE, b) /\ Turno
  BY Zenon DEF Servicio
<1>a. mi > 7
  <2>1. mi > 10
    BY <1>0, Zenon
  <2> QED
    BY <2>1, Entero
<1>1. mi > 10 /\ mi > 7 /\ Dispositivos(op, FALSE, b) /\ Turno
  BY <1>0, <1>a, Zenon
<1>2. Ajeno(Nada, 0) /\ Nada # Rearme
  BY NadaAjena, RearmeAjeno DEF Ajeno
<1>3. (Ajeno(op, 0) \/ op = Rearme) /\ (op = Rearme <=> hpc = "rearma")
  BY <1>2, Zenon DEF Servicio
<1>4. counter[0] # P
  <2> SUFFICES ASSUME counter[0] = P PROVE FALSE
    OBVIOUS
  <2>1. hpc = "no" /\ ~trig[0]
    BY <1>1, Casa
  <2> QED
    BY <1>1, <2>1 DEF Turno
<1>5. /\ counter'[0] = IF counter[0] = P THEN 1 ELSE counter[0] + 1
      /\ trig'[0] <=> op # Rearme /\ (trig[0] \/ counter[0] = P)
      /\ en'[0] /\ ar'[0] /\ compare'[0] = P /\ counter'[0] <= P
      /\ ticks' = IF counter[0] = P THEN Suma(ticks, TOPE) ELSE ticks
  BY <1>1, <1>3, EnMarcha, Zenon
<1> QED
  BY <1>3, <1>4, <1>5, Zenon

LEMMA PuestaServicio ==
  ASSUME TypeOK, Puesta, Manejador, NEW op, NEW b, Servicio(op, b)
  PROVE  Puesta'
<1>1. mi' = mi /\ im' = im /\ isr_table' = isr_table /\ mi > 10 /\ mi \in Nat
  BY Entero DEF Servicio
<1>2. ie' <=> hpc' = "no"
  BY Zenon DEF Servicio
<1>3. en'[0] /\ ar'[0] /\ compare'[0] = P /\ counter'[0] <= P
  BY Atendiendo, Zenon
<1> QED
  BY <1>1, <1>2, <1>3 DEF Puesta
-----------------------------------------------------------------------------
(* The handler keeps its time, and the tick its count. *)

LEMMA Tiempos ==
  ASSUME TypeOK
  PROVE  /\ counter[0] \in Nat /\ quieto \in Nat /\ quieto <= RETRASO
         /\ RETRASO \in Nat /\ T \in Nat /\ T = RETRASO + 1 /\ T > 0
         /\ P \in Nat /\ P >= 8 * T + 2 /\ mi \in Nat
  BY Hechos, Entero, Numeros_de_la_placa

LEMMA ManejadorMain ==
  ASSUME TypeOK, Puesta, Manejador, NEW op, NEW e, Efecto(op, e)
  PROVE  Manejador'
<1>1. /\ hpc = "no" /\ hpc' = "no" /\ pend' = pend /\ quieto' = 0
      /\ ~Interrumpe /\ Dispositivos(op, e, {})
  BY Zenon DEF Efecto
<1>2. pend' = {}
  BY <1>1 DEF Manejador
<1>3. IF trig'[0] THEN counter'[0] - quieto' <= 2 /\ (TIC \notin ip' => counter'[0] = 1)
      ELSE TIC \notin ip'
  <2>1. CASE mi <= 10
    <3>1. TIC \notin ip' /\ ~trig'[0]
      BY <1>1, <2>1, Acceso_de_main, Parado, Zenon
    <3> QED
      BY <3>1
  <2>2. CASE mi > 10
    <3>0. mi > 7
      BY <2>2, Tiempos
    <3>1. TIC \notin ip
      BY <1>1, <2>2, Tiempos DEF Puesta, Interrumpe
    <3>2. /\ counter'[0] = IF counter[0] = P THEN 1 ELSE counter[0] + 1
          /\ trig'[0] <=> op # Rearme /\ (trig[0] \/ counter[0] = P)
          /\ op # Rearme
      BY <1>1, <3>0, Acceso_de_main, EnMarcha, Zenon
    <3>3. TIC \in ip' <=> trig[0]
      <4>1. TIC \in ip' <=> TIC \notin {} /\ (TIC \in ip \/ trig[0])
        BY <1>1, Linea_de_tic, Zenon
      <4> QED
        BY <3>1, <4>1, Zenon
    <3>4. CASE trig[0]
      <4>1. counter[0] = 1
        BY <1>1, <3>1, <3>4 DEF Manejador
      <4>2. counter'[0] = 2
        BY <3>2, <4>1, Tiempos
      <4>3. TIC \in ip' /\ trig'[0]
        BY <3>2, <3>3, <3>4, Zenon
      <4>4. counter'[0] - quieto' <= 2
        BY <1>1, <4>2
      <4> QED
        BY <4>3, <4>4, Zenon
    <3>5. CASE ~trig[0] /\ counter[0] = P
      BY <1>1, <3>2, <3>5
    <3>6. CASE ~trig[0] /\ counter[0] # P
      BY <3>2, <3>3, <3>6, Zenon
    <3> QED
      BY <3>4, <3>5, <3>6
  <2> QED
    BY <2>1, <2>2, Tiempos
<1> QED
  BY <1>1, <1>2, <1>3 DEF Manejador

LEMMA ManejadorReposo ==
  ASSUME TypeOK, Puesta, Manejador, Reposo
  PROVE  Manejador'
<1>1. /\ mi' = mi /\ hpc' = hpc /\ pend' = pend /\ quieto' = quieto + 1
      /\ Dispositivos(Nada, FALSE, {})
  BY DEF Reposo
<1>2. Ajeno(Nada, 0) /\ Nada # Rearme
  BY NadaAjena, RearmeAjeno DEF Ajeno
<1>3. /\ hpc' = "irq_handler" /\ pend' # {} => TIC \in pend'
      /\ hpc' # "irq_handler" => pend' = {}
  BY <1>1 DEF Manejador
<1>4. Cota' = Cota
  BY <1>1, Zenon DEF Cota
<1>5. CASE mi <= 7
  <2>1. TIC \notin ip' /\ ~trig'[0]
    <3>1. mi <= 10
      BY <1>5, Tiempos
    <3> QED
      BY <1>1, <1>2, <3>1, Parado, Zenon
  <2>2. hpc' = "no"
    BY <1>1, <1>5, Tiempos DEF Puesta
  <2> QED
    BY <1>3, <2>1, <2>2 DEF Manejador
<1>6. CASE mi > 7
  <2>1. /\ counter'[0] = IF counter[0] = P THEN 1 ELSE counter[0] + 1
        /\ trig'[0] <=> (trig[0] \/ counter[0] = P)
    BY <1>1, <1>2, <1>6, EnMarcha, Zenon
  <2>2. TIC \in ip' <=> (TIC \in ip \/ trig[0])
    <3>1. TIC \in ip' <=> TIC \notin {} /\ (TIC \in ip \/ trig[0])
      BY <1>1, Linea_de_tic, Zenon
    <3> QED
      BY <3>1
  <2>3. CASE counter[0] = P
    <3>1. hpc = "no" /\ ~trig[0] /\ TIC \notin ip
      BY <1>6, <2>3, Casa
    <3>2. counter'[0] = 1 /\ trig'[0] /\ hpc' = "no" /\ counter'[0] - quieto' <= 2
      BY <1>1, <2>1, <2>3, <3>1, Tiempos
    <3> QED
      BY <1>3, <3>2 DEF Manejador
  <2>4. CASE counter[0] # P
    <3>1. counter'[0] - quieto' = counter[0] - quieto /\ (trig'[0] <=> trig[0])
      BY <1>1, <2>1, <2>4, Tiempos
    <3>2. CASE hpc = "no"
      <4>1. IF trig[0] THEN counter[0] - quieto <= 2 ELSE TIC \notin ip
        BY <3>2 DEF Manejador
      <4>2. IF trig'[0] THEN counter'[0] - quieto' <= 2 /\ TIC \in ip' ELSE TIC \notin ip'
        BY <2>2, <3>1, <4>1
      <4> QED
        BY <1>1, <1>3, <3>2, <4>2 DEF Manejador
    <3>3. CASE hpc # "no"
      <4>1. counter[0] - quieto <= 2 + Cota /\ (trig[0] <=> Antes_de_rearmar)
        BY <3>3 DEF Manejador
      <4>2. Antes_de_rearmar' <=> Antes_de_rearmar
        BY <1>1, Zenon DEF Antes_de_rearmar
      <4>3. counter'[0] - quieto' <= 2 + Cota'
        BY <1>4, <3>1, <4>1
      <4>4. trig'[0] <=> Antes_de_rearmar'
        BY <3>1, <4>1, <4>2, Zenon
      <4> QED
        BY <1>1, <1>3, <3>3, <4>3, <4>4 DEF Manejador
    <3> QED
      BY <3>2, <3>3
  <2> QED
    BY <2>3, <2>4
<1> QED
  BY <1>5, <1>6, Tiempos

\* Each place of the handler is entered within its bound, if the one before was.
LEMMA Cotas ==
  ASSUME TypeOK, Manejador, Turno, NEW x \in Int,
         IF hpc = "no" THEN x <= 0 ELSE x <= Cota
  PROVE  IF hpc' = "no" THEN x + T <= 7 * T ELSE x + T <= Cota'
<1>1. T \in Nat
  BY Tiempos
<1>2. CASE hpc = "no" /\ TIC \in ip /\ hpc' = "irq_handler" /\ pend' = ip
  <2>1. x <= 0
    BY <1>2
  <2>2. Cota' = T \/ Cota' = 2 * T
    BY <1>2 DEF Cota
  <2> QED
    BY <1>1, <1>2, <2>1, <2>2
<1>3. CASE hpc = "irq_handler" /\ 0 \in pend /\ TIC \in pend /\ hpc' = hpc /\ pend' = {TIC}
  <2>1. Cota = T
    BY <1>3 DEF Cota
  <2>2. Cota' = 2 * T
    BY <1>3 DEF Cota, TIC
  <2> QED
    BY <1>1, <1>3, <2>1, <2>2
<1>4. CASE hpc = "irq_handler" /\ pend = {TIC} /\ hpc' = "tic_isr" /\ pend' = {}
  <2>1. Cota = 2 * T
    BY <1>4 DEF Cota, TIC
  <2>2. Cota' = 3 * T
    BY <1>4 DEF Cota
  <2> QED
    BY <1>1, <1>4, <2>1, <2>2
<1>5. CASE hpc = "tic_isr" /\ hpc' = "rearma" /\ pend' = {}
  <2>1. Cota = 3 * T
    BY <1>5 DEF Cota
  <2>2. Cota' = 4 * T
    BY <1>5 DEF Cota
  <2> QED
    BY <1>1, <1>5, <2>1, <2>2
<1>6. CASE hpc = "rearma" /\ hpc' = "irq_handler" /\ pend' = {}
  <2>1. Cota = 4 * T
    BY <1>6 DEF Cota
  <2>2. Cota' = 5 * T
    BY <1>6 DEF Cota
  <2> QED
    BY <1>1, <1>6, <2>1, <2>2
<1>7. CASE hpc = "irq_handler" /\ pend = {} /\ hpc' = "eret" /\ pend' = {}
  <2>1. Cota = 5 * T
    BY <1>7 DEF Cota
  <2>2. Cota' = 6 * T
    BY <1>7 DEF Cota
  <2> QED
    BY <1>1, <1>7, <2>1, <2>2
<1>8. CASE hpc = "eret" /\ hpc' = "no"
  <2>1. Cota = 6 * T
    BY <1>8 DEF Cota
  <2> QED
    BY <1>1, <1>8, <2>1
<1> QED
  BY <1>2, <1>3, <1>4, <1>5, <1>6, <1>7, <1>8 DEF Turno

LEMMA ManejadorServicio ==
  ASSUME TypeOK, Puesta, Manejador, NEW op, NEW b, Servicio(op, b)
  PROVE  Manejador'
<1>1. quieto' = 0 /\ Turno
  BY Zenon DEF Servicio
<1>2. counter'[0] = counter[0] + 1 /\ (trig'[0] <=> hpc # "rearma" /\ trig[0])
  BY Atendiendo, Zenon
<1>3. hpc # "no" => trig[0] <=> Antes_de_rearmar
  BY DEF Manejador
<1>4. /\ hpc' = "irq_handler" /\ pend' # {} => TIC \in pend'
      /\ hpc' # "irq_handler" => pend' = {}
  BY <1>1 DEF Turno
<1>5. hpc' # "no" => counter'[0] - quieto' <= 2 + Cota'
  <2> SUFFICES ASSUME hpc' # "no" PROVE counter[0] + 1 <= 2 + Cota'
    BY <1>1, <1>2, Tiempos
  <2> DEFINE x == counter[0] - quieto - 2
  <2>1. x \in Int /\ counter[0] + 1 <= 2 + (x + T)
    BY Tiempos
  <2>2. IF hpc = "no" THEN x <= 0 ELSE x <= Cota
    <3>1. CASE hpc = "no"
      <4>1. trig[0]
        BY <1>1, <3>1 DEF Turno
      <4>2. counter[0] - quieto <= 2
        BY <3>1, <4>1 DEF Manejador
      <4> QED
        BY <3>1, <4>2, Tiempos
    <3>2. CASE hpc # "no"
      <4>1. counter[0] - quieto <= 2 + Cota
        BY <3>2 DEF Manejador
      <4>2. Cota \in Int
        <5>1. pend \subseteq {0, TIC} /\ hpc \in {"irq_handler", "tic_isr", "rearma", "eret"}
          BY <3>2 DEF TypeOK, Lineas
        <5> QED
          BY <5>1, Tiempos DEF Cota
      <4> QED
        BY <3>2, <4>1, <4>2, Tiempos
    <3> QED
      BY <3>1, <3>2
  <2> HIDE DEF x
  <2>3. x + T <= Cota'
    BY <1>1, <2>1, <2>2, Cotas, Zenon
  <2>4. Cota' \in Int
    <3>1. hpc' \in {"irq_handler", "tic_isr", "rearma", "eret"}
      BY <1>1 DEF Turno
    <3>2. pend' \subseteq {0, TIC}
      BY <1>1, Hechos DEF Turno, TIC
    <3> QED
      BY <3>1, <3>2, Tiempos DEF Cota
  <2> QED
    BY <2>1, <2>3, <2>4, Tiempos
<1>6. hpc' # "no" => trig'[0] <=> Antes_de_rearmar'
  BY <1>1, <1>2, <1>3 DEF Turno, Antes_de_rearmar
<1>7. hpc' = "no" => ~trig'[0] /\ TIC \notin ip'
  <2> SUFFICES ASSUME hpc' = "no" PROVE ~trig'[0] /\ TIC \notin ip'
    OBVIOUS
  <2>1. hpc = "eret" /\ TIC \notin ip'
    BY <1>1 DEF Turno
  <2>2. pend = {}
    BY <2>1 DEF Manejador
  <2>3. ~trig[0]
    BY <1>3, <2>1, <2>2 DEF Antes_de_rearmar
  <2> QED
    BY <1>2, <2>1, <2>3
<1> QED
  BY <1>4, <1>5, <1>6, <1>7 DEF Manejador

LEMMA CuentaMain ==
  ASSUME TypeOK, Puesta, Manejador, Cuenta, NEW op, NEW e, Efecto(op, e)
  PROVE  Cuenta'
<1>1. hpc = "no" /\ hpc' = "no" /\ Dispositivos(op, e, {})
  BY Zenon DEF Efecto
<1>2. tic_msec' = IF Ahora.op = "tic_msec" THEN 0 ELSE tic_msec
  BY DEF Efecto
<1>3. CASE mi <= 10
  <2>1. ~trig'[0] /\ ticks' = 0
    BY <1>1, <1>3, Acceso_de_main, Parado, Zenon
  <2>2. tic_msec' = 0
    <3>1. tic_msec = 0
      BY <1>3 DEF Puesta
    <3> QED
      BY <1>2, <3>1
  <2> QED
    BY <2>1, <2>2, Zenon DEF Cuenta
<1>4. CASE mi > 10
  <2>1. mi > 7 /\ mi # 4
    BY <1>4, Tiempos
  <2>2. tic_msec' = tic_msec
    <3>1. Ahora.op # "tic_msec"
      BY <2>1, Entero, Lugares DEF Ahora
    <3> QED
      BY <1>2, <3>1
  <2>3. /\ trig'[0] <=> op # Rearme /\ (trig[0] \/ counter[0] = P)
        /\ ticks' = IF counter[0] = P THEN Suma(ticks, TOPE) ELSE ticks
        /\ op # Rearme
    BY <1>1, <2>1, Acceso_de_main, EnMarcha, Zenon
  <2>4. CASE counter[0] = P
    <3>1. ~trig[0]
      BY <2>1, <2>4, Casa, Zenon
    <3>2. tic_msec = ticks
      BY <3>1, Zenon DEF Cuenta
    <3>3. Suma(tic_msec', TOPE) = ticks' /\ trig'[0] /\ hpc' # "rearma"
      BY <1>1, <2>2, <2>3, <2>4, <3>2
    <3> QED
      BY <3>3, Zenon DEF Cuenta, Suma
  <2>5. CASE counter[0] # P
    <3>1. (trig'[0] <=> trig[0]) /\ ticks' = ticks
      BY <2>3, <2>5, Zenon
    <3> QED
      BY <1>1, <2>2, <3>1 DEF Cuenta, Suma
  <2> QED
    BY <2>4, <2>5
<1> QED
  BY <1>3, <1>4, Tiempos

LEMMA CuentaReposo ==
  ASSUME TypeOK, Puesta, Manejador, Cuenta, Reposo
  PROVE  Cuenta'
<1>1. hpc' = hpc /\ tic_msec' = tic_msec /\ Dispositivos(Nada, FALSE, {})
  BY DEF Reposo
<1>2. Ajeno(Nada, 0) /\ Nada # Rearme
  BY NadaAjena, RearmeAjeno DEF Ajeno
<1>3. CASE mi <= 7
  <2>0. mi <= 10
    BY <1>3, Tiempos
  <2>1. ~trig'[0] /\ ticks' = 0
    BY <1>1, <1>2, <2>0, Parado, Zenon
  <2>2. tic_msec' = 0
    BY <1>1, <2>0 DEF Puesta
  <2> QED
    BY <2>1, <2>2, Zenon DEF Cuenta
<1>4. CASE mi > 7
  <2>1. /\ trig'[0] <=> (trig[0] \/ counter[0] = P)
        /\ ticks' = IF counter[0] = P THEN Suma(ticks, TOPE) ELSE ticks
    BY <1>1, <1>2, <1>4, EnMarcha, Zenon
  <2>2. CASE counter[0] = P
    <3>1. ~trig[0] /\ hpc = "no"
      BY <1>4, <2>2, Casa, Zenon
    <3>2. tic_msec = ticks
      BY <3>1, Zenon DEF Cuenta
    <3>3. Suma(tic_msec', TOPE) = ticks' /\ trig'[0] /\ hpc' # "rearma"
      BY <1>1, <2>1, <2>2, <3>1, <3>2
    <3> QED
      BY <3>3, Zenon DEF Cuenta, Suma
  <2>3. CASE counter[0] # P
    <3>1. (trig'[0] <=> trig[0]) /\ ticks' = ticks
      BY <2>1, <2>3, Zenon
    <3> QED
      BY <1>1, <3>1 DEF Cuenta, Suma
  <2> QED
    BY <2>2, <2>3
<1> QED
  BY <1>3, <1>4, Tiempos

LEMMA CuentaServicio ==
  ASSUME TypeOK, Puesta, Manejador, Cuenta, NEW op, NEW b, Servicio(op, b)
  PROVE  Cuenta'
<1>1. Turno /\ tic_msec' = IF hpc = "tic_isr" THEN Suma(tic_msec, TOPE) ELSE tic_msec
  BY Zenon DEF Servicio
<1>2. (trig'[0] <=> hpc # "rearma" /\ trig[0]) /\ ticks' = ticks
  BY Atendiendo, Zenon
<1>3. CASE hpc = "tic_isr"
  <2>1. trig[0]
    BY <1>3 DEF Manejador, Antes_de_rearmar
  <2>2. Suma(tic_msec, TOPE) = ticks
    BY <1>3, <2>1 DEF Cuenta
  <2>3. tic_msec' = ticks' /\ hpc' = "rearma"
    BY <1>1, <1>2, <1>3, <2>2 DEF Turno
  <2> QED
    BY <2>3, Zenon DEF Cuenta
<1>4. CASE hpc = "rearma"
  <2>1. tic_msec = ticks
    BY <1>4, Zenon DEF Cuenta
  <2>2. tic_msec' = ticks' /\ ~trig'[0]
    BY <1>1, <1>2, <1>4, <2>1
  <2> QED
    BY <2>2, Zenon DEF Cuenta
<1>5. CASE hpc \notin {"tic_isr", "rearma"}
  <2>1. tic_msec' = tic_msec /\ (trig'[0] <=> trig[0]) /\ hpc' # "rearma" /\ hpc # "rearma"
    BY <1>1, <1>2, <1>5 DEF Turno
  <2> QED
    BY <1>2, <2>1 DEF Cuenta, Suma
<1> QED
  BY <1>3, <1>4, <1>5

LEMMA Emisor ==
  ASSUME TypeOK, NEW op, NEW e, NEW b, Dispositivos(op, e, b)
  PROVE  /\ tx_wr' => e
         /\ tx_busy = 0 /\ ~tx_wr /\ ~e => tx_busy' = 0 /\ ~tx_wr'
         /\ tx_wr' \in BOOLEAN /\ tx_busy' \in 0..TXC
<1>1. /\ tx_wr' = (e /\ tx_busy = 0)
      /\ tx_busy' = IF tx_wr /\ tx_busy = 0 THEN TXC
                    ELSE IF tx_busy > 0 THEN tx_busy - 1 ELSE 0
  BY DEF Dispositivos
<1>2. tx_busy \in 0..TXC /\ TXC \in Nat
  BY Hechos, Numeros_de_la_placa
<1>3. tx_busy' \in 0..TXC
  BY <1>1, <1>2
<1>4. tx_wr' \in BOOLEAN /\ (tx_wr' => e)
  BY <1>1, Zenon
<1>5. tx_busy = 0 /\ ~tx_wr /\ ~e => tx_busy' = 0 /\ ~tx_wr'
  <2> SUFFICES ASSUME tx_busy = 0, ~tx_wr, ~e PROVE tx_busy' = 0 /\ ~tx_wr'
    OBVIOUS
  <2>1. tx_busy' = 0
    BY <1>1
  <2> QED
    BY <1>1, <2>1, Zenon
<1> QED
  BY <1>3, <1>4, <1>5

LEMMA TransmisorMain ==
  ASSUME TypeOK, Transmisor, NEW op, NEW e, Efecto(op, e)
  PROVE  Transmisor'
<1>1. /\ quieto' = 0 /\ Dispositivos(op, e, {}) /\ (e <=> Ahora.op = "rxtx")
      /\ Ahora.op \in {"ucr", "rxtx", "sondeo", "bus"} => quieto > 0
      /\ IF Repite THEN mi' = mi ELSE Avanza
  BY Zenon DEF Efecto
<1>2. Ahora'.op = "rxtx" => tx_busy' = 0 /\ ~tx_wr'
  <2> SUFFICES ASSUME Programa[mi'].op = "rxtx" PROVE tx_busy' = 0 /\ ~tx_wr'
    BY DEF Ahora, Programa
  <2>1. Ahora.op = "ucr" /\ ~Repite
    <3>1. CASE mi' = mi
      BY <3>1, Avance DEF Ahora
    <3>2. CASE mi' = Sig(mi) /\ mi' # mi
      <4>1. Previo(mi, mi')
        BY <3>2, Entero, Tras, Zenon
      <4> QED
        BY <1>1, <3>2, <4>1, Zenon DEF Previo, Ahora
    <3> QED
      BY <3>1, <3>2, Avance
  <2>2. tx_busy = 0
    BY <2>1 DEF Repite
  <2>3. ~tx_wr
    <3>1. quieto > 0
      BY <1>1, <2>1
    <3>2. quieto # 0
      BY <3>1, Tiempos
    <3> QED
      BY <3>2, Zenon DEF Transmisor
  <2>4. ~e
    <3>1. Ahora.op # "rxtx"
      BY <2>1
    <3> QED
      BY <1>1, <3>1, Zenon
  <2>5. Dispositivos(op, e, {})
    BY <1>1, Zenon
  <2>6. tx_busy = 0 /\ ~tx_wr /\ ~e => tx_busy' = 0 /\ ~tx_wr'
    BY <2>5, Emisor
  <2> QED
    BY <2>2, <2>3, <2>4, <2>6, Zenon
<1> QED
  BY <1>1, <1>2, Zenon DEF Transmisor

LEMMA TransmisorResto ==
  ASSUME TypeOK, Transmisor, mi' = mi, NEW op, NEW b, Dispositivos(op, FALSE, b)
  PROVE  Transmisor'
<1>1. ~tx_wr' /\ (tx_busy = 0 /\ ~tx_wr => tx_busy' = 0)
  BY Emisor, Zenon
<1>2. Ahora' = Ahora
  BY DEF Ahora, Programa
<1> QED
  BY <1>1, <1>2, Zenon DEF Transmisor
-----------------------------------------------------------------------------
(* msleep and its counter. *)

\* Once it runs, msleep's counter is polled.
LEMMA TrasEcha ==
  ASSUME NEW i \in 1..NF, Alli1(i, "tcr")
  PROVE  Programa[Sig(i)].op = "sondeo"
<1>1. i > 12 /\ i \in 13..NF
  <2>1. i <= 12 \/ i > 12
    BY Sitios
  <2>2. ~(i <= 12)
    <3> SUFFICES ASSUME i <= 12 PROVE FALSE
      OBVIOUS
    <3>1. \/ Escribe_alli(i, "compare", 0, P) \/ Escribe_alli(i, "counter", 0, 0)
          \/ Escribe_alli(i, "tcr", 0, TIMER_EN_AR)
      BY Lugares, Zenon DEF Alli1
    <3> QED
      BY <3>1 DEF Escribe_alli, Alli1
  <2> QED
    BY <2>1, <2>2, Sitios
<1>2. CASE i \in 13..N0
  <2> DEFINE k == (i - 13) % 8
             j == i + 1
             l == (j - 13) % 8
  <2>1. /\ k \in 0..7 /\ i \in 13..N0
        /\ k = 6 => j \in 13..N0 /\ Sig(i) = j /\ l = 7
    BY <1>2, Sitios DEF Sig
  <2>2. /\ k \in {0, 2} => Programa[i].op = "ucr"
        /\ k \in {1, 3} => Programa[i].op = "rxtx"
        /\ k = 4 => Escribe_alli(i, "compare", 1, D)
        /\ k = 5 => Escribe_alli(i, "counter", 1, 0)
        /\ k = 7 => Programa[i].op = "sondeo"
    BY <2>1, EnPrueba, Zenon
  <2>3. j \in 13..N0 /\ l = 7 => Programa[j].op = "sondeo"
    BY EnPrueba, Zenon
  <2> HIDE DEF k, l, j
  <2>4. k = 6
    BY <2>1, <2>2 DEF Escribe_alli, Alli1
  <2> QED
    BY <2>1, <2>3, <2>4
<1>3. CASE i \in N3 + 1..NF
  <2> DEFINE k == (i - N3 - 1) % 5
             j == i + 1
             l == (j - N3 - 1) % 5
  <2>1. k \in 0..4 /\ i \in N3 + 1..NF
    BY <1>3, Sitios
  <2>2. k = 3 => j \in N3 + 1..NF /\ Sig(i) = j /\ l = 4
    BY <1>3, Sitios DEF Sig
  <2>3. /\ k = 0 => Programa[i].op = "gpio"
        /\ k = 1 => Escribe_alli(i, "compare", 1, D)
        /\ k = 2 => Escribe_alli(i, "counter", 1, 0)
        /\ k = 4 => Programa[i].op = "sondeo"
    BY <2>1, EnLuces, Zenon
  <2>4. j \in N3 + 1..NF /\ l = 4 => Programa[j].op = "sondeo"
    BY EnLuces, Zenon
  <2> HIDE DEF k, l, j
  <2>5. k = 3
    BY <2>1, <2>3 DEF Escribe_alli, Alli1
  <2> QED
    BY <2>2, <2>4, <2>5
<1>4. CASE i \in N0 + 1..N3
  <2>1. Programa[i].op = "bus"
    BY DEF Alli1
  <2>2. \/ i = N0 + 1 \/ i = N1 + 1 \/ i = N2 + 1
        \/ (\E b \in {N0 + 1, N1 + 1} : i \in b + 1..b + 2 * ND)
        \/ (\E b \in {N0 + 1, N1 + 1} : i = b + 2 * ND + 1)
        \/ i \in N2 + 2..N2 + 1 + 2 * TW \/ i = N3
    BY <1>4, Sitios
  <2> QED
    BY <2>1, <2>2, EnNumero
<1> QED
  BY <1>1, <1>2, <1>3, <1>4, Sitios

\* What IInv says of msleep's counter, in numbers.
LEMMA Reloj1 ==
  ASSUME TypeOK, Espera_msleep, NEW op, Timer(op), Ajeno(op, 1)
  PROVE  /\ ~ar'[1] /\ compare'[1] = compare[1]
         /\ ~en[1] => ~en'[1] /\ counter'[1] = counter[1] /\ (trig'[1] <=> trig[1])
         /\ en[1] /\ counter[1] = compare[1] => ~en'[1] /\ trig'[1]
         /\ en[1] /\ counter[1] # compare[1] =>
              en'[1] /\ counter'[1] = (counter[1] + 1) % MOD /\ (trig'[1] <=> trig[1])
<1>1. ~ar[1]
  BY DEF Espera_msleep
<1>2. /\ ~ar'[1] /\ compare'[1] = compare[1]
      /\ en'[1] <=> en[1] /\ counter[1] # compare[1]
      /\ trig'[1] <=> trig[1] \/ (en[1] /\ counter[1] = compare[1])
      /\ counter'[1] = IF en[1] /\ counter[1] # compare[1] THEN (counter[1] + 1) % MOD
                       ELSE counter[1]
  BY <1>1, Corre1, Zenon
<1> QED
  BY <1>2, Zenon

\* A cycle in which main stays where it is.
LEMMA EsperaQuieta ==
  ASSUME TypeOK, Espera_msleep, mi' = mi, NEW op, NEW e, NEW b, Dispositivos(op, e, b),
         Ajeno(op, 1)
  PROVE  /\ Espera_msleep' /\ t1' >= t1 /\ t1' <= t1 + 1
         /\ Ahora.op = "sondeo" /\ ~trig[1] /\ trig'[1] => t1' = D + 1
<1>1. Timer(op) /\ Ahora' = Ahora
  BY DEF Dispositivos, Ahora, Programa
<1>2. t1' = IF t1 < MOD THEN t1 + 1 ELSE t1
  BY DEF Dispositivos, Ajeno
<1>3. t1 \in 0..MOD /\ MOD \in Nat /\ D \in Nat /\ D < MOD
  BY Numeros_de_la_placa DEF Espera_msleep
<1>4. t1' \in 0..MOD /\ t1' >= t1 /\ t1' <= t1 + 1
  BY <1>2, <1>3
<1>5. /\ ~ar'[1] /\ compare'[1] = compare[1]
      /\ ~en[1] => ~en'[1] /\ counter'[1] = counter[1] /\ (trig'[1] <=> trig[1])
      /\ en[1] /\ counter[1] = compare[1] => ~en'[1] /\ trig'[1]
      /\ en[1] /\ counter[1] # compare[1] =>
           en'[1] /\ counter'[1] = (counter[1] + 1) % MOD /\ (trig'[1] <=> trig[1])
  BY <1>1, Reloj1, Zenon
<1>6. CASE Ahora.op # "sondeo"
  <2>1. ~en[1]
    BY <1>6 DEF Espera_msleep
  <2>2. ~en'[1] /\ counter'[1] = counter[1]
    BY <1>5, <2>1, Zenon
  <2>3. \A r : Escribira(r)' <=> Escribira(r)
    BY <1>1, Zenon DEF Escribira
  <2>4. /\ Escribira("counter")' \/ Escribira("tcr")' => compare'[1] = D
        /\ Escribira("tcr")' => counter'[1] = 0
    BY <1>5, <1>6, <2>2, <2>3 DEF Espera_msleep
  <2> QED
    BY <1>1, <1>4, <1>5, <1>6, <2>2, <2>4 DEF Espera_msleep
<1>7. CASE Ahora.op = "sondeo"
  <2>0. Ahora'.op = "sondeo"
    BY <1>1, <1>7
  <2>1. compare[1] = D
    BY <1>7 DEF Espera_msleep
  <2>2. CASE trig[1]
    <3>1. ~en[1] /\ t1 > D
      BY <1>7, <2>2 DEF Espera_msleep
    <3>2. ~en'[1] /\ trig'[1]
      BY <1>5, <2>2, <3>1, Zenon
    <3>3. t1' > D
      BY <1>3, <1>4, <3>1
    <3> QED
      BY <1>4, <1>5, <2>0, <2>1, <2>2, <3>2, <3>3 DEF Espera_msleep, Escribira
  <2>3. CASE ~trig[1]
    <3>1. en[1] /\ counter[1] = t1 /\ t1 <= D
      BY <1>7, <2>3 DEF Espera_msleep
    <3>2. t1' = t1 + 1
      BY <1>2, <1>3, <3>1
    <3>3. CASE counter[1] = D
      <4>1. ~en'[1] /\ trig'[1]
        BY <1>5, <2>1, <3>1, <3>3, Zenon
      <4>2. t1' = D + 1 /\ t1' > D
        BY <1>3, <3>1, <3>2, <3>3
      <4> QED
        BY <1>4, <1>5, <2>0, <2>1, <4>1, <4>2 DEF Espera_msleep, Escribira
    <3>4. CASE counter[1] # D
      <4>1. en'[1] /\ counter'[1] = (counter[1] + 1) % MOD /\ ~trig'[1]
        BY <1>5, <2>1, <2>3, <3>1, <3>4, Zenon
      <4>2. counter'[1] = t1' /\ t1' <= D
        BY <1>3, <3>1, <3>2, <3>4, <4>1
      <4> QED
        BY <1>4, <1>5, <2>0, <2>1, <4>1, <4>2 DEF Espera_msleep, Escribira
    <3> QED
      BY <3>3, <3>4
  <2> QED
    BY <2>2, <2>3
<1> QED
  BY <1>6, <1>7

\* A cycle in which main goes on.
LEMMA EsperaAvanza ==
  ASSUME TypeOK, Espera_msleep, NEW op, NEW e, Efecto(op, e), mi' # mi
  PROVE  Espera_msleep'
<1>1. /\ mi \in 1..NF /\ mi \in Nat /\ mi' = Sig(mi) /\ Ahora' = Programa[Sig(mi)]
      /\ Timer(op) /\ ~ar[1] /\ 1 \in {0, 1}
  <2>1. mi' = Sig(mi) /\ mi \in 1..NF /\ mi \in Nat
    BY Avance, Entero, Zenon
  <2>2. Dispositivos(op, e, {})
    BY Zenon DEF Efecto
  <2>3. Timer(op)
    BY <2>2, Zenon DEF Dispositivos
  <2> QED
    BY <2>1, <2>3 DEF Ahora, Programa, Espera_msleep
<1>2. ~en[1]
  <2>1. ~Repite
    BY Zenon DEF Efecto
  <2> QED
    BY <2>1 DEF Repite, Espera_msleep
<1>3. t1' \in 0..MOD /\ (op.reg = "tcr" /\ op.t = 1 => t1' = 0)
  <2>1. t1' = IF op.reg = "tcr" /\ op.t = 1 THEN 0 ELSE IF t1 < MOD THEN t1 + 1 ELSE t1
    <3>1. Dispositivos(op, e, {})
      BY Zenon DEF Efecto
    <3> QED
      BY <3>1, Zenon DEF Dispositivos
  <2>2. t1 \in 0..MOD /\ MOD \in Nat
    BY Numeros_de_la_placa DEF Espera_msleep
  <2> QED
    BY <2>1, <2>2
<1>4. Previo(mi, Sig(mi))
  BY <1>1, Tras, Zenon
<1>5. /\ Ahora'.op = "sondeo" => Escribe_alli(mi, "tcr", 1, TIMER_EN)
      /\ Escribira("tcr")' => Escribe_alli(mi, "counter", 1, 0)
      /\ Escribira("counter")' => Escribe_alli(mi, "compare", 1, D)
  <2>1. Ahora'.op = "sondeo" => Escribe_alli(mi, "tcr", 1, TIMER_EN)
    BY <1>1, <1>4, Zenon DEF Previo
  <2>2. \A r : Escribira(r)' => Alli1(Sig(mi), r)
    BY <1>1, Zenon DEF Escribira, Alli1
  <2> QED
    BY <1>4, <2>1, <2>2, Zenon DEF Previo
<1>6. CASE Ahora.op # "bus" \/ mi <= 12
  <2>1. Ajeno(op, 1)
    BY <1>6, Acceso_de_main, NadaAjena, Zenon
  <2>2. ~ar'[1] /\ ~en'[1]
    BY <1>1, <1>2, <2>1, Reloj1, Zenon
  <2>3. ASSUME NEW r, NEW v, Escribe_alli(mi, r, 1, v) PROVE FALSE
    <3>1. Ahora.op = "bus" /\ Programa[mi].a.t = 1
      BY <2>3 DEF Escribe_alli, Ahora
    <3>2. mi <= 12
      BY <1>6, <3>1
    <3>3. \/ Escribe_alli(mi, "compare", 0, P) \/ Escribe_alli(mi, "counter", 0, 0)
          \/ Escribe_alli(mi, "tcr", 0, TIMER_EN_AR)
      BY <1>1, <3>1, <3>2, Lugares, Zenon DEF Ahora
    <3>4. Programa[mi].a.t = 0
      BY <3>3 DEF Escribe_alli
    <3> QED
      BY <3>1, <3>4
  <2>4. Ahora'.op # "sondeo" /\ ~Escribira("tcr")' /\ ~Escribira("counter")'
    BY <1>5, <2>3, Zenon
  <2> QED
    BY <1>3, <2>2, <2>4, Zenon DEF Espera_msleep
<1>7. CASE Ahora.op = "bus" /\ mi > 12
  <2>1. \/ op.reg = "compare" /\ op.t = 1 /\ op.v = D
        \/ op.reg = "counter" /\ op.t = 1 /\ op.v = 0
        \/ op.reg = "tcr" /\ op.t = 1 /\ op.v = TIMER_EN
    BY <1>7, Acceso_de_main, Zenon
  <2>2. op = Ahora.a
    BY <1>7, Zenon DEF Efecto
  <2>3. ASSUME NEW r, NEW v, Escribe_alli(mi, r, 1, v) PROVE op.reg = r
    BY <2>2, <2>3, Zenon DEF Escribe_alli, Ahora
  <2>4. CASE op.reg = "compare" /\ op.t = 1 /\ op.v = D
    <3>1. op.reg # "tcr" /\ op.reg # "counter"
      BY <2>4
    <3>2. compare'[1] = D /\ ~en'[1] /\ ~ar'[1]
      <4>1. /\ en'[1] = (en[1] /\ (ar[1] \/ counter[1] # compare[1]))
            /\ ar'[1] = ar[1] /\ compare'[1] = op.v
        BY <1>1, <2>4, <3>1, Reloj, Zenon
      <4> QED
        BY <1>1, <1>2, <2>4, <4>1, Zenon
    <3>3. Ahora'.op # "sondeo" /\ ~Escribira("tcr")'
      BY <1>5, <2>3, <3>1, Zenon
    <3> QED
      BY <1>3, <3>2, <3>3, Zenon DEF Espera_msleep
  <2>5. CASE op.reg = "counter" /\ op.t = 1 /\ op.v = 0
    <3>1. op.reg # "tcr" /\ op.reg # "compare"
      BY <2>5
    <3>2. counter'[1] = 0 /\ ~en'[1] /\ ~ar'[1] /\ compare'[1] = compare[1]
      <4>1. /\ en'[1] = (en[1] /\ (ar[1] \/ counter[1] # compare[1]))
            /\ ar'[1] = ar[1] /\ compare'[1] = compare[1] /\ counter'[1] = op.v
        BY <1>1, <2>5, <3>1, Reloj, Zenon
      <4> QED
        BY <1>1, <1>2, <2>5, <4>1, Zenon
    <3>3. compare[1] = D
      <4>1. Escribira("counter")
        BY <1>7, <2>2, <2>5, Zenon DEF Escribira
      <4> QED
        BY <4>1, Zenon DEF Espera_msleep
    <3>4. Ahora'.op # "sondeo"
      BY <1>5, <2>3, <3>1, Zenon
    <3>5. compare'[1] = D
      BY <3>2, <3>3, Zenon
    <3> QED
      BY <1>3, <3>2, <3>4, <3>5, Zenon DEF Espera_msleep
  <2>6. CASE op.reg = "tcr" /\ op.t = 1 /\ op.v = TIMER_EN
    <3>1. op.reg # "counter" /\ op.reg # "compare"
      BY <2>6
    <3>2. TIMER_EN.en = TRUE /\ TIMER_EN.ar = FALSE
      BY DEF TIMER_EN
    <3>3. en'[1] /\ ~ar'[1] /\ ~trig'[1]
      <4>1. /\ en'[1] = op.v.en /\ ar'[1] = op.v.ar
            /\ trig'[1] = (~(op.reg = "tcr" /\ op.t = 1)
                           /\ (trig[1] \/ (en[1] /\ counter[1] = compare[1])))
        BY <1>1, <2>6, Reloj, Zenon
      <4> QED
        BY <2>6, <3>2, <4>1, Zenon
    <3>4. compare[1] = D /\ counter[1] = 0
      <4>1. Escribira("tcr")
        BY <1>7, <2>2, <2>6, Zenon DEF Escribira
      <4> QED
        BY <4>1, Zenon DEF Espera_msleep
    <3>5. counter'[1] = 0 /\ compare'[1] = D
      <4>1. /\ counter'[1] = IF ar[1] /\ counter[1] = compare[1] THEN 1
                             ELSE IF en[1] /\ counter[1] # compare[1] THEN (counter[1] + 1) % MOD
                             ELSE counter[1]
            /\ compare'[1] = compare[1]
        BY <1>1, <3>1, Reloj, Zenon
      <4> QED
        BY <1>1, <1>2, <3>4, <4>1, Zenon
    <3>6. Ahora'.op = "sondeo" /\ ~Escribira("tcr")' /\ ~Escribira("counter")'
      <4>1. Alli1(mi, "tcr")
        BY <1>7, <2>2, <2>6, Zenon DEF Alli1, Ahora
      <4>2. Programa[Sig(mi)].op = "sondeo"
        BY <1>1, <4>1, TrasEcha, Zenon
      <4>3. Ahora'.op = "sondeo"
        BY <1>1, <4>2, Zenon
      <4> QED
        BY <4>3 DEF Escribira
    <3>7. t1' = 0 /\ 0 <= D
      BY <1>3, <2>6, Numeros_de_la_placa
    <3>8. counter'[1] = t1' /\ t1' <= D
      BY <3>5, <3>7, Zenon
    <3> QED
      BY <1>3, <3>3, <3>5, <3>6, <3>8, Zenon DEF Espera_msleep
  <2> QED
    BY <2>1, <2>4, <2>5, <2>6
<1> QED
  BY <1>1, <1>6, <1>7

LEMMA Recien ==
  ASSUME TypeOK, NEW op, NEW e, Efecto(op, e), mi' # mi, Ahora'.op = "sondeo"
  PROVE  ~trig'[1]
<1>1. mi \in 1..NF /\ mi' = Sig(mi) /\ Ahora' = Programa[Sig(mi)] /\ 1 \in {0, 1}
  <2>1. mi' = Sig(mi) /\ mi \in 1..NF
    BY Avance, Entero, Zenon
  <2> QED
    BY <2>1 DEF Ahora, Programa
<1>2. Programa[Sig(mi)].op = "sondeo"
  BY <1>1
<1>3. Escribe_alli(mi, "tcr", 1, TIMER_EN)
  BY <1>1, <1>2, Tras, Zenon DEF Previo
<1>4. op.reg = "tcr" /\ op.t = 1
  <2>1. op = Programa[mi].a
    BY <1>3, Zenon DEF Escribe_alli, Ahora, Efecto
  <2> QED
    BY <1>3, <2>1, Zenon DEF Escribe_alli
<1>5. Timer(op)
  <2>1. Dispositivos(op, e, {})
    BY Zenon DEF Efecto
  <2> QED
    BY <2>1, Zenon DEF Dispositivos
<1>6. trig'[1] = (~(op.reg = "tcr" /\ op.t = 1) /\ (trig[1] \/ (en[1] /\ counter[1] = compare[1])))
  BY <1>1, <1>5, Reloj, Zenon
<1> QED
  BY <1>4, <1>6, Zenon

\* The numbers in Margen.
LEMMA Tardes ==
  ASSUME TypeOK, Espera_msleep
  PROVE  t1 \in Int /\ D \in Int /\ Tarde \in Int /\ Tarde = t1 - (D + 1) - quieto
<1>1. t1 \in Int /\ D \in Int /\ quieto \in Int
  BY Tiempos, Numeros_de_la_placa DEF Espera_msleep
<1> QED
  BY <1>1 DEF Tarde

LEMMA Margen_main ==
  ASSUME TypeOK, Espera_msleep, NEW op, NEW e, Efecto(op, e)
  PROVE  Margen'
<1> SUFFICES ASSUME Ahora'.op = "sondeo", trig'[1]
             PROVE  hpc' = "no" /\ Tarde' <= 0
  BY Zenon DEF Margen
<1>1. /\ hpc' = "no" /\ quieto' = 0 /\ Dispositivos(op, e, {})
      /\ IF Repite THEN mi' = mi ELSE Avanza
  BY Zenon DEF Efecto
<1>2. mi' = mi
  BY Recien, Zenon
<1>3. Ahora.op = "sondeo"
  BY <1>2 DEF Ahora, Programa
<1>4. ~trig[1]
  <2>1. Repite
    <3>1. Sig(mi) # mi
      BY Entero, Sitios DEF Sig
    <3>2. Avanza => mi' = Sig(mi)
      BY Adelante, Zenon
    <3> QED
      BY <1>1, <1>2, <3>1, <3>2, Zenon
  <2> QED
    BY <1>3, <2>1 DEF Repite
<1>5. Ajeno(op, 1)
  <2>1. Ahora.op # "bus"
    BY <1>3
  <2> QED
    BY <2>1, Acceso_de_main, NadaAjena, Zenon
<1>6. t1' = D + 1
  BY <1>1, <1>2, <1>3, <1>4, <1>5, EsperaQuieta, Zenon
<1>7. Tarde' = t1' - (D + 1) - quieto'
  BY DEF Tarde, D
<1> QED
  BY <1>1, <1>6, <1>7, Numeros_de_la_placa

LEMMA Margen_reposo ==
  ASSUME TypeOK, Puesta, Manejador, Espera_msleep, Margen, Reposo
  PROVE  Margen'
<1> SUFFICES ASSUME Ahora'.op = "sondeo", trig'[1]
             PROVE  IF hpc' = "no"
                    THEN \/ Tarde' <= 0
                         \/ /\ Tarde' <= 7 * T /\ ~trig'[0]
                            /\ counter'[0] - quieto' <= 2 + 7 * T
                    ELSE Tarde' <= Cota'
  BY Zenon DEF Margen, T
<1>1. /\ mi' = mi /\ hpc' = hpc /\ pend' = pend /\ quieto' = quieto + 1
      /\ Dispositivos(Nada, FALSE, {})
  BY DEF Reposo
<1>2. Ajeno(Nada, 0) /\ Ajeno(Nada, 1) /\ Nada # Rearme
  BY NadaAjena, RearmeAjeno DEF Ajeno
<1>3. Ahora.op = "sondeo"
  BY <1>1 DEF Ahora, Programa
<1>4. mi > 7
  <2>1. mi > 12
    BY <1>3, Entero, Lugares DEF Ahora
  <2> QED
    BY <2>1, Tiempos
<1>5. t1' >= t1 /\ t1' <= t1 + 1 /\ (~trig[1] => t1' = D + 1)
  BY <1>1, <1>2, <1>3, EsperaQuieta, Zenon
<1>6. Tarde' = t1' - (D + 1) - quieto'
  BY DEF Tarde, D
<1>7. t1' \in Int
  <2>1. Espera_msleep'
    BY <1>1, <1>2, EsperaQuieta, Zenon
  <2> QED
    BY <2>1, Numeros_de_la_placa DEF Espera_msleep
<1>a. t1 \in Int /\ D \in Int /\ Tarde \in Int /\ Tarde = t1 - (D + 1) - quieto
  BY Tardes, Zenon
<1>8. Cota' = Cota
  BY <1>1, Zenon DEF Cota
<1>9. hpc # "no" => Cota \in Nat
  <2> SUFFICES ASSUME hpc # "no" PROVE Cota \in Nat
    OBVIOUS
  <2>1. pend \subseteq {0, TIC} /\ hpc \in {"irq_handler", "tic_isr", "rearma", "eret"}
    BY DEF TypeOK, Lineas
  <2> QED
    BY <2>1, Tiempos DEF Cota
<1>10. CASE ~trig[1]
  <2>1. Tarde' <= 0
    BY <1>1, <1>5, <1>6, <1>10, <1>a, Tiempos
  <2>2. hpc # "no" => Tarde' <= Cota'
    BY <1>6, <1>7, <1>8, <1>9, <1>a, <1>1, <2>1, Tiempos
  <2> QED
    BY <1>1, <2>1, <2>2
<1>11. CASE trig[1]
  <2>1. Tarde' <= Tarde
    BY <1>1, <1>5, <1>6, <1>7, <1>a, Tiempos
  <2>b. Tarde' \in Int
    BY <1>1, <1>6, <1>7, <1>a, Tiempos
  <2>2. CASE hpc # "no"
    <3>1. Tarde <= Cota
      BY <1>3, <1>11, <2>2 DEF Margen
    <3> QED
      BY <1>1, <1>8, <1>9, <1>a, <2>1, <2>2, <2>b, <3>1
  <2>3. CASE hpc = "no" /\ Tarde <= 0
    BY <1>1, <1>a, <2>1, <2>3, <2>b
  <2>4. CASE hpc = "no" /\ ~(Tarde <= 0)
    <3>1. Tarde <= 7 * T /\ counter[0] - quieto <= 2 + 7 * T /\ ~trig[0]
      BY <1>3, <1>11, <2>4 DEF Margen
    <3>2. counter[0] # P
      BY <3>1, Tiempos
    <3>3. counter'[0] = counter[0] + 1 /\ (trig'[0] <=> trig[0])
      BY <1>1, <1>2, <1>4, <3>2, EnMarcha, Zenon
    <3>4. Tarde' <= 7 * T
      BY <1>a, <2>1, <2>b, <3>1, Tiempos
    <3>5. counter'[0] - quieto' <= 2 + 7 * T
      BY <1>1, <3>1, <3>3, Tiempos
    <3> QED
      BY <1>1, <2>4, <3>1, <3>3, <3>4, <3>5
  <2> QED
    BY <2>2, <2>3, <2>4
<1> QED
  BY <1>10, <1>11

LEMMA Margen_servicio ==
  ASSUME TypeOK, Puesta, Manejador, Espera_msleep, Margen, NEW op, NEW b, Servicio(op, b)
  PROVE  Margen'
<1> SUFFICES ASSUME Ahora'.op = "sondeo", trig'[1]
             PROVE  IF hpc' = "no"
                    THEN /\ Tarde' <= 7 * T /\ ~trig'[0]
                         /\ counter'[0] - quieto' <= 2 + 7 * T
                    ELSE Tarde' <= Cota'
  BY Zenon DEF Margen, T
<1>1. mi' = mi /\ quieto' = 0 /\ Dispositivos(op, FALSE, b) /\ Turno
  BY Zenon DEF Servicio
<1>2. Ajeno(op, 1)
  BY NadaAjena, RearmeAjeno, Zenon DEF Servicio
<1>3. Ahora.op = "sondeo"
  BY <1>1 DEF Ahora, Programa
<1>4. t1' >= t1 /\ t1' <= t1 + 1 /\ (~trig[1] => t1' = D + 1)
  BY <1>1, <1>2, <1>3, EsperaQuieta, Zenon
<1>5. Tarde' = t1' - (D + 1) - quieto'
  BY DEF Tarde, D
<1>6. t1' \in Int
  <2>1. Espera_msleep'
    BY <1>1, <1>2, EsperaQuieta, Zenon
  <2> QED
    BY <2>1, Numeros_de_la_placa DEF Espera_msleep
<1>7. t1 \in Int /\ D \in Int /\ Tarde \in Int /\ Tarde = t1 - (D + 1) - quieto
  BY Tardes, Zenon
<1>8. hpc # "no" => Cota \in Nat
  <2> SUFFICES ASSUME hpc # "no" PROVE Cota \in Nat
    OBVIOUS
  <2>1. pend \subseteq {0, TIC} /\ hpc \in {"irq_handler", "tic_isr", "rearma", "eret"}
    BY DEF TypeOK, Lineas
  <2> QED
    BY <2>1, Tiempos DEF Cota
<1> DEFINE x == Tarde' - T
<1>9. x \in Int /\ x + T = Tarde'
  BY <1>1, <1>5, <1>6, <1>7, Tiempos
<1>10. IF hpc = "no" THEN x <= 0 ELSE x <= Cota
  <2>1. CASE ~trig[1]
    <3>1. Tarde' = 0
      BY <1>1, <1>4, <1>5, <1>7, <2>1
    <3>2. x <= 0
      BY <3>1, Tiempos
    <3> HIDE DEF x
    <3> QED
      BY <1>8, <1>9, <3>2
  <2>2. CASE trig[1]
    <3>1. x <= Tarde
      BY <1>1, <1>4, <1>5, <1>6, <1>7, Tiempos
    <3>2. IF hpc = "no" THEN Tarde <= 0 ELSE Tarde <= Cota
      <4>1. hpc = "no" => trig[0]
        BY <1>1 DEF Turno
      <4> QED
        BY <1>3, <2>2, <4>1 DEF Margen
    <3> HIDE DEF x
    <3> QED
      BY <1>7, <1>8, <1>9, <3>1, <3>2
  <2> QED
    BY <2>1, <2>2
<1> HIDE DEF x
<1>11. IF hpc' = "no" THEN x + T <= 7 * T ELSE x + T <= Cota'
  BY <1>1, <1>9, <1>10, Cotas, Zenon
<1>12. CASE hpc' # "no"
  BY <1>9, <1>11, <1>12, Zenon
<1>13. CASE hpc' = "no"
  <2>1. hpc = "eret"
    BY <1>1, <1>13 DEF Turno
  <2>2. pend = {} /\ counter[0] - quieto <= 2 + Cota /\ (trig[0] <=> Antes_de_rearmar)
    BY <2>1 DEF Manejador
  <2>3. ~trig[0] /\ Cota = 6 * T
    BY <2>1, <2>2 DEF Antes_de_rearmar, Cota
  <2>4. counter'[0] = counter[0] + 1 /\ (trig'[0] <=> hpc # "rearma" /\ trig[0])
    BY Atendiendo, Zenon
  <2>5. counter'[0] - quieto' <= 2 + 7 * T
    BY <1>1, <2>2, <2>3, <2>4, Tiempos
  <2>6. Tarde' <= 7 * T
    BY <1>9, <1>11, <1>13, Zenon
  <2> QED
    BY <1>13, <2>3, <2>4, <2>5, <2>6
<1> QED
  BY <1>12, <1>13
-----------------------------------------------------------------------------
(* The numbers that main writes. *)

LEMMA Agrega ==
  ASSUME NEW k \in Nat, NEW g, NEW s, s = [d \in 1..k |-> g[d]]
  PROVE  Append(s, g[k + 1]) = [d \in 1..k + 1 |-> g[d]]
<1> DEFINE S == {g[d] : d \in 1..k + 1}
<1>1. (\A d \in 1..k : g[d] \in S) /\ g[k + 1] \in S
  OBVIOUS
<1> HIDE DEF S
<1>2. s \in Seq(S)
  BY <1>1, IsASeq
<1>3. Len(s) = k
  BY <1>2
<1>4. /\ Append(s, g[k + 1]) \in Seq(S) /\ Len(Append(s, g[k + 1])) = k + 1
      /\ \A d \in 1..k : Append(s, g[k + 1])[d] = s[d]
      /\ Append(s, g[k + 1])[k + 1] = g[k + 1]
  BY <1>1, <1>2, <1>3, AppendProperties
<1>5. \A d \in 1..k + 1 : Append(s, g[k + 1])[d] = g[d]
  BY <1>4
<1>6. Append(s, g[k + 1]) = [d \in 1..k + 1 |-> Append(s, g[k + 1])[d]]
  BY <1>4, LenProperties
<1> QED
  BY <1>5, <1>6

\* The digits or the bits of v, as a function.
Cifra(v, que) == [d \in Nat |-> IF que = "digito" THEN Digito(v, d) ELSE Bit(v, d)]

LEMMA Cifras ==
  ASSUME NEW k \in Nat, NEW v
  PROVE  /\ [d \in 1..k |-> Digito(v, d)] = [d \in 1..k |-> Cifra(v, "digito")[d]]
         /\ [d \in 1..k |-> Bit(v, d)] = [d \in 1..k |-> Cifra(v, "bit")[d]]
  BY DEF Cifra

\* A number of n digits, read at b: what has been written when main is at i.
Va(b, n, que) ==
  mi \in b + 1..b + 1 + 2 * n =>
    salida = [d \in 1..(mi - b - 1) \div 2 |-> Cifra(val, que)[d]]

LEMMA NumeroEs == ASSUME mi \in Nat
                  PROVE  Numero <=> /\ Va(N0 + 1, ND, "digito") /\ Va(N1 + 1, ND, "digito")
                                    /\ Va(N2 + 1, TW, "bit")
<1>1. \A b \in {N0 + 1, N1 + 1} :
        mi \in b + 1..b + 1 + 2 * ND =>
          [d \in 1..(mi - b - 1) \div 2 |-> Digito(val, d)]
            = [d \in 1..(mi - b - 1) \div 2 |-> Cifra(val, "digito")[d]]
  <2> SUFFICES ASSUME NEW b \in {N0 + 1, N1 + 1}, mi \in b + 1..b + 1 + 2 * ND
               PROVE  [d \in 1..(mi - b - 1) \div 2 |-> Digito(val, d)]
                        = [d \in 1..(mi - b - 1) \div 2 |-> Cifra(val, "digito")[d]]
    OBVIOUS
  <2>1. (mi - b - 1) \div 2 \in Nat
    BY Sitios
  <2> QED
    BY <2>1, Cifras, Zenon
<1>2. N2 + 1 + 1 = N2 + 2 /\ \A i \in Nat : i - (N2 + 1) - 1 = i - N2 - 2
  BY Sitios
<1>3. mi \in N2 + 2..N2 + 2 + 2 * TW =>
        [d \in 1..(mi - N2 - 2) \div 2 |-> Bit(val, d)]
          = [d \in 1..(mi - N2 - 2) \div 2 |-> Cifra(val, "bit")[d]]
  <2> SUFFICES ASSUME mi \in N2 + 2..N2 + 2 + 2 * TW
               PROVE  [d \in 1..(mi - N2 - 2) \div 2 |-> Bit(val, d)]
                        = [d \in 1..(mi - N2 - 2) \div 2 |-> Cifra(val, "bit")[d]]
    OBVIOUS
  <2>1. (mi - N2 - 2) \div 2 \in Nat
    BY Sitios
  <2> QED
    BY <2>1, Cifras, Zenon
<1> DEFINE A(b) == mi \in b + 1..b + 1 + 2 * ND =>
                     salida = [d \in 1..(mi - b - 1) \div 2 |-> Digito(val, d)]
           B == mi \in N2 + 2..N2 + 2 + 2 * TW =>
                  salida = [d \in 1..(mi - N2 - 2) \div 2 |-> Bit(val, d)]
<1>4. \A b \in {N0 + 1, N1 + 1} : A(b) <=> Va(b, ND, "digito")
  BY <1>1, Zenon DEF Va
<1>5. B <=> Va(N2 + 1, TW, "bit")
  <2>1. mi - (N2 + 1) - 1 = mi - N2 - 2
    BY <1>2
  <2>2. Va(N2 + 1, TW, "bit") <=> (mi \in N2 + 2..N2 + 2 + 2 * TW =>
                   salida = [d \in 1..(mi - N2 - 2) \div 2 |-> Cifra(val, "bit")[d]])
    BY <1>2, <2>1, Zenon DEF Va
  <2> QED
    BY <1>3, <2>2, Zenon
<1>6. Numero <=> (\A b \in {N0 + 1, N1 + 1} : A(b)) /\ B
  BY Zenon DEF Numero
<1> HIDE DEF A, B
<1> QED
  BY <1>4, <1>5, <1>6, Zenon

LEMMA NumeroQuieto ==
  ASSUME Numero, mi' = mi, val' = val, salida' = salida
  PROVE  Numero'
  BY Zenon DEF Numero, N0, N1, N2, ND, Digito, Bit

\* A character of a number that finds the UART free.
LEMMA Caracter ==
  ASSUME Transmisor, Putchar, NEW j \in Nat, NEW que \in {"digito", "bit"},
         Ahora.op = "rxtx", Ahora.a = <<que, j>>
  PROVE  salida' = Append(salida, Cifra(val, que)[j]) /\ val' = val
<1>1. /\ salida' = IF tx_busy > 0 THEN salida
                   ELSE CASE Ahora.a[1] = "digito" -> Append(salida, Digito(val, Ahora.a[2]))
                          [] Ahora.a[1] = "bit" -> Append(salida, Bit(val, Ahora.a[2]))
                          [] OTHER -> salida
      /\ val' = val
  BY DEF Putchar
<1>2. ~(tx_busy > 0)
  BY DEF Transmisor
<1>3. Ahora.a[1] = que /\ Ahora.a[2] = j
  <2>1. <<que, j>>[1] = que /\ <<que, j>>[2] = j
    OBVIOUS
  <2> QED
    BY <2>1, Zenon
<1>4. CASE que = "digito"
  <2>1. salida' = Append(salida, Digito(val, j))
    BY <1>1, <1>2, <1>3, <1>4
  <2> QED
    BY <1>1, <1>4, <2>1 DEF Cifra
<1>5. CASE que = "bit"
  <2>1. salida' = Append(salida, Bit(val, j))
    BY <1>1, <1>2, <1>3, <1>5
  <2> QED
    BY <1>1, <1>5, <2>1 DEF Cifra
<1> QED
  BY <1>4, <1>5

LEMMA Escribe_numero ==
  ASSUME TypeOK, Transmisor, NEW op, NEW e, Efecto(op, e), mi' # mi,
         NEW b \in Nat, NEW n \in Nat, b + 1 + 2 * n <= N3, NEW que \in {"digito", "bit"},
         Programa[b].op = "lee",
         \A i \in b + 1..b + 2 * n :
            IF (i - b) % 2 = 1 THEN Programa[i].op = "ucr"
            ELSE Programa[i].op = "rxtx" /\ Programa[i].a = <<que, (i - b) \div 2>>,
         Va(b, n, que)
  PROVE  Va(b, n, que)'
<1> SUFFICES ASSUME mi' \in b + 1..b + 1 + 2 * n
             PROVE  salida' = [d \in 1..(mi' - b - 1) \div 2 |-> Cifra(val', que)[d]]
  BY DEF Va, Cifra, Digito, Bit
<1>1. mi' = mi + 1 /\ mi \in b..b + 2 * n /\ mi \in Nat
  <2>1. mi' = Sig(mi) /\ mi \in Nat /\ N3 \in Nat
    BY Avance, Entero, Sitios, Zenon
  <2> QED
    BY <2>1 DEF Sig
<1>2. /\ IF Ahora.op = "lee" THEN salida' = <<>>
         ELSE IF Ahora.op = "rxtx" THEN Putchar ELSE salida' = salida
      /\ val' = IF Ahora.op = "lee" THEN tic_msec ELSE val
  BY Zenon DEF Efecto
<1>3. CASE mi = b
  <2>1. salida' = <<>>
    BY <1>2, <1>3, Zenon DEF Ahora
  <2>2. (mi' - b - 1) \div 2 = 0
    BY <1>1, <1>3
  <2>3. [d \in 1..0 |-> Cifra(val', que)[d]] = <<>>
    OBVIOUS
  <2> QED
    BY <2>1, <2>2, <2>3, Zenon
<1>4. CASE mi \in b + 1..b + 2 * n /\ (mi - b) % 2 = 1
  <2>1. Ahora.op = "ucr"
    BY <1>4 DEF Ahora
  <2>2. salida' = salida /\ val' = val
    BY <1>2, <2>1
  <2>3. (mi' - b - 1) \div 2 = (mi - b - 1) \div 2
    <3> DEFINE u == mi - b
    <3>1. u \in Int /\ u % 2 = 1 /\ mi' - b - 1 = u /\ mi - b - 1 = u - 1
      BY <1>1, <1>4
    <3> HIDE DEF u
    <3>2. u \div 2 = (u - 1) \div 2
      BY <3>1
    <3> QED
      BY <3>1, <3>2, Zenon
  <2>4. mi \in b + 1..b + 1 + 2 * n
    BY <1>4
  <2> QED
    BY <2>2, <2>3, <2>4, Zenon DEF Va
<1>5. CASE mi \in b + 1..b + 2 * n /\ (mi - b) % 2 # 1
  <2> DEFINE j == (mi - b) \div 2
             k == (mi - b - 1) \div 2
             g == Cifra(val, que)
  <2>1. Ahora.op = "rxtx" /\ Ahora.a = <<que, j>>
    BY <1>5 DEF Ahora
  <2>2. j \in Nat /\ k \in Nat /\ j = k + 1 /\ (mi' - b - 1) \div 2 = k + 1
    BY <1>1, <1>5
  <2>3. mi \in b + 1..b + 1 + 2 * n
    BY <1>5
  <2>4. salida = [d \in 1..k |-> g[d]]
    BY <2>3, Zenon DEF Va
  <2> HIDE DEF j, k
  <2>5. Putchar
    <3>1. Ahora.op # "lee"
      BY <2>1
    <3> QED
      BY <1>2, <2>1, <3>1, Zenon
  <2>6. salida' = Append(salida, Cifra(val, que)[j]) /\ val' = val
    BY <2>1, <2>2, <2>5, Caracter, Zenon
  <2> HIDE DEF g
  <2>7. Append(salida, g[k + 1]) = [d \in 1..k + 1 |-> g[d]]
    BY <2>2, <2>4, Agrega
  <2>8. salida' = [d \in 1..k + 1 |-> g[d]]
    BY <2>2, <2>6, <2>7 DEF g
  <2> QED
    BY <2>2, <2>6, <2>8, Zenon DEF g
<1> QED
  BY <1>1, <1>3, <1>4, <1>5

LEMMA NumeroMain ==
  ASSUME TypeOK, Transmisor, Numero, NEW op, NEW e, Efecto(op, e)
  PROVE  Numero'
<1>1. CASE mi' = mi
  <2>1. Ahora.op \in {"sondeo", "ucr"}
    BY <1>1, Avance
  <2>2. salida' = salida /\ val' = val
    BY <2>1 DEF Efecto
  <2> QED
    BY <1>1, <2>2, NumeroQuieto, Zenon
<1>2. CASE mi' # mi
  <2>1. Va(N0 + 1, ND, "digito") /\ Va(N1 + 1, ND, "digito") /\ Va(N2 + 1, TW, "bit")
    BY Entero, NumeroEs, Zenon
  <2>2. /\ N0 + 1 \in Nat /\ N1 + 1 \in Nat /\ N2 + 1 \in Nat /\ ND \in Nat /\ TW \in Nat
        /\ N0 + 1 + 1 + 2 * ND <= N3 /\ N1 + 1 + 1 + 2 * ND <= N3
        /\ N2 + 1 + 1 + 2 * TW <= N3
    BY Sitios
  <2>3. ASSUME NEW b \in {N0 + 1, N1 + 1}
        PROVE  /\ Programa[b].op = "lee"
               /\ \A i \in b + 1..b + 2 * ND :
                     IF (i - b) % 2 = 1 THEN Programa[i].op = "ucr"
                     ELSE Programa[i].op = "rxtx" /\ Programa[i].a = <<"digito", (i - b) \div 2>>
    BY EnNumero, Zenon
  <2>4. Va(N0 + 1, ND, "digito")' /\ Va(N1 + 1, ND, "digito")'
    <3>1. ASSUME NEW b \in {N0 + 1, N1 + 1}, Va(b, ND, "digito") PROVE Va(b, ND, "digito")'
      <4>1. b \in Nat /\ ND \in Nat /\ b + 1 + 2 * ND <= N3 /\ "digito" \in {"digito", "bit"}
        BY <2>2
      <4> QED
        BY <1>2, <2>3, <3>1, <4>1, Escribe_numero, Zenon
    <3> QED
      BY <2>1, <3>1, Zenon
  <2>5. Va(N2 + 1, TW, "bit")'
    <3> DEFINE b == N2 + 1
    <3>1. b \in Nat /\ b + 1 + 2 * TW <= N3 /\ "bit" \in {"digito", "bit"}
      BY <2>2
    <3>2. \A i \in b + 1..b + 2 * TW :
            IF (i - b) % 2 = 1 THEN Programa[i].op = "ucr"
            ELSE Programa[i].op = "rxtx" /\ Programa[i].a = <<"bit", (i - b) \div 2>>
      <4> SUFFICES ASSUME NEW i \in b + 1..b + 2 * TW
                   PROVE  IF (i - b) % 2 = 1 THEN Programa[i].op = "ucr"
                          ELSE /\ Programa[i].op = "rxtx"
                               /\ Programa[i].a = <<"bit", (i - b) \div 2>>
        OBVIOUS
      <4>1. i \in N2 + 2..N2 + 1 + 2 * TW /\ i - N2 - 1 = i - b
        BY Sitios
      <4>2. IF (i - N2 - 1) % 2 = 1 THEN Programa[i].op = "ucr"
            ELSE Programa[i].op = "rxtx" /\ Programa[i].a = <<"bit", (i - N2 - 1) \div 2>>
        BY <4>1, EnNumero, Zenon
      <4> QED
        BY <4>1, <4>2, Zenon
    <3>3. Programa[b].op = "lee" /\ Va(b, TW, "bit")
      BY <2>1, EnNumero, Zenon
    <3> HIDE DEF b
    <3>4. Va(b, TW, "bit")'
      BY <1>2, <2>2, <3>1, <3>2, <3>3, Escribe_numero, Zenon
    <3> QED
      BY <3>4 DEF b
  <2>6. Numero' <=> /\ Va(N0 + 1, ND, "digito")' /\ Va(N1 + 1, ND, "digito")'
                    /\ Va(N2 + 1, TW, "bit")'
    <3>1. (mi \in Nat)'
      BY Avance, Sitios
    <3> QED
      BY <3>1, NumeroEs, PTL
  <2> QED
    BY <2>4, <2>5, <2>6, Zenon
<1> QED
  BY <1>1, <1>2
-----------------------------------------------------------------------------
(* Every variable keeps to its values. *)

LEMMA TipoMaquina ==
  ASSUME TypeOK, NEW op, NEW e, NEW b, Bueno(op), Dispositivos(op, e, b)
  PROVE  /\ TimerTypeOK' /\ ip' \subseteq Lineas /\ ticks' \in 0..TOPE - 1
         /\ tx_wr' \in BOOLEAN /\ tx_busy' \in 0..TXC
<1>1. Timer(op) /\ ip' = (ip \cup Lineas_altas) \ b
      /\ ticks' = IF en[0] /\ match(0) THEN Suma(ticks, TOPE) ELSE ticks
  BY DEF Dispositivos
<1>2. TimerTypeOK'
  BY <1>1, TimerTipo, Zenon
<1>3. ip' \subseteq Lineas
  <2>1. Lineas_altas \subseteq Lineas
    BY DEF Lineas_altas, LineaDe, Lineas, TIC
  <2>2. ip \subseteq Lineas
    BY DEF TypeOK
  <2> QED
    BY <1>1, <2>1, <2>2
<1>4. ticks' \in 0..TOPE - 1
  <2>1. ticks \in 0..TOPE - 1 /\ TOPE \in Nat \ {0}
    BY Hechos, Numeros_de_la_placa
  <2>2. Suma(ticks, TOPE) \in 0..TOPE - 1
    BY <2>1 DEF Suma
  <2> QED
    BY <1>1, <2>1, <2>2, Zenon
<1>5. tx_wr' \in BOOLEAN /\ tx_busy' \in 0..TXC
  BY Emisor, Zenon
<1> QED
  BY <1>2, <1>3, <1>4, <1>5

LEMMA TipoReposo == ASSUME TypeOK, Reposo PROVE TypeOK'
<1>1. /\ mi' = mi /\ val' = val /\ im' = im /\ isr_table' = isr_table /\ salida' = salida
      /\ hpc' = hpc /\ pend' = pend /\ ie' = ie /\ tic_msec' = tic_msec
      /\ quieto < RETRASO /\ quieto' = quieto + 1 /\ Dispositivos(Nada, FALSE, {})
  BY DEF Reposo
<1>2. /\ TimerTypeOK' /\ ip' \subseteq Lineas /\ ticks' \in 0..TOPE - 1
      /\ tx_wr' \in BOOLEAN /\ tx_busy' \in 0..TXC
  BY <1>1, NadaAjena, TipoMaquina, Zenon
<1>3. quieto' \in 0..RETRASO
  BY <1>1, Tiempos
<1>4. Programa' = Programa
  BY DEF Programa
<1> QED
  BY <1>1, <1>2, <1>3, <1>4 DEF TypeOK

LEMMA TipoServicio ==
  ASSUME TypeOK, Manejador, NEW op, NEW b, Servicio(op, b)
  PROVE  TypeOK'
<1>1. /\ mi' = mi /\ val' = val /\ im' = im /\ isr_table' = isr_table /\ salida' = salida
      /\ quieto' = 0 /\ Dispositivos(op, FALSE, b) /\ Turno
  BY Zenon DEF Servicio
<1>2. /\ TimerTypeOK' /\ ip' \subseteq Lineas /\ ticks' \in 0..TOPE - 1
      /\ tx_wr' \in BOOLEAN /\ tx_busy' \in 0..TXC
  <2>1. Bueno(op)
    BY NadaAjena, RearmeAjeno, Zenon DEF Servicio
  <2> QED
    BY <1>1, <2>1, TipoMaquina, Zenon
<1>3. ie' \in BOOLEAN
  <2>1. ie' = TRUE \/ ie' = FALSE
    BY Zenon DEF Servicio
  <2> QED
    BY <2>1, Zenon
<1>4. tic_msec' \in 0..TOPE - 1
  <2>1. tic_msec \in 0..TOPE - 1 /\ TOPE \in Nat \ {0}
    BY Hechos, Numeros_de_la_placa
  <2>2. Suma(tic_msec, TOPE) \in 0..TOPE - 1
    BY <2>1 DEF Suma
  <2>3. tic_msec' = IF hpc = "tic_isr" THEN Suma(tic_msec, TOPE) ELSE tic_msec
    BY Zenon DEF Servicio
  <2> QED
    BY <2>1, <2>2, <2>3, Zenon
<1>5. hpc' \in {"no", "irq_handler", "tic_isr", "rearma", "eret"} /\ pend' \subseteq Lineas
  <2>1. ip \subseteq Lineas /\ TIC \in Lineas
    BY DEF TypeOK, Lineas
  <2> QED
    BY <1>1, <2>1 DEF Turno
<1>6. quieto' \in 0..RETRASO
  BY <1>1, Tiempos
<1>7. Programa' = Programa
  BY DEF Programa
<1> QED
  BY <1>1, <1>2, <1>3, <1>4, <1>5, <1>6, <1>7 DEF TypeOK

LEMMA LargoVa ==
  ASSUME NEW i \in Int, NEW b \in Nat, NEW n \in Nat, NEW g, NEW s,
         i \in b + 1..b + 1 + 2 * n, s = [d \in 1..(i - b - 1) \div 2 |-> g[d]]
  PROVE  Len(s) \in Int /\ Len(s) <= n
<1> DEFINE k == (i - b - 1) \div 2
<1>1. k \in Nat /\ k <= n
  OBVIOUS
<1> HIDE DEF k
<1>2. Len([d \in 1..k |-> g[d]]) = k
  BY <1>1
<1>3. Len(s) = k
  BY <1>2 DEF k
<1> QED
  BY <1>1, <1>3

\* No number is longer than TW characters.
LEMMA LargoMain ==
  ASSUME TypeOK, Transmisor, Numero, NEW op, NEW e, Efecto(op, e)
  PROVE  Len(salida') <= TW
<1>1. IF Ahora.op = "lee" THEN salida' = <<>>
      ELSE IF Ahora.op = "rxtx" THEN Putchar ELSE salida' = salida
  BY Zenon DEF Efecto
<1>2. Len(salida) <= TW
  BY DEF TypeOK
<1>3. CASE Ahora.op \notin {"lee", "rxtx"}
  BY <1>1, <1>2, <1>3
<1>4. CASE Ahora.op = "lee"
  BY <1>1, <1>4, Sitios
<1>5. CASE Ahora.op = "rxtx" /\ ~(mi \in N0 + 1..N3)
  <2>1. Ahora.a[1] = "letra"
    <3>1. mi \in 1..12 \/ mi \in 13..NF
      BY Entero, Sitios
    <3>2. CASE mi \in 1..12
      BY <1>5, <3>2, Empieza DEF Ahora, Escribe_alli
    <3>3. CASE mi \in 13..NF
      BY <1>5, <3>3, Clases, Zenon DEF Ahora
    <3> QED
      BY <3>1, <3>2, <3>3
  <2>2. salida' = salida
    BY <1>1, <1>5, <2>1 DEF Putchar
  <2> QED
    BY <1>2, <2>2
<1>6. CASE Ahora.op = "rxtx" /\ mi \in N0 + 1..N3
  <2>1. Numero'
    BY NumeroMain, Zenon
  <2>2. mi' = mi + 1
    <3>1. mi' = Sig(mi)
      BY <1>6, Avance
    <3> QED
      BY <1>6, <3>1, Sitios DEF Sig
  <2>3. mi \notin {N0 + 1, N1 + 1, N2 + 1, N1, N2, N3}
    <3>1. /\ Programa[N0 + 1].op = "lee" /\ Programa[N1 + 1].op = "lee"
          /\ Programa[N2 + 1].op = "lee" /\ Programa[N3].op = "escrito"
          /\ Programa[(N0 + 1) + 2 * ND + 1].op = "escrito"
          /\ Programa[(N1 + 1) + 2 * ND + 1].op = "escrito"
      BY EnNumero
    <3>2. N1 = (N0 + 1) + 2 * ND + 1 /\ N2 = (N1 + 1) + 2 * ND + 1
      BY Sitios
    <3> QED
      BY <1>6, <3>1, <3>2 DEF Ahora
  <2>4. /\ Va(N0 + 1, ND, "digito")' /\ Va(N1 + 1, ND, "digito")' /\ Va(N2 + 1, TW, "bit")'
    <3>1. (mi \in Nat)'
      BY Avance, Sitios
    <3> QED
      BY <2>1, <3>1, NumeroEs, PTL
  <2>5. ASSUME NEW b \in Nat, NEW n \in 0..TW, NEW que, Va(b, n, que)',
               mi' \in b + 1..b + 1 + 2 * n
        PROVE  Len(salida') <= TW
    <3> DEFINE g == Cifra(val', que)
    <3>1. mi' \in b + 1..b + 1 + 2 * n /\ mi' \in Int /\ n \in Nat /\ n <= TW /\ TW \in Nat
      <4>1. mi' \in Nat /\ TW \in Nat
        BY Avance, Sitios
      <4>2. mi' \in b + 1..b + 1 + 2 * n
        BY <2>5, Zenon
      <4>3. n \in Nat /\ n <= TW
        BY <4>1
      <4> QED
        BY <4>1, <4>2, <4>3
    <3>2. salida' = [d \in 1..(mi' - b - 1) \div 2 |-> g[d]]
      BY <2>5 DEF Va, Cifra, Digito, Bit
    <3> HIDE DEF g
    <3>3. Len(salida') <= n
      BY <3>1, <3>2, LargoVa, Zenon
    <3>4. Len(salida') \in Int
      BY <3>1, <3>2, LargoVa, Zenon
    <3> QED
      BY <3>1, <3>3, <3>4
  <2>6. \/ mi' \in (N0 + 1) + 1..(N0 + 1) + 1 + 2 * ND
        \/ mi' \in (N1 + 1) + 1..(N1 + 1) + 1 + 2 * ND
        \/ mi' \in (N2 + 1) + 1..(N2 + 1) + 1 + 2 * TW
    BY <1>6, <2>2, <2>3, Sitios
  <2>7. N0 + 1 \in Nat /\ N1 + 1 \in Nat /\ N2 + 1 \in Nat /\ ND \in 0..TW /\ TW \in 0..TW
    BY Sitios
  <2> QED
    BY <2>4, <2>5, <2>6, <2>7, Zenon
<1> QED
  BY <1>3, <1>4, <1>5, <1>6

LEMMA TipoMain ==
  ASSUME TypeOK, Puesta, Transmisor, Numero, NEW op, NEW e, Efecto(op, e)
  PROVE  TypeOK'
<1>1. /\ hpc' = hpc /\ hpc = "no" /\ pend' = pend /\ quieto' = 0 /\ Dispositivos(op, e, {})
      /\ tic_msec' = IF Ahora.op = "tic_msec" THEN 0 ELSE tic_msec
      /\ val' = IF Ahora.op = "lee" THEN tic_msec ELSE val
      /\ im' = IF Ahora.op = "irq_set_mask" THEN Ahora.a ELSE im
  BY Zenon DEF Efecto
<1>2. /\ TimerTypeOK' /\ ip' \subseteq Lineas /\ ticks' \in 0..TOPE - 1
      /\ tx_wr' \in BOOLEAN /\ tx_busy' \in 0..TXC
  BY <1>1, Acceso_de_main, TipoMaquina, Zenon
<1>3. tic_msec' \in 0..TOPE - 1 /\ val' \in 0..TOPE - 1
  <2>1. 0 \in 0..TOPE - 1
    BY Numeros_de_la_placa
  <2> QED
    BY <1>1, <2>1, Hechos, Zenon
<1>4. im' \subseteq Lineas /\ pend' \subseteq Lineas /\ hpc' \in {"no"}
  <2>1. Ahora.op = "irq_set_mask" => Ahora.a = {TIC}
    BY Entero, Lugares, Empieza DEF Ahora
  <2>2. im \subseteq Lineas /\ pend \subseteq Lineas /\ {TIC} \subseteq Lineas
    BY DEF TypeOK, Lineas
  <2> QED
    BY <1>1, <2>1, <2>2
<1>5. ie' \in BOOLEAN
  <2>1. ie' = TRUE \/ ie' = ie
    BY Zenon DEF Efecto
  <2> QED
    BY <2>1, Hechos, Zenon
<1>6. isr_table' \in [Lineas -> {"nada", "isr_null", "tic_isr"}]
  <2>1. isr_table \in [Lineas -> {"nada", "isr_null", "tic_isr"}]
    BY DEF TypeOK
  <2>2. isr_table' = IF Ahora.op = "isr_init" THEN [l \in Lineas |-> "isr_null"]
                     ELSE IF Ahora.op = "isr_register"
                          THEN [isr_table EXCEPT ![TIC] = "tic_isr"]
                     ELSE isr_table
    BY Zenon DEF Efecto
  <2> QED
    BY <2>1, <2>2
<1>7. quieto' \in 0..RETRASO
  BY <1>1, Tiempos
<1>8. mi' \in 1..Len(Programa)'
  <2>1. Len(Programa)' = NF
    BY Plan DEF Programa
  <2> QED
    BY <2>1, Avance
<1>9. Len(salida') <= TW
  BY LargoMain, Zenon
<1> QED
  BY <1>2, <1>3, <1>4, <1>5, <1>6, <1>7, <1>8, <1>9 DEF TypeOK
-----------------------------------------------------------------------------
(* The invariant, and what follows from it. *)

LEMMA InitIInv == Init => IInv
<1> SUFFICES ASSUME Init PROVE IInv
  OBVIOUS
<1>1. /\ counter = [t \in {0, 1} |-> 0] /\ compare = [t \in {0, 1} |-> MOD - 1]
      /\ en = [t \in {0, 1} |-> FALSE] /\ ar = [t \in {0, 1} |-> FALSE]
      /\ trig = [t \in {0, 1} |-> FALSE]
      /\ mi = 1 /\ val = 0 /\ hpc = "no" /\ pend = {} /\ ie = FALSE /\ im = {} /\ ip = {}
      /\ isr_table = [l \in Lineas |-> "nada"] /\ tic_msec = 0
      /\ tx_wr = FALSE /\ tx_busy = 0 /\ quieto = 0 /\ salida = <<>> /\ ticks = 0 /\ t1 = 0
  BY DEF Init, TimerInit
<1>2. /\ TXC \in Nat /\ RETRASO \in Nat /\ TW \in Nat /\ TOPE \in Nat \ {0} /\ MOD \in Nat \ {0}
  BY Numeros_de_la_placa
<1>3. TypeOK
  <2>1. TimerTypeOK
    BY <1>1, <1>2 DEF TimerTypeOK, Palabra
  <2>2. mi \in 1..Len(Programa)
    <3>1. mi = 1
      BY <1>1
    <3>2. 1 \in 1..NF
      BY Sitios
    <3>3. Len(Programa) = NF
      BY Plan, Zenon
    <3> QED
      BY <3>1, <3>2, <3>3, Zenon
  <2>3. {val, tic_msec, ticks} \subseteq 0..TOPE - 1
    BY <1>1, <1>2
  <2>4. tx_busy \in 0..TXC /\ quieto \in 0..RETRASO /\ Len(salida) <= TW
    BY <1>1, <1>2
  <2>5. /\ {pend, im, ip} \subseteq SUBSET Lineas /\ {ie, tx_wr} \subseteq BOOLEAN
        /\ isr_table \in [Lineas -> {"nada", "isr_null", "tic_isr"}]
    BY <1>1
  <2> QED
    BY <1>1, <2>1, <2>2, <2>3, <2>4, <2>5 DEF TypeOK
<1>4. ~trig[0] /\ ~trig[1] /\ ~en[0] /\ ~en[1] /\ ~ar[0] /\ ~ar[1]
  BY <1>1
<1>5. Puesta
  <2>1. isr_table[0] # "tic_isr"
    BY <1>1 DEF Lineas
  <2> QED
    BY <1>1, <1>4, <2>1 DEF Puesta
<1>6. Manejador /\ Cuenta /\ Transmisor
  BY <1>1, <1>4 DEF Manejador, Cuenta, Transmisor
<1>7. Ahora.op = "ucr"
  BY <1>1, Empieza DEF Ahora
<1>8. Espera_msleep /\ Margen
  BY <1>1, <1>2, <1>4, <1>7 DEF Espera_msleep, Margen, Escribira
<1>9. Numero
  <2>1. mi = 1
    BY <1>1
  <2>2. mi \notin N2 + 2..N2 + 2 + 2 * TW
    BY <2>1, Sitios
  <2>3. \A b \in {N0 + 1, N1 + 1} : mi \notin b + 1..b + 1 + 2 * ND
    BY <2>1, Sitios
  <2> QED
    BY <2>2, <2>3, Zenon DEF Numero
<1> QED
  BY <1>3, <1>5, <1>6, <1>8, <1>9 DEF IInv

LEMMA Quieto_IInv == ASSUME IInv, UNCHANGED vars PROVE IInv'
<1>1. /\ counter' = counter /\ compare' = compare /\ en' = en /\ ar' = ar /\ trig' = trig
      /\ mi' = mi /\ val' = val /\ hpc' = hpc /\ pend' = pend /\ ie' = ie /\ im' = im
      /\ ip' = ip /\ isr_table' = isr_table /\ tic_msec' = tic_msec /\ tx_wr' = tx_wr
      /\ tx_busy' = tx_busy /\ quieto' = quieto /\ salida' = salida /\ ticks' = ticks
      /\ t1' = t1
  BY DEF vars, timer, programa, irq, uart
<1>2. Ahora' = Ahora /\ Programa' = Programa
  BY <1>1 DEF Ahora, Programa
<1>3. TypeOK'
  BY <1>1, <1>2, Zenon DEF IInv, TypeOK, TimerTypeOK
<1>4. Puesta'
  BY <1>1, Zenon DEF IInv, Puesta
<1>5. Manejador' /\ Cuenta'
  <2>1. Cota' = Cota
    BY <1>1, Zenon DEF Cota
  <2> QED
    BY <1>1, <2>1, Zenon DEF IInv, Manejador, Cuenta, Antes_de_rearmar, Suma
<1>6. Espera_msleep' /\ Transmisor'
  BY <1>1, <1>2, Zenon DEF IInv, Espera_msleep, Escribira, Transmisor
<1>7. Margen'
  <2>1. Cota' = Cota /\ Tarde' = Tarde
    BY <1>1, Zenon DEF Cota, Tarde
  <2> QED
    BY <1>1, <1>2, <2>1, Zenon DEF IInv, Margen
<1>8. Numero'
  BY <1>1, NumeroQuieto, Zenon DEF IInv
<1> QED
  BY <1>3, <1>4, <1>5, <1>6, <1>7, <1>8, Zenon DEF IInv

LEMMA PasoIInv == IInv /\ [Next]_vars => IInv'
<1> SUFFICES ASSUME IInv, [Next]_vars PROVE IInv'
  OBVIOUS
<1>1. /\ TypeOK /\ Puesta /\ Manejador /\ Cuenta
      /\ Espera_msleep /\ Margen /\ Transmisor /\ Numero
  BY DEF IInv
<1>2. CASE Main
  <2>1. PICK op, e : Efecto(op, e)
    BY <1>2, DeMain, Zenon
  <2>2. TypeOK' /\ Numero'
    BY <1>1, <2>1, TipoMain, NumeroMain, Zenon
  <2>3. Puesta' /\ Manejador' /\ Cuenta' /\ Transmisor' /\ Margen'
    BY <1>1, <2>1, PuestaMain, ManejadorMain, CuentaMain, TransmisorMain, Margen_main, Zenon
  <2>4. Espera_msleep'
    <3>1. CASE mi' = mi
      <4>1. Ahora.op # "bus"
        <5>1. Ahora.op \in {"sondeo", "ucr"}
          BY <1>1, <2>1, <3>1, Avance, Zenon
        <5> QED
          BY <5>1
      <4>2. Ajeno(op, 1)
        BY <1>1, <2>1, <4>1, Acceso_de_main, NadaAjena, Zenon
      <4>3. Dispositivos(op, e, {})
        BY <2>1, Zenon DEF Efecto
      <4> QED
        BY <1>1, <3>1, <4>2, <4>3, EsperaQuieta, Zenon
    <3>2. CASE mi' # mi
      BY <1>1, <2>1, <3>2, EsperaAvanza, Zenon
    <3> QED
      BY <3>1, <3>2, Zenon
  <2> QED
    BY <2>2, <2>3, <2>4, Zenon DEF IInv
<1>3. CASE Irq
  <2>1. PICK op, b : Servicio(op, b)
    BY <1>1, <1>3, DeIrq, Zenon
  <2>2. /\ mi' = mi /\ val' = val /\ salida' = salida /\ Dispositivos(op, FALSE, b)
        /\ Ajeno(op, 1)
    BY <2>1, NadaAjena, RearmeAjeno, Zenon DEF Servicio
  <2>3. TypeOK' /\ Numero'
    BY <1>1, <2>1, <2>2, TipoServicio, NumeroQuieto, Zenon
  <2>4. Puesta' /\ Manejador' /\ Cuenta' /\ Margen'
    BY <1>1, <2>1, PuestaServicio, ManejadorServicio, CuentaServicio, Margen_servicio, Zenon
  <2>5. Espera_msleep' /\ Transmisor'
    BY <1>1, <2>2, EsperaQuieta, TransmisorResto, Zenon
  <2> QED
    BY <2>3, <2>4, <2>5, Zenon DEF IInv
<1>4. CASE Espera
  <2>1. Reposo
    BY <1>4, DeEspera, Zenon
  <2>2. /\ mi' = mi /\ val' = val /\ salida' = salida /\ Dispositivos(Nada, FALSE, {})
        /\ Ajeno(Nada, 1)
    BY <2>1, NadaAjena, Zenon DEF Reposo
  <2>3. TypeOK' /\ Numero'
    BY <1>1, <2>1, <2>2, TipoReposo, NumeroQuieto, Zenon
  <2>4. Puesta' /\ Manejador' /\ Cuenta' /\ Margen'
    BY <1>1, <2>1, PuestaReposo, ManejadorReposo, CuentaReposo, Margen_reposo, Zenon
  <2>5. Espera_msleep' /\ Transmisor'
    BY <1>1, <2>2, EsperaQuieta, TransmisorResto, Zenon
  <2> QED
    BY <2>3, <2>4, <2>5, Zenon DEF IInv
<1>5. CASE UNCHANGED vars
  BY <1>5, Quieto_IInv, Zenon
<1> QED
  BY <1>2, <1>3, <1>4, <1>5, Zenon DEF Next

LEMMA SiempreIInv == Spec => []IInv
  BY InitIInv, PasoIInv, PTL DEF Spec

\* Each number is on the host whole when main is behind its last character.
LEMMA NumeroLlega == ASSUME IInv PROVE NumeroEscrito
<1> SUFFICES ASSUME Ahora.op = "escrito"
             PROVE  salida = IF Ahora.a = "digitos" THEN [d \in 1..TW \div DIGITO |-> Digito(val, d)]
                             ELSE [d \in 1..TW |-> Bit(val, d)]
  BY DEF NumeroEscrito
<1>1. mi \in 13..NF
  <2>1. mi \in 1..NF
    BY Entero DEF IInv
  <2>2. mi > 12
    BY <2>1, Lugares DEF Ahora
  <2> QED
    BY <2>1, <2>2, Sitios
<1>2. \/ mi \in {N1, N2} /\ Ahora.a = "digitos"
      \/ mi = N3 /\ Ahora.a = "bits"
  BY <1>1, Clases, Zenon DEF Ahora
<1>3. CASE mi \in {N1, N2} /\ Ahora.a = "digitos"
  <2>1. PICK b \in {N0 + 1, N1 + 1} : mi = b + 1 + 2 * ND
    BY <1>3, Sitios
  <2>2. mi \in b + 1..b + 1 + 2 * ND /\ (mi - b - 1) \div 2 = ND
    <3>1. b \in Nat /\ ND \in Nat
      BY Sitios
    <3> QED
      BY <2>1, <3>1
  <2>3. salida = [d \in 1..(mi - b - 1) \div 2 |-> Digito(val, d)]
    BY <2>2, Zenon DEF IInv, Numero
  <2> QED
    BY <1>3, <2>2, <2>3, Zenon DEF ND
<1>4. CASE mi = N3 /\ Ahora.a = "bits"
  <2>1. mi \in N2 + 2..N2 + 2 + 2 * TW /\ (mi - N2 - 2) \div 2 = TW
    BY <1>4, Sitios
  <2>2. salida = [d \in 1..(mi - N2 - 2) \div 2 |-> Bit(val, d)]
    BY <2>1, Zenon DEF IInv, Numero
  <2>3. Ahora.a # "digitos"
    BY <1>4
  <2> QED
    BY <2>1, <2>2, <2>3, Zenon
<1> QED
  BY <1>2, <1>3, <1>4

\* Whatever the interrupts do, and however fast the UART, a number that main
\* prints is on the host digit by digit when its last character is written, for
\* every width of numbers (writeint and main's own loop over uart_putchar,
\* src/firmware/hw-test/main.c:5-17 and 96-112); every handler that an
\* interrupt calls is one that main has set (irq_handler, soc-hw.c:18-38).
THEOREM NumerosIntegros == Spec => []SalidaIntegra
<1>1. IInv => SalidaIntegra
  BY NumeroLlega, Zenon DEF IInv, SalidaIntegra
<1> QED
  BY <1>1, SiempreIInv, PTL

\* Every match of the tick's counter is counted once by tic_msec, which is
\* behind only by the one whose interrupt is on its way: no tick is lost by
\* tic_isr's write of TCR0 nor by crt0ram.S's of IP, and none counted twice, for
\* every pace of the processor that leaves a tick longer than its handler
\* (tic_isr, src/firmware/hw-test/soc-hw.c:81-85; crt0ram.S:97-102).
THEOREM NingunTicPerdido == Spec => []TicsContados
<1>1. IInv => TicsContados
  BY Zenon DEF IInv, Cuenta, TicsContados
<1> QED
  BY <1>1, SiempreIInv, PTL

\* The end of a poll of msleep, by the invariant.
LEMMA PasoMsleep ==
  ASSUME IInv, [Next]_vars, Ahora.op = "sondeo", mi' # mi
  PROVE  t1 \in Duracion(Ahora.a)..Duracion(Ahora.a) + MARGEN
<1>1. TypeOK /\ Espera_msleep /\ Margen /\ Puesta /\ Manejador
  BY DEF IInv
<1>2. Main
  <2>1. CASE Irq
    <3>1. PICK op, b : Servicio(op, b)
      BY <1>1, <2>1, DeIrq, Zenon
    <3> QED
      BY <3>1, Zenon DEF Servicio
  <2>2. CASE Espera
    BY <2>2, DeEspera, Zenon DEF Reposo
  <2>3. CASE UNCHANGED vars
    BY <2>3 DEF vars, programa
  <2> QED
    BY <2>1, <2>2, <2>3, Zenon DEF Next
<1>3. PICK op, e : Efecto(op, e)
  BY <1>2, DeMain, Zenon
<1>4. hpc = "no" /\ ~Repite
  BY <1>3, Zenon DEF Efecto
<1>5. trig[1]
  BY <1>4 DEF Repite
<1>6. t1 > D
  BY <1>1, <1>5 DEF Espera_msleep
<1>7. Tarde <= 7 * T
  <2>1. Tarde <= 0 \/ Tarde <= 7 * T
    BY <1>1, <1>4, <1>5 DEF Margen
  <2> QED
    BY <1>1, <2>1, Tardes, Tiempos
<1>8. t1 \in D..D + MARGEN
  BY <1>1, <1>6, <1>7, Tardes, Tiempos, Numeros_de_la_placa
<1>9. Ahora.a = 1
  <2>1. mi \in 13..NF
    <3>1. mi \in 1..NF
      BY <1>1, Entero, Zenon
    <3>2. mi > 12
      BY <3>1, Lugares DEF Ahora
    <3> QED
      BY <3>1, <3>2, Sitios
  <2> QED
    BY <2>1, Clases, Zenon DEF Ahora
<1> QED
  BY <1>8, <1>9, Duracion1, Zenon

\* msleep ends no earlier than it is told and no later than one interrupt and
\* the processor's own steps after, for every period of the timer and pace of
\* the processor (msleep, src/firmware/hw-test/soc-hw.c:48-61).
THEOREM MsleepSiempreJusto == Spec => MsleepJusto
<1>1. IInv /\ [Next]_vars =>
        [Ahora.op = "sondeo" /\ mi' # mi =>
           t1 \in Duracion(Ahora.a)..Duracion(Ahora.a) + MARGEN]_vars
  BY PasoMsleep, Zenon
<1> QED
  BY <1>1, SiempreIInv, PTL DEF Spec, MsleepJusto
=============================================================================
