---------------------------- MODULE Carga_proofs ----------------------------
(***************************************************************************)
(* Proofs about Carga, for every file whose lines fit: srec2vram prints    *)
(* what the file puts in the window, and the uploader and the boot loader  *)
(* leave in memory what it says, whatever they interleave.                 *)
(*                                                                         *)
(* The second part sees a session as a list of commands, known from the    *)
(* file, and the bytes on the way as what is left of those sent: from byte *)
(* i + 1 of command d. The loader's state says what it did with the rest.  *)
(***************************************************************************)
EXTENDS Carga, FiniteSetTheorems, SequenceTheorems, WellFoundedInduction, TLAPS

\* Arithmetic modulo the address space, of numbers less than a turn away.
LEMMA ModPropio ==
  ASSUME NEW x \in 0..M - 1
  PROVE  x % M = x
  BY SrecAssumption
LEMMA ModUno ==
  ASSUME NEW x \in M..2 * M - 1
  PROVE  x % M = x - M
  BY SrecAssumption
LEMMA ModNegativo ==
  ASSUME NEW x \in (-M)..(-1)
  PROVE  x % M = x + M
  BY SrecAssumption

\* A displacement taken from an address and put back.
LEMMA IdaYVuelta ==
  ASSUME NEW d \in Dir, NEW i \in 0..M - 1
  PROVE  /\ (d + i) % M \in Dir
         /\ (((d + i) % M) - d) % M = i
<1>0. M \in Nat /\ LINESIZE \in Nat /\ LINESIZE < M
  BY SrecAssumption
<1>1. CASE d + i < M
  <2>1. (d + i) % M = d + i
    BY <1>0, <1>1, ModPropio DEF Dir
  <2>2. i % M = i
    BY ModPropio
  <2> QED
    BY <1>0, <1>1, <2>1, <2>2 DEF Dir
<1>2. CASE d + i >= M
  <2>1. (d + i) % M = d + i - M
    BY <1>0, <1>2, ModUno DEF Dir
  <2>2. (i - M) % M = i
    BY <1>0, ModNegativo
  <2>3. d + i - M - d = i - M
    BY <1>0 DEF Dir
  <2> QED
    BY <1>0, <1>2, <2>1, <2>2, <2>3 DEF Dir
<1> QED
  BY <1>0, <1>1, <1>2 DEF Dir

\* A line that fits in the buffer does not go round the address space.
Corta(l) == /\ l.dir \in Dir /\ l.dat \in Seq(Byte)
            /\ l.tipo \in Datos => /\ Len(l.dat) < M
                                   /\ l.cuenta - Cabecera(l.tipo) = Len(l.dat)

LEMMA LineasCortas ==
  ASSUME NEW f \in Ficheros
  PROVE  /\ DOMAIN f = 1..Len(f) /\ Len(f) \in Nat \ {0}
         /\ \A x \in DOMAIN f : Corta(f[x])
<1>1. /\ f # <<>>
      /\ f \in Seq(LineaSrec)
      /\ LINESIZE \in Nat /\ M \in Nat /\ LINESIZE < M
      /\ \A x \in DOMAIN f :
           /\ f[x].tipo \in Datos => f[x].cuenta = Cabecera(f[x].tipo) + Len(f[x].dat)
           /\ 4 + 2 * f[x].cuenta < LINESIZE
  BY SrecAssumption
<1>2. DOMAIN f = 1..Len(f) /\ Len(f) \in Nat \ {0}
  BY <1>1
<1>3. ASSUME NEW x \in DOMAIN f PROVE Corta(f[x])
  <2>1. f[x] \in LineaSrec
    BY <1>1, <1>2
  <2>2. /\ f[x].dir \in Dir /\ f[x].dat \in Seq(Byte) /\ f[x].cuenta \in Nat
        /\ Len(f[x].dat) \in Nat
    BY <2>1 DEF LineaSrec
  <2>3. Cabecera(f[x].tipo) \in {3, 4, 5}
    BY DEF Cabecera
  <2>4. ASSUME f[x].tipo \in Datos
        PROVE  /\ Len(f[x].dat) < M
               /\ f[x].cuenta - Cabecera(f[x].tipo) = Len(f[x].dat)
    <3>1. /\ f[x].cuenta = Cabecera(f[x].tipo) + Len(f[x].dat)
          /\ 4 + 2 * f[x].cuenta < LINESIZE
      BY <1>1, <2>4
    <3>2. f[x].cuenta - Cabecera(f[x].tipo) = Len(f[x].dat)
      BY <2>2, <2>3, <3>1
    <3>3. Len(f[x].dat) <= f[x].cuenta
      BY <2>2, <2>3, <3>1
    <3>4. M \in Nat /\ LINESIZE \in Nat /\ LINESIZE < M
      BY SrecAssumption
    <3> QED
      BY <2>2, <3>1, <3>2, <3>3, <3>4
  <2> QED
    BY <2>2, <2>4 DEF Corta
<1> QED
  BY <1>2, <1>3

\* A line puts one byte at most at an address.
LEMMA LugarUnico ==
  ASSUME NEW l, Corta(l), l.tipo \in Datos,
         NEW x \in DOMAIN l.dat, NEW y \in DOMAIN l.dat, Lugar(l, x) = Lugar(l, y)
  PROVE  x = y
<1>1. /\ Len(l.dat) \in Nat /\ Len(l.dat) < M /\ DOMAIN l.dat = 1..Len(l.dat)
      /\ l.dir \in Dir /\ M \in Nat
  BY SrecAssumption DEF Corta
<1>2. x - 1 \in 0..M - 1 /\ y - 1 \in 0..M - 1
  BY <1>1
<1>3. l.dir + x - 1 = l.dir + (x - 1) /\ l.dir + y - 1 = l.dir + (y - 1)
  BY <1>1 DEF Dir
<1> QED
  BY <1>1, <1>2, <1>3, IdaYVuelta DEF Lugar

\* parseline writes the bytes of the line that lie in the window, each in its
\* place, and nothing else (srec2vram.c:46-86).
LEMMA ParselineBien ==
  ASSUME NEW l, Corta(l), l.tipo \in Datos, DOMAIN ram = 0..ramsize - 1,
         NEW res, res = parseline(l, Len(l.dat))
  PROVE  /\ DOMAIN res = 0..ramsize - 1 /\ res = [o \in 0..ramsize - 1 |-> res[o]]
         /\ \A o \in 0..ramsize - 1 :
              IF Cubre(l, rambase + o)
              THEN \E x \in DOMAIN l.dat : Lugar(l, x) = rambase + o /\ res[o] = l.dat[x]
              ELSE res[o] = ram[o]
<1> DEFINE L == Len(l.dat)
           A(i) == (l.dir + i) % M
           escritas == {i \in 0..L - 1 : EnVentana(A(i))}
           Sitio(i) == A(i) - rambase
           Dominio == DOMAIN ram \cup {Sitio(i) : i \in escritas}
<1>1. /\ L \in Nat /\ L < M /\ DOMAIN l.dat = 1..L /\ l.dir \in Dir /\ M \in Nat
      /\ \A i \in 0..L - 1 : A(i) \in Dir /\ (A(i) - l.dir) % M = i
  <2>1. L \in Nat /\ L < M /\ DOMAIN l.dat = 1..L /\ l.dir \in Dir /\ M \in Nat
    BY SrecAssumption DEF Corta
  <2> QED
    BY <2>1, IdaYVuelta
<1>2. /\ rambase \in Nat /\ ramsize \in Nat
      /\ \A a \in Dir : EnVentana(a) <=> rambase <= a /\ a < rambase + ramsize
  <2>1. rambase \in Nat /\ ramsize \in Nat /\ rambase + ramsize \in 0..M - 1
    BY <1>1, VramAssumption DEF Dir
  <2>2. (rambase + ramsize) % M = rambase + ramsize
    BY <2>1, ModPropio
  <2> QED
    BY <2>1, <2>2 DEF EnVentana
<1>5. res = [o \in Dominio |-> IF \E i \in escritas : Sitio(i) = o
                         THEN l.dat[1 + ((rambase + o - l.dir) % M)] ELSE ram[o]]
  BY DEF parseline
<1> HIDE DEF A
<1>3. \A i \in escritas : Sitio(i) \in 0..ramsize - 1 /\ A(i) = rambase + Sitio(i)
  <2> SUFFICES ASSUME NEW i \in escritas
               PROVE  Sitio(i) \in 0..ramsize - 1 /\ A(i) = rambase + Sitio(i)
    OBVIOUS
  <2>1. A(i) \in Dir /\ EnVentana(A(i))
    BY <1>1
  <2>2. A(i) \in Int /\ rambase <= A(i) /\ A(i) < rambase + ramsize
    BY <1>1, <1>2, <2>1 DEF Dir
  <2> QED
    BY <1>2, <2>2
<1>4. Dominio = 0..ramsize - 1
  BY <1>3
<1>6. ASSUME NEW o \in 0..ramsize - 1
      PROVE  IF Cubre(l, rambase + o)
             THEN \E x \in DOMAIN l.dat : Lugar(l, x) = rambase + o /\ res[o] = l.dat[x]
             ELSE res[o] = ram[o]
  <2>1. CASE \E i \in escritas : Sitio(i) = o
    <3>1. PICK i \in escritas : Sitio(i) = o
      BY <2>1
    <3>2. A(i) = rambase + o
      BY <1>3, <3>1
    <3>3. res[o] = l.dat[1 + i]
      <4>1. (rambase + o - l.dir) % M = i
        <5>1. i \in 0..L - 1
          OBVIOUS
        <5>2. (A(i) - l.dir) % M = i
          BY <1>1, <5>1
        <5>3. A(i) - l.dir = rambase + o - l.dir
          <6>1. l.dir \in Int /\ rambase \in Int /\ o \in Int
            BY <1>1, <1>2 DEF Dir
          <6> QED
            BY <3>2, <6>1
        <5> QED
          BY <5>2, <5>3
      <4>2. res[o] = l.dat[1 + ((rambase + o - l.dir) % M)]
        BY <1>4, <1>5, <2>1
      <4> QED
        BY <4>1, <4>2
    <3>4. 1 + i \in DOMAIN l.dat /\ Lugar(l, 1 + i) = rambase + o
      <4>1. l.dir + (1 + i) - 1 = l.dir + i
        BY <1>1 DEF Dir
      <4> QED
        BY <1>1, <3>2, <4>1 DEF Lugar, A
    <3> QED
      BY <3>3, <3>4 DEF Cubre
  <2>2. CASE ~\E i \in escritas : Sitio(i) = o
    <3>1. res[o] = ram[o]
      BY <1>4, <1>5, <2>2
    <3>2. ASSUME NEW x \in DOMAIN l.dat, Lugar(l, x) = rambase + o PROVE FALSE
      <4>1. x - 1 \in 0..L - 1 /\ A(x - 1) = rambase + o
        <5>1. l.dir + x - 1 = l.dir + (x - 1)
          BY <1>1 DEF Dir
        <5> QED
          BY <1>1, <3>2, <5>1 DEF Lugar, A
      <4>2. x - 1 \in escritas /\ Sitio(x - 1) = o
        BY <1>1, <1>2, <4>1
      <4> QED
        BY <2>2, <4>2
    <3> QED
      BY <3>1, <3>2 DEF Cubre
  <2> QED
    BY <2>1, <2>2
<1> QED
  BY <1>4, <1>5, <1>6
-----------------------------------------------------------------------------
\* Byte o of the memory is right as far as the first h lines go: that of the
\* last of them that has one, or what malloc gave.
Puesto(o, h) ==
  \/ \E j \in 1..h :
       /\ \E x \in DOMAIN fichero[j].dat :
            Lugar(fichero[j], x) = rambase + o /\ ram[o] = fichero[j].dat[x]
       /\ fichero[j].tipo \in Datos
       /\ \A m \in j + 1..h : ~Cubre(fichero[m], rambase + o)
  \/ ram[o] \in Basura /\ \A m \in 1..h : ~Cubre(fichero[m], rambase + o)

VramInv ==
  /\ fichero \in Ficheros /\ leidas \in 0..Len(fichero)
  /\ leidas = 0 => vfase = "lee"
  /\ leidas > 0 => line = fichero[leidas]
  /\ vfase \in {"lee", "escribe", "fin"}
  /\ vfase \in {"escribe", "fin"} => leidas = Len(fichero)
  /\ DOMAIN ram = 0..ramsize - 1 /\ ram = [o \in 0..ramsize - 1 |-> ram[o]]
  /\ \A o \in 0..ramsize - 1 : Puesto(o, leidas)
  /\ vfase = "fin" =>
       vram = [w \in 1..ramsize \div PAL |-> [b \in 1..PAL |-> ram[(w - 1) * PAL + b - 1]]]

LEMMA VramInvInit == Init => VramInv
<1> SUFFICES ASSUME Init PROVE VramInv
  OBVIOUS
<1>1. fichero \in Ficheros /\ leidas = 0 /\ vfase = "lee"
  BY DEF Init, VInit
<1>2. PICK x \in Basura : ram = [o \in 0..ramsize - 1 |-> x]
  BY DEF Init, VInit
<1>3. Len(fichero) \in Nat
  BY <1>1, LineasCortas
<1>4. \A o \in 0..ramsize - 1 : Puesto(o, leidas)
  BY <1>1, <1>2 DEF Puesto
<1> QED
  BY <1>1, <1>2, <1>3, <1>4 DEF VramInv

\* The lines read, and those before them.
LEMMA Hasta ==
  ASSUME NEW h \in Nat, NEW e \in Nat, e = h \/ e = h - 1
  PROVE  /\ 1..e \subseteq 1..h
         /\ \A x \in 1..h : x \in 1..e \/ x = h
         /\ \A j \in 1..e : \A x \in j + 1..h : x \in j + 1..e \/ x = h
         /\ h + 1..h = {}
  OBVIOUS

\* A turn of the loop: the line read, or the last one once more.
LEMMA VramInvLinea ==
  ASSUME VramInv, Linea, fichero' = fichero
  PROVE  VramInv'
<1> DEFINE h == leidas'
           l == line'
<1>1. /\ DOMAIN fichero = 1..Len(fichero) /\ Len(fichero) \in Nat \ {0}
      /\ \A x \in DOMAIN fichero : Corta(fichero[x])
  BY LineasCortas DEF VramInv
<1>2. /\ h \in 1..Len(fichero) /\ l = fichero[h]
      /\ leidas \in {h, h - 1} /\ leidas \in 0..Len(fichero)
      /\ vfase' \in {"lee", "escribe"} /\ (vfase' = "escribe" => h = Len(fichero))
  <2>0. /\ leidas \in 0..Len(fichero) /\ Len(fichero) \in Nat \ {0}
        /\ leidas > 0 => line = fichero[leidas]
    BY <1>1 DEF VramInv
  <2>1. CASE leidas < Len(fichero)
    <3>1. /\ leidas' = leidas + 1 /\ line' = fichero[leidas + 1]
          /\ vfase' = IF leidas + 1 = Len(fichero) /\ ~salto THEN "escribe" ELSE "lee"
      BY <2>1 DEF Linea
    <3> QED
      BY <2>0, <2>1, <3>1
  <2>2. CASE ~(leidas < Len(fichero))
    <3>1. vfase' = "escribe" /\ leidas' = leidas /\ line' = line
      BY <2>2 DEF Linea
    <3>2. leidas = Len(fichero) /\ leidas > 0
      BY <2>0, <2>2
    <3> QED
      BY <2>0, <3>1, <3>2
  <2> QED
    BY <2>1, <2>2
<1>a. /\ 1..leidas \subseteq 1..h
      /\ \A x \in 1..h : x \in 1..leidas \/ x = h
      /\ \A j \in 1..leidas : \A x \in j + 1..h : x \in j + 1..leidas \/ x = h
      /\ h + 1..h = {}
  <2> HIDE DEF h, l
  <2>0. Len(fichero) \in Nat /\ h \in 1..Len(fichero) /\ leidas \in 0..Len(fichero)
    BY <1>1, <1>2
  <2>1. h \in Nat /\ leidas \in Nat /\ (leidas = h \/ leidas = h - 1)
    BY <1>2, <2>0
  <2> QED
    BY <2>1, Hasta
<1>3. Corta(l) /\ Procesa(l)
  BY <1>1, <1>2 DEF Linea
<1>4. /\ DOMAIN ram' = 0..ramsize - 1 /\ ram' = [o \in 0..ramsize - 1 |-> ram'[o]]
      /\ \A o \in 0..ramsize - 1 :
           IF Cubre(l, rambase + o)
           THEN \E x \in DOMAIN l.dat : Lugar(l, x) = rambase + o /\ ram'[o] = l.dat[x]
           ELSE ram'[o] = ram[o]
  <2>1. CASE l.tipo \in Datos
    <3>1. ram' = parseline(l, Len(l.dat)) /\ Corta(l) /\ DOMAIN ram = 0..ramsize - 1
      <4>1. l.cuenta - Cabecera(l.tipo) = Len(l.dat)
        BY <1>3, <2>1 DEF Corta
      <4>2. ram' = parseline(l, l.cuenta - Cabecera(l.tipo))
        BY <1>3, <2>1 DEF Procesa
      <4> QED
        BY Zenon, <1>3, <4>1, <4>2 DEF VramInv
    <3>2. DOMAIN ram' = 0..ramsize - 1 /\ ram' = [o \in 0..ramsize - 1 |-> ram'[o]]
      BY <2>1, <3>1, ParselineBien
    <3>3. \A o \in 0..ramsize - 1 :
            IF Cubre(l, rambase + o)
            THEN \E x \in DOMAIN l.dat : Lugar(l, x) = rambase + o /\ ram'[o] = l.dat[x]
            ELSE ram'[o] = ram[o]
      BY <2>1, <3>1, ParselineBien
    <3> QED
      BY <3>2, <3>3
  <2>2. CASE l.tipo \notin Datos
    BY <1>3, <2>2 DEF VramInv, Procesa, Cubre
  <2> QED
    BY <2>1, <2>2
<1>5. ASSUME NEW o \in 0..ramsize - 1 PROVE Puesto(o, leidas)'
  <2>1. CASE Cubre(l, rambase + o)
    <3>1. /\ \E x \in DOMAIN l.dat : Lugar(l, x) = rambase + o /\ ram'[o] = l.dat[x]
          /\ l.tipo \in Datos
      BY <1>4, <2>1 DEF Cubre
    <3>2. h \in 1..h /\ l = fichero[h]
      BY <1>2
    <3>3. \A m \in h + 1..h : ~Cubre(fichero[m], rambase + o)
      BY <1>a
    <3>4. \E j \in 1..h :
            /\ \E x \in DOMAIN fichero[j].dat :
                 Lugar(fichero[j], x) = rambase + o /\ ram'[o] = fichero[j].dat[x]
            /\ fichero[j].tipo \in Datos
            /\ \A m \in j + 1..h : ~Cubre(fichero[m], rambase + o)
      <4> HIDE DEF h, l
      <4>1. \E x \in DOMAIN fichero[h].dat :
               Lugar(fichero[h], x) = rambase + o /\ ram'[o] = fichero[h].dat[x]
        BY Zenon, <3>1, <3>2
      <4>2. fichero[h].tipo \in Datos
        BY Zenon, <3>1, <3>2
      <4> QED
        BY Zenon, <3>2, <3>3, <4>1, <4>2
    <3> QED
      BY Zenon, <3>4 DEF Puesto
  <2>2. CASE ~Cubre(l, rambase + o)
    <3>1. ram'[o] = ram[o] /\ Puesto(o, leidas)
      BY <1>4, <2>2 DEF VramInv
    <3>2. \A m \in 1..h : m \in 1..leidas \/ m = h
      BY <1>a
    <3>3. 1..leidas \subseteq 1..h
      BY <1>a
    <3>4. CASE ram[o] \in Basura /\ \A m \in 1..leidas : ~Cubre(fichero[m], rambase + o)
      BY <1>2, <2>2, <3>1, <3>2, <3>4 DEF Puesto
    <3>5. CASE \E j \in 1..leidas :
                 /\ \E x \in DOMAIN fichero[j].dat :
                      Lugar(fichero[j], x) = rambase + o /\ ram[o] = fichero[j].dat[x]
                 /\ fichero[j].tipo \in Datos
                 /\ \A m \in j + 1..leidas : ~Cubre(fichero[m], rambase + o)
      <4>1. PICK j \in 1..leidas :
                 /\ \E x \in DOMAIN fichero[j].dat :
                      Lugar(fichero[j], x) = rambase + o /\ ram[o] = fichero[j].dat[x]
                 /\ fichero[j].tipo \in Datos
                 /\ \A m \in j + 1..leidas : ~Cubre(fichero[m], rambase + o)
        BY <3>5
      <4>2. \A m \in j + 1..h : ~Cubre(fichero[m], rambase + o)
        <5>1. \A m \in j + 1..h : m \in j + 1..leidas \/ m = h
          BY <1>a
        <5> QED
          BY <1>2, <2>2, <4>1, <5>1
      <4>3. j \in 1..h
        BY <3>3
      <4> QED
        BY <3>1, <4>1, <4>2, <4>3 DEF Puesto
    <3> QED
      BY <3>1, <3>4, <3>5 DEF Puesto
  <2> QED
    BY <2>1, <2>2
<1>6. /\ fichero' \in Ficheros /\ h \in 0..Len(fichero') /\ h # 0 /\ l = fichero'[h]
      /\ vfase' # "fin" /\ (vfase' = "escribe" => h = Len(fichero'))
  <2>1. fichero \in Ficheros
    BY DEF VramInv
  <2>2. h \in 0..Len(fichero) /\ h # 0
    BY <1>1, <1>2
  <2> QED
    BY <1>2, <2>1, <2>2
<1> HIDE DEF h, l
<1>7. \A o \in 0..ramsize - 1 : Puesto(o, leidas)'
  BY <1>5
<1>8. DOMAIN ram' = 0..ramsize - 1 /\ ram' = [o \in 0..ramsize - 1 |-> ram'[o]]
  BY Zenon, <1>4
<1>9. vfase' \in {"lee", "escribe", "fin"}
  BY <1>2
<1>10. /\ fichero' \in Ficheros /\ leidas' \in 0..Len(fichero') /\ leidas' # 0
       /\ line' = fichero'[leidas']
       /\ vfase' # "fin" /\ (vfase' = "escribe" => leidas' = Len(fichero'))
  BY <1>6 DEF h, l
<1> QED
  BY Zenon, <1>7, <1>8, <1>9, <1>10 DEF VramInv

LEMMA VramInvPaso == VramInv /\ [Next]_vars => VramInv'
<1> SUFFICES ASSUME VramInv, [Next]_vars PROVE VramInv'
  OBVIOUS
<1>1. CASE Linea /\ fichero' = fichero
  BY <1>1, VramInvLinea
<1>2. CASE Imprime /\ fichero' = fichero
  BY <1>2 DEF Imprime, VramInv, Puesto
<1>3. CASE UNCHANGED <<vvars, fichero>>
  BY <1>3 DEF vvars, VramInv, Puesto
<1>4. Sesion => UNCHANGED <<vvars, fichero>>
  BY DEF Sesion, ANext
<1> QED
  BY <1>1, <1>2, <1>3, <1>4 DEF Next, Vram, VNext, vars

\* The byte of a word, among those of the window.
LEMMA EnSitio ==
  ASSUME NEW w \in 1..ramsize \div PAL, NEW b \in 1..PAL
  PROVE  (w - 1) * PAL + b - 1 \in 0..ramsize - 1
<1>0. ramsize \in Nat /\ PAL \in Nat \ {0}
  BY VramAssumption
<1>1. (ramsize \div PAL) * PAL <= ramsize
  BY <1>0, SMTT(30)
<1>2. w * PAL <= (ramsize \div PAL) * PAL
  BY <1>0, SMTT(30)
<1>3. (w - 1) * PAL = w * PAL - PAL /\ (w - 1) * PAL >= 0 /\ w * PAL \in Int
  BY <1>0, SMTT(30)
<1>4. (ramsize \div PAL) * PAL \in Int
  BY <1>0, SMTT(30)
<1> QED
  BY <1>0, <1>1, <1>2, <1>3, <1>4

\* What the invariant says of a byte once all lines are in, in the words of
\* Srec: what the file puts there.
LEMMA PuestoEsPone ==
  ASSUME VramInv, NEW o \in 0..ramsize - 1, Puesto(o, Len(fichero))
  PROVE  IF rambase + o \in Cubierta(fichero) THEN ram[o] = Pone(fichero, rambase + o)
         ELSE ram[o] \in Basura
<1> DEFINE a == rambase + o
<1>1. /\ DOMAIN fichero = 1..Len(fichero) /\ Len(fichero) \in Nat \ {0}
      /\ \A x \in DOMAIN fichero : Corta(fichero[x])
  BY LineasCortas DEF VramInv
<1>2. a \in Dir
  BY VramAssumption, SrecAssumption DEF Dir
<1>3. CASE ram[o] \in Basura /\ \A m \in 1..Len(fichero) : ~Cubre(fichero[m], a)
  BY <1>1, <1>3 DEF Cubierta
<1>4. CASE \E j \in 1..Len(fichero) :
             /\ \E x \in DOMAIN fichero[j].dat :
                  Lugar(fichero[j], x) = a /\ ram[o] = fichero[j].dat[x]
             /\ fichero[j].tipo \in Datos
             /\ \A m \in j + 1..Len(fichero) : ~Cubre(fichero[m], a)
  <2>1. PICK j \in 1..Len(fichero) :
             /\ \E x \in DOMAIN fichero[j].dat :
                  Lugar(fichero[j], x) = a /\ ram[o] = fichero[j].dat[x]
             /\ fichero[j].tipo \in Datos
             /\ \A m \in j + 1..Len(fichero) : ~Cubre(fichero[m], a)
    BY <1>4
  <2>2. PICK x \in DOMAIN fichero[j].dat :
          Lugar(fichero[j], x) = a /\ ram[o] = fichero[j].dat[x]
    BY <2>1
  <2>3. Cubre(fichero[j], a)
    BY <2>1, <2>2 DEF Cubre
  <2>4. \A m \in DOMAIN fichero : Cubre(fichero[m], a) => m <= j
    BY <1>1, <2>1
  <2>5. Ultima(fichero, a) = j
    <3> DEFINE u == Ultima(fichero, a)
    <3>1. /\ u \in DOMAIN fichero /\ Cubre(fichero[u], a)
          /\ \A m \in DOMAIN fichero : Cubre(fichero[m], a) => m <= u
      BY <1>1, <2>3, <2>4 DEF Ultima
    <3> QED
      BY <1>1, <2>3, <2>4, <3>1
  <2>6. \A y \in DOMAIN fichero[j].dat : Lugar(fichero[j], y) = a => y = x
    BY <1>1, <2>1, <2>2, LugarUnico
  <2>7. (CHOOSE y \in DOMAIN fichero[j].dat : Lugar(fichero[j], y) = a) = x
    BY <2>2, <2>6
  <2>8. Pone(fichero, a) = fichero[j].dat[x]
    BY <2>5, <2>7 DEF Pone
  <2>9. a \in Cubierta(fichero)
    BY <1>1, <1>2, <2>3 DEF Cubierta
  <2> QED
    BY <2>2, <2>8, <2>9
<1> QED
  BY <1>3, <1>4 DEF Puesto

LEMMA InvVramCompleta == VramInv => VramCompleta
<1> SUFFICES ASSUME VramInv, vfase = "fin",
                    NEW w \in DOMAIN vram, NEW b \in 1..PAL
             PROVE  LET a == rambase + (w - 1) * PAL + b - 1
                    IN IF a \in Cubierta(fichero) THEN vram[w][b] = Pone(fichero, a)
                       ELSE vram[w][b] \in Basura
  BY DEF VramCompleta
<1> DEFINE o == (w - 1) * PAL + b - 1
<1>1. /\ w \in 1..ramsize \div PAL /\ vram[w][b] = ram[o]
      /\ leidas = Len(fichero) /\ \A q \in 0..ramsize - 1 : Puesto(q, leidas)
  <2>1. /\ vram = [x \in 1..ramsize \div PAL |->
                    [y \in 1..PAL |-> ram[(x - 1) * PAL + y - 1]]]
        /\ leidas = Len(fichero) /\ \A q \in 0..ramsize - 1 : Puesto(q, leidas)
    BY DEF VramInv
  <2>2. w \in 1..ramsize \div PAL
    BY <2>1
  <2>3. vram[w] = [y \in 1..PAL |-> ram[(w - 1) * PAL + y - 1]]
    BY <2>1, <2>2
  <2> QED
    BY <2>1, <2>2, <2>3
<1>2. o \in 0..ramsize - 1
  BY <1>1, EnSitio
<1>3. rambase + (w - 1) * PAL + b - 1 = rambase + o
  BY <1>1, VramAssumption, SrecAssumption DEF Dir
<1>4. Puesto(o, Len(fichero))
  BY <1>1, <1>2
<1>5. IF rambase + o \in Cubierta(fichero) THEN ram[o] = Pone(fichero, rambase + o)
      ELSE ram[o] \in Basura
  BY <1>2, <1>4, PuestoEsPone
<1> QED
  BY <1>1, <1>3, <1>5

\* The memory's bytes are bytes.
LEMMA RamTipo == VramInv => ram \in [0..ramsize - 1 -> Byte]
<1> SUFFICES ASSUME VramInv, NEW o \in 0..ramsize - 1 PROVE ram[o] \in Byte
  BY DEF VramInv
<1>1. \A x \in DOMAIN fichero : Corta(fichero[x])
  BY LineasCortas DEF VramInv
<1>2. Puesto(o, leidas)
  BY DEF VramInv
<1>3. CASE ram[o] \in Basura
  BY <1>3, VramAssumption
<1>4. ASSUME NEW j \in 1..leidas, NEW x \in DOMAIN fichero[j].dat, ram[o] = fichero[j].dat[x]
      PROVE  ram[o] \in Byte
  <2>1. j \in DOMAIN fichero
    BY LineasCortas DEF VramInv
  <2>2. fichero[j].dat \in Seq(Byte)
    BY <1>1, <2>1 DEF Corta
  <2> QED
    BY <1>4, <2>2
<1> QED
  BY <1>2, <1>3, <1>4 DEF Puesto

\* The words that srec2vram prints hold what the file puts in the window, for
\* every file whose lines fit in its buffer (srec2vram.c:46-158).
THEOREM SiempreVram == Spec => []VramCompleta
  BY VramInvInit, VramInvPaso, InvVramCompleta, PTL DEF Spec
-----------------------------------------------------------------------------
(* Numbers and their bytes *)

\* Every set of naturals has a least one: induction for what follows.
LEMMA Minimo ==
  ASSUME NEW T \in SUBSET Nat, T # {}
  PROVE  \E x \in T : \A y \in T : x <= y
<1>1. PICK x \in T : \A y \in T : ~ (<<y, x>> \in OpToRel(<, Nat))
  BY NatLessThanWellFounded, WFMin
<1>2. \A y \in T : <<y, x>> \in OpToRel(<, Nat) <=> y < x
  BY DEF OpToRel
<1>3. \A y \in T : ~ (y < x)
  BY <1>1, <1>2
<1>4. \A y \in T : x <= y
  BY <1>3
<1> QED
  BY <1>4

LEMMA Tamanos ==
  /\ BB \in Nat /\ BB > 1 /\ ANCHO \in Nat \ {0} /\ M \in Nat /\ M > 0
  /\ 0 \in Byte /\ 0 \in Dir /\ Byte \subseteq Nat /\ Dir \subseteq Nat
  BY SrecAssumption DEF Byte, Dir

\* The first powers, and that they are what the definition says.
PrimerasPotencias(g, h) ==
  g \in [0..h -> Nat] /\ g[0] = 1 /\ \A j \in 1..h : g[j] = BB * g[j - 1]

LEMMA PotenciasHay ==
  ASSUME NEW h \in Nat
  PROVE  \E g : PrimerasPotencias(g, h)
<1> DEFINE T == {x \in Nat : ~\E g : PrimerasPotencias(g, x)}
<1>1. SUFFICES ASSUME T # {} PROVE FALSE
  OBVIOUS
<1>2. PICK x \in T : \A y \in T : x <= y
  BY <1>1, Minimo
<1>3. CASE x = 0
  <2>1. PrimerasPotencias([j \in 0..0 |-> 1], 0)
    BY DEF PrimerasPotencias
  <2> QED
    BY <1>3, <2>1
<1>4. CASE x # 0
  <2>1. x - 1 \in Nat /\ x - 1 \notin T
    BY <1>2, <1>4
  <2>2. PICK g : PrimerasPotencias(g, x - 1)
    BY <2>1
  <2> DEFINE f == [j \in 0..x |-> IF j = x THEN BB * g[x - 1] ELSE g[j]]
  <2>3. /\ g \in [0..x - 1 -> Nat] /\ g[0] = 1 /\ \A j \in 1..x - 1 : g[j] = BB * g[j - 1]
    BY <2>2 DEF PrimerasPotencias
  <2>4. BB * g[x - 1] \in Nat
    BY <2>1, <2>3, Tamanos
  <2>5. f \in [0..x -> Nat]
    BY <2>3, <2>4
  <2>6. f[0] = 1
    BY <1>4, <2>3
  <2>7. ASSUME NEW j \in 1..x PROVE f[j] = BB * f[j - 1]
    <3>1. j - 1 # x /\ j - 1 \in 0..x /\ f[j - 1] = g[j - 1]
      BY <1>2
    <3>2. CASE j = x
      BY <3>1, <3>2
    <3>3. CASE j # x
      BY <2>3, <3>1, <3>3
    <3> QED
      BY <3>2, <3>3
  <2>8. PrimerasPotencias(f, x)
    BY <2>5, <2>6, <2>7 DEF PrimerasPotencias
  <2> QED
    BY <2>8
<1> QED
  BY <1>3, <1>4

LEMMA PotenciasUnicas ==
  ASSUME NEW h \in Nat, NEW e \in Nat, h <= e,
         NEW g, NEW f, PrimerasPotencias(g, h), PrimerasPotencias(f, e)
  PROVE  g[h] = f[h]
<1> DEFINE T == {x \in 0..h : g[x] # f[x]}
<1>0. T \in SUBSET Nat
  OBVIOUS
<1>1. SUFFICES ASSUME T # {} PROVE FALSE
  OBVIOUS
<1>2. PICK x \in T : \A y \in T : x <= y
  <2> HIDE DEF T
  <2> QED
    BY <1>0, <1>1, Minimo
<1>3. x # 0
  BY DEF PrimerasPotencias
<1>4. x - 1 \in 0..h /\ x - 1 \notin T
  BY <1>2, <1>3
<1>5. g[x] = BB * g[x - 1] /\ f[x] = BB * f[x - 1]
  BY <1>3 DEF PrimerasPotencias
<1> QED
  BY <1>4, <1>5

LEMMA PotenciaDe == Potencia = [j \in Nat |-> IF j = 0 THEN 1 ELSE BB * Potencia[j - 1]]
<1> DEFINE Una(h) == CHOOSE g : PrimerasPotencias(g, h)
           F == [j \in Nat |-> Una(j)[j]]
<1>1. \A h \in Nat : PrimerasPotencias(Una(h), h)
  BY PotenciasHay
<1> HIDE DEF Una
<1>2. ASSUME NEW j \in Nat PROVE F[j] = IF j = 0 THEN 1 ELSE BB * F[j - 1]
  <2>1. CASE j = 0
    BY <1>1, <2>1 DEF PrimerasPotencias
  <2>2. CASE j # 0
    <3>1. j - 1 \in Nat /\ j - 1 <= j
      BY <2>2
    <3>2. Una(j)[j] = BB * Una(j)[j - 1]
      BY <1>1, <2>2 DEF PrimerasPotencias
    <3>3. Una(j - 1)[j - 1] = Una(j)[j - 1]
      BY <1>1, <3>1, PotenciasUnicas
    <3> QED
      BY <2>2, <3>1, <3>2, <3>3
  <2> QED
    BY <2>1, <2>2
<1>3. F = [j \in Nat |-> IF j = 0 THEN 1 ELSE BB * F[j - 1]]
  BY <1>2
<1> HIDE DEF F
<1>4. \E f : f = [j \in Nat |-> IF j = 0 THEN 1 ELSE BB * f[j - 1]]
  BY <1>3
<1> QED
  BY <1>4 DEF Potencia

LEMMA PotenciaPaso ==
  /\ Potencia[0] = 1
  /\ \A j \in Nat : Potencia[j] \in Nat \ {0} /\ Potencia[j + 1] = BB * Potencia[j]
<1>1. Potencia[0] = 1 /\ \A j \in Nat : Potencia[j + 1] = BB * Potencia[j]
  <2>1. \A j \in Nat : Potencia[j] = IF j = 0 THEN 1 ELSE BB * Potencia[j - 1]
    BY PotenciaDe
  <2>2. \A j \in Nat : j + 1 \in Nat /\ j + 1 # 0 /\ j + 1 - 1 = j
    OBVIOUS
  <2> QED
    BY <2>1, <2>2
<1> DEFINE T == {x \in Nat : Potencia[x] \notin Nat \ {0}}
<1>2. T = {}
  <2>1. SUFFICES ASSUME T # {} PROVE FALSE
    OBVIOUS
  <2>2. PICK x \in T : \A y \in T : x <= y
    BY <2>1, Minimo
  <2>3. x # 0
    BY <1>1
  <2>4. x - 1 \in Nat /\ x - 1 \notin T /\ x - 1 + 1 = x
    BY <2>2, <2>3
  <2>5. Potencia[x] = BB * Potencia[x - 1] /\ Potencia[x - 1] \in Nat \ {0}
    BY <1>1, <2>4
  <2>6. \A u \in Nat \ {0} : BB * u \in Nat \ {0}
    BY Tamanos
  <2> QED
    BY <2>5, <2>6
<1> QED
  BY <1>1, <1>2

LEMMA Resto ==
  ASSUME NEW m \in Nat \ {0}, NEW x \in Int
  PROVE  /\ x % m \in 0..m - 1 /\ x \div m \in Int
         /\ x = m * (x \div m) + (x % m)
  OBVIOUS

\* Division with quotient and remainder known.
LEMMA Cociente ==
  ASSUME NEW m \in Nat \ {0}, NEW q \in Int, NEW r \in 0..m - 1
  PROVE  (m * q + r) \div m = q /\ (m * q + r) % m = r
<1> DEFINE x == m * q + r
           t == x \div m
           s == x % m
<1>1. x \in Int /\ t \in Int /\ s \in 0..m - 1 /\ x = m * t + s
  BY Resto
<1> HIDE DEF t, s
<1>2. m * (t - q) = r - s
  BY <1>1
<1>3. t - q < 1
  <2> SUFFICES ASSUME t - q >= 1 PROVE FALSE
    BY <1>1
  <2>1. m * (t - q) >= m
    BY <1>1
  <2> QED
    BY <2>1, <1>2, <1>1
<1>4. t - q > -1
  <2> SUFFICES ASSUME t - q <= -1 PROVE FALSE
    BY <1>1
  <2>1. m * (t - q) <= -m
    BY <1>1
  <2> QED
    BY <2>1, <1>2, <1>1
<1>5. t = q
  BY <1>1, <1>3, <1>4
<1>6. s = r
  BY <1>1, <1>5
<1> QED
  BY <1>5, <1>6 DEF t, s

\* The quotient by one more power is the quotient's.
LEMMA DosCocientes ==
  ASSUME NEW a \in Nat, NEW w \in Nat \ {0}, NEW b \in Nat \ {0}
  PROVE  a \div (b * w) = (a \div w) \div b
<1> DEFINE q == a \div w
           s == a % w
           t == q \div b
           r == q % b
<1>1. q \in Int /\ s \in 0..w - 1 /\ a = w * q + s
  BY Resto
<1> HIDE DEF q, s
<1>2. t \in Int /\ r \in 0..b - 1 /\ q = b * t + r
  BY <1>1, Resto
<1> HIDE DEF t, r
<1>3. b * w \in Nat \ {0}
  OBVIOUS
<1>4. w * r + s \in 0..(b * w) - 1
  <2>1. w * r \in Nat /\ w * r <= w * (b - 1)
    <3>1. r \in Int /\ b - 1 \in Int /\ 0 <= r /\ r <= b - 1
      BY <1>2
    <3> QED
      BY <3>1
  <2>2. w * (b - 1) = b * w - w
    OBVIOUS
  <2>3. b * w \in Int
    OBVIOUS
  <2> QED
    BY <1>1, <2>1, <2>2, <2>3
<1>5. a = (b * w) * t + (w * r + s)
  <2>1. w * q = w * (b * t + r)
    BY <1>2
  <2>2. w * (b * t + r) = (b * w) * t + w * r
    BY <1>2
  <2>3. w * q \in Int /\ (b * w) * t \in Int /\ w * r \in Int
    BY <1>1, <1>2
  <2> QED
    BY <1>1, <2>1, <2>2, <2>3
<1>6. a \div (b * w) = t
  BY <1>2, <1>3, <1>4, <1>5, Cociente
<1> QED
  BY <1>6 DEF t, q
-----------------------------------------------------------------------------
\* What put_uint32 sends is what read_uint32 adds up, byte by byte.
LEMMA Cifras ==
  ASSUME NEW a \in Dir
  PROVE  /\ put_uint32(a) \in Seq(Byte) /\ Len(put_uint32(a)) = ANCHO
         /\ a \div Potencia[ANCHO] = 0 /\ a \div Potencia[0] = a
         /\ \A x \in 0..ANCHO - 1 :
              (a \div Potencia[ANCHO - x]) * BB + put_uint32(a)[x + 1]
                = a \div Potencia[ANCHO - (x + 1)]
         /\ \A x \in 0..ANCHO : a \div Potencia[ANCHO - x] \in Dir
<1>1. /\ a \in Nat /\ a < Potencia[ANCHO] /\ Potencia[ANCHO] \in Nat \ {0}
      /\ ANCHO \in Nat /\ BB \in Nat \ {0}
  BY Tamanos, PotenciaPaso DEF Dir, M
<1>2. ASSUME NEW y \in Nat PROVE /\ Potencia[y] \in Nat \ {0}
                                 /\ a \div Potencia[y] \in Nat /\ a \div Potencia[y] <= a
  <2>1. Potencia[y] \in Nat \ {0}
    BY PotenciaPaso
  <2> DEFINE w == Potencia[y]
             q == a \div w
  <2>2. w \in Nat \ {0}
    BY <2>1
  <2> HIDE DEF w
  <2>3. q \in Int /\ a % w \in 0..w - 1 /\ a = w * q + (a % w)
    BY <1>1, <2>2, Resto
  <2> HIDE DEF q
  <2>4. q >= 0
    <3> SUFFICES ASSUME q <= -1 PROVE FALSE
      BY <2>3
    <3>1. w * q <= -w
      BY <2>2, <2>3
    <3> QED
      BY <1>1, <2>2, <2>3, <3>1
  <2>5. q <= w * q
    BY <2>2, <2>3, <2>4
  <2>6. q <= a
    <3>1. w * q \in Int
      BY <2>2, <2>3
    <3> QED
      BY <1>1, <2>2, <2>3, <2>5, <3>1
  <2> QED
    BY <2>1, <2>3, <2>4, <2>6 DEF q, w
<1>3. \A x \in 1..ANCHO : (a \div Potencia[ANCHO - x]) % BB \in Byte
  <2> SUFFICES ASSUME NEW x \in 1..ANCHO
               PROVE  (a \div Potencia[ANCHO - x]) % BB \in Byte
    OBVIOUS
  <2>1. ANCHO - x \in Nat
    BY <1>1
  <2>2. a \div Potencia[ANCHO - x] \in Nat
    BY <1>2, <2>1
  <2>3. \A u \in Nat : u % BB \in 0..BB - 1
    BY <1>1
  <2> QED
    BY <2>2, <2>3 DEF Byte
<1>4. put_uint32(a) \in Seq(Byte) /\ Len(put_uint32(a)) = ANCHO
  BY <1>1, <1>3 DEF put_uint32
<1>5. a \div Potencia[ANCHO] = 0
  <2>1. a = Potencia[ANCHO] * 0 + a /\ a \in 0..Potencia[ANCHO] - 1
    BY <1>1
  <2> QED
    BY <1>1, <2>1, Cociente
<1>6. a \div Potencia[0] = a
  BY <1>1, PotenciaPaso
<1>7. ASSUME NEW x \in 0..ANCHO - 1
      PROVE  (a \div Potencia[ANCHO - x]) * BB + put_uint32(a)[x + 1]
                = a \div Potencia[ANCHO - (x + 1)]
  <2> DEFINE y == ANCHO - (x + 1)
             q == a \div Potencia[y]
  <2>1. y \in Nat /\ y + 1 = ANCHO - x /\ x + 1 \in 1..ANCHO
    BY <1>1
  <2>2. Potencia[y + 1] = BB * Potencia[y] /\ Potencia[y] \in Nat \ {0}
    BY <2>1, PotenciaPaso
  <2>3. a \div Potencia[y + 1] = q \div BB
    BY <1>1, <2>2, DosCocientes
  <2>4. put_uint32(a)[x + 1] = q % BB
    BY <2>1 DEF put_uint32
  <2>5. q \in Nat
    BY <1>2, <2>1
  <2> HIDE DEF q, y
  <2>6. q = BB * (q \div BB) + (q % BB) /\ q \div BB \in Int /\ q % BB \in Int
    BY <1>1, <2>5, Resto
  <2>7. (q \div BB) * BB = BB * (q \div BB)
    BY <1>1, <2>6
  <2>8. (a \div Potencia[ANCHO - x]) * BB + put_uint32(a)[x + 1] = q
    BY <2>1, <2>3, <2>4, <2>6, <2>7
  <2> QED
    BY <2>8 DEF q, y
<1>8. ASSUME NEW x \in 0..ANCHO PROVE a \div Potencia[ANCHO - x] \in Dir
  <2>1. ANCHO - x \in Nat
    BY <1>1
  <2>2. a \div Potencia[ANCHO - x] \in Nat /\ a \div Potencia[ANCHO - x] <= a
    BY <1>2, <2>1
  <2>3. a \in 0..M - 1 /\ M \in Nat
    BY Tamanos DEF Dir
  <2> QED
    BY <2>2, <2>3 DEF Dir
<1> QED
  BY <1>4, <1>5, <1>6, <1>7, <1>8

(* The commands of a session *)

\* A command: its letter, address, size and data; NADA for a line that sends none.
Mandato(o, a, z, s) == [op |-> o, a |-> a, z |-> z, dat |-> s]
Ninguno == Mandato(NADA, 0, 0, <<>>)

Correcto(m) ==
  /\ m.op \in {U, D, G, NADA} /\ m.a \in Dir /\ m.z \in Dir /\ m.dat \in Seq(Byte)
  /\ m.op \in {U, D} => m.a + m.z < M
  /\ m.op = D => m.z > 0
  /\ m.op = U => Len(m.dat) = m.z
  /\ m.op # U => m.dat = <<>>

\* Its bytes.
Largo(m) == CASE m.op = NADA -> 0
              [] m.op = G -> 1 + ANCHO
              [] OTHER -> 1 + 2 * ANCHO + Len(m.dat)
Cifra(m, x) == IF x = 1 THEN m.op
               ELSE IF x <= 1 + ANCHO THEN put_uint32(m.a)[x - 1]
               ELSE IF x <= 1 + 2 * ANCHO THEN put_uint32(m.z)[x - 1 - ANCHO]
               ELSE m.dat[x - 1 - 2 * ANCHO]
SonDe(s, m) == s \in Seq(Byte) /\ Len(s) = Largo(m) /\ \A x \in 1..Len(s) : s[x] = Cifra(m, x)

LEMMA UnoMas ==
  ASSUME NEW S, NEW x, NEW h \in Nat,
         IsFiniteSet(S), Cardinality(S) <= h
  PROVE  IsFiniteSet(S \cup {x}) /\ Cardinality(S \cup {x}) <= h + 1
<1>1. /\ IsFiniteSet(S \cup {x})
      /\ Cardinality(S \cup {x}) = IF x \in S THEN Cardinality(S) ELSE Cardinality(S) + 1
  BY FS_AddElement
<1>2. Cardinality(S) \in Nat
  BY FS_CardinalityType
<1> QED
  BY <1>1, <1>2

LEMMA TresCaben ==
  ASSUME NEW a, NEW b, NEW e
  PROVE  Cardinality({a, b, e}) <= 3
<1>1. Cardinality({}) <= 0 /\ IsFiniteSet({})
  BY FS_EmptySet
<1>2. IsFiniteSet({} \cup {a}) /\ Cardinality({} \cup {a}) <= 0 + 1
  BY <1>1, UnoMas
<1>3. IsFiniteSet({a}) /\ Cardinality({a}) <= 1
  BY <1>2
<1>4. IsFiniteSet({a} \cup {b}) /\ Cardinality({a} \cup {b}) <= 1 + 1
  BY <1>3, UnoMas
<1>5. {a} \cup {b} = {a, b}
  OBVIOUS
<1>6. IsFiniteSet({a, b}) /\ Cardinality({a, b}) <= 2
  BY <1>4, <1>5
<1>7. Cardinality({a, b} \cup {e}) <= 2 + 1
  BY <1>6, UnoMas
<1>8. {a, b} \cup {e} = {a, b, e}
  OBVIOUS
<1> QED
  BY <1>7, <1>8

LEMMA Letreros ==
  /\ U \in Byte /\ D \in Byte /\ G \in Byte /\ OTRA \in Byte /\ NADA \notin Byte
  /\ U # D /\ U # G /\ D # G /\ OTRA \notin {U, D, G}
<1>1. {U, D, G, OTRA} \subseteq Byte /\ Cardinality({U, D, G, OTRA}) = 4
  BY ArranqueAssumption
<1>2. Cardinality({U, D, G, OTRA}) = 4 => U # D /\ U # G /\ D # G /\ OTRA \notin {U, D, G}
  <2>1. \A a, b, e : Cardinality({a, b, e}) <= 3
    BY TresCaben
  <2>2. Cardinality({U, D, G}) <= 3 /\ Cardinality({U, D, OTRA}) <= 3 /\ Cardinality({U, G, OTRA}) <= 3 /\ Cardinality({D, G, OTRA}) <= 3
    BY <2>1
  <2>3. U = D => {U, D, G, OTRA} = {U, G, OTRA}
    OBVIOUS
  <2>4. U = G => {U, D, G, OTRA} = {U, D, OTRA}
    OBVIOUS
  <2>5. D = G => {U, D, G, OTRA} = {U, D, OTRA}
    OBVIOUS
  <2>6. OTRA \in {U, D, G} => {U, D, G, OTRA} = {U, D, G}
    OBVIOUS
  <2> QED
    BY <2>2, <2>3, <2>4, <2>5, <2>6
<1>3. NADA \notin Byte
  BY DEF NADA, Byte
<1> QED
  BY <1>1, <1>2, <1>3
-----------------------------------------------------------------------------
LEMMA LargoTipo ==
  ASSUME NEW m, Correcto(m)
  PROVE  /\ Largo(m) \in Nat /\ (Largo(m) = 0 <=> m.op = NADA)
         /\ m.op \in {U, D} => Largo(m) = 1 + 2 * ANCHO + Len(m.dat)
         /\ m.op = G => Largo(m) = 1 + ANCHO
<1>1. ANCHO \in Nat \ {0} /\ Len(m.dat) \in Nat
  BY Tamanos DEF Correcto
<1>2. m.op \in {U, D, G, NADA} /\ U # NADA /\ D # NADA /\ G # NADA /\ U # G /\ D # G
  BY Letreros DEF Correcto
<1> QED
  BY <1>1, <1>2 DEF Largo

\* The bytes of a concatenation, by its parts.
LEMMA Junta ==
  ASSUME NEW s \in Seq(Byte), NEW t \in Seq(Byte)
  PROVE  /\ s \o t \in Seq(Byte) /\ Len(s \o t) = Len(s) + Len(t)
         /\ \A x \in 1..Len(s) : (s \o t)[x] = s[x]
         /\ \A x \in 1..Len(t) : (s \o t)[Len(s) + x] = t[x]
<1>1. /\ s \o t \in Seq(Byte) /\ Len(s \o t) = Len(s) + Len(t)
      /\ \A x \in 1..Len(s) + Len(t) : (s \o t)[x] = IF x <= Len(s) THEN s[x] ELSE t[x - Len(s)]
  BY ConcatProperties
<1>0. Len(s) \in Nat /\ Len(t) \in Nat
  OBVIOUS
<1>2. ASSUME NEW x \in 1..Len(s) PROVE (s \o t)[x] = s[x]
  <2>1. x \in 1..Len(s) + Len(t) /\ x <= Len(s)
    BY <1>0
  <2> QED
    BY <1>1, <2>1
<1>3. ASSUME NEW x \in 1..Len(t) PROVE (s \o t)[Len(s) + x] = t[x]
  <2>1. Len(s) + x \in 1..Len(s) + Len(t) /\ ~(Len(s) + x <= Len(s)) /\ Len(s) + x - Len(s) = x
    BY <1>0
  <2> QED
    BY <1>1, <2>1
<1> QED
  BY <1>1, <1>2, <1>3

LEMMA LetrasLargas ==
  ASSUME NEW o \in {U, D}, NEW a \in Dir, NEW z \in Dir, NEW s \in Seq(Byte)
  PROVE  SonDe(<<o>> \o put_uint32(a) \o put_uint32(z) \o s, Mandato(o, a, z, s))
<1> DEFINE m == Mandato(o, a, z, s)
           s1 == <<o>>
           s2 == s1 \o put_uint32(a)
           s3 == s2 \o put_uint32(z)
           s4 == s3 \o s
<1>1. /\ m.op = o /\ m.a = a /\ m.z = z /\ m.dat = s
      /\ Largo(m) = 1 + 2 * ANCHO + Len(s)
  BY Letreros DEF Mandato, Largo
<1>2. s1 \in Seq(Byte) /\ Len(s1) = 1 /\ s1[1] = o
  BY Letreros
<1>3. /\ put_uint32(a) \in Seq(Byte) /\ Len(put_uint32(a)) = ANCHO
      /\ put_uint32(z) \in Seq(Byte) /\ Len(put_uint32(z)) = ANCHO
      /\ ANCHO \in Nat \ {0} /\ Len(s) \in Nat
  BY Cifras, Tamanos
<1> HIDE DEF s1
<1>4. /\ s2 \in Seq(Byte) /\ Len(s2) = 1 + ANCHO
      /\ \A x \in 1..1 : s2[x] = s1[x]
      /\ \A x \in 1..ANCHO : s2[1 + x] = put_uint32(a)[x]
  <2>1. /\ s1 \o put_uint32(a) \in Seq(Byte) /\ Len(s1 \o put_uint32(a)) = Len(s1) + Len(put_uint32(a))
        /\ \A x \in 1..Len(s1) : (s1 \o put_uint32(a))[x] = s1[x]
        /\ \A x \in 1..Len(put_uint32(a)) : (s1 \o put_uint32(a))[Len(s1) + x] = put_uint32(a)[x]
    BY <1>2, <1>3, Junta
  <2> QED
    BY <1>2, <1>3, <2>1
<1> HIDE DEF s2
<1>5. /\ s3 \in Seq(Byte) /\ Len(s3) = 1 + ANCHO + ANCHO
      /\ \A x \in 1..1 + ANCHO : s3[x] = s2[x]
      /\ \A x \in 1..ANCHO : s3[1 + ANCHO + x] = put_uint32(z)[x]
  <2>1. /\ s2 \o put_uint32(z) \in Seq(Byte) /\ Len(s2 \o put_uint32(z)) = Len(s2) + Len(put_uint32(z))
        /\ \A x \in 1..Len(s2) : (s2 \o put_uint32(z))[x] = s2[x]
        /\ \A x \in 1..Len(put_uint32(z)) : (s2 \o put_uint32(z))[Len(s2) + x] = put_uint32(z)[x]
    BY <1>3, <1>4, Junta
  <2> QED
    BY <1>3, <1>4, <2>1
<1> HIDE DEF s3
<1>6. /\ s4 \in Seq(Byte) /\ Len(s4) = 1 + ANCHO + ANCHO + Len(s)
      /\ \A x \in 1..1 + ANCHO + ANCHO : s4[x] = s3[x]
      /\ \A x \in 1..Len(s) : s4[1 + ANCHO + ANCHO + x] = s[x]
  <2>1. /\ s3 \o s \in Seq(Byte) /\ Len(s3 \o s) = Len(s3) + Len(s)
        /\ \A x \in 1..Len(s3) : (s3 \o s)[x] = s3[x]
        /\ \A x \in 1..Len(s) : (s3 \o s)[Len(s3) + x] = s[x]
    BY <1>3, <1>5, Junta
  <2> QED
    BY <1>3, <1>5, <2>1
<1> HIDE DEF s4
<1>7. ASSUME NEW x \in 1..Len(s4) PROVE s4[x] = Cifra(m, x)
  <2>0. x \in Int /\ 1 <= x /\ x <= 1 + ANCHO + ANCHO + Len(s) /\ 2 * ANCHO = ANCHO + ANCHO
    BY <1>3, <1>6
  <2>1. CASE x = 1
    <3>1. 1 \in 1..1 /\ 1 \in 1..1 + ANCHO /\ 1 \in 1..1 + ANCHO + ANCHO
      BY <1>3
    <3>2. s4[1] = s3[1] /\ s3[1] = s2[1] /\ s2[1] = s1[1]
      BY <1>4, <1>5, <1>6, <3>1
    <3>3. s4[1] = o
      BY <1>2, <3>2
    <3> QED
      BY <1>1, <2>1, <3>3 DEF Cifra
  <2>2. CASE 1 < x /\ x <= 1 + ANCHO
    <3>1. /\ x - 1 \in 1..ANCHO /\ 1 + (x - 1) = x /\ x \in 1..1 + ANCHO
          /\ x \in 1..1 + ANCHO + ANCHO
      BY <1>3, <2>0, <2>2
    <3>2. s2[1 + (x - 1)] = put_uint32(a)[x - 1]
      BY <1>4, <3>1
    <3>3. s4[x] = put_uint32(a)[x - 1]
      BY <1>5, <1>6, <3>1, <3>2
    <3> QED
      BY <1>1, <2>0, <2>2, <3>3 DEF Cifra
  <2>3. CASE 1 + ANCHO < x /\ x <= 1 + ANCHO + ANCHO
    <3>1. /\ x - 1 - ANCHO \in 1..ANCHO /\ 1 + ANCHO + (x - 1 - ANCHO) = x
          /\ x \in 1..1 + ANCHO + ANCHO
      BY <1>3, <2>0, <2>3
    <3>2. s3[1 + ANCHO + (x - 1 - ANCHO)] = put_uint32(z)[x - 1 - ANCHO]
      BY <1>5, <3>1
    <3>3. s4[x] = put_uint32(z)[x - 1 - ANCHO]
      BY <1>6, <3>1, <3>2
    <3>4. x # 1 /\ ~(x <= 1 + ANCHO) /\ x <= 1 + 2 * ANCHO
      BY <1>3, <2>0, <2>3
    <3> QED
      BY <1>1, <3>3, <3>4 DEF Cifra
  <2>4. CASE 1 + ANCHO + ANCHO < x
    <3>1. x - 1 - 2 * ANCHO \in 1..Len(s) /\ 1 + ANCHO + ANCHO + (x - 1 - 2 * ANCHO) = x
      BY <1>3, <2>0, <2>4
    <3>2. s4[1 + ANCHO + ANCHO + (x - 1 - 2 * ANCHO)] = s[x - 1 - 2 * ANCHO]
      BY <1>6, <3>1
    <3>3. s4[x] = s[x - 1 - 2 * ANCHO]
      BY <3>1, <3>2
    <3>4. x # 1 /\ ~(x <= 1 + ANCHO) /\ ~(x <= 1 + 2 * ANCHO)
      BY <1>3, <2>0, <2>4
    <3> QED
      BY <1>1, <3>3, <3>4 DEF Cifra
  <2> QED
    BY <1>3, <2>0, <2>1, <2>2, <2>3, <2>4
<1>8. Len(s4) = Largo(m)
  BY <1>1, <1>3, <1>6
<1>9. SonDe(s4, m)
  BY <1>6, <1>7, <1>8 DEF SonDe
<1> QED
  BY <1>9 DEF s4, s3, s2, s1

LEMMA LetrasDeComprobar ==
  ASSUME NEW a \in Dir, NEW z \in Dir
  PROVE  SonDe(<<D>> \o put_uint32(a) \o put_uint32(z), Mandato(D, a, z, <<>>))
<1> DEFINE s == <<D>> \o put_uint32(a) \o put_uint32(z)
<1>1. put_uint32(a) \in Seq(Byte) /\ put_uint32(z) \in Seq(Byte) /\ <<D>> \in Seq(Byte)
  BY Cifras, Letreros
<1>2. s \in Seq(Byte)
  BY <1>1, ConcatProperties
<1>3. s \o <<>> = s
  BY <1>2, ConcatEmptySeq
<1>4. <<>> \in Seq(Byte)
  OBVIOUS
<1>5. SonDe(s \o <<>>, Mandato(D, a, z, <<>>))
  BY <1>4, LetrasLargas
<1> QED
  BY <1>3, <1>5

LEMMA LetrasDeSaltar ==
  ASSUME NEW a \in Dir
  PROVE  SonDe(<<G>> \o put_uint32(a), Mandato(G, a, 0, <<>>))
<1> DEFINE m == Mandato(G, a, 0, <<>>)
           s1 == <<G>>
           s2 == s1 \o put_uint32(a)
<1>1. m.op = G /\ m.a = a /\ Largo(m) = 1 + ANCHO
  BY Letreros DEF Mandato, Largo
<1>2. s1 \in Seq(Byte) /\ Len(s1) = 1 /\ s1[1] = G
  BY Letreros
<1>3. /\ put_uint32(a) \in Seq(Byte) /\ Len(put_uint32(a)) = ANCHO /\ ANCHO \in Nat \ {0}
  BY Cifras, Tamanos
<1> HIDE DEF s1
<1>4. /\ s2 \in Seq(Byte) /\ Len(s2) = 1 + ANCHO
      /\ \A x \in 1..1 : s2[x] = s1[x]
      /\ \A x \in 1..ANCHO : s2[1 + x] = put_uint32(a)[x]
  <2>1. /\ s1 \o put_uint32(a) \in Seq(Byte) /\ Len(s1 \o put_uint32(a)) = Len(s1) + Len(put_uint32(a))
        /\ \A x \in 1..Len(s1) : (s1 \o put_uint32(a))[x] = s1[x]
        /\ \A x \in 1..Len(put_uint32(a)) : (s1 \o put_uint32(a))[Len(s1) + x] = put_uint32(a)[x]
    BY <1>2, <1>3, Junta
  <2> QED
    BY <1>2, <1>3, <2>1
<1> HIDE DEF s2
<1>5. ASSUME NEW x \in 1..Len(s2) PROVE s2[x] = Cifra(m, x)
  <2>0. x \in Int /\ 1 <= x /\ x <= 1 + ANCHO
    BY <1>3, <1>4
  <2>1. CASE x = 1
    BY <1>1, <1>2, <1>4, <2>1 DEF Cifra
  <2>2. CASE 1 < x
    <3>1. x - 1 \in 1..ANCHO /\ 1 + (x - 1) = x
      BY <1>3, <2>0, <2>2
    <3>2. s2[1 + (x - 1)] = put_uint32(a)[x - 1]
      BY <1>4, <3>1
    <3> QED
      BY <1>1, <2>0, <2>2, <3>1, <3>2 DEF Cifra
  <2> QED
    BY <2>0, <2>1, <2>2
<1>6. SonDe(s2, m)
  BY <1>1, <1>4, <1>5 DEF SonDe
<1> QED
  BY <1>6 DEF s2, s1

LEMMA LetrasDeNinguno == SonDe(<<>>, Ninguno)
<1> DEFINE s == <<>>
<1>1. s \in Seq(Byte) /\ Len(s) = 0
  BY EmptySeq
<1>2. Largo(Ninguno) = 0
  BY Letreros DEF Ninguno, Mandato, Largo
<1>3. 1..Len(s) = {}
  BY <1>1
<1> HIDE DEF s
<1>4. SonDe(s, Ninguno)
  BY <1>1, <1>2, <1>3 DEF SonDe
<1> QED
  BY <1>4 DEF s
-----------------------------------------------------------------------------
(* A row of bytes made of commands *)

\* t is what is left of commands d to e of md, from byte i + 1 of the first;
\* they begin behind places pos.
EnFila(t, md, d, i, e, pos) ==
  /\ d \in Nat /\ e \in Nat /\ d <= e /\ i \in 0..Largo(md[d]) /\ t \in Seq(Byte)
  /\ pos \in [Nat -> Int] /\ pos[d] + i = 0 /\ pos[e + 1] = Len(t)
  /\ \A j \in d..e + 1 : pos[j] <= Len(t)
  /\ \A j \in d..e :
       /\ pos[j + 1] = pos[j] + Largo(md[j])
       /\ \A x \in 1..Largo(md[j]) : pos[j] + x > 0 => t[pos[j] + x] = Cifra(md[j], x)

Fila(t, md, d, i, e) == \E pos : EnFila(t, md, d, i, e, pos)

Tabla(md, e) == \A j \in 0..e : Correcto(md[j])

LEMMA UnoMenos ==
  ASSUME NEW u \in Int, NEW v \in Int, NEW w \in Nat, NEW h \in Nat, NEW x \in Int,
         1 <= x, x <= w, v = u + w, v <= h, (u - 1) + x > 0
  PROVE  (u - 1) + x \in 1..h - 1 /\ (u - 1) + x + 1 = u + x /\ u + x > 0
  OBVIOUS

\* The next byte of the command in hand.
LEMMA Toma ==
  ASSUME NEW t, NEW md, NEW d, NEW i, NEW e, Tabla(md, e),
         Fila(t, md, d, i, e), i < Largo(md[d])
  PROVE  /\ t # <<>> /\ Head(t) = Cifra(md[d], i + 1)
         /\ Fila(Tail(t), md, d, i + 1, e)
<1>1. PICK pos : EnFila(t, md, d, i, e, pos)
  BY DEF Fila
<1>2. /\ d \in Nat /\ e \in Nat /\ d <= e /\ i \in Nat /\ t \in Seq(Byte) /\ Len(t) \in Nat
      /\ Largo(md[d]) \in Nat
  BY <1>1, LargoTipo DEF EnFila, Tabla
<1>3. /\ pos \in [Nat -> Int] /\ pos[d] + i = 0 /\ pos[e + 1] = Len(t)
      /\ \A j \in d..e + 1 : pos[j] <= Len(t)
      /\ \A j \in d..e :
           /\ pos[j + 1] = pos[j] + Largo(md[j])
           /\ \A x \in 1..Largo(md[j]) : pos[j] + x > 0 => t[pos[j] + x] = Cifra(md[j], x)
  BY <1>1 DEF EnFila
<1>4. d \in d..e /\ d + 1 \in d..e + 1 /\ i + 1 \in 1..Largo(md[d])
  BY <1>2
<1>5. pos[d + 1] = Largo(md[d]) - i
  <2>1. pos[d + 1] = pos[d] + Largo(md[d]) /\ pos[d] \in Int /\ pos[d] + i = 0
    BY <1>2, <1>3, <1>4
  <2> QED
    BY <1>2, <2>1
<1>6. Len(t) >= 1
  <2>1. pos[d + 1] <= Len(t)
    BY <1>3, <1>4
  <2> QED
    BY <1>2, <1>5, <2>1
<1>7. t # <<>> /\ Head(t) = t[1] /\ Tail(t) \in Seq(Byte) /\ Len(Tail(t)) = Len(t) - 1
      /\ \A x \in 1..Len(t) - 1 : Tail(t)[x] = t[x + 1]
  <2>1. t # <<>>
    BY <1>2, <1>6
  <2>2. Head(t) = t[1]
    BY <1>2, <2>1
  <2> QED
    BY <1>2, <2>1, <2>2, HeadTailProperties
<1>8. t[1] = Cifra(md[d], i + 1)
  <2>0. pos[d] \in Int /\ pos[d] + i = 0
    BY <1>2, <1>3
  <2>1. pos[d] + (i + 1) = 1
    BY <1>2, <2>0
  <2>2. pos[d] + (i + 1) > 0 => t[pos[d] + (i + 1)] = Cifra(md[d], i + 1)
    BY <1>3, <1>4
  <2> QED
    BY <2>1, <2>2
<1> DEFINE q == [j \in Nat |-> pos[j] - 1]
<1>9. q \in [Nat -> Int] /\ \A j \in Nat : q[j] = pos[j] - 1 /\ pos[j] \in Int
  BY <1>3
<1> HIDE DEF q
<1>10. ASSUME NEW j \in d..e
       PROVE  /\ q[j + 1] = q[j] + Largo(md[j])
              /\ \A x \in 1..Largo(md[j]) : q[j] + x > 0 => Tail(t)[q[j] + x] = Cifra(md[j], x)
  <2>0. j \in Nat /\ j + 1 \in Nat /\ j \in 0..e /\ j + 1 \in d..e + 1
    BY <1>2
  <2>1. Largo(md[j]) \in Nat
    BY <2>0, LargoTipo DEF Tabla
  <2>2. q[j] = pos[j] - 1 /\ q[j + 1] = pos[j + 1] - 1 /\ pos[j] \in Int /\ pos[j + 1] \in Int
    BY <1>9, <2>0
  <2>3. pos[j + 1] = pos[j] + Largo(md[j]) /\ pos[j + 1] <= Len(t)
    BY <1>3, <2>0
  <2>4. ASSUME NEW x \in 1..Largo(md[j]), q[j] + x > 0
        PROVE  Tail(t)[q[j] + x] = Cifra(md[j], x)
    <3>1. x \in Int /\ 1 <= x /\ x <= Largo(md[j])
      BY <2>1
    <3>2. q[j] + x \in 1..Len(t) - 1 /\ q[j] + x + 1 = pos[j] + x /\ pos[j] + x > 0
      <4>1. (pos[j] - 1) + x > 0
        BY <2>2, <2>4
      <4>2. /\ (pos[j] - 1) + x \in 1..Len(t) - 1 /\ (pos[j] - 1) + x + 1 = pos[j] + x
            /\ pos[j] + x > 0
        BY <1>2, <2>1, <2>2, <2>3, <3>1, <4>1, UnoMenos
      <4> QED
        BY <2>2, <4>2
    <3>3. Tail(t)[q[j] + x] = t[pos[j] + x]
      BY <1>7, <3>2
    <3>4. t[pos[j] + x] = Cifra(md[j], x)
      BY <1>3, <3>2
    <3> QED
      BY <3>3, <3>4
  <2>5. q[j + 1] = q[j] + Largo(md[j])
    BY <2>1, <2>2, <2>3
  <2> QED
    BY <2>4, <2>5
<1>11. q[d] + (i + 1) = 0 /\ q[e + 1] = Len(Tail(t)) /\ i + 1 \in 0..Largo(md[d])
  <2>1. d \in Nat /\ e + 1 \in Nat
    BY <1>2
  <2>2. q[d] = pos[d] - 1 /\ pos[d] \in Int /\ pos[d] + i = 0 /\ q[e + 1] = Len(t) - 1
    BY <1>3, <1>9, <2>1
  <2>3. (pos[d] - 1) + (i + 1) = 0 /\ i + 1 \in 0..Largo(md[d])
    BY <1>2, <1>4, <2>2
  <2> QED
    BY <1>7, <2>2, <2>3
<1>12. \A j \in d..e + 1 : q[j] <= Len(Tail(t))
  <2> SUFFICES ASSUME NEW j \in d..e + 1 PROVE q[j] <= Len(Tail(t))
    OBVIOUS
  <2>1. j \in Nat /\ pos[j] <= Len(t)
    BY <1>2, <1>3
  <2>2. q[j] = pos[j] - 1 /\ pos[j] \in Int
    BY <1>9, <2>1
  <2>3. \A u, v \in Int : u <= v => u - 1 <= v - 1
    OBVIOUS
  <2>4. pos[j] - 1 <= Len(t) - 1
    BY <1>2, <2>1, <2>2, <2>3
  <2> QED
    BY <1>7, <2>2, <2>4
<1>13. EnFila(Tail(t), md, d, i + 1, e, q)
  BY <1>2, <1>7, <1>9, <1>10, <1>11, <1>12 DEF EnFila
<1> QED
  BY <1>7, <1>8, <1>13 DEF Fila

\* Behind a command that is done, the next one that sends anything.
LEMMA Pasa ==
  ASSUME NEW t, NEW md, NEW d, NEW i, NEW e, Tabla(md, e),
         Fila(t, md, d, i, e), i = Largo(md[d]), t # <<>>
  PROVE  \E g \in d + 1..e : /\ Largo(md[g]) > 0
                             /\ \A x \in d + 1..g - 1 : Largo(md[x]) = 0
                             /\ Fila(t, md, g, 0, e)
<1>1. PICK pos : EnFila(t, md, d, i, e, pos)
  BY DEF Fila
<1>2. /\ d \in Nat /\ e \in Nat /\ d <= e /\ i \in Nat /\ t \in Seq(Byte) /\ Len(t) \in Nat
      /\ \A j \in d..e : Largo(md[j]) \in Nat
  <2>1. /\ d \in Nat /\ e \in Nat /\ d <= e /\ t \in Seq(Byte) /\ Len(t) \in Nat
        /\ i \in 0..Largo(md[d])
    BY <1>1 DEF EnFila
  <2>2. \A j \in d..e : j \in 0..e
    BY <2>1
  <2>3. \A j \in d..e : Largo(md[j]) \in Nat
    BY <2>2, LargoTipo DEF Tabla
  <2>4. i \in Nat
    BY <2>1
  <2> QED
    BY <2>1, <2>3, <2>4
<1>3. /\ pos \in [Nat -> Int] /\ pos[d] + i = 0 /\ pos[e + 1] = Len(t)
      /\ \A j \in d..e + 1 : pos[j] <= Len(t)
      /\ \A j \in d..e :
           /\ pos[j + 1] = pos[j] + Largo(md[j])
           /\ \A x \in 1..Largo(md[j]) : pos[j] + x > 0 => t[pos[j] + x] = Cifra(md[j], x)
  BY <1>1 DEF EnFila
<1>4. pos[d + 1] = 0
  <2>1. d \in d..e
    BY <1>2
  <2>2. pos[d + 1] = pos[d] + Largo(md[d])
    BY <1>3, <2>1
  <2> QED
    BY <1>2, <1>3, <2>1, <2>2
<1>5. Len(t) > 0
  BY <1>2
<1> DEFINE T == {j \in Nat : j \in d + 1..e /\ pos[j + 1] # 0}
<1>6. T # {}
  <2>1. d # e
    BY <1>3, <1>4, <1>5
  <2>2. e \in d + 1..e
    BY <1>2, <2>1
  <2>3. pos[e + 1] # 0
    BY <1>3, <1>5
  <2> QED
    BY <1>2, <2>2, <2>3
<1>7. PICK g \in T : \A y \in T : g <= y
  <2>1. T \in SUBSET Nat
    OBVIOUS
  <2> HIDE DEF T
  <2> QED
    BY <1>6, <2>1, Minimo
<1>8. g \in Nat /\ g \in d + 1..e /\ pos[g + 1] # 0
  BY <1>7
<1>9. ASSUME NEW j \in d + 1..g PROVE pos[j] = 0
  <2>1. CASE j = d + 1
    BY <1>4, <2>1
  <2>2. CASE j # d + 1
    <3>1. j - 1 \in Nat /\ j - 1 \in d + 1..e /\ ~(g <= j - 1) /\ j - 1 + 1 = j
      BY <1>2, <1>8, <2>2
    <3>2. j - 1 \notin T
      BY <1>7, <3>1
    <3> QED
      BY <3>1, <3>2
  <2> QED
    BY <2>1, <2>2
<1>10. g \in d + 1..g /\ g \in d..e
  BY <1>2, <1>8
<1>11. pos[g] = 0
  BY <1>9, <1>10
<1>12. Largo(md[g]) > 0
  <2>1. pos[g + 1] = pos[g] + Largo(md[g]) /\ Largo(md[g]) \in Nat
    BY <1>2, <1>3, <1>10
  <2> QED
    BY <1>8, <1>11, <2>1
<1>13. ASSUME NEW x \in d + 1..g - 1 PROVE Largo(md[x]) = 0
  <2>1. x \in d + 1..g /\ x + 1 \in d + 1..g /\ x \in d..e
    BY <1>2, <1>8
  <2>2. pos[x] = 0 /\ pos[x + 1] = 0
    BY <1>9, <2>1
  <2>3. pos[x + 1] = pos[x] + Largo(md[x]) /\ Largo(md[x]) \in Nat
    BY <1>2, <1>3, <2>1
  <2> QED
    BY <2>2, <2>3
<1>14. EnFila(t, md, g, 0, e, pos)
  <2>0. \A x, y, z \in Nat : x \in y + 1..z => /\ x..z \subseteq y..z /\ x <= z
                                               /\ x..z + 1 \subseteq y..z + 1
    OBVIOUS
  <2>1. g..e \subseteq d..e /\ g..e + 1 \subseteq d..e + 1 /\ g <= e
    BY <1>2, <1>8, <2>0
  <2>4. pos[g] + 0 = 0
    BY <1>11
  <2>2. 0 \in 0..Largo(md[g])
    BY <1>2, <1>10
  <2>3. /\ \A j \in g..e + 1 : pos[j] <= Len(t)
        /\ \A j \in g..e :
           /\ pos[j + 1] = pos[j] + Largo(md[j])
           /\ \A x \in 1..Largo(md[j]) : pos[j] + x > 0 => t[pos[j] + x] = Cifra(md[j], x)
    BY <1>3, <2>1
  <2> QED
    BY <1>2, <1>3, <1>8, <1>11, <2>1, <2>2, <2>3, <2>4 DEF EnFila
<1> QED
  BY <1>8, <1>12, <1>13, <1>14 DEF Fila
-----------------------------------------------------------------------------
\* One more command at the end, behind some that send nothing.
LEMMA Anade ==
  ASSUME NEW t, NEW md, NEW d, NEW i, NEW e, Tabla(md, e), Fila(t, md, d, i, e),
         NEW f \in Nat, f > e, \A j \in e + 1..f - 1 : Largo(md[j]) = 0,
         NEW s, SonDe(s, md[f])
  PROVE  Fila(t \o s, md, d, i, f)
<1>1. PICK pos : EnFila(t, md, d, i, e, pos)
  BY DEF Fila
<1>2. /\ d \in Nat /\ e \in Nat /\ d <= e /\ i \in 0..Largo(md[d])
      /\ t \in Seq(Byte) /\ Len(t) \in Nat
  BY <1>1 DEF EnFila
<1>3. /\ pos \in [Nat -> Int] /\ pos[d] + i = 0 /\ pos[e + 1] = Len(t)
      /\ \A j \in d..e + 1 : pos[j] <= Len(t)
      /\ \A j \in d..e :
           /\ pos[j + 1] = pos[j] + Largo(md[j])
           /\ \A x \in 1..Largo(md[j]) : pos[j] + x > 0 => t[pos[j] + x] = Cifra(md[j], x)
  BY <1>1 DEF EnFila
<1>4. /\ s \in Seq(Byte) /\ Len(s) = Largo(md[f]) /\ Len(s) \in Nat
      /\ \A x \in 1..Len(s) : s[x] = Cifra(md[f], x)
  BY DEF SonDe
<1>5. /\ t \o s \in Seq(Byte) /\ Len(t \o s) = Len(t) + Len(s)
      /\ \A x \in 1..Len(t) : (t \o s)[x] = t[x]
      /\ \A x \in 1..Len(s) : (t \o s)[Len(t) + x] = s[x]
  BY <1>2, <1>4, Junta
<1> DEFINE q == [j \in Nat |-> IF j <= e + 1 THEN pos[j]
                               ELSE IF j <= f THEN Len(t) ELSE Len(t) + Len(s)]
<1>6. q \in [Nat -> Int]
  <2>1. \A j \in Nat : pos[j] \in Int
    BY <1>3
  <2>2. Len(t) \in Int /\ Len(t) + Len(s) \in Int
    BY <1>2, <1>4
  <2> QED
    BY <2>1, <2>2
<1>7. /\ \A j \in Nat : j <= e + 1 => q[j] = pos[j]
      /\ \A j \in Nat : j >= e + 1 /\ j <= f => q[j] = Len(t)
      /\ q[f + 1] = Len(t) + Len(s)
  <2>1. \A j \in Nat : j <= e + 1 => q[j] = pos[j]
    OBVIOUS
  <2>2. ASSUME NEW j \in Nat, j >= e + 1, j <= f PROVE q[j] = Len(t)
    <3>1. CASE j = e + 1
      BY <1>2, <1>3, <2>1, <3>1
    <3>2. CASE j # e + 1
      <4>1. ~(j <= e + 1)
        BY <1>2, <2>2, <3>2
      <4> QED
        BY <2>2, <4>1
    <3> QED
      BY <3>1, <3>2
  <2>3. f + 1 \in Nat /\ ~(f + 1 <= e + 1) /\ ~(f + 1 <= f)
    BY <1>2
  <2>4. q[f + 1] = Len(t) + Len(s)
    BY <2>3
  <2> QED
    BY <2>1, <2>2, <2>4
<1> HIDE DEF q
<1>8. q[d] + i = 0 /\ q[f + 1] = Len(t \o s) /\ d <= f
  <2>1. d \in Nat /\ d <= e + 1
    BY <1>2
  <2>2. q[d] = pos[d]
    BY <1>7, <2>1
  <2>3. q[d] + i = 0
    BY <1>3, <2>2
  <2>4. d <= f
    BY <1>2
  <2>5. q[f + 1] = Len(t \o s)
    BY <1>5, <1>7
  <2> QED
    BY <2>3, <2>4, <2>5
<1>9. ASSUME NEW j \in d..f + 1 PROVE q[j] <= Len(t \o s)
  <2>0. j \in Nat /\ Len(t) <= Len(t) + Len(s) /\ Len(t) + Len(s) \in Nat
    BY <1>2, <1>4
  <2>1. CASE j <= e + 1
    <3>0. j \in d..e + 1
      BY <1>2, <2>0, <2>1
    <3>1. q[j] = pos[j] /\ pos[j] <= Len(t) /\ pos[j] \in Int
      BY <1>3, <1>7, <2>0, <2>1, <3>0
    <3>2. q[j] <= Len(t) + Len(s)
      BY <1>2, <1>4, <3>1
    <3> QED
      BY <1>5, <3>2
  <2>2. CASE j > e + 1 /\ j <= f
    BY <1>2, <1>5, <1>7, <2>0, <2>2
  <2>3. CASE j > f
    <3>1. j = f + 1
      BY <1>2, <2>0, <2>3
    <3> QED
      BY <1>5, <1>7, <2>0, <3>1
  <2> QED
    BY <1>2, <2>0, <2>1, <2>2, <2>3
<1>10. ASSUME NEW j \in d..f
       PROVE  /\ q[j + 1] = q[j] + Largo(md[j])
              /\ \A x \in 1..Largo(md[j]) : q[j] + x > 0 => (t \o s)[q[j] + x] = Cifra(md[j], x)
  <2>0. j \in Nat /\ d <= j /\ j <= f
    BY <1>2
  <2>1. CASE j <= e
    <3>0. j \in d..e /\ j \in 0..e /\ j + 1 \in d..e + 1 /\ j + 1 \in Nat /\ j <= e + 1 /\ j + 1 <= e + 1
      BY <1>2, <2>0, <2>1
    <3>1. /\ q[j] = pos[j] /\ q[j + 1] = pos[j + 1] /\ pos[j] \in Int /\ pos[j + 1] \in Int
          /\ pos[j + 1] = pos[j] + Largo(md[j]) /\ pos[j + 1] <= Len(t)
          /\ Largo(md[j]) \in Nat
      BY <1>3, <1>7, <2>0, <3>0, LargoTipo DEF Tabla
    <3>2. ASSUME NEW x \in 1..Largo(md[j]), q[j] + x > 0
          PROVE  (t \o s)[q[j] + x] = Cifra(md[j], x)
      <4>1. pos[j] + x \in 1..Len(t)
        BY <1>2, <3>1, <3>2
      <4>2. (t \o s)[pos[j] + x] = t[pos[j] + x]
        BY <1>5, <4>1
      <4>3. pos[j] + x > 0
        BY <3>1, <3>2
      <4>4. t[pos[j] + x] = Cifra(md[j], x)
        BY <1>3, <3>0, <4>3
      <4> QED
        BY <3>1, <4>2, <4>4
    <3> QED
      BY <3>1, <3>2
  <2>2. CASE j > e /\ j < f
    <3>0. j \in e + 1..f - 1 /\ j >= e + 1 /\ j <= f /\ j + 1 \in Nat /\ j + 1 >= e + 1 /\ j + 1 <= f
      BY <1>2, <2>0, <2>2
    <3>1. q[j] = Len(t) /\ q[j + 1] = Len(t) /\ Largo(md[j]) = 0
      BY <1>7, <2>0, <3>0
    <3>2. 1..Largo(md[j]) = {}
      BY <3>1
    <3> QED
      BY <1>2, <3>1, <3>2
  <2>3. CASE j = f
    <3>0. f >= e + 1 /\ f <= f
      BY <1>2
    <3>1. q[j] = Len(t) /\ q[j + 1] = Len(t) + Len(s) /\ Largo(md[j]) = Len(s)
      BY <1>4, <1>7, <2>3, <3>0
    <3>2. \A x \in 1..Len(s) : (t \o s)[Len(t) + x] = Cifra(md[f], x)
      BY <1>4, <1>5
    <3> QED
      BY <2>3, <3>1, <3>2
  <2>4. j <= e \/ (j > e /\ j < f) \/ j = f
    BY <1>2, <2>0
  <2> QED
    BY <2>1, <2>2, <2>3, <2>4
<1>11. EnFila(t \o s, md, d, i, f, q)
  BY <1>2, <1>5, <1>6, <1>8, <1>9, <1>10 DEF EnFila
<1> QED
  BY <1>11 DEF Fila

\* It does not matter what md says of other commands.
LEMMA OtraTabla ==
  ASSUME NEW t, NEW md, NEW d, NEW i, NEW e, Fila(t, md, d, i, e),
         NEW ms, \A j \in 0..e : ms[j] = md[j]
  PROVE  Fila(t, ms, d, i, e)
<1>1. PICK pos : EnFila(t, md, d, i, e, pos)
  BY DEF Fila
<1>2. d \in Nat /\ e \in Nat /\ d <= e
  BY <1>1 DEF EnFila
<1>3. d \in 0..e /\ \A j \in d..e : j \in 0..e
  BY <1>2
<1>4. ms[d] = md[d] /\ \A j \in d..e : ms[j] = md[j]
  BY <1>3
<1>5. EnFila(t, ms, d, i, e, pos)
  BY <1>1, <1>4 DEF EnFila
<1> QED
  BY <1>5 DEF Fila

\* Nothing is on the way, and nothing has to be.
LEMMA FilaVacia ==
  ASSUME NEW md, Largo(md[0]) = 0
  PROVE  Fila(<<>>, md, 0, 0, 0)
<1> DEFINE q == [j \in Nat |-> 0]
           t == <<>>
<1>1. t \in Seq(Byte) /\ Len(t) = 0
  BY EmptySeq
<1>2. /\ q \in [Nat -> Int] /\ \A j \in Nat : q[j] = 0
      /\ 0..0 + 1 \subseteq Nat /\ 0..0 = {0} /\ 1..0 = {} /\ 0 \in 0..0
  OBVIOUS
<1> HIDE DEF q, t
<1>3. EnFila(t, md, 0, 0, 0, q)
  BY <1>1, <1>2 DEF EnFila
<1>4. Fila(t, md, 0, 0, 0)
  BY <1>3 DEF Fila
<1> QED
  BY <1>4 DEF t

LEMMA FilaFin ==
  ASSUME NEW t, NEW md, NEW d, NEW i, Fila(t, md, d, i, d), i = Largo(md[d])
  PROVE  t = <<>>
<1>1. PICK pos : EnFila(t, md, d, i, d, pos)
  BY DEF Fila
<1>2. /\ d \in Nat /\ i \in Nat /\ t \in Seq(Byte) /\ pos \in [Nat -> Int]
      /\ pos[d] + i = 0 /\ pos[d + 1] = Len(t)
  BY <1>1 DEF EnFila
<1>3. pos[d + 1] = pos[d] + Largo(md[d])
  <2>1. d \in d..d
    BY <1>2
  <2> QED
    BY <1>1, <2>1 DEF EnFila
<1>4. pos[d] \in Int
  BY <1>2
<1>5. Len(t) = 0
  BY <1>2, <1>3, <1>4
<1> QED
  BY <1>2, <1>5, EmptySeq
-----------------------------------------------------------------------------
(* Memory *)

Toca(m, a) == m.op = U /\ a \in m.a..m.a + m.z - 1

\* v is at a once the commands 0 to h have been carried out: the byte of the
\* last that stores there, or what memory began with.
Vale(md, a, v, h) ==
  \/ \E j \in 0..h : /\ Toca(md[j], a) /\ v = md[j].dat[a - md[j].a + 1]
                     /\ \A x \in j + 1..h : ~Toca(md[x], a)
  \/ v = 0 /\ \A x \in 0..h : ~Toca(md[x], a)

Cargada(md, mm, h) == \A a \in RAM : Vale(md, a, mm[a], h)

\* Command d has stored its first w bytes besides.
Cargandose(md, mm, d, w) ==
  \A a \in RAM : IF md[d].op = U /\ a \in md[d].a..md[d].a + w - 1
                 THEN mm[a] = md[d].dat[a - md[d].a + 1] ELSE Vale(md, a, mm[a], d - 1)

LEMMA CargaEmpieza ==
  ASSUME NEW md, NEW mm, NEW d \in Nat, Correcto(md[d]), Cargada(md, mm, d - 1)
  PROVE  Cargandose(md, mm, d, 0)
<1>1. md[d].a \in Nat
  BY Tamanos DEF Correcto
<1>2. ASSUME NEW a \in RAM, a \in md[d].a..md[d].a + 0 - 1 PROVE FALSE
  BY <1>1, <1>2
<1>3. ASSUME NEW a \in RAM PROVE Vale(md, a, mm[a], d - 1)
  BY DEF Cargada
<1> QED
  BY <1>2, <1>3 DEF Cargandose

LEMMA CargaUno ==
  ASSUME NEW md, NEW mm, NEW d \in Nat, NEW w \in Nat, Correcto(md[d]), md[d].op = U,
         Cargandose(md, mm, d, w),
         NEW mn, mn = [a \in RAM |-> IF a = md[d].a + w THEN md[d].dat[w + 1] ELSE mm[a]]
  PROVE  Cargandose(md, mn, d, w + 1)
<1> DEFINE m == md[d]
<1>1. m.a \in Nat /\ RAM \subseteq Nat
  BY Tamanos, ArranqueAssumption DEF Correcto
<1>2. ASSUME NEW a \in RAM
      PROVE  IF m.op = U /\ a \in m.a..m.a + (w + 1) - 1
             THEN mn[a] = m.dat[a - m.a + 1] ELSE Vale(md, a, mn[a], d - 1)
  <2>0. a \in Nat
    BY <1>1
  <2>1. CASE a = m.a + w
    <3>1. a \in m.a..m.a + (w + 1) - 1 /\ a - m.a + 1 = w + 1
      BY <1>1, <2>1
    <3>2. mn[a] = m.dat[w + 1]
      BY <2>1
    <3> QED
      BY <3>1, <3>2
  <2>2. CASE a # m.a + w
    <3>1. mn[a] = mm[a]
      BY <2>2
    <3>2. a \in m.a..m.a + (w + 1) - 1 <=> a \in m.a..m.a + w - 1
      BY <1>1, <2>0, <2>2
    <3> QED
      BY <3>1, <3>2 DEF Cargandose
  <2> QED
    BY <2>1, <2>2
<1> QED
  BY <1>2 DEF Cargandose

LEMMA CargaAcaba ==
  ASSUME NEW md, NEW mm, NEW d \in Nat, Correcto(md[d]), md[d].op = U,
         Cargandose(md, mm, d, md[d].z)
  PROVE  Cargada(md, mm, d)
<1>1. ASSUME NEW a \in RAM PROVE Vale(md, a, mm[a], d)
  <2>0. d \in 0..d /\ d + 1..d = {} /\ \A x \in 0..d : x \in 0..d - 1 \/ x = d
    OBVIOUS
  <2>1. CASE Toca(md[d], a)
    <3>1. mm[a] = md[d].dat[a - md[d].a + 1]
      BY <2>1 DEF Cargandose, Toca
    <3> QED
      BY <2>0, <2>1, <3>1 DEF Vale
  <2>2. CASE ~Toca(md[d], a)
    <3>1. Vale(md, a, mm[a], d - 1)
      BY <2>2 DEF Cargandose, Toca
    <3>2. CASE mm[a] = 0 /\ \A x \in 0..d - 1 : ~Toca(md[x], a)
      BY <2>0, <2>2, <3>2 DEF Vale
    <3>3. CASE \E j \in 0..d - 1 : /\ Toca(md[j], a) /\ mm[a] = md[j].dat[a - md[j].a + 1]
                                   /\ \A x \in j + 1..d - 1 : ~Toca(md[x], a)
      <4>1. PICK j \in 0..d - 1 : /\ Toca(md[j], a) /\ mm[a] = md[j].dat[a - md[j].a + 1]
                                  /\ \A x \in j + 1..d - 1 : ~Toca(md[x], a)
        BY <3>3
      <4>2. j \in 0..d /\ \A x \in j + 1..d : x \in j + 1..d - 1 \/ x = d
        OBVIOUS
      <4>3. \A x \in j + 1..d : ~Toca(md[x], a)
        BY <2>2, <4>1, <4>2
      <4> QED
        BY <4>1, <4>2, <4>3 DEF Vale
    <3> QED
      BY <3>1, <3>2, <3>3 DEF Vale
  <2> QED
    BY <2>1, <2>2
<1> QED
  BY <1>1 DEF Cargada

\* Commands that do not store.
LEMMA CargaSalta ==
  ASSUME NEW md, NEW mm, NEW d \in Nat, NEW e \in Int, d <= e, Cargada(md, mm, d),
         \A x \in d + 1..e : md[x].op # U
  PROVE  Cargada(md, mm, e)
<1>1. ASSUME NEW a \in RAM PROVE Vale(md, a, mm[a], e)
  <2>1. /\ \A x \in 0..e : x \in 0..d \/ x \in d + 1..e
        /\ \A j \in 0..d : j \in 0..e /\ \A x \in j + 1..e : x \in j + 1..d \/ x \in d + 1..e
    OBVIOUS
  <2>2. \A x \in d + 1..e : ~Toca(md[x], a)
    BY DEF Toca
  <2>3. CASE mm[a] = 0 /\ \A x \in 0..d : ~Toca(md[x], a)
    BY <2>1, <2>2, <2>3 DEF Vale
  <2>4. CASE \E j \in 0..d : /\ Toca(md[j], a) /\ mm[a] = md[j].dat[a - md[j].a + 1]
                             /\ \A x \in j + 1..d : ~Toca(md[x], a)
    <3>1. PICK j \in 0..d : /\ Toca(md[j], a) /\ mm[a] = md[j].dat[a - md[j].a + 1]
                            /\ \A x \in j + 1..d : ~Toca(md[x], a)
      BY <2>4
    <3>2. j \in 0..e /\ \A x \in j + 1..e : ~Toca(md[x], a)
      BY <2>1, <2>2, <3>1
    <3> QED
      BY <3>1, <3>2 DEF Vale
  <2> QED
    BY <2>3, <2>4 DEF Cargada, Vale
<1> QED
  BY <1>1 DEF Cargada
-----------------------------------------------------------------------------
S3(l) == l.tipo = "S3"

\* A line that is uploaded.
LEMMA LineasSubidas ==
  ASSUME NEW f \in Ficheros, NEW x \in DOMAIN f
  PROVE  /\ f[x].dir \in Dir /\ f[x].dat \in Seq(Byte) /\ Len(f[x].dat) \in Nat
         /\ S3(f[x]) => /\ Len(f[x].dat) \in Dir
                        /\ f[x].dir + Len(f[x].dat) < M
                        /\ Bytes(f[x]) = Len(f[x].dat)
                        /\ Parte(f[x]) \in Dir /\ Parte(f[x]) > 0 /\ f[x].dir + Parte(f[x]) < M
                        /\ \/ Parte(f[x]) <= Len(f[x].dat)
                           \/ Len(f[x].dat) <= 1 /\ Parte(f[x]) = Len(f[x].dat) + 1
<1>1. Corta(f[x])
  BY LineasCortas
<1>2. f[x].dir \in Dir /\ f[x].dat \in Seq(Byte) /\ Len(f[x].dat) \in Nat
  BY <1>1 DEF Corta
<1>3. ASSUME S3(f[x])
      PROVE  /\ Len(f[x].dat) \in Dir
             /\ f[x].dir + Len(f[x].dat) < M
             /\ Bytes(f[x]) = Len(f[x].dat)
             /\ Parte(f[x]) \in Dir /\ Parte(f[x]) > 0 /\ f[x].dir + Parte(f[x]) < M
             /\ \/ Parte(f[x]) <= Len(f[x].dat)
                \/ Len(f[x].dat) <= 1 /\ Parte(f[x]) = Len(f[x].dat) + 1
  <2> DEFINE h == Len(f[x].dat)
             b == f[x].cuenta
  <2>1. f[x].tipo \in Datos /\ Cabecera(f[x].tipo) = 5 /\ f[x].tipo = "S3"
    BY <1>3 DEF S3, Datos, Cabecera
  <2>2. /\ h < M /\ b - 5 = h /\ f[x].dir + h < M
        /\ f[x].dir + Parte(f[x]) < M
    BY <1>1, <1>3, <2>1, LineasAssumption DEF Corta, S3
  <2>3. b \in Nat
    <3>1. f \in Seq(LineaSrec)
      BY SrecAssumption
    <3>2. f[x] \in LineaSrec
      BY <3>1
    <3> QED
      BY <3>2 DEF LineaSrec
  <2>4. h \in Nat /\ M \in Nat /\ f[x].dir \in Nat
    BY <1>2, Tamanos
  <2>5. Bytes(f[x]) = b - 5
    BY DEF Bytes, Cabecera
  <2>6. Parte(f[x]) = (b \div 2) - 1
    BY DEF Parte
  <2> HIDE DEF h, b
  <2>7. b \div 2 \in Int /\ 2 * (b \div 2) <= b /\ b <= 2 * (b \div 2) + 1
    BY <2>3
  <2> DEFINE q == b \div 2
  <2>8. /\ q - 1 \in Nat /\ q - 1 > 0
        /\ q - 1 <= h \/ (h <= 1 /\ q - 1 = h + 1)
    <3> HIDE DEF q
    <3>1. b - 5 = h /\ q \in Int /\ 2 * q <= b /\ b <= 2 * q + 1 /\ h \in Nat /\ b \in Nat
      BY <2>2, <2>3, <2>4, <2>7 DEF q
    <3> QED
      BY <3>1
  <2> DEFINE e == Parte(f[x])
             a == f[x].dir
  <2>10. e \in 0..M - 1 /\ e > 0 /\ (e <= h \/ (h <= 1 /\ e = h + 1)) /\ a + e < M
    <3>1. e = q - 1 /\ a + e < M /\ a \in Nat
      BY <2>2, <2>4, <2>6
    <3> HIDE DEF e, q, a
    <3> QED
      BY <2>4, <2>8, <3>1
  <2>9. h \in 0..M - 1
    BY <2>2, <2>4
  <2> QED
    BY <2>2, <2>5, <2>9, <2>10 DEF Dir, h, b
<1> QED
  BY <1>2, <1>3

\* What the uploader sends for a line, to check it, and at the end.
DeLinea(l) == IF S3(l) THEN Mandato(U, l.dir, Len(l.dat), l.dat) ELSE Ninguno
DeControl(l) == IF check /\ S3(l) THEN Mandato(D, l.dir, Parte(l), <<>>) ELSE Ninguno
DeSalto == IF startAddress # NADA THEN Mandato(G, startAddress, 0, <<>>) ELSE Ninguno
DeLimpieza == Mandato(U, PRIMERA, CUANTAS, [x \in 1..CUANTAS |-> RELLENO])

Cuantos == Len(fichero)

\* The commands of a session in their order; there is none before the first.
Mando(j) ==
  IF j = 1 THEN DeLimpieza
  ELSE IF j \in 2..Cuantos + 1 THEN DeLinea(fichero[j - 1])
  ELSE IF j \in Cuantos + 2..2 * Cuantos + 1 THEN DeControl(fichero[j - Cuantos - 1])
  ELSE IF j = 2 * Cuantos + 2 THEN DeSalto ELSE Ninguno
Mandos == [j \in Nat |-> Mando(j)]

LEMMA MandosCorrectos ==
  ASSUME fichero \in Ficheros, startAddress \in Dir \cup {NADA}
  PROVE  \A j \in Nat : Correcto(Mandos[j])
<1>0. Cuantos \in Nat /\ DOMAIN fichero = 1..Cuantos
  BY LineasCortas DEF Cuantos
<1>n. Correcto(Ninguno)
  <2> DEFINE m == Ninguno
  <2>1. m.op = NADA /\ m.a = 0 /\ m.z = 0 /\ m.dat = <<>>
    BY DEF Ninguno, Mandato
  <2>2. NADA # U /\ NADA # D /\ 0 \in Dir /\ <<>> \in Seq(Byte)
    BY Letreros, Tamanos, EmptySeq
  <2> HIDE DEF m
  <2>3. Correcto(m)
    BY <2>1, <2>2 DEF Correcto
  <2> QED
    BY <2>3 DEF m
<1>1. Correcto(DeLimpieza)
  <2> DEFINE s == [x \in 1..CUANTAS |-> RELLENO]
  <2>1. /\ PRIMERA \in Dir /\ CUANTAS \in Nat \ {0} /\ PRIMERA + CUANTAS < M /\ RELLENO \in Byte
    BY ArranqueAssumption
  <2>2. s \in Seq(Byte) /\ Len(s) = CUANTAS
    BY <2>1
  <2>3. CUANTAS \in 0..M - 1
    BY <2>1, Tamanos DEF Dir
  <2> HIDE DEF s
  <2>4. Correcto(Mandato(U, PRIMERA, CUANTAS, s))
    BY <2>1, <2>2, <2>3 DEF Correcto, Mandato, Dir
  <2> QED
    BY <2>4 DEF DeLimpieza, s
<1>2. ASSUME NEW x \in DOMAIN fichero PROVE Correcto(DeLinea(fichero[x])) /\ Correcto(DeControl(fichero[x]))
  <2>1. CASE ~S3(fichero[x])
    BY <1>n, <2>1 DEF DeLinea, DeControl
  <2>2. CASE S3(fichero[x])
    <3> DEFINE l == fichero[x]
    <3>1. /\ l.dir \in Dir /\ l.dat \in Seq(Byte) /\ Len(l.dat) \in Dir
          /\ l.dir + Len(l.dat) < M
          /\ Parte(l) \in Dir /\ Parte(l) > 0 /\ l.dir + Parte(l) < M
      BY <2>2, LineasSubidas
    <3> HIDE DEF l
    <3>2. <<>> \in Seq(Byte)
      BY EmptySeq
    <3>3. D # U /\ D # NADA /\ U # NADA
      BY Letreros
    <3>4. Correcto(Mandato(U, l.dir, Len(l.dat), l.dat)) /\ Correcto(Mandato(D, l.dir, Parte(l), <<>>))
      BY <3>1, <3>2, <3>3 DEF Correcto, Mandato
    <3> QED
      BY <1>n, <3>4 DEF DeLinea, DeControl, l
  <2> QED
    BY <2>1, <2>2
<1>3. Correcto(DeSalto)
  <2>1. CASE startAddress = NADA
    BY <1>n, <2>1 DEF DeSalto
  <2>2. CASE startAddress # NADA
    <3>1. startAddress \in Dir /\ 0 \in Dir /\ <<>> \in Seq(Byte) /\ G \notin {U, D}
      BY <2>2, Tamanos, Letreros, EmptySeq
    <3>2. Correcto(Mandato(G, startAddress, 0, <<>>))
      BY <3>1 DEF Correcto, Mandato
    <3> QED
      BY <2>2, <3>2 DEF DeSalto
  <2> QED
    BY <2>1, <2>2
<1>4. ASSUME NEW j \in Nat PROVE Correcto(Mando(j))
  <2>1. j \in 2..Cuantos + 1 => j - 1 \in DOMAIN fichero
    BY <1>0
  <2>2. j \in Cuantos + 2..2 * Cuantos + 1 => j - Cuantos - 1 \in DOMAIN fichero
    BY <1>0
  <2> QED
    BY <1>n, <1>1, <1>2, <1>3, <2>1, <2>2 DEF Mando
<1> QED
  BY <1>4 DEF Mandos

\* Which command is which.
LEMMA MandosDe ==
  ASSUME fichero \in Ficheros
  PROVE  /\ Cuantos \in Nat /\ DOMAIN fichero = 1..Cuantos /\ Cuantos = Len(fichero)
         /\ Mandos[0] = Ninguno /\ Mandos[1] = DeLimpieza
         /\ \A x \in 1..Cuantos : /\ Mandos[x + 1] = DeLinea(fichero[x])
                                  /\ Mandos[Cuantos + x + 1] = DeControl(fichero[x])
         /\ Mandos[2 * Cuantos + 2] = DeSalto
<1>1. Cuantos \in Nat /\ DOMAIN fichero = 1..Cuantos /\ Cuantos = Len(fichero)
  BY LineasCortas DEF Cuantos
<1>2. Mandos[0] = Ninguno /\ Mandos[1] = DeLimpieza /\ Mandos[2 * Cuantos + 2] = DeSalto
  BY <1>1 DEF Mandos, Mando
<1>3. ASSUME NEW x \in 1..Cuantos
      PROVE  /\ Mandos[x + 1] = DeLinea(fichero[x])
             /\ Mandos[Cuantos + x + 1] = DeControl(fichero[x])
  <2>1. /\ x + 1 \in Nat /\ x + 1 # 1 /\ x + 1 \in 2..Cuantos + 1 /\ x + 1 - 1 = x
        /\ Cuantos + x + 1 \in Nat /\ Cuantos + x + 1 # 1 /\ Cuantos + x + 1 \notin 2..Cuantos + 1
        /\ Cuantos + x + 1 \in Cuantos + 2..2 * Cuantos + 1
        /\ Cuantos + x + 1 - Cuantos - 1 = x
    BY <1>1
  <2>2. Mandos[x + 1] = Mando(x + 1) /\ Mandos[Cuantos + x + 1] = Mando(Cuantos + x + 1)
    BY <2>1 DEF Mandos
  <2>3. Mando(x + 1) = DeLinea(fichero[x])
    BY <2>1 DEF Mando
  <2> DEFINE y == Cuantos + x + 1
  <2>4. y # 1 /\ y \notin 2..Cuantos + 1 /\ y \in Cuantos + 2..2 * Cuantos + 1 /\ y - Cuantos - 1 = x
    BY <1>1, <2>1
  <2> HIDE DEF y
  <2>5. Mando(y) = DeControl(fichero[y - Cuantos - 1])
    BY <2>4, Zenon DEF Mando
  <2>6. Mando(y) = DeControl(fichero[x])
    BY <2>4, <2>5, Zenon
  <2> QED
    BY <2>2, <2>3, <2>6, Zenon DEF y
<1> QED
  BY <1>1, <1>2, <1>3
-----------------------------------------------------------------------------
(* Types *)

Tipos ==
  /\ fichero \in Ficheros
  /\ lpc \in {"saluda", "orden", "start", "size", "sube", "baja", "saltado"}
  /\ c \in Byte /\ k \in Nat /\ start \in Dir /\ size \in Dir /\ p \in Dir
  /\ lpc = "saluda" => k < Len(Saludo)
  /\ lpc # "saluda" => k < ANCHO
  /\ mem \in [RAM -> Byte] /\ rx \in Byte \cup {NADA}
  /\ hl \in Seq(Byte) /\ lh \in Seq(Byte) /\ ist_data \in Seq(Byte)
  /\ upc \in {"busca", "escucha", "limpia", "lineas", "comprueba", "espera", "fin",
             "terminal", "error"}
  /\ n \in 0..Len(fichero) /\ startAddress \in Dir \cup {NADA} /\ check \in BOOLEAN
  /\ firma \in Firmas /\ count \in 0..max_tries
  /\ upc \in {"busca", "escucha"} => count < max_tries

LEMMA SaludoTipo ==
  /\ Saludo \in Seq(Byte) /\ Len(Saludo) \in Nat \ {0}
  /\ \A x \in 1..Len(Saludo) : Saludo[x] \in Byte
  BY ArranqueAssumption, EmptySeq

LEMMA TiposInit == Init => Tipos
<1> SUFFICES ASSUME Init PROVE Tipos
  OBVIOUS
<1>1. /\ fichero \in Ficheros /\ lpc = "orden" /\ c = ASTERISCO /\ k = 0 /\ start = 0 /\ size = 0
      /\ p = 0 /\ mem \in [RAM -> {0}] /\ rx = NADA /\ hl = <<>> /\ lh = <<>>
      /\ upc = "busca" /\ n = 0 /\ check \in BOOLEAN /\ startAddress = NADA /\ ist_data = <<>>
      /\ firma \in Firmas /\ count = 0
  BY DEF Init, AInit
<1>7. 0 \in 0..max_tries /\ 0 < max_tries
  BY ArranqueAssumption
<1>2. ASTERISCO \in Byte /\ 0 \in Dir /\ 0 \in Byte /\ ANCHO \in Nat \ {0}
  BY Tamanos, ArranqueAssumption
<1>3. mem \in [RAM -> Byte]
  BY <1>1, <1>2
<1>4. n \in 0..Len(fichero)
  BY <1>1, LineasCortas
<1>5. <<>> \in Seq(Byte)
  BY EmptySeq
<1>6. 0 < ANCHO
  BY <1>2
<1> QED
  BY <1>1, <1>2, <1>3, <1>4, <1>5, <1>6, <1>7 DEF Tipos

LEMMA TiposLlega == Tipos /\ Llega /\ fichero' = fichero => Tipos'
<1> SUFFICES ASSUME Tipos, Llega, fichero' = fichero PROVE Tipos'
  OBVIOUS
<1>1. hl \in Seq(Byte) /\ hl # <<>>
  BY DEF Tipos, Llega
<1>2. Head(hl) \in Byte /\ Tail(hl) \in Seq(Byte)
  BY <1>1
<1> QED
  BY <1>2 DEF Tipos, Llega, boot, sube

LEMMA TiposCargador == Tipos /\ Cargador /\ fichero' = fichero => Tipos'
<1> SUFFICES ASSUME Tipos, Cargador, fichero' = fichero PROVE Tipos'
  OBVIOUS
<1>0. /\ M \in Nat \ {0} /\ BB \in Nat /\ ANCHO \in Nat \ {0} /\ 0 \in Dir /\ 0 \in Byte
      /\ 0 < ANCHO /\ Byte \subseteq Nat /\ Dir \subseteq Nat
  BY Tamanos
<1>s. UNCHANGED sube
  BY DEF Cargador
<1>m. \A x \in Nat : x % M \in Dir
  BY <1>0 DEF Dir
<1>g. ASSUME NEW v \in Dir, rx # NADA PROVE read_uint32(v) \in Dir
  <2>1. rx \in Nat /\ v \in Nat
    BY <1>0, <1>g DEF Tipos
  <2> QED
    BY <1>0, <1>m, <2>1 DEF read_uint32
<1>1. CASE Saluda
  <2>1. Letra(k) \in Byte
    BY <1>0, SaludoTipo DEF Letra, Tipos
  <2>2. lh' \in Seq(Byte)
    BY <1>1, <2>1 DEF Saluda, uart_putchar, Tipos
  <2>3. CASE Acaba(k)
    BY <1>0, <1>1, <1>s, <2>2, <2>3 DEF Tipos, Saluda, sube
  <2>4. CASE ~Acaba(k)
    <3>1. lpc' = lpc /\ k' = k + 1
      BY <1>1, <2>4 DEF Saluda
    <3>2. k + 1 < Len(Saludo) /\ k + 1 \in Nat
      BY <1>1, <2>4, SaludoTipo DEF Acaba, Saluda, Tipos
    <3> QED
      BY <1>1, <1>s, <2>2, <3>1, <3>2 DEF Tipos, Saluda, sube
  <2> QED
    BY <2>3, <2>4
<1>2. CASE Orden
  <2>1. rx \in Byte /\ 0 < Len(Saludo)
    BY <1>2, SaludoTipo DEF Orden, uart_getchar, Tipos
  <2> QED
    BY <1>0, <1>2, <1>s, <2>1 DEF Tipos, Orden, uart_getchar, sube
<1>3. CASE Start
  <2>1. start' \in Dir /\ rx' = NADA
    BY <1>3, <1>g DEF Start, uart_getchar, Tipos
  <2>2. k' \in Nat /\ lpc' # "saluda" /\ k' < ANCHO
        /\ lpc' \in {"saluda", "orden", "start", "size", "sube", "baja", "saltado"}
    BY <1>0, <1>3 DEF Start, Ultimo, Tipos
  <2> QED
    BY <1>3, <1>s, <2>1, <2>2 DEF Tipos, Start, sube
<1>4. CASE Size
  <2>1. size' \in Dir /\ rx' = NADA
    BY <1>4, <1>g DEF Size, uart_getchar, Tipos
  <2>2. k' \in Nat /\ lpc' # "saluda" /\ k' < ANCHO /\ p' \in Dir
        /\ lpc' \in {"saluda", "orden", "start", "size", "sube", "baja", "saltado"}
    BY <1>0, <1>4 DEF Size, Ultimo, Entra, Tipos
  <2> QED
    BY <1>4, <1>s, <2>1, <2>2 DEF Tipos, Size, sube
<1>5. ASSUME Siguiente PROVE p' \in Dir /\ (lpc' = lpc \/ lpc' = "orden")
  <2>1. p + 1 \in Nat
    BY <1>0 DEF Tipos
  <2> QED
    BY <1>5, <1>m, <2>1 DEF Siguiente
<1>6. CASE Sube
  <2>1. rx \in Byte /\ mem' \in [RAM -> Byte]
    BY <1>6 DEF Sube, uart_getchar, Tipos
  <2>2. UNCHANGED <<c, k, start, size, hl, lh>> /\ rx' = NADA /\ lpc = "sube" /\ Siguiente
    BY <1>6 DEF Sube, Siguiente, uart_getchar
  <2> QED
    BY <1>5, <1>s, <2>1, <2>2 DEF Tipos, sube
<1>7. CASE Baja
  <2>1. Leido(p) \in Byte
    BY <1>0 DEF Leido, Tipos
  <2>2. UNCHANGED <<c, k, start, size, hl, mem, rx>> /\ lpc = "baja" /\ Siguiente
    BY <1>7 DEF Baja, Siguiente
  <2>3. lh' \in Seq(Byte)
    BY <1>7, <2>1 DEF Baja, uart_putchar, Tipos
  <2> QED
    BY <1>5, <1>s, <2>2, <2>3 DEF Tipos, sube
<1> QED
  BY <1>1, <1>2, <1>3, <1>4, <1>6, <1>7 DEF Cargador
-----------------------------------------------------------------------------
(* What the uploader sends *)

\* s is appended to what is on its way.
LEMMA MandaTipo ==
  ASSUME NEW s \in Seq(Byte), hl \in Seq(Byte), Manda(s)
  PROVE  hl' \in Seq(Byte) /\ UNCHANGED lh
  BY ConcatProperties DEF Manda

LEMMA SubidaEntera ==
  ASSUME NEW f \in Ficheros, NEW x \in DOMAIN f, S3(f[x])
  PROVE  SubSeq(f[x].dat, 1, Bytes(f[x])) = f[x].dat
<1> DEFINE s == f[x].dat
<1>1. s \in Seq(Byte) /\ Bytes(f[x]) = Len(s)
  BY LineasSubidas
<1> HIDE DEF s
<1>2. SubSeq(s, 1, Len(s)) = s
  BY <1>1
<1> QED
  BY <1>1, <1>2 DEF s

\* Each of its lines of text is the bytes of one command.
LEMMA LetrasLimpieza ==
  /\ SonDe(<<U>> \o put_uint32(PRIMERA) \o put_uint32(Len([x \in 1..CUANTAS |-> RELLENO]))
             \o [x \in 1..CUANTAS |-> RELLENO], DeLimpieza)
<1> DEFINE s == [x \in 1..CUANTAS |-> RELLENO]
<1>1. /\ PRIMERA \in Dir /\ CUANTAS \in Nat \ {0} /\ PRIMERA + CUANTAS < M /\ RELLENO \in Byte
  BY ArranqueAssumption
<1>2. s \in Seq(Byte) /\ Len(s) = CUANTAS
  BY <1>1
<1>3. CUANTAS \in Dir
  BY <1>1, Tamanos DEF Dir
<1> HIDE DEF s
<1>4. SonDe(<<U>> \o put_uint32(PRIMERA) \o put_uint32(Len(s)) \o s,
            Mandato(U, PRIMERA, CUANTAS, s))
  BY <1>1, <1>2, <1>3, LetrasLargas
<1> QED
  BY <1>4 DEF DeLimpieza, s

LEMMA LetrasLinea ==
  ASSUME NEW f \in Ficheros, NEW x \in DOMAIN f, S3(f[x])
  PROVE  SonDe(<<U>> \o put_uint32(f[x].dir) \o put_uint32(Len(SubSeq(f[x].dat, 1, Bytes(f[x]))))
                 \o SubSeq(f[x].dat, 1, Bytes(f[x])), DeLinea(f[x]))
<1> DEFINE s == f[x].dat
           a == f[x].dir
<1>1. a \in Dir /\ s \in Seq(Byte) /\ Len(s) \in Dir
  BY LineasSubidas
<1>2. SubSeq(f[x].dat, 1, Bytes(f[x])) = s
  BY SubidaEntera
<1>3. DeLinea(f[x]) = Mandato(U, a, Len(s), s)
  BY DEF DeLinea
<1> HIDE DEF s, a
<1>4. SonDe(<<U>> \o put_uint32(a) \o put_uint32(Len(s)) \o s, Mandato(U, a, Len(s), s))
  BY <1>1, LetrasLargas
<1> QED
  BY <1>2, <1>3, <1>4 DEF a

LEMMA LetrasControl ==
  ASSUME NEW f \in Ficheros, NEW x \in DOMAIN f, S3(f[x]), check
  PROVE  SonDe(<<D>> \o put_uint32(f[x].dir) \o put_uint32(Parte(f[x])), DeControl(f[x]))
<1>1. f[x].dir \in Dir /\ Parte(f[x]) \in Dir
  BY LineasSubidas
<1>2. DeControl(f[x]) = Mandato(D, f[x].dir, Parte(f[x]), <<>>)
  BY DEF DeControl
<1> QED
  BY <1>1, <1>2, LetrasDeComprobar

LEMMA LetrasSalto ==
  ASSUME startAddress \in Dir
  PROVE  SonDe(<<G>> \o put_uint32(startAddress), DeSalto)
<1>1. startAddress # NADA
  BY Tamanos DEF NADA
<1>2. DeSalto = Mandato(G, startAddress, 0, <<>>)
  BY <1>1 DEF DeSalto
<1> QED
  BY <1>2, LetrasDeSaltar

LEMMA TiposCarga ==
  ASSUME Tipos, Carga_y_arranca, UNCHANGED <<boot, mem, rx, firma>>, fichero' = fichero
  PROVE  Tipos'
<1>0. UNCHANGED <<boot, mem, rx, firma, count>>
  BY DEF Carga_y_arranca
<1>f. fichero \in Ficheros /\ hl \in Seq(Byte) /\ lh \in Seq(Byte) /\ ist_data \in Seq(Byte)
      /\ startAddress \in Dir \cup {NADA}
      /\ DOMAIN fichero = 1..Len(fichero) /\ Len(fichero) \in Nat /\ n \in 0..Len(fichero)
  BY LineasCortas DEF Tipos
<1>2. CASE Escucha
  <2> DEFINE fin == CHOOSE x \in DOMAIN lh :
                      lh[x] = NUEVALINEA /\ \A y \in 1..x - 1 : lh[y] # NUEVALINEA
  <2>1. lh' = SubSeq(lh, fin + 1, Len(lh)) /\ upc' \in {"limpia", "busca"}
        /\ \E x \in DOMAIN lh : lh[x] = NUEVALINEA
    BY <1>2 DEF Escucha
  <2>2. fin \in DOMAIN lh
    <3> DEFINE T == {x \in Nat : x \in DOMAIN lh /\ lh[x] = NUEVALINEA}
    <3>0. DOMAIN lh = 1..Len(lh) /\ Len(lh) \in Nat /\ T \in SUBSET Nat
      BY <1>f
    <3>1. T # {}
      BY <2>1, <3>0
    <3> HIDE DEF T
    <3>2. PICK x \in T : \A y \in T : x <= y
      BY <3>0, <3>1, Minimo
    <3>3. x \in DOMAIN lh /\ lh[x] = NUEVALINEA
      BY <3>2 DEF T
    <3>4. ASSUME NEW y \in 1..x - 1 PROVE lh[y] # NUEVALINEA
      <4>1. y \in DOMAIN lh /\ y \in Nat /\ ~(x <= y)
        BY <3>0, <3>3
      <4> QED
        BY <3>2, <4>1 DEF T
    <3> QED
      BY <3>3, <3>4
  <2> HIDE DEF fin
  <2>3. lh' \in Seq(Byte)
    <3>1. fin \in Nat
      BY <1>f, <2>2
    <3> QED
      BY <1>f, <2>1, <2>2, <3>1, SubSeqProperties
  <2> QED
    BY <1>0, <1>2, <2>1, <2>3 DEF Tipos, Escucha, boot
<1>3. CASE Limpia
  <2> DEFINE s == <<U>> \o put_uint32(PRIMERA) \o put_uint32(Len([x \in 1..CUANTAS |-> RELLENO]))
                    \o [x \in 1..CUANTAS |-> RELLENO]
  <2>1. s \in Seq(Byte)
    BY LetrasLimpieza DEF SonDe
  <2>2. Manda(s)
    BY <1>3 DEF Limpia, upload
  <2> HIDE DEF s
  <2>3. hl' \in Seq(Byte) /\ UNCHANGED lh
    BY <1>f, <2>1, <2>2, MandaTipo
  <2> QED
    BY <1>0, <1>3, <2>3 DEF Tipos, Limpia, boot
<1>4. CASE Lineas
  <2> DEFINE x == n + 1
             l == fichero[x]
  <2>1. x \in DOMAIN fichero /\ n' = x /\ n' \in 0..Len(fichero)
    BY <1>4, <1>f DEF Lineas
  <2>2. l.dir \in Dir
    BY <1>f, <2>1, LineasSubidas
  <2>3. startAddress' \in Dir \cup {NADA}
    BY <1>4, <1>f, <2>2 DEF Lineas
  <2>4. hl' \in Seq(Byte) /\ lh' = lh
    <3> DEFINE s == <<U>> \o put_uint32(l.dir) \o put_uint32(Len(SubSeq(l.dat, 1, Bytes(l))))
                      \o SubSeq(l.dat, 1, Bytes(l))
    <3>1. CASE S3(l)
      <4>1. SonDe(s, DeLinea(l))
        BY <1>f, <2>1, <3>1, LetrasLinea
      <4>2. s \in Seq(Byte)
        BY <4>1 DEF SonDe
      <4>3. Manda(s)
        BY <1>4, <3>1 DEF Lineas, upload, S3
      <4> HIDE DEF s
      <4> QED
        BY <1>f, <4>2, <4>3, MandaTipo
    <3>2. CASE ~S3(l)
      BY <1>4, <1>f, <3>2 DEF Lineas, S3
    <3> QED
      BY <3>1, <3>2
  <2> HIDE DEF x, l
  <2> QED
    BY <1>0, <1>4, <2>1, <2>3, <2>4 DEF Tipos, Lineas, boot
<1>5. CASE FinLineas
  <2>1. n' \in 0..Len(fichero) /\ upc' \in {"comprueba", "fin"}
    BY <1>5, <1>f DEF FinLineas
  <2> QED
    BY <1>0, <1>5, <2>1 DEF Tipos, FinLineas, boot
<1>6. CASE Comprueba
  <2> DEFINE x == n + 1
             l == fichero[x]
  <2>1. x \in DOMAIN fichero /\ n' = x /\ n' \in 0..Len(fichero)
    BY <1>6, <1>f DEF Comprueba
  <2>2. l.dir \in Dir
    BY <1>f, <2>1, LineasSubidas
  <2>4. hl' \in Seq(Byte) /\ lh' = lh /\ upc' \in {"comprueba", "espera"}
    <3> DEFINE s == <<D>> \o put_uint32(l.dir) \o put_uint32(Parte(l))
    <3>1. CASE S3(l)
      <4>1. put_uint32(l.dir) \in Seq(Byte) /\ put_uint32(Parte(l)) \in Seq(Byte) /\ <<D>> \in Seq(Byte)
        BY <1>f, <2>1, <2>2, <3>1, LineasSubidas, Cifras, Letreros
      <4>2. s \in Seq(Byte)
        BY <4>1, ConcatProperties
      <4>3. Manda(s) /\ upc' = "espera"
        BY <1>6, <3>1 DEF Comprueba, S3
      <4> HIDE DEF s
      <4> QED
        BY <1>f, <4>2, <4>3, MandaTipo
    <3>2. CASE ~S3(l)
      BY <1>6, <1>f, <3>2 DEF Comprueba, S3
    <3> QED
      BY <3>1, <3>2
  <2> HIDE DEF x, l
  <2>5. ist_data' \in Seq(Byte)
    BY <1>6, EmptySeq DEF Comprueba
  <2> QED
    BY <1>0, <1>6, <2>1, <2>4, <2>5 DEF Tipos, Comprueba, boot
<1>7. CASE Recibe
  <2>1. lh # <<>> /\ Head(lh) \in Byte /\ Tail(lh) \in Seq(Byte)
    BY <1>7, <1>f DEF Recibe
  <2>2. lh' \in Seq(Byte) /\ ist_data' \in Seq(Byte)
    BY <1>7, <1>f, <2>1 DEF Recibe
  <2> QED
    BY <1>0, <1>7, <2>2 DEF Tipos, Recibe, boot
<1>8. CASE Compara
  BY <1>0, <1>8 DEF Tipos, Compara, boot
<1>9. CASE Arranca
  <2> DEFINE s == <<G>> \o put_uint32(startAddress)
  <2>1. hl' \in Seq(Byte) /\ lh' = lh
    <3>1. CASE startAddress # NADA
      <4>1. startAddress \in Dir
        BY <1>f, <3>1
      <4>2. s \in Seq(Byte)
        BY <4>1, LetrasSalto DEF SonDe
      <4>3. Manda(s)
        BY <1>9, <3>1 DEF Arranca
      <4> HIDE DEF s
      <4> QED
        BY <1>f, <4>2, <4>3, MandaTipo
    <3>2. CASE startAddress = NADA
      BY <1>9, <1>f, <3>2 DEF Arranca
    <3> QED
      BY <3>1, <3>2
  <2> HIDE DEF s
  <2> QED
    BY <1>0, <1>9, <2>1 DEF Tipos, Arranca, boot
<1> QED
  BY <1>2, <1>3, <1>4, <1>5, <1>6, <1>7, <1>8, <1>9 DEF Carga_y_arranca

LEMMA TiposSubidor == Tipos /\ Subidor /\ fichero' = fichero => Tipos'
<1> SUFFICES ASSUME Tipos, Subidor, fichero' = fichero PROVE Tipos'
  OBVIOUS
<1>0. UNCHANGED <<boot, mem, rx, firma>>
  BY DEF Subidor
<1>c. CASE Busca
  <2>1. <<OTRA>> \in Seq(Byte)
    BY Letreros
  <2>2. hl' \in Seq(Byte) /\ UNCHANGED lh
    BY <1>c, <2>1, MandaTipo DEF Busca, Tipos
  <2>3. /\ count' \in 0..max_tries /\ upc' \in {"escucha", "error"}
        /\ upc' = "escucha" => count' < max_tries
    <3>1. count \in 0..max_tries /\ count < max_tries /\ max_tries \in Nat /\ count' = count + 1
      BY <1>c, ArranqueAssumption DEF Busca, Tipos
    <3>2. count' \in 0..max_tries /\ (count' # max_tries => count' < max_tries)
      BY <3>1
    <3> QED
      BY <1>c, <3>2 DEF Busca
  <2> QED
    BY <1>0, <1>c, <2>2, <2>3 DEF Tipos, Busca, boot
<1>d. CASE Carga_y_arranca
  BY <1>d, TiposCarga, <1>0
<1> QED
  BY <1>c, <1>d DEF Subidor

LEMMA TiposPaso == Tipos /\ [Next]_vars => Tipos'
<1> SUFFICES ASSUME Tipos, [Next]_vars PROVE Tipos'
  OBVIOUS
<1>1. CASE Vram
  BY <1>1 DEF Vram, VNext, avars, boot, sube, Tipos
<1>2. CASE Sesion
  BY <1>2, TiposLlega, TiposCargador, TiposSubidor DEF Sesion, ANext
<1>3. CASE UNCHANGED vars
  BY <1>3 DEF vars, avars, boot, sube, Tipos
<1> QED
  BY <1>1, <1>2, <1>3 DEF Next
-----------------------------------------------------------------------------
(* A session in the middle *)

\* What the loader has still to read, and the last command sent.
Camino == (IF rx = NADA THEN <<>> ELSE <<rx>>) \o hl
Emitidos == IF upc = "lineas" THEN n + 1
            ELSE IF upc = "fin" THEN Cuantos + 1
            ELSE IF upc \in {"comprueba", "espera"} THEN Cuantos + n + 1 ELSE 2 * Cuantos + 2

\* The loader has read i bytes of command d, and done what they say.
EnOrden(d, i) == lpc = "orden" /\ i = Largo(Mandos[d]) /\ Cargada(Mandos, mem, d)
EnStart(d, i) ==
  /\ lpc = "start" /\ Mandos[d].op # NADA /\ c = Mandos[d].op /\ i = k + 1
  /\ start = Mandos[d].a \div Potencia[ANCHO - k] /\ size = 0 /\ Cargada(Mandos, mem, d - 1)
EnSize(d, i) ==
  /\ lpc = "size" /\ Mandos[d].op \in {U, D} /\ c = Mandos[d].op /\ i = 1 + ANCHO + k
  /\ start = Mandos[d].a /\ size = Mandos[d].z \div Potencia[ANCHO - k]
  /\ Cargada(Mandos, mem, d - 1)
Dentro(d) == /\ start = Mandos[d].a /\ size = Mandos[d].z
             /\ p \in Mandos[d].a..Mandos[d].a + Mandos[d].z - 1
EnSube(d, i) ==
  /\ lpc = "sube" /\ Mandos[d].op = U /\ Dentro(d) /\ i = 1 + 2 * ANCHO + (p - Mandos[d].a)
  /\ Cargandose(Mandos, mem, d, p - Mandos[d].a)
EnBaja(d, i) == /\ lpc = "baja" /\ Mandos[d].op = D /\ Dentro(d) /\ i = Largo(Mandos[d])
                /\ Cargada(Mandos, mem, d - 1)
EnSalto(d, i) == /\ lpc = "saltado" /\ Mandos[d].op = G /\ start = Mandos[d].a
                 /\ i = Largo(Mandos[d]) /\ Cargada(Mandos, mem, d - 1)
Leyendo(d, i) == \/ EnOrden(d, i) \/ EnStart(d, i) \/ EnSize(d, i)
                 \/ EnSube(d, i) \/ EnBaja(d, i) \/ EnSalto(d, i)

\* What the uploader has from the loader: the answer to its last command.
Oido == ist_data \o lh
Vistos(d) == IF d # Emitidos THEN 0
             ELSE IF lpc = "baja" THEN p - start
             ELSE IF lpc = "orden" THEN Mandos[d].z ELSE 0
Oyendo(d) ==
  /\ \A j \in d..Emitidos : Mandos[j].op = D =>
       (j = d /\ lpc = "orden") \/ (upc = "espera" /\ j = Emitidos)
  /\ upc # "espera" => lh = <<>>
  /\ upc = "espera" => /\ Mandos[Emitidos].op = D /\ n > 0 /\ Len(Oido) = Vistos(d)
                       /\ \A x \in 1..Len(Oido) : Oido[x] = Leido(Mandos[Emitidos].a + x - 1)

Caso(d, i) == Fila(Camino, Mandos, d, i, Emitidos) /\ Leyendo(d, i) /\ Oyendo(d)

LEMMA CasoTipo ==
  ASSUME Tipos, NEW d, NEW i, Caso(d, i)
  PROVE  /\ d \in Nat /\ Emitidos \in Nat /\ d <= Emitidos /\ d \in d..Emitidos
         /\ i \in 0..Largo(Mandos[d])
         /\ Correcto(Mandos[d]) /\ Tabla(Mandos, Emitidos)
<1>1. PICK pos : EnFila(Camino, Mandos, d, i, Emitidos, pos)
  BY DEF Caso, Fila
<1>2. d \in Nat /\ Emitidos \in Nat /\ d <= Emitidos /\ i \in 0..Largo(Mandos[d])
  BY <1>1 DEF EnFila
<1>3. \A j \in Nat : Correcto(Mandos[j])
  BY MandosCorrectos DEF Tipos
<1> QED
  BY <1>2, <1>3 DEF Tabla

\* What changes none of this.
LEMMA Quieto ==
  /\ UNCHANGED <<fichero, check, startAddress>> => Mandos' = Mandos /\ Cuantos' = Cuantos
  /\ UNCHANGED <<fichero, upc, n>> => Emitidos' = Emitidos
  BY DEF Mandos, Mando, Cuantos, DeLinea, DeControl, DeSalto, DeLimpieza, Emitidos

\* A byte taken out of the receiver.
LEMMA Saca ==
  ASSUME Tipos, rx # NADA, rx' = NADA, hl' = hl
  PROVE  /\ Camino # <<>> /\ Head(Camino) = rx /\ Tail(Camino) = Camino' /\ rx \in Byte
<1>1. rx \in Byte /\ hl \in Seq(Byte)
  BY DEF Tipos
<1>2. Camino = <<rx>> \o hl
  BY DEF Camino
<1>3. Camino' = hl
  <2>1. Camino' = <<>> \o hl
    BY DEF Camino
  <2> QED
    BY <1>1, <2>1
<1>4. <<rx>> \in Seq(Byte) /\ Len(<<rx>>) = 1 /\ Len(hl) \in Nat /\ <<rx>>[1] = rx
  BY <1>1
<1>5. /\ Camino \in Seq(Byte) /\ Len(Camino) = 1 + Len(hl) /\ Camino[1] = rx
      /\ \A x \in 1..Len(hl) : Camino[1 + x] = hl[x]
  BY <1>1, <1>2, <1>4, Junta
<1>6. Camino # <<>> /\ Head(Camino) = rx
  BY <1>4, <1>5
<1>7. Tail(Camino) \in Seq(Byte) /\ Len(Tail(Camino)) = Len(hl)
      /\ \A x \in 1..Len(hl) : Tail(Camino)[x] = hl[x]
  BY <1>4, <1>5, <1>6, HeadTailProperties
<1> HIDE DEF Camino
<1>8. Tail(Camino) = hl
  BY <1>1, <1>7, SeqEqual
<1> QED
  BY <1>1, <1>3, <1>6, <1>8

\* What the uploader hears, when nothing is sent and nothing written that matters.
LEMMA OyendoSigue ==
  ASSUME NEW d \in Nat, NEW g \in Nat, g >= d, Emitidos \in Nat,
         Oyendo(d), Mandos' = Mandos, Emitidos' = Emitidos, UNCHANGED <<upc, n, lh, ist_data>>,
         upc = "espera" => Vistos(g)' = Vistos(d),
         upc = "espera" /\ Len(Oido) > 0 => mem' = mem,
         g = d /\ lpc = "orden" => lpc' = "orden"
  PROVE  Oyendo(g)'
<1>1. Oido' = Oido
  BY DEF Oido
<1>2. ASSUME NEW j \in g..Emitidos, Mandos[j].op = D
      PROVE  (j = g /\ lpc' = "orden") \/ (upc' = "espera" /\ j = Emitidos)
  <2>1. j \in d..Emitidos
    OBVIOUS
  <2>2. (j = d /\ lpc = "orden") \/ (upc = "espera" /\ j = Emitidos)
    BY <1>2, <2>1 DEF Oyendo
  <2>3. j = d => g = d
    OBVIOUS
  <2> QED
    BY <2>2, <2>3
<1>3. upc' # "espera" => lh' = <<>>
  BY DEF Oyendo
<1>4. ASSUME upc = "espera"
      PROVE  /\ Mandos[Emitidos].op = D /\ n > 0 /\ Len(Oido) = Vistos(g)'
             /\ \A x \in 1..Len(Oido) : Oido[x] = (Leido(Mandos[Emitidos].a + x - 1))'
  <2>1. /\ Mandos[Emitidos].op = D /\ n > 0 /\ Len(Oido) = Vistos(g)'
        /\ \A x \in 1..Len(Oido) : Oido[x] = Leido(Mandos[Emitidos].a + x - 1)
    BY <1>4 DEF Oyendo
  <2>2. ASSUME NEW x \in 1..Len(Oido) PROVE Oido[x] = (Leido(Mandos[Emitidos].a + x - 1))'
    <3>1. mem' = mem
      BY <1>4, <2>2
    <3>2. (Leido(Mandos[Emitidos].a + x - 1))' = Leido(Mandos[Emitidos].a + x - 1)
      BY <3>1 DEF Leido
    <3> QED
      BY <2>1, <3>2
  <2> QED
    BY <2>1, <2>2
<1> QED
  BY <1>1, <1>2, <1>3, <1>4 DEF Oyendo
-----------------------------------------------------------------------------
(* The loader's steps *)

LEMMA PasaOrden ==
  ASSUME Tipos, NEW d, NEW i, Caso(d, i), Orden, UNCHANGED sube, fichero' = fichero
  PROVE  \E g, h : Caso(g, h)'
<1>0. /\ lpc = "orden" /\ rx # NADA /\ rx' = NADA /\ UNCHANGED <<p, mem, hl, lh>>
      /\ c' = rx /\ k' = 0 /\ start' = 0 /\ size' = 0
      /\ lpc' = (IF rx \in {U, D, G} THEN "start" ELSE "saluda")
      /\ UNCHANGED <<upc, n, check, startAddress, ist_data, difs>>
  BY DEF Orden, uart_getchar, sube
<1>1. Mandos' = Mandos /\ Emitidos' = Emitidos
  BY <1>0, Quieto
<1>2. Camino # <<>> /\ Head(Camino) = rx /\ Tail(Camino) = Camino'
  BY <1>0, Saca
<1>3. d \in Nat /\ Emitidos \in Nat /\ d <= Emitidos /\ Tabla(Mandos, Emitidos)
  BY CasoTipo
<1>4. EnOrden(d, i) /\ Fila(Camino, Mandos, d, i, Emitidos) /\ Oyendo(d)
  BY <1>0 DEF Caso, Leyendo, EnStart, EnSize, EnSube, EnBaja, EnSalto
<1>5. PICK g \in d + 1..Emitidos : /\ Largo(Mandos[g]) > 0
                                   /\ \A x \in d + 1..g - 1 : Largo(Mandos[x]) = 0
                                   /\ Fila(Camino, Mandos, g, 0, Emitidos)
  BY <1>2, <1>3, <1>4, Pasa DEF EnOrden
<1>6. g \in Nat /\ g > d /\ g # d /\ g - 1 \in Nat /\ d <= g - 1 /\ g \in 0..Emitidos
      /\ \A x \in d + 1..g - 1 : x \in 0..Emitidos
  BY <1>3
<1> DEFINE m == Mandos[g]
<1>7. Correcto(m) /\ m.op \in {U, D, G} /\ m.op # NADA /\ m.a \in Dir
  <2>1. Correcto(m)
    BY <1>3, <1>6 DEF Tabla
  <2>2. m.op # NADA
    BY <1>5, <2>1, LargoTipo
  <2> QED
    BY <2>1, <2>2 DEF Correcto
<1>8. Head(Camino) = Cifra(m, 0 + 1) /\ Fila(Tail(Camino), Mandos, g, 0 + 1, Emitidos)
  BY <1>3, <1>5, Toma
<1>9. rx = m.op
  <2>1. 0 + 1 = 1
    OBVIOUS
  <2> QED
    BY <1>2, <1>8, <2>1 DEF Cifra
<1>10. Cargada(Mandos, mem, g - 1)
  <2>1. \A x \in d + 1..g - 1 : Mandos[x].op # U
    <3> SUFFICES ASSUME NEW x \in d + 1..g - 1 PROVE Mandos[x].op # U
      OBVIOUS
    <3>1. Correcto(Mandos[x]) /\ Largo(Mandos[x]) = 0
      BY <1>3, <1>5, <1>6 DEF Tabla
    <3>2. Mandos[x].op = NADA /\ U # NADA
      BY <3>1, LargoTipo, Letreros
    <3> QED
      BY <3>2
  <2> QED
    BY <1>3, <1>4, <1>6, <2>1, CargaSalta DEF EnOrden
<1>11. EnStart(g, 1)'
  <2>0. ANCHO - 0 = ANCHO /\ 1 = 0 + 1
    BY Tamanos
  <2>1. 0 = m.a \div Potencia[ANCHO - 0] /\ 1 = 0 + 1
    <3>1. m.a \div Potencia[ANCHO] = 0
      BY <1>7, Cifras
    <3> QED
      BY <2>0, <3>1
  <2> QED
    BY <1>0, <1>1, <1>7, <1>9, <1>10, <2>1 DEF EnStart
<1>12. Oyendo(g)'
  <2>1. Vistos(g)' = 0
    <3>1. lpc' = "start"
      BY <1>0, <1>7, <1>9
    <3> QED
      BY <3>1 DEF Vistos
  <2>2. Vistos(d) = 0
    <3>1. d # Emitidos
      BY <1>3, <1>5
    <3> QED
      BY <3>1 DEF Vistos
  <2> QED
    BY <1>0, <1>1, <1>3, <1>4, <1>6, <2>1, <2>2, OyendoSigue
<1>13. Fila(Camino', Mandos', g, 1, Emitidos')
  <2>1. 0 + 1 = 1
    OBVIOUS
  <2>2. Fila(Camino', Mandos, g, 1, Emitidos)
    BY <1>2, <1>8, <2>1, Zenon
  <2> QED
    BY <1>1, <2>2
<1> QED
  BY <1>11, <1>12, <1>13 DEF Caso, Leyendo

\* A digit more of a number.
LEMMA UnaCifra ==
  ASSUME Tipos, NEW a \in Dir, NEW x \in 0..ANCHO - 1, NEW v, v = a \div Potencia[ANCHO - x],
         rx = put_uint32(a)[x + 1]
  PROVE  read_uint32(v) = a \div Potencia[ANCHO - (x + 1)]
<1>1. v * BB + rx = a \div Potencia[ANCHO - (x + 1)]
  BY Cifras
<1>2. a \div Potencia[ANCHO - (x + 1)] \in Dir
  <2>1. x + 1 \in 0..ANCHO
    BY Tamanos
  <2> QED
    BY <2>1, Cifras
<1>3. (a \div Potencia[ANCHO - (x + 1)]) % M = a \div Potencia[ANCHO - (x + 1)]
  BY <1>2, ModPropio DEF Dir
<1> QED
  BY <1>1, <1>3 DEF read_uint32

LEMMA PasaStart ==
  ASSUME Tipos, NEW d, NEW i, Caso(d, i), Start, UNCHANGED sube, fichero' = fichero
  PROVE  \E g, h : Caso(g, h)'
<1> DEFINE m == Mandos[d]
<1>0. /\ lpc = "start" /\ rx # NADA /\ rx' = NADA /\ UNCHANGED <<c, size, p, mem, hl, lh>>
      /\ start' = read_uint32(start)
      /\ UNCHANGED <<upc, n, check, startAddress, ist_data, difs>>
  BY DEF Start, uart_getchar, sube
<1>1. Mandos' = Mandos /\ Emitidos' = Emitidos
  BY <1>0, Quieto
<1>2. Camino # <<>> /\ Head(Camino) = rx /\ Tail(Camino) = Camino'
  BY <1>0, Saca
<1>3. d \in Nat /\ Emitidos \in Nat /\ Tabla(Mandos, Emitidos) /\ Correcto(m)
  BY CasoTipo
<1>4. EnStart(d, i) /\ Fila(Camino, Mandos, d, i, Emitidos) /\ Oyendo(d)
  BY <1>0 DEF Caso, Leyendo, EnOrden, EnSize, EnSube, EnBaja, EnSalto
<1>5. k \in 0..ANCHO - 1 /\ k \in Nat /\ ANCHO \in Nat \ {0} /\ i = k + 1 /\ i + 1 = k + 2
      /\ k + 2 # 1 /\ k + 2 <= 1 + ANCHO /\ (k + 2) - 1 = k + 1 /\ k + 1 \in 1..ANCHO
  <2>1. k \in Nat /\ k < ANCHO /\ ANCHO \in Nat \ {0} /\ i = k + 1
    BY <1>0, <1>4, Tamanos DEF Tipos, EnStart
  <2> QED
    BY <2>1
<1>6. m.op \in {U, D, G} /\ m.a \in Dir /\ m.z \in Dir
  BY <1>3, <1>4 DEF EnStart, Correcto
<1>7. i < Largo(m) /\ (m.op = G => Largo(m) = 1 + ANCHO)
  <2>1. Largo(m) = 1 + ANCHO \/ Largo(m) = 1 + 2 * ANCHO + Len(m.dat)
    BY <1>3, <1>6, LargoTipo
  <2>2. Len(m.dat) \in Nat
    BY <1>3 DEF Correcto
  <2>3. i < Largo(m)
    <3> DEFINE b == Len(m.dat)
               e == Largo(m)
    <3>1. b \in Nat /\ (e = 1 + ANCHO \/ e = 1 + 2 * ANCHO + b)
      BY <2>1, <2>2
    <3> HIDE DEF b, e
    <3>2. i < e
      BY <1>5, <3>1
    <3> QED
      BY <3>2 DEF e
  <2> QED
    BY <1>3, <2>3, LargoTipo
<1>8. rx = Cifra(m, i + 1) /\ Fila(Camino', Mandos', d, i + 1, Emitidos')
  BY <1>1, <1>2, <1>3, <1>4, <1>7, Toma
<1>9. rx = put_uint32(m.a)[k + 1]
  BY <1>5, <1>8 DEF Cifra
<1>10. start' = m.a \div Potencia[ANCHO - (k + 1)]
  BY <1>0, <1>4, <1>5, <1>6, <1>9, UnaCifra DEF EnStart
<1>11. lpc' # "orden" /\ lpc' # "baja" => Oyendo(d)'
  <2> SUFFICES ASSUME lpc' # "orden" /\ lpc' # "baja" PROVE Oyendo(d)'
    OBVIOUS
  <2>1. Vistos(d)' = 0 /\ Vistos(d) = 0
    BY <1>0 DEF Vistos
  <2>2. d >= d
    BY <1>3
  <2> QED
    BY <1>0, <1>1, <1>3, <1>4, <2>1, <2>2, OyendoSigue
<1>12. size = 0 /\ c = m.op /\ Cargada(Mandos', mem', d - 1)
  BY <1>0, <1>1, <1>4 DEF EnStart
<1>13. CASE k + 1 # ANCHO
  <2>1. k' = k + 1 /\ lpc' = "start"
    BY <1>0, <1>13 DEF Start, Ultimo
  <2>2. EnStart(d, i + 1)'
    BY <1>0, <1>1, <1>5, <1>6, <1>10, <1>12, <2>1, Letreros DEF EnStart
  <2> QED
    BY <1>8, <1>11, <2>1, <2>2 DEF Caso, Leyendo
<1>14. CASE k + 1 = ANCHO
  <2>1. k' = 0 /\ lpc' = (IF c = G THEN "saltado" ELSE "size")
    BY <1>14 DEF Start, Ultimo
  <2>2. start' = m.a
    <3>1. ANCHO - (k + 1) = 0
      BY <1>5, <1>14
    <3> QED
      BY <1>6, <1>10, <3>1, Cifras
  <2>3. CASE c = G
    <3>1. i + 1 = Largo(m)
      BY <1>5, <1>7, <1>12, <1>14, <2>3
    <3>2. EnSalto(d, i + 1)'
      BY <1>1, <1>12, <2>1, <2>2, <2>3, <3>1 DEF EnSalto
    <3> QED
      BY <1>8, <1>11, <2>1, <2>3, <3>2 DEF Caso, Leyendo
  <2>4. CASE c # G
    <3>1. i + 1 = 1 + ANCHO + 0 /\ ANCHO - 0 = ANCHO
      BY <1>5, <1>14
    <3>2. 0 = m.z \div Potencia[ANCHO - 0]
      BY <1>6, <3>1, Cifras
    <3>3. EnSize(d, i + 1)'
      BY <1>0, <1>1, <1>6, <1>12, <2>1, <2>2, <2>4, <3>1, <3>2 DEF EnSize
    <3> QED
      BY <1>8, <1>11, <2>1, <2>4, <3>3 DEF Caso, Leyendo
  <2> QED
    BY <2>3, <2>4
<1> QED
  BY <1>13, <1>14
-----------------------------------------------------------------------------
LEMMA PasaSize ==
  ASSUME Tipos, NEW d, NEW i, Caso(d, i), Size, UNCHANGED sube, fichero' = fichero
  PROVE  \E g, h : Caso(g, h)'
<1> DEFINE m == Mandos[d]
<1>0. /\ lpc = "size" /\ rx # NADA /\ rx' = NADA /\ UNCHANGED <<c, start, mem, hl, lh>>
      /\ size' = read_uint32(size)
      /\ UNCHANGED <<upc, n, check, startAddress, ist_data, difs>>
  BY DEF Size, uart_getchar, sube
<1>1. Mandos' = Mandos /\ Emitidos' = Emitidos
  BY <1>0, Quieto
<1>2. Camino # <<>> /\ Head(Camino) = rx /\ Tail(Camino) = Camino'
  BY <1>0, Saca
<1>3. d \in Nat /\ Emitidos \in Nat /\ Tabla(Mandos, Emitidos) /\ Correcto(m)
  BY CasoTipo
<1>4. EnSize(d, i) /\ Fila(Camino, Mandos, d, i, Emitidos) /\ Oyendo(d)
  BY <1>0 DEF Caso, Leyendo, EnOrden, EnStart, EnSube, EnBaja, EnSalto
<1>5. k \in 0..ANCHO - 1 /\ k \in Nat /\ ANCHO \in Nat \ {0} /\ i = 1 + ANCHO + k
      /\ i + 1 = 2 + ANCHO + k /\ i + 1 # 1 /\ ~(i + 1 <= 1 + ANCHO) /\ i + 1 <= 1 + 2 * ANCHO
      /\ (i + 1) - 1 - ANCHO = k + 1 /\ k + 1 \in 1..ANCHO /\ i < 1 + 2 * ANCHO
  <2>1. k \in Nat /\ k < ANCHO /\ ANCHO \in Nat \ {0} /\ i = 1 + ANCHO + k
    BY <1>0, <1>4, Tamanos DEF Tipos, EnSize
  <2> QED
    BY <2>1
<1>6. /\ m.op \in {U, D} /\ m.a \in Dir /\ m.z \in Dir /\ m.a + m.z < M
      /\ (m.op = D => m.z > 0) /\ m.a \in Nat /\ m.z \in Nat /\ M \in Nat
  BY <1>3, <1>4, Tamanos DEF EnSize, Correcto
<1>7. i < Largo(m) /\ Largo(m) = 1 + 2 * ANCHO + Len(m.dat)
  <2>1. Largo(m) = 1 + 2 * ANCHO + Len(m.dat) /\ Len(m.dat) \in Nat
    BY <1>3, <1>6, LargoTipo DEF Correcto
  <2> DEFINE b == Len(m.dat)
             e == Largo(m)
  <2>2. e = 1 + 2 * ANCHO + b /\ b \in Nat
    BY <2>1
  <2> HIDE DEF b, e
  <2>3. i < e
    BY <1>5, <2>2
  <2> QED
    BY <2>1, <2>3 DEF e
<1>8. rx = Cifra(m, i + 1) /\ Fila(Camino', Mandos', d, i + 1, Emitidos')
  BY <1>1, <1>2, <1>3, <1>4, <1>7, Toma
<1>9. rx = put_uint32(m.z)[k + 1]
  <2>1. Cifra(m, i + 1) = put_uint32(m.z)[(i + 1) - 1 - ANCHO]
    BY <1>5 DEF Cifra
  <2> QED
    BY <1>5, <1>8, <2>1
<1>10. size' = m.z \div Potencia[ANCHO - (k + 1)]
  BY <1>0, <1>4, <1>5, <1>6, <1>9, UnaCifra DEF EnSize
<1>11. c = m.op /\ start' = m.a /\ start = m.a /\ Cargada(Mandos', mem', d - 1)
  BY <1>0, <1>1, <1>4 DEF EnSize
<1>12. d >= d
  BY <1>3
<1>13. CASE k + 1 # ANCHO
  <2>1. k' = k + 1 /\ lpc' = "size"
    BY <1>0, <1>13 DEF Size, Ultimo
  <2>2. i + 1 = 1 + ANCHO + (k + 1)
    BY <1>5
  <2>3. EnSize(d, i + 1)'
    BY <1>0, <1>1, <1>6, <1>10, <1>11, <2>1, <2>2 DEF EnSize
  <2>4. Vistos(d)' = 0 /\ Vistos(d) = 0
    BY <1>0, <2>1 DEF Vistos
  <2>5. Oyendo(d)'
    BY <1>0, <1>1, <1>3, <1>4, <1>12, <2>4, OyendoSigue
  <2> QED
    BY <1>8, <2>3, <2>5 DEF Caso, Leyendo
<1>14. CASE k + 1 = ANCHO
  <2>1. k' = 0 /\ Entra(start, size')
    BY <1>14 DEF Size, Ultimo
  <2>2. size' = m.z
    <3>1. ANCHO - (k + 1) = 0
      BY <1>5, <1>14
    <3> QED
      BY <1>6, <1>10, <3>1, Cifras
  <2>3. CASE m.z # 0
    <3>1. Quedan(m.a, m.a, m.z)
      <4>1. m.a + m.z \in 0..M - 1 /\ m.a < m.a + m.z
        BY <1>6, <2>3
      <4>2. (m.a + m.z) % M = m.a + m.z
        BY <4>1, ModPropio
      <4> QED
        BY <4>1, <4>2 DEF Quedan
    <3>2. p' = m.a /\ lpc' = IF c = U THEN "sube" ELSE "baja"
      BY <1>11, <2>1, <2>2, <3>1 DEF Entra
    <3>3. Dentro(d)'
      <4>1. m.a \in m.a..m.a + m.z - 1
        BY <1>6, <2>3
      <4> QED
        BY <1>1, <1>11, <2>2, <3>2, <4>1 DEF Dentro
    <3>4. m.a - m.a = 0 /\ i + 1 = 1 + 2 * ANCHO + 0
      BY <1>5, <1>6, <1>14
    <3>5. Oyendo(d)'
      <4>1. Vistos(d)' = 0 /\ Vistos(d) = 0
        <5>1. p' - start' = 0
          BY <1>11, <3>2, <3>4
        <5> QED
          BY <1>0, <3>2, <5>1 DEF Vistos
      <4> QED
        BY <1>0, <1>1, <1>3, <1>4, <1>12, <4>1, OyendoSigue
    <3>6. CASE m.op = U
      <4>1. Cargandose(Mandos', mem', d, 0)
        BY <1>1, <1>3, <1>11, CargaEmpieza
      <4>2. lpc' = "sube" /\ i + 1 = 1 + 2 * ANCHO + (p' - m.a) /\ p' - m.a = 0
        BY <1>11, <3>2, <3>4, <3>6
      <4>3. EnSube(d, i + 1)'
        BY <1>1, <3>3, <3>6, <4>1, <4>2 DEF EnSube
      <4> QED
        BY <1>8, <3>5, <4>3 DEF Caso, Leyendo
    <3>7. CASE m.op # U
      <4>1. m.op = D /\ U # D
        BY <1>6, <3>7
      <4>2. Len(m.dat) = 0
        <5>1. m.dat = <<>>
          BY <1>3, <3>7 DEF Correcto
        <5> QED
          BY <5>1, EmptySeq
      <4>3. lpc' = "baja" /\ i + 1 = Largo(m)
        BY <1>7, <1>11, <3>2, <3>4, <4>1, <4>2
      <4>4. EnBaja(d, i + 1)'
        BY <1>1, <1>11, <3>3, <4>1, <4>3 DEF EnBaja
      <4> QED
        BY <1>8, <3>5, <4>4 DEF Caso, Leyendo
    <3> QED
      BY <3>6, <3>7
  <2>4. CASE m.z = 0
    <3>1. ~Quedan(m.a, m.a, m.z)
      <4>1. m.a + m.z = m.a /\ m.a \in 0..M - 1 /\ ~(m.a < m.a)
        BY <1>6, <2>4
      <4>2. (m.a + m.z) % M = m.a
        BY <4>1, ModPropio
      <4> QED
        BY <4>1, <4>2 DEF Quedan
    <3>2. lpc' = "orden"
      BY <1>11, <2>1, <2>2, <3>1 DEF Entra
    <3>3. m.op = U /\ Len(m.dat) = 0 /\ ~(m.z > 0)
      <4>1. ~(m.z > 0)
        BY <2>4
      <4>2. m.op = U
        BY <1>6, <4>1
      <4> QED
        BY <1>3, <2>4, <4>1, <4>2 DEF Correcto
    <3>4. i + 1 = Largo(m)
      BY <1>5, <1>7, <1>14, <3>3
    <3>5. Cargada(Mandos', mem', d)
      <4>1. Cargandose(Mandos', mem', d, 0)
        BY <1>1, <1>3, <1>11, CargaEmpieza
      <4>2. Cargandose(Mandos', mem', d, Mandos'[d].z)
        BY <1>1, <2>4, <4>1
      <4> QED
        BY <1>1, <1>3, <3>3, <4>2, CargaAcaba
    <3>6. EnOrden(d, i + 1)'
      BY <1>1, <3>2, <3>4, <3>5 DEF EnOrden
    <3>7. Oyendo(d)'
      <4>1. Vistos(d)' = 0 /\ Vistos(d) = 0
        BY <1>0, <1>1, <2>4, <3>2 DEF Vistos
      <4> QED
        BY <1>0, <1>1, <1>3, <1>4, <1>12, <4>1, OyendoSigue
    <3> QED
      BY <1>8, <3>6, <3>7 DEF Caso, Leyendo
  <2> QED
    BY <2>3, <2>4
<1> QED
  BY <1>13, <1>14

\* The address and the loop behind a byte stored or sent.
LEMMA PasaDentro ==
  ASSUME Tipos, NEW d, Correcto(Mandos[d]), Mandos[d].op \in {U, D}, Dentro(d), Siguiente,
         Mandos' = Mandos
  PROVE  /\ p' = p + 1 /\ p \in Nat /\ Mandos[d].a \in Nat /\ Mandos[d].z \in Nat
         /\ p - Mandos[d].a \in Nat /\ p - Mandos[d].a < Mandos[d].z
         /\ p' - Mandos[d].a = p - Mandos[d].a + 1
         /\ UNCHANGED <<c, k, start, size, hl>>
         /\ \/ lpc' = lpc /\ Dentro(d)'
            \/ lpc' = "orden" /\ p' - Mandos[d].a = Mandos[d].z
<1> DEFINE a == Mandos[d].a
           z == Mandos[d].z
<1>1. /\ a \in Nat /\ z \in Nat /\ a + z < M /\ M \in Nat /\ p \in Nat
      /\ p \in a..a + z - 1 /\ start = a /\ size = z
  BY Tamanos DEF Correcto, Dentro, Tipos
<1>2. UNCHANGED <<c, k, start, size, hl>> /\ p' = (p + 1) % M
      /\ lpc' = IF p' < (a + z) % M THEN lpc ELSE "orden"
  BY <1>1 DEF Siguiente, Quedan
<1>3. Dentro(d)' <=> p' \in a..a + z - 1
  BY <1>1, <1>2 DEF Dentro
<1> HIDE DEF a, z
<1>4. p + 1 \in 0..M - 1 /\ a + z \in 0..M - 1
  BY <1>1
<1>5. p' = p + 1 /\ (a + z) % M = a + z
  BY <1>2, <1>4, ModPropio
<1>6. p - a \in Nat /\ p - a < z /\ p' - a = p - a + 1
  BY <1>1, <1>5
<1>7. CASE p' < a + z
  <2>1. lpc' = lpc /\ p' \in a..a + z - 1
    BY <1>1, <1>2, <1>5, <1>7
  <2> QED
    BY <1>1, <1>2, <1>3, <1>5, <1>6, <2>1 DEF a, z
<1>8. CASE ~(p' < a + z)
  <2>1. lpc' = "orden" /\ p' - a = z
    BY <1>1, <1>2, <1>5, <1>8
  <2> QED
    BY <1>1, <1>2, <1>5, <1>6, <2>1 DEF a, z
<1> QED
  BY <1>7, <1>8
-----------------------------------------------------------------------------
LEMMA PasaSube ==
  ASSUME Tipos, NEW d, NEW i, Caso(d, i), Sube, UNCHANGED sube, fichero' = fichero
  PROVE  \E g, h : Caso(g, h)'
<1> DEFINE m == Mandos[d]
           w == p - m.a
<1>0. /\ lpc = "sube" /\ rx # NADA /\ rx' = NADA /\ hl' = hl /\ lh' = lh /\ Siguiente
      /\ mem' = [a \in RAM |-> IF a = p THEN rx ELSE mem[a]]
      /\ UNCHANGED <<upc, n, check, startAddress, ist_data, difs>>
  BY DEF Sube, Siguiente, uart_getchar, sube
<1>1. Mandos' = Mandos /\ Emitidos' = Emitidos
  BY <1>0, Quieto
<1>2. Camino # <<>> /\ Head(Camino) = rx /\ Tail(Camino) = Camino'
  BY <1>0, Saca
<1>3. d \in Nat /\ Emitidos \in Nat /\ Tabla(Mandos, Emitidos) /\ Correcto(m)
      /\ d \in d..Emitidos
  BY CasoTipo
<1>4. EnSube(d, i) /\ Fila(Camino, Mandos, d, i, Emitidos) /\ Oyendo(d)
  BY <1>0 DEF Caso, Leyendo, EnOrden, EnStart, EnSize, EnBaja, EnSalto
<1>5. m.op = U /\ Dentro(d) /\ i = 1 + 2 * ANCHO + w /\ Cargandose(Mandos, mem, d, w)
      /\ U # D
  BY <1>4, Letreros DEF EnSube
<1>6. /\ p' = p + 1 /\ p \in Nat /\ m.a \in Nat /\ m.z \in Nat
      /\ w \in Nat /\ w < m.z /\ p' - m.a = w + 1
      /\ \/ lpc' = lpc /\ Dentro(d)'
         \/ lpc' = "orden" /\ p' - m.a = m.z
  BY <1>0, <1>1, <1>3, <1>5, PasaDentro
<1>7. Largo(m) = 1 + 2 * ANCHO + m.z
  BY <1>3, <1>5, LargoTipo DEF Correcto
<1>8. p = m.a + w
  BY <1>6
<1>9. Mandos'[d] = m
  BY <1>1
<1> HIDE DEF w
<1>10. ANCHO \in Nat
  BY Tamanos
<1>11. /\ i < Largo(m) /\ i + 1 # 1 /\ ~(i + 1 <= 1 + ANCHO) /\ ~(i + 1 <= 1 + 2 * ANCHO)
       /\ i + 1 - 1 - 2 * ANCHO = w + 1 /\ i + 1 = 1 + 2 * ANCHO + (w + 1)
  <2> DEFINE e == Largo(m)
             z == m.z
  <2>1. e = 1 + 2 * ANCHO + z /\ z \in Nat /\ w < z
    BY <1>6, <1>7
  <2> HIDE DEF e, z
  <2>2. i < e
    BY <1>5, <1>6, <1>10, <2>1
  <2>3. i + 1 # 1 /\ ~(i + 1 <= 1 + ANCHO) /\ ~(i + 1 <= 1 + 2 * ANCHO)
        /\ i + 1 - 1 - 2 * ANCHO = w + 1 /\ i + 1 = 1 + 2 * ANCHO + (w + 1)
    BY <1>5, <1>6, <1>10
  <2> QED
    BY <2>2, <2>3 DEF e
<1>12. rx = Cifra(m, i + 1) /\ Fila(Camino', Mandos', d, i + 1, Emitidos')
  BY <1>1, <1>2, <1>3, <1>4, <1>11, Toma
<1>13. rx = m.dat[w + 1]
  <2> DEFINE y == i + 1
  <2>0. y # 1 /\ ~(y <= 1 + ANCHO) /\ ~(y <= 1 + 2 * ANCHO) /\ y - 1 - 2 * ANCHO = w + 1
    BY <1>5, <1>6, <1>10, <1>11
  <2> HIDE DEF y
  <2>1. Cifra(m, y) = m.dat[w + 1]
    BY <2>0, Zenon DEF Cifra
  <2> QED
    BY <1>12, <2>1 DEF y
<1>14. Cargandose(Mandos, mem', d, w + 1)
  <2>1. mem' = [a \in RAM |-> IF a = m.a + w THEN m.dat[w + 1] ELSE mem[a]]
    BY <1>0, <1>8, <1>13
  <2> QED
    BY <1>3, <1>5, <1>6, <2>1, CargaUno
<1>15. Oyendo(d)'
  <2>1. upc = "espera" => d # Emitidos
    BY <1>4, <1>5 DEF Oyendo
  <2>2. upc = "espera" => Vistos(d) = 0 /\ Vistos(d)' = 0 /\ Len(Oido) = 0
    <3>1. upc = "espera" => Vistos(d) = 0 /\ Vistos(d)' = 0
      BY <1>1, <2>1 DEF Vistos
    <3> QED
      BY <1>4, <3>1 DEF Oyendo
  <2>3. d >= d /\ ~(upc = "espera" /\ Len(Oido) > 0)
    BY <1>3, <2>2
  <2>4. lpc # "orden"
    BY <1>0
  <2> QED
    BY <1>0, <1>1, <1>3, <1>4, <2>2, <2>3, <2>4, OyendoSigue
<1>16. CASE lpc' = lpc /\ Dentro(d)'
  <2>1. i + 1 = 1 + 2 * ANCHO + (p' - m.a) /\ Cargandose(Mandos', mem', d, p' - m.a)
    BY <1>1, <1>6, <1>11, <1>14
  <2>2. EnSube(d, i + 1)'
    BY <1>0, <1>1, <1>5, <1>16, <2>1 DEF EnSube
  <2> QED
    BY <1>12, <1>15, <2>2 DEF Caso, Leyendo
<1>17. CASE lpc' = "orden" /\ p' - m.a = m.z
  <2>1. w + 1 = m.z
    BY <1>6, <1>17
  <2>2. Cargada(Mandos', mem', d)
    BY <1>1, <1>3, <1>5, <1>14, <2>1, CargaAcaba
  <2>3. i + 1 = Largo(m)
    BY <1>7, <1>11, <2>1
  <2>4. EnOrden(d, i + 1)'
    BY <1>1, <1>17, <2>2, <2>3 DEF EnOrden
  <2> QED
    BY <1>12, <1>15, <2>4 DEF Caso, Leyendo
<1> QED
  BY <1>6, <1>16, <1>17

\* While it sends, there is nothing on the way to it: the uploader waits.
LEMMA NadaAlBajar ==
  ASSUME Tipos, NEW d, NEW i, Caso(d, i), lpc = "baja"
  PROVE  /\ EnBaja(d, i) /\ d = Emitidos /\ upc = "espera" /\ rx = NADA
<1>1. EnBaja(d, i) /\ Fila(Camino, Mandos, d, i, Emitidos) /\ Oyendo(d)
  BY DEF Caso, Leyendo, EnOrden, EnStart, EnSize, EnSube, EnSalto
<1>2. d \in d..Emitidos
  BY CasoTipo
<1>3. upc = "espera" /\ d = Emitidos
  BY <1>1, <1>2 DEF EnBaja, Oyendo
<1>4. Camino = <<>>
  BY <1>1, <1>3, FilaFin DEF EnBaja
<1>5. rx = NADA
  <2>1. ASSUME rx # NADA PROVE FALSE
    <3>1. <<rx>> \in Seq(Byte) /\ hl \in Seq(Byte) /\ Camino = <<rx>> \o hl
      BY <2>1 DEF Tipos, Camino
    <3>2. Len(Camino) = Len(<<rx>>) + Len(hl) /\ Len(<<rx>>) = 1 /\ Len(hl) \in Nat
      BY <3>1, Junta
    <3>3. Len(Camino) = 0
      BY <1>4, EmptySeq
    <3> QED
      BY <3>2, <3>3
  <2> QED
    BY <2>1
<1> QED
  BY <1>1, <1>3, <1>5

LEMMA PasaBaja ==
  ASSUME Tipos, NEW d, NEW i, Caso(d, i), Baja, UNCHANGED sube, fichero' = fichero
  PROVE  \E g, h : Caso(g, h)'
<1> DEFINE m == Mandos[d]
           w == p - m.a
           b == Leido(p)
<1>0. /\ lpc = "baja" /\ lh' = Append(lh, b) /\ UNCHANGED <<mem, rx>> /\ Siguiente
      /\ UNCHANGED <<upc, n, check, startAddress, ist_data, difs>>
  BY DEF Baja, uart_putchar, sube
<1>1. Mandos' = Mandos /\ Emitidos' = Emitidos
  BY <1>0, Quieto
<1>2. EnBaja(d, i) /\ d = Emitidos /\ upc = "espera"
  BY <1>0, NadaAlBajar
<1>3. d \in Nat /\ Emitidos \in Nat /\ Correcto(m) /\ Fila(Camino, Mandos, d, i, Emitidos)
      /\ Oyendo(d)
  BY CasoTipo DEF Caso
<1>5. m.op = D /\ Dentro(d) /\ i = Largo(m) /\ Cargada(Mandos, mem, d - 1) /\ start = m.a
  BY <1>2 DEF EnBaja, Dentro
<1>6. /\ p' = p + 1 /\ p \in Nat /\ m.a \in Nat /\ m.z \in Nat
      /\ w \in Nat /\ w < m.z /\ p' - m.a = w + 1
      /\ UNCHANGED <<c, k, start, size, hl>>
      /\ \/ lpc' = lpc /\ Dentro(d)'
         \/ lpc' = "orden" /\ p' - m.a = m.z
  BY <1>0, <1>1, <1>3, <1>5, PasaDentro
<1>7. Fila(Camino', Mandos', d, i, Emitidos')
  BY <1>0, <1>1, <1>3, <1>6 DEF Camino
<1>8. Leyendo(d, i)'
  <2>1. CASE lpc' = lpc /\ Dentro(d)'
    BY <1>0, <1>1, <1>5, <2>1 DEF Leyendo, EnBaja
  <2>2. CASE lpc' = "orden"
    <3>1. Cargada(Mandos, mem, d)
      <4>1. \A x \in (d - 1) + 1..d : Mandos[x].op # U
        <5>1. \A x \in (d - 1) + 1..d : x = d
          BY <1>3
        <5> QED
          BY <1>5, <5>1, Letreros
      <4>2. CASE d > 0
        <5>1. d - 1 \in Nat /\ d - 1 <= d /\ d \in Int
          BY <1>3, <4>2
        <5> QED
          BY <1>5, <4>1, <5>1, CargaSalta
      <4>3. CASE d = 0
        <5>1. ASSUME NEW a \in RAM PROVE Vale(Mandos, a, mem[a], d)
          <6>1. 0..d - 1 = {} /\ \A x \in 0..d : x = d
            BY <4>3
          <6>2. ~Toca(m, a)
            BY <1>5, Letreros DEF Toca
          <6>3. mem[a] = 0
            BY <1>5, <6>1 DEF Cargada, Vale
          <6>4. \A x \in 0..d : ~Toca(Mandos[x], a)
            BY <6>1, <6>2
          <6> QED
            BY <6>3, <6>4 DEF Vale
        <5> QED
          BY <5>1 DEF Cargada
      <4> QED
        BY <1>3, <4>2, <4>3
    <3> QED
      BY <1>0, <1>1, <1>5, <2>2, <3>1 DEF Leyendo, EnOrden
  <2> QED
    BY <1>6, <2>1, <2>2
<1>9. /\ Len(Oido) = w /\ Oido \in Seq(Byte) /\ Oido' = Append(Oido, b)
      /\ \A x \in 1..Len(Oido) : Oido[x] = Leido(m.a + x - 1)
  <2>1. Vistos(d) = w
    BY <1>0, <1>2, <1>5 DEF Vistos
  <2>2. lh \in Seq(Byte) /\ ist_data \in Seq(Byte)
    BY DEF Tipos
  <2>3. Oido \in Seq(Byte)
    BY <2>2, ConcatProperties DEF Oido
  <2>4. b \in Byte
    BY Tamanos DEF Leido, Tipos
  <2>5. Oido' = Append(Oido, b)
    <3> HIDE DEF b
    <3>1. ist_data \o Append(lh, b) = Append(ist_data \o lh, b)
      BY <2>2, <2>4
    <3> QED
      BY <1>0, <3>1 DEF Oido
  <2> QED
    BY <1>2, <1>3, <2>1, <2>3, <2>5 DEF Oyendo
<1>10. /\ Len(Oido') = w + 1
       /\ \A x \in 1..w + 1 : Oido'[x] = Leido(m.a + x - 1)
  <2>0. b \in Byte
    BY Tamanos DEF Leido, Tipos
  <2>1. Len(Append(Oido, b)) = w + 1 /\ Append(Oido, b)[w + 1] = b
        /\ \A x \in 1..w : Append(Oido, b)[x] = Oido[x]
    <3> DEFINE o == Oido
    <3>1. o \in Seq(Byte) /\ Len(o) = w
      BY <1>9
    <3> HIDE DEF o, b, w
    <3>2. Len(Append(o, b)) = w + 1 /\ Append(o, b)[w + 1] = b
          /\ \A x \in 1..w : Append(o, b)[x] = o[x]
      BY <1>6, <2>0, <3>1, AppendProperties
    <3> QED
      BY <3>2 DEF o
  <2>2. m.a + (w + 1) - 1 = p
    BY <1>6
  <2>3. \A x \in 1..w + 1 : x \in 1..w \/ x = w + 1
    BY <1>6
  <2> HIDE DEF w
  <2>4. \A x \in 1..w + 1 : Append(Oido, b)[x] = Leido(m.a + x - 1)
    BY <1>9, <2>1, <2>2, <2>3 DEF b
  <2> QED
    BY <1>9, <2>1, <2>4
<1>11. Vistos(d)' = w + 1
  <2>1. CASE lpc' = lpc
    BY <1>0, <1>1, <1>2, <1>5, <1>6, <2>1 DEF Vistos
  <2>2. CASE lpc' = "orden" /\ p' - m.a = m.z
    BY <1>1, <1>2, <1>6, <2>2 DEF Vistos
  <2> QED
    BY <1>6, <2>1, <2>2
<1>12. Oyendo(d)'
  <2>1. \A x : (Leido(m.a + x - 1))' = Leido(m.a + x - 1)
    BY <1>0, <1>1 DEF Leido
  <2>2. /\ Mandos'[Emitidos'].op = D /\ n' > 0 /\ Len(Oido') = Vistos(d)'
        /\ \A x \in 1..Len(Oido') : Oido'[x] = (Leido(Mandos[Emitidos].a + x - 1))'
    BY <1>0, <1>1, <1>2, <1>3, <1>5, <1>10, <1>11, <2>1 DEF Oyendo
  <2>3. \A j \in d..Emitidos : j = Emitidos
    BY <1>2, <1>3
  <2> QED
    BY <1>0, <1>1, <1>2, <2>2, <2>3 DEF Oyendo
<1> QED
  BY <1>7, <1>8, <1>12 DEF Caso
-----------------------------------------------------------------------------
(* The uploader's steps *)

LEMMA ValeIgual ==
  ASSUME NEW md, NEW ms, NEW h \in Int, \A j \in 0..h : ms[j] = md[j], NEW a, NEW v
  PROVE  Vale(md, a, v, h) => Vale(ms, a, v, h)
<1> SUFFICES ASSUME Vale(md, a, v, h) PROVE Vale(ms, a, v, h)
  OBVIOUS
<1>2. \A j \in 0..h : \A x \in j + 1..h : x \in 0..h
  OBVIOUS
<1>3. CASE v = 0 /\ \A x \in 0..h : ~Toca(md[x], a)
  BY <1>3 DEF Vale
<1>4. CASE \E j \in 0..h : /\ Toca(md[j], a) /\ v = md[j].dat[a - md[j].a + 1]
                           /\ \A x \in j + 1..h : ~Toca(md[x], a)
  <2>1. PICK j \in 0..h : /\ Toca(md[j], a) /\ v = md[j].dat[a - md[j].a + 1]
                          /\ \A x \in j + 1..h : ~Toca(md[x], a)
    BY <1>4
  <2>2. ms[j] = md[j] /\ \A x \in j + 1..h : ms[x] = md[x]
    BY <1>2
  <2>3. \A x \in j + 1..h : ~Toca(ms[x], a)
    BY <2>1, <2>2
  <2> QED
    BY <2>1, <2>2, <2>3 DEF Vale
<1> QED
  BY <1>3, <1>4 DEF Vale

LEMMA LeyendoIgual ==
  ASSUME NEW d \in Nat, NEW i, Leyendo(d, i), UNCHANGED <<boot, mem>>,
         \A j \in 0..d : Mandos'[j] = Mandos[j]
  PROVE  Leyendo(d, i)'
<1>1. Mandos'[d] = Mandos[d] /\ \A j \in 0..d - 1 : Mandos'[j] = Mandos[j]
  OBVIOUS
<1>2. UNCHANGED <<lpc, c, k, start, size, p, mem>>
  BY DEF boot
<1>3. Cargada(Mandos, mem, d) => Cargada(Mandos', mem, d)
  BY ValeIgual DEF Cargada
<1>4. Cargada(Mandos, mem, d - 1) => Cargada(Mandos', mem, d - 1)
  <2>1. d - 1 \in Int
    OBVIOUS
  <2> QED
    BY <1>1, <2>1, ValeIgual DEF Cargada
<1>5. \A w : Cargandose(Mandos, mem, d, w) => Cargandose(Mandos', mem, d, w)
  <2>1. d - 1 \in Int
    OBVIOUS
  <2>2. \A a, v : Vale(Mandos, a, v, d - 1) => Vale(Mandos', a, v, d - 1)
    BY <1>1, <2>1, ValeIgual
  <2> QED
    BY <1>1, <2>2 DEF Cargandose
<1>6. Dentro(d)' <=> Dentro(d)
  BY <1>1, <1>2 DEF Dentro
<1>7. CASE EnOrden(d, i)
  BY <1>1, <1>2, <1>3, <1>7 DEF Leyendo, EnOrden
<1>8. CASE EnStart(d, i)
  BY <1>1, <1>2, <1>4, <1>8 DEF Leyendo, EnStart
<1>9. CASE EnSize(d, i)
  BY <1>1, <1>2, <1>4, <1>9 DEF Leyendo, EnSize
<1>10. CASE EnSube(d, i)
  BY <1>1, <1>2, <1>5, <1>6, <1>10 DEF Leyendo, EnSube
<1>11. CASE EnBaja(d, i)
  BY <1>1, <1>2, <1>4, <1>6, <1>11 DEF Leyendo, EnBaja
<1>12. CASE EnSalto(d, i)
  BY <1>1, <1>2, <1>4, <1>12 DEF Leyendo, EnSalto
<1> QED
  BY <1>7, <1>8, <1>9, <1>10, <1>11, <1>12 DEF Leyendo

LEMMA CaminoTipo ==
  ASSUME Tipos
  PROVE  Camino \in Seq(Byte)
<1>1. hl \in Seq(Byte) /\ <<>> \in Seq(Byte)
  BY EmptySeq DEF Tipos
<1>2. rx # NADA => <<rx>> \in Seq(Byte)
  BY DEF Tipos
<1> QED
  BY <1>1, <1>2, ConcatProperties DEF Camino

LEMMA CaminoCrece ==
  ASSUME Tipos, NEW s \in Seq(Byte), hl' = hl \o s, rx' = rx
  PROVE  Camino' = Camino \o s
<1> DEFINE r == IF rx = NADA THEN <<>> ELSE <<rx>>
<1>1. hl \in Seq(Byte) /\ r \in Seq(Byte)
  <2>1. rx # NADA => <<rx>> \in Seq(Byte)
    BY DEF Tipos
  <2> QED
    BY <2>1, EmptySeq DEF Tipos
<1>2. Camino = r \o hl /\ Camino' = r \o (hl \o s)
  BY DEF Camino
<1> HIDE DEF r
<1>3. r \o (hl \o s) = (r \o hl) \o s
  BY <1>1, ConcatAssociative
<1> QED
  BY <1>2, <1>3

LEMMA CaminoQuieto ==
  ASSUME Tipos, hl' = hl, rx' = rx
  PROVE  Camino' = Camino /\ Camino' = Camino \o <<>>
<1>1. Camino' = Camino
  BY DEF Camino
<1>2. Camino \o <<>> = Camino
  BY CaminoTipo, ConcatEmptySeq
<1> QED
  BY <1>1, <1>2

\* The uploader sends the bytes of one more command, behind some without any.
LEMMA UnMandoMas ==
  ASSUME Tipos, NEW d, NEW i, Caso(d, i), UNCHANGED <<boot, mem>>,
         Emitidos' \in Nat, Emitidos' > Emitidos,
         \A j \in 0..Emitidos : Mandos'[j] = Mandos[j],
         \A j \in Emitidos + 1..Emitidos' - 1 : Mandos'[j] = Ninguno,
         NEW s, SonDe(s, Mandos'[Emitidos']), Camino' = Camino \o s,
         upc # "espera", lh' = lh,
         Mandos'[Emitidos'].op = D => upc' = "espera",
         upc' = "espera" => /\ Mandos'[Emitidos'].op = D
                            /\ n' > 0 /\ ist_data' = <<>>
  PROVE  Caso(d, i)'
<1>1. d \in Nat /\ Emitidos \in Nat /\ d <= Emitidos /\ Tabla(Mandos, Emitidos)
  BY CasoTipo
<1>2. Fila(Camino, Mandos, d, i, Emitidos) /\ Leyendo(d, i) /\ Oyendo(d)
  BY DEF Caso
<1>3. Fila(Camino', Mandos', d, i, Emitidos')
  <2>1. Fila(Camino, Mandos', d, i, Emitidos)
    BY <1>2, OtraTabla
  <2>2. Tabla(Mandos', Emitidos)
    BY <1>1 DEF Tabla
  <2>3. Largo(Ninguno) = 0
    BY Letreros DEF Ninguno, Mandato, Largo
  <2>4. \A j \in Emitidos + 1..Emitidos' - 1 : Largo(Mandos'[j]) = 0
    BY <2>3
  <2>5. Fila(Camino \o s, Mandos', d, i, Emitidos')
    BY <2>1, <2>2, <2>4, Anade
  <2> QED
    BY <2>5
<1>4. Leyendo(d, i)'
  <2>1. \A j \in 0..d : Mandos'[j] = Mandos[j]
    BY <1>1
  <2> QED
    BY <1>1, <1>2, <2>1, LeyendoIgual
<1>5. lh' = <<>> /\ lpc' = lpc
  BY <1>2 DEF Oyendo, boot
<1>6. ASSUME NEW j \in d..Emitidos', Mandos'[j].op = D
      PROVE  (j = d /\ lpc' = "orden") \/ (upc' = "espera" /\ j = Emitidos')
  <2>1. CASE j <= Emitidos
    <3>1. j \in d..Emitidos /\ j \in 0..Emitidos
      BY <1>1, <2>1
    <3>2. Mandos[j].op = D
      BY <1>6, <3>1
    <3> QED
      BY <1>2, <1>5, <3>1, <3>2 DEF Oyendo
  <2>2. CASE j \in Emitidos + 1..Emitidos' - 1
    <3>0. Ninguno.op = NADA /\ D # NADA
      BY Letreros DEF Ninguno, Mandato
    <3>1. Mandos'[j].op = NADA /\ D # NADA
      BY <2>2, <3>0, Zenon
    <3> QED
      BY <1>6, <3>1
  <2>3. CASE j = Emitidos'
    BY <1>6, <2>3
  <2>0. \A x, y, z \in Nat : \A t \in x..z : t <= y \/ t \in y + 1..z - 1 \/ t = z
    OBVIOUS
  <2>4. j <= Emitidos \/ j \in Emitidos + 1..Emitidos' - 1 \/ j = Emitidos'
    BY <1>1, <2>0
  <2> QED
    BY <2>1, <2>2, <2>3, <2>4
<1>7. ASSUME upc' = "espera"
      PROVE  /\ Mandos'[Emitidos'].op = D /\ n' > 0 /\ Len(Oido') = Vistos(d)'
             /\ \A x \in 1..Len(Oido') : Oido'[x] = (Leido(Mandos[Emitidos].a + x - 1))'
  <2>1. Len(Oido') = 0
    <3>1. Oido' = <<>> \o <<>>
      BY <1>5, <1>7 DEF Oido
    <3>2. <<>> \o <<>> = <<>>
      BY EmptySeq, ConcatEmptySeq
    <3> QED
      BY <3>1, <3>2, EmptySeq
  <2>2. Vistos(d)' = 0
    <3>1. d # Emitidos'
      BY <1>1
    <3> QED
      BY <3>1 DEF Vistos
  <2>3. 1..Len(Oido') = {}
    BY <2>1
  <2> QED
    BY <1>7, <2>1, <2>2, <2>3
<1>8. Oyendo(d)'
  BY <1>5, <1>6, <1>7 DEF Oyendo
<1> QED
  BY <1>3, <1>4, <1>8 DEF Caso
-----------------------------------------------------------------------------
Activa == upc \notin {"busca", "escucha", "limpia", "error"}
Fases == /\ upc = "fin" => ~check /\ n = Len(fichero)
         /\ upc \in {"comprueba", "espera"} => check
Sigue == Activa' /\ Fases' /\ \E g, h : Caso(g, h)'

\* The commands before the jump do not depend on its address.
LEMMA MandosMenores ==
  ASSUME fichero \in Ficheros, fichero' = fichero, check' = check
  PROVE  \A j \in 0..2 * Cuantos + 1 : Mandos'[j] = Mandos[j]
<1>1. Cuantos \in Nat /\ Cuantos' = Cuantos
  BY LineasCortas DEF Cuantos
<1>2. ASSUME NEW j \in 0..2 * Cuantos + 1 PROVE Mandos'[j] = Mandos[j]
  <2>1. j \in Nat /\ j # 2 * Cuantos + 2
    BY <1>1
  <2>2. Mandos[j] = Mando(j) /\ Mandos'[j] = Mando(j)'
    BY <2>1 DEF Mandos
  <2>3. \A l : DeLinea(l)' = DeLinea(l) /\ DeControl(l)' = DeControl(l)
    BY DEF DeLinea, DeControl
  <2>4. DeLimpieza' = DeLimpieza /\ Ninguno' = Ninguno
    BY DEF DeLimpieza, Ninguno
  <2>5. Mando(j)' = Mando(j)
    BY <1>1, <2>1, <2>3, <2>4 DEF Mando
  <2> QED
    BY <2>2, <2>5
<1> QED
  BY <1>2

LEMMA PasaLineas ==
  ASSUME Tipos, Fases, NEW d, NEW i, Caso(d, i), Lineas, UNCHANGED <<boot, mem, rx, fichero>>
  PROVE  Sigue
<1> DEFINE x == n + 1
           l == fichero[x]
           s == IF S3(l) THEN <<U>> \o put_uint32(l.dir) \o put_uint32(Len(SubSeq(l.dat, 1, Bytes(l))))
                              \o SubSeq(l.dat, 1, Bytes(l)) ELSE <<>>
<1>0. /\ upc = "lineas" /\ n < Len(fichero) /\ n' = n + 1 /\ UNCHANGED <<upc, check, ist_data>>
      /\ IF S3(l) THEN upload(l.dir, SubSeq(l.dat, 1, Bytes(l))) ELSE UNCHANGED <<hl, lh>>
  BY DEF Lineas, S3
<1>1. /\ fichero \in Ficheros /\ Cuantos \in Nat /\ Cuantos = Len(fichero)
      /\ DOMAIN fichero = 1..Cuantos /\ n \in Nat
  BY LineasCortas DEF Tipos, Cuantos
<1>2. x \in 1..Cuantos /\ x \in DOMAIN fichero
  BY <1>0, <1>1
<1>3. Emitidos = n + 1 /\ Emitidos' = n + 2
  BY <1>0, <1>1 DEF Emitidos
<1>4. \A j \in 0..2 * Cuantos + 1 : Mandos'[j] = Mandos[j]
  BY <1>0, <1>1, MandosMenores
<1>5. Mandos'[Emitidos'] = DeLinea(l)
  <2>1. Emitidos' = x + 1 /\ x + 1 \in 0..2 * Cuantos + 1
    BY <1>0, <1>1, <1>3
  <2>2. Mandos[x + 1] = DeLinea(l)
    BY <1>1, <1>2, MandosDe
  <2> QED
    BY <1>4, <2>1, <2>2
<1>6. SonDe(s, DeLinea(l)) /\ Camino' = Camino \o s /\ lh' = lh
  <2>1. CASE S3(l)
    <3>1. SonDe(s, DeLinea(l))
      BY <1>1, <1>2, <2>1, LetrasLinea
    <3>2. s \in Seq(Byte)
      BY <3>1 DEF SonDe
    <3>3. hl' = hl \o s /\ lh' = lh
      BY <1>0, <2>1 DEF upload, Manda
    <3> HIDE DEF s
    <3>4. Camino' = Camino \o s
      BY <3>2, <3>3, CaminoCrece
    <3> QED
      BY <3>1, <3>3, <3>4
  <2>2. CASE ~S3(l)
    <3>1. s = <<>> /\ DeLinea(l) = Ninguno
      BY <2>2 DEF DeLinea
    <3>2. hl' = hl /\ lh' = lh
      BY <1>0, <2>2
    <3> QED
      BY <3>1, <3>2, CaminoQuieto, LetrasDeNinguno
  <2> QED
    BY <2>1, <2>2
<1>7. DeLinea(l).op # D
  BY Letreros DEF DeLinea, Mandato, Ninguno
<1>8. /\ Emitidos' \in Nat /\ Emitidos' > Emitidos
      /\ \A j \in 0..Emitidos : Mandos'[j] = Mandos[j]
      /\ \A j \in Emitidos + 1..Emitidos' - 1 : Mandos'[j] = Ninguno
  <2>1. Emitidos' \in Nat /\ Emitidos' > Emitidos /\ Emitidos + 1..Emitidos' - 1 = {}
    BY <1>1, <1>3
  <2>2. 0..Emitidos \subseteq 0..2 * Cuantos + 1
    BY <1>0, <1>1, <1>3
  <2> QED
    BY <1>4, <2>1, <2>2
<1> HIDE DEF s, l
<1>9. Caso(d, i)'
  BY <1>0, <1>5, <1>6, <1>7, <1>8, UnMandoMas
<1>10. Activa' /\ Fases'
  BY <1>0 DEF Activa, Fases
<1> QED
  BY <1>9, <1>10 DEF Sigue

LEMMA PasaComprueba ==
  ASSUME Tipos, Fases, NEW d, NEW i, Caso(d, i), Comprueba, UNCHANGED <<boot, mem, rx, fichero>>
  PROVE  Sigue
<1> DEFINE x == n + 1
           l == fichero[x]
           s == IF S3(l) THEN <<D>> \o put_uint32(l.dir) \o put_uint32(Parte(l)) ELSE <<>>
<1>0. /\ upc = "comprueba" /\ n < Len(fichero) /\ n' = n + 1 /\ ist_data' = <<>>
      /\ UNCHANGED <<check, startAddress>>
      /\ IF S3(l) THEN Manda(<<D>> \o put_uint32(l.dir) \o put_uint32(Parte(l))) /\ upc' = "espera"
         ELSE UNCHANGED <<hl, lh, upc>>
  BY DEF Comprueba, S3
<1>1. /\ fichero \in Ficheros /\ Cuantos \in Nat /\ Cuantos = Len(fichero)
      /\ DOMAIN fichero = 1..Cuantos /\ n \in Nat
  BY LineasCortas DEF Tipos, Cuantos
<1>2. x \in 1..Cuantos /\ x \in DOMAIN fichero
  BY <1>0, <1>1
<1>c. check /\ upc' \in {"comprueba", "espera"}
  BY <1>0 DEF Fases
<1>3. Emitidos = Cuantos + n + 1 /\ Emitidos' = Cuantos + n + 2
  <2>1. Cuantos' = Cuantos
    BY DEF Cuantos
  <2>2. Emitidos' = Cuantos + (n + 1) + 1
    BY <1>0, <1>c, <2>1 DEF Emitidos
  <2> QED
    BY <1>0, <1>1, <2>2 DEF Emitidos
<1>4. Mandos' = Mandos
  BY <1>0, Quieto
<1>5. Mandos'[Emitidos'] = DeControl(l)
  <2>1. Emitidos' = Cuantos + x + 1
    BY <1>1, <1>3
  <2>2. Mandos[Cuantos + x + 1] = DeControl(l)
    BY <1>1, <1>2, MandosDe
  <2> QED
    BY <1>4, <2>1, <2>2
<1>6. SonDe(s, DeControl(l)) /\ Camino' = Camino \o s /\ lh' = lh
  <2>1. CASE S3(l)
    <3>1. SonDe(s, DeControl(l))
      BY <1>1, <1>2, <1>c, <2>1, LetrasControl
    <3>2. s \in Seq(Byte)
      BY <3>1 DEF SonDe
    <3>3. hl' = hl \o s /\ lh' = lh
      BY <1>0, <2>1 DEF Manda
    <3> HIDE DEF s
    <3>4. Camino' = Camino \o s
      BY <3>2, <3>3, CaminoCrece
    <3> QED
      BY <3>1, <3>3, <3>4
  <2>2. CASE ~S3(l)
    <3>1. s = <<>> /\ DeControl(l) = Ninguno
      BY <2>2 DEF DeControl
    <3>2. hl' = hl /\ lh' = lh
      BY <1>0, <2>2
    <3> QED
      BY <3>1, <3>2, CaminoQuieto, LetrasDeNinguno
  <2> QED
    BY <2>1, <2>2
<1>7. DeControl(l).op = D <=> upc' = "espera"
  <2>1. CASE S3(l)
    BY <1>0, <1>c, <2>1 DEF DeControl, Mandato
  <2>2. CASE ~S3(l)
    BY <1>0, <2>2, Letreros DEF DeControl, Ninguno, Mandato
  <2> QED
    BY <2>1, <2>2
<1>8. /\ Emitidos' \in Nat /\ Emitidos' > Emitidos
      /\ \A j \in 0..Emitidos : Mandos'[j] = Mandos[j]
      /\ \A j \in Emitidos + 1..Emitidos' - 1 : Mandos'[j] = Ninguno
  <2>1. Emitidos' \in Nat /\ Emitidos' > Emitidos /\ Emitidos + 1..Emitidos' - 1 = {}
    BY <1>1, <1>3
  <2> QED
    BY <1>4, <2>1
<1>n. n' > 0 /\ ist_data' = <<>> /\ upc # "espera"
  BY <1>0, <1>1
<1> HIDE DEF s, l
<1>9. Caso(d, i)'
  BY <1>0, <1>5, <1>6, <1>7, <1>8, <1>n, UnMandoMas
<1>10. Activa' /\ Fases'
  BY <1>0, <1>c DEF Activa, Fases
<1> QED
  BY <1>9, <1>10 DEF Sigue
-----------------------------------------------------------------------------
LEMMA PasaFinLineas ==
  ASSUME Tipos, Fases, NEW d, NEW i, Caso(d, i), FinLineas, UNCHANGED <<boot, mem, rx, fichero>>
  PROVE  Sigue
<1>0. /\ upc = "lineas" /\ n = Len(fichero) /\ UNCHANGED <<hl, lh, check, startAddress, ist_data>>
      /\ IF check THEN upc' = "comprueba" /\ n' = 0 ELSE upc' = "fin" /\ n' = n
  BY DEF FinLineas
<1>1. Cuantos \in Nat /\ Cuantos = Len(fichero) /\ Cuantos' = Cuantos
  BY LineasCortas DEF Tipos, Cuantos
<1>2. Emitidos = Cuantos + 1
  BY <1>0, <1>1 DEF Emitidos
<1>3. Emitidos' = Cuantos + 1
  <2>1. CASE check
    BY <1>0, <1>1, <2>1 DEF Emitidos
  <2>2. CASE ~check
    BY <1>0, <1>1, <2>2 DEF Emitidos
  <2> QED
    BY <2>1, <2>2
<1>4. Mandos' = Mandos /\ Camino' = Camino
  BY <1>0, Quieto, CaminoQuieto
<1>5. d \in Nat
  BY CasoTipo
<1>6. Leyendo(d, i)'
  BY <1>4, <1>5, LeyendoIgual DEF Caso
<1>7. Oyendo(d)'
  <2>1. upc' # "espera" /\ upc # "espera" /\ lpc' = lpc
    BY <1>0 DEF boot
  <2> QED
    BY <1>0, <1>2, <1>3, <1>4, <2>1 DEF Oyendo, Caso
<1>8. Caso(d, i)'
  BY <1>2, <1>3, <1>4, <1>6, <1>7 DEF Caso
<1>9. Activa' /\ Fases'
  BY <1>0 DEF Activa, Fases
<1> QED
  BY <1>8, <1>9 DEF Sigue

LEMMA PasaRecibe ==
  ASSUME Tipos, Fases, NEW d, NEW i, Caso(d, i), Recibe, UNCHANGED <<boot, mem, rx, fichero>>
  PROVE  Sigue
<1>0. /\ upc = "espera" /\ lh # <<>> /\ UNCHANGED <<hl, upc, n, check, startAddress>>
      /\ ist_data' = Append(ist_data, Head(lh)) /\ lh' = Tail(lh)
  BY DEF Recibe
<1>1. Mandos' = Mandos /\ Emitidos' = Emitidos /\ Camino' = Camino
  BY <1>0, Quieto, CaminoQuieto
<1>2. Oido' = Oido
  <2>1. lh \in Seq(Byte) /\ ist_data \in Seq(Byte)
    BY DEF Tipos
  <2>2. Append(ist_data, Head(lh)) \o Tail(lh) = ist_data \o lh
    BY <1>0, <2>1
  <2> QED
    BY <1>0, <2>2 DEF Oido
<1>5. d \in Nat
  BY CasoTipo
<1>6. Leyendo(d, i)'
  BY <1>1, <1>5, LeyendoIgual DEF Caso
<1>7. Oyendo(d)'
  <2>1. \A x : (Leido(Mandos[Emitidos].a + x - 1))' = Leido(Mandos[Emitidos].a + x - 1)
    BY <1>1 DEF Leido
  <2>2. Vistos(d)' = Vistos(d)
    BY <1>1 DEF Vistos, boot
  <2>3. lpc' = lpc
    BY DEF boot
  <2> QED
    BY <1>0, <1>1, <1>2, <2>1, <2>2, <2>3 DEF Oyendo, Caso
<1>8. Caso(d, i)'
  BY <1>1, <1>6, <1>7 DEF Caso
<1>9. Activa' /\ Fases'
  BY <1>0 DEF Activa, Fases
<1> QED
  BY <1>8, <1>9 DEF Sigue

\* When the answer is compared it is all there, and it is what memory holds.
LEMMA RespuestaEntera ==
  ASSUME Tipos, Fases, NEW d, NEW i, Caso(d, i), upc = "espera", Len(ist_data) = Parte(fichero[n])
  PROVE  /\ d = Emitidos /\ lpc = "orden" /\ lh = <<>>
         /\ n \in DOMAIN fichero /\ S3(fichero[n])
         /\ \A x \in 1..Len(ist_data) : ist_data[x] = Leido(fichero[n].dir + x - 1)
<1>1. /\ fichero \in Ficheros /\ Cuantos \in Nat /\ Cuantos = Len(fichero)
      /\ DOMAIN fichero = 1..Cuantos /\ n \in 0..Cuantos
  BY LineasCortas DEF Tipos, Cuantos
<1>2. /\ Oyendo(d) /\ Leyendo(d, i)
      /\ n > 0 /\ Mandos[Emitidos].op = D /\ Len(Oido) = Vistos(d)
      /\ \A x \in 1..Len(Oido) : Oido[x] = Leido(Mandos[Emitidos].a + x - 1)
  BY DEF Caso, Oyendo
<1>3. n \in 1..Cuantos
  BY <1>1, <1>2
<1>4. Mandos[Emitidos] = DeControl(fichero[n])
  <2>1. Emitidos = Cuantos + n + 1
    BY DEF Emitidos
  <2> QED
    BY <1>1, <1>3, <2>1, MandosDe
<1>5. S3(fichero[n]) /\ Mandos[Emitidos].a = fichero[n].dir /\ Mandos[Emitidos].z = Parte(fichero[n])
  <2>1. ASSUME DeControl(fichero[n]) = Ninguno PROVE FALSE
    BY <1>2, <1>4, <2>1, Letreros DEF Ninguno, Mandato
  <2>2. S3(fichero[n]) /\ check
    BY <2>1 DEF DeControl
  <2> QED
    BY <1>4, <2>2 DEF DeControl, Mandato
<1>6. Parte(fichero[n]) \in Nat /\ Parte(fichero[n]) > 0
  BY <1>1, <1>3, <1>5, LineasSubidas, Tamanos
<1>7. /\ lh \in Seq(Byte) /\ ist_data \in Seq(Byte) /\ Oido \in Seq(Byte)
      /\ Len(Oido) = Len(ist_data) + Len(lh) /\ Len(lh) \in Nat
      /\ \A x \in 1..Len(ist_data) : Oido[x] = ist_data[x]
  <2>1. lh \in Seq(Byte) /\ ist_data \in Seq(Byte)
    BY DEF Tipos
  <2> QED
    BY <2>1, Junta DEF Oido
<1>8. Vistos(d) >= Parte(fichero[n])
  <2> DEFINE v == Vistos(d)
             e == Parte(fichero[n])
             h == Len(lh)
  <2>1. v = e + h /\ h \in Nat /\ e \in Nat
    BY <1>2, <1>6, <1>7
  <2> HIDE DEF v, e, h
  <2>2. v >= e
    BY <2>1
  <2> QED
    BY <2>2 DEF v, e
<1>9. d = Emitidos
  BY <1>6, <1>8 DEF Vistos
<1>10. lpc # "baja"
  <2> SUFFICES ASSUME lpc = "baja" PROVE FALSE
    OBVIOUS
  <2>1. Dentro(d)
    BY NadaAlBajar DEF EnBaja
  <2>2. Vistos(d) = p - start
    BY <1>9 DEF Vistos
  <2> DEFINE e == Parte(fichero[n])
             a == fichero[n].dir
  <2>3. start = a /\ p \in a..a + e - 1 /\ a \in Nat /\ e \in Nat
    BY <1>1, <1>3, <1>5, <1>6, <1>9, <2>1, LineasSubidas, Tamanos DEF Dentro
  <2>4. p - start >= e
    BY <1>8, <2>2
  <2> HIDE DEF a, e
  <2> QED
    BY <2>3, <2>4
<1>11. lpc = "orden"
  BY <1>6, <1>8, <1>9, <1>10 DEF Vistos
<1>12. lh = <<>>
  <2>1. Vistos(d) = Parte(fichero[n])
    BY <1>5, <1>9, <1>11 DEF Vistos
  <2> DEFINE v == Vistos(d)
             h == Len(lh)
  <2>2. v = v + h /\ h \in Nat /\ v \in Nat
    BY <1>2, <1>6, <1>7, <2>1
  <2> HIDE DEF v, h
  <2>3. h = 0
    BY <2>2
  <2> QED
    BY <1>7, <2>3, EmptySeq DEF h
<1>13. ASSUME NEW x \in 1..Len(ist_data)
       PROVE  ist_data[x] = Leido(fichero[n].dir + x - 1)
  <2>1. Len(Oido) = Len(ist_data)
    BY <1>7, <1>12
  <2> QED
    BY <1>2, <1>5, <1>7, <2>1
<1> QED
  BY <1>1, <1>3, <1>5, <1>9, <1>11, <1>12, <1>13

LEMMA PasaCompara ==
  ASSUME Tipos, Fases, NEW d, NEW i, Caso(d, i), Compara, UNCHANGED <<boot, mem, rx, fichero>>
  PROVE  Sigue
<1>0. /\ upc = "espera" /\ Len(ist_data) = Parte(fichero[n]) /\ upc' = "comprueba"
      /\ UNCHANGED <<hl, lh, n, check, startAddress>>
  BY DEF Compara
<1>1. Mandos' = Mandos /\ Emitidos' = Emitidos /\ Camino' = Camino
  <2>1. Cuantos' = Cuantos
    BY DEF Cuantos
  <2>2. Emitidos' = Emitidos
    BY <1>0, <2>1 DEF Emitidos
  <2> QED
    BY <1>0, <2>2, Quieto, CaminoQuieto
<1>2. d = Emitidos /\ lpc = "orden" /\ lh = <<>>
  BY <1>0, RespuestaEntera
<1>5. d \in Nat
  BY CasoTipo
<1>6. Leyendo(d, i)'
  BY <1>1, <1>5, LeyendoIgual DEF Caso
<1>7. Oyendo(d)'
  <2>1. \A j \in d..Emitidos : j = d
    BY <1>2, <1>5
  <2>2. lpc' = "orden"
    BY <1>2 DEF boot
  <2> QED
    BY <1>0, <1>1, <1>2, <2>1, <2>2 DEF Oyendo
<1>8. Caso(d, i)'
  BY <1>1, <1>6, <1>7 DEF Caso
<1>9. Activa' /\ Fases'
  BY <1>0 DEF Activa, Fases
<1> QED
  BY <1>8, <1>9 DEF Sigue

LEMMA PasaArranca ==
  ASSUME Tipos, Fases, NEW d, NEW i, Caso(d, i), Arranca, UNCHANGED <<boot, mem, rx, fichero>>
  PROVE  Sigue
<1> DEFINE s == IF startAddress # NADA THEN <<G>> \o put_uint32(startAddress) ELSE <<>>
<1>0. /\ upc = "fin" \/ (upc = "comprueba" /\ n = Len(fichero))
      /\ upc' = "terminal" /\ UNCHANGED <<n, check, startAddress, ist_data>>
      /\ IF startAddress # NADA THEN Manda(<<G>> \o put_uint32(startAddress)) ELSE UNCHANGED <<hl, lh>>
  BY DEF Arranca
<1>1. /\ fichero \in Ficheros /\ Cuantos \in Nat /\ Cuantos = Len(fichero)
      /\ DOMAIN fichero = 1..Cuantos /\ n \in Nat /\ Cuantos' = Cuantos
  BY LineasCortas DEF Tipos, Cuantos
<1>2. Mandos' = Mandos
  BY <1>0, Quieto
<1>3. Emitidos' = 2 * Cuantos + 2
  BY <1>0, <1>1 DEF Emitidos
<1>4. (Emitidos = Cuantos + 1 /\ ~check) \/ Emitidos = 2 * Cuantos + 1
  <2>1. CASE upc = "fin"
    BY <1>1, <2>1 DEF Emitidos, Fases
  <2>2. CASE upc # "fin"
    <3>1. Emitidos = Cuantos + Cuantos + 1
      BY <1>0, <1>1, <2>2 DEF Emitidos
    <3> QED
      BY <1>1, <3>1
  <2> QED
    BY <2>1, <2>2
<1>5. Mandos'[Emitidos'] = DeSalto
  BY <1>1, <1>2, <1>3, MandosDe
<1>6. SonDe(s, DeSalto) /\ Camino' = Camino \o s /\ lh' = lh
  <2>1. CASE startAddress # NADA
    <3>0. startAddress \in Dir
      BY <2>1 DEF Tipos
    <3>1. SonDe(s, DeSalto)
      BY <2>1, <3>0, LetrasSalto
    <3>2. s \in Seq(Byte)
      BY <3>1 DEF SonDe
    <3>3. hl' = hl \o s /\ lh' = lh
      BY <1>0, <2>1 DEF Manda
    <3> HIDE DEF s
    <3>4. Camino' = Camino \o s
      BY <3>2, <3>3, CaminoCrece
    <3> QED
      BY <3>1, <3>3, <3>4
  <2>2. CASE startAddress = NADA
    <3>1. s = <<>> /\ DeSalto = Ninguno
      BY <2>2 DEF DeSalto
    <3>2. hl' = hl /\ lh' = lh
      BY <1>0, <2>2
    <3> QED
      BY <3>1, <3>2, CaminoQuieto, LetrasDeNinguno
  <2> QED
    BY <2>1, <2>2
<1>7. DeSalto.op # D
  BY Letreros DEF DeSalto, Mandato, Ninguno
<1>8. /\ Emitidos' \in Nat /\ Emitidos' > Emitidos
      /\ \A j \in 0..Emitidos : Mandos'[j] = Mandos[j]
      /\ \A j \in Emitidos + 1..Emitidos' - 1 : Mandos'[j] = Ninguno
  <2>1. CASE Emitidos = Cuantos + 1 /\ ~check
    <3>1. ASSUME NEW j \in Emitidos + 1..Emitidos' - 1 PROVE Mandos[j] = Ninguno
      <4> DEFINE x == j - Cuantos - 1
      <4>1. x \in 1..Cuantos /\ Cuantos + x + 1 = j
        BY <1>1, <1>3, <2>1
      <4>2. Mandos[Cuantos + x + 1] = DeControl(fichero[x])
        BY <1>1, <4>1, MandosDe
      <4> QED
        BY <2>1, <4>1, <4>2 DEF DeControl
    <3>2. Emitidos' \in Nat /\ Emitidos' > Emitidos
      BY <1>1, <1>3, <2>1
    <3> QED
      BY <1>2, <3>1, <3>2
  <2>2. CASE Emitidos = 2 * Cuantos + 1
    <3>1. Emitidos' \in Nat /\ Emitidos' > Emitidos /\ Emitidos + 1..Emitidos' - 1 = {}
      BY <1>1, <1>3, <2>2
    <3> QED
      BY <1>2, <3>1
  <2> QED
    BY <1>4, <2>1, <2>2
<1>n. upc # "espera" /\ upc' # "espera"
  BY <1>0
<1> HIDE DEF s
<1>9. Caso(d, i)'
  BY <1>5, <1>6, <1>7, <1>8, <1>n, UnMandoMas
<1>10. Activa' /\ Fases'
  BY <1>0 DEF Activa, Fases
<1> QED
  BY <1>9, <1>10 DEF Sigue
-----------------------------------------------------------------------------
(* Before the first command *)

\* The uploader looks for the loader, which answers with its line.
Saludando ==
  /\ mem = [a \in RAM |-> 0] /\ n = 0
  /\ upc = "limpia" => index(Saludo, firma)
  /\ \/ upc \in {"busca", "limpia", "error"} /\ lpc = "orden" /\ Camino = <<>> /\ lh = <<>>
     \/ upc = "escucha" /\ lpc = "orden" /\ Camino = <<OTRA>> /\ lh = <<>>
     \/ /\ upc = "escucha" /\ lpc = "saluda" /\ Camino = <<>>
        /\ Len(lh) = k /\ \A x \in 1..k : lh[x] = Saludo[x]
     \/ upc = "escucha" /\ lpc = "orden" /\ Camino = <<>> /\ lh = Saludo

SesionInv == \/ Saludando
             \/ index(Saludo, firma) /\ Activa /\ Fases /\ \E d, i : Caso(d, i)
CargaInv == Tipos /\ SesionInv

LEMMA CargaInvInit == Init => CargaInv
<1> SUFFICES ASSUME Init PROVE CargaInv
  OBVIOUS
<1>1. /\ lpc = "orden" /\ mem \in [RAM -> {0}] /\ rx = NADA /\ hl = <<>> /\ lh = <<>>
      /\ upc = "busca" /\ n = 0
  BY DEF Init, AInit
<1>2. Camino = <<>> \o <<>>
  BY <1>1 DEF Camino
<1>3. Camino = <<>>
  BY <1>2, EmptySeq, ConcatEmptySeq
<1>4. mem = [a \in RAM |-> 0]
  BY <1>1
<1> QED
  BY <1>1, <1>3, <1>4, TiposInit DEF CargaInv, SesionInv, Saludando

\* An arrival changes nothing of this: what it could run over is not there.
LEMMA LlegaQuieto ==
  ASSUME CargaInv, Llega
  PROVE  Camino' = Camino /\ UNCHANGED <<boot, mem, lh, sube>>
<1>1. hl # <<>> /\ rx' = Head(hl) /\ hl' = Tail(hl) /\ UNCHANGED <<boot, mem, lh, sube>>
      /\ (rx = NADA \/ lpc \in {"saluda", "baja"})
  BY DEF Llega
<1>2. hl \in Seq(Byte) /\ Head(hl) \in Byte /\ Head(hl) # NADA /\ Tail(hl) \in Seq(Byte)
  <2>1. hl \in Seq(Byte)
    BY DEF CargaInv, Tipos
  <2>2. Head(hl) \in Byte /\ Tail(hl) \in Seq(Byte)
    BY <1>1, <2>1
  <2> QED
    BY <2>1, <2>2, Letreros
<1>3. rx = NADA
  <2>1. ASSUME lpc = "saluda" PROVE Camino = <<>>
    BY <2>1 DEF CargaInv, SesionInv, Saludando, Caso, Leyendo, EnOrden, EnStart, EnSize, EnSube, EnBaja, EnSalto
  <2>2. lpc = "baja" => rx = NADA
    <3> SUFFICES ASSUME lpc = "baja" PROVE rx = NADA
      OBVIOUS
    <3>1. \E d, i : Caso(d, i)
      BY DEF CargaInv, SesionInv, Saludando
    <3> QED
      BY <3>1, NadaAlBajar DEF CargaInv
  <2>3. ASSUME lpc = "saluda", rx # NADA PROVE FALSE
    <3>1. <<rx>> \in Seq(Byte) /\ Camino = <<rx>> \o hl
      BY <2>3 DEF CargaInv, Tipos, Camino
    <3>2. Len(Camino) = Len(<<rx>>) + Len(hl) /\ Len(<<rx>>) = 1 /\ Len(hl) \in Nat
      BY <1>2, <3>1, Junta
    <3>3. Len(Camino) = 0
      BY <2>1, <2>3, EmptySeq
    <3> QED
      BY <3>2, <3>3
  <2> QED
    BY <1>1, <2>2, <2>3
<1>4. Camino = hl
  <2>1. Camino = <<>> \o hl
    BY <1>3 DEF Camino
  <2> QED
    BY <1>2, <2>1
<1>5. Camino' = <<Head(hl)>> \o Tail(hl)
  BY <1>1, <1>2 DEF Camino
<1>6. <<Head(hl)>> \o Tail(hl) = hl
  BY <1>1, <1>2
<1> QED
  BY <1>1, <1>4, <1>5, <1>6

\* Everything the invariant speaks of.
LEMMA SesionQuieta ==
  ASSUME SesionInv, Camino' = Camino, UNCHANGED <<boot, mem, lh, sube, fichero>>
  PROVE  SesionInv'
<1>1. /\ UNCHANGED <<lpc, c, k, start, size, p, mem, lh, upc, n, check, startAddress, ist_data, fichero>>
      /\ UNCHANGED firma
      /\ Mandos' = Mandos /\ Emitidos' = Emitidos
  BY Quieto DEF boot, sube
<1>2. CASE Saludando
  BY <1>1, <1>2 DEF SesionInv, Saludando
<1>3. ASSUME index(Saludo, firma), Activa, Fases, NEW d, NEW i, Caso(d, i) PROVE SesionInv'
  <2>1. Leyendo(d, i)'
    BY <1>1, <1>3 DEF Caso, Leyendo, EnOrden, EnStart, EnSize, EnSube, EnBaja, EnSalto, Dentro
  <2>2. Oyendo(d)'
    <3>1. Oido' = Oido /\ Vistos(d)' = Vistos(d)
      BY <1>1 DEF Oido, Vistos
    <3>2. \A x : (Leido(Mandos[Emitidos].a + x - 1))' = Leido(Mandos[Emitidos].a + x - 1)
      BY <1>1 DEF Leido
    <3> QED
      BY <1>1, <1>3, <3>1, <3>2 DEF Caso, Oyendo
  <2>3. Caso(d, i)'
    BY <1>1, <1>3, <2>1, <2>2 DEF Caso
  <2>4. Activa' /\ Fases'
    BY <1>1, <1>3 DEF Activa, Fases
  <2> QED
    BY <1>1, <1>3, <2>3, <2>4 DEF SesionInv
<1> QED
  BY <1>2, <1>3 DEF SesionInv

LEMMA SaludandoCargador ==
  ASSUME Tipos, Saludando, Cargador, fichero' = fichero
  PROVE  Saludando'
<1>0. UNCHANGED <<upc, n, check, startAddress, ist_data, firma>>
  BY DEF Cargador, sube
<1>1. ASSUME rx # NADA, Camino = <<>> PROVE FALSE
  <2>1. <<rx>> \in Seq(Byte) /\ hl \in Seq(Byte) /\ Camino = <<rx>> \o hl
    BY <1>1 DEF Tipos, Camino
  <2>2. Len(Camino) = Len(<<rx>>) + Len(hl) /\ Len(<<rx>>) = 1 /\ Len(hl) \in Nat
    BY <2>1, Junta
  <2>3. Len(Camino) = 0
    BY <1>1, EmptySeq
  <2> QED
    BY <2>2, <2>3
<1>2. lpc \in {"orden", "saluda"}
  BY DEF Saludando
<1>3. CASE Orden
  <2>1. rx # NADA /\ lpc = "orden" /\ rx' = NADA /\ UNCHANGED <<mem, hl, lh>> /\ k' = 0
        /\ lpc' = IF rx \in {U, D, G} THEN "start" ELSE "saluda"
    BY <1>3 DEF Orden, uart_getchar
  <2>2. Camino = <<OTRA>> /\ upc = "escucha" /\ lh = <<>>
    BY <1>1, <2>1 DEF Saludando
  <2>3. Head(Camino) = rx /\ Tail(Camino) = Camino'
    BY <2>1, Saca
  <2>4. Head(<<OTRA>>) = OTRA /\ Tail(<<OTRA>>) = <<>>
    OBVIOUS
  <2>5. rx = OTRA /\ Camino' = <<>>
    BY <2>2, <2>3, <2>4
  <2>6. lpc' = "saluda"
    BY <2>1, <2>5, Letreros
  <2>7. Len(lh') = 0 /\ 1..0 = {}
    BY <2>1, <2>2, EmptySeq
  <2> QED
    BY <1>0, <2>1, <2>2, <2>5, <2>6, <2>7 DEF Saludando
<1>4. CASE Saluda
  <2>1. /\ lpc = "saluda" /\ lh' = Append(lh, Letra(k)) /\ UNCHANGED <<mem, rx, hl>>
        /\ IF Acaba(k) THEN lpc' = "orden" /\ k' = 0 ELSE lpc' = lpc /\ k' = k + 1
    BY <1>4 DEF Saluda, uart_putchar
  <2>2. /\ upc = "escucha" /\ Camino = <<>> /\ Len(lh) = k /\ \A x \in 1..k : lh[x] = Saludo[x]
    BY <2>1 DEF Saludando
  <2>3. lh \in Seq(Byte) /\ k \in Nat /\ k < Len(Saludo)
    BY <2>1 DEF Tipos
  <2>4. Letra(k) = Saludo[k + 1] /\ Letra(k) \in Byte
    BY <2>3, SaludoTipo DEF Letra
  <2>5. Camino' = <<>>
    BY <2>1, <2>2 DEF Camino
  <2> DEFINE b == Letra(k)
             t == lh'
  <2>6. t \in Seq(Byte) /\ Len(t) = k + 1 /\ t[k + 1] = b /\ \A x \in 1..k : t[x] = lh[x]
    <3> HIDE DEF b
    <3>1. t = Append(lh, b)
      BY <2>1 DEF b
    <3> HIDE DEF t
    <3> QED
      BY <2>2, <2>3, <2>4, <3>1, AppendProperties DEF b
  <2>7. \A x \in 1..k + 1 : t[x] = Saludo[x]
    <3>1. \A x \in 1..k + 1 : x \in 1..k \/ x = k + 1
      BY <2>3
    <3> QED
      BY <2>2, <2>4, <2>6, <3>1
  <2>8. CASE Acaba(k)
    <3>1. k + 1 = Len(Saludo)
      BY <2>8 DEF Acaba
    <3>2. t = Saludo
      <4> HIDE DEF t
      <4> QED
        BY <2>6, <2>7, <3>1, SaludoTipo, SeqEqual
    <3> QED
      BY <1>0, <2>1, <2>2, <2>5, <2>8, <3>2 DEF Saludando
  <2>9. CASE ~Acaba(k)
    BY <1>0, <2>1, <2>2, <2>5, <2>6, <2>7, <2>9 DEF Saludando
  <2> QED
    BY <2>8, <2>9
<1> QED
  BY <1>2, <1>3, <1>4 DEF Cargador, Start, Size, Sube, Baja
-----------------------------------------------------------------------------
LEMMA SaludandoBusca ==
  ASSUME Tipos, Saludando, Busca, UNCHANGED <<boot, mem, rx, firma, fichero>>
  PROVE  Saludando'
<1>0. /\ upc = "busca" /\ lh' = lh /\ n' = n /\ lpc' = lpc /\ mem' = mem
      /\ \/ hl' = hl \o <<OTRA>> /\ upc' = "escucha"
         \/ hl' = hl /\ upc' = "error"
  BY DEF Busca, Manda, boot
<1>1. lpc = "orden" /\ Camino = <<>> /\ lh = <<>>
  BY <1>0 DEF Saludando
<1>5. CASE hl' = hl /\ upc' = "error"
  <2>1. Camino' = <<>>
    BY <1>1, <1>5, CaminoQuieto
  <2> QED
    BY <1>0, <1>1, <1>5, <2>1 DEF Saludando
<1>6. SUFFICES ASSUME hl' = hl \o <<OTRA>>, upc' = "escucha" PROVE Saludando'
  BY <1>0, <1>5
<1>2. <<OTRA>> \in Seq(Byte)
  BY Letreros
<1>3. Camino' = <<>> \o <<OTRA>>
  BY <1>1, <1>2, <1>6, CaminoCrece
<1>4. Camino' = <<OTRA>>
  BY <1>2, <1>3, ConcatEmptySeq
<1> QED
  BY <1>0, <1>1, <1>4, <1>6 DEF Saludando

\* The line that ends is the loader's, with the signature or without.
LEMMA SaludandoEscucha ==
  ASSUME Tipos, Saludando, Escucha, UNCHANGED <<boot, mem, rx, firma, fichero>>
  PROVE  Saludando'
<1> DEFINE Final(x) == lh[x] = NUEVALINEA /\ \A y \in 1..x - 1 : lh[y] # NUEVALINEA
           fin == CHOOSE x \in DOMAIN lh : Final(x)
<1>0. /\ upc = "escucha" /\ \E x \in DOMAIN lh : lh[x] = NUEVALINEA
      /\ lh' = SubSeq(lh, fin + 1, Len(lh))
      /\ upc' = IF index(SubSeq(lh, 1, fin), firma) THEN "limpia" ELSE "busca"
      /\ UNCHANGED <<hl, n, lpc, mem, rx>>
  BY DEF Escucha, boot
<1>1. lh \in Seq(Byte) /\ DOMAIN lh = 1..Len(lh) /\ Len(lh) \in Nat
  BY DEF Tipos
<1>2. \A x \in 1..Len(Saludo) - 1 : Saludo[x] # NUEVALINEA
  BY ArranqueAssumption
<1>3. lpc = "orden" /\ Camino = <<>> /\ lh = Saludo
  <2>1. CASE lh = <<>>
    <3>1. DOMAIN lh = {}
      BY <2>1
    <3> QED
      BY <1>0, <3>1
  <2>2. CASE lpc = "saluda" /\ Len(lh) = k /\ \A x \in 1..k : lh[x] = Saludo[x]
    <3>1. k \in Nat /\ k < Len(Saludo) /\ Len(Saludo) \in Nat
      BY <2>2, SaludoTipo DEF Tipos
    <3>2. \A x \in 1..k : x \in 1..Len(Saludo) - 1
      BY <3>1
    <3> QED
      BY <1>0, <1>1, <1>2, <2>2, <3>2
  <2> QED
    BY <1>0, <2>1, <2>2 DEF Saludando
<1>4. Len(Saludo) \in DOMAIN lh /\ Final(Len(Saludo))
  BY <1>1, <1>2, <1>3, SaludoTipo DEF NUEVALINEA
<1>5. ASSUME NEW x \in DOMAIN lh, Final(x) PROVE x = Len(Saludo)
  <2>1. x \in 1..Len(Saludo) /\ Len(Saludo) \in Nat
    BY <1>1, <1>3
  <2>2. x \notin 1..Len(Saludo) - 1
    BY <1>2, <1>3, <1>5
  <2> QED
    BY <2>1, <2>2
<1>6. fin = Len(Saludo)
  <2>1. fin \in DOMAIN lh /\ Final(fin)
    BY <1>4
  <2> HIDE DEF fin, Final
  <2> QED
    BY <1>5, <2>1
<1> HIDE DEF fin
<1>7. SubSeq(Saludo, Len(Saludo) + 1, Len(Saludo)) = <<>> /\ SubSeq(Saludo, 1, Len(Saludo)) = Saludo
  BY SaludoTipo
<1>8. lh' = <<>> /\ upc' \in {"limpia", "busca"} /\ (upc' = "limpia" => index(Saludo, firma))
  BY <1>0, <1>3, <1>6, <1>7
<1>9. Camino' = Camino
  BY <1>0 DEF Camino
<1> QED
  BY <1>0, <1>3, <1>8, <1>9 DEF Saludando

LEMMA SaludandoLimpia ==
  ASSUME Tipos, Saludando, Limpia, UNCHANGED <<boot, mem, rx, fichero>>
  PROVE  Sigue /\ index(Saludo, firma)
<1> DEFINE s == <<U>> \o put_uint32(PRIMERA) \o put_uint32(Len([x \in 1..CUANTAS |-> RELLENO]))
                  \o [x \in 1..CUANTAS |-> RELLENO]
<1>0. /\ upc = "limpia" /\ hl' = hl \o s /\ lh' = lh /\ upc' = "lineas"
      /\ UNCHANGED <<n, check, startAddress>> /\ lpc' = lpc /\ mem' = mem
  BY DEF Limpia, upload, Manda, boot
<1>1. lpc = "orden" /\ Camino = <<>> /\ lh = <<>> /\ n = 0 /\ mem = [a \in RAM |-> 0]
  BY <1>0 DEF Saludando
<1>2. SonDe(s, DeLimpieza) /\ s \in Seq(Byte)
  BY LetrasLimpieza DEF SonDe
<1> HIDE DEF s
<1>3. Camino' = <<>> \o s
  BY <1>0, <1>1, <1>2, CaminoCrece
<1>4. Mandos' = Mandos /\ Emitidos' = 1
  <2>1. Emitidos' = 0 + 1
    BY <1>0, <1>1 DEF Emitidos
  <2> QED
    BY <1>0, <2>1, Quieto
<1>5. Mandos[0] = Ninguno /\ Mandos[1] = DeLimpieza /\ Largo(Ninguno) = 0 /\ Largo(Mandos[0]) = 0
  BY MandosDe, Letreros DEF Tipos, Ninguno, Mandato, Largo
<1>6. Fila(<<>> \o s, Mandos, 0, 0, 1)
  <2>1. Fila(<<>>, Mandos, 0, 0, 0)
    BY <1>5, FilaVacia
  <2>2. Tabla(Mandos, 0)
    <3>1. \A j \in 0..0 : j \in Nat
      OBVIOUS
    <3> QED
      BY <3>1, MandosCorrectos DEF Tabla, Tipos
  <2>3. 1 \in Nat /\ 1 > 0 /\ \A j \in 0 + 1..1 - 1 : Largo(Mandos[j]) = 0
    OBVIOUS
  <2> QED
    BY <1>2, <1>5, <2>1, <2>2, <2>3, Anade
<1>7. Cargada(Mandos, mem, 0)
  <2>1. Ninguno.op # U
    BY Letreros DEF Ninguno, Mandato
  <2>2. \A a : \A x \in 0..0 : ~Toca(Mandos[x], a)
    <3>1. \A x \in 0..0 : x = 0
      OBVIOUS
    <3> QED
      BY <1>5, <2>1, <3>1 DEF Toca
  <2> QED
    BY <1>1, <2>2 DEF Cargada, Vale
<1>8. Leyendo(0, 0)'
  BY <1>0, <1>1, <1>4, <1>5, <1>7 DEF Leyendo, EnOrden
<1>9. Oyendo(0)'
  <2>1. Ninguno.op # D /\ DeLimpieza.op # D
    BY Letreros DEF Ninguno, DeLimpieza, Mandato
  <2>2. \A j \in 0..1 : j = 0 \/ j = 1
    OBVIOUS
  <2>3. \A j \in 0..1 : Mandos[j].op # D
    BY <1>5, <2>1, <2>2
  <2> QED
    BY <1>0, <1>1, <1>4, <2>3 DEF Oyendo
<1>10. Caso(0, 0)'
  BY <1>3, <1>4, <1>6, <1>8, <1>9 DEF Caso
<1>11. Activa' /\ Fases'
  BY <1>0 DEF Activa, Fases
<1>12. index(Saludo, firma)
  BY <1>0 DEF Saludando
<1> QED
  BY <1>10, <1>11, <1>12 DEF Sigue

LEMMA SesionPaso ==
  ASSUME CargaInv, ANext
  PROVE  SesionInv'
<1>0. fichero' = fichero /\ Tipos
  BY DEF ANext, CargaInv
<1>1. CASE Llega
  BY <1>0, <1>1, LlegaQuieto, SesionQuieta DEF CargaInv
<1>2. CASE Cargador
  <2>1. CASE Saludando
    BY <1>0, <1>2, <2>1, SaludandoCargador DEF SesionInv
  <2>2. ASSUME index(Saludo, firma), Activa, Fases, NEW d, NEW i, Caso(d, i) PROVE SesionInv'
    <3>1. UNCHANGED sube
      BY <1>2 DEF Cargador
    <3>2. ~Saluda
      BY <2>2 DEF Saluda, Caso, Leyendo, EnOrden, EnStart, EnSize, EnSube, EnBaja, EnSalto
    <3>3. \E g, h : Caso(g, h)'
      BY <1>0, <1>2, <2>2, <3>1, <3>2, PasaOrden, PasaStart, PasaSize, PasaSube, PasaBaja DEF Cargador
    <3>4. Activa' /\ Fases'
      BY <1>0, <2>2, <3>1 DEF Activa, Fases, sube
    <3>5. firma' = firma
      BY <3>1 DEF sube
    <3> QED
      BY <2>2, <3>3, <3>4, <3>5 DEF SesionInv
  <2> QED
    BY <2>1, <2>2 DEF CargaInv, SesionInv
<1>3. CASE Subidor
  <2>0. UNCHANGED <<boot, mem, rx, firma, fichero>>
    BY <1>0, <1>3 DEF Subidor
  <2>1. CASE Saludando
    <3>1. upc \in {"busca", "limpia", "escucha", "error"}
      BY <2>1 DEF Saludando
    <3>2. Busca \/ Escucha \/ Limpia
      BY <1>3, <3>1 DEF Subidor, Carga_y_arranca, Lineas, FinLineas, Comprueba, Recibe, Compara, Arranca
    <3> QED
      BY <1>0, <2>0, <2>1, <3>2, SaludandoBusca, SaludandoEscucha, SaludandoLimpia DEF SesionInv, Sigue
  <2>2. ASSUME index(Saludo, firma), Activa, Fases, NEW d, NEW i, Caso(d, i) PROVE SesionInv'
    <3>1. ~Busca /\ ~Escucha /\ ~Limpia
      BY <2>2 DEF Activa, Busca, Escucha, Limpia
    <3>2. Sigue
      BY <1>0, <1>3, <2>0, <2>2, <3>1, PasaLineas, PasaFinLineas, PasaComprueba, PasaRecibe,
         PasaCompara, PasaArranca DEF Subidor, Carga_y_arranca
    <3> QED
      BY <2>0, <2>2, <3>2 DEF Sigue, SesionInv
  <2> QED
    BY <2>1, <2>2 DEF CargaInv, SesionInv
<1> QED
  BY <1>1, <1>2, <1>3 DEF ANext

LEMMA CargaInvPaso == CargaInv /\ [Next]_vars => CargaInv'
<1> SUFFICES ASSUME CargaInv, [Next]_vars PROVE CargaInv'
  OBVIOUS
<1>1. Tipos'
  BY TiposPaso DEF CargaInv
<1>2. ASSUME UNCHANGED <<avars, fichero>> PROVE SesionInv'
  <2>1. Camino' = Camino /\ UNCHANGED <<boot, mem, lh, sube, fichero>>
    BY <1>2 DEF Camino, avars
  <2> QED
    BY <2>1, SesionQuieta DEF CargaInv
<1>3. CASE Vram
  BY <1>1, <1>2, <1>3 DEF Vram, VNext, CargaInv
<1>4. CASE Sesion
  BY <1>1, <1>4, SesionPaso DEF Sesion, CargaInv
<1>5. CASE UNCHANGED vars
  BY <1>1, <1>2, <1>5 DEF vars, CargaInv
<1> QED
  BY <1>3, <1>4, <1>5 DEF Next
-----------------------------------------------------------------------------
(* What it is for *)

\* The bytes of a line that is uploaded lie at its addresses.
LEMMA LugarDeLinea ==
  ASSUME NEW f \in Ficheros, NEW x \in DOMAIN f, S3(f[x])
  PROVE  /\ DOMAIN f[x].dat = 1..Len(f[x].dat) /\ f[x].dir \in Nat
         /\ \A y \in DOMAIN f[x].dat : Lugar(f[x], y) = f[x].dir + y - 1
         /\ \A a : Cubre(f[x], a) <=> a \in f[x].dir..f[x].dir + Len(f[x].dat) - 1
         /\ \A a : Toca(DeLinea(f[x]), a) <=> Cubre(f[x], a)
<1> DEFINE l == f[x]
           h == Len(l.dat)
           b == l.dir
<1>1. b \in Dir /\ l.dat \in Seq(Byte) /\ h \in Nat /\ b + h < M /\ b \in Nat /\ M \in Nat
  BY LineasSubidas, Tamanos
<1>2. DOMAIN l.dat = 1..h
  BY <1>1
<1> HIDE DEF h, b
<1>3. ASSUME NEW y \in 1..h PROVE Lugar(l, y) = b + y - 1
  <2>1. b + y - 1 \in 0..M - 1
    BY <1>1
  <2>2. (b + y - 1) % M = b + y - 1
    BY <2>1, ModPropio
  <2> QED
    BY <2>2 DEF Lugar, b
<1>4. ASSUME NEW a PROVE Cubre(l, a) <=> a \in b..b + h - 1
  <2>1. l.tipo \in Datos
    BY DEF S3, Datos
  <2>2. Cubre(l, a) <=> \E y \in 1..h : b + y - 1 = a
    BY <1>2, <1>3, <2>1 DEF Cubre
  <2>3. ASSUME a \in b..b + h - 1 PROVE \E y \in 1..h : b + y - 1 = a
    <3>1. a - b + 1 \in 1..h /\ b + (a - b + 1) - 1 = a
      BY <1>1, <2>3
    <3> QED
      BY <3>1
  <2>4. ASSUME NEW y \in 1..h, b + y - 1 = a PROVE a \in b..b + h - 1
    BY <1>1, <2>4
  <2> QED
    BY <2>2, <2>3, <2>4
<1>5. ASSUME NEW a PROVE Toca(DeLinea(l), a) <=> a \in b..b + h - 1
  BY DEF Toca, DeLinea, Mandato, h, b
<1> QED
  BY <1>1, <1>2, <1>3, <1>4, <1>5 DEF h, b

\* The last line with a byte for a says what the file puts there.
LEMMA PoneUltima ==
  ASSUME NEW f \in Ficheros, SoloS3(f), NEW x \in DOMAIN f, NEW a, Cubre(f[x], a),
         \A y \in DOMAIN f : Cubre(f[y], a) => y <= x
  PROVE  Pone(f, a) = f[x].dat[a - f[x].dir + 1]
<1>0. DOMAIN f = 1..Len(f) /\ Len(f) \in Nat
  BY LineasCortas
<1>1. S3(f[x])
  BY DEF SoloS3, Cubre, S3
<1>2. Ultima(f, a) = x
  <2> DEFINE Es(y) == Cubre(f[y], a) /\ \A m \in DOMAIN f : Cubre(f[m], a) => m <= y
  <2>1. x \in DOMAIN f /\ Es(x)
    OBVIOUS
  <2>2. \A y \in DOMAIN f : Es(y) => y = x
    BY <1>0
  <2>3. Ultima(f, a) = CHOOSE y \in DOMAIN f : Es(y)
    BY DEF Ultima
  <2> HIDE DEF Es
  <2> QED
    BY <2>1, <2>2, <2>3
<1> DEFINE l == f[x]
           y == a - l.dir + 1
<1>3. /\ DOMAIN l.dat = 1..Len(l.dat) /\ l.dir \in Nat
      /\ \A z \in DOMAIN l.dat : Lugar(l, z) = l.dir + z - 1
      /\ a \in l.dir..l.dir + Len(l.dat) - 1 /\ Len(l.dat) \in Nat
  BY <1>1, LugarDeLinea, LineasSubidas
<1>4. y \in DOMAIN l.dat /\ Lugar(l, y) = a /\ \A z \in DOMAIN l.dat : Lugar(l, z) = a => z = y
  <2> DEFINE h == Len(l.dat)
             b == l.dir
  <2>1. DOMAIN l.dat = 1..h /\ b \in Nat /\ h \in Nat /\ a \in b..b + h - 1 /\ y = a - b + 1
        /\ \A z \in 1..h : Lugar(l, z) = b + z - 1
    BY <1>3
  <2> HIDE DEF h, b, y, l
  <2>2. y \in 1..h /\ b + y - 1 = a /\ \A z \in 1..h : b + z - 1 = a => z = y
    BY <2>1
  <2> QED
    BY <2>1, <2>2
<1> HIDE DEF y
<1>5. (CHOOSE z \in DOMAIN l.dat : Lugar(l, z) = a) = y
  BY <1>4
<1>6. Pone(f, a) = l.dat[CHOOSE z \in DOMAIN l.dat : Lugar(l, z) = a]
  BY <1>2 DEF Pone
<1> QED
  BY <1>5, <1>6 DEF y

LEMMA InvImagen == CargaInv => ImagenEnMemoria
<1> SUFFICES ASSUME CargaInv, lpc = "saltado", SoloS3(fichero)
             PROVE  /\ start = startAddress
                    /\ \A a \in RAM :
                         mem[a] = IF a \in Cubierta(fichero) THEN Pone(fichero, a)
                                  ELSE IF a \in PRIMERA..PRIMERA + CUANTAS - 1 THEN RELLENO ELSE 0
  BY DEF ImagenEnMemoria
<1>0. Tipos /\ fichero \in Ficheros
  BY DEF CargaInv, Tipos
<1>1. PICK d, i : Caso(d, i)
  BY DEF CargaInv, SesionInv, Saludando
<1>2. EnSalto(d, i)
  BY <1>1 DEF Caso, Leyendo, EnOrden, EnStart, EnSize, EnSube, EnBaja
<1>3. d \in Nat
  BY <1>0, <1>1, CasoTipo
<1>4. /\ Cuantos \in Nat /\ DOMAIN fichero = 1..Cuantos /\ Mandos[1] = DeLimpieza
      /\ \A x \in 1..Cuantos : /\ Mandos[x + 1] = DeLinea(fichero[x])
                               /\ Mandos[Cuantos + x + 1] = DeControl(fichero[x])
      /\ Mandos[2 * Cuantos + 2] = DeSalto
  BY <1>0, MandosDe
\* Only the last command is a jump.
<1>5. \A l : DeLinea(l).op # G /\ DeControl(l).op # G
  BY Letreros DEF DeLinea, DeControl, Ninguno, Mandato
<1>6. Ninguno.op # G /\ DeLimpieza.op # G
  BY Letreros DEF DeLimpieza, Ninguno, Mandato
<1>7. d = 2 * Cuantos + 2
  <2>1. Mandos[d] = Mando(d) /\ Mandos[d].op = G
    BY <1>2, <1>3 DEF Mandos, EnSalto
  <2> QED
    BY <1>5, <1>6, <2>1 DEF Mando
<1>8. start = startAddress
  <2>1. DeSalto.op = G /\ start = DeSalto.a
    BY <1>2, <1>4, <1>7 DEF EnSalto
  <2>2. startAddress # NADA
    BY <1>6, <2>1 DEF DeSalto
  <2> QED
    BY <2>1, <2>2 DEF DeSalto, Mandato
<1>9. \A a \in RAM : Vale(Mandos, a, mem[a], 2 * Cuantos + 1)
  <2>1. d - 1 = 2 * Cuantos + 1
    BY <1>4, <1>7
  <2> QED
    BY <1>2, <2>1 DEF EnSalto, Cargada
<1>10. ASSUME NEW a \in RAM, NEW x \in 1..Cuantos PROVE Toca(Mandos[x + 1], a) <=> Cubre(fichero[x], a)
  <2>1. CASE S3(fichero[x])
    BY <1>0, <1>4, <2>1, LugarDeLinea
  <2>2. CASE ~S3(fichero[x])
    <3>1. ~Cubre(fichero[x], a)
      BY <1>4, <2>2 DEF SoloS3, S3, Cubre
    <3>2. Ninguno.op # U
      BY Letreros DEF Ninguno, Mandato
    <3> QED
      BY <1>4, <2>2, <3>1, <3>2 DEF Toca, DeLinea
  <2> QED
    BY <2>1, <2>2
<1>11. ASSUME NEW a \in RAM, NEW x \in 1..Cuantos PROVE ~Toca(Mandos[Cuantos + x + 1], a)
  <2>1. DeControl(fichero[x]).op # U
    BY Letreros DEF DeControl, Ninguno, Mandato
  <2> QED
    BY <1>4, <2>1 DEF Toca
<1>12. \A a : /\ Toca(DeLimpieza, a) <=> a \in PRIMERA..PRIMERA + CUANTAS - 1
              /\ a \in PRIMERA..PRIMERA + CUANTAS - 1
                   => DeLimpieza.dat[a - PRIMERA + 1] = RELLENO /\ DeLimpieza.a = PRIMERA
  <2>1. \A a : Toca(DeLimpieza, a) <=> a \in PRIMERA..PRIMERA + CUANTAS - 1
    BY DEF Toca, DeLimpieza, Mandato
  <2>2. ASSUME NEW a \in PRIMERA..PRIMERA + CUANTAS - 1
        PROVE  DeLimpieza.dat[a - PRIMERA + 1] = RELLENO /\ DeLimpieza.a = PRIMERA
    <3>1. PRIMERA \in Nat /\ CUANTAS \in Nat
      BY ArranqueAssumption, Tamanos
    <3>2. a - PRIMERA + 1 \in 1..CUANTAS
      BY <3>1
    <3> QED
      BY <3>2 DEF DeLimpieza, Mandato
  <2> QED
    BY <2>1, <2>2
<1>13. ASSUME NEW a \in RAM
       PROVE  mem[a] = IF a \in Cubierta(fichero) THEN Pone(fichero, a)
                       ELSE IF a \in PRIMERA..PRIMERA + CUANTAS - 1 THEN RELLENO ELSE 0
  <2> DEFINE h == 2 * Cuantos + 1
  <2>0. a \in Dir
    BY ArranqueAssumption
  <2>1. a \in Cubierta(fichero) <=> \E x \in 1..Cuantos : Cubre(fichero[x], a)
    BY <1>4, <2>0 DEF Cubierta
  <2>2. CASE mem[a] = 0 /\ \A x \in 0..h : ~Toca(Mandos[x], a)
    <3>1. 1 \in 0..h /\ \A x \in 1..Cuantos : x + 1 \in 0..h
      BY <1>4
    <3>2. a \notin PRIMERA..PRIMERA + CUANTAS - 1 /\ a \notin Cubierta(fichero)
      BY <1>4, <1>10, <1>12, <2>1, <2>2, <3>1
    <3> QED
      BY <2>2, <3>2
  <2>3. CASE \E j \in 0..h : /\ Toca(Mandos[j], a) /\ mem[a] = Mandos[j].dat[a - Mandos[j].a + 1]
                             /\ \A x \in j + 1..h : ~Toca(Mandos[x], a)
    <3>1. PICK j \in 0..h : /\ Toca(Mandos[j], a) /\ mem[a] = Mandos[j].dat[a - Mandos[j].a + 1]
                            /\ \A x \in j + 1..h : ~Toca(Mandos[x], a)
      BY <2>3
    <3>2. j = 1 \/ (\E x \in 1..Cuantos : j = x + 1) \/ (\E x \in 1..Cuantos : j = Cuantos + x + 1)
          \/ j = 0
      <4>1. CASE j \in 2..Cuantos + 1
        <5>1. j - 1 \in 1..Cuantos /\ j = (j - 1) + 1
          BY <1>4, <4>1
        <5> QED
          BY <5>1
      <4>2. CASE j \in Cuantos + 2..h
        <5>1. j - Cuantos - 1 \in 1..Cuantos /\ j = Cuantos + (j - Cuantos - 1) + 1
          BY <1>4, <4>2
        <5> QED
          BY <5>1
      <4>3. j = 0 \/ j = 1 \/ j \in 2..Cuantos + 1 \/ j \in Cuantos + 2..h
        BY <1>4
      <4> QED
        BY <4>1, <4>2, <4>3
    <3>3. CASE j = 0
      <4>1. Mandos[0] = Ninguno /\ Ninguno.op # U
        BY <1>0, MandosDe, Letreros DEF Ninguno, Mandato
      <4> QED
        BY <3>1, <3>3, <4>1 DEF Toca
    <3>4. CASE j = 1
      <4>1. \A x \in 1..Cuantos : x + 1 \in j + 1..h
        BY <1>4, <3>4
      <4>2. a \notin Cubierta(fichero)
        BY <1>10, <2>1, <3>1, <4>1
      <4>3. a \in PRIMERA..PRIMERA + CUANTAS - 1 /\ mem[a] = RELLENO
        BY <1>4, <1>12, <3>1, <3>4
      <4> QED
        BY <4>2, <4>3
    <3>5. ASSUME NEW x \in 1..Cuantos, j = x + 1
          PROVE  a \in Cubierta(fichero) /\ mem[a] = Pone(fichero, a)
      <4>1. Cubre(fichero[x], a)
        BY <1>10, <3>1, <3>5
      <4>2. S3(fichero[x])
        BY <1>4, <4>1 DEF SoloS3, S3, Cubre
      <4>3. mem[a] = fichero[x].dat[a - fichero[x].dir + 1]
        <5>1. Mandos[j] = DeLinea(fichero[x])
          BY <1>4, <3>5
        <5>2. DeLinea(fichero[x]).a = fichero[x].dir /\ DeLinea(fichero[x]).dat = fichero[x].dat
          BY <4>2 DEF DeLinea, Mandato
        <5> QED
          BY <3>1, <5>1, <5>2
      <4>4. ASSUME NEW y \in DOMAIN fichero, Cubre(fichero[y], a) PROVE y <= x
        <5>1. y \in 1..Cuantos
          BY <1>4
        <5>2. Toca(Mandos[y + 1], a)
          BY <1>10, <4>4, <5>1
        <5>3. y + 1 \notin j + 1..h
          BY <3>1, <5>2
        <5>4. Cuantos \in Nat /\ x \in Nat /\ y \in Nat /\ y <= Cuantos /\ j = x + 1
          BY <1>4, <3>5, <5>1
        <5>5. y + 1 \in j + 1..h \/ y <= x
          BY <5>4
        <5> QED
          BY <5>3, <5>5
      <4>5. Pone(fichero, a) = fichero[x].dat[a - fichero[x].dir + 1]
        BY <1>0, <1>4, <4>1, <4>4, PoneUltima
      <4> QED
        BY <2>1, <4>1, <4>3, <4>5
    <3>6. ASSUME NEW x \in 1..Cuantos, j = Cuantos + x + 1 PROVE FALSE
      BY <1>11, <3>1, <3>6
    <3> QED
      BY <3>2, <3>3, <3>4, <3>5, <3>6
  <2> QED
    BY <1>9, <2>2, <2>3 DEF Vale
<1> QED
  BY <1>8, <1>13

\* A difference that is shown is one between memory and the line.
LEMMA AlarmaPaso ==
  CargaInv /\ [Next]_vars =>
    \A d \in difs' \ difs : Fundada(fichero[d[2]], d[1])
<1> SUFFICES ASSUME CargaInv, [Next]_vars, NEW d \in difs' \ difs
             PROVE  Fundada(fichero[d[2]], d[1])
  OBVIOUS
<1>0. Tipos /\ fichero \in Ficheros
  BY DEF CargaInv, Tipos
<1>1. Compara
  <2>1. difs' # difs
    OBVIOUS
  <2> QED
    BY <2>1 DEF Next, Vram, VNext, Sesion, ANext, vars, avars, sube, Llega, Cargador, Subidor,
       Carga_y_arranca, Busca, Escucha, Limpia, Lineas, FinLineas, Comprueba, Recibe, Arranca
<1>2. /\ upc = "espera" /\ Len(ist_data) = Parte(fichero[n])
      /\ difs' = difs \cup ({x \in DOMAIN ist_data : ist_data[x] # Esperado(fichero[n], x)} \X {n})
  BY <1>1 DEF Compara
<1>3. d[2] = n /\ d[1] \in DOMAIN ist_data /\ ist_data[d[1]] # Esperado(fichero[n], d[1])
  BY <1>2
<1>4. PICK g, i : Fases /\ Caso(g, i)
  BY <1>2 DEF CargaInv, SesionInv, Saludando
<1>5. /\ n \in DOMAIN fichero /\ S3(fichero[n])
      /\ \A x \in 1..Len(ist_data) : ist_data[x] = Leido(fichero[n].dir + x - 1)
  BY <1>0, <1>2, <1>4, RespuestaEntera
<1> DEFINE x == d[1]
           h == Len(fichero[n].dat)
           e == Len(ist_data)
<1>6. x \in 1..e /\ DOMAIN fichero[n].dat = 1..h /\ (x \in 1..h \/ (h <= 1 /\ x = h + 1))
  <2>1. DOMAIN ist_data = 1..e /\ e \in Nat
    BY <1>0 DEF Tipos
  <2>2. h \in Nat /\ (e <= h \/ (h <= 1 /\ e = h + 1))
    BY <1>0, <1>2, <1>5, LineasSubidas
  <2>3. DOMAIN fichero[n].dat = 1..h
    BY <1>0, <1>5, LugarDeLinea
  <2>4. x \in 1..e
    BY <1>3, <2>1
  <2> HIDE DEF x, h, e
  <2>5. x \in 1..h \/ (h <= 1 /\ x = h + 1)
    BY <2>1, <2>2, <2>4
  <2> QED
    BY <2>3, <2>4, <2>5
<1>7. CASE x \in DOMAIN fichero[n].dat
  <2>1. Lugar(fichero[n], x) = fichero[n].dir + x - 1
    BY <1>0, <1>5, <1>7, LugarDeLinea
  <2>2. ist_data[x] # fichero[n].dat[x]
    BY <1>3, <1>7 DEF Esperado
  <2>3. Leido(Lugar(fichero[n], x)) # fichero[n].dat[x]
    BY <1>5, <1>6, <2>1, <2>2
  <2> QED
    BY <1>3, <1>7, <2>3 DEF Fundada
<1>8. CASE x \notin DOMAIN fichero[n].dat
  BY <1>3, <1>6, <1>8 DEF Fundada
<1> QED
  BY <1>7, <1>8

\* What the check of the uploader shows is a byte that memory holds otherwise
\* than the line, or the one behind a line of one byte or none (upload:179), for
\* every file and however bytes arrive (upload:170-195).
THEOREM SinFalsasAlarmas == Spec => SinFalsaAlarma
<1>1. Spec => []CargaInv
  BY CargaInvInit, CargaInvPaso, PTL DEF Spec
<1>2. CargaInv /\ [Next]_vars =>
        [\A d \in difs' \ difs : Fundada(fichero[d[2]], d[1])]_vars
  BY AlarmaPaso
<1> QED
  BY <1>1, <1>2, PTL DEF Spec, SinFalsaAlarma

\* An uploader whose signature the loader does not print, as that of the source,
\* gives up with no byte written and nothing started (upload:44-56, main.c:51).
LEMMA InvSinFirma == CargaInv => SinFirma
<1> SUFFICES ASSUME CargaInv, ~index(Saludo, firma)
             PROVE  /\ upc \in {"busca", "escucha", "error"} /\ lpc \in {"orden", "saluda"}
                    /\ mem = [a \in RAM |-> 0]
  BY DEF SinFirma
<1> QED
  BY DEF CargaInv, SesionInv, Saludando

THEOREM SinFirmaNoEmpieza == Spec => []SinFirma
  BY CargaInvInit, CargaInvPaso, InvSinFirma, PTL DEF Spec

\* When the loader jumps, it is to the file's start address and memory is what
\* the file says, for every file, memory and line's pace (main.c:28-55,
\* upload:121-201); and every variable keeps to its values on the way.
THEOREM CargaSiempreIntegra == Spec => []CargaIntegra
<1>1. Spec => [](VramInv /\ CargaInv)
  BY VramInvInit, VramInvPaso, CargaInvInit, CargaInvPaso, PTL DEF Spec
<1>2. VramInv /\ CargaInv => TypeOK
  <2> SUFFICES ASSUME VramInv, CargaInv PROVE TypeOK
    OBVIOUS
  <2>1. k \in 0..ANCHO + Len(Saludo)
    <3>1. k \in Nat /\ (k < Len(Saludo) \/ k < ANCHO)
      BY DEF CargaInv, Tipos
    <3> QED
      BY <3>1, SaludoTipo, Tamanos
  <2> QED
    BY <2>1, RamTipo DEF TypeOK, CargaInv, Tipos, VramInv
<1>3. VramInv /\ CargaInv => CargaIntegra
  BY <1>2, InvImagen, InvSinFirma DEF CargaIntegra
<1> QED
  BY <1>1, <1>3, PTL
=============================================================================
