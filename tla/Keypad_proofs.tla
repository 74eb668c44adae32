---------------------------- MODULE Keypad_proofs ----------------------------
(***************************************************************************)
(* Proofs about Keypad, for every period, pulse, bounce and set of keys.   *)
(*                                                                         *)
(* The scan and the sampling clock have one period, so that each sample is *)
(* of one column and the key shows in one of four. The invariant counts    *)
(* the edges since the key's column was last sampled, and what that sample *)
(* was according to how long before it the key had moved.                  *)
(***************************************************************************)
EXTENDS Keypad, SequenceTheorems, TLAPS

T == N + 1

\* Columns from the key's to the one behind which the scan is.
r == (Estado - tecla[1] - 1) % 4

\* Edges since the key's column was sampled, and which sample that is.
Desde == IF r = 0 /\ cont = 0 THEN 4 * T ELSE r * T + cont
Pos == IF cont > 0 THEN r + 1 ELSE IF r = 0 THEN 4 ELSE r

\* Edges since the decoder's clock rises for a key that is firm.
Captura == IF r = 3 /\ cont >= 2 THEN cont - 1 ELSE r * T + cont + T - 1

\* The scan and the sampling clock go together.
Barrido ==
  /\ contador_div = cont
  /\ CLK_5ms <=> cont > 0 /\ cont <= N \div 2
  /\ cont > 0 => columnas = Estado
  /\ cont = 0 => columnas \in {Ninguna, (Estado + 3) % 4}
  /\ columnas = Ninguna => ~contacto /\ ~presionar_temp

\* The pulse is part of the time that a key is down, its beginning.
Aviso == /\ dato_valido => PB_D
         /\ PB_D => (dato_valido <=> cont_intr <= Pulso)

\* What contact and row are, from when they are known.
Contactos ==
  /\ edad > Rebote => (contacto <=> abajo)
  /\ edad = 0 => (contacto <=> ~abajo)
  /\ presionar_temp /\ cont # 1 => columnas = tecla[1]
  /\ presionar_temp /\ cont = 1 => tecla[1] = (Estado + 3) % 4
  /\ edad > Rebote + 1 /\ ~abajo => ~presionar_temp
  /\ edad = 0 /\ abajo => ~presionar_temp
  /\ edad > Rebote + 1 /\ abajo /\ cont # 1 /\ columnas = tecla[1] => presionar_temp
  /\ edad = 0 /\ ~abajo /\ cont # 1 /\ columnas = tecla[1] => presionar_temp

\* The other columns' samples are low; the key's is that of before it moved,
\* or the one it moved to, or anything while the contact bounces.
Muestras ==
  /\ \A i \in 1..4 : SHIFT_PB[i] => i = Pos
  /\ edad <= Desde => (SHIFT_PB[Pos] <=> ~abajo)
  /\ edad - Desde > Rebote + 1 => (SHIFT_PB[Pos] <=> abajo)

\* The filter shows the key's sample, one column late, and moves once.
Filtrado ==
  /\ Pos > 1 => (PB_D <=> SHIFT_PB[Pos])
  /\ Pos = 1 /\ abajo /\ PB_D => SHIFT_PB[1]
  /\ Pos = 1 /\ ~abajo /\ SHIFT_PB[1] => PB_D
  /\ Pos = 1 /\ edad - Desde - 4 * T > Rebote + 1 => (PB_D <=> abajo)

Cuenta == /\ avisos <= 1
          /\ abajo => (avisos = 1 <=> PB_D)

Codigo == abajo /\ edad - Captura > Rebote => dato_temp = tecla

IInv == TypeOK /\ Barrido /\ Aviso /\ Contactos /\ Muestras /\ Filtrado /\ Cuenta /\ Codigo

\* The constants as numbers.
LEMMA Numeros ==
  /\ DELAY = N /\ N \in Nat /\ N >= 2 /\ T \in Nat /\ T = N + 1 /\ T >= 3
  /\ Pulso \in Nat /\ Pulso >= 1 /\ Rebote \in Nat /\ Pausa \in Nat
  /\ Rebote < 4 * T /\ Rebote + 5 * T + 1 < Pausa
  /\ \A t \in Teclas : t[1] \in 0..3 /\ t[2] \in 0..3 /\ t = <<t[1], t[2]>>
<1>1. \A t \in Teclas : t[1] \in 0..3 /\ t[2] \in 0..3 /\ t = <<t[1], t[2]>>
  BY KeypadAssumption DEF Lineas
<1> QED
  BY <1>1, KeypadAssumption, RitmoAssumption DEF T

\* The four columns go round.
LEMMA Vuelta ==
  ASSUME NEW e \in 0..3, NEW q \in 0..3
  PROVE  LET x == (e - q - 1) % 4
             y == (((e + 1) % 4) - q - 1) % 4
         IN /\ x \in 0..3 /\ (e + 1) % 4 \in 0..3 /\ (e + 3) % 4 \in 0..3
            /\ x = 3 => y = 0
            /\ x # 3 => y = x + 1
            /\ (x = 0 <=> q = (e + 3) % 4)
            /\ (x = 3 <=> q = e)
            /\ (((e + 1) % 4) + 3) % 4 = e
<1>1. e \in {0, 1, 2, 3} /\ q \in {0, 1, 2, 3}
  OBVIOUS
<1> QED
  BY <1>1

\* Four samples of which the oldest makes room.
LEMMA Desplaza ==
  ASSUME NEW S, NEW s \in [1..4 -> S], NEW m \in S
  PROVE  LET z == <<m>> \o SubSeq(s, 1, 3) IN
         /\ z \in [1..4 -> S]
         /\ z[1] = m /\ z[2] = s[1] /\ z[3] = s[2] /\ z[4] = s[3]
<1> DEFINE u == SubSeq(s, 1, 3)
           z == <<m>> \o u
<1>1. s \in Seq(S) /\ Len(s) = 4
  <2>1. s \in Seq(S)
    BY SeqDef
  <2> QED
    BY <2>1
<1>2. u \in Seq(S) /\ Len(u) = 3 /\ \A i \in 1..3 : u[i] = s[i]
  BY <1>1, SubSeqProperties
<1> HIDE DEF u
<1>3. <<m>> \in Seq(S) /\ Len(<<m>>) = 1 /\ <<m>>[1] = m
  OBVIOUS
<1>4. z \in Seq(S) /\ Len(z) = 4 /\ z[1] = m
      /\ z[2] = u[1] /\ z[3] = u[2] /\ z[4] = u[3]
  <2>1. /\ z \in Seq(S) /\ Len(z) = Len(<<m>>) + Len(u)
        /\ \A i \in 1..Len(<<m>>) + Len(u) :
             z[i] = IF i <= Len(<<m>>) THEN <<m>>[i] ELSE u[i - Len(<<m>>)]
    BY <1>2, <1>3, ConcatProperties
  <2> HIDE DEF z
  <2> QED
    BY <1>2, <1>3, <2>1
<1> HIDE DEF z
<1>5. z \in [1..4 -> S]
  <2>1. z \in [1..Len(z) -> S]
    BY <1>4, LenProperties
  <2> QED
    BY <1>4, <2>1
<1>6. 1 \in 1..3 /\ 2 \in 1..3 /\ 3 \in 1..3
  OBVIOUS
<1> QED
  BY Zenon, <1>2, <1>4, <1>5, <1>6 DEF z, u
-----------------------------------------------------------------------------
(* One edge of the clock *)

\* The scan, by the place in a column.
LEMMA RelojBarrido ==
  ASSUME TypeOK, Barrido, Reloj
  PROVE  /\ columnas' = Estado /\ tecla' = tecla /\ abajo' = abajo
         /\ cont < N => cont' = cont + 1 /\ Estado' = Estado
         /\ cont = N => cont' = 0 /\ Estado' = (Estado + 1) % 4
         /\ contador_div' = cont'
         /\ (CLK_5ms' <=> cont < N \div 2)
         /\ (CLK_5ms' /\ ~CLK_5ms <=> cont = 0)
<1>1. N \in Nat /\ N >= 2 /\ DELAY = N /\ cont \in 0..N
  BY Numeros DEF TypeOK
<1>2. N \div 2 \in Nat /\ N \div 2 >= 1 /\ N \div 2 < N
  BY <1>1
<1>3. CLK_5ms' <=> cont < N \div 2
  BY DEF Reloj, Divide, Barrido
<1>4. CLK_5ms' /\ ~CLK_5ms <=> cont = 0
  BY <1>1, <1>2, <1>3 DEF Barrido
<1>5. columnas' = Estado /\ tecla' = tecla /\ abajo' = abajo
  BY DEF Reloj, Barre, Contacto
<1>6. /\ cont < N => cont' = cont + 1 /\ Estado' = Estado
      /\ cont = N => cont' = 0 /\ Estado' = (Estado + 1) % 4
  BY <1>1 DEF Reloj, Barre
<1>7. contador_div' = cont'
  BY <1>1, <1>6 DEF Reloj, Divide, Barrido
<1> QED
  BY <1>3, <1>4, <1>5, <1>6, <1>7

\* The contact and its age.
LEMMA RelojContacto ==
  ASSUME TypeOK, Reloj
  PROVE  /\ contacto' \in BOOLEAN /\ edad' \in 0..Pausa
         /\ edad < Pausa => edad' = edad + 1
         /\ edad = Pausa => edad' = Pausa
         /\ edad >= Rebote => (contacto' <=> abajo)
<1>1. edad \in 0..Pausa /\ Rebote \in Nat /\ Pausa \in Nat /\ abajo \in BOOLEAN
  BY Numeros DEF TypeOK
<1>2. contacto' \in IF edad < Rebote THEN BOOLEAN ELSE {abajo}
  BY DEF Reloj, Contacto
<1>3. contacto' \in BOOLEAN
  BY <1>1, <1>2
<1>4. edad >= Rebote => (contacto' <=> abajo)
  <2> SUFFICES ASSUME edad >= Rebote PROVE contacto' = abajo
    OBVIOUS
  <2>1. ~(edad < Rebote)
    BY <1>1
  <2> QED
    BY <1>2, <2>1
<1>5. edad' = IF edad < Pausa THEN edad + 1 ELSE edad
  BY DEF Reloj, Contacto
<1> QED
  BY <1>1, <1>3, <1>4, <1>5

\* The row, and what the decoder takes from it.
LEMMA RelojFila ==
  ASSUME TypeOK, Barrido, Reloj
  PROVE  /\ presionar_temp' <=> contacto /\ columnas = tecla[1]
         /\ presionar_temp' \in BOOLEAN
         /\ dato_temp' \in Lineas \X Lineas
         /\ ~(presionar_temp' /\ ~presionar_temp) => dato_temp' = dato_temp
         /\ presionar_temp' /\ ~presionar_temp /\ columnas = Estado /\ contacto' =>
              dato_temp' = tecla
<1>1. tecla[1] \in Lineas /\ tecla[2] \in Lineas /\ tecla = <<tecla[1], tecla[2]>>
  BY Numeros DEF TypeOK, Lineas
<1>2. \A c \in Lineas \cup {Ninguna} : \A k \in BOOLEAN :
        /\ k /\ c = tecla[1] => Filas(c, k) = {tecla[2]}
        /\ ~(k /\ c = tecla[1]) => Filas(c, k) = {}
  BY DEF Filas
<1>3. columnas \in Lineas \cup {Ninguna} /\ contacto \in BOOLEAN
  BY DEF TypeOK
<1>4. columnas' = Estado /\ tecla' = tecla /\ Estado \in Lineas /\ contacto' \in BOOLEAN
  BY RelojBarrido, RelojContacto DEF TypeOK
<1>5. presionar_temp' = (Filas(columnas, contacto) # {})
  BY DEF Reloj
<1>6. presionar_temp' <=> contacto /\ columnas = tecla[1]
  BY Zenon, <1>2, <1>3, <1>5
<1>7. CASE ~(presionar_temp' /\ ~presionar_temp)
  <2>1. dato_temp' = dato_temp
    BY <1>7 DEF Reloj, Decodifica
  <2> QED
    BY Zenon, <1>5, <1>6, <1>7, <2>1 DEF TypeOK
<1>8. CASE presionar_temp' /\ ~presionar_temp
  <2>1. PICK c \in {columnas, columnas'},
             f \in {Filas(columnas, contacto), Filas(columnas', contacto')} :
               dato_temp' = IF f = {} THEN dato_temp ELSE <<c, CHOOSE x \in f : TRUE>>
    BY <1>8 DEF Reloj, Decodifica
  <2>2. c \in Lineas
    BY <1>1, <1>4, <1>6, <1>8
  <2>3. f \in {{}, {tecla[2]}}
    BY <1>2, <1>3, <1>4
  <2>4. f # {} => dato_temp' = <<c, tecla[2]>>
    BY <2>1, <2>3
  <2>5. dato_temp' \in Lineas \X Lineas
    BY <1>1, <2>1, <2>2, <2>3, <2>4 DEF TypeOK
  <2>6. ASSUME columnas = Estado, contacto' PROVE dato_temp' = tecla
    <3>1. c = tecla[1]
      BY <1>4, <1>6, <1>8, <2>6
    <3>2. f = {tecla[2]}
      BY <1>2, <1>3, <1>4, <1>6, <1>8, <2>6
    <3> QED
      BY <1>1, <2>4, <3>1, <3>2
  <2> QED
    BY Zenon, <1>5, <1>6, <1>8, <2>5, <2>6
<1> QED
  BY <1>7, <1>8

\* The samples, one for each column.
LEMMA RelojMuestra ==
  ASSUME TypeOK, Barrido, Reloj
  PROVE  /\ SHIFT_PB' \in [1..4 -> BOOLEAN] /\ PB_D' \in BOOLEAN
         /\ cont # 0 => SHIFT_PB' = SHIFT_PB /\ PB_D' = PB_D
         /\ cont = 0 =>
              /\ \E m \in {presionar_temp, presionar_temp'} : SHIFT_PB'[1] = m
              /\ SHIFT_PB'[2] = SHIFT_PB[1] /\ SHIFT_PB'[3] = SHIFT_PB[2]
              /\ SHIFT_PB'[4] = SHIFT_PB[3]
              /\ PB_D' <=> \E i \in 1..4 : SHIFT_PB[i]
<1>1. CLK_5ms' /\ ~CLK_5ms <=> cont = 0
  BY RelojBarrido
<1>2. CASE cont # 0
  <2>1. UNCHANGED <<SHIFT_PB, PB_D>>
    BY Zenon, <1>1, <1>2 DEF Reloj, Filtra
  <2> QED
    BY Zenon, <1>2, <2>1 DEF TypeOK
<1>3. CASE cont = 0
  <2>1. PICK m \in {presionar_temp, presionar_temp'} :
               SHIFT_PB' = <<m>> \o SubSeq(SHIFT_PB, 1, 3)
    BY Zenon, <1>1, <1>3 DEF Reloj, Filtra
  <2>2. m \in BOOLEAN
    BY RelojFila DEF TypeOK
  <2>3. SHIFT_PB \in [1..4 -> BOOLEAN]
    BY DEF TypeOK
  <2>4. /\ SHIFT_PB' \in [1..4 -> BOOLEAN] /\ SHIFT_PB'[1] = m
        /\ SHIFT_PB'[2] = SHIFT_PB[1] /\ SHIFT_PB'[3] = SHIFT_PB[2]
        /\ SHIFT_PB'[4] = SHIFT_PB[3]
    <3> DEFINE z == <<m>> \o SubSeq(SHIFT_PB, 1, 3)
    <3>1. /\ z \in [1..4 -> BOOLEAN]
          /\ z[1] = m /\ z[2] = SHIFT_PB[1] /\ z[3] = SHIFT_PB[2] /\ z[4] = SHIFT_PB[3]
      BY <2>2, <2>3, Desplaza
    <3>2. SHIFT_PB' = z
      BY <2>1
    <3> HIDE DEF z
    <3> QED
      BY Zenon, <3>1, <3>2
  <2>5. PB_D' = \E i \in 1..4 : SHIFT_PB[i]
    BY Zenon, <1>1, <1>3 DEF Reloj, Filtra
  <2>6. PB_D' \in BOOLEAN
    BY <2>5
  <2> QED
    BY Zenon, <1>3, <2>1, <2>4, <2>5, <2>6
<1> QED
  BY Zenon, <1>2, <1>3

\* The pulse, and its count.
LEMMA RelojAviso ==
  ASSUME TypeOK, Aviso, Reloj, PB_D' \in BOOLEAN
  PROVE  /\ Aviso' /\ cont_intr' \in 0..Pulso + 1 /\ dato_valido' \in BOOLEAN
         /\ avisos' = IF PB_D' /\ ~PB_D /\ avisos < 2 THEN avisos + 1 ELSE avisos
<1>1. /\ Pulso \in Nat /\ Pulso >= 1 /\ cont_intr \in 0..Pulso + 1
      /\ PB_D \in BOOLEAN /\ dato_valido \in BOOLEAN
  BY Numeros DEF TypeOK
<1>2. avisos' = IF dato_valido' /\ ~dato_valido /\ avisos < 2 THEN avisos + 1 ELSE avisos
  BY DEF Reloj
<1>3. CASE ~PB_D'
  <2>1. cont_intr' = 0 /\ dato_valido' = FALSE
    BY <1>3 DEF Reloj, Avisa
  <2>2. Aviso'
    BY Zenon, <1>3, <2>1 DEF Aviso
  <2>3. avisos' = avisos
    BY Zenon, <1>2, <2>1
  <2>4. cont_intr' \in 0..Pulso + 1
    BY <1>1, <2>1
  <2>5. dato_valido' \in BOOLEAN
    BY Zenon, <2>1
  <2> QED
    BY Zenon, <1>3, <2>2, <2>3, <2>4, <2>5
<1>4. CASE PB_D' /\ ~PB_D
  <2>1. cont_intr' = 1 /\ dato_valido' = TRUE
    BY <1>4 DEF Reloj, Avisa
  <2>2. ~dato_valido
    BY <1>4 DEF Aviso
  <2> QED
    BY <1>1, <1>2, <1>4, <2>1, <2>2 DEF Aviso
<1>5. CASE PB_D' /\ PB_D
  <2>1. PICK n \in {cont_intr + 1, Pulso + 1} :
            /\ cont_intr' = IF cont_intr = Pulso + 1 THEN cont_intr ELSE n
            /\ dato_valido' = (cont_intr' <= Pulso)
    BY <1>5 DEF Reloj, Avisa
  <2>2. cont_intr' \in 0..Pulso + 1 /\ cont_intr' >= cont_intr
    BY <1>1, <2>1
  <2>3. dato_valido' \in BOOLEAN /\ (dato_valido' <=> cont_intr' <= Pulso)
    <3>1. dato_valido' <=> cont_intr' <= Pulso
      BY Zenon, <2>1
    <3>2. dato_valido' \in BOOLEAN
      <4>1. (cont_intr' <= Pulso) \in BOOLEAN
        OBVIOUS
      <4> QED
        BY Zenon, <2>1, <4>1
    <3> QED
      BY Zenon, <3>1, <3>2
  <2>4. dato_valido' => dato_valido
    BY <1>1, <1>5, <2>2, <2>3 DEF Aviso
  <2> QED
    BY <1>2, <1>5, <2>2, <2>3, <2>4 DEF Aviso
<1> QED
  BY <1>3, <1>4, <1>5

\* The places of the key's column, in any state.
LEMMA Lugares ==
  ASSUME TypeOK
  PROVE  /\ r \in 0..3 /\ Pos \in 1..4 /\ Desde \in 1..4 * T /\ Captura \in 1..4 * T
         /\ Pos = 1 => Desde <= T
         /\ tecla[1] \in 0..3 /\ Estado \in 0..3 /\ cont \in 0..N
         /\ (Estado + 3) % 4 \in 0..3
         /\ (r = 0 <=> tecla[1] = (Estado + 3) % 4) /\ (r = 3 <=> tecla[1] = Estado)
<1>1. /\ N \in Nat /\ N >= 2 /\ T = N + 1 /\ cont \in 0..N
      /\ tecla[1] \in 0..3 /\ Estado \in 0..3
  BY Numeros DEF TypeOK, Lineas
<1>2. /\ r \in 0..3 /\ (Estado + 3) % 4 \in 0..3
      /\ (r = 0 <=> tecla[1] = (Estado + 3) % 4) /\ (r = 3 <=> tecla[1] = Estado)
  BY <1>1, Vuelta DEF r
<1> DEFINE q == r
<1>3. q \in 0..3 /\ q = r
  BY <1>2
<1> HIDE DEF q
<1>4. q = 0 \/ q = 1 \/ q = 2 \/ q = 3
  BY <1>3
<1>5. Pos \in 1..4 /\ (Pos = 1 => Desde <= T) /\ Desde \in 1..4 * T /\ Captura \in 1..4 * T
  BY <1>1, <1>3, <1>4 DEF Pos, Desde, Captura
<1> QED
  BY <1>1, <1>2, <1>5

\* And how an edge moves them.
LEMMA RelojLugares ==
  ASSUME TypeOK, Barrido, Reloj
  PROVE  /\ cont # 0 => Pos' = Pos /\ Desde' = Desde + 1
         /\ cont = 0 /\ r # 0 => Pos' = Pos + 1 /\ Desde' = Desde + 1
         /\ cont = 0 /\ r = 0 => /\ Pos = 4 /\ Pos' = 1
                                /\ Desde = 4 * T /\ Desde' = 1
         /\ r = 3 /\ cont = 1 => Captura' = 1
         /\ ~(r = 3 /\ cont = 1) => Captura' = Captura + 1
<1>1. /\ N \in Nat /\ N >= 2 /\ T = N + 1 /\ cont \in 0..N
      /\ tecla[1] \in 0..3 /\ Estado \in 0..3 /\ r \in 0..3
  BY Numeros, Lugares
<1>2. /\ tecla' = tecla
      /\ cont < N => cont' = cont + 1 /\ Estado' = Estado
      /\ cont = N => cont' = 0 /\ Estado' = (Estado + 1) % 4
  BY RelojBarrido
<1>3. cont < N => r' = r
  BY <1>2 DEF r
<1>4. cont = N => IF r = 3 THEN r' = 0 ELSE r' = r + 1
  BY <1>1, <1>2, Vuelta DEF r
<1> DEFINE q == r
           v == r'
           u == cont'
<1>5. /\ q \in 0..3 /\ q = r /\ v = r' /\ u = cont'
      /\ cont < N => v = q /\ u = cont + 1
      /\ cont = N => u = 0 /\ IF q = 3 THEN v = 0 ELSE v = q + 1
  BY <1>1, <1>2, <1>3, <1>4
<1>6. /\ Pos' = IF u > 0 THEN v + 1 ELSE IF v = 0 THEN 4 ELSE v
      /\ Desde' = IF v = 0 /\ u = 0 THEN 4 * T ELSE v * T + u
      /\ Captura' = IF v = 3 /\ u >= 2 THEN u - 1 ELSE v * T + u + T - 1
  BY DEF Pos, Desde, Captura, T
<1> HIDE DEF q, v, u
<1>7. q = 0 \/ q = 1 \/ q = 2 \/ q = 3
  BY <1>5
<1>8. cont # 0 => Pos' = Pos /\ Desde' = Desde + 1
  BY <1>1, <1>5, <1>6, <1>7 DEF Pos, Desde
<1>9. cont = 0 => IF r = 0 THEN Pos = 4 /\ Pos' = 1 /\ Desde = 4 * T /\ Desde' = 1
                           ELSE Pos' = Pos + 1 /\ Desde' = Desde + 1
  BY <1>1, <1>5, <1>6, <1>7 DEF Pos, Desde
<1>10. IF r = 3 /\ cont = 1 THEN Captura' = 1 ELSE Captura' = Captura + 1
  BY <1>1, <1>5, <1>6, <1>7 DEF Captura
<1> QED
  BY <1>8, <1>9, <1>10

LEMMA RelojTipo ==
  ASSUME TypeOK, Barrido, Aviso, Reloj
  PROVE  TypeOK' /\ Barrido' /\ Aviso'
<1>1. /\ SHIFT_PB' \in [1..4 -> BOOLEAN] /\ PB_D' \in BOOLEAN
      /\ presionar_temp' \in BOOLEAN /\ dato_temp' \in Lineas \X Lineas
      /\ contacto' \in BOOLEAN /\ edad' \in 0..Pausa
  BY RelojMuestra, RelojFila, RelojContacto
<1>2. /\ Aviso' /\ cont_intr' \in 0..Pulso + 1 /\ dato_valido' \in BOOLEAN
      /\ avisos' = IF PB_D' /\ ~PB_D /\ avisos < 2 THEN avisos + 1 ELSE avisos
  BY <1>1, RelojAviso
<1>3. avisos' \in 0..2
  BY <1>2 DEF TypeOK
<1>4. /\ N \in Nat /\ N >= 2 /\ DELAY = N /\ cont \in 0..N /\ Estado \in 0..3
      /\ (Estado + 1) % 4 \in 0..3 /\ (((Estado + 1) % 4) + 3) % 4 = Estado
  <2>1. Estado \in 0..3 /\ tecla[1] \in 0..3
    BY Lugares
  <2>2. (Estado + 1) % 4 \in 0..3 /\ (((Estado + 1) % 4) + 3) % 4 = Estado
    BY <2>1, Vuelta
  <2> QED
    BY <2>1, <2>2, Numeros, Lugares
<1>5. /\ columnas' = Estado /\ tecla' = tecla /\ abajo' = abajo
      /\ cont < N => cont' = cont + 1 /\ Estado' = Estado
      /\ cont = N => cont' = 0 /\ Estado' = (Estado + 1) % 4
      /\ contador_div' = cont' /\ (CLK_5ms' <=> cont < N \div 2)
  BY RelojBarrido
<1>6. Estado' \in 0..3 /\ cont' \in 0..N /\ columnas' \in 0..3
  BY <1>4, <1>5
<1>7. CLK_5ms' \in BOOLEAN
  <2>1. (contador_div < N \div 2) \in BOOLEAN
    OBVIOUS
  <2> QED
    BY Zenon, <2>1 DEF Reloj, Divide
<1>8. /\ cont' > 0 => columnas' = Estado'
      /\ cont' = 0 => columnas' = (Estado' + 3) % 4
      /\ columnas' # Ninguna
  BY <1>4, <1>5 DEF Ninguna
<1>9. CLK_5ms' <=> cont' > 0 /\ cont' <= N \div 2
  <2>1. N \div 2 \in Nat /\ N \div 2 < N
    BY <1>4
  <2> QED
    BY <1>4, <1>5, <2>1
<1>10. Barrido'
  BY Zenon, <1>5, <1>8, <1>9 DEF Barrido
<1>11. /\ Estado' \in Lineas /\ cont' \in 0..DELAY /\ columnas' \in Lineas \cup {Ninguna}
       /\ contador_div' \in 0..N
  BY <1>4, <1>5, <1>6 DEF Lineas
<1>12. tecla' \in Teclas /\ abajo' \in BOOLEAN
  BY <1>5 DEF TypeOK
<1>13. TypeOK'
  BY Zenon, <1>1, <1>2, <1>3, <1>7, <1>11, <1>12 DEF TypeOK
<1> QED
  BY Zenon, <1>2, <1>10, <1>13

LEMMA RelojContactos ==
  ASSUME TypeOK, Barrido, Contactos, Reloj
  PROVE  Contactos'
<1>1. /\ N \in Nat /\ N >= 2 /\ cont \in 0..N /\ Rebote \in Nat /\ Pausa \in Nat
      /\ Rebote + 2 < Pausa /\ edad \in 0..Pausa /\ tecla[1] \in 0..3
  BY Numeros, Lugares DEF TypeOK
<1>2. /\ columnas' = Estado /\ tecla' = tecla /\ abajo' = abajo
      /\ cont < N => cont' = cont + 1 /\ Estado' = Estado
      /\ cont = N => cont' = 0
  BY RelojBarrido
<1>3. /\ edad < Pausa => edad' = edad + 1
      /\ edad = Pausa => edad' = Pausa
      /\ edad >= Rebote => (contacto' <=> abajo)
  BY RelojContacto
<1>4. presionar_temp' <=> contacto /\ columnas = tecla[1]
  BY RelojFila
<1>5. edad' \in Nat /\ edad' # 0
  BY <1>1, <1>3
<1>6. edad' > Rebote => (contacto' <=> abajo)
  BY <1>1, <1>3
<1>7. edad' > Rebote + 1 => (contacto <=> abajo)
  BY <1>1, <1>3 DEF Contactos
<1>8. cont' = 1 <=> cont = 0
  BY <1>1, <1>2
<1>9. cont # 0 => columnas = Estado
  BY <1>1 DEF Barrido
<1>10. cont = 0 /\ columnas = tecla[1] => tecla[1] = (Estado + 3) % 4
  BY <1>1 DEF Barrido, Ninguna
<1>11. cont = 0 => Estado' = Estado
  BY <1>1, <1>2
<1>12. ASSUME presionar_temp', cont' = 1 PROVE tecla'[1] = (Estado' + 3) % 4
  BY <1>2, <1>4, <1>8, <1>10, <1>11, <1>12
<1> QED
  BY Zenon, <1>2, <1>4, <1>5, <1>6, <1>7, <1>8, <1>9, <1>12 DEF Contactos

\* What the sample of this edge is.
LEMMA Muestra ==
  ASSUME TypeOK, Barrido, Contactos, Reloj, cont = 0,
         NEW m \in {presionar_temp, presionar_temp'}
  PROVE  /\ m => r = 0
         /\ r = 0 /\ edad = 0 => (m <=> ~abajo)
         /\ r = 0 /\ edad > Rebote + 1 => (m <=> abajo)
<1>1. Rebote \in Nat /\ edad \in Nat /\ tecla[1] \in 0..3
      /\ (r = 0 <=> tecla[1] = (Estado + 3) % 4)
  BY Numeros, Lugares DEF TypeOK
<1>2. presionar_temp' <=> contacto /\ columnas = tecla[1]
  BY RelojFila
<1>3. presionar_temp => columnas = tecla[1]
  BY DEF Contactos
<1>4. columnas = tecla[1] => r = 0
  BY <1>1 DEF Barrido, Ninguna
<1>5. r = 0 /\ (contacto \/ presionar_temp) => columnas = tecla[1]
  BY <1>1 DEF Barrido
<1>6. CASE edad = 0
  BY <1>1, <1>2, <1>3, <1>4, <1>5, <1>6 DEF Contactos
<1>7. CASE edad > Rebote + 1
  <2>1. edad > Rebote
    BY <1>1, <1>7
  <2> QED
    BY <1>1, <1>2, <1>3, <1>4, <1>5, <1>7, <2>1 DEF Contactos
<1> QED
  BY <1>2, <1>3, <1>4, <1>6, <1>7

\* The samples as they are shifted: the key's goes on, or makes room for one.
LEMMA RelojMuestras ==
  ASSUME TypeOK, Barrido, Contactos, Muestras, Reloj
  PROVE  Muestras'
<1>1. /\ Rebote \in Nat /\ Pausa \in Nat /\ T \in Nat /\ T >= 3
      /\ Rebote + 5 * T + 1 < Pausa /\ Rebote < 4 * T
      /\ edad \in 0..Pausa /\ abajo \in BOOLEAN /\ abajo' = abajo
      /\ Pos \in 1..4 /\ Desde \in 1..4 * T
  BY Numeros, Lugares, RelojBarrido DEF TypeOK
<1>2. /\ edad < Pausa => edad' = edad + 1
      /\ edad = Pausa => edad' = Pausa
  BY RelojContacto
<1>3. CASE cont # 0
  <2>1. SHIFT_PB' = SHIFT_PB /\ Pos' = Pos /\ Desde' = Desde + 1
    BY <1>3, RelojMuestra, RelojLugares
  <2>2. edad' <= Desde' => edad <= Desde
    BY <1>1, <1>2, <2>1
  <2>3. edad' - Desde' > Rebote + 1 => edad - Desde > Rebote + 1
    BY <1>1, <1>2, <2>1
  <2> QED
    BY Zenon, <1>1, <2>1, <2>2, <2>3 DEF Muestras
<1>4. CASE cont = 0
  <2>1. PICK m \in {presionar_temp, presionar_temp'} : SHIFT_PB'[1] = m
    BY <1>4, RelojMuestra
  <2>2. /\ SHIFT_PB'[2] = SHIFT_PB[1] /\ SHIFT_PB'[3] = SHIFT_PB[2]
        /\ SHIFT_PB'[4] = SHIFT_PB[3]
    BY <1>4, RelojMuestra
  <2>3. /\ m => r = 0
        /\ r = 0 /\ edad = 0 => (m <=> ~abajo)
        /\ r = 0 /\ edad > Rebote + 1 => (m <=> abajo)
    BY <1>4, Muestra
  <2>4. \A i \in 1..4 : SHIFT_PB[i] => i = Pos
    BY DEF Muestras
  <2>5. CASE r # 0
    <3>1. Pos' = Pos + 1 /\ Desde' = Desde + 1 /\ Pos \in 1..3
      <4>1. Pos' = Pos + 1 /\ Desde' = Desde + 1
        BY <1>4, <2>5, RelojLugares
      <4> QED
        BY <1>4, <2>5, <4>1, Lugares DEF Pos
    <3>2. SHIFT_PB'[Pos'] = SHIFT_PB[Pos]
      BY <1>1, <2>2, <3>1
    <3>3. \A i \in 1..4 : SHIFT_PB'[i] => i = Pos'
      BY <1>1, <2>1, <2>2, <2>3, <2>4, <2>5, <3>1
    <3>4. edad' <= Desde' => edad <= Desde
      BY <1>1, <1>2, <3>1
    <3>5. edad' - Desde' > Rebote + 1 => edad - Desde > Rebote + 1
      BY <1>1, <1>2, <3>1
    <3> QED
      BY Zenon, <1>1, <3>2, <3>3, <3>4, <3>5 DEF Muestras
  <2>6. CASE r = 0
    <3>1. Pos = 4 /\ Pos' = 1 /\ Desde = 4 * T /\ Desde' = 1
      BY <1>4, <2>6, RelojLugares
    <3>2. \A i \in 1..4 : SHIFT_PB'[i] => i = Pos'
      BY <2>2, <2>4, <3>1
    <3>3. edad' <= Desde' => edad = 0
      BY <1>1, <1>2, <3>1
    <3>4. edad' - Desde' > Rebote + 1 => edad > Rebote + 1
      BY <1>1, <1>2, <3>1
    <3>5. SHIFT_PB'[Pos'] = m
      BY Zenon, <2>1, <3>1
    <3> QED
      BY Zenon, <1>1, <2>3, <2>6, <3>2, <3>3, <3>4, <3>5 DEF Muestras
  <2> QED
    BY <2>5, <2>6
<1> QED
  BY <1>3, <1>4

\* The filter follows the key's sample, which moves once for a press and once
\* for a release: the next one comes when the contact is firm.
LEMMA RelojFiltrado ==
  ASSUME TypeOK, Barrido, Contactos, Muestras, Filtrado, Reloj
  PROVE  Filtrado' /\ (IF abajo THEN PB_D => PB_D' ELSE PB_D' => PB_D)
<1>1. /\ Rebote \in Nat /\ Pausa \in Nat /\ T \in Nat /\ T >= 3
      /\ Rebote + 5 * T + 1 < Pausa /\ Rebote < 4 * T
      /\ edad \in 0..Pausa /\ abajo \in BOOLEAN /\ abajo' = abajo
      /\ Pos \in 1..4 /\ Desde \in 1..4 * T
  BY Numeros, Lugares, RelojBarrido DEF TypeOK
<1>2. /\ edad < Pausa => edad' = edad + 1
      /\ edad = Pausa => edad' = Pausa
  BY RelojContacto
<1>3. CASE cont # 0
  <2>1. SHIFT_PB' = SHIFT_PB /\ PB_D' = PB_D /\ Pos' = Pos /\ Desde' = Desde + 1
    BY <1>3, RelojMuestra, RelojLugares
  <2>2. edad' - Desde' - 4 * T > Rebote + 1 => edad - Desde - 4 * T > Rebote + 1
    BY <1>1, <1>2, <2>1
  <2>3. Pos' = 1 => SHIFT_PB'[1] = SHIFT_PB[1]
    BY <2>1
  <2> QED
    BY Zenon, <1>1, <2>1, <2>2, <2>3 DEF Filtrado
<1>4. CASE cont = 0
  <2>1. PB_D' <=> SHIFT_PB[Pos]
    <3>1. PB_D' <=> \E i \in 1..4 : SHIFT_PB[i]
      BY <1>4, RelojMuestra
    <3>2. \A i \in 1..4 : SHIFT_PB[i] => i = Pos
      BY DEF Muestras
    <3> QED
      BY Zenon, <1>1, <3>1, <3>2
  <2>2. /\ SHIFT_PB'[2] = SHIFT_PB[1] /\ SHIFT_PB'[3] = SHIFT_PB[2]
        /\ SHIFT_PB'[4] = SHIFT_PB[3]
    BY <1>4, RelojMuestra
  <2>3. IF abajo THEN PB_D => PB_D' ELSE PB_D' => PB_D
    <3>1. CASE Pos = 1
      BY Zenon, <2>1, <3>1 DEF Filtrado
    <3>2. CASE Pos # 1
      <4>1. Pos > 1
        BY <1>1, <3>2
      <4> QED
        BY Zenon, <2>1, <4>1 DEF Filtrado
    <3> QED
      BY <3>1, <3>2
  <2>4. CASE r # 0
    <3>1. Pos' = Pos + 1 /\ Pos \in 1..3
      <4>1. Pos' = Pos + 1
        BY <1>4, <2>4, RelojLugares
      <4> QED
        BY <1>4, <2>4, <4>1, Lugares DEF Pos
    <3>2. SHIFT_PB'[Pos'] = SHIFT_PB[Pos]
      BY <2>2, <3>1
    <3>3. Pos' # 1
      BY <3>1
    <3> QED
      BY Zenon, <2>1, <2>3, <3>2, <3>3 DEF Filtrado
  <2>5. CASE r = 0
    <3>1. Pos = 4 /\ Pos' = 1 /\ Desde = 4 * T /\ Desde' = 1
      BY <1>4, <2>5, RelojLugares
    <3>2. PICK m \in {presionar_temp, presionar_temp'} : SHIFT_PB'[1] = m
      BY <1>4, RelojMuestra
    <3>3. edad > Rebote + 1 => (m <=> abajo)
      BY <1>4, <2>5, Muestra
    <3>4. edad <= Desde \/ edad > Rebote + 1
      BY <1>1, <3>1
    <3>5. edad <= Desde => (SHIFT_PB[Pos] <=> ~abajo)
      BY DEF Muestras
    <3>6. IF abajo THEN PB_D' => SHIFT_PB'[1] ELSE SHIFT_PB'[1] => PB_D'
      BY Zenon, <2>1, <3>2, <3>3, <3>4, <3>5
    <3>7. edad' - Desde' - 4 * T > Rebote + 1 => edad - Desde > Rebote + 1
      BY <1>1, <1>2, <3>1
    <3>8. edad' - Desde' - 4 * T > Rebote + 1 => (PB_D' <=> abajo)
      BY Zenon, <2>1, <3>7 DEF Muestras
    <3>9. ~(Pos' > 1)
      BY <3>1
    <3> QED
      BY Zenon, <1>1, <2>3, <3>6, <3>8, <3>9 DEF Filtrado
  <2> QED
    BY <2>4, <2>5
<1> QED
  BY <1>3, <1>4

LEMMA RelojCuenta ==
  ASSUME TypeOK, Barrido, Aviso, Contactos, Muestras, Filtrado, Cuenta, Reloj
  PROVE  Cuenta'
<1>1. avisos' = IF PB_D' /\ ~PB_D /\ avisos < 2 THEN avisos + 1 ELSE avisos
  BY RelojMuestra, RelojAviso
<1>2. IF abajo THEN PB_D => PB_D' ELSE PB_D' => PB_D
  BY RelojFiltrado
<1>3. abajo' = abajo /\ avisos \in 0..1 /\ PB_D \in BOOLEAN /\ PB_D' \in BOOLEAN
  BY RelojBarrido, RelojMuestra DEF TypeOK, Cuenta
<1>4. CASE abajo
  <2>1. avisos = 1 <=> PB_D
    BY <1>4 DEF Cuenta
  <2> QED
    BY <1>1, <1>2, <1>3, <1>4, <2>1 DEF Cuenta
<1>5. CASE ~abajo
  BY <1>1, <1>2, <1>3, <1>5 DEF Cuenta
<1> QED
  BY <1>4, <1>5

\* The row of a firm key rises as its column begins, and then only.
LEMMA RelojCodigo ==
  ASSUME TypeOK, Barrido, Contactos, Codigo, Reloj
  PROVE  Codigo'
<1> SUFFICES ASSUME abajo', edad' - Captura' > Rebote PROVE dato_temp' = tecla'
  BY DEF Codigo
<1>1. /\ Rebote \in Nat /\ Pausa \in Nat /\ edad \in 0..Pausa /\ abajo \in BOOLEAN
      /\ abajo' = abajo /\ tecla' = tecla /\ Captura \in 1..4 * T /\ T \in Nat
      /\ N \in Nat /\ N >= 2
  BY Numeros, Lugares, RelojBarrido DEF TypeOK
<1>2. /\ edad < Pausa => edad' = edad + 1
      /\ edad = Pausa => edad' = Pausa
      /\ edad >= Rebote => (contacto' <=> abajo)
  BY RelojContacto
<1>3. /\ presionar_temp' <=> contacto /\ columnas = tecla[1]
      /\ ~(presionar_temp' /\ ~presionar_temp) => dato_temp' = dato_temp
      /\ presionar_temp' /\ ~presionar_temp /\ columnas = Estado /\ contacto' =>
           dato_temp' = tecla
  BY RelojFila
<1>4. /\ r = 3 <=> tecla[1] = Estado
      /\ cont # 0 => columnas = Estado
  BY Lugares DEF Barrido
<1>5. CASE r = 3 /\ cont = 1
  <2>1. Captura' = 1
    BY <1>5, RelojLugares
  <2>2. edad > Rebote
    BY <1>1, <1>2, <2>1
  <2>3. contacto /\ contacto'
    BY <1>1, <1>2, <2>2 DEF Contactos
  <2>4. columnas = Estado /\ columnas = tecla[1]
    BY <1>4, <1>5
  <2>5. ~presionar_temp
    <3>1. tecla[1] # (Estado + 3) % 4
      BY <1>5, Lugares
    <3> QED
      BY <1>5, <3>1 DEF Contactos
  <2> QED
    BY <1>1, <1>3, <2>3, <2>4, <2>5
<1>6. CASE ~(r = 3 /\ cont = 1)
  <2>1. Captura' = Captura + 1
    BY <1>6, RelojLugares
  <2>2. edad - Captura > Rebote /\ edad > Rebote + 1
    BY <1>1, <1>2, <2>1
  <2>3. dato_temp = tecla
    BY <1>1, <2>2 DEF Codigo
  <2>4. ASSUME presionar_temp', ~presionar_temp PROVE FALSE
    <3>1. columnas = tecla[1]
      BY <1>3, <2>4
    <3>2. cont = 1
      BY <1>1, <2>2, <2>4, <3>1 DEF Contactos
    <3>3. r = 3
      BY <1>4, <3>1, <3>2
    <3> QED
      BY <1>6, <3>2, <3>3
  <2> QED
    BY <1>1, <1>3, <2>3, <2>4
<1> QED
  BY <1>5, <1>6
-----------------------------------------------------------------------------
(* The invariant *)

\* A key that has been held, or let go, long enough has gone through.
LEMMA Firme ==
  ASSUME IInv, edad = Pausa
  PROVE  /\ SHIFT_PB[Pos] <=> abajo
         /\ PB_D <=> abajo
         /\ contacto <=> abajo
         /\ abajo => dato_temp = tecla
         /\ ~abajo => ~presionar_temp
         /\ abajo /\ cont # 1 /\ columnas = tecla[1] => presionar_temp
<1>1. /\ Rebote \in Nat /\ Pausa \in Nat /\ T \in Nat /\ T >= 3
      /\ Rebote + 5 * T + 1 < Pausa /\ Pos \in 1..4 /\ Desde \in 1..4 * T
      /\ Captura \in 1..4 * T /\ (Pos = 1 => Desde <= T)
  BY Numeros, Lugares DEF IInv
<1>2. /\ edad > Rebote /\ edad > Rebote + 1 /\ edad - Desde > Rebote + 1
      /\ edad - Captura > Rebote
      /\ Pos = 1 => edad - Desde - 4 * T > Rebote + 1
      /\ Pos = 1 \/ Pos > 1
  BY <1>1
<1>3. SHIFT_PB[Pos] <=> abajo
  BY Zenon, <1>2 DEF IInv, Muestras
<1>4. PB_D <=> abajo
  BY Zenon, <1>2, <1>3 DEF IInv, Filtrado
<1>5. abajo => dato_temp = tecla
  BY Zenon, <1>2 DEF IInv, Codigo
<1> QED
  BY Zenon, <1>2, <1>3, <1>4, <1>5 DEF IInv, Contactos

LEMMA IInvInit == Init => IInv
<1> SUFFICES ASSUME Init PROVE IInv
  OBVIOUS
<1>1. /\ Rebote \in Nat /\ Pausa \in Nat /\ T \in Nat /\ T >= 3 /\ N \in Nat
      /\ Rebote + 5 * T + 1 < Pausa /\ DELAY = N /\ Pulso \in Nat
  BY Numeros
<1>2. TypeOK
  <2>1. SHIFT_PB \in [1..4 -> BOOLEAN]
    BY DEF Init
  <2>2. dato_temp \in Lineas \X Lineas
    BY DEF Init, Lineas
  <2>3. /\ Estado \in Lineas /\ cont \in 0..DELAY /\ columnas \in Lineas \cup {Ninguna}
        /\ contador_div \in 0..N /\ cont_intr \in 0..Pulso + 1
        /\ edad \in 0..Pausa /\ avisos \in 0..2
    BY <1>1 DEF Init, Lineas
  <2>4. /\ presionar_temp \in BOOLEAN /\ CLK_5ms \in BOOLEAN /\ PB_D \in BOOLEAN
        /\ dato_valido \in BOOLEAN /\ abajo \in BOOLEAN /\ contacto \in BOOLEAN
        /\ tecla \in Teclas
    BY DEF Init
  <2> QED
    BY Zenon, <2>1, <2>2, <2>3, <2>4 DEF TypeOK
<1>3. Pos \in 1..4 /\ Desde \in 1..4 * T
  BY <1>2, Lugares
<1>4. Barrido /\ Aviso
  BY <1>1 DEF Init, Barrido, Aviso, Ninguna
<1>5. Contactos
  BY <1>1 DEF Init, Contactos
<1>6. \A i \in 1..4 : ~SHIFT_PB[i]
  BY DEF Init
<1>7. ~(edad <= Desde) /\ edad = Pausa /\ abajo = FALSE /\ PB_D = FALSE
  BY <1>1, <1>3 DEF Init
<1>8. ~SHIFT_PB[Pos]
  BY <1>3, <1>6
<1>9. Muestras
  BY Zenon, <1>6, <1>7, <1>8 DEF Muestras
<1>10. ~SHIFT_PB[1]
  BY <1>6
<1>11. Filtrado
  BY Zenon, <1>7, <1>8, <1>10 DEF Filtrado
<1>12. Cuenta /\ Codigo
  BY DEF Init, Cuenta, Codigo
<1> QED
  BY <1>2, <1>4, <1>5, <1>9, <1>11, <1>12 DEF IInv

LEMMA CeroDentro == 0 \in 0..Pausa
  BY Numeros

Cotas == Pos \in 1..4 /\ Desde \in 1..4 * T /\ Captura \in 1..4 * T

LEMMA CotasBien == TypeOK => Cotas
  BY Lugares DEF Cotas

LEMMA CotasLuego == TypeOK' => Cotas'
  BY CotasBien, PTL

\* A press finds the filter empty, whichever key it is.
LEMMA IInvPulsa ==
  ASSUME IInv, Pulsa
  PROVE  IInv'
<1>1. /\ ~abajo /\ edad = Pausa /\ tecla' \in Teclas /\ abajo' = TRUE /\ edad' = 0
      /\ avisos' = 0 /\ barrido' = barrido /\ presionar_temp' = presionar_temp
      /\ dato_temp' = dato_temp /\ filtro' = filtro /\ pulso' = pulso
      /\ contacto' = contacto
  BY DEF Pulsa
<1>2. /\ ~SHIFT_PB[Pos] /\ ~PB_D /\ ~contacto /\ ~presionar_temp
  BY <1>1, Firme
<1>3. /\ Rebote \in Nat /\ Pausa \in Nat /\ T \in Nat
  BY Numeros
<1>4. TypeOK'
  BY <1>1, <1>3 DEF IInv, TypeOK, barrido, filtro, pulso
<1>5. Pos' \in 1..4 /\ Desde' \in 1..4 * T /\ Captura' \in 1..4 * T
  BY <1>4, CotasLuego DEF Cotas, T
<1>6. Barrido' /\ Aviso'
  BY <1>1, <1>2 DEF IInv, Barrido, Aviso, barrido, filtro, pulso
<1>7. Contactos'
  BY <1>1, <1>2, <1>3 DEF Contactos
<1>8. \A i \in 1..4 : ~SHIFT_PB'[i]
  <2>1. SHIFT_PB' = SHIFT_PB
    BY <1>1 DEF filtro
  <2> QED
    BY Zenon, <1>2, <2>1 DEF IInv, Muestras
<1>9. PB_D' = PB_D
  BY <1>1 DEF filtro
<1>10. ~SHIFT_PB'[Pos'] /\ ~SHIFT_PB'[1]
  BY <1>5, <1>8
<1>11. ~(edad' - Desde' > Rebote + 1) /\ ~(edad' - Captura' > Rebote)
       /\ ~(edad' - Desde' - 4 * T > Rebote + 1)
  <2>1. edad' = 0
    BY <1>1
  <2> DEFINE x == Desde'
             y == Captura'
             z == edad'
  <2>2. x \in Nat /\ y \in Nat /\ z = 0
    BY <1>3, <1>5, <2>1
  <2> HIDE DEF x, y, z
  <2>3. ~(z - x > Rebote + 1) /\ ~(z - y > Rebote) /\ ~(z - x - 4 * T > Rebote + 1)
    BY <1>3, <2>2
  <2> QED
    BY Zenon, <2>3 DEF x, y, z
<1>12. Muestras'
  BY Zenon, <1>1, <1>8, <1>10, <1>11 DEF Muestras
<1>13. Filtrado'
  <2>1. T' = T
    BY DEF T
  <2> QED
    BY Zenon, <1>1, <1>2, <1>9, <1>10, <1>11, <2>1 DEF Filtrado
<1>14. Cuenta'
  BY <1>1, <1>2, <1>9 DEF Cuenta
<1>15. Codigo'
  BY Zenon, <1>11 DEF Codigo
<1> QED
  BY <1>4, <1>6, <1>7, <1>12, <1>13, <1>14, <1>15 DEF IInv

\* A release finds it full.
LEMMA IInvSuelta ==
  ASSUME IInv, Suelta
  PROVE  IInv'
<1>1. /\ abajo /\ edad = Pausa /\ abajo' = FALSE /\ edad' = 0
      /\ barrido' = barrido /\ presionar_temp' = presionar_temp
      /\ dato_temp' = dato_temp /\ filtro' = filtro /\ pulso' = pulso
      /\ tecla' = tecla /\ contacto' = contacto /\ avisos' = avisos
  BY DEF Suelta
<1>2. /\ SHIFT_PB[Pos] /\ PB_D /\ contacto
      /\ cont # 1 /\ columnas = tecla[1] => presionar_temp
  BY <1>1, Firme
<1>3. /\ Rebote \in Nat /\ Pausa \in Nat /\ T \in Nat /\ Desde \in 1..4 * T /\ Captura \in 1..4 * T
  BY Numeros, Lugares DEF IInv
<1>4. TypeOK'
  <2>0. edad' = 0
    BY <1>1
  <2>1. edad' \in 0..Pausa /\ abajo' \in BOOLEAN
    BY Zenon, <1>1, <1>3, <2>0, CeroDentro
  <2>2. /\ Estado' = Estado /\ cont' = cont /\ columnas' = columnas
        /\ contador_div' = contador_div /\ CLK_5ms' = CLK_5ms /\ SHIFT_PB' = SHIFT_PB
        /\ PB_D' = PB_D /\ cont_intr' = cont_intr /\ dato_valido' = dato_valido
    BY <1>1 DEF barrido, filtro, pulso
  <2> QED
    BY Zenon, <1>1, <2>1, <2>2 DEF IInv, TypeOK
<1>5. Pos' = Pos /\ Desde' = Desde /\ Captura' = Captura /\ T' = T
  BY <1>1 DEF Pos, Desde, Captura, r, T, barrido
<1>6. Barrido' /\ Aviso'
  BY <1>1, <1>2 DEF IInv, Barrido, Aviso, barrido, filtro, pulso
<1>7. Contactos'
  BY <1>1, <1>2, <1>3 DEF IInv, Contactos, barrido
<1>8. SHIFT_PB' = SHIFT_PB /\ PB_D' = PB_D
  BY <1>1 DEF filtro
<1>9. ~(edad' - Desde' > Rebote + 1) /\ ~(edad' - Desde' - 4 * T' > Rebote + 1)
  BY <1>1, <1>3, <1>5
<1>10. Muestras'
  BY Zenon, <1>1, <1>2, <1>5, <1>8, <1>9 DEF IInv, Muestras
<1>11. Filtrado'
  BY Zenon, <1>1, <1>2, <1>5, <1>8, <1>9 DEF IInv, Filtrado
<1>12. Cuenta' /\ Codigo'
  BY Zenon, <1>1 DEF IInv, Cuenta, Codigo
<1> QED
  BY <1>4, <1>6, <1>7, <1>10, <1>11, <1>12 DEF IInv

LEMMA IInvPaso == IInv /\ [Next]_vars => IInv'
<1> SUFFICES ASSUME IInv, [Next]_vars PROVE IInv'
  OBVIOUS
<1>1. CASE Reloj
  BY <1>1, RelojTipo, RelojContactos, RelojMuestras, RelojFiltrado, RelojCuenta, RelojCodigo
     DEF IInv
<1>2. CASE Pulsa
  BY <1>2, IInvPulsa
<1>3. CASE Suelta
  BY <1>3, IInvSuelta
<1>4. CASE UNCHANGED vars
  BY <1>4 DEF vars, barrido, filtro, pulso, mecanica, IInv, TypeOK, Barrido, Aviso, Contactos,
              Muestras, Filtrado, Cuenta, Codigo, Pos, Desde, Captura, r, T
<1> QED
  BY <1>1, <1>2, <1>3, <1>4 DEF Next

\* One interrupt for a press and its release, for every set of keys, period and
\* pulse and however a contact bounces that is firm within a scan
\* (Keypad_debounce.v:40-47, Keypad.v:180-194).
THEOREM UnSoloAviso == Spec => []PulsacionUnica
<1>1. IInv => PulsacionUnica
  BY DEF IInv, Cuenta, PulsacionUnica, UnaVez
<1> QED
  BY <1>1, IInvInit, IInvPaso, PTL DEF Spec

\* A key that has been held has raised it, and its code is the one that can be
\* read, for the same ones and wherever the scan was (Keypad.v:44-85, 103-176).
THEOREM TeclaAnunciada == Spec => []Anunciada
<1>1. IInv => Anunciada
  BY Firme DEF IInv, Cuenta, Anunciada
<1> QED
  BY <1>1, IInvInit, IInvPaso, PTL DEF Spec
=============================================================================
