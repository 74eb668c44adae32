--------------------------- MODULE GdbStub_proofs ---------------------------
(***************************************************************************)
(* Proofs about GdbStub, for every program, memory and set of requests     *)
(* that PeticionesAssumption allows. In order: the conversions of          *)
(* GdbTexto; the interrupts of the program (SiempreGuardado); the types    *)
(* and the loops (StubTipado); the answers of a copy (RespuestasVeraces);  *)
(* memory (RestosDePaso, MemoriaDelHost); Depurador                        *)
(* (DepuradorImplementado); and the packets of GdbEnlace, for every size  *)
(* of the buffer and every session (BufferCabe, EnlaceSoloLoPedido,        *)
(* EnlaceRespuesta).                                                       *)
(*                                                                         *)
(* Facts about every number or every sequence are proved by taking the     *)
(* least that fails (Minimo), which needs no induction theorem.            *)
(***************************************************************************)
EXTENDS GdbStub, GdbEnlace, WellFoundedInduction, SequenceTheorems, TLAPS

(* Numbers and sequences *)

\* Every set of naturals has a least one: induction for what follows.
LEMMA Minimo ==
  ASSUME NEW T \in SUBSET Nat, T # {}
  PROVE  \E x \in T : \A y \in T : x <= y
<1>1. PICK x \in T : \A y \in T : ~ (<<y, x>> \in OpToRel(<, Nat))
  BY NatLessThanWellFounded, WFMin
<1>2. \A y \in T : <<y, x>> \in OpToRel(<, Nat) <=> y < x
  BY DEF OpToRel
<1>3. \A y \in T : ~ (y < x)
  BY <1>1, <1>2
<1>4. \A y \in T : x <= y
  BY <1>3
<1> QED
  BY <1>4

LEMMA Monotona ==
  ASSUME NEW m \in Nat, NEW a \in Int, NEW b \in Int, a <= b
  PROVE  m * a <= m * b
  OBVIOUS

LEMMA Resto ==
  ASSUME NEW m \in Nat \ {0}, NEW x \in Int
  PROVE  /\ x % m \in 0..m - 1 /\ x \div m \in Int
         /\ x = m * (x \div m) + (x % m)
  OBVIOUS

\* Division with quotient and remainder known.
LEMMA Cociente ==
  ASSUME NEW m \in Nat \ {0}, NEW q \in Int, NEW r \in 0..m - 1
  PROVE  (m * q + r) \div m = q /\ (m * q + r) % m = r
<1> DEFINE x == m * q + r
           p == x \div m
           s == x % m
<1>1. x \in Int /\ p \in Int /\ s \in 0..m - 1 /\ x = m * p + s
  BY Resto
<1> HIDE DEF p, s
<1>2. m * (p - q) = r - s
  BY <1>1
<1>3. p - q < 1
  <2> SUFFICES ASSUME p - q >= 1 PROVE FALSE
    BY <1>1
  <2>1. m * (p - q) >= m
    BY <1>1
  <2> QED
    BY <2>1, <1>2, <1>1
<1>4. p - q > -1
  <2> SUFFICES ASSUME p - q <= -1 PROVE FALSE
    BY <1>1
  <2>1. m * (p - q) <= -m
    BY <1>1
  <2> QED
    BY <2>1, <1>2, <1>1
<1>5. p = q
  BY <1>1, <1>3, <1>4
<1>6. s = r
  BY <1>1, <1>5
<1> QED
  BY <1>5, <1>6 DEF p, s

LEMMA Base ==
  /\ B \in Nat /\ B > 1 /\ B % 2 = 0 /\ B * B \in Nat /\ B * B >= 4
  /\ CERO \in Int /\ CERO + B <= B * B /\ ESC \in Byte
<1>1. B \in Nat /\ B > 1 /\ B % 2 = 0
  BY BaseAssumption
<1>2. B * B \in Nat /\ B * B >= 4
  BY <1>1
<1>3. CERO \in 1..B * B - B /\ ESC \in 1..B * B - 1
  BY BaseAssumption
<1> QED
  BY <1>1, <1>2, <1>3 DEF Byte

LEMMA hexTipo == \A ch : hex(ch) \in -1..B - 1
  BY Base DEF hex, Digitos, Negativo

\* A byte is its two digits.
LEMMA Digitos2 ==
  ASSUME NEW b \in Byte
  PROVE  /\ b \div B \in 0..B - 1 /\ b % B \in 0..B - 1
         /\ (b \div B) * B + (b % B) = b
<1> DEFINE q == b \div B
           r == b % B
<1>1. b \in Int /\ 0 <= b /\ b < B * B
  BY Base DEF Byte
<1>2. r \in 0..B - 1 /\ q \in Int /\ b = B * q + r
  BY <1>1, Base, Resto
<1> HIDE DEF q, r
<1>3. q < B
  <2> SUFFICES ASSUME q >= B PROVE FALSE
    BY <1>2, Base
  <2>1. B * B <= B * q
    BY <1>2, Base, Monotona
  <2> QED
    BY <2>1, <1>1, <1>2, Base
<1>4. q >= 0
  <2> SUFFICES ASSUME q <= -1 PROVE FALSE
    BY <1>2, Base
  <2>1. B * q <= B * (-1)
    BY <1>2, Base, Monotona
  <2> QED
    BY <2>1, <1>1, <1>2, Base
<1>5. q \in 0..B - 1 /\ r \in 0..B - 1 /\ q * B + r = b
  BY <1>2, <1>3, <1>4, Base
<1> QED
  BY <1>5 DEF q, r

LEMMA hex2memTipo == \A hi, lo : hex2mem(hi, lo) \in Byte
<1> SUFFICES ASSUME NEW hi, NEW lo PROVE hex2mem(hi, lo) \in Byte
  OBVIOUS
<1> DEFINE h == hex(hi)
           l == hex(lo)
<1>1. h \in -1..B - 1 /\ l \in -1..B - 1
  BY hexTipo
<1> HIDE DEF h, l
<1>2. ASSUME NEW x \in 0..B - 1, NEW y \in 0..B - 1
      PROVE  x * B + y \in Byte
  <2>1. x * B <= (B - 1) * B /\ x * B >= 0
    BY Base
  <2> QED
    BY <2>1, Base DEF Byte
<1>3. B * B - 1 \in Byte
  BY Base DEF Byte
<1>4. CASE l = -1
  BY <1>4, <1>3 DEF hex2mem, Negativo, l
<1>5. CASE l # -1 /\ h = -1
  <2>1. B - 1 \in 0..B - 1 /\ l \in 0..B - 1
    BY <1>1, <1>5, Base
  <2>2. (B - 1) * B + l \in Byte
    BY <2>1, <1>2
  <2> QED
    BY <2>2, <1>5 DEF hex2mem, Negativo, l, h
<1>6. CASE l # -1 /\ h # -1
  <2>1. h * B + l \in Byte
    BY <1>1, <1>2, <1>6, Base
  <2> QED
    BY <2>1, <1>6 DEF hex2mem, Negativo, l, h
<1> QED
  BY <1>4, <1>5, <1>6

LEMMA hexInversa == \A d \in 0..B - 1 : hex(hexchars(d)) = d
  BY Base DEF hex, hexchars, Digitos

\* What hex2mem makes of what mem2hex wrote.
LEMMA hex2memInversa ==
  ASSUME NEW b \in Byte
  PROVE  hex2mem(hexchars(b \div B), hexchars(b % B)) = b
<1>1. hex(hexchars(b \div B)) = b \div B /\ hex(hexchars(b % B)) = b % B
  BY Digitos2, hexInversa
<1> QED
  BY <1>1, Digitos2, Base DEF hex2mem, Negativo

\* A register that takes in digits stays in its width.
LEMMA ValorTipo ==
  ASSUME NEW s, NEW n \in Nat
  PROVE  Valor(s, n) \in Byte
<1> DEFINE T(f, k) == IF k = 0 THEN 0 ELSE (f[k - 1] * B + hex(s[k])) % (B * B)
           F(m, f) == f = [k \in 0..m |-> T(f, k)]
           Sin == {m \in Nat : ~\E f : F(m, f)}
           h == CHOOSE f : F(n, f)
<1>1. \A m \in Nat : \E f : F(m, f)
  <2> SUFFICES ASSUME Sin # {} PROVE FALSE
    OBVIOUS
  <2>1. PICK m \in Sin : \A y \in Sin : m <= y
    BY Minimo
  <2>2. CASE m = 0
    <3> DEFINE g == [k \in 0..0 |-> 0]
    <3>1. g = [k \in 0..0 |-> T(g, k)]
      OBVIOUS
    <3> QED
      BY <2>1, <2>2, <3>1
  <2>3. CASE m > 0
    <3>1. m - 1 \in Nat /\ m - 1 \notin Sin
      BY <2>1, <2>3
    <3>2. PICK f : F(m - 1, f)
      BY <3>1
    <3> DEFINE g == [k \in 0..m |-> T(f, k)]
    <3>3. \A k \in 0..m - 1 : g[k] = f[k]
      BY <3>1, <3>2
    <3>4. ASSUME NEW k \in 0..m PROVE T(g, k) = T(f, k)
      <4> HIDE DEF g
      <4>1. k # 0 => g[k - 1] = f[k - 1]
        BY <3>1, <3>3
      <4> QED
        BY <4>1
    <3>5. g = [k \in 0..m |-> T(g, k)]
      BY <3>4
    <3> QED
      BY <2>1, <3>5
  <2> QED
    BY <2>1, <2>2, <2>3
<1>2. h = [k \in 0..n |-> T(h, k)]
  BY <1>1
<1>3. Valor(s, n) = h[n]
  BY DEF Valor
<1> HIDE DEF h
<1>4. \A k \in 0..n : h[k] \in Byte
  <2> DEFINE Mal == {k \in 0..n : h[k] \notin Byte}
  <2> SUFFICES ASSUME Mal # {} PROVE FALSE
    OBVIOUS
  <2>1. PICK k \in Mal : \A y \in Mal : k <= y
    <3>1. Mal \in SUBSET Nat
      OBVIOUS
    <3> QED
      BY <3>1, Minimo
  <2>2. CASE k = 0
    <3>1. h[k] = 0
      BY <1>2, <2>2
    <3> QED
      BY <2>1, <3>1, Base DEF Byte
  <2>3. CASE k # 0
    <3>1. k - 1 \in 0..n /\ k - 1 \notin Mal
      BY <2>1, <2>3
    <3>2. h[k - 1] \in Int
      BY <3>1, Base DEF Byte
    <3> DEFINE x == h[k - 1] * B + hex(s[k])
    <3>3. x \in Int
      BY <3>2, hexTipo, Base
    <3>4. h[k] = x % (B * B)
      BY <1>2, <2>1, <2>3
    <3> HIDE DEF x
    <3>5. h[k] \in Byte
      BY <3>3, <3>4, Resto, Base DEF Byte
    <3> QED
      BY <2>1, <3>5
  <2> QED
    BY <2>2, <2>3
<1> QED
  BY <1>3, <1>4

LEMMA hexToIntTipo ==
  ASSUME NEW s \in Seq(Byte)
  PROVE  hexToInt(s).intValue \in Byte /\ hexToInt(s).numChars \in 0..Len(s)
<1> DEFINE Fin(n) == n = Len(s) \/ hex(s[n + 1]) = Negativo
           P(n) == (\A k \in 1..n : hex(s[k]) # Negativo) /\ Fin(n)
           T == {n \in 0..Len(s) : Fin(n)}
           c == CHOOSE n \in 0..Len(s) : P(n)
<1>1. Len(s) \in Nat
  OBVIOUS
<1>2. T \in SUBSET Nat /\ T # {}
  BY <1>1
<1>3. PICK n \in T : \A y \in T : n <= y
  BY <1>2, Minimo
<1>4. \A k \in 1..n : hex(s[k]) # Negativo
  <2> SUFFICES ASSUME NEW k \in 1..n, hex(s[k]) = Negativo PROVE FALSE
    OBVIOUS
  <2>1. k - 1 \in 0..Len(s) /\ (k - 1) + 1 = k /\ k - 1 < n
    BY <1>1, <1>3
  <2>2. k - 1 \in T
    BY <2>1
  <2>3. n <= k - 1 /\ n \in Int
    BY <1>3, <2>2
  <2> HIDE DEF T
  <2> QED
    BY <2>1, <2>3
<1>5. c \in 0..Len(s)
  BY <1>3, <1>4
<1> HIDE DEF c
<1>6. hexToInt(s) = [numChars |-> c, intValue |-> Valor(s, c)]
  BY DEF hexToInt, c
<1>7. Valor(s, c) \in Byte
  BY <1>1, <1>5, ValorTipo
<1> QED
  BY <1>5, <1>6, <1>7

\* FlattenSeq puts the pieces together one after another.
LEMMA Aplana ==
  ASSUME NEW S, NEW n \in Nat \ {0}, NEW s \in [1..n -> Seq(S)]
  PROVE  \E h : /\ h = [k \in 1..n |-> IF k = 1 THEN s[k] ELSE h[k - 1] \o s[k]]
                /\ FlattenSeq(s) = h[n]
<1> DEFINE T(f, k) == IF k = 1 THEN s[k] ELSE f[k - 1] \o s[k]
           F(m, f) == f = [k \in 1..m |-> T(f, k)]
           Hay(m) == \E f : F(m, f)
           Sin == {m \in Nat : ~Hay(m)}
           h == CHOOSE f : F(n, f)
<1>1. Hay(0)
  <2> DEFINE g == [k \in 1..0 |-> 0]
  <2>1. F(0, g)
    OBVIOUS
  <2> QED
    BY <2>1
<1>2. ASSUME NEW m \in Nat \ {0}, Hay(m - 1) PROVE Hay(m)
  <2>1. PICK f : F(m - 1, f)
    BY <1>2
  <2> DEFINE g == [k \in 1..m |-> T(f, k)]
  <2>2. ASSUME NEW k \in 1..m - 1 PROVE g[k] = f[k]
    <3>1. k \in 1..m
      OBVIOUS
    <3>2. f[k] = T(f, k)
      BY <2>1
    <3> HIDE DEF T
    <3> QED
      BY <3>1, <3>2
  <2>3. ASSUME NEW k \in 1..m PROVE T(g, k) = T(f, k)
    <3> HIDE DEF g
    <3>1. k # 1 => k - 1 \in 1..m - 1
      BY <1>2
    <3>2. k # 1 => g[k - 1] = f[k - 1]
      BY <2>2, <3>1
    <3> QED
      BY <3>2
  <2> HIDE DEF T
  <2>4. g = [k \in 1..m |-> T(g, k)]
    BY <2>3
  <2> QED
    BY <2>4
<1> HIDE DEF Hay
<1>3. \A m \in Nat : Hay(m)
  <2> SUFFICES ASSUME Sin # {} PROVE FALSE
    OBVIOUS
  <2>1. PICK m \in Sin : \A y \in Sin : m <= y
    BY Minimo
  <2>2. m # 0 /\ m \in Nat
    BY <2>1, <1>1
  <2>3. m - 1 \in Nat /\ m - 1 \notin Sin
    BY <2>1, <2>2
  <2> QED
    BY <2>1, <2>2, <2>3, <1>2
<1>4. F(n, h)
  BY <1>3 DEF Hay
<1>5. Len(s) = n
  OBVIOUS
<1>6. FlattenSeq(s) = h[n]
  BY <1>5 DEF FlattenSeq
<1> HIDE DEF h
<1> QED
  BY <1>4, <1>6

\* w is made of the first m pieces of s, which begin at pos.
Pegados(s, m, w, pos) ==
  /\ pos \in [1..m + 1 -> Nat]
  /\ pos[1] = 1 /\ Len(w) = pos[m + 1] - 1
  /\ \A k \in 1..m :
       /\ pos[k] >= 1 /\ pos[k] + Len(s[k]) <= Len(w) + 1
       /\ pos[k + 1] = pos[k] + Len(s[k])
       /\ \A q \in 1..Len(s[k]) : w[pos[k] + q - 1] = s[k][q]

LEMMA Dentro ==
  ASSUME NEW a \in Nat, NEW l \in Nat, NEW t \in Nat, NEW q \in 1..l,
         a >= 1, a + l <= t + 1
  PROVE  a + q - 1 \in 1..t
  OBVIOUS

LEMMA PegaUno ==
  ASSUME NEW S, NEW n \in Nat, NEW s \in [1..n -> Seq(S)], NEW m \in 1..n,
         NEW w \in Seq(S), NEW ant, Pegados(s, m - 1, w, ant)
  PROVE  \E pos : Pegados(s, m, w \o s[m], pos)
<1> DEFINE pos == [k \in 1..m + 1 |-> IF k <= m THEN ant[k] ELSE ant[m] + Len(s[m])]
           x == w \o s[m]
<1>1. ant \in [1..m -> Nat] /\ ant[1] = 1 /\ Len(w) = ant[m] - 1
  BY DEF Pegados
<1>2. \A k \in 1..m - 1 : /\ ant[k] >= 1 /\ ant[k] + Len(s[k]) <= Len(w) + 1
                          /\ ant[k + 1] = ant[k] + Len(s[k])
                          /\ \A q \in 1..Len(s[k]) : w[ant[k] + q - 1] = s[k][q]
  BY DEF Pegados
<1>3. s[m] \in Seq(S) /\ Len(w) \in Nat
  OBVIOUS
<1>a. ASSUME NEW k \in 1..m PROVE Len(s[k]) \in Nat
  OBVIOUS
<1>4. /\ x \in Seq(S) /\ Len(x) = Len(w) + Len(s[m])
      /\ \A q \in 1..Len(w) : x[q] = w[q]
      /\ \A q \in 1..Len(s[m]) : x[Len(w) + q] = s[m][q]
  BY <1>3
<1> HIDE DEF x
<1>5. pos \in [1..m + 1 -> Nat] /\ pos[1] = 1 /\ Len(x) = pos[m + 1] - 1
  BY <1>1, <1>3, <1>4, <1>a
<1>6. (\A k \in 1..m : pos[k] = ant[k]) /\ pos[m + 1] = ant[m] + Len(s[m])
  OBVIOUS
<1> HIDE DEF pos
<1>7. ASSUME NEW k \in 1..m, NEW q \in 1..Len(s[k])
      PROVE  x[pos[k] + q - 1] = s[k][q]
  <2>1. CASE k = m
    <3>0. pos[k] = ant[m] /\ ant[m] \in Nat /\ Len(w) = ant[m] - 1
      BY <1>1, <1>6, <2>1
    <3>1. pos[k] + q - 1 = Len(w) + q
      BY <3>0
    <3> QED
      BY <3>1, <1>4, <2>1
  <2>2. CASE k # m
    <3>1. k \in 1..m - 1 /\ k + 1 \in 1..m
      BY <2>2
    <3>2. ant[k] \in Nat /\ ant[k] >= 1 /\ ant[k] + Len(s[k]) <= Len(w) + 1
      BY <3>1, <1>1, <1>2
    <3>3. Len(s[k]) \in Nat /\ Len(w) \in Nat
      BY <1>3, <1>a
    <3>4. ant[k] + q - 1 \in 1..Len(w)
      BY <3>2, <3>3, Dentro
    <3> QED
      BY <3>1, <3>4, <1>2, <1>4, <1>6
  <2> QED
    BY <2>1, <2>2
<1>8. ASSUME NEW k \in 1..m
      PROVE  /\ pos[k] >= 1 /\ pos[k] + Len(s[k]) <= Len(x) + 1
             /\ pos[k + 1] = pos[k] + Len(s[k])
  <2>1. CASE k = m
    <3>1. ant[m] >= 1 /\ ant[m] \in Nat /\ Len(w) = ant[m] - 1
      BY <1>1, <1>3
    <3>2. Len(s[m]) \in Nat
      BY <1>a
    <3>3. pos[k] = ant[m] /\ pos[k + 1] = ant[m] + Len(s[m])
      BY <2>1, <1>6
    <3>4. Len(x) = Len(w) + Len(s[m])
      BY <1>4
    <3>5. ant[m] + Len(s[m]) <= (Len(w) + Len(s[m])) + 1
      BY <3>1, <3>2
    <3>6. Len(s[k]) = Len(s[m])
      BY <2>1
    <3> QED
      BY <3>1, <3>3, <3>4, <3>5, <3>6
  <2>2. CASE k # m
    <3>1. k \in 1..m - 1 /\ k + 1 \in 1..m
      BY <2>2
    <3>2. ant[k] \in Nat /\ ant[k] >= 1 /\ ant[k] + Len(s[k]) <= Len(w) + 1
          /\ ant[k + 1] = ant[k] + Len(s[k])
      BY <3>1, <1>1, <1>2
    <3>3. Len(s[k]) \in Nat /\ Len(s[m]) \in Nat /\ Len(w) \in Nat
      BY <1>3, <1>a
    <3>4. pos[k] = ant[k] /\ pos[k + 1] = ant[k + 1]
      BY <3>1, <1>6
    <3>5. Len(x) = Len(w) + Len(s[m])
      BY <1>4
    <3> QED
      BY <3>2, <3>3, <3>4, <3>5
  <2> QED
    BY <2>1, <2>2
<1>9. Pegados(s, m, x, pos)
  BY <1>5, <1>7, <1>8 DEF Pegados
<1> QED
  BY <1>9 DEF x

\* A sequence of pieces put together.
LEMMA Trozos ==
  ASSUME NEW S, NEW n \in Nat, NEW s \in [1..n -> Seq(S)]
  PROVE  FlattenSeq(s) \in Seq(S) /\ \E pos : Pegados(s, n, FlattenSeq(s), pos)
<1>a. Len(s) = n
  OBVIOUS
<1>1. CASE n = 0
  <2>0. s = <<>>
    BY <1>1
  <2>1. FlattenSeq(s) = <<>>
    BY <1>1, <1>a, <2>0 DEF FlattenSeq
  <2>2. Pegados(s, 0, <<>>, [k \in 1..1 |-> 1])
    BY <1>1 DEF Pegados
  <2> QED
    BY <1>1, <2>1, <2>2
<1>2. CASE n > 0
  <2>1. PICK h : /\ h = [k \in 1..n |-> IF k = 1 THEN s[k] ELSE h[k - 1] \o s[k]]
                 /\ FlattenSeq(s) = h[n]
    <3>1. n \in Nat \ {0}
      BY <1>2
    <3> QED
      BY <3>1, Aplana
  <2> DEFINE Bien(m) == h[m] \in Seq(S) /\ \E pos : Pegados(s, m, h[m], pos)
             Mal == {m \in 1..n : ~Bien(m)}
  <2>2. Bien(1)
    <3>1. h[1] = s[1] /\ s[1] \in Seq(S)
      BY <2>1, <1>2
    <3> DEFINE pos == [k \in 1..2 |-> IF k = 1 THEN 1 ELSE 1 + Len(s[1])]
    <3>2. Pegados(s, 1, s[1], pos)
      BY <3>1 DEF Pegados
    <3> QED
      BY <3>1, <3>2
  <2>3. ASSUME NEW m \in 2..n, Bien(m - 1) PROVE Bien(m)
    <3>1. PICK ant : Pegados(s, m - 1, h[m - 1], ant)
      BY <2>3
    <3>a. m \in 1..n /\ m # 1
      OBVIOUS
    <3>b. h[m] = IF m = 1 THEN s[m] ELSE h[m - 1] \o s[m]
      BY <2>1, <3>a
    <3>2. h[m] = h[m - 1] \o s[m] /\ m \in 1..n /\ s[m] \in Seq(S)
      BY <3>a, <3>b
    <3>3. \E pos : Pegados(s, m, h[m], pos)
      BY <2>3, <3>1, <3>2, PegaUno
    <3> QED
      BY <2>3, <3>2, <3>3
  <2> HIDE DEF Bien
  <2>4. Mal = {}
    <3> SUFFICES ASSUME Mal # {} PROVE FALSE
      OBVIOUS
    <3>1. PICK m \in Mal : \A y \in Mal : m <= y
      <4>1. Mal \in SUBSET Nat
        OBVIOUS
      <4> QED
        BY <4>1, Minimo
    <3>2. m \in 2..n
      BY <3>1, <2>2
    <3>3. m - 1 \in 1..n /\ m - 1 \notin Mal
      BY <3>1, <3>2
    <3> QED
      BY <3>1, <3>2, <3>3, <2>3
  <2>5. Bien(n)
    BY <2>4, <1>2
  <2> QED
    BY <2>1, <2>5 DEF Bien
<1> QED
  BY <1>1, <1>2

\* Where the pieces begin, when none is longer than two.
LEMMA PegadosCerca ==
  ASSUME NEW n \in Nat, NEW s, NEW w, NEW pos, Pegados(s, n, w, pos),
         \A k \in 1..n : Len(s[k]) \in 1..2
  PROVE  /\ \A k \in 1..n + 1 : pos[k] <= 2 * k - 1
         /\ (\A k \in 1..n : Len(s[k]) = 2) => \A k \in 1..n + 1 : pos[k] = 2 * k - 1
<1>1. pos \in [1..n + 1 -> Nat] /\ pos[1] = 1 /\ \A k \in 1..n : pos[k + 1] = pos[k] + Len(s[k])
  BY DEF Pegados
<1> DEFINE Bien(k) == /\ pos[k] <= 2 * k - 1
                      /\ (\A x \in 1..n : Len(s[x]) = 2) => pos[k] = 2 * k - 1
           Mal == {k \in 1..n + 1 : ~Bien(k)}
<1>2. Bien(1)
  BY <1>1
<1>3. ASSUME NEW k \in 2..n + 1, Bien(k - 1) PROVE Bien(k)
  <2>1. k - 1 \in 1..n /\ (k - 1) + 1 = k
    OBVIOUS
  <2>2. pos[k] = pos[k - 1] + Len(s[k - 1]) /\ pos[k - 1] \in Nat
    BY <1>1, <2>1
  <2>3. Len(s[k - 1]) \in 1..2 /\ ((\A x \in 1..n : Len(s[x]) = 2) => Len(s[k - 1]) = 2)
    BY <2>1
  <2>4. pos[k - 1] <= 2 * (k - 1) - 1
    BY <1>3
  <2>5. pos[k] <= 2 * k - 1
    <3>1. ASSUME NEW a \in Nat, NEW l \in 1..2, NEW x \in Nat, a <= 2 * (x - 1) - 1
          PROVE  a + l <= 2 * x - 1
      BY <3>1
    <3>2. k \in Nat
      OBVIOUS
    <3> QED
      BY <2>2, <2>3, <2>4, <3>1, <3>2
  <2>6. (\A x \in 1..n : Len(s[x]) = 2) => pos[k] = 2 * k - 1
    <3> SUFFICES ASSUME \A x \in 1..n : Len(s[x]) = 2 PROVE pos[k] = 2 * k - 1
      OBVIOUS
    <3>1. pos[k - 1] = 2 * (k - 1) - 1
      BY <1>3
    <3>2. Len(s[k - 1]) = 2
      BY <2>1
    <3> QED
      BY <2>2, <3>1, <3>2
  <2> QED
    BY <2>5, <2>6
<1> HIDE DEF Bien
<1>4. Mal = {}
  <2> SUFFICES ASSUME Mal # {} PROVE FALSE
    OBVIOUS
  <2>1. PICK m \in Mal : \A y \in Mal : m <= y
    <3>1. Mal \in SUBSET Nat
      OBVIOUS
    <3> QED
      BY <3>1, Minimo
  <2>2. m \in 2..n + 1
    BY <2>1, <1>2
  <2>3. m - 1 \in 1..n + 1 /\ m - 1 \notin Mal
    BY <2>1, <2>2
  <2> QED
    BY <2>1, <2>2, <2>3, <1>3
<1>5. \A k \in 1..n + 1 : Bien(k)
  BY <1>4
<1> QED
  BY <1>5 DEF Bien

\* Two digits a byte.
LEMMA EnHexForma ==
  ASSUME NEW bytes \in Seq(Byte)
  PROVE  /\ EnHex(bytes) \in Seq(Int) /\ Len(EnHex(bytes)) = 2 * Len(bytes)
         /\ \A k \in 1..Len(bytes) :
              /\ EnHex(bytes)[2 * k - 1] = hexchars(bytes[k] \div B)
              /\ EnHex(bytes)[2 * k] = hexchars(bytes[k] % B)
<1> DEFINE n == Len(bytes)
           s == [k \in 1..n |-> mem2hex(bytes[k])]
<1>1. n \in Nat /\ DOMAIN bytes = 1..n
  OBVIOUS
<1>2. EnHex(bytes) = FlattenSeq(s)
  BY <1>1 DEF EnHex
<1>3. ASSUME NEW k \in 1..n
      PROVE  /\ mem2hex(bytes[k]) \in Seq(Int) /\ Len(mem2hex(bytes[k])) = 2
             /\ mem2hex(bytes[k])[1] = hexchars(bytes[k] \div B)
             /\ mem2hex(bytes[k])[2] = hexchars(bytes[k] % B)
  <2>1. bytes[k] \in Byte
    OBVIOUS
  <2>a. bytes[k] \div B \in 0..B - 1 /\ bytes[k] % B \in 0..B - 1
    BY <2>1, Digitos2
  <2>b. \A d \in 0..B - 1 : hexchars(d) \in Int
    BY Base DEF hexchars
  <2>2. hexchars(bytes[k] \div B) \in Int /\ hexchars(bytes[k] % B) \in Int
    BY <2>a, <2>b
  <2> QED
    BY <2>2 DEF mem2hex
<1>4. s \in [1..n -> Seq(Int)]
  BY <1>3
<1>5. \A k \in 1..n : s[k] = mem2hex(bytes[k])
  OBVIOUS
<1> HIDE DEF n, s
<1>6. EnHex(bytes) \in Seq(Int) /\ \E pos : Pegados(s, n, EnHex(bytes), pos)
  BY <1>1, <1>2, <1>4, Trozos
<1>7. PICK pos : Pegados(s, n, EnHex(bytes), pos)
  BY <1>6
<1>8. \A k \in 1..n : Len(s[k]) = 2
  BY <1>3, <1>5
<1>9. \A k \in 1..n + 1 : pos[k] = 2 * k - 1
  BY <1>1, <1>7, <1>8, PegadosCerca
<1>10. Len(EnHex(bytes)) = pos[n + 1] - 1
  BY <1>7 DEF Pegados
<1>11. Len(EnHex(bytes)) = 2 * n
  BY <1>1, <1>9, <1>10
<1>12. ASSUME NEW k \in 1..n
       PROVE  /\ EnHex(bytes)[2 * k - 1] = hexchars(bytes[k] \div B)
              /\ EnHex(bytes)[2 * k] = hexchars(bytes[k] % B)
  <2>1. pos[k] + 1 - 1 = 2 * k - 1 /\ pos[k] + 2 - 1 = 2 * k
    BY <1>1, <1>9
  <2>2. \A q \in 1..2 : EnHex(bytes)[pos[k] + q - 1] = s[k][q]
    BY <1>7, <1>8 DEF Pegados
  <2>3. EnHex(bytes)[pos[k] + 1 - 1] = s[k][1] /\ EnHex(bytes)[pos[k] + 2 - 1] = s[k][2]
    BY <2>2
  <2> QED
    BY <2>1, <2>3, <1>3, <1>5
<1> QED
  BY <1>6, <1>11, <1>12 DEF n

LEMMA MascaraInversa ==
  ASSUME NEW c \in Byte
  PROVE  Mascara(Mascara(c)) = c
<1> DEFINE q == c \div B
           r == c % B
<1>1. c \in Int /\ B \in Nat \ {0}
  BY Base DEF Byte
<1>2. q \in Int /\ r \in 0..B - 1 /\ c = B * q + r
  BY <1>1, Resto
<1> HIDE DEF q, r
<1>3. c + B = B * (q + 1) + r /\ c - B = B * (q - 1) + r
  BY <1>1, <1>2
<1>4. (c + B) \div B = q + 1
  BY <1>1, <1>2, <1>3, Cociente
<1>5. (c - B) \div B = q - 1
  BY <1>1, <1>2, <1>3, Cociente
<1>6. CASE q % 2 = 0
  <2>1. Mascara(c) = c + B
    BY <1>6 DEF Mascara, q
  <2>2. (q + 1) % 2 # 0
    BY <1>2, <1>6
  <2>3. Mascara(c + B) = (c + B) - B
    BY <1>4, <2>2 DEF Mascara
  <2> QED
    BY <2>1, <2>3, <1>1
<1>7. CASE q % 2 # 0
  <2>1. Mascara(c) = c - B
    BY <1>7 DEF Mascara, q
  <2>2. (q - 1) % 2 = 0
    BY <1>2, <1>7
  <2>3. Mascara(c - B) = (c - B) + B
    BY <1>5, <2>2 DEF Mascara
  <2> QED
    BY <2>1, <2>3, <1>1
<1> QED
  BY <1>6, <1>7

\* What bin2mem makes of what a host wrote.
LEMMA EnBinarioForma ==
  ASSUME NEW bytes \in Seq(Byte)
  PROVE  \E pos \in [1..Len(bytes) + 1 -> Nat] :
           /\ pos[1] = 1 /\ \A k \in 1..Len(bytes) + 1 : pos[k] <= 2 * k - 1
           /\ \A k \in 1..Len(bytes) :
                bin2mem(EnBinario(bytes), pos[k]) = [c |-> bytes[k], n |-> pos[k + 1] - pos[k]]
<1> DEFINE n == Len(bytes)
           t(k) == IF bytes[k] = ESC THEN <<ESC, Mascara(ESC)>> ELSE <<bytes[k]>>
           s == [k \in 1..n |-> t(k)]
           w == EnBinario(bytes)
<1>1. n \in Nat /\ DOMAIN bytes = 1..n
  OBVIOUS
<1>2. w = FlattenSeq(s)
  BY <1>1 DEF EnBinario
<1>3. ESC \in Int /\ Mascara(ESC) \in Int /\ Mascara(Mascara(ESC)) = ESC
  BY Base, MascaraInversa DEF Mascara, Byte
<1>4. ASSUME NEW k \in 1..n
      PROVE  t(k) \in Seq(Int) /\ Len(t(k)) \in 1..2 /\ s[k] = t(k)
  <2>1. bytes[k] \in Int
    BY Base DEF Byte
  <2> QED
    BY <1>3, <2>1
<1>5. s \in [1..n -> Seq(Int)]
  BY <1>4
<1> HIDE DEF n, s, w
<1>6. PICK pos : Pegados(s, n, w, pos)
  BY <1>1, <1>2, <1>5, Trozos
<1>7. \A k \in 1..n + 1 : pos[k] <= 2 * k - 1
  BY <1>1, <1>4, <1>6, PegadosCerca
<1>8. pos \in [1..n + 1 -> Nat] /\ pos[1] = 1
  BY <1>6 DEF Pegados
<1>9. ASSUME NEW k \in 1..n
      PROVE  bin2mem(w, pos[k]) = [c |-> bytes[k], n |-> pos[k + 1] - pos[k]]
  <2>a. s[k] = t(k)
    BY <1>4
  <2>b. pos[k + 1] = pos[k] + Len(s[k]) /\ \A q \in 1..Len(s[k]) : w[pos[k] + q - 1] = s[k][q]
    BY <1>6 DEF Pegados
  <2>c. pos[k] \in Nat
    BY <1>1, <1>8
  <2> HIDE DEF t
  <2>1. pos[k] \in Nat /\ pos[k + 1] = pos[k] + Len(t(k))
        /\ \A q \in 1..Len(t(k)) : w[pos[k] + q - 1] = t(k)[q]
    BY <2>a, <2>b, <2>c
  <2> USE DEF t
  <2>2. pos[k] + 1 - 1 = pos[k] /\ pos[k] + 2 - 1 = pos[k] + 1
    BY <2>1
  <2>3. CASE bytes[k] = ESC
    <3>1. t(k) = <<ESC, Mascara(ESC)>> /\ Len(t(k)) = 2
      BY <2>3
    <3>2. w[pos[k]] = ESC /\ w[pos[k] + 1] = Mascara(ESC)
      BY <2>1, <2>2, <3>1
    <3>3. pos[k + 1] - pos[k] = 2
      BY <2>1, <3>1
    <3> QED
      BY <2>3, <3>2, <3>3, <1>3 DEF bin2mem
  <2>4. CASE bytes[k] # ESC
    <3>1. t(k) = <<bytes[k]>> /\ Len(t(k)) = 1
      BY <2>4
    <3>2. w[pos[k]] = bytes[k]
      BY <2>1, <2>2, <3>1
    <3>3. pos[k + 1] - pos[k] = 1
      BY <2>1, <3>1
    <3> QED
      BY <2>4, <3>2, <3>3 DEF bin2mem
  <2> QED
    BY <2>3, <2>4
<1> QED
  BY <1>7, <1>8, <1>9 DEF n, w
-----------------------------------------------------------------------------
(* The interrupts of the program *)

\* While the stub holds the program, the enable that its way out gives back
\* is the one the program had: bie for a breakpoint; for any other exception
\* eie, which a bus error of the stub's own may have cleared meanwhile.
Guardado ==
  /\ {ie, eie, bie, ieParada} \subseteq BOOLEAN
  /\ pc \in {"orden", "copia"} =>
       /\ ie = FALSE
       /\ IF exc = BREAKPOINT THEN bie = ieParada ELSE eie => ieParada

LEMMA GuardadoInit == Init => Guardado
  BY DEF Init, Guardado

\* An exception of the program's.
LEMMA GuardadoExcepcion ==
  ASSUME Guardado, NEW e \in Excepciones, Excepcion(e)
  PROVE  Guardado'
<1>1. {ie, eie, bie, ieParada}' \subseteq BOOLEAN
  BY DEF Excepcion, _handle_exception, Salteada, Guarda, Guardado, parada
<1>2. CASE FalloPropio(e)
  <2>1. pc' = "corre"
    BY <1>2 DEF Excepcion, _handle_exception
  <2>2. QED
    BY <1>1, <2>1 DEF Guardado
<1>3. CASE ~FalloPropio(e)
  <2>1. exc' = e /\ ieParada' = ie
    BY <1>3 DEF Excepcion, _handle_exception
  <2>2. ie' = FALSE /\ (IF e = BREAKPOINT THEN bie' = ie ELSE eie' = ie)
    BY DEF Excepcion, Guarda
  <2>3. QED
    BY <1>1, <2>1, <2>2 DEF Guardado
<1>4. QED
  BY <1>2, <1>3

\* Going on.
LEMMA GuardadoReanuda ==
  ASSUME Guardado, Reanuda, UNCHANGED parada
  PROVE  Guardado'
  BY DEF Guardado, Reanuda, parada

\* A request that is answered, or begins a copy.
LEMMA GuardadoRespuesta ==
  ASSUME Guardado, pc = "orden", UNCHANGED <<cpu, parada>>
  PROVE  Guardado'
  BY DEF Guardado, cpu, parada

LEMMA GuardadoAtiende ==
  ASSUME Guardado, pc = "orden", NEW p \in Peticiones, Atiende(p)
  PROVE  Guardado'
<1>1. CASE Continua(p) \/ Paso(p)
  BY <1>1, GuardadoReanuda DEF Continua, Paso
<1>2. CASE ~(Continua(p) \/ Paso(p))
  <2>1. UNCHANGED <<cpu, parada>>
    BY <1>2 DEF Atiende, UltimaSenal, LeeTodos, FijaTodos, LeeRegistro, FijaRegistro,
                Desconocida, EmpiezaCopia, PasoSinMemoria, Quieto, cpu, parada
  <2>2. QED
    BY <2>1, GuardadoRespuesta
<1>3. QED
  BY <1>1, <1>2

\* The copies: only a nested bus error touches the enables, and it saves the
\* one of the stub, which is off.
LEMMA GuardadoCopia ==
  ASSUME Guardado, Copia
  PROVE  Guardado'
<1>1. CASE FalloCopia
  BY <1>1 DEF FalloCopia, Guardado, parada
<1>2. CASE CopiaByte \/ TerminaCopia \/ TerminaNula
  <2>1. pc = "copia" /\ UNCHANGED <<cpu, parada>>
    BY <1>2 DEF CopiaByte, TerminaCopia, TerminaNula, Termina
  <2>2. QED
    BY <2>1 DEF Guardado, cpu, parada
<1>3. QED
  BY <1>1, <1>2 DEF Copia

LEMMA GuardadoPaso == Guardado /\ [Next]_vars => Guardado'
<1> SUFFICES ASSUME Guardado, [Next]_vars PROVE Guardado'
  OBVIOUS
<1>1. CASE Ejecuta
  BY <1>1 DEF Ejecuta, Guardado, parada
<1>2. CASE \E e \in Excepciones : Excepcion(e)
  BY <1>2, GuardadoExcepcion
<1>3. CASE pc = "orden" /\ \E p \in Peticiones : Atiende(p)
  BY <1>3, GuardadoAtiende
<1>4. CASE Copia
  BY <1>4, GuardadoCopia
<1>5. CASE UNCHANGED vars
  BY <1>5 DEF Guardado, vars, cpu, parada
<1>6. QED
  BY <1>1, <1>2, <1>3, <1>4, <1>5 DEF Next, Corre, Anidado

\* The saved enable is the program's while the stub holds it
\* (lm32_interrupt.v:212-232, gdb.c:755-768).
THEOREM SiempreGuardado == Spec => []Guardado
  BY GuardadoInit, GuardadoPaso, PTL DEF Spec

\* Leaving the state in which the stub listens, for the program.
LEMMA SoloReanudaSale ==
  ASSUME Guardado, [Next]_vars, pc = "orden", pc' = "corre"
  PROVE  (ie' => ieParada) /\ (exc = BREAKPOINT => ie' = ieParada)
<1>1. PICK p \in Peticiones : Continua(p) \/ Paso(p)
  BY DEF Next, Corre, Copia, Anidado, vars, Ejecuta, Excepcion, CopiaByte, FalloCopia,
         TerminaCopia, TerminaNula, Atiende, UltimaSenal, LeeTodos, FijaTodos,
         LeeRegistro, FijaRegistro, Desconocida, EmpiezaCopia, PasoSinMemoria, Responde
<1>2. Reanuda
  BY <1>1 DEF Continua, Paso
<1>3. QED
  BY <1>2 DEF Reanuda, Guardado

\* Going on gives the program back the interrupts it had, or fewer
\* (crt0gdb.S:218-290).
THEOREM InterrupcionesDevueltas == Spec => InterrupcionesAlReanudar
<1>1. Guardado /\ [Next]_vars =>
        [pc = "orden" /\ pc' = "corre" =>
           (ie' => ieParada) /\ (exc = BREAKPOINT => ie' = ieParada)]_vars
  BY SoloReanudaSale
<1>2. QED
  BY <1>1, SiempreGuardado, PTL DEF Spec, InterrupcionesAlReanudar
-----------------------------------------------------------------------------
(* Types *)

LEMMA ArgTipo ==
  ASSUME NEW p \in Peticiones
  PROVE  /\ Arg1(p).intValue \in Byte /\ Arg1(p).numChars \in Nat
         /\ Arg2(p).intValue \in Byte /\ Arg2(p).numChars \in Nat
<1>1. p.a1 \in Seq(Byte) /\ p.a2 \in Seq(Byte)
  BY PeticionesAssumption
<1>2. Len(p.a1) \in Nat /\ Len(p.a2) \in Nat
  BY <1>1
<1>3. /\ hexToInt(p.a1).intValue \in Byte /\ hexToInt(p.a1).numChars \in 0..Len(p.a1)
      /\ hexToInt(p.a2).intValue \in Byte /\ hexToInt(p.a2).numChars \in 0..Len(p.a2)
  BY <1>1, hexToIntTipo
<1> QED
  BY <1>2, <1>3 DEF Arg1, Arg2

\* The byte at the k-th character of the data of a request that writes.
Dato(p, k) == IF p.cmd = "M" THEN [c |-> hex2mem(p.dat[k], p.dat[k + 1]), n |-> 2]
              ELSE bin2mem(p.dat, k)

\* Where each byte begins, and the end.
SonLugares(p, pos) ==
  /\ pos \in [1..Len(p.bytes) + 1 -> Nat] /\ pos[1] = 1
  /\ \A k \in 1..Len(p.bytes) + 1 : pos[k] <= 2 * k - 1
  /\ \A k \in 1..Len(p.bytes) :
       Dato(p, pos[k]) = [c |-> p.bytes[k], n |-> pos[k + 1] - pos[k]]

Lugares(p) == CHOOSE pos : SonLugares(p, pos)

\* The host's bytes can be read back from what it writes.
LEMMA LugaresBien ==
  ASSUME NEW p \in Peticiones, p.cmd \in {"M", "X"}, Rango(p)
  PROVE  /\ SonLugares(p, Lugares(p))
         /\ p.bytes \in Seq(Byte) /\ Arg2(p).intValue = Len(p.bytes)
<1>1. /\ p.bytes \in Seq(Byte) /\ Arg2(p).intValue = Len(p.bytes)
      /\ p.dat = IF p.cmd = "M" THEN EnHex(p.bytes) ELSE EnBinario(p.bytes)
  BY PeticionesAssumption
<1>2. CASE p.cmd = "X"
  <2>1. p.dat = EnBinario(p.bytes)
    BY <1>1, <1>2
  <2>2. \A k : Dato(p, k) = bin2mem(EnBinario(p.bytes), k)
    BY <1>2, <2>1 DEF Dato
  <2>3. \E pos : SonLugares(p, pos)
    BY <1>1, <2>2, EnBinarioForma DEF SonLugares
  <2> QED
    BY <1>1, <2>3 DEF Lugares
<1>3. CASE p.cmd = "M"
  <2> DEFINE pos == [k \in 1..Len(p.bytes) + 1 |-> 2 * k - 1]
  <2>1. p.dat = EnHex(p.bytes) /\ Len(p.bytes) \in Nat
    BY <1>1, <1>3
  <2>2. ASSUME NEW k \in 1..Len(p.bytes)
        PROVE  Dato(p, pos[k]) = [c |-> p.bytes[k], n |-> pos[k + 1] - pos[k]]
    <3>1. pos[k] = 2 * k - 1 /\ pos[k] + 1 = 2 * k /\ pos[k + 1] - pos[k] = 2
      BY <2>1
    <3> HIDE DEF pos
    <3>2. p.bytes[k] \in Byte
      BY <1>1
    <3>3. /\ p.dat[pos[k]] = hexchars(p.bytes[k] \div B)
          /\ p.dat[pos[k] + 1] = hexchars(p.bytes[k] % B)
      BY <1>1, <2>1, <3>1, EnHexForma
    <3>4. hex2mem(p.dat[pos[k]], p.dat[pos[k] + 1]) = p.bytes[k]
      BY <3>2, <3>3, hex2memInversa
    <3> QED
      BY <1>3, <3>1, <3>4 DEF Dato
  <2>3. /\ pos \in [1..Len(p.bytes) + 1 -> Nat] /\ pos[1] = 1
        /\ \A k \in 1..Len(p.bytes) + 1 : pos[k] <= 2 * k - 1
    BY <2>1
  <2> HIDE DEF pos
  <2>4. SonLugares(p, pos)
    BY <2>2, <2>3 DEF SonLugares
  <2> QED
    BY <1>1, <2>4 DEF Lugares
<1> QED
  BY <1>2, <1>3
-----------------------------------------------------------------------------
\* The breakpoints of a step are in memory while the program runs, and a bus
\* error is the stub's own while it copies.
Modo ==
  /\ stepping => pc = "corre"
  /\ IF pc = "copia" THEN may_fault = TRUE ELSE may_fault = FALSE /\ mem_err = FALSE

\* Where a copy is.
Copiando ==
  pc = "copia" =>
    /\ req \in Peticiones /\ req.cmd \in {"m", "M", "X"} /\ Rango(req)
    /\ i \in 0..Count
    /\ mem_err => i < Count /\ Ptr \notin RAM
    /\ j = IF req.cmd = "m" THEN 1 ELSE Lugares(req)[i + 1]

Tipado == TypeOK /\ Modo /\ Copiando

LEMMA StubBase ==
  /\ RAM \subseteq Byte /\ MAIN \in RAM /\ Imagen \in [RAM -> Byte] /\ LM32_BREAK \in Byte
  /\ 0 \in Byte /\ Byte \subseteq Int /\ \A x \in Int : x % (B * B) \in Byte
  /\ Excepciones \subseteq Byte /\ {RA, PC, EID} \subseteq Registros
<1>1. RAM \subseteq Byte /\ MAIN \in RAM /\ Imagen \in [RAM -> Byte] /\ LM32_BREAK \in Byte
  BY StubAssumption
<1>2. \A x \in Int : x % (B * B) \in 0..B * B - 1
  BY Base, Resto
<1>3. 0 \in Byte /\ Byte \subseteq Int
  BY Base DEF Byte
<1>4. Excepciones \subseteq Byte
  BY <1>1, Base DEF Byte, LM32_BREAK, Excepciones, BREAKPOINT, INST_BUS_ERROR, DATA_BUS_ERROR,
                    DIVIDE_BY_ZERO, INTERRUPT, SYSTEM_CALL
<1>5. {RA, PC, EID} \subseteq Registros
  BY DEF RA, PC, EID, Registros, NUM_REGS
<1> QED
  BY <1>1, <1>2, <1>3, <1>4, <1>5 DEF Byte

\* The bounds of the loops.
LEMMA Cotas ==
  /\ 0 \in 0..B * B /\ {0, 1} \subseteq 0..4 * B * B
  /\ \A x \in Byte : x \in 0..B * B /\ \A y \in Nat : y <= 2 * (x + 1) - 1 => y \in 0..4 * B * B
<1>1. 4 * B * B = 4 * (B * B)
  BY Base
<1> DEFINE m == B * B
<1>2. m \in Nat /\ m >= 4
  BY Base
<1> HIDE DEF m
<1>3. \A x \in 0..m - 1 : \A y \in Nat : y <= 2 * (x + 1) - 1 => y \in 0..4 * m
  BY <1>2
<1> QED
  BY <1>1, <1>2, <1>3 DEF m, Byte

LEMMA TipadoInit == Init => Tipado
<1> SUFFICES ASSUME Init PROVE Tipado
  OBVIOUS
<1>1. mem \in [RAM -> Byte] /\ memH \in [RAM -> Byte] /\ ic \in [RAM -> Byte \cup {Negativo}]
  BY StubBase DEF Init, Vacia
<1>2. registers \in [Registros -> Byte]
  <2>1. {MAIN, BREAKPOINT, 0} \subseteq Byte
    BY StubBase DEF Excepciones
  <2> QED
    BY <2>1 DEF Init
<1>3. {ie, eie, bie, stepping, branch_step, may_fault, mem_err, ieParada} \subseteq BOOLEAN
  BY DEF Init
<1>4. i \in 0..B * B /\ j \in 0..4 * B * B /\ ejec \in 0..2
  BY Base DEF Init
<1>5. /\ seq_ptr \in RAM \cup {0} /\ branch_ptr \in RAM \cup {0}
      /\ seq_insn \in Byte /\ branch_insn \in Byte
  BY StubBase DEF Init
<1>6. /\ sigval \in {"INT", "TRAP", "SEGV", "FPE", "HUP"} /\ exc \in Excepciones
      /\ pc \in Estados /\ req \in Peticiones \cup {Nada}
  BY DEF Init, Excepciones, Estados
<1>7. TypeOK
  BY <1>1, <1>2, <1>3, <1>4, <1>5, <1>6 DEF TypeOK
<1>8. Modo /\ Copiando
  BY DEF Init, Modo, Copiando
<1> QED
  BY <1>7, <1>8 DEF Tipado
-----------------------------------------------------------------------------
\* The parts of the type that a step touches together.
TMem == mem \in [RAM -> Byte] /\ memH \in [RAM -> Byte] /\ ic \in [RAM -> Byte \cup {Negativo}]
TReg == registers \in [Registros -> Byte]
TCpu == {ie, eie, bie, ieParada} \subseteq BOOLEAN
TPaso == /\ stepping \in BOOLEAN /\ branch_step \in BOOLEAN
         /\ seq_ptr \in RAM \cup {0} /\ branch_ptr \in RAM \cup {0}
         /\ seq_insn \in Byte /\ branch_insn \in Byte
TFallo == may_fault \in BOOLEAN /\ mem_err \in BOOLEAN
TParada == sigval \in {"INT", "TRAP", "SEGV", "FPE", "HUP"} /\ exc \in Excepciones
TPc == pc \in Estados
TBucle == req \in Peticiones \cup {Nada} /\ i \in 0..B * B /\ j \in 0..4 * B * B
TEjec == ejec \in 0..2

LEMMA Partes ==
  TypeOK <=> /\ TMem /\ TReg /\ TCpu /\ TPaso /\ TFallo /\ TParada /\ TPc /\ TBucle /\ TEjec
  BY DEF TypeOK, TMem, TReg, TCpu, TPaso, TFallo, TParada, TPc, TBucle, TEjec

LEMMA PartesSig ==
  TypeOK' <=> /\ TMem' /\ TReg' /\ TCpu' /\ TPaso' /\ TFallo' /\ TParada' /\ TPc' /\ TBucle' /\ TEjec'
  BY Partes, PTL

LEMMA QuitaTipo == TMem /\ TPaso => Quita(mem) \in [RAM -> Byte]
<1> SUFFICES ASSUME TMem, TPaso PROVE Quita(mem) \in [RAM -> Byte]
  OBVIOUS
<1> DEFINE m1 == [mem EXCEPT ![seq_ptr] = seq_insn]
<1>1. m1 \in [RAM -> Byte]
  BY DEF TMem, TPaso
<1>2. [m1 EXCEPT ![branch_ptr] = branch_insn] \in [RAM -> Byte]
  BY <1>1 DEF TPaso
<1> QED
  BY <1>1, <1>2 DEF Quita

LEMMA SenalTipo == \A e : computeSignal(e) \in {"INT", "TRAP", "SEGV", "FPE", "HUP"}
  BY DEF computeSignal

\* The instruction cache and the word it gives.
LEMMA LeidaTipo ==
  ASSUME TMem, TReg, registers[PC] \in RAM
  PROVE  Leida \in Byte /\ Cacheada \in [RAM -> Byte \cup {Negativo}]
<1>1. Leida \in Byte
  BY DEF TMem, Leida
<1> QED
  BY <1>1 DEF TMem, Cacheada

LEMMA TipadoEjecuta ==
  ASSUME Tipado, Ejecuta
  PROVE  Tipado'
<1>0. /\ TMem /\ TReg /\ TCpu /\ TPaso /\ TFallo /\ TParada /\ TPc /\ TBucle /\ TEjec
  BY Partes DEF Tipado
<1>1. registers[PC] \in RAM /\ Leida \in Byte /\ Cacheada \in [RAM -> Byte \cup {Negativo}]
  BY <1>0, LeidaTipo DEF Ejecuta
<1> DEFINE t == Insn[Leida].tipo
           d == Insn[Leida].des
<1>2. d \in Int
  BY <1>1, StubAssumption
<1>3. Destino(d) \in Byte /\ Destino(1) \in Byte /\ registers[RA] \in Byte
  <2>1. registers[PC] \in Int /\ registers[RA] \in Byte
    BY <1>0, StubBase DEF TReg
  <2>2. registers[PC] + d \in Int /\ registers[PC] + 1 \in Int
    BY <1>2, <2>1
  <2> QED
    BY <2>1, <2>2, StubBase DEF Destino
<1>4. TReg'
  <2>1. PICK s \in Byte : registers' = [registers EXCEPT ![PC] = s]
    BY <1>3 DEF Ejecuta
  <2> QED
    BY <2>1, <1>0 DEF TReg
<1>5. TMem'
  BY <1>0, <1>1 DEF Ejecuta, TMem
<1>6. TCpu'
  <2>1. ie' = (ie \/ t = "ie") /\ UNCHANGED <<eie, bie, ieParada>>
    BY DEF Ejecuta, parada
  <2>2. ie' \in BOOLEAN
    BY <2>1
  <2> QED
    BY <1>0, <2>1, <2>2 DEF TCpu
<1>7. TEjec'
  BY <1>0 DEF Ejecuta, TEjec
<1>8. TPaso' /\ TFallo' /\ TParada' /\ TPc' /\ TBucle'
  BY <1>0 DEF Ejecuta, TPaso, TFallo, TParada, TPc, TBucle, paso, fallo, parada, bucle
<1>9. Modo' /\ Copiando'
  BY DEF Tipado, Modo, Copiando, Ejecuta, paso, fallo
<1> QED
  BY <1>4, <1>5, <1>6, <1>7, <1>8, <1>9, PartesSig DEF Tipado

LEMMA TipadoExcepcion ==
  ASSUME Tipado, NEW e \in Excepciones, Excepcion(e)
  PROVE  Tipado'
<1>0. /\ TMem /\ TReg /\ TCpu /\ TPaso /\ TFallo /\ TParada /\ TPc /\ TBucle /\ TEjec
  BY Partes DEF Tipado
<1>1. ~FalloPropio(e)
  BY DEF Tipado, Modo, Excepcion, FalloPropio
<1>2. /\ mem' = IF stepping THEN Quita(mem) ELSE mem
      /\ stepping' = FALSE /\ UNCHANGED <<seq_ptr, seq_insn, branch_step, branch_ptr, branch_insn>>
      /\ sigval' = computeSignal(e) /\ exc' = e /\ ieParada' = ie
      /\ registers' = [registers EXCEPT ![EID] = e]
      /\ pc' = "orden" /\ UNCHANGED fallo /\ UNCHANGED bucle /\ UNCHANGED <<memH, ejec>>
  BY <1>1 DEF Excepcion, _handle_exception
<1>3. ic' \in [RAM -> Byte \cup {Negativo}]
  <2>1. CASE e \in {INTERRUPT, INST_BUS_ERROR}
    BY <2>1, <1>0 DEF Excepcion, TMem
  <2>2. CASE e \notin {INTERRUPT, INST_BUS_ERROR}
    <3>1. registers[PC] \in RAM
      BY <2>2 DEF Excepcion, Causa
    <3> QED
      BY <2>2, <3>1, <1>0, LeidaTipo DEF Excepcion
  <2> QED
    BY <2>1, <2>2
<1>4. TMem'
  BY <1>0, <1>2, <1>3, QuitaTipo DEF TMem
<1>5. TReg'
  <2>1. e \in Byte
    BY StubBase
  <2> QED
    BY <1>0, <1>2, <2>1 DEF TReg
<1>6. TCpu'
  BY <1>0, <1>2 DEF TCpu, Excepcion, Guarda
<1>7. TPaso' /\ TFallo' /\ TParada' /\ TPc' /\ TBucle' /\ TEjec'
  BY <1>0, <1>2, SenalTipo DEF TPaso, TFallo, TParada, TPc, TBucle, TEjec, fallo, bucle, Estados
<1>8. Modo' /\ Copiando'
  BY <1>2 DEF Tipado, Modo, Copiando, Excepcion, fallo
<1> QED
  BY <1>4, <1>5, <1>6, <1>7, <1>8, PartesSig DEF Tipado

\* A request that is answered at once leaves all but registers, reply and,
\* going into or out of a copy, the loop.
LEMMA TipadoResponde ==
  ASSUME Tipado, pc = "orden", NEW r, Responde(r), Quieto, registers' \in [Registros -> Byte]
  PROVE  Tipado'
<1>0. /\ TMem /\ TReg /\ TCpu /\ TPaso /\ TFallo /\ TParada /\ TPc /\ TBucle /\ TEjec
  BY Partes DEF Tipado
<1>1. /\ pc' = "orden" /\ UNCHANGED bucle
      /\ UNCHANGED <<ie, eie, bie, paso, fallo, parada, ic, memH, ejec, mem>>
  BY DEF Responde, Quieto
<1>2. TMem' /\ TReg' /\ TCpu' /\ TPaso' /\ TFallo' /\ TParada' /\ TPc' /\ TBucle' /\ TEjec'
  BY <1>0, <1>1 DEF TMem, TReg, TCpu, TPaso, TFallo, TParada, TPc, TBucle, TEjec, fallo, bucle,
                    paso, parada, Estados
<1>3. Modo' /\ Copiando'
  BY <1>1 DEF Tipado, Modo, Copiando, paso, fallo
<1> QED
  BY <1>2, <1>3, PartesSig DEF Tipado

LEMMA TipadoSimple ==
  ASSUME Tipado, pc = "orden", NEW p \in Peticiones,
         UltimaSenal(p) \/ LeeTodos(p) \/ FijaTodos(p) \/ LeeRegistro(p) \/ FijaRegistro(p)
           \/ Desconocida(p)
  PROVE  Tipado'
<1>0. TReg
  BY Partes DEF Tipado
<1>1. registers' \in [Registros -> Byte]
  <2>1. CASE FijaTodos(p)
    <3>1. registers' = [r \in Registros |-> hex2mem(p.dat[2 * r + 1], p.dat[2 * r + 2])]
      BY <2>1 DEF FijaTodos
    <3> QED
      BY <3>1, hex2memTipo
  <2>2. CASE FijaRegistro(p)
    <3>1. \/ UNCHANGED registers
          \/ registers' = [registers EXCEPT ![Arg1(p).intValue] = hex2mem(p.dat[1], p.dat[2])]
      BY <2>2 DEF FijaRegistro
    <3>2. hex2mem(p.dat[1], p.dat[2]) \in Byte
      BY hex2memTipo
    <3> QED
      BY <3>1, <3>2, <1>0 DEF TReg
  <2>3. CASE UNCHANGED registers
    BY <2>3, <1>0 DEF TReg
  <2> QED
    BY <2>1, <2>2, <2>3 DEF UltimaSenal, LeeTodos, LeeRegistro, Desconocida
<1>2. Quieto /\ \E r : Responde(r)
  BY DEF UltimaSenal, LeeTodos, FijaTodos, LeeRegistro, FijaRegistro, Desconocida
<1> QED
  BY <1>1, <1>2, TipadoResponde

LEMMA TipadoEmpieza ==
  ASSUME Tipado, pc = "orden", NEW p \in Peticiones, EmpiezaCopia(p)
  PROVE  Tipado'
<1>0. /\ TMem /\ TReg /\ TCpu /\ TPaso /\ TFallo /\ TParada /\ TPc /\ TBucle /\ TEjec
  BY Partes DEF Tipado
<1>1. p.cmd \in {"m", "M", "X"} /\ UNCHANGED <<cpu, paso, parada, ic, memH, ejec, mem, registers>>
  BY DEF EmpiezaCopia
<1>2. TMem' /\ TReg' /\ TCpu' /\ TPaso' /\ TParada' /\ TEjec'
  BY <1>0, <1>1 DEF TMem, TReg, TCpu, TPaso, TParada, TEjec, paso, parada, cpu
<1>3. CASE /\ Rango(p)
           /\ mem_err' = FALSE /\ may_fault' = TRUE
           /\ pc' = "copia" /\ req' = p /\ i' = 0 /\ j' = 1
  <2>1. TFallo' /\ TPc' /\ TBucle'
    BY <1>3, Cotas DEF TFallo, TPc, TBucle, Estados
  <2>2. Modo'
    BY <1>1, <1>3 DEF Tipado, Modo, paso
  <2>3. Copiando'
    <3>1. Arg2(p).intValue \in Nat
      BY ArgTipo, Base DEF Byte
    <3>2. p.cmd # "m" => Lugares(p)[1] = 1
      BY <1>1, <1>3, LugaresBien DEF SonLugares
    <3>3. Rango(req') /\ Arg2(req').intValue \in Nat
      BY <1>3, <3>1
    <3>4. 0 + 1 = 1
      OBVIOUS
    <3> QED
      BY <1>1, <1>3, <3>2, <3>3, <3>4 DEF Copiando, Count, Rango
  <2> QED
    BY <1>2, <2>1, <2>2, <2>3, PartesSig DEF Tipado
<1>4. CASE pc' = "orden" /\ UNCHANGED bucle /\ UNCHANGED fallo
  <2>1. TFallo' /\ TPc' /\ TBucle'
    BY <1>0, <1>4 DEF TFallo, TPc, TBucle, Estados, fallo, bucle
  <2>2. Modo' /\ Copiando'
    BY <1>1, <1>4 DEF Tipado, Modo, Copiando, paso, fallo
  <2> QED
    BY <1>2, <2>1, <2>2, PartesSig DEF Tipado
<1> QED
  BY <1>3, <1>4 DEF EmpiezaCopia, allow_nested_exception, Responde

LEMMA TipadoTermina ==
  ASSUME Tipado, pc = "copia", NEW r, Termina(r)
  PROVE  Tipado'
<1>0. /\ TMem /\ TReg /\ TCpu /\ TPaso /\ TFallo /\ TParada /\ TPc /\ TBucle /\ TEjec
  BY Partes DEF Tipado
<1>1. /\ UNCHANGED <<cpu, paso, parada, ic, memH, ejec, mem, registers>>
      /\ pc' = "orden" /\ mem_err' = FALSE /\ may_fault' = FALSE
      /\ req' = Nada /\ i' = 0 /\ j' = 0
  BY DEF Termina, disallow_nested_exception
<1>2. TMem' /\ TReg' /\ TCpu' /\ TPaso' /\ TParada' /\ TEjec'
  BY <1>0, <1>1 DEF TMem, TReg, TCpu, TPaso, TParada, TEjec, paso, parada, cpu
<1>3. TFallo' /\ TPc' /\ TBucle'
  BY <1>1, Cotas DEF TFallo, TPc, TBucle, Estados
<1>4. stepping' = FALSE
  BY <1>1, <1>0 DEF paso, Tipado, Modo, TPaso
<1>5. Modo' /\ Copiando'
  BY <1>1, <1>4 DEF Modo, Copiando
<1> QED
  BY <1>2, <1>3, <1>5, PartesSig DEF Tipado

\* The next address of a copy.
LEMMA PtrTipo ==
  ASSUME Tipado, pc = "copia"
  PROVE  Ptr \in Byte /\ Count \in Byte /\ Count \in Nat
<1>1. Arg1(req).intValue \in Byte /\ Arg2(req).intValue \in Byte /\ i \in Int
  BY ArgTipo DEF Tipado, Copiando
<1>a. Arg1(req).intValue \in Int
  BY <1>1, StubBase
<1>2. Arg1(req).intValue + i \in Int
  BY <1>1, <1>a
<1> QED
  BY <1>1, <1>2, StubBase DEF Ptr, Count, Byte

\* The byte that a copy stores, and the characters it takes, are the host's.
LEMMA ByteCopiado ==
  ASSUME Tipado, pc = "copia", req.cmd \in {"M", "X"}, i < Count
  PROVE  /\ Dato(req, j).c = req.bytes[i + 1] /\ req.bytes[i + 1] \in Byte
         /\ j + Dato(req, j).n = Lugares(req)[i + 2]
         /\ Lugares(req)[i + 2] \in Nat /\ Lugares(req)[i + 2] <= 2 * (i + 2) - 1
<1>1. req \in Peticiones /\ Rango(req) /\ i \in 0..Count /\ j = Lugares(req)[i + 1]
  BY DEF Tipado, Copiando
<1>2. /\ SonLugares(req, Lugares(req))
      /\ req.bytes \in Seq(Byte) /\ Count = Len(req.bytes)
  BY <1>1, LugaresBien DEF Count
<1> DEFINE n == Len(req.bytes)
           pos == Lugares(req)
<1>3. n \in Nat /\ i + 1 \in 1..n /\ (i + 1) + 1 = i + 2
  BY <1>1, <1>2
<1>4. /\ pos \in [1..n + 1 -> Nat]
      /\ \A k \in 1..n + 1 : pos[k] <= 2 * k - 1
      /\ \A k \in 1..n : Dato(req, pos[k]) = [c |-> req.bytes[k], n |-> pos[k + 1] - pos[k]]
  BY <1>2 DEF SonLugares
<1>5. req.bytes[i + 1] \in Byte
  BY <1>2, <1>3
<1> HIDE DEF n, pos
<1>6. Dato(req, pos[i + 1]) = [c |-> req.bytes[i + 1], n |-> pos[i + 2] - pos[i + 1]]
  BY <1>3, <1>4
<1>7. i + 1 \in 1..n + 1 /\ i + 2 \in 1..n + 1
  BY <1>3
<1>8. pos[i + 1] \in Nat /\ pos[i + 2] \in Nat /\ pos[i + 2] <= 2 * (i + 2) - 1
  BY <1>4, <1>7
<1>9. j = pos[i + 1]
  BY <1>1 DEF pos
<1>10. pos[i + 1] + (pos[i + 2] - pos[i + 1]) = pos[i + 2]
  BY <1>8
<1> QED
  BY <1>5, <1>6, <1>8, <1>9, <1>10 DEF pos

\* CopiaByte, as what it does.
LEMMA CopiaEfecto ==
  ASSUME Tipado, CopiaByte
  PROVE  /\ pc = "copia" /\ mem_err = FALSE /\ i < Count /\ Ptr \in RAM /\ i' = i + 1
         /\ UNCHANGED <<cpu, paso, parada, ic, ejec, registers, fallo, pc, req>>
         /\ req.cmd = "m" => /\ resp' = [resp EXCEPT !.v = @ \o mem2hex(mem[Ptr])]
                             /\ UNCHANGED <<mem, memH, j>>
         /\ req.cmd # "m" => /\ mem' = [mem EXCEPT ![Ptr] = req.bytes[i + 1]]
                             /\ memH' = [memH EXCEPT ![Ptr] = req.bytes[i + 1]]
                             /\ j' = Lugares(req)[i + 2] /\ UNCHANGED resp
<1>1. /\ pc = "copia" /\ mem_err = FALSE /\ i < Count /\ Ptr \in RAM /\ i' = i + 1
      /\ UNCHANGED <<cpu, paso, parada, ic, ejec, registers, fallo, pc, req>>
  BY Partes DEF CopiaByte, Tipado, TFallo
<1>2. CASE req.cmd = "m"
  BY <1>1, <1>2 DEF CopiaByte
<1>3. CASE req.cmd # "m"
  <2>1. req.cmd \in {"M", "X"}
    BY <1>1, <1>3 DEF Tipado, Copiando
  <2>2. /\ mem' = [mem EXCEPT ![Ptr] = Dato(req, j).c]
        /\ memH' = [memH EXCEPT ![Ptr] = req.bytes[i + 1]]
        /\ j' = j + Dato(req, j).n /\ UNCHANGED resp
    BY <1>3 DEF CopiaByte, Dato
  <2> QED
    BY <1>1, <1>3, <2>1, <2>2, ByteCopiado
<1> QED
  BY <1>2, <1>3

LEMMA TipadoCopiaByte ==
  ASSUME Tipado, CopiaByte
  PROVE  Tipado'
<1>0. /\ TMem /\ TReg /\ TCpu /\ TPaso /\ TFallo /\ TParada /\ TPc /\ TBucle /\ TEjec
  BY Partes DEF Tipado
<1>1. /\ pc = "copia" /\ mem_err = FALSE /\ i < Count /\ Ptr \in RAM /\ i' = i + 1
      /\ UNCHANGED <<cpu, paso, parada, ic, ejec, registers, fallo, pc, req>>
  BY CopiaEfecto
<1>2. /\ req \in Peticiones /\ req.cmd \in {"m", "M", "X"} /\ Rango(req) /\ i \in 0..Count
      /\ j = IF req.cmd = "m" THEN 1 ELSE Lugares(req)[i + 1]
  BY <1>1 DEF Tipado, Copiando
<1>3. Count \in Byte /\ Count \in Nat
  BY <1>1, PtrTipo
<1>4. i + 1 \in 0..Count /\ i + 1 \in Byte /\ i \in Byte
  BY <1>1, <1>2, <1>3, Base DEF Byte
<1>5. TMem' /\ TBucle' /\ j' = IF req.cmd = "m" THEN 1 ELSE Lugares(req)[i + 2]
  <2>1. CASE req.cmd = "m"
    <3>1. UNCHANGED <<mem, memH, j>>
      BY <2>1, CopiaEfecto
    <3>2. i' \in 0..B * B
      BY <1>1, <1>4, Cotas
    <3> QED
      BY <2>1, <3>1, <3>2, <1>0, <1>1, <1>2 DEF TMem, TBucle
  <2>2. CASE req.cmd # "m"
    <3>1. /\ mem' = [mem EXCEPT ![Ptr] = req.bytes[i + 1]]
          /\ memH' = [memH EXCEPT ![Ptr] = req.bytes[i + 1]]
          /\ j' = Lugares(req)[i + 2]
      BY <2>2, CopiaEfecto
    <3>2. /\ req.bytes[i + 1] \in Byte
          /\ Lugares(req)[i + 2] \in Nat /\ Lugares(req)[i + 2] <= 2 * ((i + 1) + 1) - 1
      <4>1. i + 2 = (i + 1) + 1
        BY <1>2, <1>3
      <4> QED
        BY <1>1, <1>2, <2>2, <4>1, ByteCopiado
    <3>3. j' \in 0..4 * B * B /\ i' \in 0..B * B
      BY <1>1, <1>4, <3>1, <3>2, Cotas
    <3> QED
      BY <2>2, <3>1, <3>2, <3>3, <1>0, <1>1 DEF TMem, TBucle
  <2> QED
    BY <2>1, <2>2
<1>6. TReg' /\ TCpu' /\ TPaso' /\ TParada' /\ TEjec' /\ TFallo' /\ TPc'
  BY <1>0, <1>1 DEF TReg, TCpu, TPaso, TParada, TEjec, TFallo, TPc, paso, parada, cpu, fallo
<1>7. Modo'
  BY <1>1 DEF Tipado, Modo, paso, fallo
<1>8. Copiando'
  <2>1. Rango(req') /\ Count' = Count /\ mem_err' = FALSE /\ (i + 1) + 1 = i + 2
    BY <1>1, <1>2, <1>3 DEF Count, fallo
  <2> QED
    BY <1>1, <1>2, <1>4, <1>5, <2>1 DEF Copiando
<1> QED
  BY <1>5, <1>6, <1>7, <1>8, PartesSig DEF Tipado

LEMMA TipadoFallo ==
  ASSUME Tipado, FalloCopia
  PROVE  Tipado'
<1>0. /\ TMem /\ TReg /\ TCpu /\ TPaso /\ TFallo /\ TParada /\ TPc /\ TBucle /\ TEjec
  BY Partes DEF Tipado
<1>1. /\ pc = "copia" /\ i < Count /\ Ptr \notin RAM
      /\ eie' = ie /\ UNCHANGED <<ie, bie>>
      /\ mem_err' = TRUE /\ UNCHANGED may_fault /\ pc' = "copia"
      /\ UNCHANGED <<paso, parada, ic, ejec, registers, bucle, resp, mem, memH>>
  BY DEF FalloCopia, Tipado, Modo
<1>2. TMem' /\ TReg' /\ TPaso' /\ TFallo' /\ TParada' /\ TPc' /\ TBucle' /\ TEjec'
  BY <1>0, <1>1 DEF TReg, TMem, TPaso, TParada, TEjec, TFallo, TPc, TBucle, paso, parada, bucle
<1>3. TCpu'
  BY <1>0, <1>1 DEF TCpu, parada
<1>4. Modo'
  BY <1>1 DEF Tipado, Modo, paso
<1>5. Copiando'
  BY <1>1 DEF Tipado, Copiando, bucle, Count, Ptr
<1> QED
  BY <1>2, <1>3, <1>4, <1>5, PartesSig DEF Tipado

LEMMA DesdeTipo ==
  ASSUME TReg, NEW p \in Peticiones
  PROVE  Desde(p) \in [Registros -> Byte]
<1>1. Arg1(p).intValue \in Byte
  BY ArgTipo
<1> QED
  BY <1>1 DEF Desde, TReg

LEMMA TipadoContinua ==
  ASSUME Tipado, pc = "orden", NEW p \in Peticiones, Continua(p)
  PROVE  Tipado'
<1>0. /\ TMem /\ TReg /\ TCpu /\ TPaso /\ TFallo /\ TParada /\ TPc /\ TBucle /\ TEjec
  BY Partes DEF Tipado
<1>1. /\ registers' = Desde(p) /\ UNCHANGED <<paso, fallo, parada, bucle, resp, mem, memH>>
      /\ pc' = "corre" /\ ejec' = 0 /\ ic' = Vacia
      /\ ie' = (IF exc = BREAKPOINT THEN bie ELSE eie) /\ UNCHANGED <<eie, bie>>
  BY DEF Continua, Reanuda
<1>2. TMem' /\ TReg' /\ TPaso' /\ TFallo' /\ TParada' /\ TPc' /\ TBucle' /\ TEjec'
  BY <1>0, <1>1, DesdeTipo
  DEF TReg, TMem, TPaso, TParada, TEjec, TFallo, TPc, TBucle, paso, parada, bucle, fallo, Vacia,
      Estados
<1>3. TCpu'
  BY <1>0, <1>1 DEF TCpu, parada
<1>4. Modo' /\ Copiando'
  BY <1>1 DEF Tipado, Modo, Copiando, paso, fallo
<1> QED
  BY <1>2, <1>3, <1>4, PartesSig DEF Tipado

\* What a step needs and leaves.
LEMMA PasoEfecto ==
  ASSUME TMem, TReg, NEW p \in Peticiones, Paso(p)
  PROVE  LET r == Desde(p)
         IN  /\ r \in [Registros -> Byte] /\ registers' = r
             /\ r[PC] \in RAM /\ Siguiente(r) \in RAM /\ mem[Siguiente(r)] \in Byte
             /\ Salta(r) => branch_target(r) \in RAM /\ branch_insn' \in Byte
             /\ mem' \in [RAM -> Byte] /\ mem'[Siguiente(r)] = LM32_BREAK
             /\ Salta(r) => mem'[branch_target(r)] = LM32_BREAK
<1> DEFINE r == Desde(p)
           m1 == [mem EXCEPT ![Siguiente(r)] = LM32_BREAK]
<1>1. r \in [Registros -> Byte]
  BY DesdeTipo
<1> HIDE DEF r
<1>2. /\ registers' = r /\ r[PC] \in RAM /\ Siguiente(r) \in RAM
      /\ Salta(r) => branch_target(r) \in RAM
  BY DEF Paso, Alcanza, r
<1>3. mem[Siguiente(r)] \in Byte /\ m1 \in [RAM -> Byte] /\ m1[Siguiente(r)] = LM32_BREAK
  BY <1>2, StubBase DEF TMem
<1> HIDE DEF m1
<1>4. CASE Salta(r)
  <2>1. branch_insn' = m1[branch_target(r)]
        /\ mem' = [m1 EXCEPT ![branch_target(r)] = LM32_BREAK]
    BY <1>4 DEF Paso, r, m1
  <2> QED
    BY <1>1, <1>2, <1>3, <1>4, <2>1, StubBase DEF r
<1>5. CASE ~Salta(r)
  <2>1. mem' = m1
    BY <1>5 DEF Paso, r, m1
  <2> QED
    BY <1>1, <1>2, <1>3, <1>5, <2>1 DEF r
<1> QED
  BY <1>4, <1>5

LEMMA TipadoPaso ==
  ASSUME Tipado, pc = "orden", NEW p \in Peticiones, Paso(p)
  PROVE  Tipado'
<1> DEFINE r == Desde(p)
<1>0. /\ TMem /\ TReg /\ TCpu /\ TPaso /\ TFallo /\ TParada /\ TPc /\ TBucle /\ TEjec
  BY Partes DEF Tipado
<1>1. /\ UNCHANGED <<fallo, parada, bucle, resp, memH>>
      /\ pc' = "corre" /\ ejec' = 0 /\ ic' = Vacia
      /\ ie' = (IF exc = BREAKPOINT THEN bie ELSE eie) /\ UNCHANGED <<eie, bie>>
      /\ stepping' = TRUE /\ seq_ptr' = Siguiente(r) /\ seq_insn' = mem[Siguiente(r)]
      /\ branch_step' = Salta(r)
      /\ IF Salta(r) THEN branch_ptr' = branch_target(r)
                     ELSE UNCHANGED <<branch_ptr, branch_insn>>
  BY DEF Paso, Reanuda
<1>2. /\ r \in [Registros -> Byte] /\ registers' = r
      /\ r[PC] \in RAM /\ Siguiente(r) \in RAM /\ mem[Siguiente(r)] \in Byte
      /\ Salta(r) => branch_target(r) \in RAM /\ branch_insn' \in Byte
      /\ mem' \in [RAM -> Byte]
  BY <1>0, PasoEfecto
<1>3. Salta(r) \in BOOLEAN
  BY DEF Salta
<1> HIDE DEF r
<1>4. TPaso'
  BY <1>0, <1>1, <1>2, <1>3 DEF TPaso
<1>5. TMem' /\ TReg' /\ TFallo' /\ TParada' /\ TPc' /\ TBucle' /\ TEjec'
  BY <1>0, <1>1, <1>2
  DEF TReg, TMem, TParada, TEjec, TFallo, TPc, TBucle, parada, bucle, fallo, Vacia, Estados
<1>6. TCpu'
  BY <1>0, <1>1 DEF TCpu, parada
<1>7. Modo' /\ Copiando'
  BY <1>1 DEF Tipado, Modo, Copiando, fallo
<1> QED
  BY <1>4, <1>5, <1>6, <1>7, PartesSig DEF Tipado

LEMMA TipadoSinMemoria ==
  ASSUME Tipado, pc = "orden", NEW p \in Peticiones, PasoSinMemoria(p)
  PROVE  Tipado'
<1>0. /\ TMem /\ TReg /\ TCpu /\ TPaso /\ TFallo /\ TParada /\ TPc /\ TBucle /\ TEjec
  BY Partes DEF Tipado
<1>1. /\ registers' = Desde(p) /\ (mem' = Quita(mem) \/ mem' = mem)
      /\ pc' \in {"anidado", "perdido"}
      /\ UNCHANGED <<cpu, ic, paso, fallo, parada, bucle, resp, memH, ejec>>
  BY DEF PasoSinMemoria
<1>2. TMem'
  BY <1>0, <1>1, QuitaTipo DEF TMem
<1>3. TReg' /\ TPaso' /\ TFallo' /\ TParada' /\ TPc' /\ TBucle' /\ TEjec'
  BY <1>0, <1>1, DesdeTipo
  DEF TReg, TPaso, TParada, TEjec, TFallo, TPc, TBucle, paso, parada, bucle, fallo, Estados
<1>4. TCpu'
  BY <1>0, <1>1 DEF TCpu, parada, cpu
<1>5. Modo' /\ Copiando'
  BY <1>1 DEF Tipado, Modo, Copiando, paso, fallo
<1> QED
  BY <1>2, <1>3, <1>4, <1>5, PartesSig DEF Tipado

LEMMA TipadoSigue == Tipado /\ [Next]_vars => Tipado'
<1> SUFFICES ASSUME Tipado, [Next]_vars PROVE Tipado'
  OBVIOUS
<1>1. CASE Ejecuta
  BY <1>1, TipadoEjecuta
<1>2. CASE \E e \in Excepciones : Excepcion(e)
  BY <1>2, TipadoExcepcion
<1>3. ASSUME pc = "orden", NEW p \in Peticiones, Atiende(p) PROVE Tipado'
  BY <1>3, TipadoSimple, TipadoEmpieza, TipadoContinua, TipadoPaso, TipadoSinMemoria DEF Atiende
<1>4. CASE CopiaByte
  BY <1>4, TipadoCopiaByte
<1>5. CASE FalloCopia
  BY <1>5, TipadoFallo
<1>6. CASE TerminaCopia \/ TerminaNula
  BY <1>6, TipadoTermina DEF TerminaCopia, TerminaNula
<1>7. CASE UNCHANGED vars
  <2>1. TypeOK'
    BY <1>7 DEF Tipado, TypeOK, vars, cpu, paso, fallo, parada, bucle
  <2>2. Modo' /\ Copiando'
    BY <1>7 DEF Tipado, Modo, Copiando, vars, paso, fallo, bucle, Count, Ptr
  <2> QED
    BY <2>1, <2>2 DEF Tipado
<1> QED
  BY <1>1, <1>2, <1>3, <1>4, <1>5, <1>6, <1>7 DEF Next, Corre, Copia, Anidado

\* Every variable keeps its type and every loop stays in its data, whatever
\* the host asks for: a number that does not fit is cut (gdb.c:381-637).
THEOREM StubTipado == Spec => []TypeOK
<1>1. Tipado => TypeOK
  BY DEF Tipado
<1> QED
  BY <1>1, TipadoInit, TipadoSigue, PTL DEF Spec
-----------------------------------------------------------------------------
(* Copies *)

\* The k-th address of the copy in hand.
Dir(k) == (Arg1(req).intValue + k) % (B * B)

LEMMA SumaModulo ==
  ASSUME NEW m \in Nat \ {0}, NEW a \in 0..m - 1, NEW x \in 0..m - 1
  PROVE  (a + x) % m = IF a + x < m THEN a + x ELSE a + x - m
<1>1. CASE a + x < m
  <2>1. m * 0 + (a + x) = a + x /\ a + x \in 0..m - 1
    BY <1>1
  <2> QED
    BY <1>1, <2>1, Cociente
<1>2. CASE a + x >= m
  <2>1. m * 1 + (a + x - m) = a + x /\ a + x - m \in 0..m - 1
    BY <1>2
  <2> QED
    BY <1>2, <2>1, Cociente
<1> QED
  BY <1>1, <1>2

\* A copy does not come back to an address it has been at.
LEMMA DirDistinta ==
  ASSUME NEW a \in Byte, NEW x \in Byte, NEW y \in Byte, x # y
  PROVE  (a + x) % (B * B) # (a + y) % (B * B)
<1> DEFINE m == B * B
<1>1. m \in Nat \ {0} /\ a \in 0..m - 1 /\ x \in 0..m - 1 /\ y \in 0..m - 1
  BY Base DEF Byte
<1> HIDE DEF m
<1>2. /\ (a + x) % m = IF a + x < m THEN a + x ELSE a + x - m
      /\ (a + y) % m = IF a + y < m THEN a + y ELSE a + y - m
  BY <1>1, SumaModulo
<1>3. (a + x) % m # (a + y) % m
  BY <1>1, <1>2
<1> QED
  BY <1>3 DEF m

LEMMA DosMas ==
  ASSUME NEW v \in Seq(Int), NEW a \in Int, NEW b \in Int, NEW n \in Nat, Len(v) = 2 * n
  PROVE  /\ v \o <<a, b>> \in Seq(Int) /\ Len(v \o <<a, b>>) = 2 * n + 2
         /\ (v \o <<a, b>>)[2 * n + 1] = a /\ (v \o <<a, b>>)[2 * n + 2] = b
         /\ \A q \in 1..2 * n : (v \o <<a, b>>)[q] = v[q]
<1>1. <<a, b>> \in Seq(Int) /\ Len(<<a, b>>) = 2 /\ <<a, b>>[1] = a /\ <<a, b>>[2] = b
  OBVIOUS
<1> DEFINE w == <<a, b>>
<1> HIDE DEF w
<1>2. w \in Seq(Int) /\ Len(w) = 2 /\ w[1] = a /\ w[2] = b
  BY <1>1 DEF w
<1>3. v \o w \in Seq(Int) /\ Len(v \o w) = Len(v) + Len(w)
  BY <1>2, ConcatProperties
<1>4. \A q \in 1..Len(v) + Len(w) : (v \o w)[q] = IF q <= Len(v) THEN v[q] ELSE w[q - Len(v)]
  BY <1>2, ConcatProperties
<1>5. Len(v) + Len(w) = 2 * n + 2
  BY <1>2
<1>6. (v \o w)[2 * n + 1] = a /\ (v \o w)[2 * n + 2] = b
  <2>1. /\ 2 * n + 1 \in 1..2 * n + 2 /\ 2 * n + 2 \in 1..2 * n + 2
        /\ ~(2 * n + 1 <= 2 * n) /\ ~(2 * n + 2 <= 2 * n)
        /\ (2 * n + 1) - 2 * n = 1 /\ (2 * n + 2) - 2 * n = 2
    OBVIOUS
  <2> QED
    BY <2>1, <1>2, <1>4, <1>5
<1>7. \A q \in 1..2 * n : q \in 1..2 * n + 2 /\ q <= 2 * n
  OBVIOUS
<1> QED
  BY <1>3, <1>4, <1>5, <1>6, <1>7 DEF w

\* What a copy has done so far.
Hecho ==
  /\ \A k \in 0..i - 1 : Dir(k) \in RAM
  /\ IF req.cmd = "m"
     THEN /\ resp \in [t : {""}, v : Seq(Int)] /\ Len(resp.v) = 2 * i
          /\ \A k \in 0..i - 1 : /\ resp.v[2 * k + 1] = hexchars(mem[Dir(k)] \div B)
                                 /\ resp.v[2 * k + 2] = hexchars(mem[Dir(k)] % B)
     ELSE \A k \in 0..i - 1 : mem[Dir(k)] = req.bytes[k + 1]

Copiado == pc = "copia" => Hecho

LEMMA CopiadoEmpieza ==
  ASSUME NEW p \in Peticiones, EmpiezaCopia(p), pc' = "copia", pc = "orden"
  PROVE  Hecho'
<1>1. i' = 0 /\ resp' = [t |-> "", v |-> <<>>]
  BY DEF EmpiezaCopia, Resp, Responde
<1>2. Len(<<>>) = 2 * 0 /\ <<>> \in Seq(Int)
  OBVIOUS
<1>3. \A n : n = 0 => 0..n - 1 = {} /\ 2 * n = 0
  OBVIOUS
<1>4. resp' \in [t : {""}, v : Seq(Int)] /\ Len(resp'.v) = 2 * i'
  BY <1>1, <1>2, <1>3
<1> QED
  BY <1>1, <1>3, <1>4 DEF Hecho

LEMMA CopiadoByte ==
  ASSUME Tipado, Hecho, CopiaByte
  PROVE  Hecho'
<1>1. /\ pc = "copia" /\ mem_err = FALSE /\ i < Count /\ Ptr \in RAM /\ i' = i + 1
      /\ UNCHANGED req
  BY CopiaEfecto
<1>2. i \in Nat /\ Count \in Byte /\ i \in Byte /\ Arg1(req).intValue \in Byte /\ req \in Peticiones
  <2>1. i \in 0..Count /\ Count \in Byte /\ Count \in Nat
    BY <1>1, PtrTipo DEF Tipado, Copiando
  <2>2. i \in Byte
    BY <1>1, <2>1, Base DEF Byte
  <2> QED
    BY <1>1, <2>1, <2>2, ArgTipo DEF Tipado, Copiando
<1>3. \A k : Dir(k)' = Dir(k)
  BY <1>1 DEF Dir
<1>4. Dir(i) = Ptr
  BY DEF Dir, Ptr
<1>5. ASSUME NEW k \in 0..i' - 1 PROVE k = i \/ k \in 0..i - 1
  BY <1>1, <1>2
<1>6. \A k \in 0..i' - 1 : Dir(k)' \in RAM
  BY <1>1, <1>3, <1>4, <1>5 DEF Hecho
<1>7. CASE req.cmd = "m"
  <2>1. resp' = [resp EXCEPT !.v = @ \o mem2hex(mem[Ptr])] /\ mem' = mem
    BY <1>7, CopiaEfecto
  <2>2. /\ resp \in [t : {""}, v : Seq(Int)] /\ Len(resp.v) = 2 * i
        /\ \A k \in 0..i - 1 : /\ resp.v[2 * k + 1] = hexchars(mem[Dir(k)] \div B)
                               /\ resp.v[2 * k + 2] = hexchars(mem[Dir(k)] % B)
    BY <1>7 DEF Hecho
  <2> DEFINE v == resp.v
             a == hexchars(mem[Ptr] \div B)
             b == hexchars(mem[Ptr] % B)
  <2>3. a \in Int /\ b \in Int
    <3>1. mem[Ptr] \in Byte
      BY <1>1 DEF Tipado, TypeOK
    <3>2. mem[Ptr] \div B \in 0..B - 1 /\ mem[Ptr] % B \in 0..B - 1
      BY <3>1, Digitos2
    <3>3. \A d \in 0..B - 1 : hexchars(d) \in Int
      BY Base DEF hexchars
    <3> QED
      BY <3>2, <3>3
  <2>4. resp'.v = v \o <<a, b>> /\ resp'.t = ""
    BY <2>1, <2>2 DEF mem2hex
  <2>6. v \in Seq(Int) /\ Len(v) = 2 * i
    BY <2>2
  <2>5. resp' \in [t : {""}, v : Seq(Int)]
    <3>1. v \o <<a, b>> \in Seq(Int)
      BY <2>3, <2>6, <1>2, DosMas
    <3>2. resp' = [t |-> "", v |-> v \o <<a, b>>]
      BY <2>1, <2>2 DEF mem2hex
    <3> HIDE DEF a, b, v
    <3> QED
      BY <3>1, <3>2
  <2> HIDE DEF a, b, v
  <2>7. /\ Len(resp'.v) = 2 * i + 2
        /\ resp'.v[2 * i + 1] = a /\ resp'.v[2 * i + 2] = b
        /\ \A q \in 1..2 * i : resp'.v[q] = v[q]
    <3> DEFINE w == v \o <<a, b>>
    <3>1. /\ Len(w) = 2 * i + 2 /\ w[2 * i + 1] = a /\ w[2 * i + 2] = b
          /\ \A q \in 1..2 * i : w[q] = v[q]
      BY <2>3, <2>6, <1>2, DosMas
    <3>2. resp'.v = w
      BY <2>4
    <3> HIDE DEF w
    <3> QED
      BY <3>1, <3>2
  <2>8. ASSUME NEW k \in 0..i' - 1
        PROVE  /\ resp'.v[2 * k + 1] = hexchars(mem'[Dir(k)'] \div B)
               /\ resp'.v[2 * k + 2] = hexchars(mem'[Dir(k)'] % B)
    <3>1. CASE k = i
      BY <3>1, <2>1, <2>7, <1>3, <1>4 DEF a, b
    <3>2. CASE k \in 0..i - 1
      <4>1. 2 * k + 1 \in 1..2 * i /\ 2 * k + 2 \in 1..2 * i
        BY <3>2, <1>2
      <4>2. resp'.v[2 * k + 1] = v[2 * k + 1] /\ resp'.v[2 * k + 2] = v[2 * k + 2]
        BY <4>1, <2>7
      <4> QED
        BY <3>2, <4>2, <2>1, <2>2, <1>3 DEF v
    <3> QED
      BY <1>5, <3>1, <3>2
  <2>9. Len(resp'.v) = 2 * i'
    BY <1>1, <1>2, <2>7
  <2> QED
    BY <1>1, <1>6, <1>7, <2>5, <2>8, <2>9 DEF Hecho
<1>8. CASE req.cmd # "m"
  <2>1. mem' = [mem EXCEPT ![Ptr] = req.bytes[i + 1]]
    BY <1>8, CopiaEfecto
  <2>2. ASSUME NEW k \in 0..i' - 1
        PROVE  mem'[Dir(k)'] = req'.bytes[k + 1]
    <3>1. CASE k = i
      BY <3>1, <2>1, <1>1, <1>3, <1>4 DEF Tipado, TypeOK
    <3>2. CASE k \in 0..i - 1
      <4>1. k \in Byte /\ k # i
        BY <3>2, <1>2, Base DEF Byte
      <4>2. Dir(k) # Ptr
        BY <4>1, <1>2, <1>4, DirDistinta DEF Dir
      <4>3. mem[Dir(k)] = req.bytes[k + 1] /\ Dir(k) \in RAM
        BY <3>2, <1>8 DEF Hecho
      <4> QED
        BY <4>2, <4>3, <2>1, <1>1, <1>3 DEF Tipado, TypeOK
    <3> QED
      BY <1>5, <3>1, <3>2
  <2> QED
    BY <1>1, <1>6, <1>8, <2>2 DEF Hecho
<1> QED
  BY <1>7, <1>8

LEMMA CopiadoSigue == Tipado /\ Copiado /\ [Next]_vars => Copiado'
<1> SUFFICES ASSUME Tipado, Copiado, [Next]_vars, pc' = "copia" PROVE Hecho'
  BY DEF Copiado
<1>1. CASE CopiaByte
  BY <1>1, CopiadoByte, CopiaEfecto DEF Copiado
<1>2. ASSUME pc = "orden", NEW p \in Peticiones, Atiende(p) PROVE Hecho'
  <2>1. EmpiezaCopia(p)
    BY <1>2 DEF Atiende, UltimaSenal, LeeTodos, LeeRegistro, FijaTodos, FijaRegistro, Desconocida,
                Responde, Continua, Paso, Reanuda, PasoSinMemoria
  <2> QED
    BY <1>2, <2>1, CopiadoEmpieza
<1>3. CASE FalloCopia \/ UNCHANGED vars
  <2>1. pc = "copia" /\ UNCHANGED <<bucle, resp, mem>>
    BY <1>3 DEF FalloCopia, vars
  <2> QED
    BY <2>1 DEF Copiado, Hecho, Dir, bucle
<1> QED
  BY <1>1, <1>2, <1>3
  DEF Next, Corre, Copia, Anidado, Ejecuta, Excepcion, _handle_exception, TerminaCopia,
      TerminaNula, Termina

LEMMA MismosDigitos ==
  ASSUME NEW n \in Byte, NEW f \in [1..n -> Byte], NEW v \in Seq(Int), Len(v) = 2 * n,
         \A k \in 0..n - 1 : /\ v[2 * k + 1] = hexchars(f[k + 1] \div B)
                             /\ v[2 * k + 2] = hexchars(f[k + 1] % B)
  PROVE  v = EnHex(f)
<1>0. n \in Nat
  BY Base DEF Byte
<1>1. n \in Nat /\ f \in Seq(Byte) /\ Len(f) = n
  BY <1>0
<1>2. /\ EnHex(f) \in Seq(Int) /\ Len(EnHex(f)) = 2 * n
      /\ \A k \in 1..n : /\ EnHex(f)[2 * k - 1] = hexchars(f[k] \div B)
                         /\ EnHex(f)[2 * k] = hexchars(f[k] % B)
  BY <1>1, EnHexForma
<1>3. ASSUME NEW q \in 1..2 * n PROVE v[q] = EnHex(f)[q]
  <2>1. \E k \in 1..n : q = 2 * k - 1 \/ q = 2 * k
    <3>1. q \in Nat /\ q \in Int
      BY <1>0
    <3>2. q % 2 \in 0..1 /\ q \div 2 \in Int /\ q = 2 * (q \div 2) + (q % 2)
      BY <3>1
    <3>3. \A k \in Int, r \in 0..1 : q = 2 * k + r => 
            (r = 0 => k \in 1..n) /\ (r = 1 => k + 1 \in 1..n /\ q = 2 * (k + 1) - 1)
      BY <1>0
    <3> DEFINE r == q % 2
               h == q \div 2
    <3>4. r \in 0..1 /\ h \in Int /\ q = 2 * h + r
      BY <3>2
    <3> HIDE DEF r, h
    <3>5. CASE r = 0
      BY <3>3, <3>4, <3>5
    <3>6. CASE r = 1
      BY <3>3, <3>4, <3>6
    <3> QED
      BY <3>4, <3>5, <3>6
  <2>2. PICK k \in 1..n : q = 2 * k - 1 \/ q = 2 * k
    BY <2>1
  <2>3. k - 1 \in 0..n - 1 /\ 2 * (k - 1) + 1 = 2 * k - 1 /\ 2 * (k - 1) + 2 = 2 * k /\ (k - 1) + 1 = k
    BY <1>1
  <2>4. v[2 * k - 1] = hexchars(f[k] \div B) /\ v[2 * k] = hexchars(f[k] % B)
    BY <2>3
  <2> QED
    BY <2>2, <2>4, <1>2
<1> HIDE DEF EnHex
<1> QED
  BY <1>2, <1>3, SeqEqual

\* The end of a copy.
LEMMA FinVeraz ==
  ASSUME Tipado, Copiado, Copia, pc = "copia", pc' = "orden"
  PROVE  LET a == Arg1(req).intValue n == Arg2(req).intValue
             D(k) == (a + k) % (B * B)
         IN \/ resp'.t = "OK" /\ \A k \in 0..n - 1 : mem[D(k)] = req.bytes[k + 1]
            \/ resp'.t = "datos" /\ resp'.v = EnHex([k \in 1..n |-> mem[D(k - 1)]])
            \/ resp'.t = "E14" /\ ((\E k \in 0..n - 1 : D(k) \notin RAM) \/ D(n) = 0)
<1> DEFINE n == Arg2(req).intValue
<1> SUFFICES \/ resp'.t = "OK" /\ \A k \in 0..n - 1 : mem[Dir(k)] = req.bytes[k + 1]
             \/ resp'.t = "datos" /\ resp'.v = EnHex([k \in 1..n |-> mem[Dir(k - 1)]])
             \/ resp'.t = "E14" /\ ((\E k \in 0..n - 1 : Dir(k) \notin RAM) \/ Dir(n) = 0)
  BY DEF Dir
<1>0. /\ n = Count /\ n \in Byte /\ n \in Nat /\ i \in 0..n /\ Dir(i) = Ptr
      /\ Hecho
  BY PtrTipo, ArgTipo DEF Tipado, Copiando, Copiado, Count, Dir, Ptr
<1> HIDE DEF n
<1>1. CASE TerminaCopia
  <2>1. i = n /\ resp' = IF req.cmd = "m" THEN Resp("datos", resp.v)
                         ELSE IF Ptr # 0 THEN Resp("OK", <<>>) ELSE Resp("E14", <<>>)
    BY <1>0, <1>1 DEF TerminaCopia, Termina
  <2>2. CASE req.cmd = "m"
    <3> DEFINE f == [k \in 1..n |-> mem[Dir(k - 1)]]
    <3>1. /\ resp.v \in Seq(Int) /\ Len(resp.v) = 2 * n
          /\ \A k \in 0..n - 1 : /\ resp.v[2 * k + 1] = hexchars(mem[Dir(k)] \div B)
                                 /\ resp.v[2 * k + 2] = hexchars(mem[Dir(k)] % B)
      BY <1>0, <2>1, <2>2 DEF Hecho
    <3>2. \A k \in 1..n : k - 1 \in 0..n - 1 
      BY <1>0
    <3>3. \A k \in 0..n - 1 : Dir(k) \in RAM
      BY <1>0, <2>1 DEF Hecho
    <3>4. f \in [1..n -> Byte]
      BY <3>2, <3>3 DEF Tipado, TypeOK
    <3>5. \A k \in 0..n - 1 : k + 1 \in 1..n /\ (k + 1) - 1 = k
      BY <1>0
    <3>6. \A k \in 0..n - 1 : f[k + 1] = mem[Dir(k)]
      BY <3>5
    <3> HIDE DEF f
    <3>7. \A k \in 0..n - 1 : /\ resp.v[2 * k + 1] = hexchars(f[k + 1] \div B)
                              /\ resp.v[2 * k + 2] = hexchars(f[k + 1] % B)
      BY <3>1, <3>6
    <3>8. resp.v = EnHex(f)
      BY <1>0, <3>1, <3>4, <3>7, MismosDigitos
    <3> QED
      BY <2>1, <2>2, <3>8 DEF Resp, f
  <2>3. CASE req.cmd # "m" /\ Ptr # 0
    BY <1>0, <2>1, <2>3 DEF Resp, Hecho
  <2>4. CASE req.cmd # "m" /\ Ptr = 0
    BY <1>0, <2>1, <2>4 DEF Resp
  <2> QED
    BY <2>2, <2>3, <2>4
<1>2. CASE TerminaNula
  <2>1. i < n /\ Ptr \notin RAM /\ resp' = Resp("E14", <<>>)
    BY <1>0, <1>2 DEF TerminaNula, Termina, Tipado, Copiando
  <2>2. i \in 0..n - 1
    BY <1>0, <2>1
  <2> QED
    BY <1>0, <2>1, <2>2 DEF Resp
<1>3. CASE CopiaByte \/ FalloCopia
  BY <1>3 DEF CopiaByte, FalloCopia
<1> QED
  BY <1>1, <1>2, <1>3 DEF Copia

\* The reply to a copy is true of memory, whatever the host asks to copy and
\* wherever a bus error stops it (gdb.c:381-566, 974-1021).
THEOREM RespuestasVeraces == Spec => RespuestaVeraz
<1>1. Init => Copiado
  BY DEF Init, Copiado
<1>2. Tipado /\ Copiado /\ [Next]_vars =>
        [pc = "copia" /\ pc' = "orden" =>
           LET a == Arg1(req).intValue n == Arg2(req).intValue
               D(k) == (a + k) % (B * B)
           IN \/ resp'.t = "OK" /\ \A k \in 0..n - 1 : mem[D(k)] = req.bytes[k + 1]
              \/ resp'.t = "datos" /\ resp'.v = EnHex([k \in 1..n |-> mem[D(k - 1)]])
              \/ resp'.t = "E14" /\ ((\E k \in 0..n - 1 : D(k) \notin RAM) \/ D(n) = 0)]_vars
  <2> SUFFICES ASSUME Tipado, Copiado, [Next]_vars, pc = "copia", pc' = "orden" PROVE Copia
    BY FinVeraz
  <2> QED
    BY DEF Next, Corre, Anidado, vars, Ejecuta, Excepcion
<1> QED
  BY <1>1, <1>2, TipadoInit, TipadoSigue, CopiadoSigue, PTL DEF Spec, RespuestaVeraz
-----------------------------------------------------------------------------
(* Memory *)

\* Memory without the breakpoints of a step.
Original == IF stepping THEN Quita(mem) ELSE mem

Intacta == pc \in {"orden", "copia", "corre"} => Original = memH

\* Two breakpoints at two addresses come off as they went on.
LEMMA QuitaPuestos ==
  ASSUME NEW m \in [RAM -> Byte], NEW s \in RAM, NEW b \in RAM, s # b, NEW x \in Byte,
         NEW m1, m1 = [m EXCEPT ![s] = x], NEW m2, m2 = [m1 EXCEPT ![b] = x]
  PROVE  [[m2 EXCEPT ![s] = m[s]] EXCEPT ![b] = m1[b]] = m
  OBVIOUS

LEMMA QuitaPuesto ==
  ASSUME NEW m \in [RAM -> Byte], NEW s \in RAM, NEW x \in Byte
  PROVE  [[m EXCEPT ![s] = x] EXCEPT ![s] = m[s]] = m
  OBVIOUS

\* A step leaves memory as it was, under its breakpoints.
LEMMA PasoIntacto ==
  ASSUME Tipado, pc = "orden", NEW p \in Peticiones, Paso(p), ~PasoVecino
  PROVE  Original' = mem /\ Original = mem
<1> DEFINE r == Desde(p)
           s == Siguiente(r)
           b == branch_target(r)
           m1 == [mem EXCEPT ![s] = LM32_BREAK]
<1>0. TMem /\ TReg /\ mem \in [RAM -> Byte] /\ ~stepping
  BY Partes DEF Tipado, TMem, Modo
<1>1. /\ s \in RAM /\ (Salta(r) => b \in RAM)
      /\ stepping' = TRUE /\ seq_ptr' = s /\ seq_insn' = mem[s] /\ branch_step' = Salta(r)
      /\ LM32_BREAK \in Byte
  BY StubBase DEF Paso, Alcanza
<1>2. Salta(r) => b # s
  BY DEF PasoVecino
<1>3. CASE Salta(r)
  <2>1. /\ branch_ptr' = b /\ branch_insn' = m1[b]
        /\ mem' = [m1 EXCEPT ![b] = LM32_BREAK]
    BY <1>3 DEF Paso
  <2> HIDE DEF r, s, b, m1
  <2>2. [[mem' EXCEPT ![s] = mem[s]] EXCEPT ![b] = m1[b]] = mem
    <3>1. s \in RAM /\ b \in RAM /\ s # b /\ LM32_BREAK \in Byte /\ mem \in [RAM -> Byte]
      BY <1>0, <1>1, <1>2, <1>3
    <3>2. m1 = [mem EXCEPT ![s] = LM32_BREAK] /\ mem' = [m1 EXCEPT ![b] = LM32_BREAK]
      BY <2>1 DEF m1
    <3> QED
      BY <3>1, <3>2, QuitaPuestos
  <2>3. branch_step' = TRUE
    BY <1>1, <1>3 DEF Salta
  <2>4. Quita(mem)' = mem
    BY <1>1, <2>1, <2>2, <2>3 DEF Quita
  <2> QED
    BY <1>0, <1>1, <2>4 DEF Original
<1>4. CASE ~Salta(r)
  <2>1. mem' = m1
    BY <1>4 DEF Paso
  <2> HIDE DEF r, s, b
  <2>2. [mem' EXCEPT ![s] = mem[s]] = mem
    BY <1>0, <1>1, <2>1, QuitaPuesto DEF m1
  <2> QED
    BY <1>0, <1>1, <1>4, <2>2 DEF Original, Quita
<1> QED
  BY <1>3, <1>4

\* What the steps that are not a step of the host's do to it.
LEMMA OriginalExcepcion ==
  ASSUME Tipado, NEW e \in Excepciones, Excepcion(e)
  PROVE  Original' = Original /\ pc' = "orden" /\ ~stepping' /\ UNCHANGED memH
         /\ registers' = [registers EXCEPT ![EID] = e]
<1>1. ~FalloPropio(e)
  BY DEF Tipado, Modo, Excepcion, FalloPropio
<1>2. /\ mem' = (IF stepping THEN Quita(mem) ELSE mem) /\ stepping' = FALSE
      /\ pc' = "orden" /\ registers' = [registers EXCEPT ![EID] = e]
      /\ UNCHANGED memH
  BY <1>1 DEF Excepcion, _handle_exception
<1> QED
  BY <1>2 DEF Original

LEMMA OriginalQuieta ==
  ASSUME UNCHANGED <<mem, paso>>
  PROVE  Original' = Original
  BY DEF Original, Quita, paso

LEMMA SinPaso ==
  ASSUME Tipado, pc # "corre"
  PROVE  Original = mem /\ stepping = FALSE
  BY Partes DEF Original, Tipado, Modo, TPaso

LEMMA IntactaSigue ==
  Tipado /\ Intacta /\ [Next]_vars /\ [~PasoVecino]_vars => Intacta'
<1> SUFFICES ASSUME Tipado, Intacta, [Next]_vars, [~PasoVecino]_vars PROVE Intacta'
  OBVIOUS
<1>1. CASE Ejecuta
  BY <1>1, OriginalQuieta DEF Intacta, Ejecuta
<1>2. CASE \E e \in Excepciones : Excepcion(e)
  <2>1. PICK e \in Excepciones : Excepcion(e)
    BY <1>2
  <2> QED
    BY <2>1, OriginalExcepcion DEF Intacta, Excepcion
<1>3. ASSUME pc = "orden", NEW p \in Peticiones, Atiende(p) PROVE Intacta'
  <2>1. CASE Paso(p)
    <3>1. ~PasoVecino
      <4>1. CASE UNCHANGED vars
        BY <1>3, <2>1, <4>1 DEF Paso, Reanuda, vars
      <4> QED
        BY <4>1
    <3> QED
      BY <1>3, <2>1, <3>1, PasoIntacto DEF Intacta, Paso
  <2>2. CASE PasoSinMemoria(p)
    BY <2>2 DEF PasoSinMemoria, Intacta
  <2>3. CASE ~Paso(p) /\ ~PasoSinMemoria(p)
    <3>1. UNCHANGED <<mem, paso>> /\ UNCHANGED memH
      BY <1>3, <2>3 DEF Atiende, UltimaSenal, LeeTodos, FijaTodos, LeeRegistro, FijaRegistro,
                        Desconocida, EmpiezaCopia, Continua, Quieto
    <3> QED
      BY <1>3, <3>1, OriginalQuieta DEF Intacta
  <2> QED
    BY <2>1, <2>2, <2>3
<1>4. CASE CopiaByte
  <2>1. pc = "copia" /\ pc' = "copia" /\ UNCHANGED paso
    BY <1>4, CopiaEfecto
  <2>2. mem = memH /\ ~stepping /\ ~stepping'
    BY <2>1, SinPaso DEF Intacta, paso
  <2>3. mem' = memH'
    BY <1>4, <2>2, CopiaEfecto
  <2> QED
    BY <2>1, <2>2, <2>3 DEF Intacta, Original
<1>5. CASE FalloCopia \/ TerminaCopia \/ TerminaNula \/ UNCHANGED vars
  <2>1. /\ UNCHANGED <<mem, paso>> /\ UNCHANGED memH
        /\ pc' \in {"orden", "copia", "corre"} => pc \in {"orden", "copia", "corre"}
    BY <1>5 DEF FalloCopia, TerminaCopia, TerminaNula, Termina, vars
  <2> QED
    BY <2>1, OriginalQuieta DEF Intacta
<1> QED
  BY <1>1, <1>2, <1>3, <1>4, <1>5 DEF Next, Corre, Copia, Anidado

\* While the stub listens, memory is the host's, if the host steps no branch to
\* the instruction behind it: with such a step the memory is not (GdbPaso),
\* so the hypothesis cannot be left out (gdb.c:770-777, 1086-1097).
THEOREM MemoriaDelHost == Spec /\ SinVecinos => []StubIntegro
<1>1. Init => Intacta
  BY DEF Init, Intacta, Original
<1>2. Tipado /\ Intacta => StubIntegro
  BY SinPaso DEF Tipado, Intacta, StubIntegro, MemoriaIntegra
<1> QED
  BY <1>1, <1>2, TipadoInit, TipadoSigue, IntactaSigue, PTL DEF Spec, SinVecinos

\* What a step may leave behind.
Restos ==
  pc \in {"orden", "copia", "corre"} =>
    /\ \A a \in RAM : mem[a] = memH[a] \/ mem[a] = LM32_BREAK
    /\ stepping =>
         /\ seq_insn = memH[seq_ptr] \/ seq_insn = LM32_BREAK
         /\ branch_step => branch_insn = memH[branch_ptr] \/ branch_insn = LM32_BREAK

LEMMA RestosPaso ==
  ASSUME Tipado, Restos, pc = "orden", NEW p \in Peticiones, Paso(p)
  PROVE  Restos'
<1> DEFINE r == Desde(p)
           s == Siguiente(r)
           b == branch_target(r)
           m1 == [mem EXCEPT ![s] = LM32_BREAK]
<1>0. mem \in [RAM -> Byte] /\ \A a \in RAM : mem[a] = memH[a] \/ mem[a] = LM32_BREAK
  BY Partes DEF Tipado, TMem, Restos
<1>1. /\ s \in RAM /\ (Salta(r) => b \in RAM) /\ UNCHANGED memH
      /\ seq_ptr' = s /\ seq_insn' = mem[s] /\ branch_step' = Salta(r)
  BY DEF Paso, Alcanza
<1>2. \A a \in RAM : m1[a] = memH[a] \/ m1[a] = LM32_BREAK
  <2> HIDE DEF s
  <2> QED
    BY <1>0, <1>1
<1>3. CASE Salta(r)
  <2>1. /\ branch_ptr' = b /\ branch_insn' = m1[b]
        /\ mem' = [m1 EXCEPT ![b] = LM32_BREAK]
    BY <1>3 DEF Paso
  <2>2. DOMAIN m1 = RAM
    BY <1>0
  <2> HIDE DEF r, s, b, m1
  <2> QED
    BY <1>0, <1>1, <1>2, <1>3, <2>1, <2>2 DEF Restos
<1>4. CASE ~Salta(r)
  <2>2. mem' = m1
    BY <1>4 DEF Paso
  <2> HIDE DEF r
  <2>3. Salta(r) \in BOOLEAN
    BY DEF Salta
  <2>1. mem' = m1 /\ branch_step' = FALSE
    BY <1>1, <1>4, <2>2, <2>3
  <2> HIDE DEF r, s, b, m1
  <2> QED
    BY <1>0, <1>1, <1>2, <2>1 DEF Restos
<1> QED
  BY <1>3, <1>4

LEMMA RestosExcepcion ==
  ASSUME Tipado, Restos, NEW e \in Excepciones, Excepcion(e)
  PROVE  Restos'
<1>0. /\ TPaso /\ mem \in [RAM -> Byte] /\ memH \in [RAM -> Byte]
      /\ \A a \in RAM : mem[a] = memH[a] \/ mem[a] = LM32_BREAK
  BY Partes DEF Tipado, TMem, Excepcion, Restos
<1>1. ~stepping' /\ UNCHANGED memH
  BY OriginalExcepcion
<1>2. mem' = IF stepping THEN Quita(mem) ELSE mem
  BY DEF Excepcion, _handle_exception, Tipado, Modo, FalloPropio
<1>3. ASSUME stepping
      PROVE  \A a \in RAM : Quita(mem)[a] = memH[a] \/ Quita(mem)[a] = LM32_BREAK
  <2>1. /\ seq_insn = memH[seq_ptr] \/ seq_insn = LM32_BREAK
        /\ branch_step => branch_insn = memH[branch_ptr] \/ branch_insn = LM32_BREAK
    BY <1>3 DEF Restos, Excepcion
  <2> QED
    BY <1>0, <2>1 DEF Quita, TPaso
<1>4. \A a \in RAM : mem'[a] = memH[a] \/ mem'[a] = LM32_BREAK
  BY <1>0, <1>2, <1>3
<1> QED
  BY <1>1, <1>4 DEF Restos

LEMMA RestosSigue == Tipado /\ Restos /\ [Next]_vars => Restos'
<1> SUFFICES ASSUME Tipado, Restos, [Next]_vars PROVE Restos'
  OBVIOUS
<1>1. CASE \E e \in Excepciones : Excepcion(e)
  BY <1>1, RestosExcepcion
<1>2. CASE CopiaByte
  <2>1. /\ pc = "copia" /\ stepping' = FALSE /\ Ptr \in RAM
        /\ mem \in [RAM -> Byte] /\ memH \in [RAM -> Byte]
        /\ \A a \in RAM : mem[a] = memH[a] \/ mem[a] = LM32_BREAK
    BY <1>2, CopiaEfecto, SinPaso, Partes DEF Tipado, TMem, Restos, paso
  <2>2. \/ UNCHANGED <<mem, memH>>
        \/ /\ mem' = [mem EXCEPT ![Ptr] = req.bytes[i + 1]]
           /\ memH' = [memH EXCEPT ![Ptr] = req.bytes[i + 1]]
    BY <1>2, CopiaEfecto
  <2>3. \A a \in RAM : mem'[a] = memH'[a] \/ mem'[a] = LM32_BREAK
    BY <2>1, <2>2
  <2> QED
    BY <2>1, <2>3 DEF Restos
<1>3. ASSUME pc = "orden", NEW p \in Peticiones, Atiende(p) PROVE Restos'
  <2>1. CASE Paso(p)
    BY <1>3, <2>1, RestosPaso
  <2>2. CASE PasoSinMemoria(p)
    BY <2>2 DEF PasoSinMemoria, Restos
  <2>3. CASE ~Paso(p) /\ ~PasoSinMemoria(p)
    <3>1. UNCHANGED <<mem, paso>> /\ UNCHANGED memH
      BY <1>3, <2>3 DEF Atiende, UltimaSenal, LeeTodos, FijaTodos, LeeRegistro, FijaRegistro,
                        Desconocida, EmpiezaCopia, Continua, Quieto
    <3> QED
      BY <1>3, <3>1 DEF Restos, paso
  <2> QED
    BY <2>1, <2>2, <2>3
<1>4. CASE Ejecuta \/ FalloCopia \/ TerminaCopia \/ TerminaNula \/ UNCHANGED vars
  <2>1. /\ UNCHANGED <<mem, paso>> /\ UNCHANGED memH
        /\ pc' \in {"orden", "copia", "corre"} => pc \in {"orden", "copia", "corre"}
    BY <1>4 DEF Ejecuta, FalloCopia, TerminaCopia, TerminaNula, Termina, vars
  <2> QED
    BY <2>1 DEF Restos, paso
<1> QED
  BY <1>1, <1>2, <1>3, <1>4 DEF Next, Corre, Copia, Anidado

\* Whatever the steps, what they leave in memory while the stub listens is a
\* breakpoint of theirs and nothing else (gdb.c:770-777, 1086-1097).
SoloPuntosDeParada ==
  pc \in {"orden", "copia"} => \A a \in RAM : mem[a] \in {memH[a], LM32_BREAK}

THEOREM RestosDePaso == Spec => []SoloPuntosDeParada
<1>1. Init => Restos
  BY DEF Init, Restos
<1>2. Restos => SoloPuntosDeParada
  BY DEF Restos, SoloPuntosDeParada
<1> QED
  BY <1>1, <1>2, TipadoInit, TipadoSigue, RestosSigue, PTL DEF Spec
-----------------------------------------------------------------------------
(* The debugger that the host is promised *)

\* The stub's state as Depurador sees it.
Estado == IF pc \in {"orden", "copia"} THEN "parado"
          ELSE IF pc = "corre" THEN "corre" ELSE "perdido"
Credito == IF stepping THEN (IF ejec = 0 THEN 1 ELSE 0) ELSE -1

PasoDepurador == [Abstracto!Next]_(Abstracto!vars)

LEMMA NadaEsPaso ==
  ASSUME UNCHANGED <<Original, registers[RA], registers[PC], Estado, Credito>>
  PROVE  PasoDepurador
  BY DEF PasoDepurador, Abstracto!vars, Original, Estado, Credito

LEMMA EscribeEsPaso ==
  ASSUME Estado = "parado", NEW a \in RAM, NEW b \in Byte,
         Original' = [Original EXCEPT ![a] = b],
         UNCHANGED <<registers[RA], registers[PC], Estado, Credito>>
  PROVE  PasoDepurador
<1>1. Abstracto!Escribe
  BY DEF Abstracto!Escribe, Abstracto!Byte, Byte, Original, Estado, Credito
<1> QED
  BY <1>1 DEF PasoDepurador, Abstracto!Next

LEMMA RegistraEsPaso ==
  ASSUME Estado = "parado", registers[RA]' \in Byte, registers[PC]' \in Byte,
         UNCHANGED <<Original, Estado, Credito>>
  PROVE  PasoDepurador
<1>1. Abstracto!Registra
  BY DEF Abstracto!Registra, Abstracto!Byte, Byte, Original, Estado, Credito
<1> QED
  BY <1>1 DEF PasoDepurador, Abstracto!Next

LEMMA ArrancaEsPaso ==
  ASSUME Estado = "parado", Estado' = "corre", Credito' \in {1, -1}, registers[PC]' \in Byte,
         UNCHANGED <<Original, registers[RA]>>
  PROVE  PasoDepurador
<1>1. Abstracto!Arranca
  BY DEF Abstracto!Arranca, Abstracto!SIN, Abstracto!Byte, Byte, Original, Estado, Credito
<1> QED
  BY <1>1 DEF PasoDepurador, Abstracto!Next

LEMMA ParaEsPaso ==
  ASSUME Estado = "corre", Estado' = "parado", Credito' = -1,
         UNCHANGED <<Original, registers[RA], registers[PC]>>
  PROVE  PasoDepurador
<1>1. Abstracto!Para
  BY DEF Abstracto!Para, Abstracto!SIN, Original, Estado, Credito
<1> QED
  BY <1>1 DEF PasoDepurador, Abstracto!Next

\* Where the instruction t at the program counter may go on.
Destinos(t) == CASE t.tipo = "bi" -> {Destino(t.des)}
                 [] t.tipo = "be" -> {Destino(t.des), Destino(1)}
                 [] t.tipo = "b" -> {registers[RA]}
                 [] t.tipo \in {"otra", "ie"} -> {Destino(1)}
                 [] OTHER -> {}

LEMMA EjecutaEsPaso ==
  ASSUME Estado = "corre", Credito # 0, registers[PC] \in RAM,
         registers[PC]' \in Destinos(Insn[Original[registers[PC]]]),
         Credito' = IF Credito = -1 THEN -1 ELSE Credito - 1,
         UNCHANGED <<Original, registers[RA], Estado>>
  PROVE  PasoDepurador
<1>1. Abstracto!Sucesores(registers[PC]) = Destinos(Insn[Original[registers[PC]]])
  BY DEF Abstracto!Sucesores, Destinos, Destino, Original
<1>2. Abstracto!Ejecuta
  BY <1>1 DEF Abstracto!Ejecuta, Abstracto!SIN, Original, Estado, Credito
<1> QED
  BY <1>2 DEF PasoDepurador, Abstracto!Next

LEMMA PierdeEsPaso ==
  ASSUME Estado = "parado", Estado' = "perdido", NEW c \in Byte, registers[PC]' = c,
         c \in RAM => \/ c + 1 \notin RAM
                      \/ LET t == Insn[Original[c]]
                         IN  \/ t.tipo \in {"bi", "be"} /\ (c + t.des) % (B * B) \notin RAM
                             \/ t.tipo = "b" /\ registers[RA] \notin RAM,
         Original' \in [RAM -> Byte],
         UNCHANGED <<registers[RA], Credito>>
  PROVE  PasoDepurador
<1>1. c \in RAM => \E d \in Abstracto!Sucesores(c) \cup {c + 1} : d \notin RAM
  BY DEF Abstracto!Sucesores, Original
<1>2. Abstracto!Pierde
  BY <1>1 DEF Abstracto!Pierde, Abstracto!Byte, Byte, Original, Estado, Credito
<1> QED
  BY <1>2 DEF PasoDepurador, Abstracto!Next

\* The breakpoints of a step are in memory where the instruction may go on,
\* until it has been executed: then the program is at one of them.
Rumbo ==
  LET t == Insn[Original[registers[PC]]]
  IN /\ seq_ptr = Destino(1)
     /\ branch_step <=> t.tipo \in {"bi", "be", "b"}
     /\ branch_step => branch_ptr = IF t.tipo = "b" THEN registers[RA] ELSE Destino(t.des)

Puestos ==
  stepping =>
    /\ seq_ptr \in RAM /\ mem[seq_ptr] = LM32_BREAK
    /\ branch_step => branch_ptr \in RAM /\ mem[branch_ptr] = LM32_BREAK
    /\ IF ejec = 0 THEN registers[PC] \in RAM /\ Rumbo
       ELSE \/ registers[PC] = seq_ptr
            \/ branch_step /\ registers[PC] = branch_ptr

\* The cache holds no word that memory does not, while the program runs.
Cache == pc = "corre" => \A a \in RAM : ic[a] \in {Negativo, mem[a]}

LEMMA LeidaEs ==
  ASSUME Cache, pc = "corre", registers[PC] \in RAM
  PROVE  Leida = mem[registers[PC]]
  BY DEF Cache, Leida

\* A word of memory is the program's, or a breakpoint.
LEMMA PalabraOriginal ==
  ASSUME Tipado, Puestos, NEW a \in RAM
  PROVE  mem[a] = Original[a] \/ mem[a] = LM32_BREAK
<1>1. CASE ~stepping
  BY <1>1 DEF Original
<1>2. CASE stepping
  <2>1. /\ TPaso /\ mem \in [RAM -> Byte] /\ seq_ptr \in RAM /\ mem[seq_ptr] = LM32_BREAK
        /\ (branch_step => branch_ptr \in RAM /\ mem[branch_ptr] = LM32_BREAK)
    BY <1>2, Partes DEF Puestos, Tipado, TMem
  <2>2. Original = Quita(mem)
    BY <1>2 DEF Original
  <2> QED
    BY <2>1, <2>2 DEF Quita
<1> QED
  BY <1>1, <1>2

\* An instruction goes on where the host sees it goes, and a breakpoint does
\* not go on.
LEMMA EjecutaDonde ==
  ASSUME Tipado, Puestos, Cache, Ejecuta
  PROVE  /\ registers[PC] \in RAM
         /\ registers[PC]' \in Destinos(Insn[Original[registers[PC]]])
         /\ Insn[Original[registers[PC]]].tipo # "break"
         /\ UNCHANGED registers[RA]
         /\ mem[registers[PC]] # LM32_BREAK
<1>0. /\ TReg /\ pc = "corre" /\ registers[PC] \in RAM
  BY Partes DEF Tipado, Ejecuta
<1>1. Leida = mem[registers[PC]] /\ Leida \in Byte
  BY <1>0, LeidaEs, LeidaTipo, Partes DEF Tipado
<1>2. PICK s \in Destinos(Insn[Leida]) : registers' = [registers EXCEPT ![PC] = s]
  BY DEF Ejecuta, Destinos
<1>3. Insn[Leida].tipo # "break"
  BY <1>2 DEF Destinos
<1>4. Leida # LM32_BREAK
  BY <1>1, <1>3, StubAssumption
<1>5. Leida = Original[registers[PC]]
  BY <1>0, <1>1, <1>4, PalabraOriginal
<1>6. registers'[PC] = s /\ registers'[RA] = registers[RA]
  BY <1>0, <1>2 DEF TReg, PC, RA, Registros, NUM_REGS
<1> QED
  BY <1>0, <1>1, <1>2, <1>3, <1>4, <1>5, <1>6

LEMMA EjecutaPrimera ==
  ASSUME Tipado, Puestos, Cache, Ejecuta, stepping
  PROVE  /\ ejec = 0
         /\ \/ registers'[PC] = seq_ptr
            \/ branch_step /\ registers'[PC] = branch_ptr
<1>1. ejec = 0
  <2> SUFFICES ASSUME ejec # 0 PROVE FALSE
    OBVIOUS
  <2>1. mem[registers[PC]] = LM32_BREAK
    BY DEF Puestos
  <2> QED
    BY <2>1, EjecutaDonde
<1>2. Rumbo /\ registers'[PC] \in Destinos(Insn[Original[registers[PC]]])
  BY <1>1, EjecutaDonde DEF Puestos
<1> QED
  BY <1>1, <1>2 DEF Rumbo, Destinos

LEMMA PuestosEjecuta ==
  ASSUME Tipado, Puestos, Cache, Ejecuta
  PROVE  Puestos' /\ Cache'
<1>1. /\ pc' = "corre" /\ UNCHANGED <<mem, paso>> /\ ic' = Cacheada
      /\ registers[PC] \in RAM /\ pc = "corre"
      /\ ejec' = IF ejec = 2 THEN 2 ELSE ejec + 1
  BY DEF Ejecuta
<1>2. Cache'
  <2>1. Leida = mem[registers[PC]] /\ ic \in [RAM -> Byte \cup {Negativo}]
    BY <1>1, LeidaEs, Partes DEF Tipado, TMem
  <2> QED
    BY <1>1, <2>1 DEF Cache, Cacheada
<1>3. Puestos'
  <2> SUFFICES ASSUME stepping PROVE Puestos'
    BY <1>1 DEF Puestos, paso
  <2>1. ejec' # 0 /\ (registers'[PC] = seq_ptr \/ (branch_step /\ registers'[PC] = branch_ptr))
    <3>1. ejec = 0 /\ (registers'[PC] = seq_ptr \/ (branch_step /\ registers'[PC] = branch_ptr))
      BY EjecutaPrimera
    <3>2. ejec' # 0
      BY <1>1, <3>1
    <3> QED
      BY <3>1, <3>2
  <2>2. /\ UNCHANGED <<mem, stepping, seq_ptr, branch_step, branch_ptr>>
        /\ seq_ptr \in RAM /\ mem[seq_ptr] = LM32_BREAK
        /\ (branch_step => branch_ptr \in RAM /\ mem[branch_ptr] = LM32_BREAK)
    BY <1>1 DEF Puestos, paso
  <2> QED
    BY <2>1, <2>2 DEF Puestos
<1> QED
  BY <1>2, <1>3

LEMMA PuestosPaso ==
  ASSUME Tipado, pc = "orden", NEW p \in Peticiones, Paso(p), ~PasoVecino
  PROVE  Puestos'
<1> DEFINE r == Desde(p)
<1>0. TMem /\ TReg /\ mem \in [RAM -> Byte]
  BY Partes DEF Tipado, TMem
<1>1. /\ r \in [Registros -> Byte] /\ registers' = r
      /\ r[PC] \in RAM /\ Siguiente(r) \in RAM
      /\ (Salta(r) => branch_target(r) \in RAM)
      /\ mem'[Siguiente(r)] = LM32_BREAK
      /\ (Salta(r) => mem'[branch_target(r)] = LM32_BREAK)
  BY <1>0, PasoEfecto
<1>2. /\ seq_ptr' = Siguiente(r) /\ branch_step' = Salta(r) /\ ejec' = 0
      /\ (Salta(r) => branch_ptr' = branch_target(r))
  BY DEF Paso, Reanuda
<1>3. Original' = mem
  BY PasoIntacto
<1> HIDE DEF r
<1>4. Rumbo'
  BY <1>1, <1>2, <1>3 DEF Rumbo, Siguiente, Salta, branch_target, Destino
<1> QED
  BY <1>1, <1>2, <1>4 DEF Puestos

LEMMA PuestosSigue ==
  Tipado /\ Puestos /\ Cache /\ [Next]_vars /\ [~PasoVecino]_vars => Puestos' /\ Cache'
<1> SUFFICES ASSUME Tipado, Puestos, Cache, [Next]_vars, [~PasoVecino]_vars
             PROVE  Puestos' /\ Cache'
  OBVIOUS
<1>1. CASE Ejecuta
  BY <1>1, PuestosEjecuta
<1>2. CASE \E e \in Excepciones : Excepcion(e)
  BY <1>2, OriginalExcepcion DEF Puestos, Cache
<1>3. ASSUME pc = "orden", NEW p \in Peticiones, Atiende(p) PROVE Puestos' /\ Cache'
  <2>1. stepping = FALSE
    BY <1>3, SinPaso
  <2>2. CASE Paso(p)
    <3>1. ~PasoVecino
      BY <1>3, <2>2 DEF Paso, Reanuda, vars
    <3>2. Cache'
      BY <2>2 DEF Paso, Reanuda, Cache, Vacia
    <3> QED
      BY <1>3, <2>2, <3>1, <3>2, PuestosPaso
  <2>3. CASE Continua(p)
    BY <2>1, <2>3 DEF Continua, Reanuda, Puestos, Cache, Vacia, paso
  <2>4. CASE ~Paso(p) /\ ~Continua(p)
    <3>1. UNCHANGED paso /\ pc' # "corre"
      BY <1>3, <2>4 DEF Atiende, UltimaSenal, LeeTodos, FijaTodos, LeeRegistro, FijaRegistro,
                        Desconocida, EmpiezaCopia, PasoSinMemoria, Quieto, Responde
    <3> QED
      BY <2>1, <3>1 DEF Puestos, Cache, paso
  <2> QED
    BY <2>2, <2>3, <2>4
<1>4. CASE Copia
  <2>1. pc = "copia" /\ pc' # "corre" /\ UNCHANGED paso
    BY <1>4 DEF Copia, CopiaByte, FalloCopia, TerminaCopia, TerminaNula, Termina
  <2> QED
    BY <2>1, SinPaso DEF Puestos, Cache, paso
<1>5. CASE UNCHANGED vars
  <2>1. Original' = Original
    BY <1>5, OriginalQuieta DEF vars
  <2> QED
    BY <1>5, <2>1 DEF Puestos, Rumbo, Destino, Cache, vars, paso
<1> QED
  BY <1>1, <1>2, <1>3, <1>4, <1>5 DEF Next, Corre, Anidado

ProgramaTipo == registers[RA] \in Byte /\ registers[PC] \in Byte /\ Original \in [RAM -> Byte]

LEMMA ContadorTipo == Tipado => ProgramaTipo
<1> SUFFICES ASSUME Tipado PROVE ProgramaTipo
  OBVIOUS
<1>1. TReg /\ TMem /\ TPaso
  BY Partes DEF Tipado
<1> QED
  BY <1>1, QuitaTipo DEF ProgramaTipo, TReg, TMem, PC, RA, Registros, NUM_REGS, Original

LEMMA ContadorTipoSig == Tipado' => ProgramaTipo'
  BY ContadorTipo, PTL

\* c and s change no register but the program counter.
LEMMA DesdeBase ==
  ASSUME TReg, NEW p \in Peticiones, registers' = Desde(p)
  PROVE  UNCHANGED registers[RA]
  BY DEF Desde, TReg, PC, RA, Registros, NUM_REGS

LEMMA EjecutaImplementa ==
  ASSUME Tipado, Puestos, Cache, Ejecuta
  PROVE  PasoDepurador
<1>1. /\ registers[PC] \in RAM /\ UNCHANGED registers[RA]
      /\ registers[PC]' \in Destinos(Insn[Original[registers[PC]]])
  BY EjecutaDonde
<1>2. /\ pc = "corre" /\ pc' = "corre" /\ UNCHANGED <<mem, paso, stepping>>
      /\ ejec' = IF ejec = 2 THEN 2 ELSE ejec + 1
  BY DEF Ejecuta, paso
<1>3. Estado = "corre" /\ Estado' = "corre" /\ UNCHANGED Original
  BY <1>2, OriginalQuieta DEF Estado
<1>4. Credito # 0 /\ Credito' = IF Credito = -1 THEN -1 ELSE Credito - 1
  <2>1. CASE stepping
    <3>1. ejec = 0
      BY <2>1, EjecutaPrimera
    <3>2. ejec' = 1
      BY <1>2, <3>1
    <3> QED
      BY <1>2, <2>1, <3>1, <3>2 DEF Credito
  <2>2. CASE ~stepping
    BY <1>2, <2>2 DEF Credito
  <2> QED
    BY <2>1, <2>2
<1> QED
  BY <1>1, <1>3, <1>4, EjecutaEsPaso

LEMMA ExcepcionImplementa ==
  ASSUME Tipado, NEW e \in Excepciones, Excepcion(e)
  PROVE  PasoDepurador
<1>1. /\ UNCHANGED Original /\ pc = "corre" /\ pc' = "orden" /\ ~stepping'
      /\ registers' = [registers EXCEPT ![EID] = e]
  BY OriginalExcepcion DEF Excepcion
<1>2. UNCHANGED <<registers[RA], registers[PC]>>
  BY <1>1, Partes DEF Tipado, TReg, RA, PC, EID, Registros, NUM_REGS
<1> QED
  BY <1>1, <1>2, ParaEsPaso DEF Estado, Credito

LEMMA SinMemoriaImplementa ==
  ASSUME Tipado, Tipado', pc = "orden", NEW p \in Peticiones, PasoSinMemoria(p)
  PROVE  PasoDepurador
<1> DEFINE r == Desde(p)
           c == r[PC]
<1>0. TReg /\ Original = mem /\ stepping = FALSE
  BY SinPaso, Partes DEF Tipado
<1>1. /\ registers' = r /\ ~Alcanza(r) /\ UNCHANGED paso /\ pc' \in {"anidado", "perdido"}
  BY DEF PasoSinMemoria
<1>2. /\ r \in [Registros -> Byte] /\ c \in Byte /\ registers[PC]' = c
      /\ UNCHANGED registers[RA] /\ r[RA] = registers[RA]
  <2>1. r \in [Registros -> Byte] /\ UNCHANGED registers[RA]
    BY <1>0, <1>1, DesdeTipo, DesdeBase
  <2> HIDE DEF r
  <2>2. c \in Byte
    BY <2>1, StubBase
  <2> QED
    BY <1>1, <2>1, <2>2
<1>3. Original' \in [RAM -> Byte]
  BY ContadorTipoSig DEF ProgramaTipo
<1>4. Estado = "parado" /\ Estado' = "perdido" /\ UNCHANGED Credito
  BY <1>0, <1>1 DEF Estado, Credito, paso
<1>5. ASSUME c \in RAM
      PROVE  \/ c + 1 \notin RAM
             \/ LET t == Insn[Original[c]]
                IN  \/ t.tipo \in {"bi", "be"} /\ (c + t.des) % (B * B) \notin RAM
                    \/ t.tipo = "b" /\ registers[RA] \notin RAM
  <2> HIDE DEF r
  <2>1. Siguiente(r) \notin RAM \/ (Salta(r) /\ branch_target(r) \notin RAM)
    BY <1>1, <1>5 DEF Alcanza
  <2>2. CASE Siguiente(r) \notin RAM
    <3>1. c + 1 \in RAM => c + 1 \in 0..B * B - 1
      BY StubBase DEF Byte
    <3> DEFINE m == B * B
    <3>2. c \in 0..m - 1 /\ m \in Nat \ {0}
      BY <1>2, Base DEF Byte
    <3> HIDE DEF m, c
    <3>3. c + 1 \in 0..m - 1 => (c + 1) % m = c + 1
      <4> SUFFICES ASSUME c + 1 \in 0..m - 1 PROVE (c + 1) % m = c + 1
        OBVIOUS
      <4>1. m * 0 + (c + 1) = c + 1
        BY <3>2
      <4> QED
        BY <3>2, <4>1, Cociente
    <3>4. c + 1 \in RAM => (c + 1) % (B * B) = c + 1
      BY <3>1, <3>3 DEF m
    <3> QED
      BY <2>2, <3>4 DEF Siguiente, c
  <2>3. CASE Salta(r) /\ branch_target(r) \notin RAM
    BY <1>0, <1>2, <2>3 DEF Salta, branch_target
  <2> QED
    BY <2>1, <2>2, <2>3
<1> HIDE DEF c
<1> QED
  BY <1>2, <1>3, <1>4, <1>5, PierdeEsPaso

LEMMA AtiendeImplementa ==
  ASSUME Tipado, Tipado', pc = "orden", NEW p \in Peticiones, Atiende(p), [~PasoVecino]_vars
  PROVE  PasoDepurador
<1>0. TReg /\ Original = mem /\ stepping = FALSE /\ Estado = "parado" /\ Credito = -1
  BY SinPaso, Partes DEF Tipado, Estado, Credito
<1>1. CASE Paso(p)
  <2>1. ~PasoVecino
    BY <1>1 DEF Paso, Reanuda, vars
  <2>2. UNCHANGED Original
    BY <1>1, <2>1, PasoIntacto
  <2>3. stepping' = TRUE /\ ejec' = 0 /\ pc' = "corre" /\ registers' = Desde(p)
    BY <1>1 DEF Paso, Reanuda
  <2> QED
    BY <1>0, <2>2, <2>3, DesdeBase, ContadorTipoSig, ArrancaEsPaso DEF Estado, Credito, ProgramaTipo
<1>2. CASE Continua(p)
  <2>1. /\ UNCHANGED <<mem, paso>> /\ stepping' = FALSE /\ pc' = "corre"
        /\ registers' = Desde(p)
    BY <1>0, <1>2 DEF Continua, Reanuda, paso
  <2>2. UNCHANGED Original
    BY <2>1, OriginalQuieta
  <2> QED
    BY <1>0, <2>1, <2>2, DesdeBase, ContadorTipoSig, ArrancaEsPaso DEF Estado, Credito, ProgramaTipo
<1>3. CASE PasoSinMemoria(p)
  BY <1>3, SinMemoriaImplementa
<1>4. CASE ~Paso(p) /\ ~Continua(p) /\ ~PasoSinMemoria(p)
  <2>1. UNCHANGED <<mem, paso>> /\ pc' \in {"orden", "copia"}
    BY <1>4 DEF Atiende, UltimaSenal, LeeTodos, FijaTodos, LeeRegistro, FijaRegistro,
                Desconocida, EmpiezaCopia, Quieto, Responde
  <2>2. UNCHANGED Original
    BY <2>1, OriginalQuieta
  <2> QED
    BY <1>0, <2>1, <2>2, ContadorTipoSig, RegistraEsPaso DEF Estado, Credito, paso, ProgramaTipo
<1> QED
  BY <1>1, <1>2, <1>3, <1>4

LEMMA CopiaImplementa ==
  ASSUME Tipado, Copia
  PROVE  PasoDepurador
<1>1. pc = "copia" /\ pc' \in {"orden", "copia"} /\ UNCHANGED paso /\ UNCHANGED registers
  <2>1. may_fault = TRUE
    BY DEF Tipado, Modo, Copia, CopiaByte, FalloCopia, TerminaCopia, TerminaNula
  <2> QED
    BY <2>1 DEF Copia, CopiaByte, FalloCopia, TerminaCopia, TerminaNula, Termina
<1>2. Original = mem /\ stepping = FALSE /\ Original' = mem' /\ UNCHANGED Credito
  BY <1>1, SinPaso DEF Original, Credito, paso
<1>3. Estado = "parado" /\ Estado' = "parado"
  BY <1>1 DEF Estado
<1>4. CASE UNCHANGED mem
  BY <1>1, <1>2, <1>3, <1>4, NadaEsPaso
<1>5. CASE CopiaByte /\ req.cmd # "m"
  <2>1. mem' = [mem EXCEPT ![Ptr] = req.bytes[i + 1]] /\ Ptr \in RAM
    BY <1>5, CopiaEfecto
  <2>2. req.bytes[i + 1] \in Byte
    BY <1>5, CopiaEfecto, ByteCopiado DEF Tipado, Copiando
  <2> QED
    BY <1>1, <1>2, <1>3, <2>1, <2>2, EscribeEsPaso
<1> QED
  BY <1>4, <1>5, CopiaEfecto DEF Copia, FalloCopia, TerminaCopia, TerminaNula, Termina

LEMMA StubImplementa ==
  Tipado /\ Tipado' /\ Puestos /\ Cache /\ [Next]_vars /\ [~PasoVecino]_vars => PasoDepurador
<1> SUFFICES ASSUME Tipado, Tipado', Puestos, Cache, [Next]_vars, [~PasoVecino]_vars
             PROVE  PasoDepurador
  OBVIOUS
<1>1. CASE UNCHANGED vars
  <2>1. UNCHANGED Original
    BY <1>1, OriginalQuieta DEF vars
  <2> QED
    BY <1>1, <2>1, NadaEsPaso DEF Estado, Credito, vars, paso
<1> QED
  BY <1>1, EjecutaImplementa, ExcepcionImplementa, AtiendeImplementa, CopiaImplementa
  DEF Next, Corre, Anidado

\* The stub with its breakpoints, its cache and its registers' frame is the
\* debugger that Depurador promises: stopped, the program changes only by
\* the host; stepped, it executes one instruction of those the host sees at
\* most (gdb.c:735-1099). The hypothesis is MemoriaDelHost's.
THEOREM DepuradorImplementado == Spec /\ SinVecinos => ImplementaDepurador
<1>1. Init => Puestos /\ Cache
  BY DEF Init, Puestos, Cache
<1>2. Init => Abstracto!Init
  <2> SUFFICES ASSUME Init PROVE Abstracto!Init
    OBVIOUS
  <2>1. Original = mem /\ mem \in [RAM -> Byte] /\ registers[RA] \in Byte /\ registers[PC] \in Byte
    BY ContadorTipo, TipadoInit, Partes DEF Init, Original, Tipado, TMem, ProgramaTipo
  <2> QED
    BY <2>1 DEF Init, Abstracto!Init, Abstracto!SIN, Abstracto!Byte, Byte, Original
<1> QED
  BY <1>1, <1>2, TipadoInit, TipadoSigue, PuestosSigue, StubImplementa, PTL
  DEF Spec, SinVecinos, ImplementaDepurador, Abstracto!Spec, PasoDepurador
-----------------------------------------------------------------------------
(* The packets, character by character: GdbEnlace *)

\* There is room for the next character of a packet (gdb.c:159): inductive by
\* itself.
Cabida == count \in 0..BUFMAX /\ (gpc = "datos" => count < BUFMAX)

\* A text that has no NUL in the buffer has one behind it.
Terminado == pisado \/ buffer[BUFMAX - 1] = NUL

LEMMA CabidaInit == EInit => Cabida
  BY EnlaceAssumption DEF EInit, Cabida

\* A character of a packet, by what it is.
LEMMA CabidaDato ==
  ASSUME Cabida, NEW ch, LeeDato(ch)
  PROVE  Cabida'
<1>1. CASE ch = DOLAR /\ Empieza
  BY <1>1, EnlaceAssumption DEF Cabida, Empieza
<1>2. CASE gpc' = "suma1" /\ UNCHANGED count
  BY <1>2 DEF Cabida
<1>3. CASE /\ count' = count + 1
           /\ IF Cabe(count + 1) THEN UNCHANGED <<gpc, pisado>>
                                 ELSE gpc' = "espera" /\ pisado' = TRUE
  <2>1. gpc = "datos" /\ count < BUFMAX /\ BUFMAX \in Nat
    BY EnlaceAssumption DEF LeeDato, Cabida
  <2>2. count' \in 0..BUFMAX
    BY <1>3, <2>1 DEF Cabida
  <2>3. gpc' = "datos" => count' < BUFMAX
    BY <1>3 DEF Cabe
  <2> QED
    BY <2>2, <2>3 DEF Cabida
<1> QED
  BY <1>1, <1>2, <1>3 DEF LeeDato

\* The host and the line leave the buffer alone.
LEMMA CabidaQuieta ==
  ASSUME Cabida, UNCHANGED stub
  PROVE  Cabida'
  BY DEF Cabida, stub

LEMMA CabidaLee ==
  ASSUME Cabida, Lee
  PROVE  Cabida'
<1> DEFINE ch == Head(hs)
<1>1. CASE EsperaInicio(ch)
  <2>1. CASE ch = DOLAR /\ Empieza
    BY <2>1, EnlaceAssumption DEF Cabida, Empieza
  <2>2. CASE UNCHANGED stub
    BY <2>2, CabidaQuieta
  <2> QED
    BY <1>1, <2>1, <2>2 DEF EsperaInicio
<1>2. CASE LeeDato(ch)
  BY <1>2, CabidaDato
<1>3. CASE LeeSuma1(ch)
  BY <1>3 DEF LeeSuma1, Cabida
<1>4. CASE LeeSuma2(ch)
  BY <1>4 DEF LeeSuma2, Cabida, putpacket
<1>5. CASE LeeAck(ch)
  BY <1>5 DEF LeeAck, Cabida
<1> QED
  BY <1>1, <1>2, <1>3, <1>4, <1>5 DEF Lee

LEMMA CabidaPaso == Cabida /\ [ENext]_evars => Cabida'
<1> SUFFICES ASSUME Cabida, [ENext]_evars PROVE Cabida'
  OBVIOUS
<1>1. CASE Lee
  BY <1>1, CabidaLee
<1>2. CASE Pide
  BY <1>2, CabidaQuieta DEF Pide
<1>3. CASE Oye
  BY <1>3, CabidaQuieta DEF Oye
<1>4. CASE VenceTiempo
  BY <1>4, CabidaQuieta DEF VenceTiempo, Vence
<1>5. CASE Falla
  BY <1>5, CabidaQuieta DEF Falla, Vence
<1>6. CASE UNCHANGED evars
  BY <1>6, CabidaQuieta DEF evars
<1> QED
  BY <1>1, <1>2, <1>3, <1>4, <1>5, <1>6 DEF ENext

-----------------------------------------------------------------------------
(***************************************************************************)
(* GdbEnlace: what the stub carries out, and whose reply the host takes.   *)
(*                                                                         *)
(* The request that the host is at is in one of three phases. Libre: the   *)
(* host has its answer. Pendiente: it waits for a '+'. Aceptada: the stub  *)
(* has carried the request out, and the host waits for the '+', or for the *)
(* reply behind it. What can still happen depends on what is on the line,  *)
(* and that has one of five shapes: nothing that will be read as a frame   *)
(* (Sordo), the frame of the request (Llega), what is left of it while the *)
(* stub reads it (Leyendo), the same with a character of it lost (Danada), *)
(* or so little that the stub waits for more (Atascado). While nothing has *)
(* failed the phases are simpler: at most one frame, one answer and one    *)
(* '+' are on the line. Sigue has the clean phases before the first        *)
(* failure and the others before the second.                               *)
(***************************************************************************)

\* The request that the host is at, what it asks, and its frame.
Pedida == Sesion[turno]
Actual == Contenido(Pedida)
F == Trama(Pedida)
N == Len(Pedida)
LF == N + 4

\* What the stub sends: an acknowledgement, an item of a reply, or a reply.
Articulo == [t : {"+", "-", "otro", "trama"}, r : Seq(Byte), bien : BOOLEAN]

\* The frame of the request behind the first d characters of the line; with a
\* negative d, what the stub has left of it.
Viene(d) == /\ d \in Int /\ 1 <= d + LF /\ d + LF <= Len(hs)
            /\ \A c \in 1..LF : d + c >= 1 => hs[d + c] = F[c]

\* No frame begins but that one, the same again right behind it, or one of
\* which the stub takes every character for a refusal of its reply.
Marcas(d) ==
  \A p \in DOMAIN hs : hs[p] = DOLAR =>
    \/ p = d + 1
    \/ p = d + LF + 1 /\ Viene(d + LF)
    \/ p <= d /\ gpc = "ack" /\ \A q \in 1..p : hs[q] # MAS

\* Nothing on the line will be read as a frame.
Sordo ==
  /\ gpc \in {"espera", "ack"}
  /\ \A p \in DOMAIN hs : hs[p] = DOLAR => gpc = "ack" /\ \A q \in 1..p : hs[q] # MAS

\* The characters of the request are in the buffer, ended by a NUL.
Copia_entera == /\ N < BUFMAX /\ buffer[N] = NUL
                /\ \A c \in 1..N : buffer[c - 1] = Pedida[c]

\* The frame of the request is behind d characters that the stub will not
\* take for one.
Llega(d) ==
  /\ d >= 0 /\ Viene(d) /\ Marcas(d)
  /\ \/ gpc = "espera"
     \/ gpc = "ack" /\ \E q \in 1..d : hs[q] = MAS
     \/ gpc = "datos" /\ d = 0
     \/ gpc = "suma2" /\ d = 0 /\ Copia_entera /\ Len(hs) = LF /\ sh = <<>>

\* Where the stub is in getpacket when it has read m characters of a frame,
\* and how many of the request it has summed.
Prefijo(m) == IF m <= N THEN m ELSE N
Lugar(m) == IF m <= N + 1 THEN "datos" ELSE IF m = N + 2 THEN "suma1" ELSE "suma2"
Suma_media == xmitcsum = (hex(F[N + 3]) * B) % (B * B)

\* The first m characters of the frame have been read, all of them or all
\* but one.
Leyendo(m) ==
  /\ Viene(-m) /\ Marcas(-m)
  /\ gpc = Lugar(m) /\ checksum = Suma(Pedida, Prefijo(m - 1))
  /\ gpc = "datos" => count = m - 1 /\ \A c \in 1..m - 1 : buffer[c - 1] = Pedida[c]
  /\ gpc # "datos" => Copia_entera
  /\ gpc = "suma2" => Suma_media
\* The same with one lost, which the sum will show.
Danada(m) ==
  /\ m > 1 /\ Viene(-m) /\ Len(hs) = LF - m /\ sh = <<>>
  /\ gpc = Lugar(m) /\ checksum # Suma(Pedida, Prefijo(m - 1))
  /\ gpc = "suma2" => Suma_media

\* The last characters are left, one of them lost: the stub waits for one more.
Atascado ==
  /\ sh = <<>>
  /\ \/ gpc = "datos" /\ \A p \in DOMAIN hs : hs[p] \in Digitos
     \/ gpc = "suma1" /\ Copia_entera /\ Len(hs) = 1
     \/ gpc = "suma2" /\ Copia_entera /\ hs = <<>>

\* The reply in hand answers a request of the session.
Enviada == \E k \in DOMAIN Sesion : respuesta = Contenido(Sesion[k])

\* The three phases.
Libre ==
  /\ hst = "libre" /\ Sordo /\ hechas <= envios /\ hechas <= 2
  /\ \A p \in DOMAIN sh : sh[p].t \in {"trama", "otro"}
  /\ gpc = "ack" => respuesta = Actual
  /\ buffer[2] = DOSPUNTOS => ConSecuencia(Pedida)

\* What holds of a request that is pending, whatever is on the line.
Pendiente_base ==
  /\ hst = "ack" /\ hechas <= 1 /\ hechas <= envios /\ envios >= 1
  /\ gpc = "ack" => Enviada
  /\ N < 2 => buffer[2] # DOSPUNTOS
  /\ \A p \in DOMAIN sh : sh[p].t # "+"
Sin_menos == \A p \in DOMAIN sh : sh[p].t # "-"

\* A request is pending, and the stub will not read it, or will, once.
Pendiente ==
  /\ Pendiente_base
  /\ \/ Sordo /\ (Sin_menos \/ (gpc = "espera" /\ Len(sh) = 1))
     \/ /\ hechas < envios /\ Sin_menos
        /\ \/ \E d \in 0..Len(hs) : Llega(d)
           \/ \E m \in 1..N + 3 : Leyendo(m) \/ Danada(m)
           \/ Atascado

\* The stub has answered: the '+' is item g of what it sent, or the host has
\* it, and the reply comes behind or will be repeated.
Tras_el_mas(g) ==
  /\ hst = "ack" <=> g >= 1
  /\ g >= 1 => sh[g].t = "+"
  /\ \A p \in DOMAIN sh : p < g => sh[p].t \in {"trama", "otro"}
  /\ \A p \in DOMAIN sh : p > g => /\ sh[p].t \in {"trama", "otro"}
                                   /\ sh[p].t = "trama" => sh[p].r = Actual
  /\ \/ \E p \in DOMAIN sh : p > g /\ sh[p].t = "trama" /\ sh[p].bien
     \/ gpc = "ack" /\ hs # <<>> /\ hs[1] # MAS
     \/ gpc = "ack" /\ hs = <<>> /\ hst = "respuesta"

\* It has been carried out.
Aceptada ==
  /\ hst \in {"ack", "respuesta", "insiste"} /\ Sordo
  /\ hechas >= 1 /\ hechas <= 2 /\ hechas <= envios
  /\ gpc = "ack" => respuesta = Actual
  /\ buffer[2] = DOSPUNTOS => ConSecuencia(Pedida)
  /\ \E g \in 0..Len(sh) : Tras_el_mas(g)

\* The three, while nothing has failed.
Libre_limpia ==
  /\ hst = "libre" /\ sh = <<>> /\ hechas <= envios /\ hechas <= 1
  /\ buffer[2] = DOSPUNTOS => ConSecuencia(Pedida)
  /\ \/ gpc = "espera" /\ hs = <<>>
     \/ gpc = "ack" /\ hs = <<MAS>> /\ respuesta = Actual

Pendiente_limpia ==
  /\ Pendiente_base /\ sh = <<>> /\ hechas = 0
  /\ \/ Sordo /\ gpc = "espera"
     \/ Llega(0) /\ gpc = "espera" /\ Len(hs) = LF
     \/ Llega(1) /\ gpc = "ack" /\ Len(hs) = 1 + LF
     \/ \E m \in 1..N + 3 : Leyendo(m) /\ Len(hs) = LF - m

Aceptada_limpia ==
  /\ hst \in {"ack", "respuesta"} /\ gpc = "ack" /\ hs = <<>> /\ sh # <<>>
  /\ hechas = 1 /\ envios >= 1 /\ respuesta = Actual
  /\ buffer[2] = DOSPUNTOS => ConSecuencia(Pedida)
  /\ hst = "ack" => Len(sh) > 1 /\ sh[1].t = "+"
  /\ \A p \in DOMAIN sh :
       /\ sh[p].bien
       /\ p = Len(sh) => sh[p].t = "trama" /\ sh[p].r = Actual
       /\ p < Len(sh) => sh[p].t = "otro" \/ (p = 1 /\ hst = "ack")

\* The phases, by the number of failures.
Sigue ==
  /\ fallos = FALLOS => Libre_limpia \/ Pendiente_limpia \/ Aceptada_limpia
  /\ fallos = FALLOS - 1 => Libre \/ Pendiente \/ Aceptada

(* Sums and frames *)

\* The sum of the first n characters is what the loop of putpacket has after
\* them (gdb.c:279-287).
LEMMA SumaRecorre ==
  ASSUME NEW s, NEW n \in Nat
  PROVE  \E h : /\ h = [k \in 0..n |-> IF k = 0 THEN 0 ELSE (h[k - 1] + s[k]) % (B * B)]
                /\ Suma(s, n) = h[n]
<1> DEFINE T(f, k) == IF k = 0 THEN 0 ELSE (f[k - 1] + s[k]) % (B * B)
           E(m, f) == f = [k \in 0..m |-> T(f, k)]
           Sin == {m \in Nat : ~\E f : E(m, f)}
           h == CHOOSE f : E(n, f)
<1>1. \A m \in Nat : \E f : E(m, f)
  <2> SUFFICES ASSUME Sin # {} PROVE FALSE
    OBVIOUS
  <2>1. PICK m \in Sin : \A y \in Sin : m <= y
    BY Minimo
  <2>2. CASE m = 0
    <3> DEFINE g == [k \in 0..0 |-> 0]
    <3>1. g = [k \in 0..0 |-> T(g, k)]
      OBVIOUS
    <3> QED
      BY <2>1, <2>2, <3>1
  <2>3. CASE m > 0
    <3>1. m - 1 \in Nat /\ m - 1 \notin Sin
      BY <2>1, <2>3
    <3>2. PICK f : E(m - 1, f)
      BY <3>1
    <3> DEFINE g == [k \in 0..m |-> T(f, k)]
    <3>3. \A k \in 0..m - 1 : g[k] = f[k]
      BY <3>1, <3>2
    <3>4. ASSUME NEW k \in 0..m PROVE T(g, k) = T(f, k)
      <4> HIDE DEF g
      <4>1. k # 0 => g[k - 1] = f[k - 1]
        BY <3>1, <3>3
      <4> QED
        BY <4>1
    <3>5. g = [k \in 0..m |-> T(g, k)]
      BY <3>4
    <3> QED
      BY <2>1, <3>5
  <2> QED
    BY <2>1, <2>2, <2>3
<1>2. h = [k \in 0..n |-> T(h, k)]
  BY <1>1
<1>3. Suma(s, n) = h[n]
  BY DEF Suma
<1> HIDE DEF h
<1> QED
  BY <1>2, <1>3

\* A character more in the sum.
LEMMA SumaUna ==
  ASSUME NEW s, NEW n \in Nat
  PROVE  Suma(s, 0) = 0 /\ Suma(s, n + 1) = (Suma(s, n) + s[n + 1]) % (B * B)
<1>1. PICK h : /\ h = [k \in 0..n |-> IF k = 0 THEN 0 ELSE (h[k - 1] + s[k]) % (B * B)]
               /\ Suma(s, n) = h[n]
  BY SumaRecorre
<1>2. PICK g : /\ g = [k \in 0..n + 1 |-> IF k = 0 THEN 0 ELSE (g[k - 1] + s[k]) % (B * B)]
               /\ Suma(s, n + 1) = g[n + 1]
  <2>1. n + 1 \in Nat
    OBVIOUS
  <2> QED
    BY <2>1, SumaRecorre
<1>3. PICK z : /\ z = [k \in 0..0 |-> IF k = 0 THEN 0 ELSE (z[k - 1] + s[k]) % (B * B)]
               /\ Suma(s, 0) = z[0]
  BY SumaRecorre
<1>4. \A k \in 0..n : g[k] = h[k]
  <2> DEFINE Mal == {k \in 0..n : g[k] # h[k]}
  <2> SUFFICES ASSUME Mal # {} PROVE FALSE
    OBVIOUS
  <2>1. PICK k \in Mal : \A y \in Mal : k <= y
    <3>1. Mal \in SUBSET Nat
      OBVIOUS
    <3> QED
      BY <3>1, Minimo
  <2>2. CASE k = 0
    <3>1. h[0] = 0 /\ g[0] = 0
      BY <1>1, <1>2
    <3> QED
      BY <2>1, <2>2, <3>1
  <2>3. CASE k # 0
    <3>1. k - 1 \in 0..n /\ k - 1 \notin Mal
      BY <2>1, <2>3
    <3>2. h[k] = (h[k - 1] + s[k]) % (B * B) /\ g[k] = (g[k - 1] + s[k]) % (B * B)
      BY <1>1, <1>2, <2>1, <2>3
    <3> QED
      BY <2>1, <3>1, <3>2
  <2> QED
    BY <2>2, <2>3
<1>5. g[n + 1] = (g[n] + s[n + 1]) % (B * B)
  BY <1>2
<1>6. g[n] = h[n]
  BY <1>4
<1>7. z[0] = 0
  BY <1>3
<1>8. Suma(s, 0) = 0
  BY <1>3, <1>7
<1>9. Suma(s, n + 1) = (Suma(s, n) + s[n + 1]) % (B * B)
  BY <1>1, <1>2, <1>5, <1>6
<1> QED
  BY <1>8, <1>9

\* It is a number of two digits.
LEMMA SumaTipo ==
  ASSUME NEW s, NEW n \in Nat, \A k \in 1..n : s[k] \in Byte
  PROVE  Suma(s, n) \in Byte
<1> DEFINE Mal == {k \in 0..n : Suma(s, k) \notin Byte}
<1> SUFFICES ASSUME Mal # {} PROVE FALSE
  OBVIOUS
<1>1. PICK k \in Mal : \A y \in Mal : k <= y
  <2>1. Mal \in SUBSET Nat
    OBVIOUS
  <2> QED
    BY <2>1, Minimo
<1>2. CASE k = 0
  BY <1>1, <1>2, SumaUna, Base DEF Byte
<1>3. CASE k # 0
  <2>1. k - 1 \in 0..n /\ k - 1 \notin Mal /\ k - 1 \in Nat /\ (k - 1) + 1 = k
    BY <1>1, <1>3
  <2>2. Suma(s, k - 1) \in Int /\ s[k] \in Int
    BY <2>1 DEF Byte
  <2>3. Suma(s, k) = (Suma(s, k - 1) + s[k]) % (B * B)
    BY <2>1, SumaUna
  <2> DEFINE z == Suma(s, k - 1) + s[k]
  <2>4. z \in Int /\ Suma(s, k) = z % (B * B)
    BY <2>2, <2>3
  <2> HIDE DEF z
  <2>5. Suma(s, k) \in Byte
    BY <2>4, Resto, Base DEF Byte
  <2> QED
    BY <1>1, <2>5
<1> QED
  BY <1>2, <1>3

\* Two sums that differ do so with one more character.
LEMMA SumaInyectiva ==
  ASSUME NEW x \in Byte, NEW y \in Byte, NEW ch \in Byte, (x + ch) % (B * B) = (y + ch) % (B * B)
  PROVE  x = y
<1> DEFINE M == B * B
           p == (x + ch) \div M
           q == (y + ch) \div M
           r == (x + ch) % M
<1>1. M \in Nat \ {0} /\ x \in 0..M - 1 /\ y \in 0..M - 1 /\ ch \in 0..M - 1
  BY Base DEF Byte
<1> HIDE DEF M
<1>0. x + ch \in Int /\ y + ch \in Int
  BY <1>1
<1>2. x + ch = M * p + r /\ p \in Int /\ r \in 0..M - 1
  BY <1>0, <1>1, Resto
<1>3. y + ch = M * q + r /\ q \in Int
  <2>1. y + ch = M * q + ((y + ch) % M) /\ q \in Int
    BY <1>0, <1>1, Resto
  <2> QED
    BY <2>1 DEF M
<1> HIDE DEF p, q, r
<1>4. x - y = M * (p - q)
  BY <1>1, <1>2, <1>3
<1>5. p - q < 1
  <2> SUFFICES ASSUME p - q >= 1 PROVE FALSE
    BY <1>2, <1>3
  <2>1. M * 1 <= M * (p - q)
    BY <1>1, <1>2, <1>3, Monotona
  <2> QED
    BY <1>1, <1>4, <2>1
<1>6. p - q > -1
  <2> SUFFICES ASSUME p - q <= -1 PROVE FALSE
    BY <1>2, <1>3
  <2>1. M * (p - q) <= M * (-1)
    BY <1>1, <1>2, <1>3, Monotona
  <2> QED
    BY <1>1, <1>4, <2>1
<1>7. p - q = 0
  BY <1>2, <1>3, <1>5, <1>6
<1>8. x - y = 0
  BY <1>1, <1>4, <1>7
<1> QED
  BY <1>1, <1>8

\* The two characters of a sum, put together, are the sum.
LEMMA SumaLeida ==
  ASSUME NEW x \in Byte
  PROVE  (((hex(hexchars(x \div B)) * B) % (B * B)) + hex(hexchars(x % B))) % (B * B) = x
<1>1. hex(hexchars(x \div B)) = x \div B /\ hex(hexchars(x % B)) = x % B
  BY Digitos2, hexInversa
<1>2. (x \div B) * B \in 0..B * B - 1
  <2>1. (x \div B) \in 0..B - 1 /\ x % B \in 0..B - 1 /\ (x \div B) * B + (x % B) = x
    BY Digitos2
  <2> DEFINE q == x \div B
             r == x % B
  <2>2. q * B \in Int /\ q * B >= 0
    BY <2>1, Base
  <2> HIDE DEF q, r
  <2>3. q * B + r = x /\ r >= 0 /\ r \in Int
    BY <2>1 DEF q, r
  <2>4. q * B \in 0..B * B - 1
    BY <2>2, <2>3, Base DEF Byte
  <2> QED
    BY <2>4 DEF q
<1>3. ((x \div B) * B) % (B * B) = (x \div B) * B
  <2> DEFINE y == (x \div B) * B
             M == B * B
  <2>1. M \in Nat \ {0} /\ y \in 0..M - 1
    BY <1>2, Base
  <2> HIDE DEF y, M
  <2>2. y % M = y
    BY <2>1, Cociente
  <2> QED
    BY <2>2 DEF y, M
<1>4. x % (B * B) = x
  BY Base, Cociente DEF Byte
<1> QED
  BY <1>1, <1>3, <1>4, Digitos2

\* A frame, character by character.
LEMMA TramaForma ==
  ASSUME NEW s \in Seq(Byte \ {NUL, DOLAR, ALMOHADILLA})
  PROVE  LET n == Len(s)
             t == Trama(s)
         IN /\ t \in Seq(Byte) /\ Len(t) = n + 4 /\ n \in Nat
            /\ t[1] = DOLAR /\ t[n + 2] = ALMOHADILLA
            /\ \A c \in 1..n : t[c + 1] = s[c]
            /\ t[n + 3] \in Digitos /\ t[n + 4] \in Digitos
            /\ (((hex(t[n + 3]) * B) % (B * B)) + hex(t[n + 4])) % (B * B) = Suma(s, n)
<1> DEFINE n == Len(s)
           x == Suma(s, n)
           d == mem2hex(x)
           a == <<DOLAR>> \o s
           b == a \o <<ALMOHADILLA>>
<1>1. n \in Nat /\ s \in Seq(Byte) /\ \A k \in 1..n : s[k] \in Byte
  OBVIOUS
<1>2. x \in Byte
  BY <1>1, SumaTipo
<1> HIDE DEF x
<1>3. x \div B \in 0..B - 1 /\ x % B \in 0..B - 1
  BY <1>2, Digitos2
<1>4. \A y \in 0..B - 1 : hexchars(y) \in Digitos /\ hexchars(y) \in Byte
  BY BaseAssumption, Base DEF hexchars, Digitos, Byte
<1>5. d \in Seq(Byte) /\ Len(d) = 2 /\ d[1] = hexchars(x \div B) /\ d[2] = hexchars(x % B)
  BY <1>3, <1>4 DEF mem2hex
<1> HIDE DEF d
<1>6. DOLAR \in Byte /\ ALMOHADILLA \in Byte
  BY Base DEF DOLAR, ALMOHADILLA, Byte
<1>7. a \in Seq(Byte) /\ Len(a) = n + 1 /\ a[1] = DOLAR /\ \A c \in 1..n : a[c + 1] = s[c]
  BY <1>1, <1>6
<1> HIDE DEF a
<1>8. /\ b \in Seq(Byte) /\ Len(b) = n + 2 /\ b[n + 2] = ALMOHADILLA
      /\ \A c \in 1..n + 1 : b[c] = a[c]
  BY <1>1, <1>6, <1>7
<1> HIDE DEF b
<1>9. /\ b \o d \in Seq(Byte) /\ Len(b \o d) = n + 4
      /\ (b \o d)[n + 3] = d[1] /\ (b \o d)[n + 4] = d[2]
      /\ \A c \in 1..n + 2 : (b \o d)[c] = b[c]
  <2>1. b \o d \in Seq(Byte) /\ Len(b \o d) = n + 4
    <3> HIDE DEF n
    <3>1. b \o d \in Seq(Byte) /\ Len(b \o d) = Len(b) + Len(d)
      BY <1>5, <1>8, ConcatProperties
    <3> QED
      BY <3>1, <1>1, <1>5, <1>8
  <2>2. \A c \in 1..n + 4 : (b \o d)[c] = IF c <= n + 2 THEN b[c] ELSE d[c - (n + 2)]
    <3> HIDE DEF n
    <3>1. Len(b) + Len(d) = n + 4 /\ Len(b) = n + 2
      BY <1>1, <1>5, <1>8
    <3>2. \A c \in 1..Len(b) + Len(d) :
            (b \o d)[c] = IF c <= Len(b) THEN b[c] ELSE d[c - Len(b)]
      BY <1>5, <1>8, ConcatProperties
    <3> QED
      BY <3>1, <3>2
  <2>3. n + 3 \in 1..n + 4 /\ n + 4 \in 1..n + 4 /\ (n + 3) - (n + 2) = 1 /\ (n + 4) - (n + 2) = 2
        /\ ~(n + 3 <= n + 2) /\ ~(n + 4 <= n + 2)
    BY <1>1
  <2>4. (b \o d)[n + 3] = d[1] /\ (b \o d)[n + 4] = d[2]
    BY <2>2, <2>3
  <2>5. \A c \in 1..n + 2 : (b \o d)[c] = b[c]
    <3> HIDE DEF n
    <3> SUFFICES ASSUME NEW c \in 1..n + 2 PROVE (b \o d)[c] = b[c]
      OBVIOUS
    <3>1. c \in 1..n + 4 /\ c <= n + 2
      BY <1>1
    <3> QED
      BY <2>2, <3>1
  <2> QED
    BY <2>1, <2>4, <2>5
<1>10. Trama(s) = b \o d
  <2>1. Trama(s) = a \o <<ALMOHADILLA>> \o d
    BY DEF Trama, a, d, x, n
  <2> QED
    BY <2>1 DEF b
<1>11. (((hex(d[1]) * B) % (B * B)) + hex(d[2])) % (B * B) = x
  BY <1>2, <1>5, SumaLeida
<1>12. /\ Trama(s)[1] = DOLAR /\ Trama(s)[n + 2] = ALMOHADILLA
       /\ \A c \in 1..n : Trama(s)[c + 1] = s[c]
  BY <1>1, <1>7, <1>8, <1>9, <1>10
<1>13. Trama(s)[n + 3] \in Digitos /\ Trama(s)[n + 4] \in Digitos
  BY <1>3, <1>4, <1>5, <1>9, <1>10
<1>14. (((hex(Trama(s)[n + 3]) * B) % (B * B)) + hex(Trama(s)[n + 4])) % (B * B) = Suma(s, n)
  BY <1>9, <1>10, <1>11 DEF x
<1> QED
  BY <1>1, <1>9, <1>10, <1>12, <1>13, <1>14

\* The frame of the host's request.
Trama_pedida ==
  /\ F \in Seq(Byte) /\ Len(F) = LF /\ N \in Nat /\ LF = N + 4
  /\ F[1] = DOLAR /\ F[N + 2] = ALMOHADILLA
  /\ \A c \in 1..N : /\ F[c + 1] = Pedida[c] /\ Pedida[c] \in Byte
                     /\ Pedida[c] \notin {NUL, DOLAR, ALMOHADILLA}
  /\ F[N + 3] \in Digitos /\ F[N + 4] \in Digitos
  /\ (((hex(F[N + 3]) * B) % (B * B)) + hex(F[N + 4])) % (B * B) = Suma(Pedida, N)
  /\ \A c \in 1..LF : /\ F[c] = DOLAR <=> c = 1
                      /\ F[c] = ALMOHADILLA <=> c = N + 2
                      /\ F[c] \in Byte

\* The signs of the protocol are different, and none is a digit.
LEMMA Signos ==
  /\ \A x \in Digitos : x \in Byte /\ x \notin {DOLAR, ALMOHADILLA, MAS, MENOS, DOSPUNTOS}
  /\ NUL \in Byte /\ NUL # DOSPUNTOS
  /\ DOLAR # ALMOHADILLA /\ DOLAR # MAS /\ DOLAR # MENOS /\ MAS # MENOS
<1>1. \A x \in Digitos : x \in Byte
  BY BaseAssumption, Base DEF Digitos, Byte
<1>2. \A x \in Digitos : x \notin {DOLAR, ALMOHADILLA, MAS, MENOS, DOSPUNTOS}
  BY EnlaceAssumption
<1> QED
  BY <1>1, <1>2, Base DEF Byte, NUL, DOLAR, ALMOHADILLA, MAS, MENOS, DOSPUNTOS

\* The frame of the request the host is at.
LEMMA PedidaForma ==
  ASSUME turno \in 1..Len(Sesion)
  PROVE  Trama_pedida
<1>1. Pedida \in Seq(Byte \ {NUL, DOLAR, ALMOHADILLA})
  BY EnlaceAssumption DEF Pedida
<1>2. N \in Nat /\ \A c \in 1..N : Pedida[c] \in Byte \ {NUL, DOLAR, ALMOHADILLA}
  BY <1>1 DEF N
<1>3. /\ F \in Seq(Byte) /\ Len(F) = N + 4
      /\ F[1] = DOLAR /\ F[N + 2] = ALMOHADILLA
      /\ \A c \in 1..N : F[c + 1] = Pedida[c]
      /\ F[N + 3] \in Digitos /\ F[N + 4] \in Digitos
      /\ (((hex(F[N + 3]) * B) % (B * B)) + hex(F[N + 4])) % (B * B) = Suma(Pedida, N)
  BY <1>1, TramaForma DEF F, N
<1>4. ASSUME NEW c \in 1..LF
      PROVE  /\ F[c] = DOLAR <=> c = 1
             /\ F[c] = ALMOHADILLA <=> c = N + 2
             /\ F[c] \in Byte
  <2>1. CASE c = 1 \/ c = N + 2
    <3>1. DOLAR \in Byte /\ ALMOHADILLA \in Byte /\ DOLAR # ALMOHADILLA
      BY Base DEF DOLAR, ALMOHADILLA, Byte
    <3>2. 1 # N + 2
      BY <1>2
    <3> QED
      BY <1>3, <2>1, <3>1, <3>2
  <2>3. CASE c = N + 3 \/ c = N + 4
    <3>1. F[c] \in Digitos
      BY <1>3, <2>3
    <3>2. c # 1 /\ c # N + 2
      BY <1>2, <2>3
    <3> QED
      BY <3>1, <3>2, Signos
  <2>2. CASE c \in 2..N + 1
    <3>1. c - 1 \in 1..N /\ (c - 1) + 1 = c
      BY <1>2, <2>2
    <3>2. F[c] = Pedida[c - 1]
      BY <1>3, <3>1
    <3> QED
      BY <1>2, <2>2, <3>1, <3>2
  <2> QED
    BY <1>2, <2>1, <2>2, <2>3 DEF LF
<1> QED
  BY <1>2, <1>3, <1>4 DEF Trama_pedida, LF

\* A character written before the place it is read from.
LEMMA TextoEs ==
  ASSUME NEW buf, NEW k \in Nat, NEW n \in Nat, k <= n, n <= BUFMAX,
         n = BUFMAX \/ buf[n] = NUL, \A x \in k..n - 1 : buf[x] # NUL
  PROVE  Texto(buf, k) = [x \in 1..n - k |-> buf[k + x - 1]]
<1> DEFINE P(g) == (g = BUFMAX \/ buf[g] = NUL) /\ \A x \in k..g - 1 : buf[x] # NUL
           fin == CHOOSE g \in k..BUFMAX : P(g)
<1>0. BUFMAX \in Nat
  BY EnlaceAssumption
<1>1. n \in k..BUFMAX /\ P(n)
  BY <1>0
<1>2. \A g \in k..BUFMAX : P(g) => g = n
  <2> SUFFICES ASSUME NEW g \in k..BUFMAX, P(g), g # n PROVE FALSE
    OBVIOUS
  <2>1. g < n \/ n < g
    BY <1>0
  <2>2. CASE g < n
    BY <2>2, <1>0
  <2>3. CASE n < g
    BY <2>3, <1>0
  <2> QED
    BY <2>1, <2>2, <2>3
<1> HIDE DEF P
<1>3. fin = n
  BY <1>1, <1>2
<1>4. Texto(buf, k) = [x \in 1..fin - k |-> buf[k + x - 1]]
  BY DEF Texto, P
<1> QED
  BY <1>3, <1>4

\* Whatever the buffer holds, a text ends in it or right behind.
LEMMA PrimerFin ==
  ASSUME NEW buf, NEW k \in Nat, k <= BUFMAX
  PROVE  \E n \in Nat : /\ k <= n /\ n <= BUFMAX
                        /\ n = BUFMAX \/ buf[n] = NUL
                        /\ \A x \in k..n - 1 : buf[x] # NUL
<1>0. BUFMAX \in Nat
  BY EnlaceAssumption
<1> DEFINE T == {g \in k..BUFMAX : g = BUFMAX \/ buf[g] = NUL}
<1>1. T \in SUBSET Nat /\ T # {}
  BY <1>0
<1>2. PICK n \in T : \A y \in T : n <= y
  BY <1>1, Minimo
<1>3. n \in Nat /\ k <= n /\ n <= BUFMAX /\ (n = BUFMAX \/ buf[n] = NUL)
  BY <1>0, <1>2
<1>4. \A x \in k..n - 1 : buf[x] # NUL
  <2> SUFFICES ASSUME NEW x \in k..n - 1, buf[x] = NUL PROVE FALSE
    OBVIOUS
  <2>1. x \in T /\ x < n
    BY <1>0, <1>3
  <2>2. n <= x
    BY <1>2, <2>1
  <2> QED
    BY <1>0, <1>3, <2>1, <2>2
<1> QED
  BY <1>3, <1>4

LEMMA TextoAcaba ==
  ASSUME NEW buf, NEW k \in Nat, k <= BUFMAX
  PROVE  \E n \in k..BUFMAX : Texto(buf, k) = [x \in 1..n - k |-> buf[k + x - 1]]
<1>0. BUFMAX \in Nat
  BY EnlaceAssumption
<1>1. PICK n \in Nat : /\ k <= n /\ n <= BUFMAX
                       /\ n = BUFMAX \/ buf[n] = NUL
                       /\ \A x \in k..n - 1 : buf[x] # NUL
  BY PrimerFin
<1>2. Texto(buf, k) = [x \in 1..n - k |-> buf[k + x - 1]]
  BY <1>1, TextoEs
<1>3. n \in k..BUFMAX
  BY <1>0, <1>1
<1> QED
  BY <1>2, <1>3

LEMMA TextoTipo ==
  ASSUME NEW buf \in [0..BUFMAX - 1 -> Byte], NEW k \in 0..BUFMAX
  PROVE  Texto(buf, k) \in Seq(Byte)
<1>0. BUFMAX \in Nat /\ k \in Nat /\ k <= BUFMAX
  BY EnlaceAssumption
<1>1. PICK n \in k..BUFMAX : Texto(buf, k) = [x \in 1..n - k |-> buf[k + x - 1]]
  BY <1>0, TextoAcaba
<1>2. n - k \in Nat /\ \A x \in 1..n - k : buf[k + x - 1] \in Byte
  BY <1>0
<1> QED
  BY <1>1, <1>2

\* A packet that is whole in the buffer is carried out as what it asks.
LEMMA TextoPedido ==
  ASSUME turno \in 1..Len(Sesion), Copia_entera, N < 2 => buffer[2] # DOSPUNTOS
  PROVE  /\ buffer[2] = DOSPUNTOS <=> ConSecuencia(Pedida)
         /\ Texto(buffer, IF buffer[2] = DOSPUNTOS THEN 3 ELSE 0) = Actual
<1>0. Trama_pedida
  BY PedidaForma
<1>1. N \in Nat /\ N < BUFMAX /\ BUFMAX \in Nat /\ buffer[N] = NUL
  BY <1>0, EnlaceAssumption DEF Copia_entera, Trama_pedida
<1>2. \A c \in 1..N : buffer[c - 1] = Pedida[c] /\ Pedida[c] # NUL
  BY <1>0 DEF Copia_entera, Trama_pedida
<1>3. \A x \in 0..N - 1 : buffer[x] = Pedida[x + 1] /\ buffer[x] # NUL
  <2> SUFFICES ASSUME NEW x \in 0..N - 1 PROVE buffer[x] = Pedida[x + 1] /\ buffer[x] # NUL
    OBVIOUS
  <2>1. x + 1 \in 1..N /\ (x + 1) - 1 = x
    BY <1>1
  <2> QED
    BY <1>2, <2>1
<1>4. buffer[2] = DOSPUNTOS <=> ConSecuencia(Pedida)
  <2>1. CASE N < 2
    BY <1>1, <2>1 DEF ConSecuencia, N
  <2>2. CASE N = 2
    BY <1>1, <2>2, Signos DEF ConSecuencia, N
  <2>3. CASE N > 2
    <3>1. 2 \in 0..N - 1 /\ 2 + 1 = 3
      BY <1>1, <2>3
    <3>2. buffer[2] = Pedida[3]
      BY <1>3, <3>1
    <3> QED
      BY <2>3, <3>2 DEF ConSecuencia, N
  <2> QED
    BY <1>1, <2>1, <2>2, <2>3
<1>5. Pedida \in Seq(Byte)
  BY EnlaceAssumption DEF Pedida
<1>6. CASE ConSecuencia(Pedida)
  <2>1. N > 2
    BY <1>6 DEF ConSecuencia, N
  <2>2. Texto(buffer, 3) = [x \in 1..N - 3 |-> buffer[3 + x - 1]]
    <3>1. 3 \in Nat /\ 3 <= N /\ N <= BUFMAX
      BY <1>1, <2>1
    <3>2. \A x \in 3..N - 1 : buffer[x] # NUL
      BY <1>1, <1>3
    <3> QED
      BY <1>1, <3>1, <3>2, TextoEs
  <2>3. Actual = SubSeq(Pedida, 4, N)
    BY <1>6 DEF Actual, Contenido, N
  <2>4. SubSeq(Pedida, 4, N) = [x \in 1..N - 3 |-> Pedida[3 + x]]
    <3>1. SubSeq(Pedida, 4, N) = [x \in 1..(1 + N - 4) |-> Pedida[4 + x - 1]]
      BY <1>1, <1>5, <2>1 DEF N
    <3>2. 1 + N - 4 = N - 3 /\ \A x \in 1..N - 3 : 4 + x - 1 = 3 + x
      BY <1>1
    <3> QED
      BY <3>1, <3>2
  <2>5. \A x \in 1..N - 3 : buffer[3 + x - 1] = Pedida[3 + x]
    <3> SUFFICES ASSUME NEW x \in 1..N - 3 PROVE buffer[3 + x - 1] = Pedida[3 + x]
      OBVIOUS
    <3>1. 3 + x - 1 \in 0..N - 1 /\ (3 + x - 1) + 1 = 3 + x
      BY <1>1, <2>1
    <3> QED
      BY <1>3, <3>1
  <2>6. Texto(buffer, 3) = Actual
    BY <2>2, <2>3, <2>4, <2>5
  <2> QED
    BY <1>4, <1>6, <2>6
<1>7. CASE ~ConSecuencia(Pedida)
  <2>1. Texto(buffer, 0) = [x \in 1..N - 0 |-> buffer[0 + x - 1]]
    BY <1>1, <1>3, TextoEs
  <2>2. \A x \in 1..N - 0 : buffer[0 + x - 1] = Pedida[x]
    BY <1>1, <1>2
  <2>3. Pedida = [x \in 1..N - 0 |-> Pedida[x]]
    BY <1>1, <1>5 DEF N
  <2>4. Texto(buffer, 0) = Pedida
    BY <2>1, <2>2, <2>3
  <2> QED
    BY <1>4, <1>7, <2>4 DEF Actual, Contenido
<1> QED
  BY <1>4, <1>6, <1>7

\* The types, with that of what the stub sends.
ETipado == /\ ETypeOK /\ Cabida /\ Terminado
           /\ sh \in Seq(Articulo)

\* The items that the stub sends are items.
LEMMA Senales ==
  /\ \A t \in {"+", "-", "otro"} : Senal(t) \in Articulo
  /\ \A r \in Seq(Byte) : Respuesta(r) \in Articulo
<1>1. <<>> \in Seq(Byte)
  OBVIOUS
<1>2. ASSUME NEW t \in {"+", "-", "otro"} PROVE Senal(t) \in Articulo
  BY <1>1, Zenon DEF Senal, Articulo
<1>3. ASSUME NEW r \in Seq(Byte) PROVE Respuesta(r) \in Articulo
  BY <1>3, Zenon DEF Respuesta, Articulo
<1> QED
  BY <1>2, <1>3

\* A character more in a sum, or a digit more in a number, is a byte.
LEMMA SumaByte ==
  ASSUME NEW x \in Int, NEW y \in Int
  PROVE  (x + y) % (B * B) \in Byte /\ x % (B * B) \in Byte
<1> DEFINE z == x + y
             M == B * B
<1>1. z \in Int /\ M \in Nat /\ M > 0 /\ Byte = 0..M - 1
  BY Base DEF Byte
<1> HIDE DEF z, M
<1>2. z % M \in 0..M - 1 /\ x % M \in 0..M - 1
  BY <1>1
<1> QED
  BY <1>1, <1>2 DEF z, M

\* The types: to begin with, and by each group of steps.
LEMMA ETipadoInit == EInit => ETipado
<1> SUFFICES ASSUME EInit PROVE ETipado
  OBVIOUS
<1>1. 0 \in Byte /\ BUFMAX \in Nat /\ BUFMAX > 2 /\ FALLOS \in Nat /\ NUL \in Byte
  BY EnlaceAssumption, Base DEF Byte, NUL
<1>2. Len(Sesion) \in 1..Len(Sesion)
  BY EnlaceAssumption, SesionAssumption
<1>5. buffer \in [0..BUFMAX - 1 -> Byte] /\ 0 \in 0..BUFMAX /\ 0 \in 0..3 /\ FALLOS \in 0..FALLOS
  <2>1. buffer = [k \in 0..BUFMAX - 1 |-> NUL]
    BY DEF EInit
  <2> QED
    BY <1>1, <2>1
<1>6. /\ gpc = "espera" /\ pisado = FALSE /\ count = 0 /\ checksum = 0 /\ xmitcsum = 0
      /\ respuesta = <<>> /\ hs = <<>> /\ hst = "libre" /\ turno = Len(Sesion)
      /\ fallos = FALLOS /\ envios = 0 /\ hechas = 0
  BY DEF EInit
<1>7. <<>> \in Seq(Byte)
  BY EmptySeq
<1>3. ETypeOK
  BY <1>1, <1>2, <1>5, <1>6, <1>7 DEF ETypeOK
<1>4. Cabida /\ Terminado /\ sh \in Seq(Articulo)
  BY <1>1 DEF EInit, Cabida, Terminado
<1> QED
  BY <1>3, <1>4 DEF ETipado

\* The stub, a character at a time.
LEMMA ETipadoDatos ==
  ASSUME ETipado, NEW ch \in Byte, EsperaInicio(ch) \/ LeeDato(ch)
  PROVE  /\ gpc' \in {"espera", "datos", "suma1", "suma2", "ack"}
         /\ buffer' \in [0..BUFMAX - 1 -> Byte] /\ count' \in 0..BUFMAX
         /\ pisado' \in BOOLEAN /\ Terminado'
         /\ checksum' \in Byte /\ xmitcsum' \in Byte /\ respuesta' = respuesta
         /\ sh' = sh /\ hechas' = hechas
<1>0. BUFMAX \in Nat /\ NUL \in Byte /\ 0 \in Byte /\ B * B - 1 \in Byte
  BY EnlaceAssumption, Base DEF Byte, NUL
<1>1. /\ gpc \in {"espera", "datos", "suma1", "suma2", "ack"}
      /\ buffer \in [0..BUFMAX - 1 -> Byte] /\ count \in 0..BUFMAX
      /\ pisado \in BOOLEAN /\ (pisado \/ buffer[BUFMAX - 1] = NUL)
      /\ checksum \in Byte /\ xmitcsum \in Byte /\ (gpc = "datos" => count < BUFMAX)
  BY DEF ETipado, ETypeOK, Cabida, Terminado
<1>2. CASE UNCHANGED stub /\ UNCHANGED <<sh, hechas>>
  BY <1>1, <1>2 DEF stub, Terminado
<1>3. CASE Empieza /\ UNCHANGED <<sh, hechas>>
  BY <1>0, <1>1, <1>3 DEF Empieza, Terminado
<1>4. CASE /\ gpc = "datos" /\ gpc' = "suma1" /\ buffer' = Cierra(buffer, count)
           /\ UNCHANGED <<pisado, count, checksum, xmitcsum, respuesta, sh, hechas>>
  <2>1. count \in 0..BUFMAX - 1
    BY <1>0, <1>1, <1>4
  <2>2. buffer' = [buffer EXCEPT ![count] = NUL]
    BY <1>4 DEF Cierra
  <2>3. buffer' \in [0..BUFMAX - 1 -> Byte]
    BY <1>0, <1>1, <2>1, <2>2
  <2>4. pisado \/ buffer'[BUFMAX - 1] = NUL
    BY <1>0, <1>1, <2>1, <2>2
  <2> QED
    BY <1>1, <1>4, <2>3, <2>4 DEF Terminado
<1>5. CASE /\ checksum' = (checksum + ch) % (B * B)
           /\ count' = count + 1 /\ gpc = "datos"
           /\ buffer' = [buffer EXCEPT ![count] = ch]
           /\ IF Cabe(count + 1) THEN UNCHANGED <<gpc, pisado>>
                                 ELSE gpc' = "espera" /\ pisado' = TRUE
           /\ UNCHANGED <<xmitcsum, respuesta, sh, hechas>>
  <2>1. checksum' \in Byte
    <3>1. checksum \in Int /\ ch \in Int
      BY <1>1 DEF Byte
    <3> QED
      BY <1>5, <3>1, SumaByte
  <2>2. count < BUFMAX /\ count' \in 0..BUFMAX
    BY <1>0, <1>1, <1>5
  <2>3. buffer' \in [0..BUFMAX - 1 -> Byte] /\ pisado' \in BOOLEAN
    BY <1>0, <1>1, <1>5, <2>2
  <2>4. Terminado'
    <3>1. CASE Cabe(count + 1)
      <4>1. count + 1 < BUFMAX /\ pisado' = pisado
        BY <1>5, <3>1 DEF Cabe
      <4>2. buffer'[BUFMAX - 1] = buffer[BUFMAX - 1]
        BY <1>0, <1>1, <1>5, <2>2, <4>1
      <4> QED
        BY <1>1, <4>1, <4>2 DEF Terminado
    <3>2. CASE ~Cabe(count + 1)
      BY <1>5, <3>2 DEF Terminado
    <3> QED
      BY <3>1, <3>2
  <2> QED
    BY <1>1, <1>5, <2>1, <2>2, <2>3, <2>4
<1> QED
  BY <1>2, <1>3, <1>4, <1>5 DEF EsperaInicio, LeeDato

\* The stub, at the two digits of the sum and at the acknowledgement.
LEMMA ETipadoFin ==
  ASSUME ETipado, NEW ch \in Byte, LeeSuma1(ch) \/ LeeSuma2(ch) \/ LeeAck(ch)
  PROVE  /\ gpc' \in {"espera", "datos", "suma1", "suma2", "ack"}
         /\ buffer' = buffer /\ pisado' = pisado /\ count' = count /\ checksum' = checksum
         /\ xmitcsum' \in Byte /\ respuesta' \in Seq(Byte)
         /\ sh' \in Seq(Articulo) /\ hechas' \in 0..3
<1>0. BUFMAX \in Nat /\ BUFMAX > 2 /\ NUL \in Byte
  BY EnlaceAssumption, Base DEF Byte, NUL
<1>1. /\ buffer \in [0..BUFMAX - 1 -> Byte]
      /\ xmitcsum \in Byte /\ respuesta \in Seq(Byte) /\ sh \in Seq(Articulo)
      /\ hechas \in 0..3 /\ gpc \in {"espera", "datos", "suma1", "suma2", "ack"}
  BY DEF ETipado, ETypeOK
<1>2. hex(ch) \in Int /\ xmitcsum \in Int
  BY <1>1, hexTipo, Base DEF Byte
<1>3. CASE LeeSuma1(ch)
  <2>1. hex(ch) * B \in Int
    BY <1>2, Base
  <2>2. (hex(ch) * B) % (B * B) \in Byte
    BY <2>1, SumaByte
  <2> QED
    BY <1>1, <1>3, <2>2 DEF LeeSuma1
<1>4. CASE LeeSuma2(ch)
  <2> DEFINE x == (xmitcsum + hex(ch)) % (B * B)
             texto == Texto(buffer, IF buffer[2] = DOSPUNTOS THEN 3 ELSE 0)
             ecos == IF buffer[2] = DOSPUNTOS THEN <<Senal("otro"), Senal("otro")>> ELSE <<>>
  <2>1. x \in Byte
    BY <1>2, SumaByte
  <2>2. texto \in Seq(Byte)
    <3>1. (IF buffer[2] = DOSPUNTOS THEN 3 ELSE 0) \in 0..BUFMAX
      BY <1>0
    <3> QED
      BY <1>1, <3>1, TextoTipo
  <2> HIDE DEF texto
  <2>3. Acepta(texto, ecos) \in Seq(Articulo)
    <3>1. ecos \in Seq(Articulo)
      BY Senales
    <3> HIDE DEF ecos
    <3>2. <<Senal("+")>> \in Seq(Articulo) /\ <<Respuesta(texto)>> \in Seq(Articulo)
      BY <2>2, Senales
    <3>3. <<Senal("+")>> \o ecos \in Seq(Articulo)
      BY <3>1, <3>2, ConcatProperties
    <3>4. <<Senal("+")>> \o ecos \o <<Respuesta(texto)>> \in Seq(Articulo)
      BY <3>2, <3>3, ConcatProperties
    <3> QED
      BY <3>4 DEF Acepta
  <2>4. sh \o Acepta(texto, ecos) \in Seq(Articulo)
    BY <1>1, <2>3, ConcatProperties
  <2>5. Append(sh, Senal("-")) \in Seq(Articulo)
    BY <1>1, Senales
  <2>6. /\ xmitcsum' = x /\ UNCHANGED <<buffer, pisado, count, checksum>>
        /\ IF checksum # x
           THEN gpc' = "espera" /\ sh' = Append(sh, Senal("-")) /\ UNCHANGED <<respuesta, hechas>>
           ELSE /\ putpacket(texto) /\ sh' = sh \o Acepta(texto, ecos)
                /\ hechas' = IF texto = Contenido(Sesion[turno]) /\ hechas < 3
                             THEN hechas + 1 ELSE hechas
    BY <1>4 DEF LeeSuma2, texto
  <2> HIDE DEF x, ecos
  <2>7. CASE checksum # x
    BY <1>1, <2>1, <2>5, <2>6, <2>7
  <2>8. CASE checksum = x
    <3>1. /\ gpc' = "ack" /\ respuesta' = texto /\ sh' = sh \o Acepta(texto, ecos)
          /\ hechas' = IF texto = Contenido(Sesion[turno]) /\ hechas < 3
                       THEN hechas + 1 ELSE hechas
      BY <2>6, <2>8, Zenon DEF putpacket
    <3>2. hechas' = hechas \/ (hechas < 3 /\ hechas' = hechas + 1)
      BY <3>1, Zenon
    <3>3. hechas' \in 0..3
      BY <1>1, <3>2
    <3> QED
      BY <2>1, <2>2, <2>4, <2>6, <3>1, <3>3, Zenon
  <2> QED
    BY <2>7, <2>8
<1>5. CASE LeeAck(ch)
  <2>1. Append(sh, Respuesta(respuesta)) \in Seq(Articulo)
    BY <1>1, Senales
  <2> QED
    BY <1>1, <1>5, <2>1 DEF LeeAck
<1> QED
  BY <1>3, <1>4, <1>5

\* What is put on the line.
LEMMA TramaBytes ==
  ASSUME NEW k \in 1..Len(Sesion)
  PROVE  Trama(Sesion[k]) \in Seq(Byte) /\ Len(Trama(Sesion[k])) > 0
<1>1. Sesion[k] \in Seq(Byte \ {NUL, DOLAR, ALMOHADILLA})
  BY EnlaceAssumption
<1> QED
  BY <1>1, TramaForma

\* The host, when its time is over.
LEMMA ETipadoVence ==
  ASSUME ETipado, Vence
  PROVE  /\ hs' \in Seq(Byte) /\ envios' \in 0..3 /\ hst' \in {"libre", "ack", "respuesta", "insiste"}
         /\ turno' = turno /\ hechas' = hechas /\ sh' = sh /\ UNCHANGED stub
<1>1. hs \in Seq(Byte) /\ envios \in 0..3 /\ turno \in 1..Len(Sesion)
  BY DEF ETipado, ETypeOK
<1>2. hs \o Trama(Sesion[turno]) \in Seq(Byte) /\ hs \o <<MENOS>> \in Seq(Byte)
  <2>1. <<MENOS>> \in Seq(Byte)
    BY EnlaceAssumption
  <2> QED
    BY <1>1, <2>1, TramaBytes, ConcatProperties
<1>3. CASE Repite /\ UNCHANGED <<stub, sh, turno, hechas>>
  BY <1>1, <1>2, <1>3 DEF Repite, Manda
<1>4. CASE /\ Manda(<<MENOS>>) /\ hst' = "insiste"
           /\ UNCHANGED <<envios, stub, sh, turno, hechas>>
  BY <1>1, <1>2, <1>4 DEF Manda
<1> QED
  BY <1>3, <1>4, Zenon DEF Vence

\* And so they are by every step.
LEMMA ETipadoSigue == ETipado /\ [ENext]_evars => ETipado'
<1> SUFFICES ASSUME ETipado, [ENext]_evars PROVE ETipado'
  OBVIOUS
<1>1. Cabida'
  BY CabidaPaso DEF ETipado
<1>2. hs \in Seq(Byte) /\ sh \in Seq(Articulo) /\ envios \in 0..3 /\ turno \in 1..Len(Sesion)
      /\ hechas \in 0..3 /\ Len(Sesion) \in Nat
  BY EnlaceAssumption DEF ETipado, ETypeOK
<1>3. hs # <<>> => Head(hs) \in Byte /\ Tail(hs) \in Seq(Byte)
  BY <1>2, HeadTailProperties
<1>4. sh # <<>> => Head(sh) \in Articulo /\ Tail(sh) \in Seq(Articulo)
  BY <1>2, HeadTailProperties
<1>5. \A x \in Byte : hs \o <<x>> \in Seq(Byte)
  BY <1>2
<1>6. \A k \in 1..Len(Sesion) : hs \o Trama(Sesion[k]) \in Seq(Byte)
  BY <1>2, TramaBytes, ConcatProperties
<1>7. MAS \in Byte /\ MENOS \in Byte
  BY EnlaceAssumption
<1>8. CASE Lee
  <2>1. /\ hs # <<>> /\ hs' = Tail(hs) /\ UNCHANGED <<host, fallos>>
        /\ \/ EsperaInicio(Head(hs)) \/ LeeDato(Head(hs))
           \/ LeeSuma1(Head(hs)) \/ LeeSuma2(Head(hs)) \/ LeeAck(Head(hs))
    BY <1>8 DEF Lee
  <2>2. CASE EsperaInicio(Head(hs)) \/ LeeDato(Head(hs))
    BY <1>1, <1>2, <1>3, <2>1, <2>2, ETipadoDatos DEF ETipado, ETypeOK, host
  <2>3. CASE LeeSuma1(Head(hs)) \/ LeeSuma2(Head(hs)) \/ LeeAck(Head(hs))
    BY <1>1, <1>2, <1>3, <2>1, <2>3, ETipadoFin DEF ETipado, ETypeOK, Terminado, host
  <2> QED
    BY <2>1, <2>2, <2>3
<1>9. CASE Pide
  <2>1. turno' \in 1..Len(Sesion)
    <3>1. Len(Sesion) > 0
      BY <1>2
    <3>2. turno % Len(Sesion) \in 0..Len(Sesion) - 1
      BY <1>2, <3>1
    <3> QED
      BY <1>9, <1>2, <3>1, <3>2 DEF Pide
  <2>2. hs' \in Seq(Byte)
    BY <1>6, <1>9, <2>1 DEF Pide, Manda
  <2> QED
    BY <1>1, <1>9, <2>1, <2>2 DEF Pide, ETipado, ETypeOK, Terminado, stub
<1>10. CASE Oye
  <2>1. sh' \in Seq(Articulo) /\ UNCHANGED <<stub, turno, fallos, hechas>>
    BY <1>4, <1>10 DEF Oye
  <2>2. hs' \in Seq(Byte) /\ envios' \in 0..3 /\ hst' \in {"libre", "ack", "respuesta", "insiste"}
    <3>1. hs' = hs \/ hs' = hs \o Trama(Sesion[turno]) \/ hs' = hs \o <<MAS>> \/ hs' = hs \o <<MENOS>>
      BY <1>10, Zenon DEF Oye, Manda, Repite
    <3>2. envios' = envios \/ envios' = IF envios = 3 THEN 3 ELSE envios + 1
      BY <1>10, Zenon DEF Oye, Manda, Repite
    <3>3. hst' = hst \/ hst' \in {"libre", "ack", "respuesta"}
      BY <1>10, Zenon DEF Oye, Manda, Repite
    <3>4. hs' \in Seq(Byte)
      BY <1>2, <1>5, <1>6, <1>7, <3>1, Zenon
    <3> QED
      BY <1>2, <3>2, <3>3, <3>4 DEF ETipado, ETypeOK
  <2> QED
    BY <1>1, <2>1, <2>2 DEF ETipado, ETypeOK, Terminado, stub
<1>11. CASE VenceTiempo
  BY <1>1, <1>11, ETipadoVence DEF VenceTiempo, ETipado, ETypeOK, Terminado, stub
<1>12. CASE Falla
  <2>1. fallos' \in 0..FALLOS
    <3>1. FALLOS \in Nat /\ fallos \in 0..FALLOS
      BY EnlaceAssumption DEF ETipado, ETypeOK
    <3> QED
      BY <1>12, <3>1 DEF Falla
  <2>2. CASE hs # <<>> /\ hs' = Tail(hs) /\ UNCHANGED <<stub, sh, host, hechas>>
    BY <1>1, <1>3, <2>1, <2>2 DEF ETipado, ETypeOK, Terminado, stub, host
  <2>3. CASE sh # <<>> /\ sh' = Tail(sh) /\ UNCHANGED <<stub, hs, host, hechas>>
    BY <1>1, <1>4, <2>1, <2>3 DEF ETipado, ETypeOK, Terminado, stub, host
  <2>4. CASE /\ sh # <<>> /\ sh' = [sh EXCEPT ![1].bien = FALSE]
             /\ UNCHANGED <<stub, hs, host, hechas>>
    <3>1. sh' \in Seq(Articulo)
      <4>2. 1 \in 1..Len(sh)
        BY <1>2, <2>4
      <4>5. sh[1] \in Articulo
        BY <1>2, <4>2
      <4>1. [sh[1] EXCEPT !.bien = FALSE] \in Articulo
        BY <4>5, Zenon DEF Articulo
      <4>3. sh' = [sh EXCEPT ![1] = [sh[1] EXCEPT !.bien = FALSE]]
        BY <2>4
      <4> QED
        BY <1>2, <4>1, <4>2, <4>3, ExceptSeq
    <3> QED
      BY <1>1, <2>1, <2>4, <3>1 DEF ETipado, ETypeOK, Terminado, stub, host
  <2>5. CASE Vence
    BY <1>1, <2>1, <2>5, ETipadoVence DEF ETipado, ETypeOK, Terminado, stub
  <2> QED
    BY <1>12, <2>2, <2>3, <2>4, <2>5 DEF Falla
<1>13. CASE UNCHANGED evars
  BY <1>1, <1>13 DEF evars, stub, host, ETipado, ETypeOK, Terminado
<1> QED
  BY <1>8, <1>9, <1>10, <1>11, <1>12, <1>13 DEF ENext

\* Whatever line and host do, every variable of the stub, the line and the
\* host keeps its type: no sum leaves two digits, no character is written
\* outside remcomInBuffer[0..BUFMAX-1], and the last place of it holds a NUL
\* as long as none has been written behind it (gdb.c:95, 136-214, 268-294).
THEOREM EnlaceTipado == ESpec => [](ETypeOK /\ Terminado)
<1>1. ETipado => ETypeOK /\ Terminado
  BY DEF ETipado
<1> QED
  BY <1>1, ETipadoInit, ETipadoSigue, PTL DEF ESpec

(* What is on the line, when a character less or some more are on it *)

\* A character less on the line.
LEMMA UnoMenos ==
  ASSUME hs \in Seq(Byte), hs # <<>>, hs' = Tail(hs)
  PROVE  /\ hs' \in Seq(Byte) /\ Len(hs) \in Nat /\ Len(hs) >= 1 /\ Len(hs') = Len(hs) - 1
         /\ DOMAIN hs = 1..Len(hs) /\ DOMAIN hs' = 1..Len(hs')
         /\ Head(hs) = hs[1] /\ Head(hs) \in Byte
         /\ \A p \in 1..Len(hs') : hs'[p] = hs[p + 1]
<1>1. /\ Head(hs) = hs[1] /\ Head(hs) \in Byte /\ Tail(hs) \in Seq(Byte)
      /\ Len(Tail(hs)) = Len(hs) - 1 /\ \A p \in 1..Len(Tail(hs)) : Tail(hs)[p] = hs[p + 1]
  BY HeadTailProperties
<1>2. Len(hs) \in Nat /\ Len(hs) >= 1
  BY EmptySeq
<1> QED
  BY <1>1, <1>2

\* Some more on the line.
LEMMA AlgoMas ==
  ASSUME hs \in Seq(Byte), NEW s \in Seq(Byte), hs' = hs \o s
  PROVE  /\ hs' \in Seq(Byte) /\ Len(hs) \in Nat /\ Len(s) \in Nat /\ Len(hs') = Len(hs) + Len(s)
         /\ DOMAIN hs = 1..Len(hs) /\ DOMAIN hs' = 1..Len(hs')
         /\ \A p \in 1..Len(hs) : hs'[p] = hs[p]
         /\ \A p \in 1..Len(hs') : p > Len(hs) => p - Len(hs) \in 1..Len(s) /\ hs'[p] = s[p - Len(hs)]
<1>1. /\ hs \o s \in Seq(Byte) /\ Len(hs \o s) = Len(hs) + Len(s)
      /\ \A p \in 1..Len(hs) + Len(s) : (hs \o s)[p] = IF p <= Len(hs) THEN hs[p] ELSE s[p - Len(hs)]
  BY ConcatProperties
<1>2. Len(hs) \in Nat /\ Len(s) \in Nat
  OBVIOUS
<1> QED
  BY <1>1, <1>2

\* The request stays what it was.
LEMMA Misma ==
  ASSUME turno' = turno
  PROVE  Pedida' = Pedida /\ Actual' = Actual /\ F' = F /\ N' = N /\ LF' = LF
  BY DEF Pedida, Actual, F, N, LF

\* The frame comes a character nearer.
LEMMA VieneCorre ==
  ASSUME hs \in Seq(Byte), hs # <<>>, hs' = Tail(hs), turno' = turno, Trama_pedida,
         NEW d \in Int, Viene(d), d + LF >= 2
  PROVE  Viene(d - 1)'
<1>1. Len(hs') = Len(hs) - 1 /\ Len(hs) \in Nat /\ \A p \in 1..Len(hs') : hs'[p] = hs[p + 1]
  BY UnoMenos
<1>2. LF \in Nat /\ LF' = LF /\ F' = F
  BY Misma DEF Trama_pedida
<1>3. 1 <= d - 1 + LF /\ d - 1 + LF <= Len(hs')
  BY <1>1, <1>2 DEF Viene
<1>4. ASSUME NEW c \in 1..LF, d - 1 + c >= 1 PROVE hs'[d - 1 + c] = F[c]
  <2>1. d - 1 + c \in 1..Len(hs') /\ (d - 1 + c) + 1 = d + c /\ d + c >= 1
    BY <1>2, <1>3, <1>4
  <2> QED
    BY <1>1, <2>1 DEF Viene
<1> QED
  BY <1>2, <1>3, <1>4 DEF Viene

\* And no other frame begins.
LEMMA MarcasCorre ==
  ASSUME hs \in Seq(Byte), hs # <<>>, hs' = Tail(hs), turno' = turno, Trama_pedida,
         gpc = "ack" /\ Head(hs) # MAS => gpc' = "ack",
         NEW d \in Int, d + LF >= 0, Marcas(d)
  PROVE  Marcas(d - 1)'
<1>1. /\ Len(hs') = Len(hs) - 1 /\ Len(hs) \in Nat /\ \A p \in 1..Len(hs') : hs'[p] = hs[p + 1]
      /\ DOMAIN hs = 1..Len(hs) /\ DOMAIN hs' = 1..Len(hs') /\ Head(hs) = hs[1]
  BY UnoMenos
<1>2. LF \in Nat /\ LF >= 4 /\ LF' = LF /\ F' = F
  BY Misma DEF Trama_pedida
<1>3. SUFFICES ASSUME NEW p \in DOMAIN hs', hs'[p] = DOLAR
               PROVE  \/ p = (d - 1) + 1
                      \/ p = (d - 1) + LF + 1 /\ Viene((d - 1) + LF)'
                      \/ p <= d - 1 /\ gpc' = "ack" /\ \A q \in 1..p : hs'[q] # MAS
  BY <1>2 DEF Marcas
<1>4. p \in Int /\ p >= 1 /\ p + 1 \in DOMAIN hs /\ hs[p + 1] = DOLAR
  BY <1>1, <1>3
<1>5. CASE p + 1 = d + 1
  BY <1>4, <1>5
<1>6. CASE p + 1 = d + LF + 1 /\ Viene(d + LF)
  <2>1. PICK e \in Int : e = d + LF
    BY <1>2
  <2>2. e + LF >= 2 /\ Viene(e)
    BY <1>2, <1>6, <2>1
  <2>3. Viene(e - 1)'
    BY <2>2, VieneCorre
  <2>4. Viene((d - 1) + LF)'
    <3>1. ((d - 1) + LF)' = e - 1
      BY <1>2, <2>1
    <3> QED
      BY <2>3, <3>1 DEF Viene
  <2>5. p = (d - 1) + LF + 1
    BY <1>2, <1>4, <1>6
  <2> QED
    BY <2>4, <2>5, Zenon
<1>7. CASE p + 1 <= d /\ gpc = "ack" /\ \A q \in 1..p + 1 : hs[q] # MAS
  <2>1. Head(hs) # MAS
    BY <1>1, <1>4, <1>7
  <2>2. ASSUME NEW q \in 1..p PROVE hs'[q] # MAS
    <3>1. q \in 1..Len(hs') /\ q + 1 \in 1..p + 1
      BY <1>1, <1>3, <1>4
    <3> QED
      BY <1>1, <1>7, <3>1
  <2> QED
    BY <1>4, <1>7, <2>1, <2>2
<1> QED
  BY <1>4, <1>5, <1>6, <1>7 DEF Marcas

\* What will not be read as a frame is not with a character less.
LEMMA SordoCorre ==
  ASSUME hs \in Seq(Byte), hs # <<>>, hs' = Tail(hs),
         gpc' \in {"espera", "ack"}, gpc = "ack" /\ Head(hs) # MAS => gpc' = "ack", Sordo
  PROVE  Sordo'
<1>1. /\ Len(hs') = Len(hs) - 1 /\ Len(hs) \in Nat /\ \A p \in 1..Len(hs') : hs'[p] = hs[p + 1]
      /\ DOMAIN hs = 1..Len(hs) /\ DOMAIN hs' = 1..Len(hs') /\ Head(hs) = hs[1]
  BY UnoMenos
<1>2. ASSUME NEW p \in DOMAIN hs', hs'[p] = DOLAR
      PROVE  gpc' = "ack" /\ \A q \in 1..p : hs'[q] # MAS
  <2>1. p \in Int /\ p >= 1 /\ p + 1 \in DOMAIN hs /\ hs[p + 1] = DOLAR
    BY <1>1, <1>2
  <2>2. gpc = "ack" /\ \A q \in 1..p + 1 : hs[q] # MAS
    BY <2>1 DEF Sordo
  <2>3. Head(hs) # MAS
    BY <1>1, <2>1, <2>2
  <2>4. ASSUME NEW q \in 1..p PROVE hs'[q] # MAS
    <3>1. q \in 1..Len(hs') /\ q + 1 \in 1..p + 1
      BY <1>1, <1>2, <2>1
    <3> QED
      BY <1>1, <2>2, <3>1
  <2> QED
    BY <2>2, <2>3, <2>4
<1> QED
  BY <1>2 DEF Sordo

\* What is put behind without a '$' in it changes nothing of what is there.
LEMMA VieneAnexa ==
  ASSUME hs \in Seq(Byte), NEW s \in Seq(Byte), hs' = hs \o s, turno' = turno, Trama_pedida,
         NEW d \in Int, Viene(d)
  PROVE  Viene(d)'
<1>1. /\ Len(hs) \in Nat /\ Len(s) \in Nat /\ Len(hs') = Len(hs) + Len(s)
      /\ \A p \in 1..Len(hs) : hs'[p] = hs[p]
  BY AlgoMas
<1>2. LF \in Nat /\ LF' = LF /\ F' = F
  BY Misma DEF Trama_pedida
<1>3. 1 <= d + LF /\ d + LF <= Len(hs')
  BY <1>1, <1>2 DEF Viene
<1>4. ASSUME NEW c \in 1..LF, d + c >= 1 PROVE hs'[d + c] = F[c]
  <2>1. d + c \in 1..Len(hs)
    BY <1>1, <1>2, <1>4 DEF Viene
  <2> QED
    BY <1>1, <1>4, <2>1 DEF Viene
<1> QED
  BY <1>2, <1>3, <1>4 DEF Viene

\* No frame begins in what has no '$'.
LEMMA MarcasAnexa ==
  ASSUME hs \in Seq(Byte), NEW s \in Seq(Byte), hs' = hs \o s, turno' = turno, gpc' = gpc,
         Trama_pedida, \A c \in 1..Len(s) : s[c] # DOLAR,
         NEW d \in Int, Marcas(d)
  PROVE  Marcas(d)'
<1>1. /\ Len(hs) \in Nat /\ Len(s) \in Nat /\ Len(hs') = Len(hs) + Len(s)
      /\ \A p \in 1..Len(hs) : hs'[p] = hs[p]
      /\ DOMAIN hs = 1..Len(hs) /\ DOMAIN hs' = 1..Len(hs')
      /\ \A p \in 1..Len(hs') : p > Len(hs) => p - Len(hs) \in 1..Len(s) /\ hs'[p] = s[p - Len(hs)]
  BY AlgoMas
<1>2. LF \in Nat /\ LF' = LF /\ F' = F
  BY Misma DEF Trama_pedida
<1>3. SUFFICES ASSUME NEW p \in DOMAIN hs', hs'[p] = DOLAR
               PROVE  \/ p = d + 1
                      \/ p = d + LF + 1 /\ Viene(d + LF)'
                      \/ p <= d /\ gpc' = "ack" /\ \A q \in 1..p : hs'[q] # MAS
  BY <1>2 DEF Marcas
<1>4. p \in 1..Len(hs) /\ hs[p] = DOLAR
  BY <1>1, <1>3
<1>5. CASE p = d + LF + 1 /\ Viene(d + LF)
  <2>1. PICK e \in Int : e = d + LF
    BY <1>2
  <2>2. Viene(e)
    BY <1>5, <2>1
  <2>3. Viene(e)'
    BY <2>2, VieneAnexa
  <2>4. Viene(d + LF)'
    BY <1>2, <2>1, <2>3 DEF Viene
  <2> QED
    BY <1>5, <2>4
<1>6. CASE p <= d /\ gpc = "ack" /\ \A q \in 1..p : hs[q] # MAS
  BY <1>1, <1>4, <1>6
<1> QED
  BY <1>1, <1>4, <1>5, <1>6 DEF Marcas

\* What will not be read is not with more behind it, if that has no '$'.
LEMMA SordoAnexa ==
  ASSUME hs \in Seq(Byte), NEW s \in Seq(Byte), hs' = hs \o s, gpc' = gpc,
         \A c \in 1..Len(s) : s[c] # DOLAR, Sordo
  PROVE  Sordo'
<1>1. /\ Len(hs) \in Nat /\ Len(s) \in Nat /\ Len(hs') = Len(hs) + Len(s)
      /\ \A p \in 1..Len(hs) : hs'[p] = hs[p]
      /\ DOMAIN hs = 1..Len(hs) /\ DOMAIN hs' = 1..Len(hs')
      /\ \A p \in 1..Len(hs') : p > Len(hs) => p - Len(hs) \in 1..Len(s) /\ hs'[p] = s[p - Len(hs)]
  BY AlgoMas
<1>2. ASSUME NEW p \in DOMAIN hs', hs'[p] = DOLAR
      PROVE  gpc' = "ack" /\ \A q \in 1..p : hs'[q] # MAS
  <2>1. p \in 1..Len(hs) /\ hs[p] = DOLAR
    BY <1>1, <1>2
  <2> QED
    BY <1>1, <2>1 DEF Sordo
<1> QED
  BY <1>2 DEF Sordo

\* The frame put behind: where it is.
LEMMA VieneNueva ==
  ASSUME hs \in Seq(Byte), hs' = hs \o F', Trama_pedida', NEW d \in Int, d = Len(hs)
  PROVE  /\ Viene(d)' /\ Len(hs') = d + LF'
         /\ \A p \in DOMAIN hs' : p > d => (hs'[p] = DOLAR <=> p = d + 1)
<1>0. /\ F' \in Seq(Byte) /\ Len(F') = LF' /\ N' \in Nat /\ LF' = N' + 4
      /\ \A c \in 1..LF' : F'[c] = DOLAR <=> c = 1
  BY Zenon DEF Trama_pedida
<1>1. F' \in Seq(Byte) /\ Len(F') = LF' /\ LF' \in Nat /\ LF' >= 4
      /\ \A c \in 1..LF' : F'[c] = DOLAR <=> c = 1
  <2>1. LF' \in Nat /\ LF' >= 4
    <3>1. N' \in Nat /\ LF' = N' + 4
      BY <1>0, Zenon
    <3>2. \A m \in Nat : m + 4 \in Nat /\ m + 4 >= 4
      OBVIOUS
    <3> QED
      BY <3>1, <3>2, Zenon
  <2> QED
    BY <1>0, <2>1, Zenon
<1>2. /\ Len(hs) \in Nat /\ Len(hs') = Len(hs) + LF'
      /\ DOMAIN hs' = 1..Len(hs')
      /\ \A p \in 1..Len(hs') : p > Len(hs) => p - Len(hs) \in 1..LF' /\ hs'[p] = F'[p - Len(hs)]
  BY <1>1, AlgoMas
<1>3. Viene(d)'
  <2>1. ASSUME NEW c \in 1..LF' PROVE hs'[d + c] = F'[c]
    <3>1. d + c \in 1..Len(hs') /\ d + c > Len(hs) /\ (d + c) - Len(hs) = c
      BY <1>1, <1>2, <2>1
    <3> QED
      BY <1>2, <3>1
  <2> QED
    BY <1>1, <1>2, <2>1 DEF Viene
<1>4. ASSUME NEW p \in DOMAIN hs', p > d PROVE hs'[p] = DOLAR <=> p = d + 1
  <2>1. p \in 1..Len(hs') /\ p - d \in 1..LF' /\ hs'[p] = F'[p - d]
    BY <1>2, <1>4
  <2> QED
    BY <1>1, <2>1
<1> QED
  BY <1>2, <1>3, <1>4

\* Behind what will not be read as a frame.
LEMMA SordoTrama ==
  ASSUME hs \in Seq(Byte), hs' = hs \o F', gpc' = gpc, Trama_pedida', Sordo
  PROVE  Sordo' \/ \E d \in 0..Len(hs) : d = Len(hs) /\ Llega(d)' /\ Len(hs') = d + LF'
<1>1. PICK d \in Int : d = Len(hs)
  OBVIOUS
<1>2. d \in Nat /\ d = Len(hs)
  BY <1>1
<1>3. F' \in Seq(Byte) /\ LF' \in Nat
  <2>1. F' \in Seq(Byte) /\ Len(F') = LF'
    BY Zenon DEF Trama_pedida
  <2> QED
    BY <2>1
<1>4. /\ Viene(d)' /\ Len(hs') = d + LF'
      /\ \A p \in DOMAIN hs' : p > d => (hs'[p] = DOLAR <=> p = d + 1)
  BY <1>2, VieneNueva
<1>5. /\ DOMAIN hs = 1..Len(hs) /\ DOMAIN hs' = 1..Len(hs')
      /\ \A p \in 1..Len(hs) : hs'[p] = hs[p]
  BY <1>3, AlgoMas
<1>6. ASSUME NEW p \in DOMAIN hs', hs'[p] = DOLAR
      PROVE  p = d + 1 \/ (p <= d /\ gpc' = "ack" /\ \A q \in 1..p : hs[q] # MAS /\ hs'[q] # MAS)
  <2>1. CASE p > d
    BY <1>4, <1>6, <2>1
  <2>2. CASE p <= d
    <3>1. p \in 1..Len(hs) /\ hs[p] = DOLAR
      BY <1>2, <1>5, <1>6, <2>2
    <3>2. gpc = "ack" /\ \A q \in 1..p : hs[q] # MAS
      BY <1>5, <3>1 DEF Sordo
    <3> QED
      BY <1>5, <2>2, <3>1, <3>2
  <2> QED
    BY <1>2, <1>5, <1>6, <2>1, <2>2
<1>7. Marcas(d)'
  BY <1>6 DEF Marcas
<1>8. gpc = "espera" \/ gpc = "ack"
  BY DEF Sordo
<1>9. CASE gpc = "espera" \/ \E q \in 1..d : hs[q] = MAS
  <2>1. CASE gpc = "espera"
    BY <1>2, <1>4, <1>7, <2>1 DEF Llega
  <2>2. CASE gpc = "ack" /\ \E q \in 1..d : hs[q] = MAS
    <3>1. \E q \in 1..d : hs'[q] = MAS
      BY <1>2, <1>5, <2>2
    <3> QED
      BY <1>2, <1>4, <1>7, <2>2, <3>1 DEF Llega
  <2> QED
    BY <1>8, <1>9, <2>1, <2>2
<1>10. CASE gpc = "ack" /\ \A q \in 1..d : hs[q] # MAS
  <2>1. ASSUME NEW p \in DOMAIN hs', hs'[p] = DOLAR
        PROVE  \A q \in 1..p : hs'[q] # MAS
    <3>1. CASE p = d + 1
      <4> SUFFICES ASSUME NEW q \in 1..p PROVE hs'[q] # MAS
        OBVIOUS
      <4>1. CASE q = p
        BY <2>1, <4>1, Signos
      <4>2. CASE q # p
        BY <1>2, <1>5, <1>10, <3>1, <4>2
      <4> QED
        BY <4>1, <4>2
    <3> QED
      BY <1>6, <2>1, <3>1
  <2> QED
    BY <1>10, <2>1 DEF Sordo
<1> QED
  BY <1>8, <1>9, <1>10

\* The frame of the request once more, right behind it.
LEMMA OtraTrama ==
  ASSUME hs \in Seq(Byte), hs' = hs \o F, turno' = turno, gpc' = gpc,
         Trama_pedida, NEW d \in Int, d + LF = Len(hs), Viene(d), Marcas(d)
  PROVE  Viene(d)' /\ Marcas(d)'
<1>1. F \in Seq(Byte) /\ F' = F /\ LF' = LF /\ LF \in Nat /\ Trama_pedida'
  BY Misma DEF Trama_pedida
<1>2. Viene(d)'
  BY <1>1, VieneAnexa
<1>3. PICK e \in Int : e = d + LF
  BY <1>1
<1>4. /\ Viene(e)' /\ \A p \in DOMAIN hs' : p > e => (hs'[p] = DOLAR <=> p = e + 1)
  BY <1>1, <1>3, VieneNueva
<1>5. Viene(d + LF)'
  BY <1>1, <1>3, <1>4 DEF Viene
<1>6. /\ DOMAIN hs = 1..Len(hs) /\ DOMAIN hs' = 1..Len(hs')
      /\ \A p \in 1..Len(hs) : hs'[p] = hs[p]
  BY <1>1, AlgoMas
<1>7. ASSUME NEW p \in DOMAIN hs', hs'[p] = DOLAR
      PROVE  \/ p = d + 1
             \/ p = d + LF + 1 /\ Viene(d + LF)'
             \/ p <= d /\ gpc' = "ack" /\ \A q \in 1..p : hs'[q] # MAS
  <2>1. CASE p > e
    BY <1>1, <1>3, <1>4, <1>5, <1>7, <2>1
  <2>2. CASE p <= e
    <3>1. p \in 1..Len(hs) /\ hs[p] = DOLAR
      BY <1>3, <1>6, <1>7, <2>2
    <3>2. p # d + LF + 1
      BY <1>1, <1>3, <2>2
    <3>3. p = d + 1 \/ (p <= d /\ gpc = "ack" /\ \A q \in 1..p : hs[q] # MAS)
      BY <1>6, <3>1, <3>2 DEF Marcas
    <3> QED
      BY <1>6, <3>1, <3>3
  <2> QED
    BY <1>3, <1>6, <1>7, <2>1, <2>2
<1> QED
  BY <1>1, <1>2, <1>7 DEF Marcas

(* The stub reads: nothing that will be a frame, or the frame of the request *)

\* What the stub reads is the first character of the line, and it changes
\* nothing of the host's.
LEMMA LeeForma ==
  ASSUME ETipado, Lee
  PROVE  /\ hs \in Seq(Byte) /\ hs # <<>> /\ hs' = Tail(hs) /\ Head(hs) = hs[1] /\ Head(hs) \in Byte
         /\ turno' = turno /\ hst' = hst /\ envios' = envios /\ fallos' = fallos
         /\ Trama_pedida
         /\ \/ EsperaInicio(Head(hs)) \/ LeeDato(Head(hs))
            \/ LeeSuma1(Head(hs)) \/ LeeSuma2(Head(hs)) \/ LeeAck(Head(hs))
<1>1. hs \in Seq(Byte) /\ turno \in 1..Len(Sesion)
  BY DEF ETipado, ETypeOK
<1>2. hs # <<>> /\ hs' = Tail(hs) /\ UNCHANGED <<host, fallos>>
  BY DEF Lee
<1>3. Head(hs) = hs[1] /\ Head(hs) \in Byte
  BY <1>1, <1>2, UnoMenos
<1>4. Trama_pedida
  BY <1>1, PedidaForma
<1>5. turno' = turno /\ hst' = hst /\ envios' = envios /\ fallos' = fallos
  BY <1>2 DEF host
<1> QED
  BY <1>1, <1>2, <1>3, <1>4, <1>5 DEF Lee

\* Of what will not be read as a frame, one character.
LEMMA LeeSordo ==
  ASSUME ETipado, Lee, Sordo
  PROVE  /\ Sordo' /\ buffer' = buffer /\ hechas' = hechas /\ respuesta' = respuesta
         /\ \/ gpc = "espera" /\ gpc' = "espera" /\ sh' = sh
            \/ gpc = "ack" /\ Head(hs) = MAS /\ gpc' = "espera" /\ sh' = sh
            \/ /\ gpc = "ack" /\ Head(hs) # MAS /\ gpc' = "ack"
               /\ sh' = Append(sh, Respuesta(respuesta))
<1>1. /\ hs \in Seq(Byte) /\ hs # <<>> /\ hs' = Tail(hs) /\ Head(hs) = hs[1]
      /\ \/ EsperaInicio(Head(hs)) \/ LeeDato(Head(hs))
         \/ LeeSuma1(Head(hs)) \/ LeeSuma2(Head(hs)) \/ LeeAck(Head(hs))
  BY LeeForma
<1>2. gpc \in {"espera", "ack"}
  BY DEF Sordo
<1>3. CASE gpc = "espera"
  <2>1. Head(hs) # DOLAR
    <3>1. 1 \in DOMAIN hs
      BY <1>1, UnoMenos
    <3> QED
      BY <1>1, <1>3, <3>1 DEF Sordo
  <2>2. UNCHANGED stub /\ UNCHANGED <<sh, hechas>>
    BY <1>1, <1>3, <2>1 DEF EsperaInicio, LeeDato, LeeSuma1, LeeSuma2, LeeAck
  <2>3. Sordo'
    BY <1>1, <1>3, <2>2, SordoCorre DEF stub
  <2> QED
    BY <1>3, <2>2, <2>3 DEF stub
<1>4. CASE gpc = "ack"
  <2>1. LeeAck(Head(hs))
    BY <1>1, <1>4 DEF EsperaInicio, LeeDato, LeeSuma1, LeeSuma2
  <2>2. gpc' \in {"espera", "ack"} /\ (Head(hs) # MAS => gpc' = "ack")
    BY <2>1, <1>4 DEF LeeAck
  <2>3. Sordo'
    BY <1>1, <2>2, SordoCorre
  <2> QED
    BY <1>4, <2>1, <2>3 DEF LeeAck
<1> QED
  BY <1>2, <1>3, <1>4

\* The character at the head of a frame of which m have gone.
LEMMA Frente ==
  ASSUME hs \in Seq(Byte), Trama_pedida, NEW m \in Nat, Viene(-m)
  PROVE  /\ m <= N + 3 /\ hs # <<>> /\ Head(hs) = F[m + 1] /\ m + 1 \in 1..LF
         /\ Len(hs) >= LF - m
<1>1. N \in Nat /\ LF = N + 4
  BY DEF Trama_pedida
<1>2. 1 <= LF - m /\ LF - m <= Len(hs)
  BY <1>1 DEF Viene
<1>3. m + 1 \in 1..LF /\ (-m) + (m + 1) = 1
  BY <1>1, <1>2
<1>4. hs[1] = F[m + 1]
  BY <1>3 DEF Viene
<1>5. hs # <<>>
  BY <1>1, <1>2
<1>6. Head(hs) = hs[1]
  BY <1>5, HeadTailProperties
<1> QED
  BY <1>1, <1>2, <1>3, <1>4, <1>5, <1>6

\* The frame begins.
LEMMA LeeInicio ==
  ASSUME ETipado, Lee, gpc # "ack", Empieza, UNCHANGED <<sh, hechas>>, Viene(0), Marcas(0)
  PROVE  Leyendo(1)' /\ UNCHANGED <<buffer, respuesta, sh, hechas>>
<1>1. hs \in Seq(Byte) /\ hs # <<>> /\ hs' = Tail(hs) /\ turno' = turno /\ Trama_pedida
  BY LeeForma
<1>2. N \in Nat /\ LF = N + 4 /\ N' = N /\ LF' = LF /\ Pedida' = Pedida
  BY <1>1, Misma DEF Trama_pedida
<1>3. gpc' = "datos" /\ checksum' = 0 /\ count' = 0 /\ UNCHANGED <<buffer, respuesta>>
  BY DEF Empieza
<1>4. PICK e \in Int : e = 0
  OBVIOUS
<1>5. Viene(e) /\ Marcas(e) /\ e + LF >= 2
  BY <1>2, <1>4
<1>6. Viene(e - 1)' /\ Marcas(e - 1)'
  BY <1>1, <1>2, <1>4, <1>5, VieneCorre, MarcasCorre
<1>7. e - 1 = -1
  BY <1>4
<1>8. Viene(-1)' /\ Marcas(-1)'
  BY <1>6, <1>7 DEF Viene, Marcas
<1>9. gpc' = Lugar(1)'
  BY <1>2, <1>3 DEF Lugar
<1>10. checksum' = Suma(Pedida, Prefijo(1 - 1))'
  <2>1. Prefijo(1 - 1)' = 0
    BY <1>2 DEF Prefijo
  <2>2. Suma(Pedida', 0) = 0
    BY <1>2, SumaUna
  <2> QED
    BY <1>3, <2>1, <2>2
<1>11. /\ gpc' # "suma2"
       /\ count' = 1 - 1 /\ \A c \in 1..1 - 1 : buffer'[c - 1] = Pedida'[c]
  BY <1>3
<1> QED
  BY <1>3, <1>8, <1>9, <1>10, <1>11 DEF Leyendo

\* A character more of the frame has gone.
LEMMA LeidaUna ==
  ASSUME ETipado, Lee, NEW m \in Nat, Viene(-m), m <= N + 2
  PROVE  /\ Viene(-(m + 1))'
         /\ Marcas(-m) /\ gpc # "ack" => Marcas(-(m + 1))'
<1>1. hs \in Seq(Byte) /\ hs # <<>> /\ hs' = Tail(hs) /\ turno' = turno /\ Trama_pedida
  BY LeeForma
<1>2. N \in Nat /\ LF = N + 4
  BY <1>1 DEF Trama_pedida
<1>3. PICK e \in Int : e = -m
  OBVIOUS
<1>4. e + LF >= 2 /\ e - 1 = -(m + 1)
  BY <1>2, <1>3
<1>5. Viene(e - 1)'
  BY <1>1, <1>3, <1>4, VieneCorre
<1>6. ASSUME Marcas(-m), gpc # "ack" PROVE Marcas(-(m + 1))'
  <2>1. Marcas(e - 1)'
    BY <1>1, <1>2, <1>3, <1>4, <1>6, MarcasCorre
  <2> QED
    BY <1>4, <2>1 DEF Marcas
<1>7. Viene(-(m + 1))'
  BY <1>4, <1>5 DEF Viene
<1> QED
  BY <1>6, <1>7

\* A character of the packet.
LEMMA LeeUnDato ==
  ASSUME ETipado, Lee, gpc = "datos", Head(hs) \notin {DOLAR, ALMOHADILLA}
  PROVE  /\ checksum' = (checksum + Head(hs)) % (B * B) /\ count' = count + 1
         /\ respuesta' = respuesta /\ sh' = sh /\ hechas' = hechas
         /\ count \in 0..BUFMAX - 1
         /\ buffer'[2] = buffer[2] \/ buffer'[2] = NUL \/ (count = 2 /\ buffer'[2] = Head(hs))
         /\ \/ /\ gpc' = "datos" /\ count + 1 < BUFMAX
               /\ buffer' = [buffer EXCEPT ![count] = Head(hs)] /\ pisado' = pisado
            \/ gpc' = "espera" /\ count + 1 >= BUFMAX
<1>1. /\ LeeDato(Head(hs))
  BY LeeForma DEF EsperaInicio, LeeSuma1, LeeSuma2, LeeAck
<1>2. /\ checksum' = (checksum + Head(hs)) % (B * B) /\ count' = count + 1
      /\ buffer' = [buffer EXCEPT ![count] = Head(hs)]
      /\ IF Cabe(count + 1) THEN UNCHANGED <<gpc, pisado>>
                            ELSE gpc' = "espera" /\ pisado' = TRUE
      /\ respuesta' = respuesta /\ sh' = sh /\ hechas' = hechas
  BY <1>1 DEF LeeDato
<1>3. count \in 0..BUFMAX - 1 /\ BUFMAX \in Nat /\ BUFMAX > 2
  BY EnlaceAssumption DEF ETipado, Cabida
<1>4. buffer \in [0..BUFMAX - 1 -> Byte]
  BY DEF ETipado, ETypeOK
<1>5. CASE count + 1 < BUFMAX
  BY <1>2, <1>3, <1>4, <1>5 DEF Cabe
<1>6. CASE ~(count + 1 < BUFMAX)
  <2>1. gpc' = "espera" /\ buffer' = [buffer EXCEPT ![count] = Head(hs)]
    BY <1>2, <1>6 DEF Cabe
  <2>2. buffer'[2] = buffer[2] \/ buffer'[2] = NUL \/ (count = 2 /\ buffer'[2] = Head(hs))
    BY <1>3, <1>4, <2>1
  <2>3. count + 1 >= BUFMAX
    BY <1>3, <1>6
  <2> QED
    BY Zenon, <1>2, <1>3, <2>1, <2>2, <2>3
<1> QED
  BY <1>5, <1>6

\* The '#' behind it.
LEMMA LeeMarca ==
  ASSUME ETipado, Lee, gpc = "datos", Head(hs) = ALMOHADILLA
  PROVE  /\ gpc' = "suma1" /\ buffer' = [buffer EXCEPT ![count] = NUL] /\ pisado' = pisado
         /\ checksum' = checksum /\ respuesta' = respuesta /\ sh' = sh /\ hechas' = hechas
         /\ count \in 0..BUFMAX - 1
         /\ buffer'[2] = buffer[2] \/ buffer'[2] = NUL
<1>1. /\ LeeDato(Head(hs))
  BY LeeForma DEF EsperaInicio, LeeSuma1, LeeSuma2, LeeAck
<1>2. Head(hs) # DOLAR
  BY Signos
<1>3. count \in 0..BUFMAX - 1 /\ BUFMAX \in Nat /\ BUFMAX > 2
  BY EnlaceAssumption DEF ETipado, Cabida
<1>4. buffer \in [0..BUFMAX - 1 -> Byte]
  BY DEF ETipado, ETypeOK
<1> QED
  BY <1>1, <1>2, <1>3, <1>4 DEF LeeDato, Cierra

\* The character of the packet that is to come.
LEMMA FrenteDato ==
  ASSUME ETipado, Lee, NEW m \in Nat, m >= 1, Viene(-m), gpc = Lugar(m), gpc = "datos"
  PROVE  /\ m <= N => /\ Head(hs) = Pedida[m] /\ Pedida[m] \in Byte \ {0}
                      /\ Head(hs) \notin {DOLAR, ALMOHADILLA}
         /\ ~(m <= N) => m = N + 1 /\ Head(hs) = ALMOHADILLA
<1>1. hs \in Seq(Byte) /\ Trama_pedida
  BY LeeForma
<1>2. Head(hs) = F[m + 1] /\ m <= N + 3
  BY <1>1, Frente
<1>3. N \in Nat /\ F[N + 2] = ALMOHADILLA
      /\ \A c \in 1..N : F[c + 1] = Pedida[c] /\ Pedida[c] \in Byte /\ Pedida[c] \notin {NUL, DOLAR, ALMOHADILLA}
  BY <1>1 DEF Trama_pedida
<1>4. CASE m <= N
  BY <1>2, <1>3, <1>4 DEF NUL
<1>5. CASE ~(m <= N)
  <2>1. m = N + 1
    BY <1>2, <1>3, <1>5 DEF Lugar
  <2> QED
    BY <1>2, <1>3, <1>5, <2>1
<1> QED
  BY <1>4, <1>5

\* The sum of one more.
LEMMA SumaSigue ==
  ASSUME NEW m \in Nat, m >= 1
  PROVE  Suma(Pedida, m) = (Suma(Pedida, m - 1) + Pedida[m]) % (B * B)
<1>1. m - 1 \in Nat /\ (m - 1) + 1 = m
  OBVIOUS
<1> QED
  BY <1>1, SumaUna

\* The frame is being read, and one more of its characters is: it goes to its
\* place in the buffer and to the sum, or the buffer is full (gdb.c:158-170).
LEMMA LeyendoDato ==
  ASSUME ETipado, Lee, NEW m \in Nat, m >= 1, Leyendo(m), gpc = "datos"
  PROVE  /\ respuesta' = respuesta /\ sh' = sh /\ hechas' = hechas
         /\ N < 2 /\ buffer[2] # DOSPUNTOS => buffer'[2] # DOSPUNTOS
         /\ (m <= N + 2 /\ Leyendo(m + 1)') \/ gpc' = "espera"
<1>1. turno' = turno /\ Trama_pedida
  BY LeeForma
<1>2. N \in Nat /\ LF = N + 4 /\ N' = N /\ LF' = LF /\ Pedida' = Pedida
  BY <1>1, Misma DEF Trama_pedida
<1>3. /\ Viene(-m) /\ Marcas(-m) /\ gpc = Lugar(m) /\ checksum = Suma(Pedida, Prefijo(m - 1))
      /\ count = m - 1 /\ \A c \in 1..m - 1 : buffer[c - 1] = Pedida[c]
  BY DEF Leyendo
<1>4. buffer \in [0..BUFMAX - 1 -> Byte] /\ BUFMAX \in Nat /\ BUFMAX > 2
  BY EnlaceAssumption DEF ETipado, ETypeOK
<1>5. CASE m <= N
  <2>1. Head(hs) = Pedida[m] /\ Head(hs) \notin {DOLAR, ALMOHADILLA}
    BY <1>3, <1>5, FrenteDato
  <2>2. /\ checksum' = (checksum + Head(hs)) % (B * B) /\ count' = count + 1
        /\ respuesta' = respuesta /\ sh' = sh /\ hechas' = hechas
        /\ count \in 0..BUFMAX - 1
        /\ buffer'[2] = buffer[2] \/ buffer'[2] = NUL \/ (count = 2 /\ buffer'[2] = Head(hs))
        /\ \/ /\ gpc' = "datos" /\ count + 1 < BUFMAX
              /\ buffer' = [buffer EXCEPT ![count] = Head(hs)]
           \/ gpc' = "espera"
    BY <2>1, LeeUnDato
  <2>3. N < 2 /\ buffer[2] # DOSPUNTOS => buffer'[2] # DOSPUNTOS
    BY <1>2, <1>3, <1>5, <2>2, Signos
  <2>4. ASSUME gpc' = "datos", buffer' = [buffer EXCEPT ![count] = Head(hs)]
        PROVE  Leyendo(m + 1)'
    <3>1. Viene(-(m + 1))' /\ Marcas(-(m + 1))'
      BY <1>2, <1>3, <1>5, LeidaUna
    <3>2. gpc' = Lugar(m + 1)'
      BY <1>2, <1>5, <2>4 DEF Lugar
    <3>3. checksum' = Suma(Pedida', Prefijo((m + 1) - 1)')
      <4>1. Prefijo((m + 1) - 1)' = m /\ Prefijo(m - 1) = m - 1
        BY <1>2, <1>5 DEF Prefijo
      <4>2. checksum = Suma(Pedida, m - 1)
        BY <1>3, <4>1
      <4> QED
        BY <1>2, <2>1, <2>2, <4>1, <4>2, SumaSigue
    <3>4. count' = (m + 1) - 1
      BY <1>3, <2>2
    <3>5. ASSUME NEW c \in 1..(m + 1) - 1 PROVE buffer'[c - 1] = Pedida[c]
      <4>1. CASE c = m
        BY <1>3, <1>4, <2>1, <2>2, <2>4, <4>1
      <4>2. CASE c # m
        BY <1>3, <1>4, <2>2, <2>4, <4>2
      <4> QED
        BY <4>1, <4>2
    <3> QED
      BY <1>2, <2>4, <3>1, <3>2, <3>3, <3>4, <3>5 DEF Leyendo
  <2> QED
    BY <1>2, <1>5, <2>2, <2>3, <2>4
<1>6. CASE ~(m <= N)
  <2>1. m = N + 1 /\ Head(hs) = ALMOHADILLA
    BY <1>3, <1>6, FrenteDato
  <2>2. /\ gpc' = "suma1" /\ buffer' = [buffer EXCEPT ![count] = NUL] /\ checksum' = checksum
        /\ respuesta' = respuesta /\ sh' = sh /\ hechas' = hechas
        /\ count \in 0..BUFMAX - 1
        /\ buffer'[2] = buffer[2] \/ buffer'[2] = NUL
    BY <2>1, LeeMarca
  <2>3. Viene(-(m + 1))' /\ Marcas(-(m + 1))'
    BY <1>2, <1>3, <2>1, LeidaUna
  <2>4. gpc' = Lugar(m + 1)'
    BY <1>2, <2>1, <2>2 DEF Lugar
  <2>5. checksum' = Suma(Pedida', Prefijo((m + 1) - 1)')
    <3>1. Prefijo((m + 1) - 1)' = N /\ Prefijo(m - 1) = N
      BY <1>2, <2>1 DEF Prefijo
    <3> QED
      BY <1>2, <1>3, <2>2, <3>1
  <2>6. Copia_entera'
    <3>1. count = N /\ N < BUFMAX
      BY <1>2, <1>3, <1>4, <2>1, <2>2
    <3>2. buffer'[N] = NUL
      BY <1>2, <1>4, <2>2, <3>1
    <3>3. ASSUME NEW c \in 1..N PROVE buffer'[c - 1] = Pedida[c]
      BY <1>2, <1>3, <1>4, <2>1, <2>2, <3>1
    <3> QED
      BY <1>2, <3>1, <3>2, <3>3 DEF Copia_entera
  <2>7. Leyendo(m + 1)'
    BY <2>2, <2>3, <2>4, <2>5, <2>6 DEF Leyendo
  <2> QED
    BY <1>2, <2>1, <2>2, <2>7, Signos
<1> QED
  BY <1>5, <1>6

\* The first digit of the sum (gdb.c:174).
LEMMA LeeUnaSuma ==
  ASSUME ETipado, Lee, NEW m \in Nat, Viene(-m), gpc = Lugar(m), gpc = "suma1"
  PROVE  /\ m = N + 2 /\ gpc' = "suma2" /\ Suma_media'
         /\ UNCHANGED <<buffer, count, checksum, respuesta, sh, hechas>>
<1>1. hs \in Seq(Byte) /\ turno' = turno /\ Trama_pedida
  BY LeeForma
<1>2. N \in Nat /\ LF = N + 4 /\ N' = N /\ F' = F
  BY <1>1, Misma DEF Trama_pedida
<1>3. m = N + 2
  BY <1>2 DEF Lugar
<1>4. Head(hs) = F[N + 3]
  <2>1. Head(hs) = F[m + 1]
    BY <1>1, Frente
  <2> QED
    BY <1>2, <1>3, <2>1
<1>5. LeeSuma1(Head(hs))
  BY LeeForma DEF EsperaInicio, LeeDato, LeeSuma2, LeeAck
<1> QED
  BY <1>2, <1>3, <1>4, <1>5 DEF LeeSuma1, Suma_media

\* The frame is being read, and the first digit of its sum is.
LEMMA LeyendoSuma ==
  ASSUME ETipado, Lee, NEW m \in Nat, m >= 1, Leyendo(m), gpc = "suma1"
  PROVE  /\ respuesta' = respuesta /\ sh' = sh /\ hechas' = hechas /\ buffer' = buffer
         /\ m = N + 2 /\ Leyendo(m + 1)'
<1>1. turno' = turno /\ Trama_pedida
  BY LeeForma
<1>2. N \in Nat /\ LF = N + 4 /\ N' = N /\ LF' = LF /\ Pedida' = Pedida
  BY <1>1, Misma DEF Trama_pedida
<1>3. /\ Viene(-m) /\ Marcas(-m) /\ gpc = Lugar(m) /\ checksum = Suma(Pedida, Prefijo(m - 1))
      /\ Copia_entera
  BY DEF Leyendo
<1>4. /\ m = N + 2 /\ gpc' = "suma2" /\ Suma_media'
      /\ UNCHANGED <<buffer, count, checksum, respuesta, sh, hechas>>
  BY <1>3, LeeUnaSuma
<1>5. Viene(-(m + 1))' /\ Marcas(-(m + 1))'
  BY <1>2, <1>3, <1>4, LeidaUna
<1>6. gpc' = Lugar(m + 1)'
  BY <1>2, <1>4 DEF Lugar
<1>7. checksum' = Suma(Pedida', Prefijo((m + 1) - 1)')
  <2>1. Prefijo((m + 1) - 1)' = N /\ Prefijo(m - 1) = N
    BY <1>2, <1>4 DEF Prefijo
  <2> QED
    BY <1>2, <1>3, <1>4, <2>1
<1>8. Copia_entera'
  BY <1>2, <1>3, <1>4 DEF Copia_entera
<1>9. Leyendo(m + 1)'
  BY <1>4, <1>5, <1>6, <1>7, <1>8 DEF Leyendo
<1> QED
  BY <1>4, <1>9

\* What the stub sends for a packet that it takes.
Ecos == {<<>>, <<Senal("otro"), Senal("otro")>>}
Contesta ==
  /\ gpc' = "ack" /\ respuesta' = Actual /\ buffer' = buffer
  /\ buffer[2] = DOSPUNTOS => ConSecuencia(Pedida)
  /\ \E e \in Ecos : sh' = sh \o Acepta(Actual, e)
  /\ hechas < 3 => hechas' = hechas + 1

\* The last character of the sum, when the packet is whole in the buffer.
LEMMA LeeFin ==
  ASSUME ETipado, Lee, gpc = "suma2", Copia_entera, N < 2 => buffer[2] # DOSPUNTOS
  PROVE  LET x == (xmitcsum + hex(Head(hs))) % (B * B)
         IN \/ checksum = x /\ Contesta
            \/ /\ checksum # x /\ gpc' = "espera" /\ sh' = Append(sh, Senal("-"))
               /\ buffer' = buffer /\ respuesta' = respuesta /\ hechas' = hechas
<1> DEFINE x == (xmitcsum + hex(Head(hs))) % (B * B)
           texto == Texto(buffer, IF buffer[2] = DOSPUNTOS THEN 3 ELSE 0)
           ecos == IF buffer[2] = DOSPUNTOS THEN <<Senal("otro"), Senal("otro")>> ELSE <<>>
<1>1. LeeSuma2(Head(hs))
  BY LeeForma DEF EsperaInicio, LeeDato, LeeSuma1, LeeAck
<1>2. turno \in 1..Len(Sesion)
  BY DEF ETipado, ETypeOK
<1>3. (buffer[2] = DOSPUNTOS <=> ConSecuencia(Pedida)) /\ texto = Actual
  BY <1>2, TextoPedido
<1>4. ecos \in Ecos
  BY DEF Ecos
<1>5. buffer' = buffer
      /\ IF checksum # x
         THEN gpc' = "espera" /\ sh' = Append(sh, Senal("-")) /\ UNCHANGED <<respuesta, hechas>>
         ELSE /\ putpacket(texto) /\ sh' = sh \o Acepta(texto, ecos)
              /\ hechas' = IF texto = Contenido(Sesion[turno]) /\ hechas < 3
                           THEN hechas + 1 ELSE hechas
  BY <1>1, Zenon DEF LeeSuma2
<1> HIDE DEF x, texto, ecos
<1>6. CASE checksum = x
  <2>1. gpc' = "ack" /\ respuesta' = Actual /\ sh' = sh \o Acepta(Actual, ecos)
    BY <1>3, <1>5, <1>6, Zenon DEF putpacket
  <2>2. hechas < 3 => hechas' = hechas + 1
    BY <1>3, <1>5, <1>6, Zenon DEF Actual, Pedida
  <2> QED
    BY <1>3, <1>4, <1>5, <1>6, <2>1, <2>2, Zenon DEF Contesta, x
<1>7. CASE checksum # x
  BY <1>5, <1>7, Zenon DEF x
<1> QED
  BY <1>6, <1>7

\* The frame is being read, and the last digit of its sum is: the sum is
\* right, and the request is carried out (gdb.c:176-209).
LEMMA LeyendoFin ==
  ASSUME ETipado, Lee, NEW m \in Nat, m >= 1, Leyendo(m), gpc = "suma2",
         N < 2 => buffer[2] # DOSPUNTOS
  PROVE  Contesta /\ Sordo' /\ m = N + 3 /\ (Len(hs) = LF - m => hs' = <<>>)
<1>1. hs \in Seq(Byte) /\ hs # <<>> /\ hs' = Tail(hs) /\ turno' = turno /\ Trama_pedida
  BY LeeForma
<1>2. N \in Nat /\ LF = N + 4 /\ N' = N /\ LF' = LF /\ F' = F
      /\ (((hex(F[N + 3]) * B) % (B * B)) + hex(F[N + 4])) % (B * B) = Suma(Pedida, N)
  BY <1>1, Misma DEF Trama_pedida
<1>3. /\ Viene(-m) /\ Marcas(-m) /\ gpc = Lugar(m) /\ checksum = Suma(Pedida, Prefijo(m - 1))
      /\ Copia_entera /\ Suma_media
  BY DEF Leyendo
<1>4. Head(hs) = F[m + 1] /\ m <= N + 3
  BY <1>1, <1>3, Frente
<1>5. m = N + 3
  BY <1>2, <1>3, <1>4 DEF Lugar
<1>6. checksum = Suma(Pedida, N) /\ Head(hs) = F[N + 4]
  <2>1. Prefijo(m - 1) = N
    BY <1>2, <1>5 DEF Prefijo
  <2>2. (N + 3) + 1 = N + 4
    BY <1>2
  <2> QED
    BY <1>3, <1>4, <1>5, <2>1, <2>2, Zenon
<1>7. checksum = (xmitcsum + hex(Head(hs))) % (B * B)
  BY <1>2, <1>3, <1>6, Zenon DEF Suma_media
<1>8. Contesta
  BY <1>3, <1>7, LeeFin
<1>9. Len(hs') = Len(hs) - 1 /\ Len(hs) \in Nat /\ \A p \in 1..Len(hs') : hs'[p] = hs[p + 1]
      /\ DOMAIN hs = 1..Len(hs) /\ DOMAIN hs' = 1..Len(hs') /\ Head(hs) = hs[1] /\ hs' \in Seq(Byte)
  BY <1>1, UnoMenos
<1>10. Sordo'
  <2>1. gpc' = "ack"
    BY <1>8 DEF Contesta
  <2>2. ASSUME NEW p \in DOMAIN hs', hs'[p] = DOLAR PROVE \A q \in 1..p : hs'[q] # MAS
    <3>1. p + 1 \in DOMAIN hs /\ hs[p + 1] = DOLAR /\ p >= 1
      BY <1>9, <2>2
    <3>2. p + 1 = (-m) + 1 \/ p + 1 = (-m) + LF + 1 \/ p + 1 <= -m
      BY <1>3, <3>1 DEF Marcas
    <3>3. p = 1
      BY <1>2, <1>5, <1>9, <3>1, <3>2
    <3> QED
      BY <2>2, <3>3, Signos
  <2> QED
    BY <2>1, <2>2 DEF Sordo
<1>11. Len(hs) = LF - m => hs' = <<>>
  BY <1>2, <1>5, <1>9, EmptySeq
<1> QED
  BY <1>5, <1>8, <1>10, <1>11

(* The stub reads: a frame that it gives up, one with a character lost, what is left of one *)

\* A packet that fills the buffer is given up; what is left of it is not
\* read, but another that is behind it will be.
LEMMA Desborda ==
  ASSUME ETipado, Lee, NEW m \in Nat, m >= 1, Leyendo(m), gpc = "datos", gpc' = "espera"
  PROVE  /\ Sordo' \/ \E d \in 0..Len(hs') : Llega(d)'
         /\ Len(hs) = LF - m => Sordo'
<1>1. hs \in Seq(Byte) /\ hs # <<>> /\ hs' = Tail(hs) /\ turno' = turno /\ Trama_pedida
  BY LeeForma
<1>2. N \in Nat /\ LF = N + 4 /\ N' = N /\ LF' = LF
  BY <1>1, Misma DEF Trama_pedida
<1>3. Viene(-m) /\ Marcas(-m) /\ gpc = Lugar(m)
  BY DEF Leyendo
<1>4. m <= N
  <2> SUFFICES ASSUME ~(m <= N) PROVE FALSE
    OBVIOUS
  <2>1. gpc' = "suma1"
    BY <1>3, FrenteDato, LeeMarca
  <2> QED
    BY <2>1
<1>5. Len(hs') = Len(hs) - 1 /\ Len(hs) \in Nat /\ \A p \in 1..Len(hs') : hs'[p] = hs[p + 1]
      /\ DOMAIN hs = 1..Len(hs) /\ DOMAIN hs' = 1..Len(hs')
  BY <1>1, UnoMenos
<1>6. PICK e \in Int : e = LF - m
  BY <1>2
<1>7. ASSUME NEW p \in DOMAIN hs', hs'[p] = DOLAR PROVE p = e /\ Viene(e)
  <2>1. p + 1 \in DOMAIN hs /\ hs[p + 1] = DOLAR /\ p >= 1
    BY <1>5, <1>7
  <2>2. p + 1 = (-m) + 1 \/ (p + 1 = (-m) + LF + 1 /\ Viene((-m) + LF)) \/ p + 1 <= -m
    BY <1>3, <2>1 DEF Marcas
  <2>3. p + 1 # (-m) + 1 /\ ~(p + 1 <= -m)
    BY <1>5, <1>7, <2>1
  <2>4. p + 1 = (-m) + LF + 1 /\ Viene((-m) + LF)
    BY <2>2, <2>3
  <2>5. (-m) + LF = e
    BY <1>2, <1>6
  <2>6. Viene(e)
    BY <2>4, <2>5
  <2> QED
    BY <1>2, <1>5, <1>7, <2>4, <2>5, <2>6
<1>8. CASE Viene(e)
  <2>1. PICK d \in Int : d = e - 1
    OBVIOUS
  <2>2. Viene(e - 1)'
    BY <1>1, <1>2, <1>4, <1>6, <1>8, VieneCorre
  <2>3. d \in 0..Len(hs') /\ d >= 0
    <3>1. e + LF <= Len(hs)
      BY <1>8 DEF Viene
    <3> QED
      BY <1>2, <1>4, <1>5, <1>6, <2>1, <3>1
  <2>4. Viene(d)'
    BY <2>1, <2>2
  <2>5. Marcas(d)'
    BY <1>7, <2>1 DEF Marcas
  <2>6. Llega(d)'
    BY <2>3, <2>4, <2>5 DEF Llega
  <2>7. Len(hs) # LF - m
    <3>1. e + LF <= Len(hs)
      BY <1>8 DEF Viene
    <3> QED
      BY <1>2, <1>5, <1>6, <3>1
  <2> QED
    BY <2>3, <2>6, <2>7
<1>9. CASE ~Viene(e)
  BY <1>7, <1>9 DEF Sordo
<1> QED
  BY <1>8, <1>9

\* A frame that is to be read, one character.
LEMMA LeeLlega ==
  ASSUME ETipado, Lee, NEW d \in Nat, Llega(d), gpc # "suma2"
  PROVE  /\ buffer' = buffer /\ hechas' = hechas /\ respuesta' = respuesta
         /\ \/ d = 0 /\ Leyendo(1)' /\ sh' = sh
            \/ /\ d > 0 /\ \E k \in 0..Len(hs') : k = d - 1 /\ Llega(k)'
               /\ \/ gpc' = "espera" /\ sh' = sh
                  \/ /\ gpc = "ack" /\ Head(hs) # MAS /\ gpc' = "ack"
                     /\ sh' = Append(sh, Respuesta(respuesta))
<1>1. /\ hs \in Seq(Byte) /\ hs # <<>> /\ hs' = Tail(hs) /\ turno' = turno /\ Trama_pedida
      /\ Head(hs) = hs[1]
      /\ \/ EsperaInicio(Head(hs)) \/ LeeDato(Head(hs))
         \/ LeeSuma1(Head(hs)) \/ LeeSuma2(Head(hs)) \/ LeeAck(Head(hs))
  BY LeeForma
<1>2. N \in Nat /\ LF = N + 4 /\ N' = N /\ LF' = LF /\ F[1] = DOLAR
  BY <1>1, Misma DEF Trama_pedida
<1>3. /\ Viene(d) /\ Marcas(d)
      /\ \/ gpc = "espera"
         \/ gpc = "ack" /\ \E q \in 1..d : hs[q] = MAS
         \/ gpc = "datos" /\ d = 0
  BY DEF Llega
<1>4. Len(hs') = Len(hs) - 1 /\ Len(hs) \in Nat /\ Len(hs) >= 1 /\ \A p \in 1..Len(hs') : hs'[p] = hs[p + 1]
      /\ DOMAIN hs = 1..Len(hs) /\ DOMAIN hs' = 1..Len(hs')
  BY <1>1, UnoMenos
<1>5. CASE d = 0
  <2>1. Viene(0) /\ Marcas(0) /\ (gpc = "espera" \/ gpc = "datos")
    BY <1>3, <1>5
  <2>2. Head(hs) = DOLAR
    BY <1>1, <1>2, <2>1 DEF Viene
  <2>3. Empieza /\ UNCHANGED <<sh, hechas>>
    BY <1>1, <2>1, <2>2, Signos DEF EsperaInicio, LeeDato, LeeSuma1, LeeSuma2, LeeAck
  <2>4. Leyendo(1)' /\ UNCHANGED <<buffer, respuesta, sh, hechas>>
    BY <2>1, <2>3, LeeInicio
  <2> QED
    BY <1>5, <2>4
<1>6. CASE d > 0
  <2>1. PICK k \in Int : k = d - 1
    OBVIOUS
  <2>2. Viene(d - 1)'
    BY <1>1, <1>2, <1>3, VieneCorre
  <2>3. Viene(k)' /\ k >= 0 /\ k \in 0..Len(hs')
    <3>1. d + LF <= Len(hs)
      BY <1>3 DEF Viene
    <3> QED
      BY <1>2, <1>4, <1>6, <2>1, <2>2, <3>1
  <2>4. CASE gpc = "espera"
    <3>1. Head(hs) # DOLAR
      BY <1>1, <1>2, <1>3, <1>4, <1>6, <2>4 DEF Marcas
    <3>2. UNCHANGED stub /\ UNCHANGED <<sh, hechas>>
      BY <1>1, <2>4, <3>1 DEF EsperaInicio, LeeDato, LeeSuma1, LeeSuma2, LeeAck
    <3>3. Marcas(d - 1)'
      BY <1>1, <1>2, <1>3, <2>4, MarcasCorre
    <3>4. Llega(k)'
      BY <2>1, <2>3, <2>4, <3>2, <3>3 DEF Llega, stub
    <3> QED
      BY <1>6, <2>1, <2>3, <2>4, <3>2, <3>4 DEF stub
  <2>5. CASE gpc = "ack" /\ \E q \in 1..d : hs[q] = MAS
    <3>1. LeeAck(Head(hs))
      BY <1>1, <2>5 DEF EsperaInicio, LeeDato, LeeSuma1, LeeSuma2
    <3>2. Marcas(d - 1)'
      BY <1>1, <1>2, <1>3, <3>1, MarcasCorre DEF LeeAck
    <3>3. gpc' = "espera" \/ (Head(hs) # MAS /\ gpc' = "ack")
      BY <2>5, <3>1 DEF LeeAck
    <3>4. ASSUME Head(hs) # MAS PROVE \E q \in 1..k : hs'[q] = MAS
      <4>1. PICK q \in 1..d : hs[q] = MAS
        BY <2>5
      <4>2. q # 1
        BY <1>1, <3>4, <4>1
      <4>3. d <= Len(hs)
        BY <1>2, <1>3 DEF Viene
      <4>4. q - 1 \in 1..k /\ q - 1 \in 1..Len(hs') /\ (q - 1) + 1 = q
        BY <1>4, <2>1, <4>1, <4>2, <4>3
      <4> QED
        BY <1>4, <4>1, <4>4
    <3>5. Llega(k)'
      BY <2>1, <2>3, <3>2, <3>3, <3>4 DEF Llega
    <3> QED
      BY <1>6, <2>1, <2>3, <2>5, <3>1, <3>5 DEF LeeAck
  <2> QED
    BY <1>3, <1>6, <2>4, <2>5
<1> QED
  BY <1>5, <1>6

\* The frame again, when all but the last digit of it is in the buffer: its
\* '$' ends it.
LEMMA LeeTrasPerdida ==
  ASSUME ETipado, Lee, Llega(0), gpc = "suma2", N < 2 => buffer[2] # DOSPUNTOS
  PROVE  /\ Sordo' /\ sh = <<>>
         /\ \/ Contesta
            \/ /\ gpc' = "espera" /\ sh' = <<Senal("-")>>
               /\ buffer' = buffer /\ respuesta' = respuesta /\ hechas' = hechas
<1>1. hs \in Seq(Byte) /\ hs # <<>> /\ hs' = Tail(hs) /\ turno' = turno /\ Trama_pedida
  BY LeeForma
<1>2. N \in Nat /\ LF = N + 4 /\ \A c \in 1..LF : F[c] = DOLAR <=> c = 1
  BY <1>1 DEF Trama_pedida
<1>3. Viene(0) /\ Copia_entera /\ Len(hs) = LF /\ sh = <<>>
  BY DEF Llega
<1>4. Len(hs') = Len(hs) - 1 /\ Len(hs) \in Nat /\ \A p \in 1..Len(hs') : hs'[p] = hs[p + 1]
      /\ DOMAIN hs = 1..Len(hs) /\ DOMAIN hs' = 1..Len(hs')
  BY <1>1, UnoMenos
<1>5. \A p \in DOMAIN hs' : hs'[p] # DOLAR
  <2> SUFFICES ASSUME NEW p \in DOMAIN hs' PROVE hs'[p] # DOLAR
    OBVIOUS
  <2>1. p + 1 \in 1..LF /\ p + 1 # 1 /\ 0 + (p + 1) = p + 1 /\ p + 1 >= 1
    BY <1>3, <1>4
  <2>2. hs'[p] = F[p + 1]
    BY <1>3, <1>4, <2>1 DEF Viene
  <2> QED
    BY <1>2, <2>1, <2>2
<1>6. \/ Contesta
      \/ /\ gpc' = "espera" /\ sh' = Append(sh, Senal("-"))
         /\ buffer' = buffer /\ respuesta' = respuesta /\ hechas' = hechas
  BY <1>3, LeeFin
<1>7. gpc' \in {"espera", "ack"}
  BY <1>6 DEF Contesta
<1>8. Sordo'
  BY <1>5, <1>7 DEF Sordo
<1>9. Append(<<>>, Senal("-")) = <<Senal("-")>>
  OBVIOUS
<1> QED
  BY <1>3, <1>6, <1>8, <1>9

\* A frame with a character less: the sum is not its sum, to the end.
LEMMA DanadaDato ==
  ASSUME ETipado, Lee, NEW m \in Nat, Danada(m), gpc = "datos"
  PROVE  /\ respuesta' = respuesta /\ sh' = sh /\ hechas' = hechas
         /\ N < 2 /\ buffer[2] # DOSPUNTOS => buffer'[2] # DOSPUNTOS
         /\ (m <= N + 2 /\ Danada(m + 1)') \/ (gpc' = "espera" /\ Sordo')
<1>1. hs \in Seq(Byte) /\ hs # <<>> /\ hs' = Tail(hs) /\ turno' = turno /\ Trama_pedida
  BY LeeForma
<1>2. N \in Nat /\ LF = N + 4 /\ N' = N /\ LF' = LF /\ Pedida' = Pedida
      /\ \A c \in 1..LF : F[c] = DOLAR <=> c = 1
  BY <1>1, Misma DEF Trama_pedida
<1>3. /\ m > 1 /\ Viene(-m) /\ Len(hs) = LF - m /\ sh = <<>>
      /\ gpc = Lugar(m) /\ checksum # Suma(Pedida, Prefijo(m - 1))
  BY DEF Danada
<1>4. Len(hs') = Len(hs) - 1 /\ Len(hs) \in Nat /\ \A p \in 1..Len(hs') : hs'[p] = hs[p + 1]
      /\ DOMAIN hs = 1..Len(hs) /\ DOMAIN hs' = 1..Len(hs')
  BY <1>1, UnoMenos
<1>5. Len(hs') = LF' - (m + 1) /\ m + 1 > 1
  BY <1>2, <1>3, <1>4
<1>6. CASE m <= N
  <2>1. Head(hs) = Pedida[m] /\ Head(hs) \notin {DOLAR, ALMOHADILLA}
    BY <1>3, <1>6, FrenteDato
  <2>2. /\ checksum' = (checksum + Head(hs)) % (B * B)
        /\ respuesta' = respuesta /\ sh' = sh /\ hechas' = hechas
        /\ gpc' = "datos" \/ gpc' = "espera"
    BY <2>1, LeeUnDato
  <2>3. CASE gpc' = "datos"
    <3>1. Viene(-(m + 1))'
      BY <1>2, <1>3, <1>6, LeidaUna
    <3>2. gpc' = Lugar(m + 1)'
      BY <1>2, <1>6, <2>3 DEF Lugar
    <3>3. checksum' # Suma(Pedida', Prefijo((m + 1) - 1)')
      <4>1. Prefijo((m + 1) - 1)' = m /\ Prefijo(m - 1) = m - 1
        BY <1>2, <1>6 DEF Prefijo
      <4>2. checksum # Suma(Pedida, m - 1)
        BY <1>3, <4>1
      <4>3. Suma(Pedida, m) = (Suma(Pedida, m - 1) + Head(hs)) % (B * B)
        BY <1>3, <2>1, SumaSigue
      <4>4. checksum \in Byte /\ Head(hs) \in Byte
        BY LeeForma DEF ETipado, ETypeOK
      <4>5. Suma(Pedida, m - 1) \in Byte
        <5>1. \A c \in 1..m - 1 : Pedida[c] \in Byte
          BY <1>1, <1>2, <1>6 DEF Trama_pedida
        <5> QED
          BY <1>3, <5>1, SumaTipo
      <4>6. checksum' # Suma(Pedida, m)
        BY <2>2, <4>2, <4>3, <4>4, <4>5, SumaInyectiva
      <4> QED
        BY <1>2, <4>1, <4>6
    <3>4. Danada(m + 1)'
      BY <1>3, <1>5, <2>2, <2>3, <3>1, <3>2, <3>3 DEF Danada
    <3> QED
      BY <1>2, <1>3, <1>6, <2>2, <3>4
  <2>4. CASE gpc' = "espera"
    <3>1. ASSUME NEW p \in DOMAIN hs' PROVE hs'[p] # DOLAR
      <4>1. PICK c \in 1..LF : c = p + 1 + m
        BY <1>2, <1>3, <1>4
      <4>2. c # 1 /\ (-m) + c = p + 1 /\ p + 1 >= 1
        BY <1>3, <1>4, <4>1
      <4>3. hs[p + 1] = F[c]
        BY <1>3, <4>2 DEF Viene
      <4> QED
        BY <1>2, <1>4, <4>2, <4>3
    <3>2. Sordo'
      BY <2>4, <3>1 DEF Sordo
    <3> QED
      BY <1>2, <1>3, <1>6, <2>2, <2>4, <3>2
  <2> QED
    BY <2>2, <2>3, <2>4
<1>7. CASE ~(m <= N)
  <2>1. m = N + 1 /\ Head(hs) = ALMOHADILLA
    BY <1>3, <1>7, FrenteDato
  <2>2. /\ gpc' = "suma1" /\ checksum' = checksum
        /\ respuesta' = respuesta /\ sh' = sh /\ hechas' = hechas
        /\ buffer'[2] = buffer[2] \/ buffer'[2] = NUL
    BY <2>1, LeeMarca
  <2>3. Viene(-(m + 1))'
    BY <1>2, <1>3, <2>1, LeidaUna
  <2>4. gpc' = Lugar(m + 1)'
    BY <1>2, <2>1, <2>2 DEF Lugar
  <2>5. checksum' # Suma(Pedida', Prefijo((m + 1) - 1)')
    <3>1. Prefijo((m + 1) - 1)' = N /\ Prefijo(m - 1) = N
      BY <1>2, <2>1 DEF Prefijo
    <3> QED
      BY <1>2, <1>3, <2>2, <3>1
  <2>6. Danada(m + 1)'
    BY <1>3, <1>5, <2>2, <2>3, <2>4, <2>5 DEF Danada
  <2> QED
    BY <1>2, <2>1, <2>2, <2>6, Signos
<1> QED
  BY <1>6, <1>7

\* The first digit of the sum of a frame with a character lost.
LEMMA DanadaSuma ==
  ASSUME ETipado, Lee, NEW m \in Nat, Danada(m), gpc = "suma1"
  PROVE  /\ respuesta' = respuesta /\ sh' = sh /\ hechas' = hechas /\ buffer' = buffer
         /\ m = N + 2 /\ Danada(m + 1)'
<1>1. hs \in Seq(Byte) /\ hs # <<>> /\ hs' = Tail(hs) /\ turno' = turno /\ Trama_pedida
  BY LeeForma
<1>2. N \in Nat /\ LF = N + 4 /\ N' = N /\ LF' = LF /\ Pedida' = Pedida
  BY <1>1, Misma DEF Trama_pedida
<1>3. /\ m > 1 /\ Viene(-m) /\ Len(hs) = LF - m /\ sh = <<>>
      /\ gpc = Lugar(m) /\ checksum # Suma(Pedida, Prefijo(m - 1))
  BY DEF Danada
<1>4. Len(hs') = Len(hs) - 1 /\ Len(hs) \in Nat
  BY <1>1, UnoMenos
<1>5. /\ m = N + 2 /\ gpc' = "suma2" /\ Suma_media'
      /\ UNCHANGED <<buffer, count, checksum, respuesta, sh, hechas>>
  BY <1>3, LeeUnaSuma
<1>6. Viene(-(m + 1))'
  BY <1>2, <1>3, <1>5, LeidaUna
<1>7. gpc' = Lugar(m + 1)'
  BY <1>2, <1>5 DEF Lugar
<1>8. checksum' # Suma(Pedida', Prefijo((m + 1) - 1)')
  <2>1. Prefijo((m + 1) - 1)' = N /\ Prefijo(m - 1) = N
    BY <1>2, <1>5 DEF Prefijo
  <2> QED
    BY <1>2, <1>3, <1>5, <2>1
<1>9. Len(hs') = LF' - (m + 1) /\ m + 1 > 1
  BY <1>2, <1>3, <1>4
<1>10. Danada(m + 1)'
  BY <1>3, <1>5, <1>6, <1>7, <1>8, <1>9 DEF Danada
<1> QED
  BY <1>5, <1>10

\* The last: the sum is wrong, and the stub says '-'.
LEMMA DanadaFin ==
  ASSUME ETipado, Lee, NEW m \in Nat, Danada(m), gpc = "suma2"
  PROVE  /\ respuesta' = respuesta /\ sh' = <<Senal("-")>> /\ hechas' = hechas /\ buffer' = buffer
         /\ gpc' = "espera" /\ Sordo'
<1>1. /\ hs \in Seq(Byte) /\ hs # <<>> /\ hs' = Tail(hs) /\ turno' = turno /\ Trama_pedida
      /\ \/ EsperaInicio(Head(hs)) \/ LeeDato(Head(hs))
         \/ LeeSuma1(Head(hs)) \/ LeeSuma2(Head(hs)) \/ LeeAck(Head(hs))
  BY LeeForma
<1>2. N \in Nat /\ LF = N + 4
      /\ (((hex(F[N + 3]) * B) % (B * B)) + hex(F[N + 4])) % (B * B) = Suma(Pedida, N)
  BY <1>1 DEF Trama_pedida
<1>3. /\ m > 1 /\ Viene(-m) /\ Len(hs) = LF - m /\ sh = <<>>
      /\ gpc = Lugar(m) /\ checksum # Suma(Pedida, Prefijo(m - 1)) /\ Suma_media
  BY DEF Danada
<1>4. Head(hs) = F[m + 1] /\ m <= N + 3
  BY <1>1, <1>3, Frente
<1>5. m = N + 3
  BY <1>2, <1>3, <1>4 DEF Lugar
<1>6. checksum # Suma(Pedida, N) /\ Head(hs) = F[N + 4]
  <2>1. Prefijo(m - 1) = N
    BY <1>2, <1>5 DEF Prefijo
  <2>2. (N + 3) + 1 = N + 4
    BY <1>2
  <2> QED
    BY <1>3, <1>4, <1>5, <2>1, <2>2, Zenon
<1>7. checksum # (xmitcsum + hex(Head(hs))) % (B * B)
  BY <1>2, <1>3, <1>6, Zenon DEF Suma_media
<1>8. LeeSuma2(Head(hs))
  BY <1>1 DEF EsperaInicio, LeeDato, LeeSuma1, LeeAck
<1>9. /\ gpc' = "espera" /\ sh' = Append(sh, Senal("-"))
      /\ UNCHANGED <<respuesta, hechas, buffer, count, checksum>>
  BY <1>7, <1>8, Zenon DEF LeeSuma2
<1>10. sh' = <<Senal("-")>>
  <2>1. Append(<<>>, Senal("-")) = <<Senal("-")>>
    OBVIOUS
  <2> QED
    BY <1>3, <1>9, <2>1
<1>11. hs' = <<>> /\ DOMAIN hs' = {}
  <2>1. Len(hs') = 0 /\ hs' \in Seq(Byte) /\ DOMAIN hs' = 1..Len(hs')
    BY <1>1, <1>2, <1>3, <1>5, UnoMenos
  <2> QED
    BY <2>1, EmptySeq
<1> QED
  BY <1>9, <1>10, <1>11 DEF Sordo

\* A frame without its '#', or without a digit of its sum.
LEMMA LeeAtascado ==
  ASSUME ETipado, Lee, Atascado, N < 2 => buffer[2] # DOSPUNTOS
  PROVE  /\ respuesta' = respuesta /\ sh' = <<>> /\ hechas' = hechas
         /\ N < 2 => buffer'[2] # DOSPUNTOS
         /\ Atascado' \/ (gpc' = "espera" /\ Sordo')
<1>1. /\ hs \in Seq(Byte) /\ hs # <<>> /\ hs' = Tail(hs) /\ turno' = turno /\ Trama_pedida
      /\ Head(hs) = hs[1]
      /\ \/ EsperaInicio(Head(hs)) \/ LeeDato(Head(hs))
         \/ LeeSuma1(Head(hs)) \/ LeeSuma2(Head(hs)) \/ LeeAck(Head(hs))
  BY LeeForma
<1>2. /\ Len(hs') = Len(hs) - 1 /\ Len(hs) \in Nat /\ Len(hs) >= 1 /\ \A p \in 1..Len(hs') : hs'[p] = hs[p + 1]
      /\ DOMAIN hs = 1..Len(hs) /\ DOMAIN hs' = 1..Len(hs') /\ hs' \in Seq(Byte)
  BY <1>1, UnoMenos
<1>3. CASE gpc = "datos" /\ \A p \in DOMAIN hs : hs[p] \in Digitos
  <2>1. Head(hs) \in Digitos /\ Head(hs) \notin {DOLAR, ALMOHADILLA, DOSPUNTOS}
    BY <1>1, <1>2, <1>3, Signos
  <2>2. /\ respuesta' = respuesta /\ sh' = sh /\ hechas' = hechas
        /\ buffer'[2] = buffer[2] \/ buffer'[2] = NUL \/ (count = 2 /\ buffer'[2] = Head(hs))
        /\ gpc' = "datos" \/ gpc' = "espera"
    BY <1>3, <2>1, LeeUnDato
  <2>3. ASSUME NEW p \in DOMAIN hs' PROVE hs'[p] \in Digitos
    <3>1. p + 1 \in DOMAIN hs /\ hs'[p] = hs[p + 1]
      BY <1>2, <2>3
    <3> QED
      BY <1>3, <3>1, Zenon
  <2>4. \A p \in DOMAIN hs' : hs'[p] # DOLAR
    BY <2>3, Signos
  <2>5. N < 2 => buffer'[2] # DOSPUNTOS
    BY <2>1, <2>2, Signos
  <2>6. N' = N /\ sh = <<>>
    BY <1>1, Misma DEF Atascado
  <2> QED
    BY <2>2, <2>3, <2>4, <2>5, <2>6 DEF Atascado, Sordo
<1>4. CASE gpc = "suma1" /\ Copia_entera /\ Len(hs) = 1
  <2>1. LeeSuma1(Head(hs))
    BY <1>1, <1>4 DEF EsperaInicio, LeeDato, LeeSuma2, LeeAck
  <2>2. gpc' = "suma2" /\ UNCHANGED <<buffer, respuesta, sh, hechas>>
    BY <2>1 DEF LeeSuma1
  <2>3. hs' = <<>>
    BY <1>2, <1>4, EmptySeq
  <2>4. Copia_entera'
    BY <1>1, <1>4, <2>2, Misma DEF Copia_entera
  <2>5. sh = <<>>
    BY DEF Atascado
  <2> QED
    BY <2>2, <2>3, <2>4, <2>5 DEF Atascado
<1> QED
  BY <1>1, <1>3, <1>4 DEF Atascado

(* The answer on its way to the host *)

\* A reply more on its way to the host.
LEMMA UnaRespuestaMas ==
  ASSUME sh \in Seq(Articulo), sh' = Append(sh, Respuesta(respuesta))
  PROVE  /\ Len(sh) \in Nat /\ Len(sh') = Len(sh) + 1
         /\ DOMAIN sh = 1..Len(sh) /\ DOMAIN sh' = 1..Len(sh')
         /\ \A p \in 1..Len(sh) : sh'[p] = sh[p]
         /\ sh'[Len(sh) + 1].t = "trama" /\ sh'[Len(sh) + 1].r = respuesta
         /\ sh'[Len(sh) + 1].bien
<1>1. /\ Len(sh) \in Nat /\ Len(sh') = Len(sh) + 1
      /\ DOMAIN sh = 1..Len(sh) /\ DOMAIN sh' = 1..Len(sh')
      /\ \A p \in 1..Len(sh) : sh'[p] = sh[p]
      /\ sh'[Len(sh) + 1] = Respuesta(respuesta)
  OBVIOUS
<1>2. /\ Respuesta(respuesta).t = "trama" /\ Respuesta(respuesta).r = respuesta
      /\ Respuesta(respuesta).bien
  BY Zenon DEF Respuesta
<1> QED
  BY <1>1, <1>2

\* What the stub sends for a packet it takes: '+', perhaps the sequence, and
\* the reply.
LEMMA AceptaForma ==
  ASSUME NEW r \in Seq(Byte), NEW e \in Ecos
  PROVE  LET s == Acepta(r, e)
         IN /\ s \in Seq(Articulo) /\ Len(s) \in Nat /\ Len(s) > 1
            /\ s[1].t = "+" /\ s[1].bien
            /\ s[Len(s)].t = "trama" /\ s[Len(s)].r = r /\ s[Len(s)].bien
            /\ \A p \in 2..Len(s) - 1 : s[p].t = "otro" /\ s[p].bien
<1> DEFINE a == Senal("+")
           o == Senal("otro")
           t == Respuesta(r)
           s == Acepta(r, e)
<1>1. a \in Articulo /\ o \in Articulo /\ t \in Articulo
  BY Senales
<1>2. a.t = "+" /\ a.bien /\ o.t = "otro" /\ o.bien /\ t.t = "trama" /\ t.r = r /\ t.bien
  BY Zenon DEF Senal, Respuesta
<1>3. s = <<a>> \o e \o <<t>> /\ (e = <<>> \/ e = <<o, o>>)
  BY DEF Acepta, Ecos
<1> HIDE DEF a, o, t, s
<1>6. /\ <<a>> \in Seq(Articulo) /\ Len(<<a>>) = 1 /\ <<a>>[1] = a
      /\ <<t>> \in Seq(Articulo) /\ Len(<<t>>) = 1 /\ <<t>>[1] = t
  BY <1>1
<1> DEFINE u == <<a>> \o e
<1>7. e \in Seq(Articulo)
  <2>1. <<>> \in Seq(Articulo) /\ <<o, o>> \in Seq(Articulo)
    BY <1>1
  <2> QED
    BY <1>3, <2>1, Zenon
<1>8. /\ u \in Seq(Articulo) /\ Len(u) = 1 + Len(e)
      /\ \A p \in 1..1 + Len(e) : u[p] = IF p <= 1 THEN <<a>>[p] ELSE e[p - 1]
  BY <1>6, <1>7, ConcatProperties
<1>9. /\ s \in Seq(Articulo) /\ Len(s) = Len(u) + 1
      /\ \A p \in 1..Len(u) + 1 : s[p] = IF p <= Len(u) THEN u[p] ELSE <<t>>[p - Len(u)]
  BY <1>3, <1>6, <1>8, ConcatProperties
<1> HIDE DEF u
<1>4. CASE e = <<>>
  <2>1. Len(e) = 0
    BY <1>4
  <2>2. Len(s) = 2 /\ s[1] = a /\ s[2] = t
    BY <1>6, <1>8, <1>9, <2>1
  <2>3. \A p \in 2..Len(s) - 1 : FALSE
    BY <2>2
  <2> QED
    BY <1>2, <1>9, <2>2, <2>3 DEF s
<1>5. CASE e = <<o, o>>
  <2>1. Len(e) = 2 /\ e[1] = o /\ e[2] = o
    BY <1>5
  <2>2. Len(s) = 4 /\ s[1] = a /\ s[2] = o /\ s[3] = o /\ s[4] = t
    BY <1>6, <1>8, <1>9, <2>1
  <2>3. \A p \in 2..Len(s) - 1 : p = 2 \/ p = 3
    BY <2>2
  <2> QED
    BY <1>2, <1>9, <2>2, <2>3 DEF s
<1> QED
  BY <1>3, <1>4, <1>5

\* The stub takes the request that the host waits to see taken.
LEMMA ContestaAceptada ==
  ASSUME ETipado, Contesta, Sordo', hst = "ack", hechas <= 1, hechas < envios,
         \A p \in DOMAIN sh : sh[p].t # "+" /\ sh[p].t # "-",
         turno' = turno, hst' = hst, envios' = envios
  PROVE  Aceptada'
<1>1. Actual' = Actual /\ Pedida' = Pedida
  BY Misma
<1>2. /\ sh \in Seq(Articulo) /\ hechas \in 0..3 /\ envios \in 0..3
      /\ DOMAIN sh = 1..Len(sh) /\ Len(sh) \in Nat
  BY DEF ETipado, ETypeOK
<1>3. PICK e \in Ecos : sh' = sh \o Acepta(Actual, e)
  BY DEF Contesta
<1>4. Actual \in Seq(Byte)
  <2>1. Pedida \in Seq(Byte)
    BY EnlaceAssumption DEF ETipado, ETypeOK, Pedida
  <2>2. SubSeq(Pedida, 4, Len(Pedida)) \in Seq(Byte)
    BY <2>1
  <2> QED
    BY <2>1, <2>2 DEF Actual, Contenido
<1> DEFINE s == Acepta(Actual, e)
           g == Len(sh) + 1
<1>5. /\ s \in Seq(Articulo) /\ Len(s) \in Nat /\ Len(s) > 1
      /\ s[1].t = "+" /\ s[Len(s)].t = "trama" /\ s[Len(s)].r = Actual /\ s[Len(s)].bien
      /\ \A p \in 2..Len(s) - 1 : s[p].t = "otro"
  BY <1>4, AceptaForma
<1>6. sh' = sh \o s
  BY <1>3
<1> HIDE DEF s
<1>7. /\ Len(sh') = Len(sh) + Len(s) /\ DOMAIN sh' = 1..Len(sh')
      /\ \A p \in 1..Len(sh) + Len(s) : sh'[p] = IF p <= Len(sh) THEN sh[p] ELSE s[p - Len(sh)]
  BY <1>2, <1>5, <1>6, ConcatProperties
<1>8. g \in 0..Len(sh') /\ g >= 1 /\ sh'[g].t = "+"
  BY <1>2, <1>5, <1>7
<1>9. ASSUME NEW p \in DOMAIN sh', p < g PROVE sh'[p].t \in {"trama", "otro"}
  <2>1. p \in DOMAIN sh /\ sh'[p] = sh[p]
    BY <1>2, <1>5, <1>7, <1>9
  <2>2. sh[p] \in Articulo
    BY <1>2, <2>1
  <2>3. sh[p].t \in {"+", "-", "otro", "trama"}
    BY <2>2, Zenon DEF Articulo
  <2> QED
    BY <2>1, <2>3
<1>10. ASSUME NEW p \in DOMAIN sh', p > g
       PROVE  sh'[p].t \in {"trama", "otro"} /\ (sh'[p].t = "trama" => sh'[p].r = Actual)
  <2>1. PICK q \in 2..Len(s) : q = p - Len(sh)
    BY <1>2, <1>5, <1>7, <1>10
  <2>2. sh'[p] = s[q]
    BY <1>2, <1>5, <1>7, <1>10, <2>1
  <2>3. CASE q = Len(s)
    BY <1>5, <2>2, <2>3
  <2>4. CASE q # Len(s)
    BY <1>5, <2>1, <2>2, <2>4
  <2> QED
    BY <2>3, <2>4
<1>11. \E p \in DOMAIN sh' : p > g /\ sh'[p].t = "trama" /\ sh'[p].bien
  <2>1. Len(sh') \in DOMAIN sh' /\ Len(sh') > g /\ sh'[Len(sh')] = s[Len(s)]
    BY <1>2, <1>5, <1>7
  <2> QED
    BY <1>5, <2>1
<1>12. PICK k \in 0..Len(sh') : k = g
  BY <1>8
<1>13. Tras_el_mas(k)'
  BY <1>1, <1>8, <1>9, <1>10, <1>11, <1>12 DEF Tras_el_mas
<1>14. /\ hechas' = hechas + 1 /\ gpc' = "ack" /\ respuesta' = Actual /\ buffer' = buffer
       /\ buffer[2] = DOSPUNTOS => ConSecuencia(Pedida)
  BY <1>2 DEF Contesta
<1>15. hechas' >= 1 /\ hechas' <= 2 /\ hechas' <= envios'
  BY <1>2, <1>14
<1>16. \E q \in 0..Len(sh') : Tras_el_mas(q)'
  BY <1>13
<1> QED
  BY <1>1, <1>14, <1>15, <1>16 DEF Aceptada

(* The three phases of a request, when the stub reads *)

\* The host has its answer.
LEMMA LibreLee == ASSUME ETipado, Lee, Libre PROVE Libre'
<1>1. turno' = turno /\ hst' = hst /\ envios' = envios
  BY LeeForma
<1>2. Actual' = Actual /\ Pedida' = Pedida
  BY <1>1, Misma
<1>3. /\ hst = "libre" /\ Sordo /\ hechas <= envios /\ hechas <= 2
      /\ \A p \in DOMAIN sh : sh[p].t \in {"trama", "otro"}
      /\ gpc = "ack" => respuesta = Actual
      /\ buffer[2] = DOSPUNTOS => ConSecuencia(Pedida)
  BY DEF Libre
<1>4. /\ Sordo' /\ buffer' = buffer /\ hechas' = hechas /\ respuesta' = respuesta
      /\ gpc' = "ack" => gpc = "ack"
      /\ sh' = sh \/ sh' = Append(sh, Respuesta(respuesta))
  BY <1>3, LeeSordo
<1>5. \A p \in DOMAIN sh' : sh'[p].t \in {"trama", "otro"}
  <2>1. CASE sh' = sh
    BY <1>3, <2>1
  <2>2. CASE sh' = Append(sh, Respuesta(respuesta))
    <3>1. /\ Len(sh) \in Nat /\ Len(sh') = Len(sh) + 1
          /\ DOMAIN sh = 1..Len(sh) /\ DOMAIN sh' = 1..Len(sh')
          /\ \A p \in 1..Len(sh) : sh'[p] = sh[p]
          /\ sh'[Len(sh) + 1].t = "trama"
      BY <2>2, UnaRespuestaMas DEF ETipado
    <3> SUFFICES ASSUME NEW p \in DOMAIN sh' PROVE sh'[p].t \in {"trama", "otro"}
      OBVIOUS
    <3>2. CASE p = Len(sh) + 1
      BY <3>1, <3>2
    <3>3. CASE p # Len(sh) + 1
      BY <1>3, <3>1, <3>3
    <3> QED
      BY <3>2, <3>3
  <2> QED
    BY <1>4, <2>1, <2>2
<1> QED
  BY <1>1, <1>2, <1>3, <1>4, <1>5 DEF Libre

\* The host waits for an answer that is on its way, or will be repeated.
LEMMA AceptadaLee == ASSUME ETipado, Lee, Aceptada PROVE Aceptada'
<1>1. turno' = turno /\ hst' = hst /\ envios' = envios /\ hs # <<>> /\ Head(hs) = hs[1]
  BY LeeForma
<1>2. Actual' = Actual /\ Pedida' = Pedida
  BY <1>1, Misma
<1>3. /\ hst \in {"ack", "respuesta", "insiste"} /\ Sordo
      /\ hechas >= 1 /\ hechas <= 2 /\ hechas <= envios
      /\ gpc = "ack" => respuesta = Actual
      /\ buffer[2] = DOSPUNTOS => ConSecuencia(Pedida)
  BY DEF Aceptada
<1>4. /\ Sordo' /\ buffer' = buffer /\ hechas' = hechas /\ respuesta' = respuesta
      /\ \/ gpc = "espera" /\ gpc' = "espera" /\ sh' = sh
         \/ gpc = "ack" /\ Head(hs) = MAS /\ gpc' = "espera" /\ sh' = sh
         \/ gpc = "ack" /\ Head(hs) # MAS /\ gpc' = "ack" /\ sh' = Append(sh, Respuesta(respuesta))
  BY <1>3, LeeSordo
<1>5. PICK g \in 0..Len(sh) : Tras_el_mas(g)
  BY DEF Aceptada
<1>6. CASE sh' = sh
  <2>1. ~(gpc = "ack" /\ Head(hs) # MAS) \/ sh = Append(sh, Respuesta(respuesta))
    BY <1>4, <1>6
  <2>2. sh # Append(sh, Respuesta(respuesta))
    <3>1. Len(Append(sh, Respuesta(respuesta))) = Len(sh) + 1 /\ Len(sh) \in Nat
      BY DEF ETipado
    <3>2. Len(sh) # Len(sh) + 1
      BY <3>1
    <3> QED
      BY <3>1, <3>2
  <2>3. Tras_el_mas(g)'
    BY <1>1, <1>2, <1>5, <1>6, <2>1, <2>2 DEF Tras_el_mas
  <2>4. \E q \in 0..Len(sh') : Tras_el_mas(q)'
    BY <1>6, <2>3
  <2> QED
    BY <1>1, <1>2, <1>3, <1>4, <2>4 DEF Aceptada
<1>7. CASE gpc = "ack" /\ sh' = Append(sh, Respuesta(respuesta))
  <2>1. /\ Len(sh) \in Nat /\ Len(sh') = Len(sh) + 1
        /\ DOMAIN sh = 1..Len(sh) /\ DOMAIN sh' = 1..Len(sh')
        /\ \A p \in 1..Len(sh) : sh'[p] = sh[p]
        /\ sh'[Len(sh) + 1].t = "trama" /\ sh'[Len(sh) + 1].r = respuesta
        /\ sh'[Len(sh) + 1].bien
    BY <1>7, UnaRespuestaMas DEF ETipado
  <2>2. respuesta = Actual /\ g \in 0..Len(sh')
    BY <1>3, <1>7, <2>1
  <2>3. (hst = "ack" <=> g >= 1) /\ (g >= 1 => sh'[g].t = "+")
    BY <1>5, <2>1 DEF Tras_el_mas
  <2>4. ASSUME NEW p \in DOMAIN sh', p < g PROVE sh'[p].t \in {"trama", "otro"}
    BY <1>5, <2>1, <2>4 DEF Tras_el_mas
  <2>5. ASSUME NEW p \in DOMAIN sh', p > g
        PROVE  sh'[p].t \in {"trama", "otro"} /\ (sh'[p].t = "trama" => sh'[p].r = Actual)
    <3>1. CASE p = Len(sh) + 1
      BY <2>1, <2>2, <3>1
    <3>2. CASE p # Len(sh) + 1
      BY <1>5, <2>1, <2>5, <3>2 DEF Tras_el_mas
    <3> QED
      BY <3>1, <3>2
  <2>6. \E p \in DOMAIN sh' : p > g /\ sh'[p].t = "trama" /\ sh'[p].bien
    <3>1. Len(sh) + 1 \in DOMAIN sh' /\ Len(sh) + 1 > g
      BY <2>1, <2>2
    <3> QED
      BY <2>1, <3>1
  <2>7. Tras_el_mas(g)'
    BY <1>1, <1>2, <2>3, <2>4, <2>5, <2>6 DEF Tras_el_mas
  <2>8. \E q \in 0..Len(sh') : Tras_el_mas(q)'
    BY <2>2, <2>7
  <2> QED
    BY <1>1, <1>2, <1>3, <1>4, <1>7, <2>8 DEF Aceptada
<1> QED
  BY <1>4, <1>6, <1>7

\* A request stays pending.
LEMMA PendienteBase ==
  ASSUME ETipado, Pendiente_base, Sin_menos, turno' = turno, hst' = hst, envios' = envios,
         hechas' = hechas, respuesta' = respuesta, gpc' = "ack" => gpc = "ack",
         N < 2 => buffer'[2] # DOSPUNTOS,
         sh' = sh \/ sh' = Append(sh, Respuesta(respuesta))
  PROVE  Pendiente_base' /\ Sin_menos'
<1>1. N' = N
  BY Misma
<1>2. gpc' = "ack" => Enviada'
  BY DEF Pendiente_base, Enviada
<1>3. \A p \in DOMAIN sh' : sh'[p].t # "+" /\ sh'[p].t # "-"
  <2>1. CASE sh' = sh
    BY <2>1 DEF Pendiente_base, Sin_menos
  <2>2. CASE sh' = Append(sh, Respuesta(respuesta))
    <3>1. /\ Len(sh) \in Nat /\ Len(sh') = Len(sh) + 1
          /\ DOMAIN sh = 1..Len(sh) /\ DOMAIN sh' = 1..Len(sh')
          /\ \A p \in 1..Len(sh) : sh'[p] = sh[p]
          /\ sh'[Len(sh) + 1].t = "trama"
      BY <2>2, UnaRespuestaMas DEF ETipado
    <3> SUFFICES ASSUME NEW p \in DOMAIN sh' PROVE sh'[p].t # "+" /\ sh'[p].t # "-"
      OBVIOUS
    <3>2. CASE p = Len(sh) + 1
      BY <3>1, <3>2
    <3>3. CASE p # Len(sh) + 1
      BY <3>1, <3>3 DEF Pendiente_base, Sin_menos
    <3> QED
      BY <3>2, <3>3
  <2> QED
    BY <2>1, <2>2
<1> QED
  BY <1>1, <1>2, <1>3 DEF Pendiente_base, Sin_menos

\* And does when the stub answers '-'.
LEMMA UnMenos ==
  ASSUME ETipado, Pendiente_base, turno' = turno, hst' = hst, envios' = envios,
         hechas' = hechas, gpc' = "espera", Sordo', sh' = <<Senal("-")>>,
         N < 2 => buffer'[2] # DOSPUNTOS
  PROVE  Pendiente'
<1>1. N' = N
  BY Misma
<1>2. Senal("-").t = "-"
  BY Zenon DEF Senal
<1>3. Len(sh') = 1 /\ DOMAIN sh' = {1} /\ sh'[1].t = "-"
  BY <1>2
<1>4. Pendiente_base'
  BY <1>1, <1>3 DEF Pendiente_base
<1> QED
  BY <1>3, <1>4 DEF Pendiente

\* A request is pending: it stays so, or the stub carries it out and answers.
LEMMA PendienteLee == ASSUME ETipado, Lee, Pendiente PROVE Pendiente' \/ Aceptada'
<1>1. /\ turno' = turno /\ hst' = hst /\ envios' = envios /\ hs # <<>> /\ hs \in Seq(Byte)
      /\ Trama_pedida
  BY LeeForma
<1>2. N' = N /\ N \in Nat
  BY <1>1, Misma DEF Trama_pedida
<1>3. /\ Pendiente_base /\ hst = "ack" /\ hechas <= 1 /\ (N < 2 => buffer[2] # DOSPUNTOS)
      /\ \A p \in DOMAIN sh : sh[p].t # "+"
  BY DEF Pendiente, Pendiente_base
<1>4. CASE Sordo /\ (Sin_menos \/ (gpc = "espera" /\ Len(sh) = 1))
  <2>1. /\ Sordo' /\ buffer' = buffer /\ hechas' = hechas /\ respuesta' = respuesta
        /\ \/ gpc = "espera" /\ gpc' = "espera" /\ sh' = sh
           \/ gpc = "ack" /\ Head(hs) = MAS /\ gpc' = "espera" /\ sh' = sh
           \/ gpc = "ack" /\ Head(hs) # MAS /\ gpc' = "ack" /\ sh' = Append(sh, Respuesta(respuesta))
    BY <1>4, LeeSordo
  <2>2. CASE Sin_menos
    <3>1. Pendiente_base' /\ Sin_menos'
      BY <1>1, <1>3, <2>1, <2>2, PendienteBase
    <3> QED
      BY <2>1, <3>1 DEF Pendiente
  <2>3. CASE gpc = "espera" /\ Len(sh) = 1
    <3>1. gpc' = "espera" /\ sh' = sh
      BY <2>1, <2>3
    <3>2. Pendiente_base'
      BY <1>1, <1>2, <1>3, <2>1, <3>1 DEF Pendiente_base
    <3> QED
      BY <2>1, <2>3, <3>1, <3>2 DEF Pendiente
  <2> QED
    BY <1>4, <2>2, <2>3
<1>5. CASE hechas < envios /\ Sin_menos /\ \E d \in 0..Len(hs) : Llega(d)
  <2>1. PICK d \in Nat : Llega(d)
    BY <1>1, <1>5
  <2>2. CASE gpc = "suma2"
    <3>1. Llega(0)
      BY <2>1, <2>2 DEF Llega
    <3>2. /\ Sordo' /\ sh = <<>>
          /\ \/ Contesta
             \/ /\ gpc' = "espera" /\ sh' = <<Senal("-")>>
                /\ buffer' = buffer /\ respuesta' = respuesta /\ hechas' = hechas
      BY <1>3, <2>2, <3>1, LeeTrasPerdida
    <3>3. CASE Contesta
      BY <1>1, <1>3, <1>5, <3>2, <3>3, ContestaAceptada DEF Sin_menos
    <3>4. CASE gpc' = "espera" /\ sh' = <<Senal("-")>> /\ buffer' = buffer /\ hechas' = hechas
      BY <1>1, <1>3, <3>2, <3>4, UnMenos
    <3> QED
      BY <3>2, <3>3, <3>4
  <2>3. CASE gpc # "suma2"
    <3>1. /\ buffer' = buffer /\ hechas' = hechas /\ respuesta' = respuesta
          /\ \/ d = 0 /\ Leyendo(1)' /\ sh' = sh
             \/ /\ d > 0 /\ \E k \in 0..Len(hs') : k = d - 1 /\ Llega(k)'
                /\ \/ gpc' = "espera" /\ sh' = sh
                   \/ /\ gpc = "ack" /\ Head(hs) # MAS /\ gpc' = "ack"
                      /\ sh' = Append(sh, Respuesta(respuesta))
      BY <2>1, <2>3, LeeLlega
    <3>2. hechas' < envios'
      BY <1>1, <1>5, <3>1
    <3>3. CASE d = 0 /\ Leyendo(1)' /\ sh' = sh
      <4>1. gpc' # "ack"
        BY <3>3 DEF Leyendo, Lugar
      <4>2. Pendiente_base' /\ Sin_menos'
        BY <1>1, <1>3, <1>5, <3>1, <3>3, <4>1, PendienteBase
      <4>3. \E m \in 1..N' + 3 : Leyendo(m)'
        BY <1>2, <3>3
      <4> QED
        BY <3>2, <4>2, <4>3 DEF Pendiente
    <3>4. CASE \E k \in 0..Len(hs') : Llega(k)'
      <4>1. /\ gpc' = "ack" => gpc = "ack"
            /\ sh' = sh \/ sh' = Append(sh, Respuesta(respuesta))
        <5>1. CASE d = 0 /\ Leyendo(1)' /\ sh' = sh
          BY <5>1 DEF Leyendo, Lugar
        <5> QED
          BY <3>1, <5>1
      <4>2. Pendiente_base' /\ Sin_menos'
        BY <1>1, <1>3, <1>5, <3>1, <4>1, PendienteBase
      <4> QED
        BY <3>2, <3>4, <4>2 DEF Pendiente
    <3> QED
      BY <3>1, <3>3, <3>4
  <2> QED
    BY <2>2, <2>3
<1>6. CASE hechas < envios /\ Sin_menos /\ \E m \in 1..N + 3 : Leyendo(m)
  <2>1. PICK m \in Nat : m >= 1 /\ m <= N + 3 /\ Leyendo(m)
    BY <1>2, <1>6
  <2>2. gpc \in {"datos", "suma1", "suma2"}
    BY <2>1 DEF Leyendo, Lugar
  <2>3. CASE gpc = "datos"
    <3>1. /\ respuesta' = respuesta /\ sh' = sh /\ hechas' = hechas
          /\ N < 2 /\ buffer[2] # DOSPUNTOS => buffer'[2] # DOSPUNTOS
          /\ (m <= N + 2 /\ Leyendo(m + 1)') \/ gpc' = "espera"
      BY <2>1, <2>3, LeyendoDato
    <3>2. gpc' # "ack"
      BY <3>1 DEF Leyendo, Lugar
    <3>3. Pendiente_base' /\ Sin_menos'
      BY <1>1, <1>3, <1>6, <3>1, <3>2, PendienteBase
    <3>4. CASE m <= N + 2 /\ Leyendo(m + 1)'
      <4>1. \E k \in 1..N' + 3 : Leyendo(k)'
        BY <1>2, <2>1, <3>4
      <4> QED
        BY <1>1, <1>6, <3>1, <3>3, <4>1 DEF Pendiente
    <3>5. CASE gpc' = "espera"
      <4>1. Sordo' \/ \E d \in 0..Len(hs') : Llega(d)'
        BY <2>1, <2>3, <3>5, Desborda
      <4> QED
        BY <1>1, <1>6, <3>1, <3>3, <4>1 DEF Pendiente
    <3> QED
      BY <3>1, <3>4, <3>5
  <2>4. CASE gpc = "suma1"
    <3>1. /\ respuesta' = respuesta /\ sh' = sh /\ hechas' = hechas /\ buffer' = buffer
          /\ m = N + 2 /\ Leyendo(m + 1)'
      BY <2>1, <2>4, LeyendoSuma
    <3>2. gpc' # "ack"
      BY <3>1 DEF Leyendo, Lugar
    <3>3. Pendiente_base' /\ Sin_menos'
      BY <1>1, <1>3, <1>6, <3>1, <3>2, PendienteBase
    <3>4. \E k \in 1..N' + 3 : Leyendo(k)'
      BY <1>2, <2>1, <3>1
    <3> QED
      BY <1>1, <1>6, <3>1, <3>3, <3>4 DEF Pendiente
  <2>5. CASE gpc = "suma2"
    <3>1. Contesta /\ Sordo'
      BY <1>3, <2>1, <2>5, LeyendoFin
    <3> QED
      BY <1>1, <1>3, <1>6, <3>1, ContestaAceptada DEF Sin_menos
  <2> QED
    BY <2>2, <2>3, <2>4, <2>5
<1>7. CASE hechas < envios /\ Sin_menos /\ \E m \in 1..N + 3 : Danada(m)
  <2>1. PICK m \in Nat : m >= 1 /\ m <= N + 3 /\ Danada(m)
    BY <1>2, <1>7
  <2>2. gpc \in {"datos", "suma1", "suma2"}
    BY <2>1 DEF Danada, Lugar
  <2>3. CASE gpc = "datos"
    <3>1. /\ respuesta' = respuesta /\ sh' = sh /\ hechas' = hechas
          /\ N < 2 /\ buffer[2] # DOSPUNTOS => buffer'[2] # DOSPUNTOS
          /\ (m <= N + 2 /\ Danada(m + 1)') \/ (gpc' = "espera" /\ Sordo')
      BY <2>1, <2>3, DanadaDato
    <3>2. gpc' # "ack"
      BY <3>1 DEF Danada, Lugar
    <3>3. Pendiente_base' /\ Sin_menos'
      BY <1>1, <1>3, <1>7, <3>1, <3>2, PendienteBase
    <3>4. CASE m <= N + 2 /\ Danada(m + 1)'
      <4>1. \E k \in 1..N' + 3 : Danada(k)'
        BY <1>2, <2>1, <3>4
      <4> QED
        BY <1>1, <1>7, <3>1, <3>3, <4>1 DEF Pendiente
    <3>5. CASE gpc' = "espera" /\ Sordo'
      BY <3>3, <3>5 DEF Pendiente
    <3> QED
      BY <3>1, <3>4, <3>5
  <2>4. CASE gpc = "suma1"
    <3>1. /\ respuesta' = respuesta /\ sh' = sh /\ hechas' = hechas /\ buffer' = buffer
          /\ m = N + 2 /\ Danada(m + 1)'
      BY <2>1, <2>4, DanadaSuma
    <3>2. gpc' # "ack"
      BY <3>1 DEF Danada, Lugar
    <3>3. Pendiente_base' /\ Sin_menos'
      BY <1>1, <1>3, <1>7, <3>1, <3>2, PendienteBase
    <3>4. \E k \in 1..N' + 3 : Danada(k)'
      BY <1>2, <2>1, <3>1
    <3> QED
      BY <1>1, <1>7, <3>1, <3>3, <3>4 DEF Pendiente
  <2>5. CASE gpc = "suma2"
    <3>1. /\ respuesta' = respuesta /\ sh' = <<Senal("-")>> /\ hechas' = hechas /\ buffer' = buffer
          /\ gpc' = "espera" /\ Sordo'
      BY <2>1, <2>5, DanadaFin
    <3> QED
      BY <1>1, <1>3, <3>1, UnMenos
  <2> QED
    BY <2>2, <2>3, <2>4, <2>5
<1>8. CASE hechas < envios /\ Sin_menos /\ Atascado
  <2>1. /\ respuesta' = respuesta /\ sh' = <<>> /\ hechas' = hechas
        /\ N < 2 => buffer'[2] # DOSPUNTOS
        /\ Atascado' \/ (gpc' = "espera" /\ Sordo')
    BY <1>3, <1>8, LeeAtascado
  <2>2. sh = <<>> /\ gpc' # "ack"
    BY <1>8, <2>1 DEF Atascado
  <2>3. Pendiente_base' /\ Sin_menos'
    BY <1>1, <1>3, <1>8, <2>1, <2>2, PendienteBase
  <2> QED
    BY <1>1, <1>8, <2>1, <2>3 DEF Pendiente
<1> QED
  BY <1>4, <1>5, <1>6, <1>7, <1>8 DEF Pendiente

(* The host: its request, and what it hears *)

\* The length of the next frame.
LEMMA TramaLarga == ASSUME Trama_pedida' PROVE LF' \in Nat /\ LF' >= 4
<1>1. N' \in Nat /\ LF' = N' + 4
  BY Zenon DEF Trama_pedida
<1>2. \A m \in Nat : m + 4 \in Nat /\ m + 4 >= 4
  OBVIOUS
<1> QED
  BY <1>1, <1>2, Zenon

\* The requests go round.
LEMMA Vuelta ==
  ASSUME ETipado, Pide
  PROVE  turno' \in 1..Len(Sesion) /\ Anterior(turno') = turno
<1> DEFINE L == Len(Sesion)
<1>1. L \in Nat /\ L > 0 /\ turno \in 1..L
  BY EnlaceAssumption, SesionAssumption DEF ETipado, ETypeOK
<1>2. turno' = 1 + (turno % L)
  BY DEF Pide
<1> HIDE DEF L
<1>3. CASE turno = L
  <2>1. turno % L = 0
    BY <1>1, <1>3
  <2> QED
    BY <1>1, <1>2, <1>3, <2>1 DEF Anterior, L
<1>4. CASE turno # L
  <2>1. turno % L = turno
    BY <1>1, <1>4
  <2> QED
    BY <1>1, <1>2, <1>4, <2>1 DEF Anterior, L
<1> QED
  BY <1>3, <1>4

\* The next request.
LEMMA LibrePide == ASSUME ETipado, Pide, Libre PROVE Pendiente'
<1>1. turno' \in 1..Len(Sesion) /\ Anterior(turno') = turno
  BY Vuelta
<1>2. (turno \in 1..Len(Sesion) => Trama_pedida)'
  BY PedidaForma, PTL
<1>3. Trama_pedida'
  BY <1>1, <1>2
<1>4. /\ hs \in Seq(Byte) /\ hs' = hs \o F' /\ gpc' = gpc /\ sh' = sh /\ buffer' = buffer
      /\ respuesta' = respuesta /\ hst' = "ack" /\ envios' = 1 /\ hechas' = 0
  BY DEF Pide, Manda, stub, F, Pedida, ETipado, ETypeOK
<1>5. gpc' = "ack" => Enviada'
  <2>1. turno \in DOMAIN Sesion
    BY EnlaceAssumption DEF ETipado, ETypeOK
  <2> QED
    BY <1>4, <2>1 DEF Libre, Enviada, Actual, Pedida
<1>6. N' < 2 => buffer'[2] # DOSPUNTOS
  <2>1. turno' \in DOMAIN Sesion
    BY <1>1, EnlaceAssumption
  <2>2. N' < 2 => ~ConSecuencia(Sesion[turno])
    BY <1>1, <2>1, SesionAssumption DEF N, Pedida
  <2> QED
    BY <1>4, <2>2 DEF Libre, Pedida
<1>7. Pendiente_base' /\ Sin_menos'
  <2>1. \A p \in DOMAIN sh' : sh'[p].t # "+" /\ sh'[p].t # "-"
    BY <1>4 DEF Libre
  <2>2. hst' = "ack" /\ hechas' <= 1 /\ hechas' <= envios' /\ envios' >= 1
    BY <1>4
  <2> QED
    BY <1>5, <1>6, <2>1, <2>2, Zenon DEF Pendiente_base, Sin_menos
<1>8. Sordo' \/ \E d \in 0..Len(hs) : d = Len(hs) /\ Llega(d)' /\ Len(hs') = d + LF'
  BY <1>3, <1>4, SordoTrama DEF Libre
<1>9. ASSUME NEW d \in 0..Len(hs), d = Len(hs), Llega(d)', Len(hs') = d + LF'
      PROVE  \E k \in 0..Len(hs') : Llega(k)'
  <2>1. LF' \in Nat
    BY <1>3, TramaLarga
  <2>2. d \in 0..Len(hs')
    BY <1>4, <1>9, <2>1
  <2> QED
    BY <1>9, <2>2
<1> QED
  BY <1>4, <1>7, <1>8, <1>9 DEF Pendiente

\* An item less on its way to the host.
LEMMA UnItemMenos ==
  ASSUME sh \in Seq(Articulo), sh # <<>>, sh' = Tail(sh)
  PROVE  /\ sh' \in Seq(Articulo) /\ Len(sh) \in Nat /\ Len(sh) >= 1 /\ Len(sh') = Len(sh) - 1
         /\ DOMAIN sh = 1..Len(sh) /\ DOMAIN sh' = 1..Len(sh')
         /\ Head(sh) = sh[1] /\ Head(sh).t \in {"+", "-", "otro", "trama"}
         /\ \A p \in 1..Len(sh') : sh'[p] = sh[p + 1]
<1>1. /\ Head(sh) = sh[1] /\ Head(sh) \in Articulo /\ Tail(sh) \in Seq(Articulo)
      /\ Len(Tail(sh)) = Len(sh) - 1 /\ \A p \in 1..Len(Tail(sh)) : Tail(sh)[p] = sh[p + 1]
  BY HeadTailProperties
<1>2. Len(sh) \in Nat /\ Len(sh) >= 1
  BY EmptySeq
<1>3. Head(sh).t \in {"+", "-", "otro", "trama"}
  BY <1>1, Zenon DEF Articulo
<1> QED
  BY <1>1, <1>2, <1>3

\* The host takes the first item that the stub has sent.
LEMMA OyeForma ==
  ASSUME ETipado, Oye
  PROVE  /\ sh \in Seq(Articulo) /\ sh # <<>> /\ sh' = Tail(sh)
         /\ gpc' = gpc /\ buffer' = buffer /\ count' = count /\ checksum' = checksum
         /\ xmitcsum' = xmitcsum /\ respuesta' = respuesta
         /\ turno' = turno /\ fallos' = fallos /\ hechas' = hechas
         /\ hs \in Seq(Byte) /\ Trama_pedida
         /\ \/ /\ sh[1].t = "+" /\ hst = "ack" /\ hst' = "respuesta"
               /\ hs' = hs /\ envios' = envios
            \/ sh[1].t = "-" /\ hst = "ack" /\ Repite
            \/ /\ sh[1].t = "trama" /\ hst # "libre"
               /\ hs' = hs \o <<IF sh[1].bien THEN MAS ELSE MENOS>>
               /\ hst' = IF sh[1].bien /\ hst \in {"respuesta", "insiste"} THEN "libre" ELSE hst
               /\ envios' = envios
            \/ /\ \/ sh[1].t = "otro"
                  \/ hst = "libre"
                  \/ sh[1].t \in {"+", "-"} /\ hst \in {"respuesta", "insiste"}
               /\ hs' = hs /\ hst' = hst /\ envios' = envios
<1>1. sh \in Seq(Articulo) /\ hs \in Seq(Byte) /\ turno \in 1..Len(Sesion)
  BY DEF ETipado, ETypeOK
<1>2. sh # <<>> /\ sh' = Tail(sh) /\ UNCHANGED <<stub, turno, fallos, hechas>>
  BY DEF Oye
<1>3. Head(sh) = sh[1]
  BY <1>1, <1>2, UnItemMenos
<1>4. Trama_pedida
  BY <1>1, PedidaForma
<1>5. \/ /\ sh[1].t = "+" /\ hst = "ack" /\ hst' = "respuesta"
         /\ hs' = hs /\ envios' = envios
      \/ sh[1].t = "-" /\ hst = "ack" /\ Repite
      \/ /\ sh[1].t = "trama" /\ hst # "libre"
         /\ hs' = hs \o <<IF sh[1].bien THEN MAS ELSE MENOS>>
         /\ hst' = IF sh[1].bien /\ hst \in {"respuesta", "insiste"} THEN "libre" ELSE hst
         /\ envios' = envios
      \/ /\ \/ sh[1].t = "otro"
            \/ hst = "libre"
            \/ sh[1].t \in {"+", "-"} /\ hst \in {"respuesta", "insiste"}
         /\ hs' = hs /\ hst' = hst /\ envios' = envios
  BY <1>3, Zenon DEF Oye, Manda
<1> QED
  BY <1>1, <1>2, <1>4, <1>5, Zenon DEF stub

\* The host has its answer, and drops what comes after.
LEMMA LibreOye == ASSUME ETipado, Oye, Libre PROVE Libre'
<1>1. /\ sh \in Seq(Articulo) /\ sh # <<>> /\ sh' = Tail(sh)
      /\ gpc' = gpc /\ buffer' = buffer /\ respuesta' = respuesta
      /\ turno' = turno /\ hechas' = hechas
  BY OyeForma
<1>2. /\ hst = "libre" /\ Sordo /\ hechas <= envios /\ hechas <= 2
      /\ \A p \in DOMAIN sh : sh[p].t \in {"trama", "otro"}
      /\ gpc = "ack" => respuesta = Actual
      /\ buffer[2] = DOSPUNTOS => ConSecuencia(Pedida)
  BY DEF Libre
<1>3. hs' = hs /\ hst' = hst /\ envios' = envios
  BY <1>2, OyeForma
<1>4. Actual' = Actual /\ Pedida' = Pedida
  BY <1>1, Misma
<1>5. ASSUME NEW p \in DOMAIN sh' PROVE sh'[p].t \in {"trama", "otro"}
  <2>1. p + 1 \in DOMAIN sh /\ sh'[p] = sh[p + 1]
    BY <1>1, UnItemMenos
  <2> QED
    BY <1>2, <2>1
<1>6. Sordo'
  BY <1>1, <1>2, <1>3 DEF Sordo
<1> QED
  BY <1>1, <1>2, <1>3, <1>4, <1>5, <1>6 DEF Libre

\* The host sends its request again to a stub that is not reading it.
LEMMA RepiteSordo ==
  ASSUME ETipado, Repite, Sordo, Pendiente_base, gpc' = gpc, buffer' = buffer,
         respuesta' = respuesta, turno' = turno, hechas' = hechas,
         \A p \in DOMAIN sh' : sh'[p].t # "+" /\ sh'[p].t # "-"
  PROVE  Pendiente'
<1>1. hs \in Seq(Byte) /\ turno \in 1..Len(Sesion) /\ hechas \in 0..3 /\ envios \in 0..3
  BY DEF ETipado, ETypeOK
<1>2. (turno \in 1..Len(Sesion) => Trama_pedida)'
  BY PedidaForma, PTL
<1>3. Trama_pedida'
  BY <1>1, <1>2
<1>4. N' = N /\ F' = F
  BY Misma
<1>5. hs' = hs \o F' /\ hst' = "ack" /\ envios' = IF envios = 3 THEN 3 ELSE envios + 1
  BY <1>4 DEF Repite, Manda, F, Pedida
<1>6. hechas' < envios' /\ envios' >= 1 /\ hechas' <= 1
  BY <1>1, <1>5 DEF Pendiente_base
<1>7. Sin_menos' /\ Pendiente_base'
  BY <1>1, <1>4, <1>5, <1>6 DEF Sin_menos, Pendiente_base, Enviada
<1>8. Sordo' \/ \E d \in 0..Len(hs) : d = Len(hs) /\ Llega(d)' /\ Len(hs') = d + LF'
  BY <1>1, <1>3, <1>5, SordoTrama
<1>9. ASSUME NEW d \in 0..Len(hs), d = Len(hs), Llega(d)', Len(hs') = d + LF'
      PROVE  \E k \in 0..Len(hs') : Llega(k)'
  <2>1. LF' \in Nat
    BY <1>3, TramaLarga
  <2>2. d \in 0..Len(hs')
    BY <1>1, <1>9, <2>1
  <2> QED
    BY <1>9, <2>2
<1> QED
  BY <1>6, <1>7, <1>8, <1>9 DEF Pendiente

\* Signs of the host behind what is on the line.
LEMMA FormasAnexa ==
  ASSUME ETipado, NEW s \in Seq(Byte), \A c \in 1..Len(s) : s[c] # DOLAR, hs' = hs \o s,
         gpc' = gpc, buffer' = buffer, count' = count, checksum' = checksum,
         xmitcsum' = xmitcsum, turno' = turno, sh # <<>>
  PROVE  /\ Sordo => Sordo'
         /\ (\E d \in 0..Len(hs) : Llega(d)) => \E d \in 0..Len(hs') : Llega(d)'
         /\ (\E m \in 1..N + 3 : Leyendo(m)) => \E m \in 1..N' + 3 : Leyendo(m)'
<1>1. hs \in Seq(Byte) /\ turno \in 1..Len(Sesion)
  BY DEF ETipado, ETypeOK
<1>2. Trama_pedida
  BY <1>1, PedidaForma
<1>3. N' = N /\ F' = F /\ LF' = LF /\ Pedida' = Pedida /\ N \in Nat /\ LF = N + 4
  BY <1>2, Misma DEF Trama_pedida
<1>4. Len(hs) \in Nat /\ Len(s) \in Nat /\ Len(hs') = Len(hs) + Len(s) /\ \A p \in 1..Len(hs) : hs'[p] = hs[p]
  BY <1>1, AlgoMas
<1>5. Sordo => Sordo'
  BY <1>1, SordoAnexa
<1>6. ASSUME NEW d \in 0..Len(hs), Llega(d) PROVE Llega(d)' /\ d \in 0..Len(hs')
  <2>1. Viene(d) /\ Marcas(d) /\ d \in Int /\ d >= 0
    BY <1>4, <1>6 DEF Llega
  <2>2. Viene(d)' /\ Marcas(d)'
    BY <1>1, <1>2, <2>1, VieneAnexa, MarcasAnexa
  <2>3. gpc = "espera" \/ (gpc = "ack" /\ \E q \in 1..d : hs[q] = MAS) \/ (gpc = "datos" /\ d = 0)
    BY <1>6 DEF Llega
  <2>4. (\E q \in 1..d : hs[q] = MAS) => \E q \in 1..d : hs'[q] = MAS
    BY <1>4
  <2>5. d \in 0..Len(hs')
    BY <1>4
  <2> QED
    BY <2>1, <2>2, <2>3, <2>4, <2>5 DEF Llega
<1>7. ASSUME NEW m \in 1..N + 3, Leyendo(m) PROVE Leyendo(m)'
  <2>1. PICK d \in Int : d = -m
    BY <1>3
  <2>2. Viene(d) /\ Marcas(d)
    BY <1>7, <2>1 DEF Leyendo
  <2>3. Viene(d)' /\ Marcas(d)'
    BY <1>1, <1>2, <2>2, VieneAnexa, MarcasAnexa
  <2>4. Viene(-m)' /\ Marcas(-m)'
    BY <2>1, <2>3
  <2>5. gpc' = Lugar(m)' /\ Prefijo(m - 1)' = Prefijo(m - 1)
    BY <1>3, <1>7 DEF Leyendo, Lugar, Prefijo
  <2>6. gpc' # "datos" => Copia_entera'
    BY <1>3, <1>7 DEF Leyendo, Copia_entera
  <2>7. gpc' = "suma2" => Suma_media'
    BY <1>3, <1>7 DEF Leyendo, Suma_media
  <2>8. gpc' = "datos" => count' = m - 1 /\ \A c \in 1..m - 1 : buffer'[c - 1] = Pedida'[c]
    BY <1>3, <1>7 DEF Leyendo
  <2>9. checksum' = Suma(Pedida', Prefijo(m - 1)')
    BY <1>3, <1>7, <2>5 DEF Leyendo
  <2> QED
    BY <2>4, <2>5, <2>6, <2>7, <2>8, <2>9 DEF Leyendo
<1> QED
  BY <1>3, <1>5, <1>6, <1>7

\* The request is pending: a '-' has the host repeat it, and a reply is that
\* of an earlier one.
LEMMA PendienteOye == ASSUME ETipado, Oye, Pendiente PROVE Pendiente'
<1>1. /\ sh \in Seq(Articulo) /\ sh # <<>> /\ sh' = Tail(sh)
      /\ gpc' = gpc /\ buffer' = buffer /\ count' = count /\ checksum' = checksum
      /\ xmitcsum' = xmitcsum /\ respuesta' = respuesta
      /\ turno' = turno /\ hechas' = hechas
      /\ hs \in Seq(Byte) /\ Trama_pedida
  BY OyeForma
<1>2. /\ Len(sh) \in Nat /\ Len(sh) >= 1 /\ Len(sh') = Len(sh) - 1
      /\ DOMAIN sh = 1..Len(sh) /\ DOMAIN sh' = 1..Len(sh')
      /\ \A p \in 1..Len(sh') : sh'[p] = sh[p + 1]
  BY <1>1, UnItemMenos
<1>3. Pendiente_base /\ hst = "ack" /\ \A p \in DOMAIN sh : sh[p].t # "+"
  BY DEF Pendiente, Pendiente_base
<1>4. N' = N
  BY <1>1, Misma
<1>5. Sin_menos \/ Len(sh) = 1
  BY DEF Pendiente
<1>6. \A p \in DOMAIN sh' : sh'[p].t # "+" /\ sh'[p].t # "-"
  <2> SUFFICES ASSUME NEW p \in DOMAIN sh' PROVE sh'[p].t # "+" /\ sh'[p].t # "-"
    OBVIOUS
  <2>1. p + 1 \in DOMAIN sh /\ sh'[p] = sh[p + 1] /\ Len(sh) # 1
    BY <1>2
  <2> QED
    BY <1>3, <1>5, <2>1 DEF Sin_menos
<1>7. CASE sh[1].t = "-"
  <2>1. Repite
    BY <1>3, <1>7, OyeForma
  <2>2. ~Sin_menos
    BY <1>2, <1>7 DEF Sin_menos
  <2>3. Sordo
    BY <2>2 DEF Pendiente
  <2> QED
    BY <1>1, <1>3, <1>6, <2>1, <2>3, RepiteSordo
<1>8. CASE sh[1].t # "-"
  <2>1. sh[1].t # "+"
    BY <1>2, <1>3
  <2>2. /\ hst' = hst /\ envios' = envios
        /\ hs' = hs \/ hs' = hs \o <<MAS>> \/ hs' = hs \o <<MENOS>>
    BY <1>3, <1>8, <2>1, OyeForma
  <2>3. \E s \in Seq(Byte) : hs' = hs \o s /\ \A c \in 1..Len(s) : s[c] # DOLAR
    <3>1. MAS \in Byte /\ MENOS \in Byte /\ MAS # DOLAR /\ MENOS # DOLAR
      BY EnlaceAssumption, Signos
    <3>2. CASE hs' = hs
      <4>1. <<>> \in Seq(Byte) /\ hs \o <<>> = hs
        BY <1>1
      <4>2. \A c \in 1..Len(<<>>) : <<>>[c] # DOLAR
        OBVIOUS
      <4>3. hs' = hs \o <<>>
        BY <3>2, <4>1
      <4> QED
        BY <4>1, <4>2, <4>3, Zenon
    <3>3. CASE hs' = hs \o <<MAS>>
      <4>1. <<MAS>> \in Seq(Byte) /\ \A c \in 1..Len(<<MAS>>) : <<MAS>>[c] # DOLAR
        BY <3>1
      <4> QED
        BY <3>3, <4>1
    <3>4. CASE hs' = hs \o <<MENOS>>
      <4>1. <<MENOS>> \in Seq(Byte) /\ \A c \in 1..Len(<<MENOS>>) : <<MENOS>>[c] # DOLAR
        BY <3>1
      <4> QED
        BY <3>4, <4>1
    <3> QED
      BY <2>2, <3>2, <3>3, <3>4
  <2>4. /\ Sordo => Sordo'
        /\ (\E d \in 0..Len(hs) : Llega(d)) => \E d \in 0..Len(hs') : Llega(d)'
        /\ (\E m \in 1..N + 3 : Leyendo(m)) => \E m \in 1..N' + 3 : Leyendo(m)'
    BY <1>1, <2>3, FormasAnexa
  <2>5. Pendiente_base' /\ Sin_menos'
    <3>1. gpc' = "ack" => Enviada'
      BY <1>1, <1>3 DEF Pendiente_base, Enviada
    <3> QED
      BY <1>1, <1>3, <1>4, <1>6, <2>2, <3>1 DEF Pendiente_base, Sin_menos
  <2>6. ~Atascado /\ ~\E m \in 1..N + 3 : Danada(m)
    BY <1>1 DEF Atascado, Danada
  <2>7. \/ Sordo
        \/ hechas < envios /\ \/ \E d \in 0..Len(hs) : Llega(d)
                              \/ \E m \in 1..N + 3 : Leyendo(m)
    BY <2>6 DEF Pendiente
  <2> QED
    BY <1>1, <2>2, <2>4, <2>5, <2>7 DEF Pendiente
<1> QED
  BY <1>7, <1>8

\* The request is pending and nothing comes: the host repeats it.
LEMMA PendienteVence == ASSUME ETipado, hs = <<>>, sh = <<>>, Vence, Pendiente PROVE Pendiente'
<1>1. Pendiente_base /\ hst = "ack"
  BY DEF Pendiente, Pendiente_base
<1>2. Repite /\ UNCHANGED <<stub, sh, turno, hechas>>
  BY <1>1 DEF Vence
<1>3. /\ gpc' = gpc /\ buffer' = buffer /\ count' = count /\ checksum' = checksum
      /\ xmitcsum' = xmitcsum /\ respuesta' = respuesta
      /\ turno' = turno /\ hechas' = hechas /\ sh' = <<>>
  BY <1>2 DEF stub
<1>4. \A p \in DOMAIN sh' : sh'[p].t # "+" /\ sh'[p].t # "-"
  BY <1>3
<1>5. hs \in Seq(Byte) /\ turno \in 1..Len(Sesion) /\ Len(hs) = 0 /\ hechas \in 0..3 /\ envios \in 0..3
  BY DEF ETipado, ETypeOK
<1>6. Trama_pedida
  BY <1>5, PedidaForma
<1>7. N' = N /\ F' = F /\ LF' = LF /\ Pedida' = Pedida /\ N \in Nat /\ LF = N + 4 /\ Trama_pedida'
  BY <1>3, <1>6, Misma DEF Trama_pedida
<1>8. CASE Sordo
  BY <1>1, <1>2, <1>3, <1>4, <1>8, RepiteSordo
<1>9. CASE ~Sordo
  <2>1. ~\E d \in 0..Len(hs) : Llega(d)
    <3> SUFFICES ASSUME NEW d \in 0..Len(hs), Llega(d) PROVE FALSE
      OBVIOUS
    <3>1. d = 0 /\ d + LF <= 0
      BY <1>5 DEF Llega, Viene
    <3> QED
      BY <1>7, <3>1
  <2>2. ~\E m \in 1..N + 3 : Leyendo(m) \/ Danada(m)
    <3> SUFFICES ASSUME NEW m \in 1..N + 3, Leyendo(m) \/ Danada(m) PROVE FALSE
      OBVIOUS
    <3>1. 1 <= (-m) + LF /\ (-m) + LF <= 0
      BY <1>5 DEF Leyendo, Danada, Viene
    <3> QED
      BY <1>7, <3>1
  <2>3. Atascado
    BY <1>9, <2>1, <2>2 DEF Pendiente
  <2>4. gpc = "datos" \/ (gpc = "suma2" /\ Copia_entera)
    BY <1>5, <2>3 DEF Atascado
  <2>5. hs' = hs \o F' /\ hst' = "ack" /\ envios' = IF envios = 3 THEN 3 ELSE envios + 1
    BY <1>2, <1>7 DEF Repite, Manda, F, Pedida
  <2>6. PICK d \in Int : d = 0
    OBVIOUS
  <2>7. /\ Viene(d)' /\ Len(hs') = d + LF'
        /\ \A p \in DOMAIN hs' : p > d => (hs'[p] = DOLAR <=> p = d + 1)
    BY <1>5, <1>7, <2>5, <2>6, VieneNueva
  <2>8. Marcas(d)'
    <3>1. hs' \in Seq(Byte) /\ DOMAIN hs' = 1..Len(hs')
      BY <1>5, <1>7, <2>5, AlgoMas DEF Trama_pedida
    <3> QED
      BY <2>6, <2>7, <3>1 DEF Marcas
  <2>9. Llega(d)'
    <3>1. Copia_entera => Copia_entera'
      BY <1>3, <1>7 DEF Copia_entera
    <3>2. d >= 0 /\ Len(hs') = LF'
      BY <1>7, <2>6, <2>7
    <3>3. gpc' = "datos" \/ (gpc' = "suma2" /\ Copia_entera')
      BY <1>3, <2>4, <3>1
    <3> QED
      BY <1>3, <2>6, <2>7, <2>8, <3>2, <3>3, Zenon DEF Llega
  <2>10. hechas' < envios' /\ hechas' <= envios' /\ envios' >= 1 /\ hechas' <= 1
    BY <1>1, <1>3, <1>5, <2>5 DEF Pendiente_base
  <2>11. Pendiente_base' /\ Sin_menos'
    <3>1. gpc' # "ack"
      BY <1>3, <2>4
    <3>2. N' < 2 => buffer'[2] # DOSPUNTOS
      BY <1>1, <1>3, <1>7 DEF Pendiente_base
    <3> QED
      BY <1>4, <2>5, <2>10, <3>1, <3>2, Zenon DEF Sin_menos, Pendiente_base
  <2>12. \E k \in 0..Len(hs') : Llega(k)'
    <3>1. d \in 0..Len(hs')
      BY <1>7, <2>6, <2>7
    <3> QED
      BY <2>9, <3>1
  <2> QED
    BY <2>10, <2>11, <2>12 DEF Pendiente
<1> QED
  BY <1>8, <1>9

\* The items of the acknowledgement and of the reply, one less.
LEMMA AceptadaOye == ASSUME ETipado, Oye, Aceptada PROVE Aceptada' \/ Libre'
<1>1. /\ sh \in Seq(Articulo) /\ sh # <<>> /\ sh' = Tail(sh)
      /\ gpc' = gpc /\ buffer' = buffer /\ respuesta' = respuesta
      /\ turno' = turno /\ hechas' = hechas
      /\ hs \in Seq(Byte) /\ Trama_pedida
  BY OyeForma
<1>2. /\ Len(sh) \in Nat /\ Len(sh) >= 1 /\ Len(sh') = Len(sh) - 1
      /\ DOMAIN sh = 1..Len(sh) /\ DOMAIN sh' = 1..Len(sh')
      /\ \A p \in 1..Len(sh') : sh'[p] = sh[p + 1]
  BY <1>1, UnItemMenos
<1>3. /\ hst \in {"ack", "respuesta", "insiste"} /\ Sordo
      /\ hechas >= 1 /\ hechas <= 2 /\ hechas <= envios
      /\ gpc = "ack" => respuesta = Actual
      /\ buffer[2] = DOSPUNTOS => ConSecuencia(Pedida)
  BY DEF Aceptada
<1>4. Actual' = Actual /\ Pedida' = Pedida
  BY <1>1, Misma
<1>5. PICK g \in 0..Len(sh) : Tras_el_mas(g)
  BY DEF Aceptada
<1>6. /\ hst = "ack" <=> g >= 1
      /\ g >= 1 => sh[g].t = "+"
      /\ \A p \in 1..Len(sh) : p < g => sh[p].t \in {"trama", "otro"}
      /\ \A p \in 1..Len(sh) : p > g => /\ sh[p].t \in {"trama", "otro"}
                                        /\ sh[p].t = "trama" => sh[p].r = Actual
      /\ \/ \E p \in 1..Len(sh) : p > g /\ sh[p].t = "trama" /\ sh[p].bien
         \/ gpc = "ack" /\ hs # <<>> /\ hs[1] # MAS
         \/ gpc = "ack" /\ hs = <<>> /\ hst = "respuesta"
  BY <1>2, <1>5 DEF Tras_el_mas
<1>7. MAS \in Byte /\ MENOS \in Byte /\ MAS # DOLAR /\ MENOS # DOLAR /\ MENOS # MAS
  BY EnlaceAssumption, Signos
\* A sign to the stub is not read as a frame.
<1>8. ASSUME NEW x \in {MAS, MENOS}, hs' = hs \o <<x>>
      PROVE  /\ Sordo' /\ hs' # <<>>
             /\ hs # <<>> => hs'[1] = hs[1]
             /\ hs = <<>> => hs'[1] = x
  <2>1. <<x>> \in Seq(Byte) /\ Len(<<x>>) = 1 /\ <<x>>[1] = x /\ \A c \in 1..Len(<<x>>) : <<x>>[c] # DOLAR
    BY <1>7
  <2>2. Sordo'
    BY <1>1, <1>3, <1>8, <2>1, SordoAnexa
  <2>3. /\ Len(hs) \in Nat /\ Len(hs') = Len(hs) + 1 /\ hs' \in Seq(Byte)
        /\ \A p \in 1..Len(hs) : hs'[p] = hs[p]
        /\ \A p \in 1..Len(hs') : p > Len(hs) => hs'[p] = <<x>>[p - Len(hs)]
    BY <1>1, <1>8, <2>1, AlgoMas
  <2>4. hs' # <<>>
    BY <2>3
  <2>5. ASSUME hs # <<>> PROVE hs'[1] = hs[1]
    <3>1. Len(hs) >= 1
      BY <1>1, <2>5, EmptySeq
    <3> QED
      BY <2>3, <3>1
  <2>6. ASSUME hs = <<>> PROVE hs'[1] = x
    <3>1. Len(hs) = 0
      BY <2>6
    <3> QED
      BY <2>1, <2>3, <3>1
  <2> QED
    BY <2>2, <2>4, <2>5, <2>6
<1>9. CASE g = 1
  <2>1. sh[1].t = "+" /\ hst = "ack"
    BY <1>6, <1>9
  <2>2. hst' = "respuesta" /\ hs' = hs /\ envios' = envios
    BY <2>1, OyeForma
  <2>3. Sordo'
    BY <1>1, <1>3, <2>2 DEF Sordo
  <2>4. ASSUME NEW p \in DOMAIN sh'
        PROVE  sh'[p].t \in {"trama", "otro"} /\ (sh'[p].t = "trama" => sh'[p].r = Actual)
    <3>1. p + 1 \in 1..Len(sh) /\ p + 1 > g /\ sh'[p] = sh[p + 1] /\ p > 0 /\ ~(p < 0)
      BY <1>2, <1>9
    <3> QED
      BY <1>6, <3>1
  <2>5. \/ \E p \in DOMAIN sh' : p > 0 /\ sh'[p].t = "trama" /\ sh'[p].bien
        \/ gpc' = "ack" /\ hs' # <<>> /\ hs'[1] # MAS
        \/ gpc' = "ack" /\ hs' = <<>> /\ hst' = "respuesta"
    <3>1. CASE \E p \in 1..Len(sh) : p > g /\ sh[p].t = "trama" /\ sh[p].bien
      <4>1. PICK p \in 1..Len(sh) : p > g /\ sh[p].t = "trama" /\ sh[p].bien
        BY <3>1
      <4>2. p - 1 \in DOMAIN sh' /\ p - 1 > 0 /\ sh'[p - 1] = sh[p]
        BY <1>2, <1>9, <4>1
      <4> QED
        BY <4>1, <4>2
    <3>2. CASE gpc = "ack" /\ hs # <<>> /\ hs[1] # MAS
      BY <1>1, <2>2, <3>2
    <3> QED
      BY <1>6, <2>1, <3>1, <3>2
  <2>6. Tras_el_mas(0)'
    <3>1. \A p \in DOMAIN sh' : p > 0 /\ ~(p < 0)
      BY <1>2
    <3> QED
      BY <1>4, <2>2, <2>4, <2>5, <3>1 DEF Tras_el_mas
  <2>7. \E q \in 0..Len(sh') : Tras_el_mas(q)'
    <3>1. 0 \in 0..Len(sh')
      BY <1>2
    <3> QED
      BY <2>6, <3>1
  <2> QED
    BY <1>1, <1>3, <1>4, <2>2, <2>3, <2>7 DEF Aceptada
<1>10. CASE g > 1
  <2>1. hst = "ack" /\ sh[1].t \in {"trama", "otro"}
    BY <1>2, <1>6, <1>10
  <2>2. /\ hst' = hst /\ envios' = envios
        /\ hs' = hs \/ \E x \in {MAS, MENOS} : hs' = hs \o <<x>>
    BY <2>1, OyeForma
  <2>3. Sordo' /\ (hs # <<>> => hs' # <<>> /\ hs'[1] = hs[1])
    <3>1. CASE hs' = hs
      BY <1>1, <1>3, <3>1 DEF Sordo
    <3> QED
      BY <1>8, <2>2, <3>1
  <2>4. PICK k \in 0..Len(sh') : k = g - 1
    BY <1>2, <1>10
  <2>5. k >= 1 /\ sh'[k].t = "+"
    <3>1. k \in 1..Len(sh') /\ k + 1 = g
      BY <1>2, <1>10, <2>4
    <3>2. sh'[k] = sh[g]
      BY <1>2, <3>1
    <3> QED
      BY <1>6, <1>10, <3>1, <3>2
  <2>6. ASSUME NEW p \in DOMAIN sh'
        PROVE  /\ p < k => sh'[p].t \in {"trama", "otro"}
               /\ p > k => /\ sh'[p].t \in {"trama", "otro"}
                           /\ sh'[p].t = "trama" => sh'[p].r = Actual
    <3>1. p + 1 \in 1..Len(sh) /\ (p + 1 > g <=> p > k) /\ (p + 1 < g <=> p < k) /\ sh'[p] = sh[p + 1]
      BY <1>2, <2>4
    <3> QED
      BY <1>6, <3>1
  <2>7. \/ \E p \in DOMAIN sh' : p > k /\ sh'[p].t = "trama" /\ sh'[p].bien
        \/ gpc' = "ack" /\ hs' # <<>> /\ hs'[1] # MAS
    <3>1. CASE \E p \in 1..Len(sh) : p > g /\ sh[p].t = "trama" /\ sh[p].bien
      <4>1. PICK p \in 1..Len(sh) : p > g /\ sh[p].t = "trama" /\ sh[p].bien
        BY <3>1
      <4>2. p - 1 \in DOMAIN sh' /\ p - 1 > k /\ sh'[p - 1] = sh[p]
        BY <1>2, <1>10, <2>4, <4>1
      <4> QED
        BY <4>1, <4>2
    <3>2. CASE gpc = "ack" /\ hs # <<>> /\ hs[1] # MAS
      BY <1>1, <2>3, <3>2
    <3> QED
      BY <1>6, <2>1, <3>1, <3>2
  <2>8. Tras_el_mas(k)'
    BY <1>4, <2>1, <2>2, <2>5, <2>6, <2>7 DEF Tras_el_mas
  <2>9. \E q \in 0..Len(sh') : Tras_el_mas(q)'
    BY <2>8
  <2> QED
    BY <1>1, <1>3, <1>4, <2>2, <2>3, <2>9 DEF Aceptada
<1>11. CASE g = 0
  <2>1. hst \in {"respuesta", "insiste"} /\ hst # "ack" /\ sh[1].t \in {"trama", "otro"}
        /\ (sh[1].t = "trama" => sh[1].r = Actual)
    BY <1>2, <1>3, <1>6, <1>11
  <2>2. ASSUME NEW p \in DOMAIN sh'
        PROVE  sh'[p].t \in {"trama", "otro"} /\ (sh'[p].t = "trama" => sh'[p].r = Actual)
    <3>1. p + 1 \in 1..Len(sh) /\ p + 1 > g /\ sh'[p] = sh[p + 1]
      BY <1>2, <1>11
    <3> QED
      BY <1>6, <3>1
  <2>3. CASE sh[1].t = "trama" /\ sh[1].bien
    <3>1. hst' = "libre" /\ hs' = hs \o <<MAS>> /\ envios' = envios
      BY <2>1, <2>3, OyeForma
    <3>2. Sordo'
      BY <1>8, <3>1
    <3> QED
      BY <1>1, <1>3, <1>4, <2>2, <3>1, <3>2 DEF Libre
  <2>4. CASE ~(sh[1].t = "trama" /\ sh[1].bien)
    <3>1. /\ hst' = hst /\ envios' = envios
          /\ hs' = hs \/ hs' = hs \o <<MENOS>>
      BY <2>1, <2>4, OyeForma
    <3>2. Sordo'
      <4>1. CASE hs' = hs
        BY <1>1, <1>3, <4>1 DEF Sordo
      <4> QED
        BY <1>8, <3>1, <4>1
    <3>3. \/ \E p \in DOMAIN sh' : p > 0 /\ sh'[p].t = "trama" /\ sh'[p].bien
          \/ gpc' = "ack" /\ hs' # <<>> /\ hs'[1] # MAS
          \/ gpc' = "ack" /\ hs' = <<>> /\ hst' = "respuesta"
      <4>1. CASE \E p \in 1..Len(sh) : p > g /\ sh[p].t = "trama" /\ sh[p].bien
        <5>1. PICK p \in 1..Len(sh) : p > g /\ sh[p].t = "trama" /\ sh[p].bien
          BY <4>1
        <5>2. p # 1
          BY <2>4, <5>1
        <5>3. p - 1 \in DOMAIN sh' /\ p - 1 > 0 /\ sh'[p - 1] = sh[p]
          BY <1>2, <5>1, <5>2
        <5> QED
          BY <5>1, <5>3
      <4>2. CASE gpc = "ack" /\ hs # <<>> /\ hs[1] # MAS
        BY <1>1, <1>8, <3>1, <4>2
      <4>3. CASE gpc = "ack" /\ hs = <<>> /\ hst = "respuesta"
        BY <1>1, <1>7, <1>8, <3>1, <4>3
      <4> QED
        BY <1>6, <4>1, <4>2, <4>3
    <3>4. Tras_el_mas(0)'
      <4>1. \A p \in DOMAIN sh' : p > 0 /\ ~(p < 0)
        BY <1>2
      <4> QED
        BY <1>4, <2>1, <2>2, <3>1, <3>3, <4>1 DEF Tras_el_mas
    <3>5. \E q \in 0..Len(sh') : Tras_el_mas(q)'
      <4>1. 0 \in 0..Len(sh')
        BY <1>2
      <4> QED
        BY <3>4, <4>1
    <3> QED
      BY <1>1, <1>3, <1>4, <3>1, <3>2, <3>5 DEF Aceptada
  <2> QED
    BY <2>3, <2>4
<1> QED
  BY <1>2, <1>9, <1>10, <1>11

\* The host waits for a reply that it got damaged: it asks for it again.
LEMMA AceptadaVence ==
  ASSUME ETipado, hs = <<>>, sh = <<>>, Vence, Aceptada
  PROVE  Aceptada'
<1>1. PICK g \in 0..Len(sh) : Tras_el_mas(g)
  BY DEF Aceptada
<1>2. Len(sh) = 0 /\ DOMAIN sh = {} /\ g = 0
  BY <1>1
<1>3. gpc = "ack" /\ hst = "respuesta"
  BY <1>1, <1>2 DEF Tras_el_mas
<1>4. hs' = hs \o <<MENOS>> /\ hst' = "insiste" /\ envios' = envios
      /\ UNCHANGED <<stub, sh, turno, hechas>>
  BY <1>3 DEF Vence, Manda
<1>5. Actual' = Actual /\ Pedida' = Pedida
  BY <1>4, Misma
<1>6. MENOS \in Byte /\ MENOS # DOLAR /\ MENOS # MAS
  BY EnlaceAssumption, Signos
<1>7. hs' = <<MENOS>>
  BY <1>4, <1>6
<1>8. hs' # <<>> /\ hs'[1] = MENOS /\ DOMAIN hs' = {1}
  BY <1>7
<1>9. Sordo'
  BY <1>3, <1>4, <1>6, <1>8 DEF Sordo, stub
<1>10. Tras_el_mas(0)'
  BY <1>2, <1>3, <1>4, <1>6, <1>8 DEF Tras_el_mas, stub
<1>11. \E q \in 0..Len(sh') : Tras_el_mas(q)'
  BY <1>2, <1>4, <1>10
<1> QED
  BY <1>4, <1>5, <1>9, <1>11 DEF Aceptada, stub

(* While nothing has failed *)

\* The stub takes the '+' of the host.
LEMMA LibreLimpiaLee == ASSUME ETipado, Lee, Libre_limpia PROVE Libre_limpia'
<1>1. turno' = turno /\ hst' = hst /\ envios' = envios /\ hs # <<>> /\ hs' = Tail(hs)
      /\ hs \in Seq(Byte) /\ Head(hs) = hs[1]
  BY LeeForma
<1>2. gpc = "ack" /\ hs = <<MAS>> /\ respuesta = Actual
  BY <1>1 DEF Libre_limpia
<1>3. Pedida' = Pedida
  BY <1>1, Misma
<1>4. Head(hs) = MAS /\ hs' = <<>> /\ DOMAIN hs = {1}
  <2>1. Len(hs) = 1 /\ Len(hs') = Len(hs) - 1 /\ hs' \in Seq(Byte)
    BY <1>1, <1>2, UnoMenos
  <2> QED
    BY <1>1, <1>2, <2>1, EmptySeq
<1>5. Sordo
  BY <1>1, <1>2, <1>4, Signos DEF Sordo
<1>6. /\ buffer' = buffer /\ hechas' = hechas /\ gpc' = "espera" /\ sh' = sh
  BY <1>2, <1>4, <1>5, LeeSordo
<1> QED
  BY <1>1, <1>3, <1>4, <1>6 DEF Libre_limpia

\* The next request, on an empty line or behind the '+' for the reply.
LEMMA LibreLimpiaPide == ASSUME ETipado, Pide, Libre_limpia PROVE Pendiente_limpia'
<1>1. MAS # DOLAR /\ MAS \in Byte /\ hs \in Seq(Byte)
  BY Signos, EnlaceAssumption DEF ETipado, ETypeOK
<1>2. Sordo
  <2>1. gpc \in {"espera", "ack"} /\ \A p \in DOMAIN hs : hs[p] # DOLAR
    BY <1>1 DEF Libre_limpia
  <2> QED
    BY <2>1 DEF Sordo
<1>3. hst = "libre" /\ sh = <<>> /\ hechas <= 1 /\ hechas <= envios
      /\ (gpc = "ack" => respuesta = Actual)
      /\ (buffer[2] = DOSPUNTOS => ConSecuencia(Pedida))
  BY DEF Libre_limpia
<1>4. Libre
  <2>1. \A p \in DOMAIN sh : FALSE
    BY <1>3
  <2>2. hechas <= 2
    BY <1>3 DEF ETipado, ETypeOK
  <2> QED
    BY <1>2, <1>3, <2>1, <2>2, Zenon DEF Libre
<1>5. Pendiente'
  BY <1>4, LibrePide
<1>6. Pendiente_base'
  BY <1>5 DEF Pendiente
<1>7. turno' \in 1..Len(Sesion)
  BY Vuelta
<1>8. (turno \in 1..Len(Sesion) => Trama_pedida)'
  BY PedidaForma, PTL
<1>9. Trama_pedida' /\ LF' \in Nat /\ LF' >= 4
  BY <1>7, <1>8, TramaLarga
<1>10. hs' = hs \o F' /\ gpc' = gpc /\ sh' = sh /\ hechas' = 0
  BY DEF Pide, Manda, stub, F, Pedida
<1>11. CASE gpc = "espera" /\ hs = <<>>
  <2>1. Len(hs) = 0
    BY <1>11
  <2>2. Sordo' \/ \E d \in 0..Len(hs) : d = Len(hs) /\ Llega(d)' /\ Len(hs') = d + LF'
    BY <1>1, <1>2, <1>9, <1>10, SordoTrama
  <2>3. CASE Sordo'
    BY <1>3, <1>6, <1>10, <1>11, <2>3 DEF Pendiente_limpia
  <2>4. CASE \E d \in 0..Len(hs) : d = Len(hs) /\ Llega(d)' /\ Len(hs') = d + LF'
    <3>1. PICK d \in 0..Len(hs) : d = Len(hs) /\ Llega(d)' /\ Len(hs') = d + LF'
      BY <2>4
    <3>4. d = 0
      BY <2>1, <3>1
    <3>5. \A n \in Nat : 0 + n = n
      OBVIOUS
    <3>2. d = 0 /\ Len(hs') = LF'
      BY <1>9, <3>1, <3>4, <3>5, Zenon
    <3>3. Llega(0)'
      BY <3>1, <3>2
    <3> QED
      BY <1>3, <1>6, <1>10, <1>11, <3>2, <3>3 DEF Pendiente_limpia
  <2> QED
    BY <2>2, <2>3, <2>4
<1>12. CASE gpc = "ack" /\ hs = <<MAS>>
  <2>1. Len(hs) = 1 /\ hs[1] = MAS
    BY <1>12
  <2>2. ~Sordo'
    <3>1. F' \in Seq(Byte)
      BY <1>9 DEF Trama_pedida
    <3>2. /\ hs'[1] = MAS /\ DOMAIN hs' = 1..Len(hs')
      BY <1>1, <1>10, <2>1, <3>1, AlgoMas
    <3>3. PICK d \in Int : d = 1
      OBVIOUS
    <3>4. /\ Len(hs') = d + LF'
          /\ \A p \in DOMAIN hs' : p > d => (hs'[p] = DOLAR <=> p = d + 1)
      BY <1>1, <1>9, <1>10, <2>1, <3>3, VieneNueva
    <3>7. Len(hs') > 2
      <4>1. \A n \in Nat : n >= 4 => 1 + n > 2
        OBVIOUS
      <4> QED
        BY <1>9, <3>3, <3>4, <4>1, Zenon
    <3>8. hs' \in Seq(Byte)
      BY <1>1, <1>10, <3>1, AlgoMas
    <3>5. 2 \in DOMAIN hs' /\ hs'[2] = DOLAR
      BY <3>2, <3>3, <3>4, <3>7, <3>8
    <3>6. 1 \in 1..2
      OBVIOUS
    <3> QED
      BY <3>2, <3>5, <3>6 DEF Sordo
  <2>3. \E d \in 0..Len(hs) : d = Len(hs) /\ Llega(d)' /\ Len(hs') = d + LF'
    BY <1>1, <1>2, <1>9, <1>10, <2>2, SordoTrama
  <2>4. PICK d \in 0..Len(hs) : d = Len(hs) /\ Llega(d)' /\ Len(hs') = d + LF'
    BY <2>3
  <2>5. d = 1 /\ Len(hs') = 1 + LF'
    BY <1>9, <2>1, <2>4
  <2>6. Llega(1)'
    BY <2>4, <2>5
  <2> QED
    BY <1>3, <1>6, <1>10, <1>12, <2>5, <2>6 DEF Pendiente_limpia
<1> QED
  BY <1>11, <1>12 DEF Libre_limpia

\* The answer, whole.
LEMMA ContestaLimpia ==
  ASSUME ETipado, Contesta, sh = <<>>, hs' = <<>>, hst = "ack", hechas = 0, envios >= 1,
         turno' = turno, hst' = hst, envios' = envios
  PROVE  Aceptada_limpia'
<1>1. Actual' = Actual /\ Pedida' = Pedida
  BY Misma
<1>2. PICK e \in Ecos : sh' = sh \o Acepta(Actual, e)
  BY DEF Contesta
<1>3. Actual \in Seq(Byte)
  <2>1. Pedida \in Seq(Byte)
    BY EnlaceAssumption DEF ETipado, ETypeOK, Pedida
  <2>2. SubSeq(Pedida, 4, Len(Pedida)) \in Seq(Byte)
    BY <2>1
  <2> QED
    BY <2>1, <2>2 DEF Actual, Contenido
<1> DEFINE s == Acepta(Actual, e)
<1>4. /\ s \in Seq(Articulo) /\ Len(s) \in Nat /\ Len(s) > 1
      /\ s[1].t = "+" /\ s[1].bien
      /\ s[Len(s)].t = "trama" /\ s[Len(s)].r = Actual /\ s[Len(s)].bien
      /\ \A p \in 2..Len(s) - 1 : s[p].t = "otro" /\ s[p].bien
  BY <1>3, AceptaForma
<1>5. sh' = <<>> \o s
  BY <1>2
<1> HIDE DEF s
<1>6. sh' = s
  BY <1>4, <1>5
<1>7. sh' # <<>> /\ DOMAIN sh' = 1..Len(sh')
  BY <1>4, <1>6
<1>8. ASSUME NEW p \in DOMAIN sh'
      PROVE  /\ sh'[p].bien
             /\ p = Len(sh') => sh'[p].t = "trama" /\ sh'[p].r = Actual
             /\ p < Len(sh') => sh'[p].t = "otro" \/ p = 1
  <2>1. p = 1 \/ p \in 2..Len(s) - 1 \/ p = Len(s)
    BY <1>4, <1>6, <1>7
  <2> QED
    BY <1>4, <1>6, <1>7, <2>1
<1>9. hechas' = 1 /\ gpc' = "ack" /\ respuesta' = Actual /\ buffer' = buffer
      /\ (buffer[2] = DOSPUNTOS => ConSecuencia(Pedida))
  BY DEF Contesta
<1> QED
  BY <1>1, <1>4, <1>6, <1>7, <1>8, <1>9 DEF Aceptada_limpia

\* The stub reads the request and answers it.
LEMMA PendienteLimpiaLee ==
  ASSUME ETipado, Lee, Pendiente_limpia
  PROVE  Pendiente_limpia' \/ Aceptada_limpia'
<1>1. /\ turno' = turno /\ hst' = hst /\ envios' = envios /\ hs # <<>> /\ hs \in Seq(Byte)
      /\ hs' = Tail(hs) /\ Head(hs) = hs[1] /\ Trama_pedida
  BY LeeForma
<1>2. N' = N /\ LF' = LF /\ N \in Nat /\ LF = N + 4
  BY <1>1, Misma DEF Trama_pedida
<1>3. Pendiente_base /\ sh = <<>> /\ hechas = 0 /\ hst = "ack" /\ envios >= 1 /\ (N < 2 => buffer[2] # DOSPUNTOS)
  BY DEF Pendiente_limpia, Pendiente_base
<1>4. Sin_menos
  BY <1>3 DEF Sin_menos
<1>5. Len(hs') = Len(hs) - 1 /\ Len(hs) \in Nat /\ Len(hs) >= 1
  BY <1>1, UnoMenos
<1>6. CASE Sordo /\ gpc = "espera"
  <2>1. /\ Sordo' /\ buffer' = buffer /\ hechas' = hechas /\ respuesta' = respuesta
        /\ gpc' = "espera" /\ sh' = sh
    BY <1>6, LeeSordo
  <2>2. Pendiente_base'
    BY <1>1, <1>3, <1>4, <1>6, <2>1, PendienteBase
  <2> QED
    BY <1>3, <2>1, <2>2 DEF Pendiente_limpia
<1>7. CASE Llega(0) /\ gpc = "espera" /\ Len(hs) = LF
  <2>1. 0 \in Nat /\ gpc # "suma2"
    BY <1>7
  <2>2. /\ buffer' = buffer /\ hechas' = hechas /\ respuesta' = respuesta
        /\ Leyendo(1)' /\ sh' = sh
    BY <1>7, <2>1, LeeLlega
  <2>3. gpc' # "ack"
    BY <2>2 DEF Leyendo, Lugar
  <2>4. Pendiente_base'
    BY <1>1, <1>3, <1>4, <2>2, <2>3, PendienteBase
  <2>5. 1 \in 1..N' + 3 /\ Len(hs') = LF' - 1
    BY <1>2, <1>5, <1>7
  <2> QED
    BY <1>3, <2>2, <2>4, <2>5 DEF Pendiente_limpia
<1>8. CASE Llega(1) /\ gpc = "ack" /\ Len(hs) = 1 + LF
  <2>1. Head(hs) = MAS
    <3>1. \E q \in 1..1 : hs[q] = MAS
      BY <1>8 DEF Llega
    <3> QED
      BY <1>1, <3>1
  <2>2. PICK d \in Nat : d = 1
    OBVIOUS
  <2>3. Llega(d) /\ gpc # "suma2"
    BY <1>8, <2>2
  <2>4. /\ buffer' = buffer /\ hechas' = hechas /\ respuesta' = respuesta
        /\ \E k \in 0..Len(hs') : k = d - 1 /\ Llega(k)'
        /\ gpc' = "espera" /\ sh' = sh
    BY <2>1, <2>2, <2>3, LeeLlega
  <2>5. PICK k \in 0..Len(hs') : k = d - 1 /\ Llega(k)'
    BY <2>4
  <2>6. k = 0
    BY <2>2, <2>5
  <2>7. Llega(0)'
    BY <2>5, <2>6
  <2>8. Pendiente_base'
    BY <1>1, <1>3, <1>4, <2>4, PendienteBase
  <2>9. Len(hs') = LF'
    BY <1>2, <1>5, <1>8
  <2> QED
    BY <1>3, <2>4, <2>7, <2>8, <2>9 DEF Pendiente_limpia
<1>9. CASE \E m \in 1..N + 3 : Leyendo(m) /\ Len(hs) = LF - m
  <2>1. PICK m \in Nat : m >= 1 /\ m <= N + 3 /\ Leyendo(m) /\ Len(hs) = LF - m
    BY <1>2, <1>9
  <2>2. gpc \in {"datos", "suma1", "suma2"}
    BY <2>1 DEF Leyendo, Lugar
  <2>3. Len(hs') = LF' - (m + 1)
    BY <1>2, <1>5, <2>1
  <2>4. CASE gpc = "datos"
    <3>1. /\ respuesta' = respuesta /\ sh' = sh /\ hechas' = hechas
          /\ N < 2 /\ buffer[2] # DOSPUNTOS => buffer'[2] # DOSPUNTOS
          /\ (m <= N + 2 /\ Leyendo(m + 1)') \/ gpc' = "espera"
      BY <2>1, <2>4, LeyendoDato
    <3>2. gpc' # "ack"
      BY <3>1 DEF Leyendo, Lugar
    <3>3. Pendiente_base'
      BY <1>1, <1>3, <1>4, <3>1, <3>2, PendienteBase
    <3>4. CASE m <= N + 2 /\ Leyendo(m + 1)'
      <4>1. \E k \in 1..N' + 3 : Leyendo(k)' /\ Len(hs') = LF' - k
        <5>1. m + 1 \in 1..N' + 3
          BY <1>2, <2>1, <3>4
        <5> QED
          BY <2>3, <3>4, <5>1
      <4> QED
        BY <1>3, <3>1, <3>3, <4>1 DEF Pendiente_limpia
    <3>5. CASE gpc' = "espera"
      <4>1. Sordo'
        BY <2>1, <2>4, <3>5, Desborda
      <4> QED
        BY <1>3, <3>1, <3>3, <3>5, <4>1 DEF Pendiente_limpia
    <3> QED
      BY <3>1, <3>4, <3>5
  <2>5. CASE gpc = "suma1"
    <3>1. /\ respuesta' = respuesta /\ sh' = sh /\ hechas' = hechas /\ buffer' = buffer
          /\ m = N + 2 /\ Leyendo(m + 1)'
      BY <2>1, <2>5, LeyendoSuma
    <3>2. gpc' # "ack"
      BY <3>1 DEF Leyendo, Lugar
    <3>3. Pendiente_base'
      BY <1>1, <1>3, <1>4, <3>1, <3>2, PendienteBase
    <3>4. m + 1 \in 1..N' + 3
      BY <1>2, <2>1, <3>1
    <3>5. \E k \in 1..N' + 3 : Leyendo(k)' /\ Len(hs') = LF' - k
      BY <2>3, <3>1, <3>4
    <3> QED
      BY <1>3, <3>1, <3>3, <3>5 DEF Pendiente_limpia
  <2>6. CASE gpc = "suma2"
    <3>1. Contesta /\ hs' = <<>>
      BY <1>3, <2>1, <2>6, LeyendoFin
    <3> QED
      BY <1>1, <1>3, <3>1, ContestaLimpia
  <2> QED
    BY <2>2, <2>4, <2>5, <2>6
<1> QED
  BY <1>6, <1>7, <1>8, <1>9 DEF Pendiente_limpia

\* No answer comes to a request that is given up: it fills the buffer.
LEMMA PendienteLimpiaVence ==
  ASSUME ETipado, hs = <<>>, sh = <<>>, Vence, Pendiente_limpia
  PROVE  Pendiente_limpia'
<1>1. /\ Pendiente_base /\ sh = <<>> /\ hechas = 0 /\ hst = "ack"
      /\ hs \in Seq(Byte) /\ turno \in 1..Len(Sesion) /\ Len(hs) = 0
  BY DEF Pendiente_limpia, Pendiente_base, ETipado, ETypeOK
<1>2. Repite /\ UNCHANGED <<stub, sh, turno, hechas>>
  BY <1>1 DEF Vence
<1>3. Trama_pedida
  BY <1>1, PedidaForma
<1>4. LF = N + 4 /\ N \in Nat
  BY <1>3 DEF Trama_pedida
<1>5. Sordo /\ gpc = "espera"
  <2>1. Len(hs) # LF /\ Len(hs) # 1 + LF
    BY <1>1, <1>4
  <2>2. ASSUME NEW m \in 1..N + 3 PROVE Len(hs) # LF - m
    BY <1>1, <1>4
  <2> QED
    BY <2>1, <2>2 DEF Pendiente_limpia
<1>6. \A p \in DOMAIN sh' : sh'[p].t # "+" /\ sh'[p].t # "-"
  BY <1>1, <1>2
<1>7. Pendiente'
  BY <1>1, <1>2, <1>5, <1>6, RepiteSordo DEF stub
<1>8. Pendiente_base' /\ sh' = <<>> /\ hechas' = 0 /\ gpc' = "espera"
  BY <1>1, <1>2, <1>5, <1>7 DEF Pendiente, stub
<1>9. N' = N /\ F' = F /\ LF' = LF /\ Pedida' = Pedida /\ Trama_pedida'
  BY <1>2, <1>3, Misma DEF Trama_pedida
<1>10. hs' = hs \o F' /\ gpc' = gpc
  BY <1>2, <1>9 DEF Repite, Manda, F, Pedida, stub
<1>11. Sordo' \/ \E d \in 0..Len(hs) : d = Len(hs) /\ Llega(d)' /\ Len(hs') = d + LF'
  BY <1>1, <1>5, <1>9, <1>10, SordoTrama
<1>12. CASE \E d \in 0..Len(hs) : d = Len(hs) /\ Llega(d)' /\ Len(hs') = d + LF'
  <2>1. PICK d \in 0..Len(hs) : d = Len(hs) /\ Llega(d)' /\ Len(hs') = d + LF'
    BY <1>12
  <2>2. d = 0 /\ Len(hs') = LF'
    BY <1>1, <1>4, <1>9, <2>1
  <2>3. Llega(0)'
    BY <2>1, <2>2
  <2> QED
    BY <1>8, <2>2, <2>3 DEF Pendiente_limpia
<1> QED
  BY <1>8, <1>11, <1>12 DEF Pendiente_limpia

\* The host takes the '+', the sequence and the reply.
LEMMA AceptadaLimpiaOye ==
  ASSUME ETipado, Oye, Aceptada_limpia
  PROVE  Aceptada_limpia' \/ Libre_limpia'
<1>1. /\ sh \in Seq(Articulo) /\ sh # <<>> /\ sh' = Tail(sh)
      /\ gpc' = gpc /\ buffer' = buffer /\ respuesta' = respuesta
      /\ turno' = turno /\ hechas' = hechas
      /\ hs \in Seq(Byte)
  BY OyeForma
<1>2. /\ Len(sh) \in Nat /\ Len(sh) >= 1 /\ Len(sh') = Len(sh) - 1
      /\ DOMAIN sh = 1..Len(sh) /\ DOMAIN sh' = 1..Len(sh')
      /\ \A p \in 1..Len(sh') : sh'[p] = sh[p + 1]
  BY <1>1, UnItemMenos
<1>3. /\ hst \in {"ack", "respuesta"} /\ gpc = "ack" /\ hs = <<>>
      /\ hechas = 1 /\ envios >= 1 /\ respuesta = Actual
      /\ buffer[2] = DOSPUNTOS => ConSecuencia(Pedida)
      /\ hst = "ack" => Len(sh) > 1 /\ sh[1].t = "+"
      /\ \A p \in 1..Len(sh) :
           /\ sh[p].bien
           /\ p = Len(sh) => sh[p].t = "trama" /\ sh[p].r = Actual
           /\ p < Len(sh) => sh[p].t = "otro" \/ (p = 1 /\ hst = "ack")
  BY <1>2 DEF Aceptada_limpia
<1>4. Actual' = Actual /\ Pedida' = Pedida
  BY <1>1, Misma
<1>5. CASE Len(sh) > 1
  <2>1. hs' = hs /\ hst' = "respuesta" /\ envios' = envios
    <3>1. CASE hst = "ack"
      BY <1>3, <3>1, OyeForma
    <3>2. CASE hst = "respuesta"
      <4>1. sh[1].t = "otro"
        BY <1>2, <1>3, <1>5, <3>2
      <4> QED
        BY <3>2, <4>1, OyeForma
    <3> QED
      BY <1>3, <3>1, <3>2
  <2>2. ASSUME NEW p \in DOMAIN sh'
        PROVE  /\ sh'[p].bien
               /\ p = Len(sh') => sh'[p].t = "trama" /\ sh'[p].r = Actual
               /\ p < Len(sh') => sh'[p].t = "otro"
    <3>1. /\ p + 1 \in 1..Len(sh) /\ p + 1 # 1 /\ sh'[p] = sh[p + 1]
          /\ p = Len(sh') <=> p + 1 = Len(sh)
          /\ p < Len(sh') <=> p + 1 < Len(sh)
      BY <1>2
    <3> QED
      BY <1>3, <3>1
  <2>3. sh' # <<>>
    BY <1>2, <1>5
  <2> QED
    BY <1>1, <1>3, <1>4, <2>1, <2>2, <2>3 DEF Aceptada_limpia
<1>6. CASE Len(sh) = 1
  <2>1. hst = "respuesta" /\ sh[1].t = "trama" /\ sh[1].bien
    BY <1>2, <1>3, <1>6
  <2>2. hst' = "libre" /\ hs' = hs \o <<MAS>> /\ envios' = envios
    BY <2>1, OyeForma
  <2>3. hs' = <<MAS>>
    BY <1>3, <2>2
  <2>4. sh' = <<>>
    <3>1. sh' \in Seq(Articulo) /\ Len(sh') = 0
      BY <1>1, <1>2, <1>6, UnItemMenos
    <3> QED
      BY <3>1, EmptySeq
  <2> QED
    BY <1>1, <1>3, <1>4, <2>2, <2>3, <2>4 DEF Libre_limpia
<1> QED
  BY <1>2, <1>5, <1>6

(* The first failure *)

\* The '+' for the reply is lost: the stub will take the next request for a
\* refusal.
LEMMA LibreLimpiaFalla == ASSUME ETipado, Falla, Libre_limpia PROVE Libre'
<1>1. /\ hst = "libre" /\ sh = <<>> /\ hechas <= envios /\ hechas <= 1
      /\ buffer[2] = DOSPUNTOS => ConSecuencia(Pedida)
  BY DEF Libre_limpia
<1>2. /\ hs # <<>> /\ hs' = Tail(hs)
      /\ UNCHANGED <<stub, sh, host, hechas>>
  BY <1>1 DEF Falla, Vence
<1>3. gpc = "ack" /\ hs = <<MAS>> /\ respuesta = Actual
  BY <1>2 DEF Libre_limpia
<1>4. /\ gpc' = gpc /\ buffer' = buffer /\ respuesta' = respuesta /\ turno' = turno
      /\ hst' = hst /\ envios' = envios /\ hechas' = hechas /\ sh' = sh
  BY <1>2 DEF stub, host
<1>5. DOMAIN hs' = {}
  <2>1. hs \in Seq(Byte) /\ Len(hs) = 1
    BY <1>3 DEF ETipado, ETypeOK
  <2> QED
    BY <1>2, <2>1, UnoMenos
<1>6. Sordo'
  BY <1>3, <1>4, <1>5 DEF Sordo
<1>7. Actual' = Actual /\ Pedida' = Pedida
  BY <1>4, Misma
<1>8. \A p \in DOMAIN sh' : FALSE
  BY <1>1, <1>4
<1>9. hechas' <= 2 /\ hechas' <= envios'
  BY <1>1, <1>4 DEF ETipado, ETypeOK
<1> QED
  BY <1>1, <1>3, <1>4, <1>6, <1>7, <1>8, <1>9 DEF Libre

\* A character that is not NUL changes the sum.
LEMMA SumaCambia ==
  ASSUME NEW x \in Byte, NEW ch \in Byte \ {0}
  PROVE  (x + ch) % (B * B) # x
<1>1. B * B \in Nat /\ B * B > 0 /\ Byte = 0..B * B - 1
  <2>1. B \in Nat \ {0}
    BY BaseAssumption
  <2> QED
    BY <2>1 DEF Byte
<1>2. 0 \in Byte /\ ch \in Byte /\ x + ch = ch + x
  BY <1>1
<1>3. (0 + x) % (B * B) = x
  <2>1. \A m \in Nat : m > 0 => \A z \in 0..m - 1 : (0 + z) % m = z
    OBVIOUS
  <2> QED
    BY <1>1, <2>1
<1>4. SUFFICES ASSUME (ch + x) % (B * B) = (0 + x) % (B * B) PROVE FALSE
  BY <1>2, <1>3
<1>5. ch = 0
  BY <1>2, <1>4, SumaInyectiva
<1> QED
  BY <1>5

\* The line loses a character of a frame that is being read: a sum that comes
\* out wrong, or the stub waits for the rest.
LEMMA LeyendoPierde ==
  ASSUME ETipado, hs # <<>>, hs' = Tail(hs), UNCHANGED <<stub, sh, host, hechas>>, sh = <<>>,
         NEW m \in Nat, m >= 1, m <= N + 3, Leyendo(m), Len(hs) = LF - m
  PROVE  (m <= N + 2 /\ Danada(m + 1)') \/ Atascado'
<1>1. /\ gpc' = gpc /\ buffer' = buffer /\ checksum' = checksum /\ xmitcsum' = xmitcsum
      /\ turno' = turno /\ sh' = <<>>
  BY DEF stub, host
<1>2. hs \in Seq(Byte) /\ turno \in 1..Len(Sesion)
  BY DEF ETipado, ETypeOK
<1>3. Trama_pedida
  BY <1>2, PedidaForma
<1>4. N \in Nat /\ LF = N + 4 /\ N' = N /\ LF' = LF /\ F' = F /\ Pedida' = Pedida
  BY <1>1, <1>3, Misma DEF Trama_pedida
<1>5. /\ Len(hs) \in Nat /\ Len(hs') = Len(hs) - 1 /\ hs' \in Seq(Byte)
      /\ DOMAIN hs' = 1..Len(hs') /\ \A p \in 1..Len(hs') : hs'[p] = hs[p + 1]
  BY <1>2, UnoMenos
<1>6. /\ Viene(-m) /\ gpc = Lugar(m) /\ checksum = Suma(Pedida, Prefijo(m - 1))
      /\ gpc # "datos" => Copia_entera
  BY DEF Leyendo
<1>7. CASE m <= N
  <2>1. PICK d \in Int : d = -m
    OBVIOUS
  <2>2. Viene(d) /\ d + LF >= 2
    BY <1>4, <1>6, <1>7, <2>1
  <2>3. Viene(d - 1)'
    BY <1>1, <1>2, <1>3, <2>2, VieneCorre
  <2>4. Viene(-(m + 1))'
    <3>1. (d - 1)' = -(m + 1)
      BY <2>1
    <3> QED
      BY <2>3, <3>1 DEF Viene
  <2>5. Prefijo(m - 1) = m - 1 /\ Prefijo((m + 1) - 1)' = m
    BY <1>4, <1>7 DEF Prefijo
  <2>6. gpc = "datos" /\ Lugar(m + 1)' = "datos"
    BY <1>4, <1>6, <1>7 DEF Lugar
  <2>7. Pedida[m] \in Byte \ {0}
    BY <1>3, <1>4, <1>7 DEF Trama_pedida, NUL
  <2>8. Suma(Pedida, m) = (Suma(Pedida, m - 1) + Pedida[m]) % (B * B)
    BY SumaSigue
  <2>9. Suma(Pedida, m - 1) \in Byte
    BY <1>6, <2>5 DEF ETipado, ETypeOK
  <2>10. Suma(Pedida, m) # Suma(Pedida, m - 1)
    BY <2>7, <2>8, <2>9, SumaCambia
  <2>11. checksum' # Suma(Pedida', Prefijo((m + 1) - 1)')
    BY <1>1, <1>4, <1>6, <2>5, <2>10
  <2>12. m + 1 > 1 /\ Len(hs') = LF' - (m + 1) /\ m <= N + 2
    BY <1>4, <1>5, <1>7
  <2> QED
    BY <1>1, <2>4, <2>6, <2>11, <2>12 DEF Danada
<1>8. CASE m = N + 1
  <2>1. gpc = "datos"
    BY <1>4, <1>6, <1>8 DEF Lugar
  <2>2. Len(hs') = 2
    BY <1>4, <1>5, <1>8
  <2>3. ASSUME NEW p \in DOMAIN hs' PROVE hs'[p] \in Digitos
    <3>1. p \in {1, 2}
      BY <1>5, <2>2
    <3>2. p + m + 1 \in 1..LF /\ (-m) + (p + m + 1) = p + 1 /\ p + 1 >= 1
      BY <1>4, <1>8, <3>1
    <3>3. hs[p + 1] = F[p + m + 1]
      BY <1>6, <3>2 DEF Viene
    <3>4. p + m + 1 \in {N + 3, N + 4}
      BY <1>4, <1>8, <3>1
    <3> QED
      BY <1>3, <1>5, <3>3, <3>4 DEF Trama_pedida
  <2> QED
    BY <1>1, <2>1, <2>3 DEF Atascado
<1>9. CASE m = N + 2
  <2>1. gpc = "suma1" /\ Len(hs') = 1
    BY <1>4, <1>5, <1>6, <1>9 DEF Lugar
  <2>2. Copia_entera'
    BY <1>1, <1>4, <1>6, <2>1 DEF Copia_entera
  <2> QED
    BY <1>1, <2>1, <2>2 DEF Atascado
<1>10. CASE m = N + 3
  <2>1. gpc = "suma2" /\ Len(hs') = 0
    BY <1>4, <1>5, <1>6, <1>10 DEF Lugar
  <2>2. Copia_entera'
    BY <1>1, <1>4, <1>6, <2>1 DEF Copia_entera
  <2>3. hs' = <<>>
    BY <1>5, <2>1, EmptySeq
  <2> QED
    BY <1>1, <2>1, <2>2, <2>3 DEF Atascado
<1> QED
  BY <1>4, <1>7, <1>8, <1>9, <1>10

\* The line loses a character of the request.
LEMMA PendienteLimpiaPierde ==
  ASSUME ETipado, hs # <<>>, hs' = Tail(hs), UNCHANGED <<stub, sh, host, hechas>>,
         Pendiente_limpia
  PROVE  Pendiente'
<1>1. /\ gpc' = gpc /\ buffer' = buffer /\ respuesta' = respuesta /\ turno' = turno
      /\ hst' = hst /\ envios' = envios /\ hechas' = hechas /\ sh' = sh
  BY DEF stub, host
<1>2. hs \in Seq(Byte) /\ turno \in 1..Len(Sesion)
  BY DEF ETipado, ETypeOK
<1>3. Trama_pedida
  BY <1>2, PedidaForma
<1>4. N \in Nat /\ LF = N + 4 /\ N' = N
  BY <1>1, <1>3, Misma DEF Trama_pedida
<1>5. /\ Len(hs) \in Nat /\ Len(hs) >= 1 /\ Len(hs') = Len(hs) - 1
      /\ DOMAIN hs = 1..Len(hs) /\ DOMAIN hs' = 1..Len(hs')
      /\ \A p \in 1..Len(hs') : hs'[p] = hs[p + 1]
  BY <1>2, UnoMenos
<1>6. Pendiente_base /\ sh = <<>> /\ hechas = 0 /\ envios >= 1 /\ (N < 2 => buffer[2] # DOSPUNTOS)
  BY DEF Pendiente_limpia, Pendiente_base
<1>7. Sin_menos
  BY <1>6 DEF Sin_menos
<1>8. Pendiente_base' /\ Sin_menos'
  BY <1>1, <1>6, <1>7, PendienteBase
<1>9. hechas' < envios'
  BY <1>1, <1>6 DEF ETipado, ETypeOK
<1>10. CASE Sordo /\ gpc = "espera"
  <2>1. Sordo'
    BY <1>1, <1>2, <1>10, SordoCorre
  <2> QED
    BY <1>8, <2>1 DEF Pendiente
<1>11. CASE Llega(0) /\ gpc = "espera" /\ Len(hs) = LF
  <2>1. ASSUME NEW p \in DOMAIN hs' PROVE hs'[p] # DOLAR
    <3>1. p >= 1 /\ p + 1 \in DOMAIN hs /\ hs'[p] = hs[p + 1] /\ p + 1 # 0 + 1
          /\ p + 1 # 0 + LF + 1 /\ ~(p + 1 <= 0)
      BY <1>4, <1>5, <1>11
    <3> QED
      BY <1>11, <3>1 DEF Llega, Marcas
  <2>2. Sordo'
    BY <1>1, <1>11, <2>1 DEF Sordo
  <2> QED
    BY <1>8, <2>2 DEF Pendiente
<1>12. CASE Llega(1) /\ gpc = "ack" /\ Len(hs) = 1 + LF
  <2>1. ASSUME NEW p \in DOMAIN hs', hs'[p] = DOLAR PROVE p = 1
    <3>1. p >= 1 /\ p + 1 \in DOMAIN hs /\ hs'[p] = hs[p + 1]
          /\ p + 1 # 1 + LF + 1 /\ ~(p + 1 <= 1)
      BY <1>4, <1>5, <1>12
    <3>2. p + 1 = 1 + 1
      BY <1>12, <2>1, <3>1 DEF Llega, Marcas
    <3> QED
      BY <3>1, <3>2
  <2>2. ASSUME NEW p \in DOMAIN hs', hs'[p] = DOLAR, NEW q \in 1..p PROVE hs'[q] # MAS
    <3>1. q = p
      BY <2>1, <2>2
    <3> QED
      BY <2>2, <3>1, Signos
  <2>3. Sordo'
    BY <1>1, <1>12, <2>2 DEF Sordo
  <2> QED
    BY <1>8, <2>3 DEF Pendiente
<1>13. CASE \E m \in 1..N + 3 : Leyendo(m) /\ Len(hs) = LF - m
  <2>1. PICK m \in Nat : m >= 1 /\ m <= N + 3 /\ Leyendo(m) /\ Len(hs) = LF - m
    BY <1>4, <1>13
  <2>2. (m <= N + 2 /\ Danada(m + 1)') \/ Atascado'
    BY <1>6, <2>1, LeyendoPierde
  <2>3. m <= N + 2 => m + 1 \in 1..N' + 3
    BY <1>4, <2>1
  <2> QED
    BY <1>8, <1>9, <2>2, <2>3 DEF Pendiente
<1> QED
  BY <1>10, <1>11, <1>12, <1>13 DEF Pendiente_limpia

\* The host loses its patience, and its request comes twice.
LEMMA PendienteLimpiaRepite ==
  ASSUME ETipado, Repite, UNCHANGED <<stub, sh, turno, hechas>>, Pendiente_limpia
  PROVE  Pendiente'
<1>1. /\ gpc' = gpc /\ buffer' = buffer /\ count' = count /\ checksum' = checksum
      /\ xmitcsum' = xmitcsum /\ respuesta' = respuesta /\ turno' = turno
      /\ hechas' = hechas /\ sh' = sh
  BY DEF stub
<1>2. hs \in Seq(Byte) /\ turno \in 1..Len(Sesion) /\ envios \in 0..3
  BY DEF ETipado, ETypeOK
<1>3. Trama_pedida
  BY <1>2, PedidaForma
<1>4. N \in Nat /\ LF = N + 4 /\ N' = N /\ LF' = LF /\ F' = F /\ Pedida' = Pedida /\ F \in Seq(Byte)
  BY <1>1, <1>3, Misma DEF Trama_pedida
<1>5. hs' = hs \o F /\ hst' = "ack" /\ envios' = IF envios = 3 THEN 3 ELSE envios + 1
  BY DEF Repite, Manda, F, Pedida
<1>6. /\ Pendiente_base /\ sh = <<>> /\ hechas = 0 /\ envios >= 1
      /\ (N < 2 => buffer[2] # DOSPUNTOS) /\ (gpc = "ack" => Enviada)
  BY DEF Pendiente_limpia, Pendiente_base
<1>7. /\ hechas' < envios' /\ hechas' <= 1 /\ hechas' <= envios' /\ envios' >= 1
  BY <1>1, <1>2, <1>5, <1>6
<1>8. \A p \in DOMAIN sh' : FALSE
  BY <1>1, <1>6
<1>9. Pendiente_base' /\ Sin_menos'
  <2>1. gpc' = "ack" => Enviada'
    BY <1>1, <1>6 DEF Enviada
  <2> QED
    BY <1>1, <1>4, <1>5, <1>6, <1>7, <1>8, <2>1 DEF Pendiente_base, Sin_menos
<1>10. /\ Len(hs) \in Nat /\ Len(hs') = Len(hs) + LF
       /\ \A p \in 1..Len(hs) : hs'[p] = hs[p]
  BY <1>2, <1>3, <1>4, <1>5, AlgoMas DEF Trama_pedida
<1>11. CASE Sordo /\ gpc = "espera"
  BY <1>1, <1>6, <1>8, <1>11, RepiteSordo
<1>12. CASE Llega(0) /\ gpc = "espera" /\ Len(hs) = LF
  <2>1. Viene(0)' /\ Marcas(0)'
    <3>1. 0 \in Int /\ 0 + LF = Len(hs)
      BY <1>4, <1>12
    <3> QED
      BY <1>1, <1>2, <1>3, <1>5, <1>12, <3>1, OtraTrama DEF Llega
  <2>2. Llega(0)'
    BY <1>1, <1>12, <2>1 DEF Llega
  <2>3. 0 \in 0..Len(hs')
    BY <1>4, <1>10
  <2> QED
    BY <1>7, <1>9, <2>2, <2>3 DEF Pendiente
<1>13. CASE Llega(1) /\ gpc = "ack" /\ Len(hs) = 1 + LF
  <2>1. Viene(1)' /\ Marcas(1)'
    <3>1. 1 \in Int /\ 1 + LF = Len(hs)
      BY <1>4, <1>13
    <3> QED
      BY <1>1, <1>2, <1>3, <1>5, <1>13, <3>1, OtraTrama DEF Llega
  <2>2. Llega(1)'
    <3>1. \E q \in 1..1 : hs'[q] = MAS
      <4>1. PICK q \in 1..1 : hs[q] = MAS
        BY <1>13 DEF Llega
      <4>2. hs'[q] = MAS
        BY <1>4, <1>10, <1>13, <4>1
      <4> QED
        BY <4>2
    <3> QED
      BY <1>1, <1>13, <2>1, <3>1 DEF Llega
  <2>3. 1 \in 0..Len(hs')
    BY <1>4, <1>10, <1>13
  <2> QED
    BY <1>7, <1>9, <2>2, <2>3 DEF Pendiente
<1>14. CASE \E m \in 1..N + 3 : Leyendo(m) /\ Len(hs) = LF - m
  <2>1. PICK m \in 1..N + 3 : Leyendo(m) /\ Len(hs) = LF - m
    BY <1>14
  <2>2. PICK d \in Int : d = -m
    BY <1>4, <2>1
  <2>3. Viene(d) /\ Marcas(d) /\ d + LF = Len(hs)
    BY <1>4, <2>1, <2>2 DEF Leyendo
  <2>4. Viene(d)' /\ Marcas(d)'
    BY <1>1, <1>2, <1>3, <1>5, <2>3, OtraTrama
  <2>5. Viene(-m)' /\ Marcas(-m)'
    BY <2>2, <2>4
  <2>6. gpc' = Lugar(m)' /\ Prefijo(m - 1)' = Prefijo(m - 1)
    BY <1>1, <1>4, <2>1 DEF Leyendo, Lugar, Prefijo
  <2>7. gpc' # "datos" => Copia_entera'
    BY <1>1, <1>4, <2>1 DEF Leyendo, Copia_entera
  <2>8. gpc' = "suma2" => Suma_media'
    BY <1>1, <1>4, <2>1 DEF Leyendo, Suma_media
  <2>9. gpc' = "datos" => count' = m - 1 /\ \A c \in 1..m - 1 : buffer'[c - 1] = Pedida'[c]
    BY <1>1, <1>4, <2>1 DEF Leyendo
  <2>10. checksum' = Suma(Pedida', Prefijo(m - 1)')
    BY <1>1, <1>4, <2>1, <2>6 DEF Leyendo
  <2>11. Leyendo(m)'
    BY <2>5, <2>6, <2>7, <2>8, <2>9, <2>10 DEF Leyendo
  <2>12. \E k \in 1..N' + 3 : Leyendo(k)'
    BY <1>4, <2>11
  <2> QED
    BY <1>7, <1>9, <2>12 DEF Pendiente
<1> QED
  BY <1>11, <1>12, <1>13, <1>14 DEF Pendiente_limpia

\* What a clean line holds of an answer, item by item.
LEMMA AceptadaForma ==
  ASSUME ETipado, Aceptada_limpia
  PROVE  /\ sh \in Seq(Articulo) /\ Len(sh) \in Nat /\ Len(sh) >= 1 /\ DOMAIN sh = 1..Len(sh) /\ sh # <<>>
         /\ hst \in {"ack", "respuesta"} /\ gpc = "ack" /\ hs = <<>>
         /\ hechas = 1 /\ envios >= 1 /\ respuesta = Actual
         /\ buffer[2] = DOSPUNTOS => ConSecuencia(Pedida)
         /\ hst = "ack" => Len(sh) > 1 /\ sh[1].t = "+"
         /\ sh[Len(sh)].t = "trama" /\ sh[Len(sh)].bien
         /\ \A p \in 1..Len(sh) :
              \/ sh[p].t = "otro"
              \/ p = Len(sh) /\ sh[p].t = "trama" /\ sh[p].r = Actual
              \/ p = 1 /\ hst = "ack" /\ p < Len(sh)
<1>1. sh \in Seq(Articulo) /\ sh # <<>>
  BY DEF ETipado, Aceptada_limpia
<1>2. Len(sh) \in Nat /\ Len(sh) >= 1 /\ DOMAIN sh = 1..Len(sh)
  BY <1>1, EmptySeq
<1>3. Len(sh) \in DOMAIN sh
  BY <1>2
<1>4. /\ hst \in {"ack", "respuesta"} /\ gpc = "ack" /\ hs = <<>>
      /\ hechas = 1 /\ envios >= 1 /\ respuesta = Actual
      /\ buffer[2] = DOSPUNTOS => ConSecuencia(Pedida)
      /\ hst = "ack" => Len(sh) > 1 /\ sh[1].t = "+"
  BY Zenon DEF Aceptada_limpia
<1>5. \A p \in DOMAIN sh :
        /\ sh[p].bien
        /\ p = Len(sh) => sh[p].t = "trama" /\ sh[p].r = Actual
        /\ p < Len(sh) => sh[p].t = "otro" \/ (p = 1 /\ hst = "ack")
  BY Zenon DEF Aceptada_limpia
<1>6. sh[Len(sh)].t = "trama" /\ sh[Len(sh)].bien
  BY <1>3, <1>5, Zenon
<1>7. \A p \in 1..Len(sh) :
        \/ sh[p].t = "otro"
        \/ p = Len(sh) /\ sh[p].t = "trama" /\ sh[p].r = Actual
        \/ p = 1 /\ hst = "ack" /\ p < Len(sh)
  <2> SUFFICES ASSUME NEW p \in 1..Len(sh)
               PROVE  \/ sh[p].t = "otro"
                      \/ p = Len(sh) /\ sh[p].t = "trama" /\ sh[p].r = Actual
                      \/ p = 1 /\ hst = "ack" /\ p < Len(sh)
    OBVIOUS
  <2>1. \A n \in Nat : \A q \in 1..n : q = n \/ q < n
    OBVIOUS
  <2>2. p = Len(sh) \/ p < Len(sh)
    BY <1>2, <2>1
  <2> QED
    BY <1>2, <1>5, <2>2, Zenon
<1> QED
  BY <1>1, <1>2, <1>4, <1>6, <1>7, Zenon

\* An item of the answer is lost: the '+', and the host believes its request
\* was; or one of the reply.
LEMMA AceptadaLimpiaPierde ==
  ASSUME ETipado, Aceptada_limpia, sh' = Tail(sh), UNCHANGED <<stub, hs, host, hechas>>
  PROVE  Pendiente' \/ Aceptada'
<1>1. /\ gpc' = gpc /\ buffer' = buffer /\ respuesta' = respuesta /\ turno' = turno
      /\ hst' = hst /\ envios' = envios /\ hechas' = hechas /\ hs' = hs
  BY DEF stub, host
<1>2. /\ sh \in Seq(Articulo) /\ Len(sh) \in Nat /\ Len(sh) >= 1 /\ DOMAIN sh = 1..Len(sh) /\ sh # <<>>
      /\ hst \in {"ack", "respuesta"} /\ gpc = "ack" /\ hs = <<>>
      /\ hechas = 1 /\ envios >= 1 /\ respuesta = Actual
      /\ buffer[2] = DOSPUNTOS => ConSecuencia(Pedida)
  BY AceptadaForma, Zenon
<1>20. /\ hst = "ack" => Len(sh) > 1 /\ sh[1].t = "+"
       /\ sh[Len(sh)].t = "trama" /\ sh[Len(sh)].bien
       /\ \A p \in 1..Len(sh) :
            \/ sh[p].t = "otro"
            \/ p = Len(sh) /\ sh[p].t = "trama" /\ sh[p].r = Actual
            \/ p = 1 /\ hst = "ack" /\ p < Len(sh)
  BY AceptadaForma, Zenon
<1>4. /\ Len(sh') = Len(sh) - 1 /\ DOMAIN sh' = 1..Len(sh') /\ sh' \in Seq(Articulo)
      /\ \A p \in 1..Len(sh') : sh'[p] = sh[p + 1]
  BY <1>2, UnItemMenos
<1>5. turno \in 1..Len(Sesion)
  BY DEF ETipado, ETypeOK
<1>6. Trama_pedida
  BY <1>5, PedidaForma
<1>7. N \in Nat /\ N' = N /\ Actual' = Actual /\ Pedida' = Pedida
  BY <1>1, <1>6, Misma DEF Trama_pedida
<1>8. Sordo'
  <2>1. \A p \in DOMAIN hs' : FALSE
    BY <1>1, <1>2
  <2> QED
    BY <1>1, <1>2, <2>1 DEF Sordo
<1>9. ASSUME NEW p \in DOMAIN sh'
      PROVE  sh'[p].t = "otro" \/ (sh'[p].t = "trama" /\ sh'[p].r = Actual)
  <2>1. p + 1 \in 1..Len(sh) /\ p + 1 # 1 /\ sh'[p] = sh[p + 1]
    BY <1>4
  <2> QED
    BY <1>20, <2>1
<1>10. CASE hst = "ack"
  <2>1. N < 2 => buffer'[2] # DOSPUNTOS
    BY <1>1, <1>2 DEF ConSecuencia, N
  <2>2. gpc' = "ack" => Enviada'
    BY <1>1, <1>2, <1>5 DEF Enviada, Actual, Pedida
  <2>3. \A p \in DOMAIN sh' : sh'[p].t # "+" /\ sh'[p].t # "-"
    BY <1>9
  <2>4. hechas' <= 1 /\ hechas' <= envios' /\ envios' >= 1
    BY <1>1, <1>2
  <2>5. Pendiente_base' /\ Sin_menos'
    BY <1>1, <1>7, <1>10, <2>1, <2>2, <2>3, <2>4, Zenon DEF Pendiente_base, Sin_menos
  <2> QED
    BY <1>8, <2>5 DEF Pendiente
<1>11. CASE hst = "respuesta"
  <2>1. \/ \E p \in DOMAIN sh' : p > 0 /\ sh'[p].t = "trama" /\ sh'[p].bien
        \/ gpc' = "ack" /\ hs' = <<>> /\ hst' = "respuesta"
    BY <1>1, <1>2, <1>11
  <2>2. Tras_el_mas(0)'
    <3>1. \A p \in DOMAIN sh' : p > 0 /\ ~(p < 0)
      BY <1>4
    <3>2. hst' # "ack"
      BY <1>1, <1>11
    <3>3. ~(0 >= 1)
      OBVIOUS
    <3> QED
      BY <1>7, <1>9, <2>1, <3>1, <3>2, <3>3 DEF Tras_el_mas
  <2>3. \E q \in 0..Len(sh') : Tras_el_mas(q)'
    <3>1. 0 \in 0..Len(sh')
      BY <1>2, <1>4
    <3> QED
      BY <2>2, <3>1
  <2>4. hechas' >= 1 /\ hechas' <= 2 /\ hechas' <= envios'
    BY <1>1, <1>2
  <2> QED
    BY <1>1, <1>2, <1>7, <1>8, <1>11, <2>3, <2>4 DEF Aceptada
<1> QED
  BY <1>2, <1>10, <1>11

\* The reply comes damaged.
LEMMA AceptadaLimpiaDana ==
  ASSUME ETipado, Aceptada_limpia, sh[1].t = "trama", sh' \in Seq(Articulo), Len(sh') = Len(sh),
         sh'[1].t = "trama", sh'[1].r = sh[1].r, UNCHANGED <<stub, hs, host, hechas>>
  PROVE  Aceptada'
<1>1. /\ gpc' = gpc /\ buffer' = buffer /\ respuesta' = respuesta /\ turno' = turno
      /\ hst' = hst /\ envios' = envios /\ hechas' = hechas /\ hs' = hs
  BY DEF stub, host
<1>2. /\ sh \in Seq(Articulo) /\ Len(sh) \in Nat /\ Len(sh) >= 1 /\ DOMAIN sh = 1..Len(sh) /\ sh # <<>>
      /\ hst \in {"ack", "respuesta"} /\ gpc = "ack" /\ hs = <<>>
      /\ hechas = 1 /\ envios >= 1 /\ respuesta = Actual
      /\ buffer[2] = DOSPUNTOS => ConSecuencia(Pedida)
  BY AceptadaForma, Zenon
<1>20. /\ hst = "ack" => Len(sh) > 1 /\ sh[1].t = "+"
       /\ sh[Len(sh)].t = "trama" /\ sh[Len(sh)].bien
       /\ \A p \in 1..Len(sh) :
            \/ sh[p].t = "otro"
            \/ p = Len(sh) /\ sh[p].t = "trama" /\ sh[p].r = Actual
            \/ p = 1 /\ hst = "ack" /\ p < Len(sh)
  BY AceptadaForma, Zenon
<1>3. hst = "respuesta" /\ Len(sh) = 1 /\ sh[1].r = Actual
  <2>1. hst = "respuesta"
    BY <1>2, <1>20
  <2>2. 1 \in 1..Len(sh)
    BY <1>2
  <2> QED
    BY <1>2, <1>20, <2>1, <2>2
<1>4. DOMAIN sh' = 1..1 /\ Len(sh') = 1
  BY <1>3
<1>5. sh'[1].t = "trama" /\ sh'[1].r = Actual
  BY <1>3
<1>6. Actual' = Actual /\ Pedida' = Pedida
  BY <1>1, Misma
<1>7. Sordo'
  <2>1. \A p \in DOMAIN hs' : FALSE
    BY <1>1, <1>2
  <2> QED
    BY <1>1, <1>2, <2>1 DEF Sordo
<1>8. Tras_el_mas(0)'
  <2>1. \A p \in DOMAIN sh' : p > 0 /\ ~(p < 0) /\ p = 1
    BY <1>4
  <2>2. hst' # "ack" /\ gpc' = "ack" /\ hs' = <<>> /\ hst' = "respuesta"
    BY <1>1, <1>2, <1>3
  <2>3. ~(0 >= 1)
    OBVIOUS
  <2> QED
    BY <1>5, <1>6, <2>1, <2>2, <2>3 DEF Tras_el_mas
<1>9. \E q \in 0..Len(sh') : Tras_el_mas(q)'
  <2>1. 0 \in 0..Len(sh')
    BY <1>4
  <2> QED
    BY <1>8, <2>1
<1>10. hechas' >= 1 /\ hechas' <= 2 /\ hechas' <= envios'
  BY <1>1, <1>2
<1> QED
  BY <1>1, <1>2, <1>3, <1>6, <1>7, <1>9, <1>10 DEF Aceptada

\* The host loses its patience with the answer on its way.
LEMMA AceptadaLimpiaVence ==
  ASSUME ETipado, Aceptada_limpia, Vence
  PROVE  Aceptada'
<1>1. /\ gpc' = gpc /\ buffer' = buffer /\ respuesta' = respuesta /\ turno' = turno
      /\ hechas' = hechas /\ sh' = sh
  BY DEF Vence, stub
<1>2. /\ sh \in Seq(Articulo) /\ Len(sh) \in Nat /\ Len(sh) >= 1 /\ DOMAIN sh = 1..Len(sh) /\ sh # <<>>
      /\ hst \in {"ack", "respuesta"} /\ gpc = "ack" /\ hs = <<>>
      /\ hechas = 1 /\ envios >= 1 /\ respuesta = Actual
      /\ buffer[2] = DOSPUNTOS => ConSecuencia(Pedida)
  BY AceptadaForma, Zenon
<1>20. /\ hst = "ack" => Len(sh) > 1 /\ sh[1].t = "+"
       /\ sh[Len(sh)].t = "trama" /\ sh[Len(sh)].bien
       /\ \A p \in 1..Len(sh) :
            \/ sh[p].t = "otro"
            \/ p = Len(sh) /\ sh[p].t = "trama" /\ sh[p].r = Actual
            \/ p = 1 /\ hst = "ack" /\ p < Len(sh)
  BY AceptadaForma, Zenon
<1>3. turno \in 1..Len(Sesion) /\ envios \in 0..3 /\ hs \in Seq(Byte) /\ Len(hs) = 0
  BY <1>2 DEF ETipado, ETypeOK
<1>4. Trama_pedida
  BY <1>3, PedidaForma
<1>5. Actual' = Actual /\ Pedida' = Pedida /\ F' = F /\ LF' = LF /\ Trama_pedida'
      /\ LF \in Nat
  BY <1>1, <1>4, Misma DEF Trama_pedida
<1>6. CASE hst = "ack"
  <2>1. Repite
    BY <1>6 DEF Vence
  <2>2. hs' = hs \o F' /\ hst' = "ack" /\ envios' = IF envios = 3 THEN 3 ELSE envios + 1
    BY <1>5, <2>1 DEF Repite, Manda, F, Pedida
  <2>3. PICK d \in Int : d = 0
    OBVIOUS
  <2>4. \A p \in DOMAIN hs' : p > d => (hs'[p] = DOLAR <=> p = d + 1)
    BY <1>3, <1>5, <2>2, <2>3, VieneNueva
  <2>5. DOMAIN hs' = 1..Len(hs')
    BY <1>3, <1>5, <2>2, AlgoMas DEF Trama_pedida
  <2>6. Sordo'
    <3>1. ASSUME NEW p \in DOMAIN hs', hs'[p] = DOLAR, NEW q \in 1..p PROVE hs'[q] # MAS
      <4>1. p = 1
        BY <2>3, <2>4, <2>5, <3>1
      <4>2. q = p
        BY <4>1
      <4> QED
        BY <3>1, <4>2, Signos
    <3> QED
      BY <1>1, <1>2, <3>1 DEF Sordo
  <2>7. Tras_el_mas(1)'
    <3>1. ASSUME NEW p \in DOMAIN sh', p > 1
          PROVE  sh'[p].t \in {"trama", "otro"} /\ (sh'[p].t = "trama" => sh'[p].r = Actual')
      <4>1. p \in 1..Len(sh) /\ p # 1
        BY <1>1, <1>2, <3>1
      <4>2. sh[p].t = "otro" \/ (sh[p].t = "trama" /\ sh[p].r = Actual)
        BY <1>20, <4>1, Zenon
      <4> QED
        BY <1>1, <1>5, <4>2
    <3>2. \A p \in DOMAIN sh' : ~(p < 1)
      BY <1>1, <1>2
    <3>3. \E p \in DOMAIN sh' : p > 1 /\ sh'[p].t = "trama" /\ sh'[p].bien
      <4>1. Len(sh) > 1
        BY <1>20, <1>6, Zenon
      <4>2. Len(sh) \in DOMAIN sh
        BY <1>2
      <4> QED
        BY <1>1, <1>20, <4>1, <4>2, Zenon
    <3>4. 1 >= 1 /\ sh'[1].t = "+"
      <4>1. sh[1].t = "+"
        BY <1>20, <1>6, Zenon
      <4> QED
        BY <1>1, <4>1
    <3> QED
      BY <2>2, <3>1, <3>2, <3>3, <3>4 DEF Tras_el_mas
  <2>8. \E q \in 0..Len(sh') : Tras_el_mas(q)'
    <3>1. 1 \in 0..Len(sh')
      BY <1>1, <1>2
    <3> QED
      BY <2>7, <3>1
  <2>9. hechas' >= 1 /\ hechas' <= 2 /\ hechas' <= envios'
    BY <1>1, <1>2, <1>3, <2>2
  <2> QED
    BY <1>1, <1>2, <1>5, <2>2, <2>6, <2>8, <2>9 DEF Aceptada
<1>7. CASE hst = "respuesta"
  <2>1. hs' = hs \o <<MENOS>> /\ hst' = "insiste" /\ envios' = envios
    BY <1>7 DEF Vence, Manda
  <2>2. MENOS \in Byte /\ MENOS # DOLAR
    BY EnlaceAssumption, Signos
  <2>3. hs' = <<MENOS>>
    BY <1>2, <2>1
  <2>4. \A p \in DOMAIN hs' : hs'[p] # DOLAR
    BY <2>2, <2>3
  <2>5. Sordo'
    BY <1>1, <1>2, <2>4 DEF Sordo
  <2>6. Tras_el_mas(0)'
    <3>1. ASSUME NEW p \in DOMAIN sh'
          PROVE  /\ sh'[p].t \in {"trama", "otro"} /\ (sh'[p].t = "trama" => sh'[p].r = Actual')
                 /\ p > 0 /\ ~(p < 0)
      <4>1. p \in 1..Len(sh) /\ p > 0 /\ ~(p < 0)
        BY <1>1, <1>2, <3>1
      <4>2. sh[p].t = "otro" \/ (sh[p].t = "trama" /\ sh[p].r = Actual)
        BY <1>7, <1>20, <4>1, Zenon
      <4> QED
        BY <1>1, <1>5, <4>1, <4>2
    <3>2. \E p \in DOMAIN sh' : p > 0 /\ sh'[p].t = "trama" /\ sh'[p].bien
      <4>1. Len(sh) \in DOMAIN sh /\ Len(sh) > 0
        BY <1>2
      <4> QED
        BY <1>1, <1>20, <4>1, Zenon
    <3>3. ~(0 >= 1) /\ hst' # "ack"
      BY <2>1
    <3> QED
      BY <3>1, <3>2, <3>3 DEF Tras_el_mas
  <2>7. \E q \in 0..Len(sh') : Tras_el_mas(q)'
    <3>1. 0 \in 0..Len(sh')
      BY <1>1, <1>2
    <3> QED
      BY <2>6, <3>1
  <2>8. hechas' >= 1 /\ hechas' <= 2 /\ hechas' <= envios'
    BY <1>1, <1>2, <2>1
  <2> QED
    BY <1>1, <1>2, <1>5, <2>1, <2>5, <2>7, <2>8 DEF Aceptada
<1> QED
  BY <1>2, <1>6, <1>7

\* Another item in the place of the first.
LEMMA OtroPrimero ==
  ASSUME NEW s \in Seq(Articulo), s # <<>>, NEW m \in Articulo
  PROVE  /\ s[1] \in Articulo /\ [s EXCEPT ![1] = m] \in Seq(Articulo)
         /\ Len([s EXCEPT ![1] = m]) = Len(s) /\ [s EXCEPT ![1] = m][1] = m
<1>1. 1 \in 1..Len(s)
  BY EmptySeq
<1> QED
  BY <1>1, ExceptSeq

\* An item that the line damages keeps what it is.
LEMMA Danado ==
  ASSUME sh \in Seq(Articulo), sh # <<>>, sh' = [sh EXCEPT ![1].bien = FALSE]
  PROVE  sh' \in Seq(Articulo) /\ Len(sh') = Len(sh) /\ sh'[1].t = sh[1].t /\ sh'[1].r = sh[1].r
<1> DEFINE m == [sh[1] EXCEPT !.bien = FALSE]
<1>1. sh[1] \in Articulo
  <2>1. Senal("+") \in Articulo
    BY Senales
  <2> QED
    BY <2>1, OtroPrimero, Zenon
<1>2. m \in Articulo /\ m.t = sh[1].t /\ m.r = sh[1].r
  BY <1>1, Zenon DEF Articulo
<1>3. sh' = [sh EXCEPT ![1] = m]
  OBVIOUS
<1> HIDE DEF m
<1>4. /\ [sh EXCEPT ![1] = m] \in Seq(Articulo)
      /\ Len([sh EXCEPT ![1] = m]) = Len(sh) /\ [sh EXCEPT ![1] = m][1] = m
  BY <1>2, OtroPrimero, Zenon
<1>5. sh' \in Seq(Articulo) /\ Len(sh') = Len(sh) /\ sh'[1] = m
  BY <1>3, <1>4, Zenon
<1> QED
  BY <1>2, <1>5, Zenon

\* A request fails on its way to the stub.
LEMMA PendienteLimpiaFalla == ASSUME ETipado, Falla, Pendiente_limpia PROVE Pendiente'
<1>1. sh = <<>> /\ hst = "ack"
  BY DEF Pendiente_limpia, Pendiente_base
<1>2. \/ hs # <<>> /\ hs' = Tail(hs) /\ UNCHANGED <<stub, sh, host, hechas>>
      \/ Repite /\ UNCHANGED <<stub, sh, turno, hechas>>
  BY <1>1 DEF Falla, Vence
<1> QED
  BY <1>2, PendienteLimpiaPierde, PendienteLimpiaRepite

\* An answer fails on its way to the host.
LEMMA AceptadaLimpiaFalla ==
  ASSUME ETipado, Falla, Aceptada_limpia
  PROVE  Pendiente' \/ Aceptada'
<1>1. hs = <<>> /\ sh \in Seq(Articulo)
  BY DEF Aceptada_limpia, ETipado
<1>2. CASE sh # <<>> /\ sh' = Tail(sh) /\ UNCHANGED <<stub, hs, host, hechas>>
  BY <1>2, AceptadaLimpiaPierde
<1>3. CASE /\ sh # <<>> /\ sh[1].t = "trama"
           /\ sh' = [sh EXCEPT ![1].bien = FALSE]
           /\ UNCHANGED <<stub, hs, host, hechas>>
  <2>1. sh' \in Seq(Articulo) /\ Len(sh') = Len(sh) /\ sh'[1].t = sh[1].t /\ sh'[1].r = sh[1].r
    BY <1>1, <1>3, Danado
  <2>2. sh[1].t = "trama" /\ UNCHANGED <<stub, hs, host, hechas>>
    BY <1>3
  <2>3. sh'[1].t = "trama"
    BY <2>1, <2>2, Zenon
  <2> QED
    BY <2>1, <2>2, <2>3, AceptadaLimpiaDana
<1>4. CASE Vence
  BY <1>4, AceptadaLimpiaVence
<1> QED
  BY <1>1, <1>2, <1>3, <1>4, Zenon DEF Falla

\* While nothing has failed, a step that is not a failure.
LEMMA LimpiaSigue ==
  ASSUME ETipado, Lee \/ Pide \/ Oye \/ VenceTiempo,
         Libre_limpia \/ Pendiente_limpia \/ Aceptada_limpia
  PROVE  Libre_limpia' \/ Pendiente_limpia' \/ Aceptada_limpia'
<1>1. CASE Libre_limpia
  <2>1. sh = <<>> /\ hst = "libre"
    BY <1>1 DEF Libre_limpia
  <2>2. Lee \/ Pide
    BY <2>1 DEF Oye, VenceTiempo, Vence
  <2> QED
    BY <1>1, <2>2, LibreLimpiaLee, LibreLimpiaPide
<1>2. CASE Pendiente_limpia
  <2>1. sh = <<>> /\ hst = "ack"
    BY <1>2 DEF Pendiente_limpia, Pendiente_base
  <2>2. Lee \/ (hs = <<>> /\ sh = <<>> /\ Vence)
    BY <2>1 DEF Oye, VenceTiempo, Pide
  <2> QED
    BY <1>2, <2>2, PendienteLimpiaLee, PendienteLimpiaVence
<1>3. CASE Aceptada_limpia
  <2>1. hs = <<>> /\ sh # <<>> /\ hst # "libre"
    BY <1>3 DEF Aceptada_limpia
  <2>2. Oye
    BY <2>1 DEF Lee, VenceTiempo, Pide
  <2> QED
    BY <1>3, <2>2, AceptadaLimpiaOye
<1> QED
  BY <1>1, <1>2, <1>3

\* After one failure, a step that is not another.
LEMMA SuciaSigue ==
  ASSUME ETipado, Lee \/ Pide \/ Oye \/ VenceTiempo, Libre \/ Pendiente \/ Aceptada
  PROVE  Libre' \/ Pendiente' \/ Aceptada'
<1>1. CASE Lee
  BY <1>1, LibreLee, PendienteLee, AceptadaLee
<1>2. CASE Pide
  <2>1. Libre
    <3>1. hst = "libre"
      BY <1>2 DEF Pide
    <3> QED
      BY <3>1 DEF Pendiente, Pendiente_base, Aceptada
  <2> QED
    BY <1>2, <2>1, LibrePide
<1>3. CASE Oye
  BY <1>3, LibreOye, PendienteOye, AceptadaOye
<1>4. CASE VenceTiempo
  <2>1. hs = <<>> /\ sh = <<>> /\ Vence
    BY <1>4 DEF VenceTiempo
  <2>2. ~Libre
    BY <2>1 DEF Vence, Libre
  <2> QED
    BY <2>1, <2>2, PendienteVence, AceptadaVence
<1> QED
  BY <1>1, <1>2, <1>3, <1>4

\* Nor does anything change when nothing does.
LEMMA SigueQuieto == ASSUME Sigue, UNCHANGED evars PROVE Sigue'
<1>1. /\ gpc' = gpc /\ buffer' = buffer /\ count' = count /\ checksum' = checksum
      /\ xmitcsum' = xmitcsum /\ respuesta' = respuesta /\ hs' = hs /\ sh' = sh
      /\ hst' = hst /\ turno' = turno /\ envios' = envios /\ fallos' = fallos /\ hechas' = hechas
  BY DEF evars, stub, host
<1>2. Pedida' = Pedida /\ Actual' = Actual /\ F' = F /\ N' = N /\ LF' = LF
  BY <1>1, Misma
<1>3. Sordo' = Sordo /\ Copia_entera' = Copia_entera /\ Suma_media' = Suma_media
  BY <1>1, <1>2 DEF Sordo, Copia_entera, Suma_media
<1>4. /\ \A d : Viene(d)' = Viene(d) /\ Marcas(d)' = Marcas(d)
  BY <1>1, <1>2 DEF Viene, Marcas
<1>5. \A d : Llega(d)' = Llega(d)
  BY <1>1, <1>2, <1>3, <1>4 DEF Llega
<1>6. \A m : Prefijo(m)' = Prefijo(m) /\ Lugar(m)' = Lugar(m)
  BY <1>2 DEF Prefijo, Lugar
<1>7. \A m : Leyendo(m)' = Leyendo(m) /\ Danada(m)' = Danada(m)
  BY <1>1, <1>2, <1>3, <1>4, <1>6 DEF Leyendo, Danada
<1>8. /\ Atascado' = Atascado /\ Pendiente_base' = Pendiente_base /\ Sin_menos' = Sin_menos
      /\ \A g : Tras_el_mas(g)' = Tras_el_mas(g)
  BY <1>1, <1>2, <1>3 DEF Atascado, Pendiente_base, Sin_menos, Tras_el_mas, Enviada
<1>9. Libre => Libre'
  BY <1>1, <1>2, <1>3 DEF Libre
<1>10. Pendiente => Pendiente'
  BY <1>1, <1>2, <1>3, <1>5, <1>7, <1>8 DEF Pendiente
<1>11. Aceptada => Aceptada'
  BY <1>1, <1>2, <1>3, <1>8 DEF Aceptada
<1>12. Libre_limpia => Libre_limpia'
  BY <1>1, <1>2 DEF Libre_limpia
<1>13. Pendiente_limpia => Pendiente_limpia'
  BY <1>1, <1>2, <1>3, <1>5, <1>7, <1>8 DEF Pendiente_limpia
<1>14. Aceptada_limpia => Aceptada_limpia'
  BY <1>1, <1>2 DEF Aceptada_limpia
<1> QED
  BY <1>1, <1>9, <1>10, <1>11, <1>12, <1>13, <1>14 DEF Sigue

\* The host at rest, the line empty.
LEMMA SigueInit == ASSUME EInit PROVE Sigue
<1>1. /\ gpc = "espera" /\ buffer[2] = NUL /\ hs = <<>> /\ sh = <<>> /\ hst = "libre"
      /\ fallos = FALLOS /\ envios = 0 /\ hechas = 0
  BY EnlaceAssumption DEF EInit
<1>2. NUL # DOSPUNTOS
  BY Signos
<1>3. Libre_limpia
  BY <1>1, <1>2 DEF Libre_limpia
<1>4. fallos # FALLOS - 1
  BY <1>1, EnlaceAssumption
<1> QED
  BY <1>3, <1>4 DEF Sigue

\* No step leaves the three phases, if it is not the second failure.
LEMMA SigueSigue == ETipado /\ Sigue /\ [ENext]_evars => Sigue'
<1> SUFFICES ASSUME ETipado, Sigue, [ENext]_evars PROVE Sigue'
  OBVIOUS
<1>1. fallos \in 0..FALLOS /\ FALLOS \in Nat
  BY EnlaceAssumption DEF ETipado, ETypeOK
<1>2. CASE Lee \/ Pide \/ Oye \/ VenceTiempo
  <2>1. fallos' = fallos
    BY <1>2 DEF Lee, Pide, Oye, VenceTiempo
  <2>2. CASE fallos = FALLOS
    <3>1. Libre_limpia \/ Pendiente_limpia \/ Aceptada_limpia
      BY <2>2 DEF Sigue
    <3>2. Libre_limpia' \/ Pendiente_limpia' \/ Aceptada_limpia'
      BY <1>2, <3>1, LimpiaSigue
    <3>3. fallos' # FALLOS - 1
      BY <1>1, <2>1, <2>2
    <3> QED
      BY <3>2, <3>3 DEF Sigue
  <2>3. CASE fallos = FALLOS - 1
    <3>1. Libre \/ Pendiente \/ Aceptada
      BY <2>3 DEF Sigue
    <3>2. Libre' \/ Pendiente' \/ Aceptada'
      BY <1>2, <3>1, SuciaSigue
    <3>3. fallos' # FALLOS
      BY <1>1, <2>1, <2>3
    <3> QED
      BY <3>2, <3>3 DEF Sigue
  <2> QED
    BY <2>1, <2>2, <2>3 DEF Sigue
<1>3. CASE Falla
  <2>1. fallos' = fallos - 1
    BY <1>3 DEF Falla
  <2>2. fallos' # FALLOS
    BY <1>1, <2>1
  <2>3. CASE fallos = FALLOS
    <3>1. Libre_limpia \/ Pendiente_limpia \/ Aceptada_limpia
      BY <2>3 DEF Sigue
    <3>2. Libre' \/ Pendiente' \/ Aceptada'
      BY <1>3, <3>1, LibreLimpiaFalla, PendienteLimpiaFalla, AceptadaLimpiaFalla
    <3> QED
      BY <2>2, <3>2 DEF Sigue
  <2>4. CASE fallos # FALLOS
    <3>1. fallos' # FALLOS - 1
      BY <1>1, <2>1, <2>4
    <3> QED
      BY <2>2, <3>1 DEF Sigue
  <2> QED
    BY <2>3, <2>4
<1>4. CASE UNCHANGED evars
  BY <1>4, SigueQuieto
<1> QED
  BY <1>2, <1>3, <1>4 DEF ENext

\* So that the types and the phases hold for ever.
LEMMA EnlaceSigue == ESpec => [](ETipado /\ Sigue)
  BY ETipadoInit, ETipadoSigue, SigueInit, SigueSigue, PTL DEF ESpec

\* The phases say what the stub carries out.
LEMMA PedidoSolo == ASSUME ETipado, Sigue, fallos >= FALLOS - 1 PROVE SoloLoPedido
<1>1. fallos \in 0..FALLOS /\ FALLOS \in Nat /\ turno \in 1..Len(Sesion) /\ ETypeOK
  BY EnlaceAssumption DEF ETipado, ETypeOK
<1>2. fallos = FALLOS \/ fallos = FALLOS - 1
  BY <1>1
<1>3. turno \in DOMAIN Sesion
  BY <1>1, EnlaceAssumption
<1>4. (respuesta = Actual \/ Enviada) => \E k \in DOMAIN Sesion : respuesta = Contenido(Sesion[k])
  BY <1>3, Zenon DEF Actual, Pedida, Enviada
<1>5. CASE fallos = FALLOS
  <2>1. Libre_limpia \/ Pendiente_limpia \/ Aceptada_limpia
    BY <1>5 DEF Sigue
  <2>2. (gpc = "ack" => respuesta = Actual \/ Enviada) /\ hechas <= envios /\ hechas <= 1
    <3>1. CASE Libre_limpia
      BY <3>1 DEF Libre_limpia
    <3>2. CASE Pendiente_limpia
      BY <3>2 DEF Pendiente_limpia, Pendiente_base
    <3>3. CASE Aceptada_limpia
      BY <3>3 DEF Aceptada_limpia
    <3> QED
      BY <2>1, <3>1, <3>2, <3>3
  <2> QED
    BY <1>1, <1>4, <2>2 DEF SoloLoPedido, SoloLoEnviado, UnaVezPorEnvio
<1>6. CASE fallos = FALLOS - 1
  <2>1. Libre \/ Pendiente \/ Aceptada
    BY <1>6 DEF Sigue
  <2>2. (gpc = "ack" => respuesta = Actual \/ Enviada) /\ hechas <= envios
    <3>1. CASE Libre
      BY <3>1 DEF Libre
    <3>2. CASE Pendiente
      BY <3>2 DEF Pendiente, Pendiente_base
    <3>3. CASE Aceptada
      BY <3>3 DEF Aceptada
    <3> QED
      BY <2>1, <3>1, <3>2, <3>3
  <2>3. fallos # FALLOS
    BY <1>1, <1>6
  <2> QED
    BY <1>1, <1>4, <2>2, <2>3 DEF SoloLoPedido, SoloLoEnviado, UnaVezPorEnvio
<1> QED
  BY <1>2, <1>5, <1>6

\* Until a second failure, and for every session, what the stub carries out is
\* a request the host made, whole, no more often than it was sent, and once if
\* nothing has failed (gdb.c:136-214). With two failures two characters may be
\* lost whose sum is zero, and the rest of a request taken for one.
THEOREM EnlaceSoloLoPedido == ESpec => [](fallos >= FALLOS - 1 => SoloLoPedido)
<1>1. ETipado /\ Sigue => (fallos >= FALLOS - 1 => SoloLoPedido)
  BY PedidoSolo
<1> QED
  BY <1>1, EnlaceSigue, PTL

\* The phases say whose reply the host takes.
LEMMA RespuestaSuya ==
  ASSUME ETipado, Sigue, [ENext]_evars, hst' = "libre", hst # "libre", fallos >= FALLOS - 1
  PROVE  Head(sh).r = Contenido(Sesion[turno]) /\ hechas > 0
<1>1. fallos \in 0..FALLOS /\ FALLOS \in Nat
  BY EnlaceAssumption DEF ETipado, ETypeOK
<1>2. Oye
  <2>1. hst' # hst
    OBVIOUS
  <2>2. ~Lee /\ ~UNCHANGED evars
    BY <2>1 DEF Lee, evars, host
  <2>3. ~Vence
    BY DEF Vence, Repite
  <2>4. ~Falla
    BY <2>1, <2>3 DEF Falla, host
  <2>5. ~Pide /\ ~VenceTiempo
    BY <2>3 DEF Pide, VenceTiempo
  <2> QED
    BY <2>2, <2>4, <2>5 DEF ENext
<1>3. sh \in Seq(Articulo) /\ sh # <<>>
  BY <1>2, OyeForma
<1>4. Len(sh) >= 1 /\ Len(sh) \in Nat /\ DOMAIN sh = 1..Len(sh) /\ Head(sh) = sh[1]
  BY <1>3, EmptySeq, HeadTailProperties
<1>5. sh[1].t = "trama" /\ hst \in {"respuesta", "insiste"}
  <2>1. \/ hst' = "respuesta" \/ Repite
        \/ sh[1].t = "trama" /\ hst' = IF sh[1].bien /\ hst \in {"respuesta", "insiste"} THEN "libre" ELSE hst
        \/ hst' = hst
    BY <1>2, OyeForma, Zenon
  <2>2. ~Repite
    BY DEF Repite
  <2> QED
    BY <2>1, <2>2
<1>6. sh[1].r = Actual /\ hechas > 0
  <2>1. CASE fallos = FALLOS
    <3>1. Aceptada_limpia
      BY <1>5, <2>1 DEF Sigue, Libre_limpia, Pendiente_limpia, Pendiente_base
    <3>2. 1 = Len(sh) \/ 1 < Len(sh)
      BY <1>4
    <3>3. ~(1 < Len(sh))
      <4> SUFFICES ASSUME 1 < Len(sh) PROVE FALSE
        OBVIOUS
      <4>1. 1 \in DOMAIN sh
        BY <1>4
      <4>2. sh[1].t = "otro" \/ hst = "ack"
        BY <3>1, <4>1, Zenon DEF Aceptada_limpia
      <4> QED
        BY <1>5, <4>2
    <3>4. 1 = Len(sh) /\ 1 \in DOMAIN sh
      BY <1>4, <3>2, <3>3
    <3>5. sh[1].r = Actual
      BY <3>1, <3>4, Zenon DEF Aceptada_limpia
    <3>6. hechas = 1
      BY <3>1 DEF Aceptada_limpia
    <3> QED
      BY <3>5, <3>6
  <2>2. CASE fallos = FALLOS - 1
    <3>1. Aceptada
      BY <1>5, <2>2 DEF Sigue, Libre, Pendiente, Pendiente_base
    <3>2. PICK g \in 0..Len(sh) : Tras_el_mas(g)
      BY <3>1 DEF Aceptada
    <3>3. g = 0
      BY <1>4, <1>5, <3>2 DEF Tras_el_mas
    <3>4. 1 \in DOMAIN sh /\ 1 > g
      BY <1>4, <3>3
    <3>5. sh[1].r = Actual
      BY <1>5, <3>2, <3>4, Zenon DEF Tras_el_mas
    <3>6. hechas >= 1 /\ hechas \in 0..3
      BY <3>1 DEF Aceptada, ETipado, ETypeOK
    <3> QED
      BY <3>5, <3>6
  <2> QED
    BY <1>1, <2>1, <2>2
<1> QED
  BY <1>4, <1>6 DEF Actual, Pedida

\* For every session, with one failure at most, the reply that the host takes
\* was computed for its request, after it was made, although replies have no
\* number and putpacket repeats them for any character but '+'
\* (gdb.c:268-294).
THEOREM EnlaceRespuesta == ESpec => RespuestaDeSuPeticion
<1>1. ETipado /\ Sigue /\ [ENext]_evars =>
        [hst' = "libre" /\ hst # "libre" /\ fallos >= FALLOS - 1 =>
           Head(sh).r = Contenido(Sesion[turno]) /\ hechas > 0]_evars
  BY RespuestaSuya
<1> QED
  BY <1>1, EnlaceSigue, PTL DEF ESpec, RespuestaDeSuPeticion

\* In the buffer, a character of a request that fits finds its place and one for
\* the NUL.
LEMMA CabeLaPedida ==
  ASSUME ETipado, Lee, gpc = "datos", Libre_limpia \/ Pendiente_limpia \/ Aceptada_limpia,
         \A k \in DOMAIN Sesion : Len(Sesion[k]) < BUFMAX
  PROVE  pisado' = pisado
<1>1. PICK m \in 1..N + 3 : Leyendo(m)
  BY DEF Libre_limpia, Pendiente_limpia, Aceptada_limpia, Sordo, Llega
<1>2. Trama_pedida /\ turno \in DOMAIN Sesion
  BY LeeForma, EnlaceAssumption DEF ETipado, ETypeOK
<1>3. N \in Nat /\ N < BUFMAX /\ BUFMAX \in Nat /\ m \in Nat /\ m >= 1
  BY <1>2, EnlaceAssumption DEF Trama_pedida, N, Pedida
<1>4. Viene(-m) /\ gpc = Lugar(m) /\ count = m - 1
  BY <1>1 DEF Leyendo
<1>5. CASE m <= N
  <2>1. Head(hs) \notin {DOLAR, ALMOHADILLA}
    BY <1>3, <1>4, <1>5, FrenteDato
  <2>2. pisado' = pisado \/ count + 1 >= BUFMAX
    BY <2>1, LeeUnDato
  <2> QED
    BY <1>3, <1>4, <1>5, <2>2
<1>6. CASE ~(m <= N)
  <2>1. Head(hs) = ALMOHADILLA
    BY <1>3, <1>4, <1>6, FrenteDato
  <2> QED
    BY <2>1, LeeMarca
<1> QED
  BY <1>5, <1>6

\* Only a character of a packet can fill the buffer.
LEMMA SoloUnDato ==
  ASSUME ETipado, [ENext]_evars, pisado' # pisado
  PROVE  Lee /\ gpc = "datos"
<1>1. ~UNCHANGED stub
  BY DEF stub
<1>2. Lee
  BY <1>1 DEF ENext, Pide, Oye, VenceTiempo, Vence, Falla, evars
<1>3. LeeDato(Head(hs))
  BY <1>1, <1>2 DEF Lee, EsperaInicio, Empieza, LeeSuma1, LeeSuma2, LeeAck
<1> QED
  BY <1>2, <1>3 DEF LeeDato

\* No step but a failure brings the buffer's overflow about.
LEMMA SinDesbordeSigue == ETipado /\ Sigue /\ SinDesborde /\ [ENext]_evars => SinDesborde'
<1> SUFFICES ASSUME ETipado, Sigue, SinDesborde, [ENext]_evars PROVE SinDesborde'
  OBVIOUS
<1>1. Terminado'
  BY ETipadoSigue DEF ETipado
<1>2. fallos \in 0..FALLOS /\ FALLOS \in Nat /\ (fallos' = fallos \/ fallos' = fallos - 1)
  <2>1. fallos \in 0..FALLOS /\ FALLOS \in Nat
    BY EnlaceAssumption DEF ETipado, ETypeOK
  <2>2. fallos' = fallos \/ fallos' = fallos - 1
    BY DEF ENext, Lee, Pide, Oye, VenceTiempo, Falla, evars
  <2> QED
    BY <2>1, <2>2
<1>3. ASSUME pisado', ~(fallos' < FALLOS), \A k \in DOMAIN Sesion : ~(Len(Sesion[k]) >= BUFMAX)
      PROVE  FALSE
  <2>1. fallos = FALLOS /\ ~(fallos < FALLOS)
    BY <1>2, <1>3
  <2>2. ~pisado
    BY <1>3, <2>1 DEF SinDesborde
  <2>3. Lee /\ gpc = "datos"
    BY <1>3, <2>2, SoloUnDato
  <2>4. \A k \in DOMAIN Sesion : Len(Sesion[k]) < BUFMAX
    <3> SUFFICES ASSUME NEW k \in DOMAIN Sesion PROVE Len(Sesion[k]) < BUFMAX
      OBVIOUS
    <3>1. Sesion[k] \in Seq(Byte \ {NUL, DOLAR, ALMOHADILLA}) /\ BUFMAX \in Nat
      BY EnlaceAssumption
    <3>2. Len(Sesion[k]) \in Nat
      BY <3>1
    <3> QED
      BY <1>3, <3>1, <3>2
  <2>5. Libre_limpia \/ Pendiente_limpia \/ Aceptada_limpia
    BY <2>1 DEF Sigue
  <2>6. pisado' = pisado
    BY <2>3, <2>4, <2>5, CabeLaPedida
  <2> QED
    BY <1>3, <2>2, <2>6
<1> QED
  BY <1>1, <1>3 DEF SinDesborde, Terminado

\* For every size of the buffer and every session of requests that fit in it, the
\* NUL of gdb.c:170 is written behind remcomInBuffer only after the line has
\* failed; and until it is, no text read from the buffer leaves it
\* (SinDesborde).
THEOREM DesbordeSoloTrasFallo == ESpec => []SinDesborde
<1>1. EInit => SinDesborde
  BY EnlaceAssumption DEF EInit, SinDesborde
<1> QED
  BY <1>1, SinDesbordeSigue, EnlaceSigue, PTL DEF ESpec
=============================================================================
