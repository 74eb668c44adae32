-------------------------------- MODULE Srec ---------------------------------
(***************************************************************************)
(* An S-record file as its two readers see it, src/tools/srec2vram and     *)
(* src/tools/uploader: a line has a type, the count of bytes behind it, an *)
(* address and the data, already out of their digits.                      *)
(*                                                                         *)
(* Scale: a byte has BB values and a number ANCHO bytes (256 and four).    *)
(***************************************************************************)
EXTENDS Integers, Sequences, FiniteSets

CONSTANTS
  BB,         \* values of a byte
  ANCHO,      \* bytes of a number
  Ficheros,   \* files to load
  LINESIZE    \* the line buffer of srec2vram: 200 in the code

Byte == 0..BB - 1

\* The weights of the bytes of a number, and the numbers.
Potencia[j \in Nat] == IF j = 0 THEN 1 ELSE BB * Potencia[j - 1]
M == Potencia[ANCHO]
Dir == 0..M - 1

\* Bytes that the count of a line counts besides its data: address and sum.
Cabecera(t) == CASE t = "S1" -> 3 [] t = "S2" -> 4 [] OTHER -> 5

Datos == {"S1", "S2", "S3"}

\* A line; only those with data have a count that is looked at.
LineaSrec == [tipo : STRING, cuenta : Nat, dir : Dir, dat : Seq(Byte)]

ASSUME SrecAssumption ==
  /\ BB \in Nat /\ BB > 1 /\ ANCHO \in Nat \ {0}
  /\ LINESIZE \in Nat /\ M \in Nat /\ LINESIZE < M
  /\ \A f \in Ficheros :
       /\ f # <<>>
       /\ f \in Seq(LineaSrec)
       /\ \A k \in DOMAIN f :
            /\ f[k].tipo \in Datos => f[k].cuenta = Cabecera(f[k].tipo) + Len(f[k].dat)
            /\ 4 + 2 * f[k].cuenta < LINESIZE

VARIABLE fichero     \* the file to load

\* The address of byte k of a line, and whether the line is data for a.
Lugar(l, k) == (l.dir + k - 1) % M
Cubre(l, a) == l.tipo \in Datos /\ \E k \in DOMAIN l.dat : Lugar(l, k) = a

\* What the file puts at address a: the byte of the last line that has one.
Cubierta(f) == {a \in Dir : \E n \in DOMAIN f : Cubre(f[n], a)}
Ultima(f, a) == CHOOSE n \in DOMAIN f :
                  Cubre(f[n], a) /\ \A m \in DOMAIN f : Cubre(f[m], a) => m <= n
Pone(f, a) == LET l == f[Ultima(f, a)]
              IN l.dat[CHOOSE k \in DOMAIN l.dat : Lugar(l, k) = a]
=============================================================================
