------------------------------ MODULE GdbTexto ------------------------------
(***************************************************************************)
(* The conversions of the debug stub, src/firmware/gdb-test/gdb.c, between *)
(* bytes and the characters of a packet. A byte has two digits of base B   *)
(* (sixteen in the code) and characters are bytes: the digits are the B    *)
(* codes from CERO on, ESC is the escape character 0x7d.                   *)
(***************************************************************************)
EXTENDS Integers, Sequences, SequencesExt

CONSTANTS
  B,      \* the base: 16 in the code
  CERO,   \* the character '0'
  ESC     \* the character 0x7d, which escapes the next one in an X packet

ASSUME BaseAssumption ==
  /\ B \in Nat /\ B > 1 /\ B % 2 = 0
  /\ CERO \in 1..B * B - B /\ ESC \in 1..B * B - 1

Byte == 0..B * B - 1
Digitos == CERO..CERO + B - 1
Negativo == -1

hexchars(d) == CERO + d

\* The value of a digit; -1 for any other character.
hex(ch) == IF ch \in Digitos THEN ch - CERO ELSE Negativo

\* The value of the first n characters of s, digits, in a register of two
\* digits (of eight in the code), which wraps.
Valor(s, n) ==
  LET v[k \in 0..n] == IF k = 0 THEN 0 ELSE (v[k - 1] * B + hex(s[k])) % (B * B)
  IN v[n]

\* The digits at the front of s: how many there are, and their value.
hexToInt(s) ==
  LET numChars == CHOOSE n \in 0..Len(s) :
                    /\ \A k \in 1..n : hex(s[k]) # Negativo
                    /\ n = Len(s) \/ hex(s[n + 1]) = Negativo
  IN [numChars |-> numChars, intValue |-> Valor(s, numChars)]

\* One turn of mem2hex: the two digits of a byte.
mem2hex(ch) == <<hexchars(ch \div B), hexchars(ch % B)>>

\* One turn of hex2mem: the byte of two digits. The code's "or" of a -1
\* fills the byte with ones.
hex2mem_desplaza(hi, lo) == hex(hi) * B * B + hex(lo)
hex2mem(hi, lo) ==
  IF hex(lo) = Negativo THEN B * B - 1
  ELSE IF hex(hi) = Negativo THEN (B - 1) * B + hex(lo)
       ELSE hex(hi) * B + hex(lo)

\* The exclusive or with 0x20, one bit of the first digit.
Mascara(c) == IF (c \div B) % 2 = 0 THEN c + B ELSE c - B

\* One turn of bin2mem at the j-th character of buf: the byte, and the
\* characters it takes.
bin2mem_sin_mascara(buf, j) == IF buf[j] = ESC THEN [c |-> buf[j + 1], n |-> 2]
                               ELSE [c |-> buf[j], n |-> 1]
bin2mem(buf, j) == IF buf[j] = ESC THEN [c |-> Mascara(buf[j + 1]), n |-> 2]
                   ELSE [c |-> buf[j], n |-> 1]

\* What the host writes, as the comments of gdb.c describe it: two digits a
\* byte, or the byte itself with ESC escaped.
EnHex(bytes) == FlattenSeq([k \in DOMAIN bytes |-> mem2hex(bytes[k])])
EnBinario(bytes) ==
  FlattenSeq([k \in DOMAIN bytes |->
    IF bytes[k] = ESC THEN <<ESC, Mascara(ESC)>> ELSE <<bytes[k]>>])
=============================================================================
