------------------------------ MODULE Depurador ------------------------------
(***************************************************************************)
(* What a debugger promises of the program it holds. While the program is  *)
(* stopped its memory and registers change only when the host writes them; *)
(* while it runs it executes the instructions that the host sees in        *)
(* memory, one after another, and a step lets it execute one at most. The  *)
(* debugger may lose its way only where the next instruction to run, or    *)
(* the one after it, is not in memory: nothing is promised from there on.  *)
(***************************************************************************)
EXTENDS Integers

CONSTANTS
  N,      \* how many addresses, and how many values a word has
  RAM,    \* the addresses that answer
  Insn    \* what the processor does with each value of a word

Byte == 0..N - 1

VARIABLES memoria, base, contador, estado, credito
vars == <<memoria, base, contador, estado, credito>>

SIN == -1     \* as many instructions as it likes

\* Where an instruction at address a may go on.
Sucesores(a) ==
  LET i == Insn[memoria[a]]
  IN CASE i.tipo = "bi" -> {(a + i.des) % N}
       [] i.tipo = "be" -> {(a + i.des) % N, (a + 1) % N}
       [] i.tipo = "b" -> {base}
       [] i.tipo \in {"otra", "ie"} -> {(a + 1) % N}
       [] OTHER -> {}

Init == /\ memoria \in [RAM -> Byte] /\ base \in Byte /\ contador \in Byte
        /\ estado = "parado" /\ credito = SIN

Escribe == /\ estado = "parado"
           /\ \E a \in RAM, b \in Byte : memoria' = [memoria EXCEPT ![a] = b]
           /\ UNCHANGED <<base, contador, estado, credito>>

Registra == /\ estado = "parado" /\ base' \in Byte /\ contador' \in Byte
            /\ UNCHANGED <<memoria, estado, credito>>

Arranca == /\ estado = "parado" /\ estado' = "corre"
           /\ credito' \in {1, SIN} /\ contador' \in Byte
           /\ UNCHANGED <<memoria, base>>

Ejecuta == /\ estado = "corre" /\ credito # 0 /\ contador \in RAM
           /\ contador' \in Sucesores(contador)
           /\ credito' = IF credito = SIN THEN SIN ELSE credito - 1
           /\ UNCHANGED <<memoria, base, estado>>

Para == /\ estado = "corre" /\ estado' = "parado" /\ credito' = SIN
        /\ UNCHANGED <<memoria, base, contador>>

Pierde == /\ estado = "parado" /\ estado' = "perdido" /\ contador' \in Byte
          /\ contador' \in RAM =>
               \E d \in Sucesores(contador') \cup {contador' + 1} : d \notin RAM
          /\ memoria' \in [RAM -> Byte]
          /\ UNCHANGED <<base, credito>>

Next == Escribe \/ Registra \/ Arranca \/ Ejecuta \/ Para \/ Pierde

Spec == Init /\ [][Next]_vars
=============================================================================
