------------------------------- MODULE WbTimer -------------------------------
(***************************************************************************)
(* The two counters of src/rtl/wb_timer/wb_timer.v, cycle by cycle, under  *)
(* one access of the bus a cycle. IRQEN is written and read, and nothing   *)
(* else depends on it: it is left out.                                     *)
(***************************************************************************)
EXTENDS Integers

CONSTANT W      \* bits of a counter: 32 in the code

MOD == 2 ^ W

\* What a power of two is, for a prover that knows of none.
ASSUME WbTimerAssumption == MOD \in Nat \ {0}

Palabra == 0..MOD - 1

VARIABLES counter, compare, en, ar, trig     \* by counter, 0 and 1

timer == <<counter, compare, en, ar, trig>>

\* The accesses: a write of a register of counter t, or anything else.
Escribe(r, t, v) == [reg |-> r, t |-> t, v |-> v]
Nada == Escribe("", 0, 0)
TIMER_EN == [en |-> TRUE, ar |-> FALSE]
TIMER_EN_AR == [en |-> TRUE, ar |-> TRUE]

match(t) == (counter[t] = compare[t])

\* A write comes last in the source and wins over the counter's own step: the
\* trigger of a match in the cycle of a write to the control register is lost.
Timer(op) ==
  LET Es(r, t) == (op.reg = r /\ op.t = t)
  IN /\ counter' = [t \in {0, 1} |->
                      IF Es("counter", t) THEN op.v
                      ELSE IF ar[t] /\ match(t) THEN 1
                      ELSE IF en[t] /\ ~match(t) THEN (counter[t] + 1) % MOD
                      ELSE counter[t]]
     /\ trig' = [t \in {0, 1} |-> ~Es("tcr", t) /\ (trig[t] \/ (en[t] /\ match(t)))]
     /\ en' = [t \in {0, 1} |-> IF Es("tcr", t) THEN op.v.en
                                ELSE en[t] /\ (ar[t] \/ ~match(t))]
     /\ ar' = [t \in {0, 1} |-> IF Es("tcr", t) THEN op.v.ar ELSE ar[t]]
     /\ compare' = [t \in {0, 1} |-> IF Es("compare", t) THEN op.v ELSE compare[t]]

TimerInit == /\ counter = [t \in {0, 1} |-> 0]
             /\ compare = [t \in {0, 1} |-> MOD - 1]
             /\ en = [t \in {0, 1} |-> FALSE] /\ ar = en /\ trig = en

TimerTypeOK == /\ counter \in [{0, 1} -> Palabra] /\ compare \in [{0, 1} -> Palabra]
               /\ {en, ar, trig} \subseteq [{0, 1} -> BOOLEAN]
=============================================================================
