------------------------------- MODULE HwTest --------------------------------
(***************************************************************************)
(* The program of src/firmware/hw-test on a machine with the timer it was  *)
(* written for: main, the interrupt handler of crt0ram.S with soc-hw.c's   *)
(* table, the two counters of WbTimer and the transmitter of the UART. A   *)
(* step is a cycle of the clock, in which the processor ends an access or  *)
(* a few instructions, or does not.                                        *)
(*                                                                         *)
(* Scale: a second has SEG_MS milliseconds and SEG_TIC ticks (1000 and     *)
(* 10000), strings have one or two characters, there are two interrupt     *)
(* lines for 32.                                                           *)
(***************************************************************************)
EXTENDS WbTimer, Sequences

CONSTANTS
  FCPU, SEG_MS, SEG_TIC,
  TW,         \* bits of tic_msec, and of a number printed: 32 in the code
  DIGITO,     \* bits of a digit: 4
  VECES,      \* turns of main's timer test: 4
  LEDS,       \* 8
  TXC,        \* cycles of a character
  RETRASO     \* cycles the processor takes at most between two steps

TOPE == 2 ^ TW

\* Cycles that the handler takes at most, from the match on.
MARGEN == 8 * (RETRASO + 1) + 2

ASSUME HwTestAssumption ==
  /\ {FCPU, SEG_MS, SEG_TIC, VECES, LEDS, TXC, RETRASO} \subseteq Nat \ {0}
  /\ FCPU \div SEG_TIC < MOD /\ FCPU \div SEG_MS < MOD
  /\ {TW, DIGITO, TOPE} \subseteq Nat \ {0}
  /\ TW % DIGITO = 0

\* A tick is long enough for the handler of the one before.
ASSUME RitmoAssumption == MARGEN <= FCPU \div SEG_TIC

TIC == 1                 \* the line that main unmasks and tic_init registers
LineaDe(t) == 1 - t      \* counter 0 raises it, counter 1 another one
Lineas == {0, TIC}

VARIABLES
  mi,               \* main: its place in Programa
  hpc, pend,        \* the handler: where it is, and bits of pending left
  ie, im, ip, isr_table,
  tic_msec, val, out,
  tx_wr, tx_busy,   \* the transmitter: a byte to take, cycles left of one
  quieto,           \* cycles since the processor's last step
  salida,           \* ghost: characters that the UART took of the number printed
  ticks, t1         \* ghosts: matches of counter 0; cycles since msleep began

programa == <<mi, val, out>>
irq == <<hpc, pend, ie, im, ip, isr_table, tic_msec>>
uart == <<tx_wr, tx_busy, salida>>
vars == <<timer, programa, irq, uart, quieto, ticks, t1>>
-----------------------------------------------------------------------------
(* main, as its accesses in the order of the source *)

Op(o, a) == [op |-> o, a |-> a]
Reg(r, t, v) == Op("bus", Escribe(r, t, v))

\* Sequences of one length, one behind another.
Junta(s) == LET k == Len(s[1])
            IN [i \in 1..Len(s) * k |-> s[1 + (i - 1) \div k][1 + ((i - 1) % k)]]

uart_putchar_sin_esperar(ch) == <<Op("rxtx", ch)>>
uart_putchar(ch) == <<Op("ucr", 0), Op("rxtx", ch)>>
uart_putstr(n) == Junta([x \in 1..n |-> uart_putchar(<<"letra", 0>>)])

isr_init_olvidada == <<>>
isr_init == <<Op("isr_init", 0)>>

\* The tick: ten times as often as its name says.
tic_init == <<Op("tic_msec", 0),
              Reg("compare", 0, FCPU \div SEG_TIC), Reg("counter", 0, 0),
              Reg("tcr", 0, TIMER_EN_AR), Op("isr_register", 0)>>

Duracion(msec) == ((FCPU \div SEG_MS) * msec) % MOD
msleep_sin_cero(msec) == <<Reg("compare", 1, Duracion(msec)),
                           Reg("tcr", 1, TIMER_EN), Op("sondeo", msec)>>
msleep_sin_arrancar(msec) == <<Reg("compare", 1, Duracion(msec)),
                               Reg("counter", 1, 0), Op("sondeo", msec)>>
msleep(msec) == <<Reg("compare", 1, Duracion(msec)), Reg("counter", 1, 0),
                  Reg("tcr", 1, TIMER_EN), Op("sondeo", msec)>>

\* A number in digits, and in bits, the most significant first.
Digito(v, d) == (v \div 2 ^ (TW - DIGITO * d)) % 2 ^ DIGITO
Bit(v, d) == (v \div 2 ^ (TW - d)) % 2
writeint == Junta([d \in 1..TW \div DIGITO |-> uart_putchar(<<"digito", d>>)])
Desplaza == Junta([d \in 1..TW |-> uart_putchar(<<"bit", d>>)])

Prueba == uart_putstr(2) \o msleep(1)
Antes == uart_putstr(1) \o isr_init \o tic_init
         \o <<Op("irq_set_mask", {TIC}), Op("irq_enable", 0)>> \o uart_putstr(1)
Numeros == <<Op("lee", 0)>> \o writeint \o <<Op("escrito", "digitos")>>
           \o <<Op("lee", 0)>> \o writeint \o <<Op("escrito", "digitos")>>
           \o <<Op("lee", "val")>> \o Desplaza \o <<Op("escrito", "bits")>>
Gpio == Junta([x \in 1..LEDS |-> <<Op("gpio", x - 1)>> \o msleep(1)])
Programa == Antes \o Junta([x \in 1..VECES |-> Prueba]) \o Numeros \o Gpio
Bucle == Len(Programa) - Len(Gpio) + 1

Ahora == Programa[mi]
Avanza == mi' = IF mi = Len(Programa) THEN Bucle ELSE mi + 1
-----------------------------------------------------------------------------
(* The devices in a cycle: op is the access of the processor to the timer, *)
(* escribe tells that it writes a character to the UART, borra are the bits *)
(* of IP that it clears.                                                   *)

Suma(x, m) == (x + 1) % m
Lineas_altas == {LineaDe(t) : t \in {x \in {0, 1} : trig[x]}}

Dispositivos(op, escribe, borra) ==
  /\ Timer(op)
  /\ ip' = (ip \cup Lineas_altas) \ borra
  /\ tx_wr' = (escribe /\ tx_busy = 0)
  /\ tx_busy' = IF tx_wr /\ tx_busy = 0 THEN TXC
                ELSE IF tx_busy > 0 THEN tx_busy - 1 ELSE 0
  /\ ticks' = IF en[0] /\ match(0) THEN Suma(ticks, TOPE) ELSE ticks
  /\ t1' = IF op.reg = "tcr" /\ op.t = 1 THEN 0 ELSE IF t1 < MOD THEN t1 + 1 ELSE t1

\* The processor does nothing in this cycle.
Espera == /\ quieto < RETRASO /\ quieto' = quieto + 1
          /\ Dispositivos(Nada, FALSE, {})
          /\ UNCHANGED <<programa, hpc, pend, ie, im, isr_table, tic_msec, salida>>

\* Two accesses are at least two cycles apart.
Paso == quieto' = 0
Acceso == quieto > 0 /\ Paso

Interrumpe == ie /\ ip \cap im # {}
EnMain(o) == hpc = "no" /\ ~Interrumpe /\ Ahora.op = o
-----------------------------------------------------------------------------
(* Steps of main *)

EscribeRegistro ==
  /\ EnMain("bus") /\ Acceso /\ Avanza
  /\ Dispositivos(Ahora.a, FALSE, {})
  /\ UNCHANGED <<val, out, hpc, pend, ie, im, isr_table, tic_msec, salida>>

\* The polls: of TRIG in msleep, of BUSY in uart_putchar.
Sondea(o, listo) ==
  /\ EnMain(o) /\ Acceso
  /\ IF listo THEN Avanza ELSE UNCHANGED mi
  /\ Dispositivos(Nada, FALSE, {})
  /\ UNCHANGED <<val, out, hpc, pend, ie, im, isr_table, tic_msec, salida>>

Duerme == Sondea("sondeo", trig[1])
EsperaUart == Sondea("ucr", tx_busy = 0)

\* A character written while the transmitter is busy is dropped.
Putchar ==
  /\ EnMain("rxtx") /\ Acceso /\ Avanza
  /\ Dispositivos(Nada, TRUE, {})
  /\ salida' = IF tx_busy > 0 THEN salida
               ELSE CASE Ahora.a[1] = "digito" -> Append(salida, Digito(val, Ahora.a[2]))
                      [] Ahora.a[1] = "bit" -> Append(salida, Bit(val, Ahora.a[2]))
                      [] OTHER -> salida
  /\ UNCHANGED <<val, out, hpc, pend, ie, im, isr_table, tic_msec>>

\* The steps that are no access to the timer or the UART.
Instruccion(o) == /\ EnMain(o) /\ Paso /\ Avanza
                  /\ Dispositivos(Nada, FALSE, {})
                  /\ UNCHANGED <<hpc, pend>>

IsrInit == /\ Instruccion("isr_init")
           /\ isr_table' = [l \in Lineas |-> "isr_null"]
           /\ UNCHANGED <<val, out, ie, im, tic_msec, salida>>
IsrRegister == /\ Instruccion("isr_register")
               /\ isr_table' = [isr_table EXCEPT ![TIC] = "tic_isr"]
               /\ UNCHANGED <<val, out, ie, im, tic_msec, salida>>
TicCero == /\ Instruccion("tic_msec") /\ tic_msec' = 0
           /\ UNCHANGED <<val, out, ie, im, isr_table, salida>>
IrqSetMask == /\ Instruccion("irq_set_mask") /\ im' = Ahora.a
              /\ UNCHANGED <<val, out, ie, isr_table, tic_msec, salida>>
IrqEnable == /\ Instruccion("irq_enable") /\ ie' = TRUE
             /\ UNCHANGED <<val, out, im, isr_table, tic_msec, salida>>
LeeTic == /\ Instruccion("lee") /\ val' = tic_msec /\ salida' = <<>>
          /\ UNCHANGED <<out, ie, im, isr_table, tic_msec>>
Escrito == /\ Instruccion("escrito")
           /\ UNCHANGED <<val, out, ie, im, isr_table, tic_msec, salida>>
PonGpio == /\ Instruccion("gpio") /\ out' = {Ahora.a, LEDS - 1 - Ahora.a}
           /\ UNCHANGED <<val, ie, im, isr_table, tic_msec, salida>>

Main == \/ EscribeRegistro \/ Duerme \/ EsperaUart \/ Putchar
        \/ IsrInit \/ IsrRegister \/ TicCero \/ IrqSetMask \/ IrqEnable
        \/ LeeTic \/ Escrito \/ PonGpio
-----------------------------------------------------------------------------
(* The interrupt *)

Quieta == UNCHANGED <<programa, im, isr_table, salida>>

\* The handler is entered, and reads IP, masked bits too.
EntraIrq == /\ hpc = "no" /\ Interrumpe /\ Paso
            /\ hpc' = "irq_handler" /\ pend' = ip /\ ie' = FALSE
            /\ Dispositivos(Nada, FALSE, {})
            /\ UNCHANGED tic_msec /\ Quieta

\* One turn of irq_handler's loop that finds its bit set, or the loop's end.
LlamaIsr ==
  /\ hpc = "irq_handler" /\ Paso
  /\ Dispositivos(Nada, FALSE, {})
  /\ IF pend = {} THEN hpc' = "eret" /\ pend' = pend
     ELSE LET l == CHOOSE x \in pend : \A y \in pend : x <= y
          IN /\ pend' = pend \ {l}
             /\ hpc' = CASE isr_table[l] = "tic_isr" -> "tic_isr"
                         [] isr_table[l] = "isr_null" -> hpc
                         [] OTHER -> "perdido"
  /\ UNCHANGED <<ie, tic_msec>> /\ Quieta

TicIsr == /\ hpc = "tic_isr" /\ hpc' = "rearma" /\ Paso
          /\ tic_msec' = Suma(tic_msec, TOPE)
          /\ Dispositivos(Nada, FALSE, {})
          /\ UNCHANGED <<pend, ie>> /\ Quieta

Rearme == Escribe("tcr", 0, TIMER_EN_AR)
Rearma == /\ hpc = "rearma" /\ hpc' = "irq_handler" /\ Acceso
          /\ Dispositivos(Rearme, FALSE, {})
          /\ UNCHANGED <<pend, ie, tic_msec>> /\ Quieta

\* Every bit of IP is cleared; a line that is still up sets its bit again.
Borra_nada == {}
Borra == Lineas
Eret == /\ hpc = "eret" /\ hpc' = "no" /\ Paso
        /\ ie' = TRUE
        /\ Dispositivos(Nada, FALSE, Borra)
        /\ UNCHANGED <<pend, tic_msec>> /\ Quieta

Irq == EntraIrq \/ LlamaIsr \/ TicIsr \/ Rearma \/ Eret
-----------------------------------------------------------------------------
Init ==
  /\ TimerInit
  /\ mi = 1 /\ val = 0 /\ out = {}
  /\ hpc = "no" /\ pend = {} /\ ie = FALSE /\ im = {} /\ ip = {}
  /\ isr_table = [l \in Lineas |-> "nada"] /\ tic_msec = 0
  /\ tx_wr = FALSE /\ tx_busy = 0 /\ quieto = 0
  /\ salida = <<>> /\ ticks = 0 /\ t1 = 0

Next == Main \/ Irq \/ Espera

Spec == Init /\ [][Next]_vars

\* The clock ticks.
FairSpec == Spec /\ WF_vars(Next)
-----------------------------------------------------------------------------
\* Every variable has a value the code can give it; no interrupt reaches an
\* entry of the table that nobody has set.
TypeOK ==
  /\ TimerTypeOK
  /\ mi \in 1..Len(Programa) /\ {val, tic_msec, ticks} \subseteq 0..TOPE - 1
  /\ hpc \in {"no", "irq_handler", "tic_isr", "rearma", "eret"}
  /\ {pend, im, ip} \subseteq SUBSET Lineas /\ {ie, tx_wr} \subseteq BOOLEAN
  /\ isr_table \in [Lineas -> {"nada", "isr_null", "tic_isr"}]
  /\ tx_busy \in 0..TXC /\ quieto \in 0..RETRASO /\ Len(salida) <= TW

\* Every match of counter 0 is counted, once: tic_msec is behind only by the
\* one whose interrupt is on its way.
TicsContados ==
  mi > Len(Antes) =>
    \/ tic_msec = ticks
    \/ Suma(tic_msec, TOPE) = ticks /\ trig[0]

\* A number arrives at the host whole, digit by digit, whatever the
\* interrupts do meanwhile.
NumeroEscrito ==
  Ahora.op = "escrito" =>
    salida = IF Ahora.a = "digitos" THEN [d \in 1..TW \div DIGITO |-> Digito(val, d)]
             ELSE [d \in 1..TW |-> Bit(val, d)]

\* The same, with every handler that the interrupts call one of the program's,
\* and every counter of the timer in its range.
SalidaIntegra == TypeOK /\ NumeroEscrito

\* msleep lasts as long as it is told, and no more than an interrupt longer.
MsleepJusto ==
  [][Ahora.op = "sondeo" /\ mi' # mi =>
       t1 \in Duracion(Ahora.a)..Duracion(Ahora.a) + MARGEN]_vars

\* main comes to the lights and goes through all of them, for ever.
LedsRecorren == \A x \in 0..LEDS - 1 : x \notin out ~> x \in out
=============================================================================
