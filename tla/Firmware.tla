------------------------------ MODULE Firmware ------------------------------
(***************************************************************************)
(* The program of firmware/sim-test on the machine of system.v: main and   *)
(* the interrupt handler share one processor, one display and one card     *)
(* interface.  A step is one access to a register, or an event of a device.*)
(*                                                                         *)
(* The display is what Lcd shows it to be for orders given one at a time:  *)
(* it takes an order when ready and drops it otherwise.  The session with  *)
(* the card is what SimCard shows it to be: done for one byte time.        *)
(*                                                                         *)
(* Four facts of time are kept.  The display takes longer (0.6 ms at       *)
(* least) than the code between two polls; a key's pulse, of 250 cycles,   *)
(* is over before the display ends an order it found running; the byte     *)
(* time of done (1.4 ms at least) is long enough for a loop that does      *)
(* nothing but poll it; and a session outlasts Renglones rows of the       *)
(* display, so that it ends in one of the first rows only by a wait: it is *)
(* main's poll that lets the time pass which the session still takes.      *)
(***************************************************************************)
EXTENDS Integers, Sequences

CONSTANTS
  Palabras,     \* data words of a row; 5 in the code
  Renglones,    \* rows, with their change, shorter than a session; 12 in the code
  Teclas        \* bound: keys pressed

ASSUME FirmwareAssumption ==
  Palabras \in Nat \ {0} /\ Renglones \in Nat /\ Teclas \in Nat

VARIABLES
  enIrq,        \* the handler runs
  ie, ip,       \* interrupts enabled and unmasked; key interrupt pending
  pos, paso,    \* main's and the handler's place: operation, step within it
  reg,          \* the row that each has read in order to write it
  lcd, dato,    \* the display: "inicia", "lista", "ocupada"; its data words
  mostrada,     \* the row last shown
  obra,         \* orders taken by the display since the handler began
  sim, sc_dw,   \* the session: "apagada", "leyendo", "hecha", "pasada"
  resta,        \* rows for which the session goes on at least
  pulso,        \* the key line: "no", "nuevo", "viejo" (an order began in it)
  teclas        \* keys pressed

cpu    == <<enIrq, ie, ip, pos, paso, reg>>
panel  == <<lcd, dato, mostrada, obra>>
tarjeta == <<sim, sc_dw, resta>>
teclado == <<pulso, teclas>>
vars == <<cpu, panel, tarjeta, teclado>>

Contextos == {"main", "irq"}

-----------------------------------------------------------------------------
(* The two routines, as operations in the order of the source.             *)

Op(o, a) == [op |-> o, arg |-> a]

Espera == Op("espera", 0)        \* lcd_wait
Fila(r) == Op("fila", r)         \* lcd_write
Chr == Op("chr", 0)              \* lcd_ins = LCD_CHR
Sim(w) == Op("sim", w)           \* sim_reg = enable, row w

\* Mutant: no wait between a row and the change of row.
Renglon_sin_espera(r) == <<Espera, Fila(r), Chr>>

Renglon(r) == <<Espera, Fila(r), Espera, Chr>>

\* Mutant: done is polled before the card is enabled.
PMain_sondeo_antes == <<Op("irq", 0)>>
           \o Renglon(1) \o Renglon(2) \o Renglon(3) \o Renglon(4)
           \o <<Op("sondeo", 0), Sim(0), Op("fin", 0)>>

PMain == <<Op("irq", 0)>>
           \o Renglon(1) \o Renglon(2) \o Renglon(3) \o Renglon(4)
           \o <<Sim(0), Op("sondeo", 0), Op("fin", 0)>>

\* Mutant: the row is written straight after the change of row.
Otra_sin_espera(w) == <<Espera, Chr, Sim(w), Fila(w)>>

Otra(w) == <<Espera, Chr, Espera, Sim(w), Fila(w)>>

\* Mutant: the handler waits for its last row.
PManejador_espera ==
  <<Espera, Sim(0), Fila(0)>> \o Otra(1) \o Otra(2) \o Otra(3) \o <<Espera>>

\* Mutant: the handler polls for the end of the session that it starts.
PManejador_sondea ==
  <<Espera, Sim(0), Op("sondeo", 0), Fila(0)>> \o Otra(1) \o Otra(2) \o Otra(3)

PManejador == <<Espera, Sim(0), Fila(0)>> \o Otra(1) \o Otra(2) \o Otra(3)

Rutina(c) == IF c = "main" THEN PMain ELSE PManejador

Corre == IF enIrq THEN "irq" ELSE "main"
Ahora == LET r == Rutina(Corre) IN
           IF pos[Corre] <= Len(r) THEN r[pos[Corre]] ELSE Op("vuelve", 0)

-----------------------------------------------------------------------------
Blanco == <<"blanco", 0>>

Init ==
  /\ enIrq = FALSE /\ ie = FALSE /\ ip = FALSE
  /\ pos = [c \in Contextos |-> 1] /\ paso = [c \in Contextos |-> 0]
  /\ reg = [c \in Contextos |-> Blanco]
  /\ lcd = "inicia" /\ dato = [w \in 1..Palabras |-> Blanco]
  /\ mostrada = dato /\ obra = <<>>
  /\ sim = "apagada" /\ sc_dw = 0 /\ resta = 0
  /\ pulso = "no" /\ teclas = 0

(* The processor.  c is the routine that runs.                             *)

Avanza(c) == pos' = [pos EXCEPT ![c] = @ + 1] /\ paso' = [paso EXCEPT ![c] = 0]
Dentro(c) == paso' = [paso EXCEPT ![c] = @ + 1] /\ UNCHANGED pos

\* IF ready THEN the display does it ELSE the order is lost.
Ordena(o) ==
  IF lcd = "lista"
    THEN /\ lcd' = "ocupada" /\ obra' = Append(obra, o)
         /\ mostrada' = IF o = "chr" THEN mostrada ELSE dato
         /\ pulso' = IF pulso = "nuevo" THEN "viejo" ELSE pulso
    ELSE UNCHANGED <<lcd, obra, mostrada, pulso>>

\* irq_enable and irq_set_mask.
HabilitaIrq(c) ==
  /\ Ahora.op = "irq" /\ Avanza(c)
  /\ ie' = TRUE
  /\ UNCHANGED <<enIrq, ip, reg, panel, tarjeta, teclado>>

\* IF ready THEN go on ELSE poll again.
EsperaLista(c) ==
  /\ Ahora.op = "espera" /\ lcd = "lista" /\ Avanza(c)
  /\ UNCHANGED <<enIrq, ie, ip, reg, panel, tarjeta, teclado>>

\* The words of a row are read, then the display is asked whether it is ready.
\* IF ready THEN write them ELSE leave the row out.
EmpiezaFila(c) ==
  /\ Ahora.op = "fila" /\ paso[c] = 0
  /\ IF lcd = "lista" THEN Dentro(c) ELSE Avanza(c)
  /\ reg' = [reg EXCEPT ![c] = <<c, IF c = "main" THEN Ahora.arg ELSE sc_dw>>]
  /\ UNCHANGED <<enIrq, ie, ip, panel, tarjeta, teclado>>

\* Mutant: one word too many.
EscribeDato_de_mas(c) ==
  /\ Ahora.op = "fila" /\ paso[c] \in 1..Palabras + 1 /\ Dentro(c)
  /\ dato' = [dato EXCEPT ![paso[c]] = reg[c]]
  /\ UNCHANGED <<enIrq, ie, ip, reg, lcd, mostrada, obra, tarjeta, teclado>>

EscribeDato(c) ==
  /\ Ahora.op = "fila" /\ paso[c] \in 1..Palabras /\ Dentro(c)
  /\ dato' = [dato EXCEPT ![paso[c]] = reg[c]]
  /\ UNCHANGED <<enIrq, ie, ip, reg, lcd, mostrada, obra, tarjeta, teclado>>

OrdenaFila(c) ==
  /\ Ahora.op = "fila" /\ paso[c] = Palabras + 1 /\ Avanza(c)
  /\ Ordena("wr")
  /\ resta' = IF lcd = "lista" /\ resta > 0 THEN resta - 1 ELSE resta
  /\ UNCHANGED <<enIrq, ie, ip, reg, dato, sim, sc_dw, teclas>>

OrdenaChr(c) ==
  /\ Ahora.op = "chr" /\ Avanza(c)
  /\ Ordena("chr")
  /\ UNCHANGED <<enIrq, ie, ip, reg, dato, tarjeta, teclas>>

\* Every value written enables the card: the session starts if none is on.
EscribeSim(c) ==
  /\ Ahora.op = "sim" /\ Avanza(c)
  /\ sc_dw' = Ahora.arg
  /\ sim' = IF sim = "apagada" THEN "leyendo" ELSE sim
  /\ resta' = IF sim = "apagada" THEN Renglones ELSE resta
  /\ UNCHANGED <<enIrq, ie, ip, reg, panel, teclado>>

\* IF done THEN go on ELSE poll again: nothing else bounds how long that lasts.
Sondeo(c) ==
  /\ Ahora.op = "sondeo"
  /\ IF sim = "hecha" THEN Avanza(c) /\ UNCHANGED resta
                       ELSE resta' = 0 /\ UNCHANGED <<pos, paso>>
  /\ UNCHANGED <<enIrq, ie, ip, reg, panel, sim, sc_dw, teclado>>

\* Mutant: the return from the exception forgets the interrupt enable.
Vuelve_sin_ie ==
  /\ enIrq /\ Ahora.op = "vuelve"
  /\ enIrq' = FALSE /\ ip' = FALSE /\ ie' = FALSE
  /\ pos' = [pos EXCEPT !["irq"] = 1]
  /\ UNCHANGED <<paso, reg, panel, tarjeta, teclado>>

\* All pending interrupts are cleared, one that came meanwhile as well, and
\* interrupts are enabled again; a line that is still high is seen again.
Vuelve ==
  /\ enIrq /\ Ahora.op = "vuelve"
  /\ enIrq' = FALSE /\ ip' = (pulso # "no") /\ ie' = TRUE
  /\ pos' = [pos EXCEPT !["irq"] = 1]
  /\ UNCHANGED <<paso, reg, panel, tarjeta, teclado>>

\* IF a key is pending and interrupts are on THEN the handler runs, between
\* any two instructions of main, and main's next one has to wait.
Pendiente == ie /\ ip /\ ~enIrq

Interrumpe ==
  /\ Pendiente
  /\ enIrq' = TRUE /\ ie' = FALSE /\ obra' = <<>>
  /\ UNCHANGED <<ip, pos, paso, reg, lcd, dato, mostrada, tarjeta, teclado>>

Paso(c) ==
  /\ c = Corre /\ ~Pendiente
  /\ \/ HabilitaIrq(c) \/ EsperaLista(c) \/ EmpiezaFila(c) \/ EscribeDato(c)
     \/ OrdenaFila(c) \/ OrdenaChr(c) \/ EscribeSim(c) \/ Sondeo(c)

Cpu == (\E c \in Contextos : Paso(c)) \/ Vuelve \/ Interrumpe

-----------------------------------------------------------------------------
(* The devices.                                                            *)

Sondea == Ahora.op \in {"espera", "sondeo", "fin"}

\* The display ends what it does, its power-up sequence too.
LcdTermina ==
  /\ lcd # "lista" /\ Sondea /\ pulso # "viejo"
  /\ lcd' = "lista"
  /\ UNCHANGED <<cpu, dato, mostrada, obra, tarjeta, teclado>>

\* The last byte of the session begins, not before its time.
SimTermina ==
  /\ sim = "leyendo" /\ resta = 0
  /\ sim' = "hecha"
  /\ UNCHANGED <<cpu, panel, sc_dw, resta, teclado>>

\* The last byte of the session ends: done is over.
SimPasa ==
  /\ sim = "hecha" /\ Ahora.op # "sondeo"
  /\ sim' = "pasada"
  /\ UNCHANGED <<cpu, panel, sc_dw, resta, teclado>>

Presiona ==
  /\ pulso = "no" /\ teclas < Teclas
  /\ pulso' = "nuevo" /\ ip' = TRUE /\ teclas' = teclas + 1
  /\ UNCHANGED <<enIrq, ie, pos, paso, reg, panel, tarjeta>>

Suelta ==
  /\ pulso # "no" /\ pulso' = "no"
  /\ UNCHANGED <<cpu, panel, tarjeta, teclas>>

Next == Cpu \/ LcdTermina \/ SimTermina \/ SimPasa \/ Presiona \/ Suelta

Spec == Init /\ [][Next]_vars

\* The processor runs and the devices finish; nobody has to press a key.
FairSpec ==
  /\ Spec
  /\ WF_vars(Cpu)
  /\ WF_vars(LcdTermina) /\ WF_vars(SimTermina) /\ WF_vars(Suelta)

-----------------------------------------------------------------------------
TypeOK ==
  /\ enIrq \in BOOLEAN /\ ie \in BOOLEAN /\ ip \in BOOLEAN
  /\ pos["main"] \in 1..Len(PMain) /\ pos["irq"] \in 1..Len(PManejador) + 1
  /\ paso \in [Contextos -> 0..Palabras + 1]
  /\ lcd \in {"inicia", "lista", "ocupada"}
  /\ sim \in {"apagada", "leyendo", "hecha", "pasada"} /\ sc_dw \in 0..3
  /\ resta \in 0..Renglones
  /\ pulso \in {"no", "nuevo", "viejo"} /\ teclas \in 0..Teclas

\* A row that is shown is one row of one writer, although the handler may
\* overwrite the data words between any two writes of main: the handler
\* returns with the display busy, so the order that main had half prepared is
\* dropped (soc-hw.c:56-66, main.c:3-23).
SinMezcla == \A v, w \in 1..Palabras : mostrada[v] = mostrada[w]

\* When the handler returns, its four rows are on the display, with the three
\* row changes between them, whatever main was doing (main.c:3-23).
CuatroFilas == <<"wr", "chr", "wr", "chr", "wr", "chr", "wr">>
ManejadorCompleto ==
  (enIrq /\ Ahora.op = "vuelve") => obra = CuatroFilas /\ mostrada[1] = <<"irq", 3>>

\* If no key is pressed, main's four rows are shown, each followed by a row
\* change: no order of main is lost (main.c:29-44).
MainCompleto ==
  (teclas = 0 /\ pos["main"] >= Len(PMain) - 2) => obra = CuatroFilas \o <<"chr">>

\* The two together, in a state of the right type: whoever writes, the display
\* gets the four rows it was meant to (main.c:3-44).
FilasCompletas == TypeOK /\ ManejadorCompleto /\ MainCompleto

\* The handler ends: each of its waits for the display is over some day
\* (main.c:3-23, soc-hw.c:51-54).
ManejadorTermina == enIrq ~> ~enIrq

\* If no key is pressed, main ends: the window of done is not missed
\* (main.c:45-46).
MainTerminaSinTecla == <>(teclas > 0 \/ Ahora.op = "fin")

\* A key pressed while main runs, or held when the handler returns, is
\* answered by the handler (crt0ram.S:94-102, main.c:27-28).
TeclaAtendida == (~enIrq /\ pos["main"] > 1 /\ pulso = "nuevo") ~> enIrq

\* main ends when the card is read ("while (! (sim0->sim_cr & SIM_DONE))",
\* main.c:46).
MainTermina == <>(pos["main"] = Len(PMain))
=============================================================================
