# A verification development for the SIM card reader

The repository is a system on a chip for a Spartan-3E board: an LM32 processor,
a Wishbone interconnect, a SIM card interface, a character display, a matrix
keyboard and a UART, with a program that shows the name and the number stored
on a card. With it come the programs of the system it grew out of: a boot loader
and its uploader, a hardware test with a timer, a debug stub for GDB and the
tools that turn a program into memory contents. This directory holds TLA+ modules translated from that code, the TLC
configurations that check them on small instances, and theorems checked by
TLAPS for every value of the constants.

The names of variables, states and operators are those of the source, in
Spanish where the source is in Spanish. `PROJECT.json` gives, for every
definition, the lines it stands for.

Contents: 1 inventory, 2 modules, 3 runs and bounds, 4 fairness and timing,
5 proofs, 6 where the code and its texts disagree, 7 what is not modelled.

## 1. Inventory

How the parts hang together:

```
  SIM card <--SIM_IO--> simcard.v --bytes--> Main_SIM.v --rows--> wb_simcard.v --+
  keys --> Keypad.v --code, pulse--> wb_keyboard.v --interrupt 2--> lm32 --------+-- wb_conbus
  display <-- LCD.v <-- Registro_LCD.v <-- Main_LCD.v <-- wb_lcd.v --------------+
                                                block RAM (program), UART -------+
```

| Part | State it keeps | Operations | What is hard | What makes it correct |
|---|---|---|---|---|
| Card interface, bit level (`wb_simcard/simcard.v`) | a state machine, three counters that clock one another, a shift register | read a byte, write a command byte, turn the line round, count a silent byte time | two ends on one wire that share nothing but the script; one tick more or less puts a sample in the neighbouring bit | nobody speaks over the other; every byte arrives whole, in both directions; the session ends |
| Capture memory and registers (`Main_SIM.v`, `wb_simcard.v`) | 64 cells and a six-bit pointer; the control register | store a byte, form a row, start and cut a session | the byte clock is gated by the count that it advances; the pointer is never reset | the rows show the record the card sent |
| Display (`wb_lcd/`) | registers, four state machines on both clock edges, a row register, a timer | write a row, change row, clear, power up | machines that wait for one another's levels; latches clocked by a decoded state; the bus master goes on writing | a row ordered is shown whole and unmixed before *ready*; *ready* means idle; it always comes back to ready |
| Keyboard (`wb_keyboard/`) | scan position, sampling divider, four samples, decoded code, pulse counter | scan, sample, decode, raise the interrupt | bounce; registers clocked by other registers; two periods that must agree | one interrupt for each press, and the code of the key |
| Interconnect (`wb_conbus/`) and memories (`wb_bram`, `wb_sram`) | the grant; the slaves' ack registers | arbitrate, decode, route the ack | all acks are joined and steered by the grant; a reset in the middle of an access | each word is done once and acknowledged to the master that asked; nobody is overtaken twice |
| Firmware (`firmware/sim-test`) | the program counter of `main` and of the interrupt handler, the display's data words, the interrupt flags | poll, write a row, start a session, take an interrupt | the handler runs between any two instructions of `main` and writes the same registers | rows are not mixed; the handler shows its four rows; nobody waits for ever |
| Processor (`rtl/lm32`) | third-party core | fetch, load, store, interrupt | its two bus masters and its interrupt flags meet the code above | modelled where it does: `Conbus`, `Firmware` |
| GDB stub (`firmware/gdb-test`) | the program's registers, up to two breakpoints of a step, the two saved interrupt enables, the packet buffer and its sum | packets and their retries; read and write registers and memory; step; go on; survive its own bus errors | the stub patches the program it debugs, faults inside itself, and speaks over a line that drops characters | memory is what the host thinks, replies are true, interrupts come back, only requests made are carried out |
| Boot loader and uploader (`firmware/boot0-serial`, `tools/uploader`) | the loader's command and counts; the uploader's place in the file, what it has cleared and compared | greet, upload, download, jump; clear, load line by line, check, start | neither checksum nor answer; a receiver of one byte; data told from commands only by counting | memory is the file when the program starts; the check blames nothing that is right; without the signature nothing is written |
| srec2vram (`tools/srec2vram`) | the memory image, a line buffer | read a line, place its bytes, print words | the last line is read twice; what malloc gave shows where the file has nothing | the words printed hold what the file puts there |
| Timer and hw-test (`wb_timer`, `firmware/hw-test`) | two counters with compare and trigger; the table of handlers, the tick count | sleep by polling, count ticks by interrupt, print, move the lights | a write and a match in the same cycle; an interrupt that ignores its enable; a handler that clears all pending bits | no tick lost, sleeps neither short nor long, numbers printed whole |
| UART (`wb_uart`) | receiver of one byte, transmitter's busy flag | read, write | overruns without a flag; writes while busy are dropped | modelled where it meets the code above: `Arranque`, `HwTest`; behind `GdbEnlace` it is a line that fails |
| GPIO, SPI, DDR, logic analyser, third-party cores, vendor models | see `PROJECT.json` | | | not modelled, see 7 |

Interactions. The firmware polls `sc_cr` and `lcd_cr` and writes `sc_reg`,
`lcd_ins` and the data words over the interconnect; the keyboard interrupts the
processor by a level that the processor latches; the card interface and the card
talk over one open-drain wire; the capture memory is clocked by the card
interface's byte counter. The loader, hw-test and the debug stub own the whole
machine while they run: the host at the other end of the UART, the timer's
interrupts and, for the stub, the program that it stopped are what they interact
with.

## 2. Modules

| Module | Models | One step is |
|---|---|---|
| `SimScript` | the session's script: which of the 131 bytes is whose, which byte times are silent, which bytes are captured (`simcard.v:199-280`) | (operators only) |
| `SimLine` | what the card interface promises: two ends that take turns along the script | an end begins or ends a byte, or the session is cut |
| `SimCard` | `simcard.v` and the card, bit by bit | one tick of the card's clock, or a change of `Habilitar` |
| `SimAcuerdo` | the agreement of the two ends, phase by phase: the inductive invariant of `SimCard` | |
| `SimCard_proofs` | theorems about `SimCard` | |
| `SimRegs` | capture memory, rows, control register | one byte time, or one bus write |
| `Lcd` | the five files of `rtl/wb_lcd` and the display | half a clock cycle |
| `Lcd_proofs` | theorems about `Lcd` | |
| `Keypad`, `MCKeypad` | scan, debounce, decoder, pulse, with a bouncing contact | one clock cycle, or a press or release |
| `Keypad_proofs` | theorems about `Keypad` | |
| `Conbus` | arbiter, decoder, ack routing, slaves, bus masters | one clock cycle |
| `Bus_proofs` | theorems about `Conbus` and `SimRegs` | |
| `Firmware` | `main` and `irq_handler` of `sim-test`, `lcd_wait`, `lcd_write`, the processor's interrupt flags | one register access, or an event of a device |
| `Firmware_proofs` | theorems about `Firmware` | |
| `GdbTexto` | the stub's conversions between bytes and characters | (operators only) |
| `Depurador` | what a debugger promises of the program it holds | the program executes, stops, starts, is written |
| `GdbStub`, `MCGdbStub` | `_handle_exception`: every request, copies with their bus errors, steps, the two levels of exceptions, the instruction cache; a program and a host | an instruction, an exception, a request, one turn of a copy |
| `GdbStub_proofs` | theorems about `GdbStub` and `GdbEnlace` | |
| `GdbEnlace`, `MCGdbEnlace` | `getpacket` and `putpacket`, a line that fails, a host that retries | one character, or an item the host hears |
| `Srec` | an S-record file as its readers see it | (operators only) |
| `Srec2vram` | `srec2vram.c` | one line |
| `Arranque` | the boot loader, the uploader, the UART between them | one byte |
| `Carga`, `MCCarga` | the two ways of a file to the board, side by side | one of either |
| `Carga_proofs` | theorems about both ways | |
| `WbTimer` | the two counters of `wb_timer.v` | one clock cycle, with an access or none |
| `HwTest` | hw-test on a machine with that timer: `main`, the interrupt handler and its table, the transmitter | one clock cycle |
| `HwTest_proofs` | theorems about `HwTest` | |

How state and actions correspond to the code:

*SimCard.* `EstadoActual`, `Enable`, `contador`, `contadorBit`, `contadorByte`
and `datos` are the registers of those names. In the code the counters clock one
another and the shift register is clocked by a decoded count; `Flanco`, one tick
of `CLK`, does all that such an edge sets off, in that order. `EnInactivo` to
`EnEscribirComando` are the branches of the state machine. A bit is not a level
but the place it comes from, `<<byte, position>>`: that is what "the byte
arrives whole" has to tell apart. The card is not part of the repository: it
follows the same script, waits at least two etu before it speaks, samples a bit
at a tick of its own and turns round when it has heard what it waits for; it may
be slow by any number of ticks up to a bound. Behind the header of a SELECT it may,
or may not, send the procedure byte that two comments of `simcard.v` place there
(`confirmada`). `Habilita` and `Deshabilita` come
at any tick, the system reset among them.

*SimLine* is the abstract specification. `SimCard` implements it: `lugar` is the
reader's byte counter with the silent byte times skipped, `hablan` who drives the
line, and `ImplementaLinea == Linea!Spec` says that every tick is a step of the
line discipline or a stutter. `SimLine` knows no procedure bytes: one ends its
session.

*SimRegs* takes from `SimCard` that bytes arrive whole and in order, and models
what is kept: `Dato_Valido` is the byte clock gated by the count that the same
clock advances, so that at the ends of a capture window a pulse, and a value,
may or may not come through (`Valores`). `EscribeSC_REG` and `BorraSC_REG` are
the two outcomes of a bus write.
The ghost `inicio` is where the pointer was when the session began.

*Lcd.* The timer and the bus registers move on the rising edge (`Sube`), the
state machines on the falling one (`Baja`); `registro` counts the letters a row
still has to send, `principal` and `lcd` are the states of `Main_LCD` and `LCD`,
`Encender` is the power-up sequence. The display keeps a cursor and what it was
sent (`rastro`). A word of text is the name of the text it is from. `maestro` is
chosen once: an obedient one waits for ready before each order, as the firmware
does; a free one writes anything at any time. The ghost `linea` is the line at
which the orders given so far put the next row: the first one after power-up or a
clear, the one that `ContadorFila` counts after a change, the one that the display
goes on with after a row; `Desplazada` behind a change that sent no address.

*Keypad.* `Barre`, `Divide`, `Filtra`, `Decodifica` and `Avisa` are the always
blocks of the two files. Where a register is clocked by another register's
output, what it reads of the signals that change on the same edge is left open.
The environment presses and releases keys, whose contacts bounce for a bounded
time (`Contacto`).

*Conbus.* `Arbitra` is the round of `wb_conbus_arb.v` (its eight `case` branches
are one formula: the next requester going up and round), `Contesta` the ack of a
slave with one wait state, which a peripheral gives to a write only with `sel[0]`
(`Oye`; `parcial` are the masters that write without it), `Maestro` the way the LM32's two bus units keep the
request through a line transfer and drop it for a cycle after it. `pend` counts
operations done and not yet acknowledged; `adelantos` who had the bus since a
master asked. `Reinicia` clears what the reset clears, and leaves the block
RAM's ack alone, which has no reset; nor has that of the static RAM of slave 0,
whose test of the reset (`wb_sram.v:52`) is overruled by what follows it. Both memories
write the same word twice, on the edge that sets the ack and on the one that clears
it; `Opera` counts that as one operation.

*Firmware.* `PMain` and `PManejador` are the two routines as sequences of
operations in source order; `pos` and `paso` are where each one is. `lcd_write`
is one poll, then one step for each data word, then the order
(`EmpiezaFila`, `EscribeDato`, `OrdenaFila`); `Interrumpe` may come between any
two of them. `Vuelve` is the end of `_interrupt_handler`: it clears all pending
bits, and a line that is still high sets its bit again. The display is taken at
the level that `Lcd` justifies (an order given when ready is carried out, one
given when busy is dropped), the card at the level that `SimCard` justifies
(*done* holds for one byte time). `resta` counts down the rows for which a session
that has begun goes on at least; only a poll of *done* lets more time pass than
that.

*GdbStub.* `Excepcion` is the entry of `crt0gdb.S` and the head of
`_handle_exception`, for the program's exceptions and for those of the stub's own
accesses (`may_fault`, `mem_err`). `pc` is where the stub is: the program runs, a
request is awaited (`orden`), a copy is under way (`copia`). A copy is one step a
byte, because each byte may fault. `stepping`, `seq_ptr`, `branch_ptr` and their
saved words are the variables of those names; `ic` is what the instruction cache
holds, so that a patch that is not flushed is a patch the processor does not see.
`memH` is the memory that the host has reason to believe in. `Depurador` is the
abstract specification: `ImplementaDepurador` hides the breakpoints of a step and
the cache.

*GdbEnlace.* `EsperaInicio` to `LeeAck` are the loops of `getpacket` and
`putpacket`, a character each. The buffer has its 0..`BUFMAX` - 1 places; `pisado`
says that the NUL of `gdb.c:170` has been written in the place behind them. Line and host fail a bounded number of times: a character lost, a
reply damaged or lost, an impatient host. The host retries as GDB does: it
repeats a request without acknowledgement, and asks again for a reply. Replies name
the request they answer; the code's do not, which is the point.

*Arranque* and *Srec2vram.* The loader reads byte by byte from a receiver that
holds one (`Llega`); the uploader's phases are those of its main loop: find the
loader, clear, send lines, compare, start. `firma` is the signature that it looks for,
in the loader's line or not; `count` how often it has asked. Both readers of a file see the same
`fichero`, and `Pone` is what the file means: the byte of its last line that has
one.

*HwTest.* `Programa` is `main` as the list of its accesses, `irq_handler` and
`tic_isr` are the handler's; each access reaches `Timer(op)` of `WbTimer` in the
cycle in which it ends, so that a match in the same cycle is a state of the model.
`RETRASO` lets the processor pause between any two.

## 3. Runs and bounds

| Run | Result | Shows |
|---|---|---|
| `SimCard` (on `SimAcuerdo`) | passes, 13 900 states | whole sessions of 131 bytes, cut at any tick, a card that is slow by 0 to 3 ticks at every byte and may send procedure bytes: the two ends collide over such a byte and nowhere else (`NoChoque`); up to one, bytes and commands intact, the agreement of the timers, the refinement of `SimLine`, the session reaches *done* |
| `SimRegs` | passes, 924 000 states | two sessions, cut anywhere, with any row selected: `FilasDelRegistro`, rows 0 and 1 hold the first record's name and number once it is in, and the second record does not disturb them, in a session that begins with the pointer at the first cell |
| `Lcd` | passes, 942 000 states | an obedient master: rows whole, unmixed and complete (`FilaMostrada`), each from the first column of the line at which it is due, the display's first row included (`FilaEnSuLinea`); any master: ready means idle (`DoneEsReposo`), nothing moves under E (`DatosEstables`), the controller comes back to ready (`SiempreVuelve`); resets at any half cycle |
| `Conbus` | passes, 20 700 states | three masters, a slave with a reset of its ack, which takes no write without `sel[0]`, one with neither, an address nobody answers: words exactly once, no overtaking, the inductive invariant of the proofs, service unless somebody sits at the mute address or at a write that is not taken |
| `Keypad` | passes, 14 500 states | presses at any phase of the scan with bounces shorter than a scan: one interrupt each (`PulsacionUnica`), right code once held (`Anunciada`) |
| `Firmware` | passes, 14 700 states | two keys at any instruction: no mixed row (`SinMezcla`), the handler's four rows shown and, without a key, main's (`FilasCompletas`), handlers end, keys are answered, `main` ends without a key |
| `FirmwareTecla` | violation of `MainTermina` | a key pressed while `main` polls, so late that its handler runs through the end of the session, makes `main` poll for ever |
| `GdbStub` | passes, 291 000 states | a program with every kind of instruction under a host that sends any of 16 requests in any order, also where there is no memory: memory is what the host thinks (`StubIntegro`), replies of copies are true, interrupts come back, a step comes back, the stub implements `Depurador` |
| `GdbPaso` | violation of `MemoriaIntegra` | a step over a conditional branch to the next instruction leaves its breakpoint in the program |
| `GdbEnlace` | passes, 37 100 states | three requests in turn over a line with two failures anywhere: only requests made are carried out, no more often than they were sent (`SoloLoPedido`), a NUL is written behind the buffer only after a failure (`SinDesborde`), each is answered (`Contestada`), and with one failure by its own reply |
| `Carga` | passes, 30 200 states | three files, with and without the check: memory is the file when the loader jumps (`CargaIntegra`), the words printed are (`VramCompleta`), the check blames nothing that is right, except behind a line of one byte or none (`SinFalsaAlarma`), a file with a start is started; with a signature that the loader does not print, the source's, the uploader gives up and nothing is written (`SesionAcaba`, `CargaIntegra`) |
| `HwTest` | passes, 529 000 states | all of hw-test from power-up, with the tick at any access: every tick counted once, numbers printed whole, `msleep` neither short nor long, the lights go on for ever |

The bounds, and why they are enough:

* `SimCard`: an etu of 8 ticks instead of 372. The timing relations that matter
  are the sampling points inside a bit and the one or two ticks between the
  timers, and all of them occur; the theorems of section 5 hold for every etu.
  The card's pause ranges over four values at every byte (`MinPausa` to
  `MaxPausa`), so that it ends before, on and after each reader tick that could
  tell them apart. The script is complete: all 131 bytes, all five commands.
* `SimRegs`: `Sesiones` bounds the number of sessions; with two, one may begin
  behind one that stored nothing (the property speaks of it) or something (it does
  not). The theorem holds for any number. Cells, pointer and
  script have their real sizes.
* `Lcd`: a write takes 6 ticks instead of 30000: the decoded instants (a third
  and two thirds of it, the end) are still distinct. A row has two words of two
  letters instead of five of four: first, inner and last letter and word exist.
  Two texts suffice to see a word of the wrong row.
  The theorems hold for every length, size and set of texts.
* `Conbus`: three masters are the least that can overtake while a third waits;
  transfers have one or two words (the first word, the last and the way from one
  to the next); any write to the peripheral may be one without `sel[0]`. The theorems
  hold for every number.
* `Keypad`: a column is driven for 4 cycles instead of 2501, the sampling divider
  has the same period, as in the code. `Rebote`, the longest bounce, is the
  largest for which the property holds: one cycle less than the four columns of
  a scan. With one more, TLC finds a second interrupt. `Pausa` is the shortest
  time between a press and a release, 44 cycles: longer than a bounce and two
  scans. Two keys in different columns and rows. The theorems hold for every
  period, pulse, bounce and pause that `RitmoAssumption` allows.
* `Firmware`: three data words instead of five (first, inner, last); two keys, so
  that one can be pressed while the other one's handler runs; a session of twelve
  rows at least, the figure of the code (section 4). The theorems hold for every
  number of each.
* `GdbStub`: a word of memory and a register are one byte of two digits of base 4
  (an overflow of a parsed number, a digit out of range and an escaped byte all
  exist), three registers (return address, program counter, exception), four
  words of memory with one instruction each, the rest of the addresses a bus
  error. The requests are those that read and write inside memory, across its end
  and nothing at all, and every other command letter.
* `GdbEnlace`: the longest request fills the buffer of 5 but for its NUL, so that
  one whose `#` is lost overflows it. The
  session has one with a sequence, one that overwrites what it left and a short
  one that does not (`SesionAssumption` has them come in such an order). Two
  failures: one damages an exchange, the second one its repair.
* `Carga`: bytes of eight values and numbers of two bytes; lines that overlap, end
  the window and contain the loader's command letters, one of a single byte and one of none. Two
  signatures, in the greeting and not; three tries (`max_tries`) instead of 32: first,
  second and the one that raises.
* `HwTest`: words of 6 bits, so that counters wrap within a run; a millisecond of
  30 cycles and a tick of 20, so that both counters match at every relative
  phase. A tick has room for the handler of the one before, 18 cycles here
  (`RitmoAssumption`); on the board it is 5000 (`soc-hw.c:92`), and the handler a
  few hundred instructions. The theorems hold for every width, period and pace that
  this assumption allows.

Deadlock is checked except in `Firmware`, whose program really ends (and, in
`FirmwareTecla`, really stops), and in `Carga`, which ends when the file is loaded.

## 4. Fairness and timing

* Clocks run: `WF` of the clock step in `SimCard`, `Lcd` and `Conbus`. The board's
  oscillator is the justification. Nothing else is fair: no end is obliged to
  speak, no master to ask, nobody to press a key.
* In `SimCard` the card's pause is bounded by `MaxPausa`; a card may not stay
  silent for ever.
* In `Firmware` the processor runs (`WF` of `Cpu`) and the devices finish what they
  do (`WF` of `LcdTermina`, `SimTermina`, `Suelta`). An enabled pending interrupt is
  taken before the next step of `main`, as the hardware does.
* In `GdbStub` the program runs and a copy goes on (`WF` of `Corre`, `Copia`); the
  host does not have to ask for anything. In `GdbEnlace` stub, line and
  host move, and failures are bounded by `FALLOS` and not fair. In `Carga` both
  programs run. In `HwTest` the clock runs, and the processor ends an access
  within `RETRASO` cycles.

Two facts about time enter the later models. In `Arranque` a byte takes longer on
the line than the loader between two reads, so that the receiver is overrun only
while the loader itself is sending; and the bytes under way are bounded by `COLA`,
which the uploader's reads justify. In `GdbEnlace` the host's time-out is longer
than an answer takes, *as a rule*: it expires when nothing is on the way, and one
that comes early is one of the failures.

`Firmware` uses four facts about time, from the constants of the code: an order
keeps the display busy for 0.6 ms at least (30000 cycles at 50 MHz), longer than
the code between two polls; a key's pulse has at most 250 cycles, 5 microseconds,
so that it is over before an order it saw beginning; *done* lasts a byte
time, 1.4 ms at least at 3.125 MHz and 372 ticks a bit, so that a loop that does
nothing but poll cannot miss it; and a session lasts 178 ms at least (95 bytes of
the card at 12 bit times, 36 of the reader at 10), while a row of the display and
the change of row take 12.6 ms at most, so that a session outlasts twelve rows
(`Renglones`): `main`, which has four, or `main` and a handler's four, is polling
before the session ends. They appear as guards: `LcdTermina` asks for
`Sondea` and for `pulso # "viejo"`, `SimPasa` for a program that is not polling,
`SimTermina` for `resta = 0`, which the rows or `main`'s polling reach.

The count that ends the key's pulse is written so that a netlist loads it
asynchronously while `presionar_db` is high (the synthesis report lists
asynchronous controls for each of its bits): the pulse may be much shorter than
250 cycles. `Keypad` leaves its length open; that at least one clock edge
sees it is an assumption.

## 5. Proofs

All proofs are for arbitrary constants under the named assumptions of the module.

*SimCard_proofs*, under `EtuAssumption` (the sampling points lie inside a bit),
`PausaAssumption` (two etu of guard time), for every card, until it sends a procedure
byte inside a command (`confirmada`); what comes after that is left to TLC:

* `TipoCorrecto`: `Spec => []TypeOK`.
* `SiempreDeAcuerdo`: `Spec => []Acuerdo` (which ends with `confirmada`). The properties speak of the line and of
  finished bytes, and neither is inductive: that the tenth sample is the parity
  bit of the right byte depends on where the other end's timer was a hundred
  ticks ago. `Acuerdo` says it for every phase: either nobody is in a frame and
  the two places in the script match, or the reader reads and the card's bit and
  tick are the reader's, one tick ahead, or the reader writes and the card is one
  or two ticks behind, according to whether the start bit came with the change of
  state or with the load. The proof has one step for each branch of the reader's
  machine and, within, one for each thing the card can do on that tick.
* `SinChoque`, `ByteIntegro`, `ComandoIntegro`: no collision before a procedure
  byte, `ByteLeido` and `ComandoOido` follow from `TypeOK` and `Acuerdo`.
* `LineaImplementada`: `Spec => ImplementaLinea`, the refinement of `SimLine`.
  `Situacion` says who speaks and where the two ends are in each phase of
  `Acuerdo`; an edge leads from the situation of one phase to that of the next,
  and each such pair is a step of `SimLine` or a stutter. Only a tenth bit moves
  the reader's place (`LugarLector`), only the end of a frame the card's
  (`LugarTarjeta`).

*Bus_proofs*, on `Conbus`, under `ConbusAssumption`, for any number of masters and
slaves:

* `SiempreIInv`: `Spec => []IInv`. `CadaPalabraUnaVez` needs `AckConDueno`: only a
  slave that has done the granted master's word has its ack set, and the
  exception, a slave without a reset, has it while nobody asks. `Turnos` needs
  `Ronda`: who has had the bus since *m* asked is either letting it go or further
  from the grant than *m* in the round.
* `ConbusTipo`, `PalabraExacta`, `RondaJusta`: `TypeOK`, `CadaPalabraUnaVez` and
  `Turnos`.

The same module, on `SimRegs`: `SiempreFilas`, `FilasDelRegistro` for any number of
sessions. `Puntero` gives the range of the pointer in each part of the script (a window of
the capture may store a byte as it closes), `Celdas1` the cells that the first
record has filled; the rest is that later bytes go to later cells.

*Lcd_proofs*, under `LcdAssumption` (a write of more than 5 ticks):

* `SiempreIInv`: the strengthening. `Acordes` says that the two state machines and
  the row register work on the same order, `Quieto` that the driver at rest has
  its timer at rest, `Escritura` what the row register and the display hold at
  each letter of an obedient master's row: copies of the words ordered, made
  before the master can write the next ones.
* `SiempreMostrada`, `ListoEsReposo`, `BusEstable`: `FilaMostrada`, `DoneEsReposo`
  and the action property `DatosEstables`.
* `SiempreEnSuLinea`: `FilaEnSuLinea`, with a second invariant, `Cursor`, which
  follows the display's cursor through rows, clears and changes of row, from
  power-up on.

*Firmware_proofs*, under `FirmwareAssumption`, for any size of a row, any number of
keys and any length of the session:

* `SiempreSinMezcla`: `SinMezcla`. What `main` has written of a row may have been
  overwritten when it gives the order. The invariant says that the order is then
  dropped: the handler returns with the display busy, and the display cannot end
  what it does while `main` is inside a row.
* `SiempreCompletas`: `FilasCompletas`. Who cannot be interrupted finds the display
  ready at each order, so that the orders taken are those of a table indexed by
  the place in the routine; `TablaManejador` and `TablaMain` show that the tables
  count the operations of the two routines.

*GdbStub_proofs*, under `StubAssumption` and `PeticionesAssumption` (the host
numbers registers that there are and sends as many bytes as it says, in the code of
the command: the stub checks none of it), for every program,
memory and order of requests:

* `SiempreGuardado`: the enable that the way out will give back is the one of the
  program (with an error of the stub's own, no more than it), and from it
  `InterrupcionesDevueltas`, the action property `InterrupcionesAlReanudar`.
* `StubTipado`: `Spec => []TypeOK`. Inductive with `Modo` (a step's breakpoints are
  in memory only while the program runs, a bus error is the stub's own only in a
  copy) and `Copiando` (where in its data a copy is: `hex2mem` and `bin2mem` take
  characters, and each byte has two of them, or one, or an escape and one).
* `RespuestasVeraces`: `RespuestaVeraz`, the reply to a copy is true of memory,
  wherever a bus error stops it. `Copiado` says what a copy has done so far; that
  it does not come back to an address it has been at (`Copia`'s addresses are
  distinct although they wrap) is a lemma.
* `RestosDePaso`: `SoloPuntosDeParada`. Whatever the steps, what they leave in memory
  while the stub listens is a breakpoint of theirs and nothing else.
* `MemoriaDelHost`: under `SinVecinos`, `StubIntegro`: while the stub listens, memory is
  the one the host has reason to believe in. The invariant is `Intacta`: memory
  without the breakpoints of the step in hand is the host's. `SinVecinos` says that
  the host steps no branch whose target is the instruction behind it. With such a
  step the property is false (`GdbPaso`, section 6), so that the hypothesis cannot be
  left out, and the program of run `GdbStub` satisfies it.
* `DepuradorImplementado`: under the same hypothesis, `ImplementaDepurador`, the
  refinement of `Depurador`. It needs `Puestos` (the breakpoints are where the
  instruction may go on, until it has been executed) and `Cache` (no line of the
  cache differs from memory while the program runs): without them an instruction
  could go on where the host does not see it, or a breakpoint be run past. The
  proof has one step for each action of the stub and shows which step, or
  stutter, of `Depurador` it is.

The first part of the module proves what the conversions of `GdbTexto` do to
sequences of any length. The library's induction theorems take an operator and
cannot be used with the provers at hand; the lemmas take the least length that
fails instead (`Minimo`, from `NatLessThanWellFounded`).

The last part is about `GdbEnlace`, under `EnlaceAssumption` (requests have no NUL, no
`$` and no `#`, the signs of the protocol are no digits, and the buffer has more than
two places: the code has 400) and `SesionAssumption` (a host does not make a request of
fewer than two characters behind one with a sequence: `gdb.c:198` would read the `:` that this one
left; section 6).

* `EnlaceTipado`: `ETypeOK`, for any number of failures: every character is written in
  `remcomInBuffer[0..BUFMAX-1]`, which needs the room that is left while a packet comes in
  (`Cabida`); with it `Terminado`, that the last place holds a NUL unless one has been
  written behind, so that a text ends in the buffer or there.
* `DesbordeSoloTrasFallo`: `SinDesborde`. The code writes behind its buffer; if the
  requests fit, only after the line has failed. It is a consequence of `Sigue` (below):
  before the first failure the characters counted are those of the request.
* `EnlaceSoloLoPedido`: until a second failure, `SoloLoPedido`, for every session: what
  the stub carries out is a request that was made, whole, no more often than it was
  sent, and once if nothing has failed.
* `EnlaceRespuesta`: `RespuestaDeSuPeticion`, which has that condition of its own: the
  reply that the host takes for its request's is, although replies have no number and
  `putpacket` sends one again for any character but `+`.

The invariant of the last three is `Sigue`. A request is in one of three phases: the host
is at rest (`Libre`), it waits for a `+` (`Pendiente`), or the stub has carried the
request out and the host waits for that `+` or for the reply (`Aceptada`). What may
still happen is a matter of what is on the line, of which there are five shapes:
nothing that will be read as a frame (`Sordo`), the frame of the request (`Llega`),
what is left of it while the stub reads it (`Leyendo`, which ties buffer, sum and count
to the characters that have gone), the same with one of them lost (`Danada`), and an
end of one that leaves the stub waiting for more (`Atascado`). The sum shows a lost
character because none is NUL (`SumaInyectiva`, `SumaCambia`), and a frame repeated behind
another is read as one (`OtraTrama`). `Libre_limpia`, `Pendiente_limpia` and
`Aceptada_limpia` are the phases before the first failure, with one frame, one answer
or one `+` on the line; each of the ways in which the first failure leaves them is a
lemma (`LibreLimpiaFalla`, `PendienteLimpiaFalla`, `AceptadaLimpiaFalla`). TLC checked
`Sigue` with one failure and with two on the session of the run and on fourteen others,
chosen for what they have in common with each other and with the signs of the protocol.

The condition cannot be left out: a second failure may lose a second character, and if
the sum of the two is zero the rest is carried out as if it had been sent; or it may
have the host take the reply to the request before.

*Keypad_proofs*, under `RitmoAssumption`: the scan and the sampling clock have one
period (both files say 2500), a contact bounces for less than a scan of the four
columns, and is let alone, down or up, for a bounce and five columns at least.
`UnSoloAviso` is `PulsacionUnica` and `TeclaAnunciada` is `Anunciada`, for every such
period, pulse, bounce and pause and every set of keys.

* `Barrido` ties the two dividers and the column together, so that the sample of
  each edge is of one column, which has been driven for a while.
* The rest counts edges since the key's own column was sampled (`Desde`), and says
  in which place of the shift register that sample is (`Pos`). `Muestras`: the
  other three are low; the key's is that of before it moved if it was taken before
  or on the edge of the move, the new one if it was taken when the contact was
  firm, and anything between. Two samples of a column are a scan apart, so only
  one of them can be in between: this is where the bound on the bounce is used.
* `Filtrado`: the filtered signal is that sample, a column late, and while the key
  is down it does not fall, while it is up it does not rise. `Cuenta` follows: one
  interrupt, between a press and the next.
* `Codigo` counts edges since the key's column began to be driven (`Captura`): with
  a firm contact the decoder's clock rises then and only then, a cycle behind the
  column's change, so that it reads that column and no other; what a bounce in the
  middle of a column made it take is put right on the next scan.
* `Firme`: with `Pausa` all of this is over before the key moves again.

*Carga_proofs*, under `SrecAssumption` (lines fit in the buffer, counts are those of
their data) and `VramAssumption` (the window does not end the address space):
`SiempreVram`, `VramCompleta` for every file and whatever `malloc` gave. The
invariant says that the image is that of the lines read so far; the second
reading of the last line changes nothing.

The same module, under `ArranqueAssumption` and `LineasAssumption` besides, proves
`CargaSiempreIntegra` (when the loader jumps, memory is what the file says) and
`SinFalsasAlarmas` (the check shows only differences that memory has) for every
such file, memory, width of a number, size of what is cleared, signature and order of
the bytes, and `SinFirmaNoEmpieza` (an uploader whose signature is not in the greeting
does not get behind `find_bootloader`, and nothing is written). `ArranqueAssumption` has the letters of the commands differ, what is
cleared lie in memory and end below the top address (`0x40002000` does), and one
newline in the greeting, its last character: `gets` reads to the first.
`LineasAssumption` is what the code needs of a file: a line that ended at the top
address would have `start+size` wrap and the loader's `for` read nothing of it
(`main.c:37`). Of a line of one byte the check asks two, of one of none it asks one
(`upload:179`), and compares the byte too many with 0, whatever memory should hold: `SinFalsasAlarmas` says that this is the only
difference shown that may be none (`Fundada`). What the files leave out is said in 6.

* The session is a list of commands known from the file (`Mandos`: clear, the
  lines, with the option the checks, jump). Neither the loader nor the wire says
  where one ends, so the invariant `CargaInv` does: there is a command d and an i
  such that the bytes on the way, the receiver's included, are those of command d
  from byte i + 1 and of the commands sent behind it (`Fila`).
* The loader's place says what it did with the first i (`Leyendo`): it waits for a
  letter, it has so many bytes of an address or a count and they are the number's
  leading ones, it is inside the loop of `u` or of `d`, or it has jumped.
* Memory is that of the commands carried out (`Cargada`), and of the first bytes
  of the one being loaded (`Cargandose`): the last command that covers an address
  decides, which is how a line that overlaps another is written over it.
* What the uploader has heard are memory's bytes from the address it asked for
  (`Oyendo`); while it waits for them nothing of its own is on the way. This is
  why the receiver of one byte is enough: the loader reads it at once unless it
  sends, and nothing arrives while it sends. The greeting is a phase of its own
  (`Saludando`), ended by the newline that the uploader waits for.
* Each operation of the loader and of the uploader has its lemma (`PasaOrden` to
  `PasaBaja`, `PasaLineas` to `PasaArranca`). At the jump d is the last command, so
  `Cargada` speaks of the whole file (`InvImagen`). Numbers come apart into bytes
  and together again for every width by `Minimo`, which is in this module as well.

TLC had checked `CargaInv` on the run's files before it was proved.

*HwTest_proofs*, under `HwTestAssumption` (the two periods fit in a word of the
timer, a number is a whole number of digits), `WbTimerAssumption` and
`RitmoAssumption` (a tick is longer than the handler of the one before, without which
ticks are lost):

* `NumerosIntegros` is `SalidaIntegra`, `NingunTicPerdido` is `TicsContados` and
  `MsleepSiempreJusto` the action property `MsleepJusto`, for every width of words and
  numbers, period, speed of the UART, number of turns of `main`'s loops and number of
  cycles the processor may pause.
* `Programa` is a sequence whose length depends on the constants. The first lemmas
  (`Plan`, `Lugares`, `Tras`) say which access is at each place and what comes behind
  it, once for all the rest. `Efecto`, `Servicio` and `Reposo` say what a cycle does
  in which `main`, the handler or neither takes a step; each part of the invariant is
  shown for the three of them.
* `Puesta` says what `main` has set up at each of its places: no interrupt comes before
  there is a handler for it, and the tick's counter is inside its first period until
  interrupts are enabled.
* `Manejador` bounds the cycles between the match and each place of the handler
  (`Cota`). So the handler is over before the next match, its write of TCR0 clears
  the match it was called for and no other, and of IP likewise. `Cuenta` follows: the
  counter in memory is behind by the tick that is on its way, and by no other.
* `Espera_msleep` follows `msleep`'s counter from the store of its period to the poll
  that ends it; `Margen` says that the poll is late by one handler at most, since the
  one that came between leaves the next match further away than the poll.
* `Transmisor` and `Numero`: a byte is written when the transmitter is free, and what
  the host has is the number's digits up to the place where `main` is.

TLC had checked this invariant on run `HwTest` as well.

Only model-checked: of `GdbEnlace`, `SoloLoPedido` after a second failure, which is a
property of the session of the run and not of every one. Liveness (`SesionTermina`,
`SiempreVuelve`, `SeAtiende`, `ManejadorTermina`, `MainTerminaSinTecla`,
`TeclaAtendida`, `PasoTermina`, `Contestada`, `SesionAcaba`, `LedsRecorren`) stays with
TLC: liveness under fairness is beyond the prover that is used.

## 6. Where the code and its texts disagree

Shown by a run:

* `main.c:46` polls *done* as a state, and `simcard.v:280` raises it for one byte
  time: `FirmwareTecla`. A key at power-up is harmless (its handler and `main`'s rows
  are over long before the session ends); the key of the run is pressed while `main`
  polls, less than a handler before the last byte.
* `gdb.c:1095` saves as the branch target's word the breakpoint put one statement
  before, when the branch goes to the next instruction: `GdbPaso`.

Seen while modelling, without a run:

* `LCD.v:86`: the change from the fourth row to the first writes a letter instead
  of an address, and the rows behind it begin where that letter left the cursor.
  `FilaEnSuLinea` leaves those rows out, up to the next change or clear.
* `Main_SIM.v:42`: the capture pointer is never reset: behind a session that stored
  a byte the rows are wrong; `FilasDelRegistro` speaks of the others.
* `simcard.v:204` and `:213`: the comments ("A4", "91") place a byte of the card
  inside SELECT, where the code has no state for one and writes on. A card that
  sends it, as the model's may, is written over, and then both ends wait for ever:
  `NoChoque` says that this is the only collision, `SesionTermina` leaves such a
  session out, and without these exceptions TLC refutes both.
* `Keypad.v:103`: the decoder is clocked by a signal that may rise as the column
  changes, so that the interrupt may come with the code of an earlier key;
  `Anunciada` promises the code once the key has been held.
* `wb_lcd.v:6` and `LCD_BUSY` of `soc-hw.h` place the busy bit at bit 4; `lcd_cr`
  (`wb_lcd.v:62`) has it at bit 1. Nothing polls it.
* `Keypad.v:4` and `Keypad_debounce.v:24` speak of 5 ms and 200 Hz; the constants
  give 50 microseconds and 20 kHz. The filter absorbs bounces shorter than
  200 microseconds.
* `wb_keyboard.v:7` gives KEY_DATA the address 0xF0020001; it answers at
  0xF0020004.
* `wb_timer.v:23` has an interrupt enable bit that the interrupt ignores (line 67):
  `msleep`'s polling raises the other line. A match in the cycle of a write to the
  control register is lost (line 123); `TicsContados` shows that hw-test does not
  meet it while the handler comes within a period. `soc-hw.c:92`: the tick is named
  for a millisecond and is a tenth of one; `msleep`'s product wraps above 85899 ms.
* `system.v` does not instantiate the timer that hw-test uses, and does not fix the
  interrupt lines: counter 0 is taken to be line 1, as the program takes it.
* The uploader waits for `**soc-lm32/bootloader**` (`upload:15`), the loader prints
  `**SAKC/bootloader** > ` (`main.c:51`): with the two texts of the source no program
  can be loaded, the uploader asks 31 times and raises. `Carga` has that case
  (`SesionAcaba`, second part; `SinFirma`), and for the rest of the session a signature
  that the loader does print. `read_timeout = 500` (`upload:46`) sets a local variable
  and no time-out, so that `gets` waits for a line. Only S3 lines are uploaded, and the repository's own
  `image.srec` files have S1; no checksum is verified anywhere; the check compares
  fewer bytes than a line has (`upload:179`), and one too many of a line of one byte or none,
  which it then blames (`SinFalsaAlarma` has it as its exception).
  Input left over from before, or a board reset as the uploader begins, has the
  loader greet twice, and bytes are overrun while it does. An uploader that stops
  inside `u` leaves the loader waiting for the rest.
* `srec2vram.c`: a window that ends at 2^32 extracts nothing; a line of 200
  characters or more is read as two; a size that is no multiple of four prints
  words behind the image; an empty file is processed as one uninitialised line.
  The assumptions of `Srec` and `Srec2vram` exclude them.
* `gdb.c:170`: a packet of `BUFMAX` characters has its NUL written one place behind
  the buffer, and is never answered. A longer request brings that about, or one that
  fits and loses its `#` on the line (`SinDesborde` says that nothing else does). `gdb.c:174`: a checksum digit that is none
  counts as -1, and two wrongs may make a right sum. `gdb.c:198`: the third character
  of a shorter packet is one of an earlier packet: a request of fewer than two
  characters behind one with a sequence is taken for that one's rest (`SesionAssumption` excludes it). Sums add characters, so that a
  lost zero byte is not noticed. With two failures the host may take the reply to
  its previous request for the one it waits for: replies have no number.
* `gdb.c:1057`: the words read and patched by a step are not covered by `may_fault`.
  `Depurador` promises nothing behind a step from, or into, missing memory
  (`Pierde`). A bus error of the stub's while it holds a program stopped by anything
  but a breakpoint loses the program's interrupt enable. An interrupt of the host's
  cancels a pending step. `p` and `P` do not check the register's number. A copy
  that ends at the top of memory, or has no byte at address zero, is answered `E14`
  although it succeeded. `system_conf.v:40` has `CFG_DEBUG_ENABLED` commented out.
* Row 2 takes cells 31 to 42 (`Main_SIM.v:81`); by the register-level reading of
  the capture window the second name begins at cell 29 or 30. Glitches of the
  gated byte clock, while several bits of the counter change, may add cells in a
  given netlist: nothing is claimed about rows 2 and 3.

## 7. What is not modelled, and why

* Analogue and gate-level effects: glitches of decoded clocks (beyond the choices
  named in section 2), metastability, the display's and the card's execution
  times.
* Contents of memory and the meaning of the bytes of the card: the script's bytes
  are known by their places.
* Instruction execution: a statement of the firmware is its accesses to the
  registers, in order.
* Two keys at once.
* In `SimRegs` and `Firmware`, a row is read in one step, although it is five
  words: a row shown during the session holds what has been captured so far in
  any case.
* The debug stub's features that `#undef` takes out of the build (system calls,
  hardware breakpoints, run lengths, restart), and a host that talks to a nested
  frame; the uploader's terminal mode and options.
* The bit timing of the UART and its late `rx_ack` (`uart.v:75`): the software above
  it meets bytes, and its overruns are modelled there.
* `mem-test` and `gdb-test`'s `main`: a dozen accesses without a state of their own,
  and the loop of lights that `HwTest` has.
* Third-party code: `rtl/lm32` as a processor, its debug and JTAG units, `cores`,
  `sim/unisims`. Where its behaviour matters, in its two bus masters and its
  interrupt flags, it is modelled with the code that meets it.
* What `system.v` does not instantiate and no modelled program uses: SPI, `wb_sram16`
  and `wb_sram32`, the DDR controller and its phase finder, the logic analyser. The
  correctness of the last two is one of clock phases and of two clocks; GPIO is two
  registers behind the handshake that `Conbus` has.
* Generated files (`build`).
