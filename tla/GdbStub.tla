------------------------------- MODULE GdbStub -------------------------------
(***************************************************************************)
(* The debug stub of src/firmware/gdb-test/gdb.c with its vectors in       *)
(* crt0gdb.S: _handle_exception from the exception that stops the program  *)
(* to the command that lets it go on, request by request, the copies to    *)
(* and from memory byte by byte, with the bus errors the stub itself may   *)
(* cause. The host, the program and the processor are around it. Packets   *)
(* arrive whole; GdbEnlace is about how they do.                           *)
(*                                                                         *)
(* Scale: a word of memory and a register are one byte of two digits,      *)
(* instead of four of two, and the frame has three registers instead of    *)
(* 34: the one an indirect branch takes, the program counter and the       *)
(* exception.                                                              *)
(***************************************************************************)
EXTENDS GdbTexto, FiniteSets

CONSTANTS
  RAM,        \* the addresses that answer; any other one is a bus error
  Imagen,     \* the program, as it was loaded
  Insn,       \* what the processor does with each value of a word
  MAIN,       \* the program's first address
  TOPE,       \* half the size of remcomOutBuffer
  Peticiones  \* what the host may send

LM32_BREAK == 8

ASSUME StubAssumption ==
  /\ RAM \subseteq Byte /\ MAIN \in RAM /\ Imagen \in [RAM -> Byte]
  /\ LM32_BREAK \in Byte /\ TOPE \in Nat
  /\ Insn \in [Byte -> [tipo : {"otra", "ie", "bi", "be", "b", "break", "mal",
                                "div", "scall"}, des : Int]]
  /\ \A v \in Byte : Insn[v].tipo = "break" <=> v = LM32_BREAK

RA == 0
PC == 1
EID == 2
NUM_REGS == 3
Registros == 0..NUM_REGS - 1

BREAKPOINT == 1
INST_BUS_ERROR == 2
DATA_BUS_ERROR == 4
DIVIDE_BY_ZERO == 5
INTERRUPT == 6
SYSTEM_CALL == 7
Excepciones == {BREAKPOINT, INST_BUS_ERROR, DATA_BUS_ERROR, DIVIDE_BY_ZERO,
                INTERRUPT, SYSTEM_CALL}

VARIABLES
  mem,          \* memory
  ic,           \* what the instruction cache holds of it
  registers,    \* the program's registers: the frame while it is stopped
  ie, eie, bie, \* interrupts enabled, and the copies of the two exceptions
  stepping, seq_ptr, seq_insn, branch_step, branch_ptr, branch_insn,
  may_fault, mem_err,
  sigval,
  exc,          \* the vector by which the stub was entered
  pc,           \* where the stub is
  req, i, j,    \* the request in hand, turns of its loop, its next character
  resp,         \* the last reply
  memH,         \* ghost: memory as the host has reason to see it
  ieParada,     \* ghost: interrupts enabled when the program stopped
  ejec          \* ghost: instructions since it went on, counted to two

paso == <<stepping, seq_ptr, seq_insn, branch_step, branch_ptr, branch_insn>>
cpu == <<ie, eie, bie>>
fallo == <<may_fault, mem_err>>
bucle == <<req, i, j>>
parada == <<sigval, exc, ieParada>>
vars == <<mem, ic, registers, cpu, paso, fallo, parada, pc, bucle, resp, memH,
          ejec>>

Estados == {"corre", "orden", "copia", "anidado", "perdido"}
Nada == [cmd |-> "", a1 |-> <<>>, sep |-> TRUE, a2 |-> <<>>, dat |-> <<>>,
         bytes |-> <<>>]
Resp(t, v) == [t |-> t, v |-> v]

computeSignal(eid) ==
  CASE eid = INTERRUPT -> "INT"
    [] eid = BREAKPOINT -> "TRAP"
    [] eid \in {INST_BUS_ERROR, DATA_BUS_ERROR} -> "SEGV"
    [] eid = DIVIDE_BY_ZERO -> "FPE"
    [] OTHER -> "HUP"

\* The cache after a flush.
Vacia == [a \in RAM |-> Negativo]
-----------------------------------------------------------------------------
(* Entering and leaving *)

\* The breakpoints of a step are removed, the sequential one first.
Quita_una(m) == [m EXCEPT ![seq_ptr] = seq_insn]
Quita(m) ==
  LET m1 == [m EXCEPT ![seq_ptr] = seq_insn]
  IN IF branch_step THEN [m1 EXCEPT ![branch_ptr] = branch_insn] ELSE m1

\* A breakpoint stops the program with its interrupts saved in bie, any other
\* exception with them in eie.
Guarda_en_eie(e) == ie' = FALSE /\ eie' = ie /\ bie' = bie
Guarda(e) == /\ ie' = FALSE
             /\ bie' = IF e = BREAKPOINT THEN ie ELSE bie
             /\ eie' = IF e = BREAKPOINT THEN eie ELSE ie

allow_nested_exception == mem_err' = FALSE /\ may_fault' = TRUE
disallow_nested_exception == mem_err' = FALSE /\ may_fault' = FALSE

\* A data bus error while may_fault is set is taken for one of the stub's own.
FalloPropio(e) == may_fault /\ e = DATA_BUS_ERROR
Salteada == /\ mem_err' = TRUE /\ UNCHANGED may_fault
            /\ registers' = [registers EXCEPT ![PC] = (@ + 1) % (B * B)]

\* The T packet: the signal, and the registers a host wants first.
Aviso(e) == Resp("T", <<computeSignal(e), registers[PC]>>)

\* _handle_exception up to the first request. An interrupt is not handed to
\* the program, which has no way to set intr_handler in this configuration.
_handle_exception(e) ==
  IF FalloPropio(e)
  THEN Salteada /\ UNCHANGED <<mem, paso, parada, pc, resp>>
  ELSE /\ mem' = IF stepping THEN Quita(mem) ELSE mem
       /\ stepping' = FALSE
       /\ sigval' = computeSignal(e) /\ exc' = e /\ ieParada' = ie
       /\ registers' = [registers EXCEPT ![EID] = e]
       /\ resp' = Aviso(e) /\ pc' = "orden"
       /\ UNCHANGED <<seq_ptr, seq_insn, branch_step, branch_ptr, branch_insn, fallo>>

\* c and s go back to the program by the return of the vector that entered,
\* with the instruction cache flushed.
Reanuda_sin_vaciar == /\ pc' = "corre" /\ ejec' = 0 /\ ic' = ic
                      /\ ie' = IF exc = BREAKPOINT THEN bie ELSE eie
                      /\ UNCHANGED <<eie, bie>>
Reanuda == /\ pc' = "corre" /\ ejec' = 0
           /\ ic' = Vacia
           /\ ie' = IF exc = BREAKPOINT THEN bie ELSE eie
           /\ UNCHANGED <<eie, bie>>
-----------------------------------------------------------------------------
(* The program *)

\* The instruction the processor fetches.
Leida == IF ic[registers[PC]] # Negativo THEN ic[registers[PC]]
         ELSE mem[registers[PC]]
Cacheada == [ic EXCEPT ![registers[PC]] = Leida]

Destino(k) == (registers[PC] + k) % (B * B)

Ejecuta ==
  /\ pc = "corre" /\ registers[PC] \in RAM
  /\ LET t == Insn[Leida].tipo d == Insn[Leida].des
     IN /\ \E s \in CASE t = "bi" -> {Destino(d)}
                      [] t = "be" -> {Destino(d), Destino(1)}
                      [] t = "b" -> {registers[RA]}
                      [] t \in {"otra", "ie"} -> {Destino(1)}
                      [] OTHER -> {} :
             registers' = [registers EXCEPT ![PC] = s]
        /\ ie' = (ie \/ t = "ie")
  /\ ic' = Cacheada
  /\ ejec' = IF ejec = 2 THEN 2 ELSE ejec + 1
  /\ UNCHANGED <<mem, eie, bie, paso, fallo, parada, pc, bucle, resp, memH>>

\* An instruction that cannot end, or an interrupt before it begins.
Causa(e) ==
  CASE e = INTERRUPT -> ie
    [] e = INST_BUS_ERROR -> registers[PC] \notin RAM
    [] OTHER -> /\ registers[PC] \in RAM
                /\ Insn[Leida].tipo = CASE e = BREAKPOINT -> "break"
                                        [] e = DATA_BUS_ERROR -> "mal"
                                        [] e = DIVIDE_BY_ZERO -> "div"
                                        [] e = SYSTEM_CALL -> "scall"

Excepcion(e) ==
  /\ pc = "corre" /\ Causa(e)
  /\ _handle_exception(e)
  /\ Guarda(e)
  /\ ic' = IF e \in {INTERRUPT, INST_BUS_ERROR} THEN ic ELSE Cacheada
  /\ UNCHANGED <<bucle, memH, ejec>>
-----------------------------------------------------------------------------
(* The requests *)

Responde(r) == /\ resp' = r /\ pc' = "orden"
               /\ UNCHANGED bucle

Quieto == UNCHANGED <<ie, eie, bie, paso, fallo, parada, ic, memH, ejec, mem>>

Arg1(p) == hexToInt(p.a1)
Arg2(p) == hexToInt(p.a2)

\* The address and the length of m, M and X, as they parse.
Rango(p) == Arg1(p).numChars > 0 /\ Arg2(p).numChars > 0 /\ p.sep

\* The host numbers registers that there are and sends the bytes it says it
\* sends, in the code of the command: the stub checks none of it.
ASSUME PeticionesAssumption ==
  \A p \in Peticiones :
    /\ p.a1 \in Seq(Byte) /\ p.a2 \in Seq(Byte)
    /\ p.cmd \in {"p", "P"} /\ Arg1(p).numChars > 0 => Arg1(p).intValue \in Registros
    /\ p.cmd = "G" => Len(p.dat) = 2 * NUM_REGS
    /\ p.cmd \in {"M", "X"} /\ Rango(p) =>
         /\ p.bytes \in Seq(Byte) /\ Arg2(p).intValue = Len(p.bytes)
         /\ p.dat = IF p.cmd = "M" THEN EnHex(p.bytes) ELSE EnBinario(p.bytes)

UltimaSenal(p) ==
  /\ p.cmd = "?"
  /\ Responde(Resp("S", <<sigval>>)) /\ UNCHANGED registers /\ Quieto

LeeTodos(p) ==
  /\ p.cmd = "g"
  /\ Responde(Resp("datos", FlattenSeq([k \in 1..NUM_REGS |-> mem2hex(registers[k - 1])])))
  /\ UNCHANGED registers /\ Quieto

FijaTodos(p) ==
  /\ p.cmd = "G"
  /\ registers' = [r \in Registros |-> hex2mem(p.dat[2 * r + 1], p.dat[2 * r + 2])]
  /\ Responde(Resp("OK", <<>>)) /\ Quieto

LeeRegistro(p) ==
  /\ p.cmd = "p"
  /\ Responde(IF Arg1(p).numChars = 0 THEN Resp("E22", <<>>)
              ELSE Resp("datos", mem2hex(registers[Arg1(p).intValue])))
  /\ UNCHANGED registers /\ Quieto

FijaRegistro(p) ==
  /\ p.cmd = "P"
  /\ IF Arg1(p).numChars > 0 /\ p.sep
     THEN /\ registers' = [registers EXCEPT ![Arg1(p).intValue] = hex2mem(p.dat[1], p.dat[2])]
          /\ Responde(Resp("OK", <<>>))
     ELSE UNCHANGED registers /\ Responde(Resp("E22", <<>>))
  /\ Quieto

\* A request that no case takes has an empty reply.
Desconocida(p) ==
  /\ p.cmd = "q"
  /\ Responde(Resp("", <<>>)) /\ UNCHANGED registers /\ Quieto

\* m, M and X begin to copy with may_fault set; ptr and length as they parse.
EmpiezaCopia(p) ==
  /\ p.cmd \in {"m", "M", "X"}
  /\ UNCHANGED <<cpu, paso, parada, ic, memH, ejec, mem, registers>>
  /\ IF Rango(p) /\ (p.cmd = "m" => Arg2(p).intValue < TOPE)
     THEN /\ allow_nested_exception
          /\ pc' = "copia" /\ req' = p /\ i' = 0 /\ j' = 1
          /\ resp' = Resp("", <<>>)
     ELSE Responde(Resp("E22", <<>>)) /\ UNCHANGED fallo

Ptr == (Arg1(req).intValue + i) % (B * B)
Count == Arg2(req).intValue

\* The answer to the end of a copy: m gives what it read; M and X take the
\* pointer past the last byte for success, whatever it is.
Termina(r) == /\ pc' = "orden" /\ resp' = r
              /\ disallow_nested_exception
              /\ req' = Nada /\ i' = 0 /\ j' = 0
              /\ UNCHANGED <<cpu, paso, parada, ic, memH, ejec, mem, registers>>

TerminaCopia ==
  /\ pc = "copia" /\ ~mem_err /\ i = Count
  /\ Termina(IF req.cmd = "m" THEN Resp("datos", resp.v)
             ELSE IF Ptr # 0 THEN Resp("OK", <<>>) ELSE Resp("E14", <<>>))

TerminaNula == /\ pc = "copia" /\ mem_err
               /\ Termina(Resp("E14", <<>>))

\* One turn of mem2hex, hex2mem or bin2mem whose access is answered.
CopiaByte ==
  /\ pc = "copia" /\ ~mem_err /\ i < Count /\ Ptr \in RAM
  /\ LET b == IF req.cmd = "M"
              THEN [c |-> hex2mem(req.dat[j], req.dat[j + 1]), n |-> 2]
              ELSE bin2mem(req.dat, j)
     IN IF req.cmd = "m"
        THEN /\ resp' = [resp EXCEPT !.v = @ \o mem2hex(mem[Ptr])]
             /\ UNCHANGED <<mem, memH, j>>
        ELSE /\ mem' = [mem EXCEPT ![Ptr] = b.c]
             /\ memH' = [memH EXCEPT ![Ptr] = req.bytes[i + 1]]
             /\ j' = j + b.n
             /\ UNCHANGED resp
  /\ i' = i + 1
  /\ UNCHANGED <<cpu, paso, parada, ic, ejec, registers, fallo, pc, req>>

\* ... and one whose access is not: the processor enters _handle_exception
\* again, which sets mem_err and returns behind the access; eret brings back
\* the enable that the nested entry saved, which is off.
FalloCopia ==
  /\ pc = "copia" /\ ~mem_err /\ i < Count /\ Ptr \notin RAM
  /\ eie' = ie /\ UNCHANGED <<ie, bie>>
  /\ mem_err' = may_fault /\ UNCHANGED may_fault
  /\ pc' = IF may_fault THEN "copia" ELSE "anidado"
  /\ UNCHANGED <<paso, parada, ic, ejec, registers, bucle, resp, mem, memH>>
-----------------------------------------------------------------------------
(* Going on *)

\* The program counter after c or s: their argument is optional.
Desde(p) == IF Arg1(p).numChars > 0
            THEN [registers EXCEPT ![PC] = Arg1(p).intValue] ELSE registers

Continua(p) ==
  /\ p.cmd = "c"
  /\ registers' = Desde(p)
  /\ Reanuda
  /\ UNCHANGED <<paso, fallo, parada, bucle, resp, mem, memH>>

\* The instruction to step, and where it may jump.
Salta_incondicional(r) == Insn[mem[r[PC]]].tipo \in {"bi", "b"}
Salta(r) == Insn[mem[r[PC]]].tipo \in {"bi", "be", "b"}
branch_target(r) ==
  IF Insn[mem[r[PC]]].tipo = "b" THEN r[RA]
  ELSE (r[PC] + Insn[mem[r[PC]]].des) % (B * B)

\* The words s reads and patches, in its order; those of the rest of the
\* step are not reached when one is missing.
Siguiente(r) == (r[PC] + 1) % (B * B)
Alcanza(r) == /\ r[PC] \in RAM /\ Siguiente(r) \in RAM
              /\ Salta(r) => branch_target(r) \in RAM

Paso(p) ==
  LET r == Desde(p)
      m1 == [mem EXCEPT ![Siguiente(r)] = LM32_BREAK]
  IN /\ p.cmd = "s" /\ Alcanza(r)
     /\ registers' = r
     /\ stepping' = TRUE
     /\ seq_ptr' = Siguiente(r) /\ seq_insn' = mem[Siguiente(r)]
     /\ branch_step' = Salta(r)
     /\ IF Salta(r)
        THEN /\ branch_ptr' = branch_target(r)
             /\ branch_insn' = m1[branch_target(r)]
             /\ mem' = [m1 EXCEPT ![branch_target(r)] = LM32_BREAK]
        ELSE /\ mem' = m1
             /\ UNCHANGED <<branch_ptr, branch_insn>>
     /\ Reanuda
     /\ UNCHANGED <<fallo, parada, bucle, resp, memH>>

\* A word that s needs does not answer: the bus error is the stub's own, but
\* may_fault is not set. The nested entry removes the breakpoints of the last
\* step when it was the instruction itself, and a new host session begins in
\* the nested frame; when it was a word to patch, removing the breakpoint
\* faults again, and so on.
PasoSinMemoria(p) ==
  LET r == Desde(p)
  IN /\ p.cmd = "s" /\ ~Alcanza(r)
     /\ registers' = r
     /\ IF r[PC] \notin RAM
        THEN mem' = Quita(mem) /\ pc' = "anidado"
        ELSE mem' = mem /\ pc' = "perdido"
     /\ UNCHANGED <<cpu, ic, paso, fallo, parada, bucle, resp, memH, ejec>>

\* Neither state is left: what the host does in a nested frame is not
\* modelled, and the entries of "perdido" go on for ever.
Anidado == pc \in {"anidado", "perdido"} /\ UNCHANGED vars
-----------------------------------------------------------------------------
Atiende(p) ==
  \/ UltimaSenal(p) \/ LeeTodos(p) \/ FijaTodos(p) \/ LeeRegistro(p)
  \/ FijaRegistro(p) \/ Desconocida(p) \/ EmpiezaCopia(p)
  \/ Continua(p) \/ Paso(p) \/ PasoSinMemoria(p)

Init ==
  /\ mem = Imagen /\ memH = Imagen /\ ic = Vacia
  /\ registers = [r \in Registros |-> CASE r = PC -> MAIN [] r = EID -> BREAKPOINT
                                        [] OTHER -> 0]
  /\ ie = FALSE /\ eie = FALSE /\ bie = FALSE
  /\ stepping = FALSE /\ branch_step = FALSE
  /\ seq_ptr = 0 /\ seq_insn = 0 /\ branch_ptr = 0 /\ branch_insn = 0
  /\ may_fault = FALSE /\ mem_err = FALSE
  /\ sigval = "TRAP" /\ exc = BREAKPOINT /\ ieParada = FALSE
  /\ pc = "orden" /\ resp = Resp("T", <<"TRAP", MAIN>>)
  /\ req = Nada /\ i = 0 /\ j = 0 /\ ejec = 0

Corre == Ejecuta \/ \E e \in Excepciones : Excepcion(e)
Copia == CopiaByte \/ FalloCopia \/ TerminaCopia \/ TerminaNula

Next == \/ Corre
        \/ pc = "orden" /\ \E p \in Peticiones : Atiende(p)
        \/ Copia
        \/ Anidado

Spec == Init /\ [][Next]_vars
FairSpec == Spec /\ WF_vars(Corre) /\ WF_vars(Copia)
-----------------------------------------------------------------------------
\* Every variable has a value the code can give it; loops stay in their data.
TypeOK ==
  /\ mem \in [RAM -> Byte] /\ memH \in [RAM -> Byte]
  /\ ic \in [RAM -> Byte \cup {Negativo}]
  /\ registers \in [Registros -> Byte]
  /\ {ie, eie, bie, stepping, branch_step, may_fault, mem_err, ieParada} \subseteq BOOLEAN
  /\ seq_ptr \in RAM \cup {0} /\ branch_ptr \in RAM \cup {0}
  /\ seq_insn \in Byte /\ branch_insn \in Byte
  /\ sigval \in {"INT", "TRAP", "SEGV", "FPE", "HUP"} /\ exc \in Excepciones
  /\ pc \in Estados /\ req \in Peticiones \cup {Nada}
  /\ i \in 0..B * B /\ j \in 0..4 * B * B /\ ejec \in 0..2

\* While the stub listens to the host, memory is what was loaded and what the
\* host wrote: nothing of a step is left in it (gdb.c:772).
MemoriaIntegra == pc \in {"orden", "copia"} => mem = memH

\* A step of a branch to the instruction behind it sets its two breakpoints
\* at one address, the second over the first: there the stub saves its own
\* breakpoint for the program's word (gdb.c:1086-1097).
PasoVecino ==
  \E p \in Peticiones :
    /\ pc = "orden" /\ Paso(p)
    /\ Salta(Desde(p)) /\ branch_target(Desde(p)) = Siguiente(Desde(p))

\* The host never steps such a branch.
SinVecinos == [][~PasoVecino]_vars

\* MemoriaIntegra, with every register and every word the stub keeps of its
\* type: a number of the host's that does not fit is cut, not kept (gdb.c:772, 353).
StubIntegro == TypeOK /\ MemoriaIntegra

\* The reply to a copy tells the truth: OK, and all the host's bytes are in
\* memory; data, and they are memory's; E14, and a byte of the range does not
\* answer, unless the range ends at the top of memory or at address zero.
RespuestaVeraz ==
  [][pc = "copia" /\ pc' = "orden" =>
       LET a == Arg1(req).intValue n == Arg2(req).intValue
           D(k) == (a + k) % (B * B)
       IN \/ resp'.t = "OK" /\ \A k \in 0..n - 1 : mem[D(k)] = req.bytes[k + 1]
          \/ resp'.t = "datos" /\ resp'.v = EnHex([k \in 1..n |-> mem[D(k - 1)]])
          \/ resp'.t = "E14" /\ ((\E k \in 0..n - 1 : D(k) \notin RAM) \/ D(n) = 0)]_vars

\* Going on never gives the program interrupts that it had turned off, and
\* after a breakpoint it gives them back as they were, whatever the requests
\* in between; after another exception a bus error of the stub's loses them.
InterrupcionesAlReanudar ==
  [][pc = "orden" /\ pc' = "corre" =>
       (ie' => ieParada) /\ (exc = BREAKPOINT => ie' = ieParada)]_vars

\* A step comes back to the host, unless the program runs no more.
PasoTermina == (pc = "corre" /\ stepping) ~> pc # "corre"

\* The stub holds the program as Depurador says, the breakpoints of a step
\* and the cache out of its sight.
Abstracto == INSTANCE Depurador WITH
  N <- B * B, memoria <- IF stepping THEN Quita(mem) ELSE mem,
  base <- registers[RA], contador <- registers[PC],
  estado <- IF pc \in {"orden", "copia"} THEN "parado"
            ELSE IF pc = "corre" THEN "corre" ELSE "perdido",
  credito <- IF stepping THEN (IF ejec = 0 THEN 1 ELSE 0) ELSE -1

ImplementaDepurador == Abstracto!Spec
=============================================================================
