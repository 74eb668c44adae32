------------------------------ MODULE Arranque -------------------------------
(***************************************************************************)
(* The boot loader, src/firmware/boot0-serial/main.c, and the program that *)
(* talks to it, src/tools/uploader/upload, byte by byte over the UART: its *)
(* receiver holds one byte and nothing stops the sender. The signature     *)
(* that the uploader looks for is any of a set: that of the source, which  *)
(* the loader never prints, and one that it does.                          *)
(***************************************************************************)
EXTENDS Srec

CONSTANTS
  RAM,          \* addresses with memory
  PRIMERA,      \* what the uploader clears before it loads: 0x40000000
  CUANTAS,      \* and how many bytes, 0x2000
  RELLENO,      \* with what: 0x23
  ASTERISCO,    \* the '*' that main begins with
  U, D, G,      \* 'u', 'd', 'g'
  OTRA,         \* what find_bootloader sends
  Saludo,       \* the loader's line
  Firmas,       \* what BOOT_SIG may be
  max_tries,    \* the uploader gives up: 32
  COLA          \* bytes on the way that the uploader does not exceed

NUEVALINEA == Saludo[Len(Saludo)]

ASSUME ArranqueAssumption ==
  /\ RAM \subseteq Dir /\ {U, D, G, OTRA, RELLENO, ASTERISCO} \subseteq Byte
  /\ Cardinality({U, D, G, OTRA}) = 4 /\ ASTERISCO \notin {U, D, G}
  /\ PRIMERA \in Dir /\ CUANTAS \in Nat \ {0} /\ PRIMERA + CUANTAS < M
  /\ PRIMERA..PRIMERA + CUANTAS - 1 \subseteq RAM
  /\ Saludo \in Seq(Byte) /\ Saludo # <<>>
  /\ \A x \in 1..Len(Saludo) - 1 : Saludo[x] # NUEVALINEA
  /\ Firmas # {} /\ max_tries \in Nat /\ max_tries > 1
  /\ COLA \in Nat

VARIABLES
  lpc, c, k,          \* the loader: where it is, the command, bytes of a number
  start, size, p,
  mem,
  rx,                 \* the UART's receiver; NADA when empty
  hl, lh,             \* bytes on the way to the loader, and from it
  upc, n,             \* the uploader: where it is, and lines of the file read
  check, startAddress, ist_data, difs,
  firma, count        \* its signature, BOOT_SIG, and how often it asked

boot == <<lpc, c, k, start, size, p>>
sube == <<upc, n, check, startAddress, ist_data, difs, firma, count>>
avars == <<boot, mem, rx, hl, lh, sube>>

NADA == -1
-----------------------------------------------------------------------------
(* The UART and its functions *)

\* A byte is in: one still in the receiver is lost. A byte takes longer than
\* the loader between two reads, so that happens only while it sends.
Llega == /\ hl # <<>> /\ (rx = NADA \/ lpc \in {"saluda", "baja"})
         /\ rx' = Head(hl) /\ hl' = Tail(hl)
         /\ UNCHANGED <<boot, mem, lh, sube>>

uart_getchar == rx # NADA /\ rx' = NADA
uart_putchar(b) == lh' = Append(lh, b)
-----------------------------------------------------------------------------
(* The loader *)

\* read_uint32: the most significant byte first.
read_uint32(val) == (val * BB + rx) % M

\* The byte in hand is the number's last.
Ultimo_tarde(x) == x = ANCHO
Ultimo(x) == x + 1 = ANCHO

\* uart_putstr stops at the NUL.
Letra(x) == IF x < Len(Saludo) THEN Saludo[x + 1] ELSE 0
Acaba_con_nul(x) == x = Len(Saludo)
Acaba(x) == x + 1 = Len(Saludo)

Saluda ==
  /\ lpc = "saluda"
  /\ uart_putchar(Letra(k))
  /\ IF Acaba(k) THEN lpc' = "orden" /\ k' = 0 ELSE lpc' = lpc /\ k' = k + 1
  /\ UNCHANGED <<c, start, size, p, mem, rx, hl>>

Orden ==
  /\ lpc = "orden" /\ uart_getchar
  /\ c' = rx /\ k' = 0 /\ start' = 0 /\ size' = 0
  /\ lpc' = IF rx \in {U, D, G} THEN "start" ELSE "saluda"
  /\ UNCHANGED <<p, mem, hl, lh>>

\* The loops' condition, in the arithmetic of 32 bits.
Quedan(q, s, z) == q < (s + z) % M

Entra(s, z) == /\ p' = s
               /\ lpc' = IF ~Quedan(s, s, z) THEN "orden"
                         ELSE IF c = U THEN "sube" ELSE "baja"

Start ==
  /\ lpc = "start" /\ uart_getchar
  /\ start' = read_uint32(start)
  /\ IF ~Ultimo(k) THEN k' = k + 1 /\ lpc' = lpc
     ELSE k' = 0 /\ lpc' = IF c = G THEN "saltado" ELSE "size"
  /\ UNCHANGED <<c, size, p, mem, hl, lh>>

Size ==
  /\ lpc = "size" /\ uart_getchar
  /\ size' = read_uint32(size)
  /\ IF ~Ultimo(k) THEN k' = k + 1 /\ UNCHANGED <<lpc, p>>
     ELSE k' = 0 /\ Entra(start, size')
  /\ UNCHANGED <<c, start, mem, hl, lh>>

Siguiente == /\ p' = (p + 1) % M
             /\ lpc' = IF Quedan(p', start, size) THEN lpc ELSE "orden"
             /\ UNCHANGED <<c, k, start, size, hl>>

Sube == /\ lpc = "sube" /\ uart_getchar
        /\ mem' = [a \in RAM |-> IF a = p THEN rx ELSE mem[a]]
        /\ Siguiente /\ UNCHANGED lh

\* What a read of address a gives.
Leido(a) == IF a \in RAM THEN mem[a] ELSE 0

Baja == /\ lpc = "baja"
        /\ uart_putchar(Leido(p))
        /\ Siguiente /\ UNCHANGED <<mem, rx>>

Cargador == (Saluda \/ Orden \/ Start \/ Size \/ Sube \/ Baja) /\ UNCHANGED sube
-----------------------------------------------------------------------------
(* The uploader *)

put_uint32(i) == [d \in 1..ANCHO |-> (i \div Potencia[ANCHO - d]) % BB]

Manda(s) == hl' = hl \o s /\ UNCHANGED lh
upload(addr, data) == Manda(<<U>> \o put_uint32(addr) \o put_uint32(Len(data)) \o data)

Busca == /\ upc = "busca" /\ count' = count + 1
         /\ IF count' = max_tries THEN upc' = "error" /\ UNCHANGED <<hl, lh>>
            ELSE upc' = "escucha" /\ Manda(<<OTRA>>)
         /\ UNCHANGED <<n, check, startAddress, ist_data, difs>>

\* String#index: s is somewhere in line l.
index(l, s) == \E i \in 0..Len(l) - Len(s) : SubSeq(l, i + 1, i + Len(s)) = s

\* gets: a line without the signature asks again. There is no time-out, since
\* "read_timeout = 500" sets a local variable and not that of the port.
Escucha ==
  /\ upc = "escucha" /\ \E x \in DOMAIN lh : lh[x] = NUEVALINEA
  /\ LET fin == CHOOSE x \in DOMAIN lh :
                  lh[x] = NUEVALINEA /\ \A y \in 1..x - 1 : lh[y] # NUEVALINEA
     IN /\ lh' = SubSeq(lh, fin + 1, Len(lh))
        /\ upc' = IF index(SubSeq(lh, 1, fin), firma) THEN "limpia" ELSE "busca"
  /\ UNCHANGED <<hl, n, check, startAddress, ist_data, difs>>

Limpia == /\ upc = "limpia" /\ upload(PRIMERA, [x \in 1..CUANTAS |-> RELLENO])
          /\ upc' = "lineas"
          /\ UNCHANGED <<n, check, startAddress, ist_data, difs>>

Bytes_sin_ultimo(l) == l.cuenta - 6
Bytes(l) == l.cuenta - Cabecera("S3")

Lineas ==
  /\ upc = "lineas" /\ n < Len(fichero) /\ Len(hl) < COLA
  /\ n' = n + 1
  /\ LET l == fichero[n + 1]
     IN /\ startAddress' = IF l.tipo = "S7" THEN l.dir ELSE startAddress
        /\ IF l.tipo = "S3" THEN upload(l.dir, SubSeq(l.dat, 1, Bytes(l)))
           ELSE UNCHANGED <<hl, lh>>
  /\ UNCHANGED <<upc, check, ist_data, difs>>

FinLineas == /\ upc = "lineas" /\ n = Len(fichero)
             /\ IF check THEN upc' = "comprueba" /\ n' = 0
                ELSE upc' = "fin" /\ n' = n
             /\ UNCHANGED <<hl, lh, check, startAddress, ist_data, difs>>

\* How much of a line the check asks for.
Parte(l) == (l.cuenta \div 2) - 1

\* A line that is uploaded, and what the check asks of it, end below the last
\* address: the loops of the loader compare addresses.
ASSUME LineasAssumption ==
  \A f \in Ficheros : \A x \in DOMAIN f :
    f[x].tipo = "S3" => f[x].dir + Len(f[x].dat) < M /\ f[x].dir + Parte(f[x]) < M

Comprueba ==
  /\ upc = "comprueba" /\ n < Len(fichero)
  /\ n' = n + 1 /\ ist_data' = <<>>
  /\ LET l == fichero[n + 1]
     IN IF l.tipo = "S3"
        THEN /\ Manda(<<D>> \o put_uint32(l.dir) \o put_uint32(Parte(l)))
             /\ upc' = "espera"
        ELSE UNCHANGED <<hl, lh, upc>>
  /\ UNCHANGED <<check, startAddress, difs>>

Recibe == /\ upc = "espera" /\ Len(ist_data) < Parte(fichero[n]) /\ lh # <<>>
          /\ ist_data' = Append(ist_data, Head(lh)) /\ lh' = Tail(lh)
          /\ UNCHANGED <<hl, upc, n, check, startAddress, difs>>

\* soll_data; behind the digits of the line hex takes an empty string for 0.
Esperado(l, x) == IF x \in DOMAIN l.dat THEN l.dat[x] ELSE 0

Compara ==
  /\ upc = "espera" /\ Len(ist_data) = Parte(fichero[n]) /\ upc' = "comprueba"
  /\ difs' = difs \cup ({x \in DOMAIN ist_data : ist_data[x] # Esperado(fichero[n], x)} \X {n})
  /\ UNCHANGED <<hl, lh, n, check, startAddress, ist_data>>

Arranca == /\ \/ upc = "fin"
              \/ upc = "comprueba" /\ n = Len(fichero)
           /\ upc' = "terminal"
           /\ IF startAddress # NADA THEN Manda(<<G>> \o put_uint32(startAddress))
              ELSE UNCHANGED <<hl, lh>>
           /\ UNCHANGED <<n, check, startAddress, ist_data, difs>>

Carga_y_arranca == /\ \/ Escucha \/ Limpia \/ Lineas \/ FinLineas
                      \/ Comprueba \/ Recibe \/ Compara \/ Arranca
                   /\ UNCHANGED count

Subidor == (Busca \/ Carga_y_arranca) /\ UNCHANGED <<boot, mem, rx, firma>>
-----------------------------------------------------------------------------
\* The board was switched on before, and its line is gone.
AInit ==
  /\ lpc = "orden" /\ c = ASTERISCO /\ k = 0 /\ start = 0 /\ size = 0 /\ p = 0
  /\ mem \in [RAM -> {0}] /\ rx = NADA /\ hl = <<>> /\ lh = <<>>
  /\ upc = "busca" /\ n = 0 /\ check \in BOOLEAN /\ startAddress = NADA
  /\ ist_data = <<>> /\ difs = {} /\ firma \in Firmas /\ count = 0

ANext == (Llega \/ Cargador \/ Subidor) /\ UNCHANGED fichero
=============================================================================
