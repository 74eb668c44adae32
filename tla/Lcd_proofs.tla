----------------------------- MODULE Lcd_proofs -----------------------------
(***************************************************************************)
(* Proofs about Lcd, for every length of a write, every size of a row and  *)
(* any set of texts.                                                       *)
(***************************************************************************)
EXTENDS Lcd, TLAPS

\* Main_LCD and Registro_LCD agree: only a write has the row register at work.
Acordes ==
  /\ principal = "Inicio" => registro = 0
  /\ principal \in {"Esperar", "Cambiar_Fila", "Terminar"} => registro = En_Espera
  /\ principal = "Escribir_LCD" => registro # 0

\* The driver at rest has its timer at rest, and only starts when the display
\* has been started.
Quieto ==
  /\ Lista => Contador = 0
  /\ lcd # "Iniciar" => Inicio_Hecho
  /\ lcd = "Iniciar" /\ Inicio_Hecho => sigue = "baja" /\ Contador = 0
  /\ lcd \in Escribiendo /\ sigue = "sube" => Contador < N
  /\ lcd = "Escribir_Hecho" => Contador = IF sigue = "sube" THEN N ELSE 0

\* Letters shown when the driver is in the state that the row register sees.
Vistas ==
  IF registro = Terminar THEN K
  ELSE IF lcd = "EscribirDato" /\ Contador <= 5 THEN registro - 2 ELSE registro - 1

\* A write of an obedient master, from the order to the end of its row: the
\* row register holds the words that were ordered from its second letter on,
\* and before that the bus cannot have changed them yet.
Escritura ==
  /\ registro = En_Espera => /\ lcd = "EnEspera" /\ rastro = <<>>
                             /\ fila = pedido /\ dato = pedido
                             /\ ack <=> sigue = "sube"
  /\ registro = 1 => /\ lcd = "EnEspera" /\ fila = pedido
                     /\ sigue = "sube" => dato = pedido
  /\ registro \in 2..Terminar => Reg_DB = pedido
  /\ registro \in 1..Terminar =>
       /\ Len(rastro) = Vistas
       /\ \A i \in 1..Len(rastro) : rastro[i][2] = Letra(pedido, i)
       /\ lcd \in {"EnEspera", "EscribirDato", "Escribir_Hecho"}
       /\ lcd = "EnEspera" => registro # Espera_T
       /\ lcd # "EnEspera" => registro \in 2..Espera_T
       /\ lcd = "EscribirDato" => DB_Reg = Letra(pedido, registro - 1)

Obediente ==
  maestro = "obediente" =>
    /\ lcd_ins # {} => ack
    /\ sigue = "baja" /\ lcd_ins # {} => /\ Done /\ fila = dato
                                         /\ \E o \in Ordenes : lcd_ins = {o}
    /\ principal = "Escribir_LCD" => Escritura

LInv == TypeOK /\ Acordes /\ Quieto /\ Obediente
-----------------------------------------------------------------------------
\* Numbers of the row.
LEMMA NumeroDeLetras == K \in Nat \ {0}
<1>1. Palabras \in Nat \ {0} /\ Letras \in Nat \ {0}
  BY LcdAssumption
<1>2. \A a, b \in Nat \ {0} : a * b \in Nat \ {0}
  OBVIOUS
<1> QED
  BY <1>1, <1>2 DEF K

LEMMA Constantes ==
  /\ N \in Nat /\ N > 5 /\ K \in Nat \ {0}
  /\ Espera_T = K + 1 /\ Terminar = K + 2 /\ En_Espera = K + 3
  BY LcdAssumption, NumeroDeLetras DEF Espera_T, Terminar, En_Espera

\* What is shown is a sequence, whatever its letters are.
EsSecuencia(s) == \E S : s \in Seq(S)

LEMMA Agrega ==
  ASSUME NEW s, EsSecuencia(s), NEW e
  PROVE  /\ EsSecuencia(Append(s, e)) /\ Len(s) \in Nat
         /\ Len(Append(s, e)) = Len(s) + 1
         /\ \A i \in 1..Len(s) : Append(s, e)[i] = s[i]
         /\ Append(s, e)[Len(s) + 1] = e
<1>1. PICK S : s \in Seq(S)
  BY DEF EsSecuencia
<1> DEFINE T == S \cup {e}
<1>2. s \in Seq(T) /\ e \in T
  BY <1>1
<1>3. Append(s, e) \in Seq(T)
  BY <1>2
<1> QED
  BY <1>2, <1>3 DEF EsSecuencia

\* The invariant with what is shown a sequence.
IInv == LInv /\ EsSecuencia(rastro)

LEMMA IInvInit == Init => IInv
<1> SUFFICES ASSUME Init PROVE IInv
  OBVIOUS
<1>1. Blanco \in Textos /\ Maestros \subseteq {"obediente", "libre"}
  BY LcdAssumption
<1>2. Vacia \in Filas
  BY <1>1 DEF Vacia, Filas
<1>3. TypeOK
  <2>1. /\ ack \in BOOLEAN /\ lcd_ins \in SUBSET Ordenes
        /\ sigue \in {"sube", "baja"} /\ maestro \in Maestros
    BY Zenon DEF Init
  <2>2. /\ dato \in Filas /\ fila \in Filas /\ Reg_DB \in Filas /\ pedido \in Filas
    BY <1>2, Zenon DEF Init
  <2>3. /\ registro \in 0..En_Espera /\ ContadorFila \in 0..3
        /\ encender \in 0..INICIO_HECHO /\ Contador \in 0..N
        /\ cursor \in (0..3) \X (1..K) /\ linea \in 0..Desplazada
    BY Constantes DEF Init, INICIO_HECHO, Desplazada
  <2>4. principal = "Inicio" /\ lcd = "Iniciar"
    BY DEF Init
  <2> QED
    BY <2>1, <2>2, <2>3, <2>4 DEF TypeOK
<1>4. rastro \in Seq({})
  BY DEF Init
<1>5. Acordes /\ Quieto /\ Obediente
  BY DEF Init, Acordes, Quieto, Obediente, Lista, Inicio_Hecho, INICIO_HECHO, Escribiendo
<1> QED
  BY <1>3, <1>4, <1>5 DEF IInv, LInv, EsSecuencia
-----------------------------------------------------------------------------
(* The bus *)

LEMMA BusTipo ==
  ASSUME TypeOK, Bus
  PROVE  /\ ack' \in BOOLEAN /\ lcd_ins' \in SUBSET Ordenes
         /\ dato' \in Filas /\ fila' \in Filas
<1>1. CASE BusQuieto
  BY <1>1 DEF BusQuieto, TypeOK
<1>2. CASE Lee
  BY <1>2 DEF Lee, TypeOK
<1>3. ASSUME NEW w \in 1..Palabras, NEW t \in Textos, Escribe([dato EXCEPT ![w] = t], {})
      PROVE  /\ ack' \in BOOLEAN /\ lcd_ins' \in SUBSET Ordenes
             /\ dato' \in Filas /\ fila' \in Filas
  BY <1>3 DEF Escribe, TypeOK, Filas
<1>4. ASSUME NEW ins \in SUBSET Ordenes, Escribe(dato, ins)
      PROVE  /\ ack' \in BOOLEAN /\ lcd_ins' \in SUBSET Ordenes
             /\ dato' \in Filas /\ fila' \in Filas
  BY <1>4 DEF Escribe, TypeOK
<1>5. \A o \in Ordenes : {o} \in SUBSET Ordenes
  OBVIOUS
<1>6. CASE Escribe(Vacia, {})
  BY <1>6, LcdAssumption DEF Escribe, Vacia, TypeOK, Filas
<1> QED
  BY <1>1, <1>2, <1>3, <1>4, <1>5, <1>6 DEF Bus

\* What an obedient master does: an order when the controller is ready, with
\* the words of the row as they are; or a word; or nothing. While the last
\* request is acknowledged, nothing.
LEMMA BusObediente ==
  ASSUME Bus, maestro = "obediente"
  PROVE  /\ lcd_ins' # {} => /\ ack' /\ Done /\ dato' = dato /\ fila' = dato
                             /\ \E o \in Ordenes : lcd_ins' = {o}
         /\ fila' = fila \/ fila' = dato
         /\ ack => ack' = FALSE /\ dato' = dato /\ fila' = fila /\ lcd_ins' = {}
<1>1. CASE BusQuieto
  BY <1>1 DEF BusQuieto
<1>2. CASE Lee
  BY <1>2 DEF Lee
<1>3. ASSUME NEW d, Escribe(d, {})
      PROVE  ~ack /\ lcd_ins' = {} /\ fila' = dato
  BY <1>3 DEF Escribe
<1>4. ASSUME NEW o \in Ordenes, Done, Escribe(dato, {o})
      PROVE  ~ack /\ ack' /\ lcd_ins' = {o} /\ dato' = dato /\ fila' = dato
  BY <1>4 DEF Escribe
<1> QED
  BY <1>1, <1>2, <1>3, <1>4 DEF Bus

\* The timer and the power-up sequence.
LEMMA CuentaTipo ==
  ASSUME TypeOK
  PROVE  /\ Cuenta \in 0..N /\ Enciende \in 0..INICIO_HECHO
         /\ Lista => Cuenta = 0
         /\ ~Lista /\ Contador = N => Cuenta = 0
         /\ ~Lista /\ Contador # N => Cuenta = Contador + 1
         /\ Enciende # encender => Contador = N
  BY Constantes DEF TypeOK, Cuenta, Enciende, INICIO_HECHO

\* The display takes a letter or a command when E falls.
LEMMA PanelTipo ==
  ASSUME TypeOK, EsSecuencia(rastro),
         IF LCD_E THEN Muestra(LCD_RS, LCD_DB) ELSE UNCHANGED panel
  PROVE  /\ cursor' \in (0..3) \X (1..K) /\ EsSecuencia(rastro')
         /\ ~(LCD_E /\ LCD_RS) => rastro' = rastro
         /\ LCD_E /\ LCD_RS => rastro' = Append(rastro, <<cursor, LCD_DB>>)
<1>1. cursor \in (0..3) \X (1..K) /\ 1 \in 1..K
  BY NumeroDeLetras DEF TypeOK
<1>2. CASE LCD_E /\ LCD_RS
  <2>1. cursor' = Despues(cursor) /\ rastro' = Append(rastro, <<cursor, LCD_DB>>)
    BY <1>2 DEF Muestra
  <2>2. Despues(cursor) \in (0..3) \X (1..K)
    BY <1>1, NumeroDeLetras DEF Despues, Debajo
  <2> QED
    BY <1>2, <2>1, <2>2, Agrega
<1>3. CASE LCD_E /\ ~LCD_RS
  BY <1>1, <1>3 DEF Muestra
<1>4. CASE ~LCD_E
  BY <1>1, <1>4 DEF panel
<1> QED
  BY <1>2, <1>3, <1>4

-----------------------------------------------------------------------------
(* The rising edge *)

LEMMA TipoSube ==
  ASSUME IInv, Sube
  PROVE  TypeOK' /\ EsSecuencia(rastro')
<1>1. TypeOK /\ EsSecuencia(rastro) /\ Bus /\ sigue' = "baja"
      /\ Contador' = Cuenta /\ encender' = Enciende
      /\ IF LCD_E THEN Muestra(LCD_RS, LCD_DB) ELSE UNCHANGED panel
      /\ UNCHANGED <<driver, pedido, linea, maestro>>
  BY DEF IInv, LInv, Sube
<1>2. /\ ack' \in BOOLEAN /\ lcd_ins' \in SUBSET Ordenes
      /\ dato' \in Filas /\ fila' \in Filas
  BY <1>1, BusTipo
<1>3. Contador' \in 0..N /\ encender' \in 0..INICIO_HECHO
  BY <1>1, CuentaTipo
<1>4. cursor' \in (0..3) \X (1..K) /\ EsSecuencia(rastro')
  BY <1>1, PanelTipo
<1>5. UNCHANGED <<principal, registro, Reg_DB, lcd, ContadorFila, pedido, linea, maestro>>
  BY DEF Sube, driver
<1>6. TypeOK'
  BY <1>1, <1>2, <1>3, <1>4, <1>5 DEF TypeOK
<1> QED
  BY <1>4, <1>6

LEMMA QuietoSube ==
  ASSUME IInv, Sube
  PROVE  Acordes' /\ Quieto'
<1>1. /\ TypeOK /\ Acordes /\ Quieto /\ sigue = "sube" /\ sigue' = "baja"
      /\ Contador' = Cuenta /\ encender' = Enciende
      /\ UNCHANGED <<principal, registro, lcd>>
  BY DEF IInv, LInv, Sube, driver
<1>2. Acordes'
  BY <1>1 DEF Acordes
<1>3. Contador \in 0..N /\ encender \in 0..INICIO_HECHO
  BY <1>1 DEF TypeOK
<1>4. /\ Lista => Cuenta = 0
      /\ ~Lista /\ Contador = N => Cuenta = 0
      /\ Enciende # encender => Contador = N
      /\ encender = INICIO_HECHO => Enciende = encender
  BY <1>1, CuentaTipo DEF Enciende
<1>5. Quieto'
  BY <1>1, <1>3, <1>4 DEF Quieto, Lista, Inicio_Hecho
<1> QED
  BY <1>2, <1>5

\* What an edge of the bus and the timer does to a write.
LEMMA EscrituraSube ==
  ASSUME IInv, Sube, maestro = "obediente", principal = "Escribir_LCD"
  PROVE  Escritura'
<1>1. /\ TypeOK /\ EsSecuencia(rastro) /\ Quieto /\ Acordes /\ Escritura
      /\ Bus /\ sigue = "sube" /\ sigue' = "baja"
      /\ Contador' = Cuenta
      /\ IF LCD_E THEN Muestra(LCD_RS, LCD_DB) ELSE UNCHANGED panel
      /\ UNCHANGED <<principal, registro, Reg_DB, lcd, DB_Reg, pedido, maestro>>
  BY DEF IInv, LInv, Sube, driver, Obediente
<1>2. /\ fila' = fila \/ fila' = dato
      /\ ack => ack' = FALSE /\ dato' = dato /\ fila' = fila
  BY <1>1, BusObediente
<1>3. /\ ~(LCD_E /\ LCD_RS) => rastro' = rastro
      /\ LCD_E /\ LCD_RS => rastro' = Append(rastro, <<cursor, LCD_DB>>)
  BY <1>1, PanelTipo
<1>4. CASE registro = En_Espera
  <2>1. ~LCD_E
    BY <1>1, <1>4 DEF Escritura, Quieto, Lista, LCD_E
  <2> QED
    BY <1>1, <1>2, <1>3, <1>4, <2>1, Constantes DEF Escritura
<1>5. CASE registro = 1
  <2>1. ~LCD_E
    BY <1>1, <1>5, Constantes DEF Escritura, Quieto, Lista, LCD_E
  <2>2. Vistas' = Vistas
    BY <1>1, <1>5, Constantes DEF Escritura, Vistas
  <2> QED
    BY <1>1, <1>2, <1>3, <1>5, <2>1, <2>2, Constantes DEF Escritura
<1>6. CASE registro \in 2..Terminar
  <2>1. /\ lcd \in {"EnEspera", "EscribirDato", "Escribir_Hecho"}
        /\ Len(rastro) = Vistas
        /\ \A i \in 1..Len(rastro) : rastro[i][2] = Letra(pedido, i)
        /\ lcd = "EnEspera" => registro # Espera_T
        /\ lcd # "EnEspera" => registro \in 2..Espera_T
        /\ lcd = "EscribirDato" => DB_Reg = Letra(pedido, registro - 1)
        /\ Reg_DB = pedido /\ registro # En_Espera /\ registro # 1
    BY <1>1, <1>6, Constantes DEF Escritura
  <2>2. ASSUME LCD_E /\ LCD_RS
        PROVE  /\ Len(rastro') = Vistas'
               /\ \A i \in 1..Len(rastro') : rastro'[i][2] = Letra(pedido, i)
    <3>1. lcd = "EscribirDato" /\ Contador = 5 /\ registro \in 2..Espera_T
      BY <2>1, <2>2 DEF LCD_E, LCD_RS
    <3>2. LCD_DB = DB_Reg
      BY <1>1, <3>1 DEF LCD_DB, Quieto
    <3>3. Contador' = 6
      BY <1>1, <3>1, CuentaTipo, Constantes DEF Lista
    <3>4. Vistas = registro - 2 /\ Vistas' = registro - 1
      BY <1>1, <3>1, <3>3, Constantes DEF Vistas
    <3>5. /\ Len(rastro') = Len(rastro) + 1 /\ Len(rastro) \in Nat
          /\ \A i \in 1..Len(rastro) : rastro'[i] = rastro[i]
          /\ rastro'[Len(rastro) + 1] = <<cursor, LCD_DB>>
      BY <1>1, <1>3, <2>2, Agrega
    <3>6. Len(rastro) + 1 = registro - 1 /\ registro \in Nat
      BY <2>1, <3>1, <3>4, Constantes
    <3>7. rastro'[Len(rastro) + 1][2] = Letra(pedido, Len(rastro) + 1)
      BY <2>1, <3>1, <3>2, <3>5, <3>6
    <3>8. \A i \in 1..Len(rastro') : i \in 1..Len(rastro) \/ i = Len(rastro) + 1
      BY <3>5
    <3> QED
      BY <2>1, <3>4, <3>5, <3>6, <3>7, <3>8
  <2>3. ASSUME ~(LCD_E /\ LCD_RS)
        PROVE  rastro' = rastro /\ Vistas' = Vistas
    <3>1. lcd = "EscribirDato" => (Contador <= 5 <=> Contador' <= 5)
      <4> SUFFICES ASSUME lcd = "EscribirDato" PROVE Contador <= 5 <=> Contador' <= 5
        OBVIOUS
      <4>1. Contador # 5 /\ Contador \in 0..N
        BY <1>1, <2>3 DEF LCD_E, LCD_RS, TypeOK
      <4>2. Contador < N
        BY <1>1 DEF Quieto, Escribiendo
      <4> QED
        BY <1>1, <4>1, <4>2, CuentaTipo, Constantes DEF Lista
    <3> QED
      BY <1>1, <1>3, <2>3, <3>1 DEF Vistas
  <2> QED
    BY <1>1, <1>6, <2>1, <2>2, <2>3, Constantes DEF Escritura
<1> QED
  BY <1>1, <1>4, <1>5, <1>6, Constantes DEF Acordes, TypeOK

LEMMA IInvSube ==
  ASSUME IInv, Sube
  PROVE  IInv'
<1>1. TypeOK' /\ EsSecuencia(rastro') /\ Acordes' /\ Quieto'
  BY TipoSube, QuietoSube
<1>2. Obediente'
  <2> SUFFICES ASSUME maestro' = "obediente" PROVE Obediente'
    BY DEF Obediente
  <2>1. /\ maestro = "obediente" /\ Bus
        /\ UNCHANGED <<principal, lcd>>
    BY DEF Sube, driver
  <2>2. lcd_ins' # {} => /\ ack' /\ Done' /\ fila' = dato'
                         /\ \E o \in Ordenes : lcd_ins' = {o}
    BY <2>1, BusObediente DEF Done, Lista
  <2>3. principal' = "Escribir_LCD" => Escritura'
    BY <2>1, EscrituraSube
  <2> QED
    BY <2>2, <2>3 DEF Obediente
<1> QED
  BY <1>1, <1>2 DEF IInv, LInv
-----------------------------------------------------------------------------
(* The falling edge *)

LEMMA TipoBaja ==
  ASSUME IInv, Baja
  PROVE  TypeOK' /\ EsSecuencia(rastro')
<1>1. /\ TypeOK /\ EsSecuencia(rastro)
      /\ UNCHANGED <<ack, lcd_ins, dato, fila, encender, cursor, maestro>>
      /\ sigue' = "sube"
  BY DEF IInv, LInv, Baja, bus
<1>2. principal' \in {"Inicio", "Esperar", "Escribir_LCD", "Cambiar_Fila", "Terminar"}
  BY <1>1 DEF Baja, Main_LCD, TypeOK
<1>3. registro' \in 0..En_Espera /\ Reg_DB' \in Filas
  BY <1>1, Constantes, SMTT(20) DEF Baja, Registro_LCD, TypeOK
<1>4. lcd' \in {"Iniciar", "EnEspera", "Escribir_Hecho"} \cup Escribiendo
  <2>1. CambioDeFila \in Escribiendo
    BY <1>1 DEF CambioDeFila, Escribiendo, TypeOK
  <2> QED
    BY <1>1, <2>1 DEF Baja, LCD, TypeOK, Escribiendo
<1>5. ContadorFila' \in 0..3 /\ Contador' \in 0..N
  <2>1. ContadorFila \in 0..3 /\ Contador \in 0..N /\ 0 \in 0..N
    BY <1>1, Constantes DEF TypeOK
  <2>2. (ContadorFila + 1) % 4 \in 0..3
    BY <2>1
  <2> QED
    BY <2>1, <2>2 DEF Baja
<1>6. pedido' \in Filas /\ EsSecuencia(rastro')
  <2>1. <<>> \in Seq({})
    OBVIOUS
  <2> QED
    BY <1>1, <2>1 DEF Baja, TypeOK, EsSecuencia
<1>7. linea' \in 0..Desplazada
  BY <1>1, <1>5 DEF Baja, Debida, Debajo, Desplazada, TypeOK
<1> QED
  BY <1>1, <1>2, <1>3, <1>4, <1>5, <1>6, <1>7 DEF TypeOK

LEMMA AcordesBaja ==
  ASSUME IInv, Baja
  PROVE  Acordes'
<1>1. /\ principal \in {"Inicio", "Esperar", "Escribir_LCD", "Cambiar_Fila", "Terminar"}
      /\ registro \in 0..En_Espera /\ Acordes /\ Main_LCD /\ Registro_LCD
  BY DEF IInv, LInv, Baja, TypeOK
<1>2. CASE principal \in {"Inicio", "Esperar", "Cambiar_Fila", "Terminar"}
  BY <1>1, <1>2, Constantes DEF Acordes, Main_LCD, Registro_LCD, Write
<1>3. CASE principal = "Escribir_LCD" /\ registro = Terminar
  BY <1>1, <1>3, Constantes DEF Acordes, Main_LCD, Registro_LCD, Lista2
<1>4. CASE principal = "Escribir_LCD" /\ registro # Terminar
  BY <1>1, <1>4, Constantes DEF Acordes, Main_LCD, Registro_LCD, Lista2, Write
<1> QED
  BY <1>1, <1>2, <1>3, <1>4

LEMMA QuietoBaja ==
  ASSUME IInv, Baja
  PROVE  Quieto'
<1>1. /\ TypeOK /\ Quieto /\ sigue' = "sube" /\ LCD /\ encender' = encender
      /\ Contador' = IF lcd' = "EnEspera" THEN 0 ELSE Contador
  BY DEF IInv, LInv, Baja
<1>2. CambioDeFila \in Escribiendo
  BY <1>1 DEF CambioDeFila, Escribiendo, TypeOK
<1>3. CASE lcd = "Iniciar"
  BY <1>1, <1>2, <1>3, Constantes DEF LCD, Quieto, Lista, Inicio_Hecho, Escribiendo
<1>4. CASE lcd = "EnEspera"
  BY <1>1, <1>2, <1>4, Constantes DEF LCD, Quieto, Lista, Inicio_Hecho, Escribiendo
<1>5. CASE lcd \in Escribiendo
  BY <1>1, <1>5, Constantes DEF LCD, Quieto, Lista, Inicio_Hecho, Escribiendo, TypeOK
<1>6. CASE lcd = "Escribir_Hecho"
  BY <1>1, <1>6, Constantes DEF LCD, Quieto, Lista, Inicio_Hecho, Escribiendo
<1> QED
  BY <1>1, <1>3, <1>4, <1>5, <1>6 DEF TypeOK

\* An edge of the machines in a write: it begins, its first letter is handed
\* over from the bus's words and the row copied, the next letters are handed
\* over from the copy, and each is written.
LEMMA EscrituraBaja ==
  ASSUME IInv, Baja, maestro = "obediente", principal' = "Escribir_LCD"
  PROVE  Escritura'
<1>1. /\ TypeOK /\ EsSecuencia(rastro) /\ Acordes /\ Quieto /\ Obediente
      /\ Main_LCD /\ Registro_LCD /\ LCD
      /\ sigue = "baja" /\ sigue' = "sube"
      /\ Contador' = IF lcd' = "EnEspera" THEN 0 ELSE Contador
      /\ UNCHANGED <<ack, lcd_ins, dato, fila, encender, cursor, maestro>>
  BY DEF IInv, LInv, Baja, bus
<1>2. CASE principal = "Esperar"
  <2>1. "WR" \in lcd_ins
    BY <1>1, <1>2 DEF Main_LCD
  <2>2. ack /\ fila = dato /\ lcd = "EnEspera" /\ lcd_ins = {"WR"}
    BY <1>1, <2>1 DEF Obediente, Done, Lista
  <2>3. registro = En_Espera /\ registro' = En_Espera
    BY <1>1, <1>2, Constantes DEF Acordes, Registro_LCD, Write
  <2>4. lcd' = "EnEspera"
    <3>1. "CLR" \notin lcd_ins /\ ~Next_Row /\ ~EscribirLCD
      BY <1>2, <2>2, <2>3, Constantes DEF Next_Row, EscribirLCD
    <3> QED
      BY <1>1, <2>2, <3>1 DEF LCD, Escribiendo
  <2>5. rastro' = <<>> /\ pedido' = fila
    BY <1>2 DEF Baja
  <2> QED
    BY <1>1, <2>2, <2>3, <2>4, <2>5, Constantes DEF Escritura
<1>3. CASE principal = "Escribir_LCD"
  <2>1. /\ Escritura /\ registro # Terminar /\ registro \in 1..En_Espera
        /\ rastro' = rastro /\ pedido' = pedido /\ ~Next_Row /\ Write
        /\ lcd_ins = {}
    <3>1. Escritura /\ ~Next_Row /\ Write
      BY <1>1, <1>3 DEF Obediente, Next_Row, Write
    <3>2. registro # Terminar /\ registro \in 1..En_Espera
      BY <1>1, <1>3, Constantes DEF Main_LCD, Lista2, Acordes, TypeOK
    <3>3. lcd_ins = {}
      BY <1>1, <1>3 DEF Obediente, Done
    <3>4. rastro' = rastro /\ pedido' = pedido
      BY <1>3 DEF Baja
    <3> QED
      BY <3>1, <3>2, <3>3, <3>4
  <2>2. CASE registro = En_Espera
    <3>1. registro' = 1 /\ lcd' = "EnEspera"
      <4>1. "CLR" \notin lcd_ins /\ ~EscribirLCD /\ lcd = "EnEspera"
        BY <2>1, <2>2, Constantes DEF EscribirLCD, Escritura
      <4>2. lcd' = "EnEspera"
        BY <1>1, <2>1, <4>1 DEF LCD, Escribiendo
      <4>3. registro' = 1
        BY <1>1, <2>1, <2>2, Constantes DEF Registro_LCD
      <4> QED
        BY <4>2, <4>3
    <3>2. Vistas' = 0 /\ Len(<<>>) = 0
      BY <3>1, Constantes DEF Vistas
    <3> QED
      BY <1>1, <2>1, <2>2, <3>1, <3>2, Constantes DEF Escritura
  <2>3. CASE registro \in 1..K /\ lcd = "EnEspera"
    <3>1. /\ registro' = registro + 1 /\ lcd' = "EscribirDato"
          /\ Reg_DB' = IF registro = 1 THEN fila ELSE Reg_DB
          /\ DB_Reg' = Dato_E_LCD
      <4>1. "CLR" \notin lcd_ins /\ EscribirLCD /\ Lista
        BY <2>1, <2>3 DEF EscribirLCD, Lista
      <4>2. lcd' = "EscribirDato" /\ DB_Reg' = Dato_E_LCD
        BY <1>1, <2>1, <2>3, <4>1 DEF LCD, Escribiendo
      <4>3. registro' = registro + 1 /\ Reg_DB' = IF registro = 1 THEN fila ELSE Reg_DB
        BY <1>1, <2>3, <4>1, Constantes DEF Registro_LCD
      <4> QED
        BY <4>2, <4>3
    <3>2. Reg_DB' = pedido /\ Dato_E_LCD = Letra(pedido, registro)
      BY <1>1, <2>1, <2>3, <3>1, Constantes DEF Escritura, Dato_E_LCD
    <3>3. Contador' = 0
      BY <1>1, <2>3, <3>1 DEF Quieto, Lista
    <3>4. /\ Vistas = registro - 1 /\ Vistas' = registro - 1
          /\ Len(rastro) = Vistas
          /\ \A i \in 1..Len(rastro) : rastro[i][2] = Letra(pedido, i)
      BY <2>1, <2>3, <3>1, <3>3, Constantes DEF Vistas, Escritura
    <3>5. registro' \in 2..Espera_T /\ registro' - 1 = registro
      BY <2>3, <3>1, Constantes
    <3> QED
      BY <1>1, <2>1, <3>1, <3>2, <3>4, <3>5, Constantes DEF Escritura
  <2>4. CASE lcd # "EnEspera"
    <3>1. /\ registro \in 2..Espera_T /\ lcd \in {"EscribirDato", "Escribir_Hecho"}
          /\ Reg_DB = pedido /\ Len(rastro) = Vistas
          /\ \A i \in 1..Len(rastro) : rastro[i][2] = Letra(pedido, i)
          /\ lcd = "EscribirDato" => DB_Reg = Letra(pedido, registro - 1)
      BY <2>1, <2>4, Constantes DEF Escritura
    <3>2. Reg_DB' = pedido /\ DB_Reg' = DB_Reg
      BY <1>1, <2>4, <3>1, Constantes DEF Registro_LCD, LCD, Lista
    <3>3. CASE lcd = "EscribirDato" /\ Contador < N
      <4>1. lcd' = "EscribirDato" /\ registro' = registro /\ Contador' = Contador
        <5>1. Contador \in 0..N
          BY <1>1 DEF TypeOK
        <5> QED
          BY <1>1, <3>1, <3>3, <5>1, Constantes DEF LCD, Registro_LCD, Lista, LCD_RS, Escribiendo
      <4>2. Vistas' = Vistas
        BY <3>3, <4>1 DEF Vistas
      <4> QED
        BY <1>1, <2>1, <3>1, <3>2, <3>3, <4>1, <4>2, Constantes DEF Escritura
    <3>4. CASE lcd = "EscribirDato" /\ ~(Contador < N)
      <4>1. Contador = N
        BY <1>1, <3>4, Constantes DEF TypeOK
      <4>2. lcd' = "Escribir_Hecho" /\ registro' = registro
        BY <1>1, <3>1, <3>4, <4>1, Constantes DEF LCD, Registro_LCD, Lista, LCD_RS, Escribiendo
      <4>3. Vistas' = Vistas
        BY <3>1, <3>4, <4>1, <4>2, Constantes DEF Vistas
      <4> QED
        BY <1>1, <2>1, <3>1, <3>2, <4>2, <4>3, Constantes DEF Escritura
    <3>5. CASE lcd = "Escribir_Hecho"
      <4>1. /\ lcd' = "EnEspera"
            /\ registro' = IF registro = Espera_T THEN Terminar ELSE registro
        BY <1>1, <3>1, <3>5, Constantes DEF LCD, Registro_LCD, Lista, LCD_RS, Escribiendo
      <4>2. Vistas = registro - 1 /\ Vistas' = registro - 1
        BY <3>1, <3>5, <4>1, Constantes DEF Vistas
      <4>3. registro' \in 2..Terminar /\ registro' # Espera_T
        BY <3>1, <4>1, Constantes
      <4> QED
        BY <1>1, <2>1, <3>1, <3>2, <4>1, <4>2, <4>3, Constantes DEF Escritura
    <3> QED
      BY <3>1, <3>3, <3>4, <3>5
  <2> QED
    BY <1>1, <2>1, <2>2, <2>3, <2>4, Constantes DEF Escritura
<1> QED
  BY <1>1, <1>2, <1>3 DEF Main_LCD, TypeOK

LEMMA IInvBaja ==
  ASSUME IInv, Baja
  PROVE  IInv'
<1>1. TypeOK' /\ EsSecuencia(rastro') /\ Acordes' /\ Quieto'
  BY TipoBaja, AcordesBaja, QuietoBaja
<1>2. Obediente'
  <2>1. /\ Obediente /\ sigue' = "sube"
        /\ UNCHANGED <<ack, lcd_ins, maestro>>
    BY DEF IInv, LInv, Baja, bus
  <2> QED
    BY <2>1, EscrituraBaja DEF Obediente
<1> QED
  BY <1>1, <1>2 DEF IInv, LInv
-----------------------------------------------------------------------------
LEMMA IInvReinicia ==
  ASSUME IInv, Reinicia
  PROVE  IInv'
<1>1. TypeOK
  BY DEF IInv, LInv
<1>2. TypeOK'
  <2>1. ack' \in BOOLEAN /\ lcd_ins' \in SUBSET Ordenes
    BY Zenon DEF Reinicia
  <2>2. /\ registro' \in 0..En_Espera /\ ContadorFila' \in 0..3
        /\ encender' \in 0..INICIO_HECHO /\ Contador' \in 0..N
        /\ cursor' \in (0..3) \X (1..K) /\ linea' \in 0..Desplazada
    BY Constantes DEF Reinicia, INICIO_HECHO, Desplazada
  <2>3. principal' = "Inicio" /\ lcd' = "Iniciar"
        /\ UNCHANGED <<sigue, dato, fila, Reg_DB, pedido, maestro>>
    BY DEF Reinicia
  <2> QED
    BY <1>1, <2>1, <2>2, <2>3 DEF TypeOK
<1>3. rastro' \in Seq({})
  BY DEF Reinicia
<1>4. Acordes' /\ Quieto' /\ Obediente'
  BY DEF Reinicia, Acordes, Quieto, Obediente, Lista, Inicio_Hecho, INICIO_HECHO, Escribiendo
<1> QED
  BY <1>2, <1>3, <1>4 DEF IInv, LInv, EsSecuencia

LEMMA IInvQuieto ==
  ASSUME IInv, UNCHANGED vars
  PROVE  IInv'
<1>1. UNCHANGED <<sigue, ack, lcd_ins, dato, fila, principal, registro, Reg_DB, lcd, DB_Reg,
                  ContadorFila, encender, Contador, cursor, rastro, pedido, linea, maestro>>
  BY DEF vars, bus, driver, panel
<1> QED
  BY <1>1 DEF IInv, LInv, TypeOK, Acordes, Quieto, Obediente, Escritura, Vistas, Done, Lista,
              Inicio_Hecho

LEMMA IInvPaso == IInv /\ [Next]_vars => IInv'
  BY IInvSube, IInvBaja, IInvReinicia, IInvQuieto DEF Next

\* The two state machines, the driver and the words of the bus keep in step at
\* every edge, reset included (Main_LCD.v:54-93, Registro_LCD.v:28-164).
THEOREM SiempreIInv == Spec => []IInv
  BY IInvInit, IInvPaso, PTL DEF Spec

\* The row ordered is the row shown, whole, for rows of any size, whatever an
\* obedient master writes while it is shown (wb_lcd.v:133, Registro_LCD.v:49-164,
\* LCD.v:125-136).
THEOREM SiempreMostrada == Spec => []FilaMostrada
<1>1. IInv => FilaMostrada
  <2> SUFFICES ASSUME IInv PROVE FilaMostrada
    OBVIOUS
  <2>1. ASSUME maestro = "obediente", registro \in 1..Terminar
        PROVE  /\ Len(rastro) = Vistas /\ Vistas <= K
               /\ \A i \in 1..Len(rastro) : rastro[i][2] = Letra(pedido, i)
    <3>1. principal = "Escribir_LCD"
      BY <2>1, Constantes DEF IInv, LInv, Acordes, TypeOK
    <3>2. Escritura
      BY <2>1, <3>1 DEF IInv, LInv, Obediente
    <3>3. Vistas <= K
      BY <2>1, <3>2, Constantes DEF Escritura, Vistas
    <3> QED
      BY <2>1, <3>2, <3>3 DEF Escritura
  <2>2. FilaIntegra
    BY <2>1 DEF FilaIntegra, Mostrado
  <2>3. FilaCompleta
    BY <2>1, Constantes DEF FilaCompleta, Vistas
  <2> QED
    BY <2>2, <2>3 DEF IInv, LInv, FilaMostrada
<1> QED
  BY <1>1, SiempreIInv, PTL

\* Ready means idle, for every master (Main_LCD.v:93).
THEOREM ListoEsReposo == Spec => []DoneEsReposo
<1>1. IInv => DoneEsReposo
  BY DEF IInv, LInv, Acordes, Quieto, DoneEsReposo, Done, Lista, Inicio_Hecho
<1> QED
  BY <1>1, SiempreIInv, PTL

\* Nothing moves on the display's bus while E is high, for every master
\* (LCD.v:138-146).
THEOREM BusEstable == Spec => DatosEstables
<1>1. IInv /\ [Next]_vars => [LCD_E /\ LCD_E' /\ ~Reinicia => UNCHANGED <<LCD_RS, LCD_DB>>]_vars
  <2> SUFFICES ASSUME IInv, Sube \/ Baja, LCD_E, LCD_E' PROVE UNCHANGED <<LCD_RS, LCD_DB>>
    BY DEF Next
  <2>1. TypeOK /\ Quieto /\ Contador = 5 /\ Contador' = 5
    BY DEF IInv, LInv, LCD_E
  <2>2. ASSUME Sube PROVE FALSE
    BY <2>1, <2>2, CuentaTipo, Constantes DEF Sube
  <2>3. ASSUME Baja PROVE UNCHANGED <<LCD_RS, LCD_DB>>
    <3>1. lcd # "EnEspera" /\ lcd' # "EnEspera" /\ ~(lcd = "Iniciar" /\ Inicio_Hecho)
      BY <2>1, <2>3 DEF Baja, Quieto, Lista
    <3>2. lcd' = lcd /\ DB_Reg' = DB_Reg /\ encender' = encender
      BY <2>1, <2>3, <3>1, Constantes DEF Baja, LCD, Lista, TypeOK, Escribiendo
    <3> QED
      BY <3>2 DEF LCD_RS, LCD_DB, Inicio_Hecho, Dato
  <2> QED
    BY <2>2, <2>3
<1> QED
  BY <1>1, SiempreIInv, PTL DEF Spec, DatosEstables
-----------------------------------------------------------------------------
(* The line that a row goes to *)

\* The cursor is being sent to a line, and is not there yet.
Mudanza == {"EscribirF2", "EscribirF3", "EscribirF4", "Escribir01"}
DeCamino == lcd \in Mudanza /\ Contador <= 5

\* The line that the driver sends the cursor to.
Destino ==
  /\ lcd = "EscribirF2" => linea = 1
  /\ lcd = "EscribirF3" => linea = 2
  /\ lcd = "EscribirF4" => linea = 3
  /\ lcd = "Escribir01" => linea = 0

\* The letters shown are at the beginning of a line, the cursor behind them.
EnLinea(l) ==
  /\ \A i \in 1..Len(rastro) : rastro[i][1] = <<l, i>>
  /\ Len(rastro) < K => cursor = <<l, Len(rastro) + 1>>
  /\ Len(rastro) = K => cursor = <<Debajo(l), 1>>

\* Of an obedient master: the cursor is at the first column of the line that is
\* due, except on its way there and in a write, which fills that line.
Cursor ==
  maestro = "obediente" =>
    /\ lcd = "Iniciar" => ContadorFila = 0 /\ linea = 0
    /\ principal = "Cambiar_Fila" =>
         lcd = "EnEspera" /\ linea = IF ContadorFila = 0 THEN Desplazada ELSE ContadorFila
    /\ linea # Desplazada =>
         /\ principal # "Escribir_LCD" => lcd # "EscribirDato" /\ Destino
         /\ principal \notin {"Escribir_LCD", "Cambiar_Fila"} /\ ~DeCamino => cursor = <<linea, 1>>
         /\ principal = "Escribir_LCD" => EnLinea(linea)

\* The display at an edge of a driver that is not writing a letter.
LEMMA CursorDeCamino ==
  ASSUME IInv, Sube, maestro = "obediente", Cursor, linea # Desplazada,
         principal \notin {"Escribir_LCD", "Cambiar_Fila"}, ~DeCamino'
  PROVE  cursor' = <<linea, 1>>
<1>1. /\ TypeOK /\ Quieto /\ sigue = "sube" /\ Contador' = Cuenta /\ lcd' = lcd
      /\ IF LCD_E THEN Muestra(LCD_RS, LCD_DB) ELSE UNCHANGED panel
  BY DEF IInv, LInv, Sube, driver
<1>2. /\ lcd # "EscribirDato" /\ Destino
      /\ ~DeCamino => cursor = <<linea, 1>>
      /\ lcd = "Iniciar" => linea = 0 /\ ~Inicio_Hecho /\ cursor = <<linea, 1>>
  BY <1>1 DEF Cursor, Quieto, DeCamino, Mudanza
<1>3. CASE LCD_E
  <2>1. Contador = 5 /\ ~LCD_RS
    BY <1>2, <1>3 DEF LCD_E, LCD_RS
  <2>2. CASE lcd = "Iniciar"
    <3>1. LCD_DB \in {Orden("38"), Orden("06"), Orden("0C"), Orden("01"), Orden("80"), Orden("00")}
      BY <1>2, <2>2 DEF LCD_DB, Dato
    <3>2. cursor' = <<0, 1>> \/ cursor' = cursor
      BY <1>1, <1>3, <2>1, <3>1 DEF Muestra, Orden
    <3> QED
      BY <1>2, <2>2, <3>2
  <2>3. CASE lcd \in Mudanza
    <3>1. /\ lcd = "EscribirF2" => LCD_DB = Orden("C0") /\ linea = 1
          /\ lcd = "EscribirF3" => LCD_DB = Orden("94") /\ linea = 2
          /\ lcd = "EscribirF4" => LCD_DB = Orden("D4") /\ linea = 3
          /\ lcd = "Escribir01" => LCD_DB = Orden("01") /\ linea = 0
      BY <1>2 DEF LCD_DB, Destino
    <3>2. /\ LCD_DB = Orden("01") => cursor' = <<0, 1>>
          /\ LCD_DB = Orden("C0") => cursor' = <<1, 1>>
          /\ LCD_DB = Orden("94") => cursor' = <<2, 1>>
          /\ LCD_DB = Orden("D4") => cursor' = <<3, 1>>
      BY <1>1, <1>3, <2>1 DEF Muestra, Orden
    <3> QED
      BY <2>3, <3>1, <3>2 DEF Mudanza
  <2>4. lcd = "Iniciar" \/ lcd \in Mudanza
    BY <1>1, <1>2, <2>1, Constantes DEF TypeOK, Escribiendo, Quieto, Lista, Mudanza
  <2> QED
    BY <2>2, <2>3, <2>4
<1>4. CASE ~LCD_E
  <2>1. cursor' = cursor
    BY <1>1, <1>4 DEF panel
  <2>2. CASE lcd \in Mudanza
    <3>1. Contador # 5 /\ Contador < N /\ Contador \in 0..N
      BY <1>1, <1>4, <2>2 DEF LCD_E, Quieto, Escribiendo, TypeOK, Mudanza
    <3>2. Contador' = Contador + 1
      BY <1>1, <2>2, <3>1, CuentaTipo DEF Lista, Mudanza
    <3>3. ~(Contador' <= 5)
      BY <1>1, <2>2 DEF DeCamino
    <3>4. ~DeCamino
      BY <3>1, <3>2, <3>3 DEF DeCamino
    <3> QED
      BY <1>2, <2>1, <3>4
  <2>3. CASE lcd \notin Mudanza
    BY <1>2, <2>1, <2>3 DEF DeCamino
  <2> QED
    BY <2>2, <2>3
<1> QED
  BY <1>3, <1>4

\* A letter more on the line, or none.
LEMMA LineaSube ==
  ASSUME IInv, Sube, maestro = "obediente", principal = "Escribir_LCD",
         NEW l \in 0..3, EnLinea(l)
  PROVE  EnLinea(l)'
<1>1. /\ TypeOK /\ EsSecuencia(rastro) /\ Quieto /\ Acordes /\ Escritura
      /\ IF LCD_E THEN Muestra(LCD_RS, LCD_DB) ELSE UNCHANGED panel
      /\ sigue = "sube"
  BY DEF IInv, LInv, Sube, Obediente
<1>2. CASE LCD_E /\ LCD_RS
  <2>1. lcd = "EscribirDato" /\ Contador = 5
    BY <1>2 DEF LCD_E, LCD_RS
  <2>2. registro \in 2..Espera_T /\ Len(rastro) = registro - 2
    BY <1>1, <2>1, Constantes DEF Escritura, Vistas, Acordes, TypeOK
  <2>3. Len(rastro) < K /\ Len(rastro) \in Nat
    BY <2>2, Constantes
  <2>4. cursor = <<l, Len(rastro) + 1>>
    BY <2>3 DEF EnLinea
  <2>5. cursor' = Despues(cursor) /\ rastro' = Append(rastro, <<cursor, LCD_DB>>)
    BY <1>1, <1>2 DEF Muestra
  <2>6. /\ Len(rastro') = Len(rastro) + 1
        /\ \A i \in 1..Len(rastro) : rastro'[i] = rastro[i]
        /\ rastro'[Len(rastro) + 1] = <<cursor, LCD_DB>>
    BY <1>1, <2>5, Agrega
  <2>7. \A i \in 1..Len(rastro') : rastro'[i][1] = <<l, i>>
    <3>1. \A i \in 1..Len(rastro') : i \in 1..Len(rastro) \/ i = Len(rastro) + 1
      BY <2>3, <2>6
    <3> QED
      BY <2>4, <2>6, <3>1 DEF EnLinea
  <2>8. Despues(cursor) = IF Len(rastro) + 1 < K THEN <<l, Len(rastro) + 2>>
                          ELSE <<Debajo(l), 1>>
    BY <2>3, <2>4 DEF Despues
  <2>9. /\ Len(rastro') < K => cursor' = <<l, Len(rastro') + 1>>
        /\ Len(rastro') = K => cursor' = <<Debajo(l), 1>>
    BY <2>3, <2>5, <2>6, <2>8, Constantes
  <2> QED
    BY <2>7, <2>9 DEF EnLinea
<1>3. CASE ~(LCD_E /\ LCD_RS)
  <2>1. LCD_E => lcd = "EscribirDato"
    BY <1>1, Constantes DEF LCD_E, Escritura, Quieto, Lista, Acordes, TypeOK
  <2>2. ~LCD_E
    BY <1>3, <2>1 DEF LCD_RS
  <2> QED
    BY <1>1, <2>2 DEF panel, EnLinea
<1> QED
  BY <1>2, <1>3

LEMMA CursorSube ==
  ASSUME IInv, Cursor, Sube
  PROVE  Cursor'
<1>1. UNCHANGED <<principal, registro, lcd, ContadorFila, linea, maestro>>
  BY DEF Sube, driver
<1>2. ASSUME maestro = "obediente", linea # Desplazada, ~DeCamino',
             principal \notin {"Escribir_LCD", "Cambiar_Fila"}
      PROVE  cursor' = <<linea, 1>>
  BY <1>2, CursorDeCamino
<1>3. ASSUME maestro = "obediente", linea # Desplazada, principal = "Escribir_LCD"
      PROVE  EnLinea(linea)'
  <2>1. EnLinea(linea) /\ linea \in 0..3
    BY <1>3 DEF Cursor, IInv, LInv, TypeOK, Desplazada
  <2>2. PICK l \in 0..3 : l = linea
    BY <2>1
  <2>3. EnLinea(l)'
    BY <1>3, <2>1, <2>2, LineaSube DEF EnLinea
  <2> QED
    BY <1>1, <2>2, <2>3 DEF EnLinea
<1>4. Destino => Destino'
  BY <1>1 DEF Destino
<1> QED
  BY <1>1, <1>2, <1>3, <1>4 DEF Cursor

\* A falling edge at which no row is being written or changed.
LEMMA CursorReposo ==
  ASSUME IInv, Cursor, Baja, maestro = "obediente",
         principal \in {"Inicio", "Esperar", "Terminar"}, principal' \in {"Esperar", "Terminar"}
  PROVE  Cursor'
<1>1. /\ TypeOK /\ Acordes /\ Quieto /\ LCD /\ linea' = Debida
      /\ Contador' = IF lcd' = "EnEspera" THEN 0 ELSE Contador
      /\ cursor' = cursor /\ ContadorFila' = ContadorFila
  BY DEF IInv, LInv, Baja
<1>2. ~Next_Row /\ ~EscribirLCD /\ registro # Terminar
  BY <1>1, Constantes DEF Next_Row, EscribirLCD, Acordes
<1>3. linea' = IF Lista /\ lcd' = "Escribir01" THEN 0 ELSE linea
  BY <1>1, <1>2 DEF Debida
<1>4. /\ lcd = "Iniciar" => lcd' \in {"Iniciar", "EnEspera"}
      /\ lcd = "EnEspera" => lcd' \in {"EnEspera", "Escribir01"}
      /\ lcd \in Escribiendo => lcd' \in {lcd, "Escribir_Hecho"}
      /\ lcd = "Escribir_Hecho" => lcd' = "EnEspera"
  BY <1>1, <1>2 DEF LCD, Escribiendo
<1>5. lcd \in {"Iniciar", "EnEspera", "Escribir_Hecho"} \cup Escribiendo
  BY <1>1 DEF TypeOK
<1>6. CASE Lista /\ lcd' = "Escribir01"
  <2>1. linea' = 0 /\ Contador' = 0
    BY <1>1, <1>3, <1>6 DEF Quieto
  <2>2. DeCamino' /\ Destino'
    BY <1>6, <2>1 DEF DeCamino, Destino, Mudanza
  <2> QED
    BY <1>6, <2>2 DEF Cursor
<1>7. CASE ~(Lista /\ lcd' = "Escribir01")
  <2>1. linea' = linea
    BY <1>3, <1>7
  <2>2. lcd' = "Iniciar" => lcd = "Iniciar"
    BY <1>4, <1>5 DEF Escribiendo
  <2>3. lcd' = "EscribirDato" => lcd = "EscribirDato"
    BY <1>4, <1>5 DEF Escribiendo
  <2>4. lcd' \in Mudanza => lcd' = lcd
    BY <1>4, <1>5, <1>7 DEF Escribiendo, Mudanza, Lista
  <2>5. DeCamino => DeCamino'
    <3>1. DeCamino => lcd' = lcd /\ Contador' = Contador
      BY <1>1, Constantes DEF DeCamino, Mudanza, LCD, Escribiendo, TypeOK
    <3> QED
      BY <3>1 DEF DeCamino, Mudanza
  <2>6. Destino => Destino'
    BY <2>1, <2>4 DEF Destino, Mudanza
  <2> QED
    BY <1>1, <2>1, <2>2, <2>3, <2>5, <2>6 DEF Cursor
<1> QED
  BY <1>6, <1>7

LEMMA CursorBaja ==
  ASSUME IInv, Cursor, Baja
  PROVE  Cursor'
<1> SUFFICES ASSUME maestro = "obediente" PROVE Cursor'
  BY DEF Cursor, Baja
<1>1. /\ TypeOK /\ Acordes /\ Quieto /\ Obediente
      /\ Main_LCD /\ Registro_LCD /\ LCD /\ sigue = "baja" /\ linea' = Debida
      /\ Contador' = IF lcd' = "EnEspera" THEN 0 ELSE Contador
      /\ cursor' = cursor /\ maestro' = maestro
      /\ ContadorFila' = IF ~Next_Row /\ principal' = "Cambiar_Fila"
                         THEN (ContadorFila + 1) % 4 ELSE ContadorFila
  BY DEF IInv, LInv, Baja
\* An order: the driver stays at rest for this edge.
<1>2. ASSUME principal = "Esperar", principal' # "Esperar"
      PROVE  /\ lcd = "EnEspera" /\ lcd' = "EnEspera"
             /\ rastro' = <<>> /\ registro # Terminar
  <2>1. lcd_ins # {} /\ (principal' = "Cambiar_Fila" => "CHR" \in lcd_ins)
        /\ (principal' # "Cambiar_Fila" => "WR" \in lcd_ins)
    BY <1>1, <1>2 DEF Main_LCD
  <2>2. Done /\ \E o \in Ordenes : lcd_ins = {o}
    BY <1>1, <2>1 DEF Obediente
  <2>3. "CLR" \notin lcd_ins
    BY <2>1, <2>2 DEF Ordenes
  <2>4. ~Next_Row /\ ~EscribirLCD /\ registro # Terminar
    BY <1>1, <1>2, Constantes DEF Next_Row, EscribirLCD, Acordes
  <2>5. lcd = "EnEspera"
    BY <2>2 DEF Done, Lista
  <2> QED
    BY <1>1, <1>2, <2>3, <2>4, <2>5 DEF LCD, Escribiendo, Baja
<1>3. CASE principal = "Esperar" /\ principal' = "Cambiar_Fila"
  <2>1. linea' = IF ContadorFila' = 0 THEN Desplazada ELSE ContadorFila'
    BY <1>1, <1>3 DEF Debida
  <2>2. lcd' = "EnEspera"
    BY <1>2, <1>3
  <2> QED
    BY <1>3, <2>1, <2>2 DEF Cursor, Destino
<1>4. CASE principal = "Esperar" /\ principal' = "Escribir_LCD"
  <2>1. lcd = "EnEspera" /\ lcd' = "EnEspera" /\ rastro' = <<>> /\ linea' = linea
    BY <1>1, <1>2, <1>4 DEF Debida
  <2>2. linea # Desplazada => cursor = <<linea, 1>>
    BY <1>4, <2>1 DEF Cursor, DeCamino, Mudanza
  <2>3. linea # Desplazada => EnLinea(linea)'
    BY <1>1, <2>1, <2>2, Constantes DEF EnLinea
  <2> QED
    BY <1>4, <2>1, <2>3 DEF Cursor
<1>5. CASE principal = "Cambiar_Fila"
  <2>1. /\ lcd = "EnEspera" /\ Contador = 0 /\ Next_Row
        /\ linea = IF ContadorFila = 0 THEN Desplazada ELSE ContadorFila
    BY <1>1, <1>5 DEF Cursor, Quieto, Lista, Next_Row
  <2>2. lcd_ins = {} /\ registro # Terminar
    BY <1>1, <1>5, Constantes DEF Obediente, Done, Acordes
  <2>3. "CLR" \notin lcd_ins
    BY <2>2
  <2>4. lcd' = CambioDeFila
    BY <1>1, <2>1, <2>3 DEF LCD, Escribiendo
  <2>5. lcd' \in Escribiendo /\ lcd' # "Escribir01"
    BY <1>1, <2>4 DEF CambioDeFila, TypeOK, Escribiendo
  <2>6. principal' = "Terminar" /\ linea' = linea
    BY <1>1, <1>5, <2>1, <2>2, <2>5 DEF Main_LCD, LCD_E, Debida
  <2>7. linea # Desplazada => DeCamino' /\ Destino' /\ lcd' # "EscribirDato"
    <3> SUFFICES ASSUME linea # Desplazada PROVE DeCamino' /\ Destino' /\ lcd' # "EscribirDato"
      OBVIOUS
    <3>1. linea = ContadorFila /\ ContadorFila \in 1..3
      BY <1>1, <2>1 DEF TypeOK
    <3>2. Contador' = 0
      BY <1>1, <2>1
    <3> QED
      BY <2>4, <2>6, <3>1, <3>2 DEF CambioDeFila, DeCamino, Destino, Mudanza
  <2> QED
    BY <2>5, <2>6, <2>7 DEF Cursor, Escribiendo
<1>6. CASE principal = "Escribir_LCD"
  <2>1. Escritura /\ (linea # Desplazada => EnLinea(linea)) /\ rastro' = rastro
    BY <1>1, <1>6 DEF Obediente, Cursor, Baja
  <2>2. lcd_ins = {}
    BY <1>1, <1>6 DEF Obediente, Done
  <2>3. "CLR" \notin lcd_ins
    BY <2>2
  <2>4. ~Next_Row /\ lcd \in {"EnEspera", "EscribirDato", "Escribir_Hecho"}
    BY <1>1, <1>6, <2>1, Constantes DEF Next_Row, Escritura, Acordes, TypeOK
  <2>5. lcd' \in {"EnEspera", "EscribirDato", "Escribir_Hecho"}
    BY <1>1, <2>3, <2>4 DEF LCD, Escribiendo
  <2>6. CASE registro = Terminar
    <3>1. principal' = "Terminar" /\ lcd = "EnEspera" /\ Len(rastro) = K
      BY <1>1, <1>6, <2>1, <2>6, Constantes DEF Main_LCD, Lista2, Escritura, Vistas
    <3>2. ~EscribirLCD
      BY <2>6, Constantes DEF EscribirLCD
    <3>3. lcd' = "EnEspera"
      BY <1>1, <2>3, <2>4, <3>1, <3>2 DEF LCD, Escribiendo
    <3>4. linea' = IF linea # Desplazada THEN Debajo(linea) ELSE linea
      BY <1>1, <1>6, <2>6, <3>3 DEF Debida
    <3>5. linea # Desplazada => cursor = <<Debajo(linea), 1>>
      BY <2>1, <3>1 DEF EnLinea
    <3> QED
      BY <1>1, <3>1, <3>3, <3>4, <3>5 DEF Cursor, Destino
  <2>7. CASE registro # Terminar
    <3>1. principal' = "Escribir_LCD"
      BY <1>1, <1>6, <2>7 DEF Main_LCD, Lista2
    <3>2. linea' = linea
      BY <1>1, <1>6, <2>5, <2>7 DEF Debida
    <3>3. linea # Desplazada => EnLinea(linea)'
      BY <1>1, <2>1, <3>2 DEF EnLinea
    <3> QED
      BY <2>5, <3>1, <3>2, <3>3 DEF Cursor
  <2> QED
    BY <2>6, <2>7
<1>7. CASE \/ principal \in {"Inicio", "Terminar"}
           \/ principal = "Esperar" /\ principal' = "Esperar"
  <2>1. principal \in {"Inicio", "Esperar", "Terminar"} /\ principal' \in {"Esperar", "Terminar"}
    BY <1>1, <1>7 DEF Main_LCD
  <2> QED
    BY <2>1, CursorReposo
<1>8. principal = "Esperar" => principal' \in {"Esperar", "Cambiar_Fila", "Escribir_LCD"}
  BY <1>1 DEF Main_LCD
<1>9. CASE principal = "Esperar"
  BY <1>3, <1>4, <1>7, <1>8, <1>9
<1>10. CASE principal # "Esperar"
  <2>1. principal = "Cambiar_Fila" \/ principal = "Escribir_LCD" \/ principal \in {"Inicio", "Terminar"}
    BY <1>1, <1>10 DEF TypeOK
  <2> QED
    BY <1>5, <1>6, <1>7, <2>1
<1> QED
  BY <1>9, <1>10

\* A row goes to the line at which it is due, from its first column, for rows of
\* any size: the first row of all, the row behind a change or a clear and the one
\* that follows another; except behind the fourth change (LCD.v:79-88).
THEOREM SiempreEnSuLinea == Spec => []FilaEnSuLinea
<1>1. Init => Cursor
  BY DEF Init, Cursor, Destino
<1>2. IInv /\ Cursor /\ [Next]_vars => Cursor'
  <2> SUFFICES ASSUME IInv, Cursor, [Next]_vars PROVE Cursor'
    OBVIOUS
  <2>1. CASE Reinicia
    BY <2>1 DEF Reinicia, Cursor, Destino
  <2>2. CASE UNCHANGED vars
    BY <2>2 DEF vars, bus, driver, panel, Cursor, DeCamino, Destino, EnLinea
  <2> QED
    BY <2>1, <2>2, CursorSube, CursorBaja DEF Next
<1>3. IInv /\ Cursor => FilaEnSuLinea
  <2> SUFFICES ASSUME IInv, Cursor, maestro = "obediente", registro = Terminar,
                      linea # Desplazada
               PROVE  \A i \in 1..Len(rastro) : rastro[i][1] = <<linea, i>>
    BY DEF FilaEnSuLinea
  <2>1. principal = "Escribir_LCD"
    BY Constantes DEF IInv, LInv, Acordes, TypeOK
  <2> QED
    BY <2>1 DEF Cursor, EnLinea
<1> QED
  BY <1>1, <1>2, <1>3, SiempreIInv, PTL DEF Spec
=============================================================================
