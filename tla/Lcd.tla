--------------------------------- MODULE Lcd ---------------------------------
(***************************************************************************)
(* The character display of rtl/wb_lcd: the Wishbone registers (wb_lcd.v), *)
(* the sequencer of commands (Main_LCD.v), the row register                *)
(* (Registro_LCD.v), the driver of the display's bus (LCD.v) with its      *)
(* power-up sequence (Encender.v), and the display itself.                 *)
(*                                                                         *)
(* Bus registers and timer move on the rising edge of the clock (Sube),    *)
(* the three state machines on the falling edge (Baja): a step is half a   *)
(* cycle.  A word of text is abstracted to the name of the text it is from;*)
(* letter j of a row is <<text, j>>.                                       *)
(***************************************************************************)
EXTENDS Integers, Sequences

CONSTANTS
  N,            \* ticks of a write to the display; 30000 in the code
  Palabras,     \* data words of a row; 5 in the code
  Letras,       \* letters of a word; 4 in the code
  Textos,       \* texts the bus master may write
  Blanco,       \* the word of four blanks
  Maestros      \* the bus masters to consider: "obediente", "libre"

ASSUME LcdAssumption ==
  /\ N \in Nat /\ N > 5
  /\ Palabras \in Nat \ {0} /\ Letras \in Nat \ {0}
  /\ Blanco \in Textos /\ "orden" \notin Textos
  /\ Maestros \subseteq {"obediente", "libre"} /\ Maestros # {}

VARIABLES
  sigue,                       \* the next edge: "sube" or "baja"
  ack, lcd_ins, dato, fila,    \* wb_lcd; fila is its Registro_LCD
  principal,                   \* state of Main_LCD
  registro, Reg_DB,            \* state of Registro_LCD and its row
  lcd, DB_Reg, ContadorFila,   \* LCD
  encender, Contador,          \* Encender
  cursor,                      \* the display: where the next letter goes
  maestro,                     \* the bus master of this behaviour
  pedido, rastro,              \* the row last ordered; what was shown since
  linea                        \* ghost: the line at which the next row is due

bus    == <<ack, lcd_ins, dato, fila>>
driver == <<principal, registro, Reg_DB, lcd, DB_Reg, ContadorFila>>
panel  == <<cursor, rastro>>
vars   == <<sigue, bus, driver, encender, Contador, panel, pedido, linea, maestro>>

Ordenes == {"WR", "CLR", "CHR"}
K == Palabras * Letras           \* letters of a row, 20 in the code
Filas == [1..Palabras -> Textos]
Letra(f, j) == <<f[(j - 1) \div Letras + 1], j>>
Vacia == [w \in 1..Palabras |-> Blanco]

\* States of Registro_LCD: 0, then the letters 1..K, then these.
Espera_T == K + 1
Terminar == K + 2
En_Espera == K + 3

INICIO_HECHO == 9

-----------------------------------------------------------------------------
(* Combinational signals. *)

Lista == lcd = "EnEspera"

\* Mutant of Done: only the driver is asked.
Done_solo_lcd == Lista

Done == Lista /\ principal = "Esperar"
Inicio_Hecho == encender = INICIO_HECHO
Write == principal = "Escribir_LCD"
Next_Row == principal = "Cambiar_Fila"

\* Mutant of EscribirLCD: the last letter is not asked for.
EscribirLCD_corta == registro \in 1..K - 1

EscribirLCD == registro \in 1..K
Lista2 == registro = Terminar
LCD_RS == lcd = "EscribirDato"

\* Mutant of LCD_E: E is raised where the state may still change.
LCD_E_tarde == Contador = N

LCD_E == Contador = 5

\* Letters are pairs; so are commands to the display.
Orden(c) == <<"orden", c>>

Dato == CASE encender \in 1..4 -> Orden("38") [] encender = 5 -> Orden("06")
          [] encender = 6 -> Orden("0C") [] encender = 7 -> Orden("01")
          [] encender = 8 -> Orden("80") [] OTHER -> Orden("00")

\* Mutant of Dato_E_LCD: no copy of the row is kept.
Dato_E_LCD_sin_copia == Letra(fila, registro)

\* The row register is transparent in its first state.
Dato_E_LCD == Letra(IF registro = 1 THEN fila ELSE Reg_DB, registro)

LCD_DB == CASE lcd = "EscribirF2" -> Orden("C0") [] lcd = "EscribirF3" -> Orden("94")
            [] lcd = "EscribirF4" -> Orden("D4") [] lcd = "Escribir01" -> Orden("01")
            [] OTHER -> IF Inicio_Hecho THEN DB_Reg ELSE Dato

-----------------------------------------------------------------------------
Init ==
  /\ sigue = "sube"
  /\ ack = FALSE /\ lcd_ins = {} /\ dato = Vacia /\ fila = Vacia
  /\ principal = "Inicio" /\ registro = 0 /\ Reg_DB = Vacia
  /\ lcd = "Iniciar" /\ DB_Reg = Orden("00") /\ ContadorFila = 0
  /\ encender = 0 /\ Contador = 0
  /\ cursor = <<0, 1>> /\ pedido = Vacia /\ rastro = <<>> /\ linea = 0
  /\ maestro \in Maestros

(* The bus side, on the rising edge.  A request is taken when ack is low;  *)
(* lcd_ins lasts one cycle; fila copies the data words as they were.       *)

BusQuieto == ack' = FALSE /\ lcd_ins' = {} /\ UNCHANGED <<dato, fila>>

\* IF a request is taken THEN acknowledge it.
Lee == ~ack /\ ack' = TRUE /\ lcd_ins' = {} /\ UNCHANGED <<dato, fila>>

Escribe(d, ins) ==
  /\ ~ack /\ ack' = TRUE
  /\ dato' = d /\ lcd_ins' = ins /\ fila' = dato

(* The obedient master gives one order at a time, when Done; the free one  *)
(* any orders at any time, and writes one text only.  A write to an offset *)
(* that is no register makes all words blank.                              *)
Bus ==
  \/ BusQuieto
  \/ Lee
  \/ Escribe(Vacia, {})
  \/ \E w \in 1..Palabras, t \in Textos :
       maestro = "obediente" /\ Escribe([dato EXCEPT ![w] = t], {})
  \/ \E o \in Ordenes : maestro = "obediente" /\ Done /\ Escribe(dato, {o})
  \/ \E ins \in SUBSET Ordenes : maestro = "libre" /\ Escribe(dato, ins)

\* Mutant of Cuenta: the timer wraps one tick late.
Cuenta_larga == IF Lista \/ Contador = N + 1 THEN 0 ELSE Contador + 1

\* The timer runs while the driver is busy, 0..N.
Cuenta == IF Lista \/ Contador = N THEN 0 ELSE Contador + 1

Enciende == IF encender # INICIO_HECHO /\ Contador >= N THEN encender + 1 ELSE encender

(* The display, external: it takes what is on its bus when E falls.        *)
(* In its memory the third row follows the first and the fourth the        *)
(* second.                                                                 *)

Debajo(l) == CASE l = 0 -> 2 [] l = 2 -> 1 [] l = 1 -> 3 [] OTHER -> 0
Despues(p) == IF p[2] < K THEN <<p[1], p[2] + 1>> ELSE <<Debajo(p[1]), 1>>

Muestra(rs, db) ==
  IF rs THEN cursor' = Despues(cursor) /\ rastro' = Append(rastro, <<cursor, db>>)
  ELSE /\ cursor' = CASE db \in {Orden("01"), Orden("80")} -> <<0, 1>>
                      [] db = Orden("C0") -> <<1, 1>> [] db = Orden("94") -> <<2, 1>>
                      [] db = Orden("D4") -> <<3, 1>> [] OTHER -> cursor
       /\ UNCHANGED rastro

Sube ==
  /\ sigue = "sube" /\ sigue' = "baja"
  /\ Bus
  /\ Contador' = Cuenta /\ encender' = Enciende
  /\ IF LCD_E THEN Muestra(LCD_RS, LCD_DB) ELSE UNCHANGED panel
  /\ UNCHANGED <<driver, pedido, linea, maestro>>

-----------------------------------------------------------------------------
(* The state machines, on the falling edge. *)

\* IF a row change is asked for THEN that, ELSE IF a write THEN that.
Main_LCD ==
  principal' =
    CASE principal = "Inicio" -> "Esperar"
      [] principal = "Esperar" ->
           IF "CHR" \in lcd_ins THEN "Cambiar_Fila"
           ELSE IF "WR" \in lcd_ins THEN "Escribir_LCD" ELSE "Esperar"
      [] principal = "Escribir_LCD" -> IF Lista2 THEN "Terminar" ELSE "Escribir_LCD"
      [] principal = "Cambiar_Fila" -> IF ~LCD_E THEN "Terminar" ELSE "Cambiar_Fila"
      [] principal = "Terminar" ->
           IF lcd_ins \cap {"WR", "CHR"} # {} THEN "Terminar" ELSE "Esperar"

\* Mutant of Registro_LCD: the end of the row is held until the write ends.
Registro_LCD_retiene ==
  /\ registro' =
       CASE registro = 0 -> En_Espera
         [] registro = En_Espera -> IF Write THEN 1 ELSE En_Espera
         [] registro \in 1..K -> IF Lista THEN registro + 1 ELSE registro
         [] registro = Espera_T -> IF LCD_RS THEN Terminar ELSE Espera_T
         [] registro = Terminar -> En_Espera
  /\ Reg_DB' = IF registro = 1 /\ Lista THEN fila ELSE Reg_DB

\* IF the driver is free THEN hand it the next letter.
Registro_LCD ==
  /\ registro' =
       CASE registro = 0 -> En_Espera
         [] registro = En_Espera -> IF Write THEN 1 ELSE En_Espera
         [] registro \in 1..K -> IF Lista THEN registro + 1 ELSE registro
         [] registro = Espera_T -> IF ~LCD_RS THEN Terminar ELSE Espera_T
         [] registro = Terminar -> En_Espera
  /\ Reg_DB' = IF registro = 1 /\ Lista THEN fila ELSE Reg_DB

\* Mutant of CambioDeFila: the last line is forgotten.
CambioDeFila_tres == CASE ContadorFila = 1 -> "EscribirF2" [] ContadorFila = 2 -> "EscribirF3"
                       [] ContadorFila \in {0, 3} -> "EscribirDato"

\* The state that moves the cursor to the row counted by ContadorFila.
CambioDeFila == CASE ContadorFila = 1 -> "EscribirF2" [] ContadorFila = 2 -> "EscribirF3"
                  [] ContadorFila = 3 -> "EscribirF4" [] ContadorFila = 0 -> "EscribirDato"

Escribiendo == {"EscribirDato", "EscribirF2", "EscribirF3", "EscribirF4", "Escribir01"}

LCD ==
  /\ lcd' =
       CASE lcd = "Iniciar" ->
              IF ~Inicio_Hecho THEN "Iniciar"
              ELSE IF Next_Row THEN CambioDeFila ELSE "EnEspera"
         [] lcd = "EnEspera" ->
              IF "CLR" \in lcd_ins THEN "Escribir01"
              ELSE IF Next_Row THEN CambioDeFila
              ELSE IF EscribirLCD THEN "EscribirDato" ELSE "EnEspera"
         [] lcd \in Escribiendo -> IF Contador >= N THEN "Escribir_Hecho" ELSE lcd
         [] lcd = "Escribir_Hecho" -> "EnEspera"
  /\ DB_Reg' = IF EscribirLCD /\ Lista THEN Dato_E_LCD ELSE DB_Reg

(* The ghost: orders alone say where a row is due, at the first line from  *)
(* the start or a clear, at the line counted by ContadorFila behind a      *)
(* change, where the display goes on behind another row.  Behind the change*)
(* at which ContadorFila is 0 again, which sends a letter and no address   *)
(* (LCD.v:86), rows are displaced until a change or a clear sends one.     *)
Desplazada == 4

Debida ==
  IF principal = "Esperar" /\ principal' = "Cambiar_Fila"
    THEN IF ContadorFila' = 0 THEN Desplazada ELSE ContadorFila'
  ELSE IF Lista /\ lcd' = "Escribir01" THEN 0
  ELSE IF registro = Terminar /\ linea # Desplazada THEN Debajo(linea)
  ELSE linea

\* ContadorFila is clocked by Next_Row; the timer is held at 0 in EnEspera.
Baja ==
  /\ sigue = "baja" /\ sigue' = "sube"
  /\ Main_LCD /\ Registro_LCD /\ LCD
  /\ ContadorFila' = IF ~Next_Row /\ principal' = "Cambiar_Fila"
                       THEN (ContadorFila + 1) % 4 ELSE ContadorFila
  /\ Contador' = IF lcd' = "EnEspera" THEN 0 ELSE Contador
  /\ IF principal = "Esperar" /\ principal' # "Esperar"
       THEN /\ rastro' = <<>>
            /\ pedido' = IF principal' = "Escribir_LCD" THEN fila ELSE pedido
       ELSE UNCHANGED <<rastro, pedido>>
  /\ linea' = Debida
  /\ UNCHANGED <<bus, encender, cursor, maestro>>

\* Reset leaves the data words alone; the display is started again.
Reinicia ==
  /\ ack' = FALSE /\ lcd_ins' = {}
  /\ principal' = "Inicio" /\ registro' = 0
  /\ lcd' = "Iniciar" /\ DB_Reg' = Orden("00") /\ ContadorFila' = 0
  /\ encender' = 0 /\ Contador' = 0
  /\ cursor' = <<0, 1>> /\ rastro' = <<>> /\ linea' = 0
  /\ UNCHANGED <<sigue, dato, fila, Reg_DB, pedido, maestro>>

Next == Sube \/ Baja \/ Reinicia

Spec == Init /\ [][Next]_vars

\* The clock never stops.
FairSpec == Spec /\ WF_vars(Sube) /\ WF_vars(Baja)

-----------------------------------------------------------------------------
TypeOK ==
  /\ sigue \in {"sube", "baja"}
  /\ ack \in BOOLEAN /\ lcd_ins \in SUBSET Ordenes
  /\ dato \in Filas /\ fila \in Filas /\ Reg_DB \in Filas /\ pedido \in Filas
  /\ principal \in {"Inicio", "Esperar", "Escribir_LCD", "Cambiar_Fila", "Terminar"}
  /\ registro \in 0..En_Espera
  /\ lcd \in {"Iniciar", "EnEspera", "Escribir_Hecho"} \cup Escribiendo
  /\ ContadorFila \in 0..3 /\ encender \in 0..INICIO_HECHO /\ Contador \in 0..N
  /\ cursor \in (0..3) \X (1..K) /\ linea \in 0..Desplazada /\ maestro \in Maestros

\* The letters of rastro, without their places.
Mostrado == [i \in 1..Len(rastro) |-> rastro[i][2]]

\* The letters shown for a write are those of the row as it stood when the
\* order was taken, in order, whatever an obedient master writes to the data
\* words meanwhile (wb_lcd.v:133, Registro_LCD.v:49-70, LCD.v:125).
FilaIntegra ==
  maestro = "obediente" /\ registro \in 1..Terminar =>
    /\ Len(rastro) <= K
    /\ \A i \in 1..Len(rastro) : Mostrado[i] = Letra(pedido, i)

\* A row of an obedient master is shown completely before the driver says it
\* is done (Registro_LCD.v:138-164, LCD.v:136).
FilaCompleta ==
  maestro = "obediente" /\ registro = Terminar => Len(rastro) = K

\* The two together, in a state of the right type: what an order shows is the
\* row that was ordered, all of it and nothing else, and every counter and
\* state register is in its range, the cells of a line included (LCD.v:125).
FilaMostrada == TypeOK /\ FilaIntegra /\ FilaCompleta

\* A row goes to the line at which it is due, from its first column: the first
\* line after power-up or a clear, the line that ContadorFila counts after a
\* change, the display's next one after a row; whatever rows, changes and
\* clears came before.  Left out are the rows behind the fourth change, whose
\* letter displaces them, up to the next change or clear (LCD.v:79-88).
FilaEnSuLinea ==
  maestro = "obediente" /\ registro = Terminar /\ linea # Desplazada =>
    \A i \in 1..Len(rastro) : rastro[i][1] = <<linea, i>>

\* While E is high nothing on the display's bus moves (LCD.v:138-146).
DatosEstables ==
  [][LCD_E /\ LCD_E' /\ ~Reinicia => UNCHANGED <<LCD_RS, LCD_DB>>]_vars

\* Ready means idle: with Done no machine is in the middle of anything, so
\* that an order given now is not lost, whatever came before (Main_LCD.v:93).
DoneEsReposo ==
  Done => registro = En_Espera /\ encender = INICIO_HECHO /\ Contador = 0

\* Whatever was asked of it, and whenever it was asked, the controller becomes
\* ready when the master stops: no order leaves a machine waiting for another
\* (Main_LCD.v:59-82, Registro_LCD.v:33-157, LCD.v:59-116).
SiempreVuelve == <>[][~Reinicia /\ lcd_ins' = {}]_vars => <>[]Done
=============================================================================
