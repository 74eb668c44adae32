----------------------------- MODULE MCGdbStub ------------------------------
(* A program of four words with every kind of instruction, and a host that  *)
(* reads, writes, steps and goes on, also where there is no memory.         *)
EXTENDS GdbStub

CONSTANT Programa      \* the name of the program
MCRAM == 0..3
I(t, d) == [tipo |-> t, des |-> d]
MCInsn == [v \in Byte |-> CASE v = 1 -> I("bi", -3) [] v = 2 -> I("be", 2)
  [] v = 3 -> I("b", 0) [] v = 4 -> I("mal", 0) [] v = 5 -> I("div", 0)
  [] v = 6 -> I("scall", 0) [] v = 7 -> I("ie", 0) [] v = 8 -> I("break", 0)
  [] v = 9 -> I("be", 1) [] OTHER -> I("otra", 0)]
MCImagen == [a \in MCRAM |-> IF Programa = "bucle" THEN <<7, 2, 3, 1>>[a + 1]
                             ELSE <<0, 9, 0, 1>>[a + 1]]
MCMAIN == 0

P(cmd, a1, a2, dat, bytes) ==
  [cmd |-> cmd, a1 |-> EnHex(a1), sep |-> TRUE, a2 |-> EnHex(a2), dat |-> dat, bytes |-> bytes]
Escribe(a, b) == P("M", <<a>>, <<Len(b)>>, EnHex(b), b)
Descarga(a, b) == P("X", <<a>>, <<Len(b)>>, EnBinario(b), b)

MCPeticiones ==
  {P(c, <<>>, <<>>, <<>>, <<>>) : c \in {"?", "q", "p", "m", "c", "s"}}
  \cup {P("g", <<>>, <<>>, <<>>, <<>>), P("G", <<>>, <<>>, EnHex(<<0, 1, 0>>), <<>>),
        P("P", <<PC>>, <<>>, EnHex(<<3>>), <<>>), P("s", <<9>>, <<>>, <<>>, <<>>)}
  \cup {P("m", <<2>>, <<2>>, <<>>, <<>>), P("m", <<3>>, <<2>>, <<>>, <<>>),
        P("m", <<1>>, <<TOPE>>, <<>>, <<>>)}
  \cup {Escribe(3, <<4, 6>>), Escribe(0, <<>>), Descarga(2, <<8>>)}
=============================================================================
