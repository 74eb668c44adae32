------------------------------ MODULE MCCarga -------------------------------
(* Three files: lines that overlap and end the window, with data equal to   *)
(* the commands; a file whose last line is data; one of other line types    *)
(* with a line of one byte and one of none, at places that are not zero.    *)
(* Signatures: one that the loader prints, one that it does not.            *)
EXTENDS Carga
L(t, d, b) == [tipo |-> t, cuenta |-> Cabecera(t) + Len(b), dir |-> d, dat |-> b]
MCFicheros ==
  {<<L("S0", 0, <<1, 2>>), L("S3", 9, <<1, 2, 3>>), L("S3", 11, <<6, 2>>), L("S7", 9, <<>>)>>,
   <<L("S7", 8, <<>>), L("S3", 10, <<3, 4, 1>>), L("S3", 7, <<5, 6, 7, 1>>)>>,
   <<L("S1", 8, <<1, 2>>), L("otra", 0, <<>>), L("S2", 11, <<3, 4>>), L("S3", 10, <<5>>), L("S3", 10, <<>>), L("S9", 8, <<>>)>>}
MCRAM == 7..13
MCSaludo == <<5, 2, 7>>
MCFirmas == {<<5, 2>>, <<2, 5>>}
=============================================================================
