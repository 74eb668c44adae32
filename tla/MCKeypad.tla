------------------------------ MODULE MCKeypad ------------------------------
(* The values of Keypad's constants that a configuration cannot write.      *)
EXTENDS Keypad

\* Two keys in different columns and rows.
MCTeclas == {<<0, 0>>, <<2, 1>>}
=============================================================================
