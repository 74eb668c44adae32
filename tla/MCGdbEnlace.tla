---------------------------- MODULE MCGdbEnlace -----------------------------
(* A host that makes three requests in turn: one with a sequence, which     *)
(* leaves ':' in the buffer, one that overwrites it and a short one.        *)
EXTENDS GdbEnlace
MCSesion == <<<<10, 11, DOSPUNTOS, 12>>, <<13, 10, 12>>, <<14>>>>
=============================================================================
