--------------------------- MODULE MCOutputFile ---------------------------
(* Small instances of OutputFile for TLC: frame sizes that make the static  *)
(* buffer grow on some frames and not on others.                            *)
EXTENDS OutputFile

FrameSize == [f \in 0 .. MaxFrame |-> IF f = 0 THEN 0 ELSE (f * f) % 5]
============================================================================
