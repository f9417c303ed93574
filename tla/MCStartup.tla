----------------------------- MODULE MCStartup -----------------------------
(* Startup with words of two bytes, both sections ending inside a word.    *)
EXTENDS Startup

MCFlash == [i \in 0..(SramEnd + Word) |-> IF i \in {1, 3} THEN 0 ELSE 1]
=============================================================================
