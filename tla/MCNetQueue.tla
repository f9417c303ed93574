----------------------------- MODULE MCNetQueue -----------------------------
(* NetQueue on a ring of a few slots and pbufs of different lengths.       *)
EXTENDS NetQueue, TLC

CONSTANTS p1, p2, p3

MCPbufLen == (p1 :> 4) @@ (p2 :> 2) @@ (p3 :> 300)

=============================================================================
