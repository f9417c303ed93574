---------------------------- MODULE MCNetClient ----------------------------
(* NetClient with a short packet and a longer one.                         *)
EXTENDS NetClient

MCPbuf == [id : 1..MaxPkt, conn : Conn, kind : Kind]
MCPbufLen == [p \in MCPbuf |-> IF p.kind = "short" THEN 2 ELSE 5]
=============================================================================
