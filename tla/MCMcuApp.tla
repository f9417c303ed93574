------------------------------ MODULE MCMcuApp ------------------------------
(* McuApp with packets umqtt treats differently.                           *)
EXTENDS McuApp

MCPbuf == [id : 1..MaxPkt, conn : Conn, kind : Kind]
MCPbufLen == [p \in MCPbuf |-> IF p.kind = "connack" THEN 4 ELSE 2]
=============================================================================
