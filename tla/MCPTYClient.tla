----------------------------- MODULE MCPTYClient -----------------------------
(* Two callers of one connection.  With bytes of six values four of them    *)
(* hold -648 .. 647: a code with its sign bit, and one that needs two bytes. *)
EXTENDS PTYClient

MCExitCodes == {-1, 300}
=============================================================================
