------------------------------- MODULE MCPipe -------------------------------
(* Pipe for TLC. *)
EXTENDS Pipe
=============================================================================
