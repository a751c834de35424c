------------------------------- MODULE MCPipe -------------------------------
(* An instance of Pipe for TLC.  No symmetry: the run checks liveness.     *)
EXTENDS Pipe
=============================================================================
