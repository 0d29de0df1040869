---------------------------- MODULE MCProcRunner ----------------------------
(* An instance of ProcRunner for TLC: every backend, one database error. *)
EXTENDS ProcRunner

MCBackends == Polled \cup {"probe", "ollama"}
=============================================================================
