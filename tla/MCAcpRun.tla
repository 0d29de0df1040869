------------------------------ MODULE MCAcpRun ------------------------------
(* An instance of AcpRun for TLC. *)
EXTENDS AcpRun
=============================================================================
