------------------------------- MODULE MCStartup -------------------------------
(* Startup for TLC: it has no data, only the bound on failures to set. *)
EXTENDS Startup
================================================================================
