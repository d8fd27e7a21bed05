------------------------------- MODULE MCHcSr04 --------------------------------
(* HcSr04 for TLC: see hc_sr04.cfg.  A pulse of 1 or 2 can be over before its first   *)
(* edge is served, and the clock goes past the width of uint32_t.                      *)
EXTENDS HcSr04
================================================================================
