--------------------------------- MODULE MCFeed ---------------------------------
(* Feed for TLC: one page, two threads of the pool, and a clock whose one step has an  *)
(* hour, a minute and some seconds in it.                                               *)
EXTENDS Feed
================================================================================
