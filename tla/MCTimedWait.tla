---------------------------- MODULE MCTimedWait ----------------------------
(* A small instance of TimedWait for TLC. *)
EXTENDS TimedWait

CONSTANTS w, s1, s2
============================================================================
