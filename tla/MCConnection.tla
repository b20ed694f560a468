--------------------------- MODULE MCConnection ----------------------------
(* Small instances of Connection for TLC. *)
EXTENDS Connection

CONSTANTS a1, a2, a3, h1, h2, h3

\* ace_bt gives any device any handle that no link has at that time.
AnyHandle == [a \in Addrs |-> Handles]

\* ace_bt never gives two devices the same handle.
OwnHandle == [a \in Addrs |-> CASE a = a1 -> {h1} [] a = a2 -> {h2} [] OTHER -> {h3}]
============================================================================
