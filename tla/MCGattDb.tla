----------------------------- MODULE MCGattDb ------------------------------
(* Small instances of GattDb for TLC. *)
EXTENDS GattDb

CONSTANTS h1, h2, v1, v2
============================================================================
