----------------------------- MODULE MCH2Streams -----------------------------
(* Small connections for TLC. *)
EXTENDS H2Streams

CONSTANTS o1, o2

MCObjs == {o1, o2}
MCIds == {1, 3, 5}
=============================================================================
