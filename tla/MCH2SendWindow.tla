--------------------------- MODULE MCH2SendWindow ---------------------------
(* Small connections for TLC. *)
EXTENDS H2SendWindow, TLC

CONSTANTS w1, w2, s1, s2

MCWriters == {w1, w2}
MCStreams == {s1, s2}
MCStreamOf == (w1 :> s1) @@ (w2 :> s2)
\* One handler has a whole response, the other streams.
MCResponders == {w1}
MCBody == (w1 :> 2) @@ (w2 :> 1)
MCDown == {-1}
=============================================================================
