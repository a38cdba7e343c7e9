------------------------------ MODULE ResetSet ------------------------------
(***************************************************************************)
(* What serverResets of internal/protocol/h2/stream/processor.go promises: *)
(* a set of streams over a window that ends at the highest one marked.     *)
(* Streams are numbered by rank (1, 2, 3 for the identifiers 1, 3, 5).     *)
(***************************************************************************)
EXTENDS Naturals

CONSTANT ResetWindow   \* serverResetWindow

NoResets == [top |-> 0, ids |-> {}]

Has(r, n) == n \in r.ids

\* A new highest mark moves the window; what is older than the window is gone.
Mark(r, n) ==
  LET top == IF n > r.top THEN n ELSE r.top IN
  [top |-> top, ids |-> {i \in r.ids \cup {n} : i + ResetWindow > top}]

Clear(r, n) == [r EXCEPT !.ids = @ \ {n}]
=============================================================================
