---------------------------- MODULE ServerResets ----------------------------
(***************************************************************************)
(* serverResets of internal/protocol/h2/stream/processor.go: a ring of     *)
(* bits in words, of which only the last ResetWindow positions below top   *)
(* mean anything, beside the set it stands for.                            *)
(***************************************************************************)
EXTENDS ResetSet, FiniteSets

CONSTANTS
  WordBits,   \* 64, a divisor of ResetWindow
  MaxId       \* bound: highest stream identifier

VARIABLES
  top,        \* one past the highest index marked
  bits,       \* the set bits of each word
  set         \* what was marked and cleared

vars == <<top, bits, set>>

Words == 0..(ResetWindow \div WordBits) - 1
NoBits == [w \in Words |-> {}]

Init == top = 0 /\ bits = NoBits /\ set = NoResets

Word(k) == (k % ResetWindow) \div WordBits

\* 1 << (k % 64).
Bit(k) == k % WordBits

With(b, k) == [b EXCEPT ![Word(k)] = @ \cup {Bit(k)}]

\* The words without the positions of the indexes in K.
Without(b, K) == [w \in Words |-> b[w] \ {Bit(k) : k \in {j \in K : Word(j) = w}}]

\* Mutant: the index just past the last mark keeps the bit it inherits.
PassedFrom(idx) == top + 1..idx

\* for k := r.top; k <= idx; k++.
Passed(idx) == top..idx

\* idx+serverResetWindow < r.top.
TooOld(idx) == idx + ResetWindow < top

\* has.
HasBit(id) ==
  LET idx == id \div 2 IN
  /\ id % 2 = 1 /\ idx < top /\ ~TooOld(idx)
  /\ Bit(idx) \in bits[Word(idx)]

\* mark.
MarkBit(id) ==
  LET idx == id \div 2 IN
  IF id % 2 = 0 THEN UNCHANGED <<top, bits>>
  ELSE IF idx >= top
  THEN /\ top' = idx + 1
       /\ bits' = With(IF idx - top >= ResetWindow \/ top = 0 THEN NoBits
                       ELSE Without(bits, Passed(idx)), idx)
  ELSE /\ bits' = IF TooOld(idx) THEN bits ELSE With(bits, idx)
       /\ UNCHANGED top

\* clear.
ClearBit(id) ==
  /\ bits' = IF HasBit(id) THEN Without(bits, {id \div 2}) ELSE bits
  /\ UNCHANGED top

Rank(id) == (id + 1) \div 2

MarkId(id) ==
  /\ MarkBit(id)
  /\ set' = IF id % 2 = 1 THEN Mark(set, Rank(id)) ELSE set

ClearId(id) ==
  /\ ClearBit(id)
  /\ set' = IF id % 2 = 1 THEN Clear(set, Rank(id)) ELSE set

Next == \E id \in 0..MaxId : MarkId(id) \/ ClearId(id)

Spec == Init /\ [][Next]_vars

-----------------------------------------------------------------------------
(* Properties. *)

\* After any marks and clears, however far apart, has answers as the set does:
\* no bit of a position used before shows through, none in the window is lost.
RingIsSet == \A id \in 0..MaxId : HasBit(id) <=> (id % 2 = 1 /\ Has(set, Rank(id)))
=============================================================================
