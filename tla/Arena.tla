------------------------------- MODULE Arena -------------------------------
(***************************************************************************)
(* What an allocator promises: it lends pieces of a row of cells, no cell  *)
(* to two borrowers at a time, each piece as large as was asked for.       *)
(***************************************************************************)
EXTENDS Naturals

CONSTANTS Cells, Sizes   \* the row is 0 .. Cells - 1

VARIABLE lent            \* set of [at, asked]

Extent(b) == b.at .. b.at + b.asked - 1

Init == lent = {}

Lend(n) ==
    \E at \in 0 .. Cells - 1 :
      LET b == [at |-> at, asked |-> n] IN
      /\ Extent(b) \subseteq 0 .. Cells - 1
      /\ \A c \in lent : Extent(b) \cap Extent(c) = {}
      /\ lent' = lent \cup {b}

Return(b) == b \in lent /\ lent' = lent \ {b}

Next == \/ \E n \in Sizes : Lend(n)
        \/ \E b \in lent : Return(b)

Spec == Init /\ [][Next]_lent
============================================================================
