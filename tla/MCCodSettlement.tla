--------------------------- MODULE MCCodSettlement ---------------------------
(* A small instance of the cash on delivery ledger for TLC: receivables of   *)
(* two units, sheets with and without a fee or an adjustment, and            *)
(* corrections of each amount alone and of a gross with its discrepancy.     *)
EXTENDS CodSettlement, TLC

TwoEach == [o \in Order |-> 2]

Delta(g, f, a, d) == [gross |-> g, fee |-> f, adjustment |-> a, discrepancy |-> d]

Sheets == {[gross |-> g, fee |-> 0, adjustment |-> 0]: g \in 1..2}
          \union {[gross |-> 1, fee |-> 1, adjustment |-> 1],
                  [gross |-> 3, fee |-> 1, adjustment |-> 0]}

CashDeltas == {-1, 1}

LineDeltas == {Delta(1, 0, 0, 0), Delta(-1, 0, 0, 0), Delta(0, -1, 0, 0),
               Delta(0, 1, 1, 0), Delta(0, 0, 0, 1), Delta(1, 0, 0, 1)}

CodSymmetry == Permutations(Order) \union Permutations(Line)
=============================================================================
