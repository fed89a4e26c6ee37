------------------------ MODULE CodSettlementProofs ------------------------
(***************************************************************************)
(* Theorems of CodSettlement: for any set of orders, any finite set of     *)
(* remittance lines and any amounts, the state stored on an order is the   *)
(* one its facts say, and the books hold what the lines owe.               *)
(*                                                                         *)
(* The invariant is Ledger.  The commands compute an order's state from    *)
(* sums they have not written yet, so the argument is about shares: a      *)
(* command writes one line, and each sum changes by what that line counted *)
(* for before and counts for after.  LineWrites says it once for the four  *)
(* commands that write a line.                                             *)
(***************************************************************************)
EXTENDS CodSettlement, FiniteSums, TLAPS

-----------------------------------------------------------------------------
OrderRow == [codState: CodStates, codCollected: BOOLEAN, codRemitted: BOOLEAN]
CollectionRow == [recorded: BOOLEAN, provider: Provider, amount: Nat, delta: Int]
LineRow ==
    [status: LineStatuses, order: Order \union {NoOrder}, match: Order \union {NoOrder},
     provider: Provider, base: Amounts, delta: Amounts, found: Int]

Typed ==
    /\ order \in [Order -> OrderRow]
    /\ collection \in [Order -> CollectionRow]
    /\ line \in [Line -> LineRow]
    /\ booked \in [fee: Int, adjustment: Int]
    /\ commands \in 0..MaxCommands

\* A line says nothing before it is posted; it names its order or is matched
\* to one, never both; what names no order carries no discrepancy of its own;
\* and it counts only for orders whose collection is recorded.
LineFacts(l) ==
    /\ line[l].status = "absent" =>
         line[l].order = NoOrder /\ line[l].match = NoOrder
           /\ line[l].base = Nought /\ line[l].delta = Nought /\ line[l].found = 0
    /\ line[l].status = "unmatched" => line[l].order = NoOrder
    /\ line[l].order # NoOrder => line[l].match = NoOrder
    /\ line[l].order = NoOrder => line[l].base.discrepancy = 0
    /\ OrderOf(l) # NoOrder => collection[OrderOf(l)].recorded

\* The amounts the checks keep from going below zero.
AmountFacts ==
    /\ \A l \in Line: EffectiveGross(l) >= 0 /\ EffectiveFee(l) >= 0
    /\ \A o \in Order: EffectiveCollected(o) >= 0

\* What is not recorded has no amount.
CollectionFacts ==
    \A o \in Order: ~collection[o].recorded => EffectiveCollected(o) = 0

CodInv == Typed /\ (\A l \in Line: LineFacts(l)) /\ AmountFacts /\ CollectionFacts
-----------------------------------------------------------------------------
LEMMA PlusFacts ==
    ASSUME NEW a \in Amounts, NEW b \in Amounts
    PROVE  /\ Plus(a, b) \in Amounts
           /\ Plus(a, b).gross = a.gross + b.gross /\ Plus(a, b).fee = a.fee + b.fee
           /\ Plus(a, b).adjustment = a.adjustment + b.adjustment
           /\ Plus(a, b).discrepancy = a.discrepancy + b.discrepancy
  BY DEF Plus, Amounts

LEMMA NoughtFacts == Nought \in Amounts
  BY DEF Nought, Amounts

LEMMA LineTypes ==
    ASSUME Typed, NEW l \in Line
    PROVE  /\ line[l] \in LineRow /\ line[l].base \in Amounts /\ line[l].delta \in Amounts
           /\ line[l].base.gross \in Int /\ line[l].base.fee \in Int
           /\ line[l].base.adjustment \in Int /\ line[l].base.discrepancy \in Int
           /\ line[l].delta.gross \in Int /\ line[l].delta.fee \in Int
           /\ line[l].delta.adjustment \in Int /\ line[l].delta.discrepancy \in Int
           /\ line[l].found \in Int
           /\ EffectiveGross(l) \in Int /\ EffectiveFee(l) \in Int /\ EffectiveDiscrepancy(l) \in Int
<1>1. line[l] \in LineRow
  BY DEF Typed
<1>2. line[l].base \in Amounts /\ line[l].delta \in Amounts /\ line[l].found \in Int
  BY <1>1 DEF LineRow
<1> QED
  BY <1>1, <1>2 DEF Amounts, EffectiveGross, EffectiveFee, EffectiveDiscrepancy

LEMMA LinesFinite ==
    /\ \A o: IsFiniteSet(LinesOf(o)) /\ LinesOf(o) \subseteq Line
    /\ IsFiniteSet(Attributed) /\ Attributed \subseteq Line
    /\ IsFiniteSet(Named) /\ Named \subseteq Line
    /\ IsFiniteSet(Line)
<1>1. IsFiniteSet(Line)
  BY CodAssumption
<1>2. \A S \in SUBSET Line: IsFiniteSet(S)
  BY <1>1, FS_Subset
<1> QED
  BY <1>1, <1>2 DEF LinesOf, Attributed, Named

\* What an order's lines settle, and what they leave in dispute.
LEMMA SumTypes ==
    ASSUME Typed, NEW o
    PROVE  SettledGross(o) \in Int /\ SettlementDiscrepancy(o) \in Int
<1>1. [l \in Line |-> EffectiveGross(l)] \in [Line -> Int]
  BY LineTypes
<1>2. [l \in Line |-> EffectiveDiscrepancy(l)] \in [Line -> Int]
  BY LineTypes
<1> QED
  BY <1>1, <1>2, LinesFinite, SumType DEF SettledGross, SettlementDiscrepancy

-----------------------------------------------------------------------------
\* The commands write one line at most.  Its share in each sum changes, and no
\* other share does.
Counts(x, o) == x.order = o \/ x.match = o
GrossShare(x, o) == IF Counts(x, o) THEN x.base.gross + x.delta.gross ELSE 0
DiscrepancyShare(x, o) ==
    IF Counts(x, o) THEN x.base.discrepancy + x.delta.discrepancy + x.found ELSE 0

LineSet(l, x) == line' = [line EXCEPT ![l] = x]

LEMMA GrossWritten ==
    ASSUME Typed, Typed', NEW l \in Line, NEW x \in LineRow, LineSet(l, x), NEW o
    PROVE  SettledGross(o)' = SettledGross(o) - GrossShare(line[l], o) + GrossShare(x, o)
<1> DEFINE q == [m \in Line |-> EffectiveGross(m)]
           r == [m \in Line |-> line'[m].base.gross + line'[m].delta.gross]
           S == LinesOf(o)
           T == {m \in Line: line'[m].order = o \/ line'[m].match = o}
<1>1. line'[l] = x /\ \A m \in Line: m # l => line'[m] = line[m]
  BY DEF LineSet, Typed
<1>2. q \in [Line -> Int] /\ r \in [Line -> Int]
  BY LineTypes, <1>1 DEF LineRow, Amounts
<1>3. IsFiniteSet(S) /\ S \subseteq Line /\ IsFiniteSet(T) /\ T \subseteq Line
  BY LinesFinite, FS_Subset
<1>4. S \ {l} = T \ {l}
  BY <1>1 DEF LinesOf
<1>5. \A m \in Line: m # l => q[m] = r[m]
  BY <1>1 DEF EffectiveGross
<1>6. SettledGross(o) = SumFunctionOnSet(q, S) /\ SettledGross(o)' = SumFunctionOnSet(r, T)
  BY DEF SettledGross, LinesOf, EffectiveGross
<1>7. /\ (IF l \in S THEN q[l] ELSE 0) = GrossShare(line[l], o)
      /\ (IF l \in T THEN r[l] ELSE 0) = GrossShare(x, o)
  BY <1>1 DEF LinesOf, EffectiveGross, GrossShare, Counts
<1> HIDE DEF q, r, S, T
<1>8. SumFunctionOnSet(r, T) =
        SumFunctionOnSet(q, S) - (IF l \in S THEN q[l] ELSE 0) + (IF l \in T THEN r[l] ELSE 0)
  BY <1>2, <1>3, <1>4, <1>5, SumChanges
<1> QED
  BY <1>6, <1>7, <1>8
LEMMA DiscrepancyWritten ==
    ASSUME Typed, Typed', NEW l \in Line, NEW x \in LineRow, LineSet(l, x), NEW o
    PROVE  SettlementDiscrepancy(o)' =
             SettlementDiscrepancy(o) - DiscrepancyShare(line[l], o) + DiscrepancyShare(x, o)
<1> DEFINE q == [m \in Line |-> EffectiveDiscrepancy(m)]
           r == [m \in Line |->
                   line'[m].base.discrepancy + line'[m].delta.discrepancy + line'[m].found]
           S == LinesOf(o)
           T == {m \in Line: line'[m].order = o \/ line'[m].match = o}
<1>1. line'[l] = x /\ \A m \in Line: m # l => line'[m] = line[m]
  BY DEF LineSet, Typed
<1>2. q \in [Line -> Int] /\ r \in [Line -> Int]
  BY LineTypes, <1>1 DEF LineRow, Amounts
<1>3. IsFiniteSet(S) /\ S \subseteq Line /\ IsFiniteSet(T) /\ T \subseteq Line
  BY LinesFinite, FS_Subset
<1>4. S \ {l} = T \ {l}
  BY <1>1 DEF LinesOf
<1>5. \A m \in Line: m # l => q[m] = r[m]
  BY <1>1 DEF EffectiveDiscrepancy
<1>6. /\ SettlementDiscrepancy(o) = SumFunctionOnSet(q, S)
      /\ SettlementDiscrepancy(o)' = SumFunctionOnSet(r, T)
  BY DEF SettlementDiscrepancy, LinesOf, EffectiveDiscrepancy
<1>7. /\ (IF l \in S THEN q[l] ELSE 0) = DiscrepancyShare(line[l], o)
      /\ (IF l \in T THEN r[l] ELSE 0) = DiscrepancyShare(x, o)
  BY <1>1 DEF LinesOf, EffectiveDiscrepancy, DiscrepancyShare, Counts
<1> HIDE DEF q, r, S, T
<1>8. SumFunctionOnSet(r, T) =
        SumFunctionOnSet(q, S) - (IF l \in S THEN q[l] ELSE 0) + (IF l \in T THEN r[l] ELSE 0)
  BY <1>2, <1>3, <1>4, <1>5, SumChanges
<1> QED
  BY <1>6, <1>7, <1>8

\* What the lines owe the books.
FeesDue ==
    SumFunctionOnSet([l \in Line |-> line[l].base.fee], Attributed)
      + SumFunctionOnSet([l \in Line |-> line[l].delta.fee], Line)
AdjustmentsDue ==
    SumFunctionOnSet([l \in Line |-> line[l].base.adjustment], Named)
      + SumFunctionOnSet([l \in Line |-> line[l].delta.adjustment], Line)

RowOrder(x) == IF x.order # NoOrder THEN x.order ELSE x.match
FeeShare(x) == (IF RowOrder(x) # NoOrder THEN x.base.fee ELSE 0) + x.delta.fee
AdjustmentShare(x) ==
    (IF x.order # NoOrder THEN x.base.adjustment ELSE 0) + x.delta.adjustment

LEMMA FeesWritten ==
    ASSUME Typed, Typed', NEW l \in Line, NEW x \in LineRow, LineSet(l, x)
    PROVE  FeesDue \in Int /\ FeesDue' = FeesDue - FeeShare(line[l]) + FeeShare(x)
<1> DEFINE q == [m \in Line |-> line[m].base.fee]
           r == [m \in Line |-> line'[m].base.fee]
           u == [m \in Line |-> line[m].delta.fee]
           v == [m \in Line |-> line'[m].delta.fee]
           T == {m \in Line: RowOrder(line'[m]) # NoOrder}
           S == Attributed
<1>1. line'[l] = x /\ \A m \in Line: m # l => line'[m] = line[m]
  BY DEF LineSet, Typed
<1>2. /\ q \in [Line -> Int] /\ r \in [Line -> Int]
      /\ u \in [Line -> Int] /\ v \in [Line -> Int]
  BY LineTypes, <1>1 DEF LineRow, Amounts
<1>3. IsFiniteSet(S) /\ S \subseteq Line /\ IsFiniteSet(T) /\ T \subseteq Line /\ IsFiniteSet(Line)
  BY LinesFinite, FS_Subset
<1>4. S \ {l} = T \ {l}
  BY <1>1 DEF Attributed, OrderOf, RowOrder
<1>5. \A m \in Line: m # l => q[m] = r[m] /\ u[m] = v[m]
  BY <1>1
<1>6. /\ FeesDue = SumFunctionOnSet(q, S) + SumFunctionOnSet(u, Line)
      /\ FeesDue' = SumFunctionOnSet(r, T) + SumFunctionOnSet(v, Line)
  BY DEF FeesDue, Attributed, OrderOf, RowOrder
<1>7. /\ (IF l \in S THEN q[l] ELSE 0) + u[l] = FeeShare(line[l])
      /\ (IF l \in T THEN r[l] ELSE 0) + v[l] = FeeShare(x)
  BY <1>1 DEF Attributed, OrderOf, RowOrder, FeeShare
<1> HIDE DEF q, r, u, v, S, T
<1>8. /\ SumFunctionOnSet(q, S) \in Int /\ SumFunctionOnSet(r, T) \in Int
      /\ SumFunctionOnSet(r, T) =
           SumFunctionOnSet(q, S) - (IF l \in S THEN q[l] ELSE 0) + (IF l \in T THEN r[l] ELSE 0)
  BY <1>2, <1>3, <1>4, <1>5, SumChanges
<1>9. /\ SumFunctionOnSet(u, Line) \in Int /\ SumFunctionOnSet(v, Line) \in Int
      /\ SumFunctionOnSet(v, Line) = SumFunctionOnSet(u, Line) - u[l] + v[l]
  <2>1. IsFiniteSet(Line) /\ u \in [Line -> Int] /\ v \in [Line -> Int]
    BY <1>2, <1>3
  <2>2. \A m \in Line: m # l => u[m] = v[m]
    BY <1>5
  <2> QED
    BY <2>1, <2>2, SumValueChanges
<1>10. q[l] \in Int /\ r[l] \in Int /\ u[l] \in Int /\ v[l] \in Int
  BY <1>2
<1> QED
  BY <1>6, <1>7, <1>8, <1>9, <1>10

LEMMA AdjustmentsWritten ==
    ASSUME Typed, Typed', NEW l \in Line, NEW x \in LineRow, LineSet(l, x)
    PROVE  /\ AdjustmentsDue \in Int
           /\ AdjustmentsDue' = AdjustmentsDue - AdjustmentShare(line[l]) + AdjustmentShare(x)
<1> DEFINE q == [m \in Line |-> line[m].base.adjustment]
           r == [m \in Line |-> line'[m].base.adjustment]
           u == [m \in Line |-> line[m].delta.adjustment]
           v == [m \in Line |-> line'[m].delta.adjustment]
           T == {m \in Line: line'[m].order # NoOrder}
           S == Named
<1>1. line'[l] = x /\ \A m \in Line: m # l => line'[m] = line[m]
  BY DEF LineSet, Typed
<1>2. /\ q \in [Line -> Int] /\ r \in [Line -> Int]
      /\ u \in [Line -> Int] /\ v \in [Line -> Int]
  BY LineTypes, <1>1 DEF LineRow, Amounts
<1>3. IsFiniteSet(S) /\ S \subseteq Line /\ IsFiniteSet(T) /\ T \subseteq Line /\ IsFiniteSet(Line)
  BY LinesFinite, FS_Subset
<1>4. S \ {l} = T \ {l}
  BY <1>1 DEF Named
<1>5. \A m \in Line: m # l => q[m] = r[m] /\ u[m] = v[m]
  BY <1>1
<1>6. /\ AdjustmentsDue = SumFunctionOnSet(q, S) + SumFunctionOnSet(u, Line)
      /\ AdjustmentsDue' = SumFunctionOnSet(r, T) + SumFunctionOnSet(v, Line)
  BY DEF AdjustmentsDue, Named
<1>7. /\ (IF l \in S THEN q[l] ELSE 0) + u[l] = AdjustmentShare(line[l])
      /\ (IF l \in T THEN r[l] ELSE 0) + v[l] = AdjustmentShare(x)
  BY <1>1 DEF Named, AdjustmentShare
<1> HIDE DEF q, r, u, v, S, T
<1>8. /\ SumFunctionOnSet(q, S) \in Int /\ SumFunctionOnSet(r, T) \in Int
      /\ SumFunctionOnSet(r, T) =
           SumFunctionOnSet(q, S) - (IF l \in S THEN q[l] ELSE 0) + (IF l \in T THEN r[l] ELSE 0)
  BY <1>2, <1>3, <1>4, <1>5, SumChanges
<1>9. /\ SumFunctionOnSet(u, Line) \in Int /\ SumFunctionOnSet(v, Line) \in Int
      /\ SumFunctionOnSet(v, Line) = SumFunctionOnSet(u, Line) - u[l] + v[l]
  <2>1. IsFiniteSet(Line) /\ u \in [Line -> Int] /\ v \in [Line -> Int]
    BY <1>2, <1>3
  <2>2. \A m \in Line: m # l => u[m] = v[m]
    BY <1>5
  <2> QED
    BY <2>1, <2>2, SumValueChanges
<1>10. q[l] \in Int /\ r[l] \in Int /\ u[l] \in Int /\ v[l] \in Int
  BY <1>2
<1> QED
  BY <1>6, <1>7, <1>8, <1>9, <1>10
-----------------------------------------------------------------------------
\* The row the state of an order is stored in.
Stored(o, collected, gross, discrepancy) ==
    [codState |-> DeriveCodState(o, collected, gross, discrepancy), codCollected |-> collected > 0,
     codRemitted |-> DeriveCodState(o, collected, gross, discrepancy) = "remitted"]

\* The books hold what the lines owe.
Booked == booked.fee = FeesDue /\ booked.adjustment = AdjustmentsDue

Ledger == CodInv /\ StoredStateIsDerived /\ Booked

LEMMA StoredType ==
    \A o, collected, gross, discrepancy: Stored(o, collected, gross, discrepancy) \in OrderRow
  BY DEF Stored, DeriveCodState, OrderRow, CodStates

LEMMA StoredRead ==
    StoredStateIsDerived <=>
      \A o \in Order: order[o] = Stored(o, EffectiveCollected(o), SettledGross(o),
                                        SettlementDiscrepancy(o))
  BY DEF StoredStateIsDerived, Stored

\* A projection writes its order's row, and no other.
LEMMA Projects ==
    ASSUME Typed, NEW o \in Order, NEW collected, NEW gross, NEW discrepancy,
           Project(o, collected, gross, discrepancy)
    PROVE  /\ order' \in [Order -> OrderRow]
           /\ order'[o] = Stored(o, collected, gross, discrepancy)
           /\ \A d \in Order: d # o => order'[d] = order[d]
<1>1. order' = [order EXCEPT ![o] = Stored(o, collected, gross, discrepancy)]
  BY DEF Project, Stored
<1> QED
  BY <1>1, StoredType DEF Typed

LEMMA CommandType == Typed /\ Command => commands' \in 0..MaxCommands
  BY CodAssumption DEF Typed, Command

\* Commands that write no line leave every sum alone.
LEMMA LinesStay ==
    ASSUME line' = line
    PROVE  /\ \A o: SettledGross(o)' = SettledGross(o)
           /\ \A o: SettlementDiscrepancy(o)' = SettlementDiscrepancy(o)
           /\ FeesDue' = FeesDue /\ AdjustmentsDue' = AdjustmentsDue
  BY DEF SettledGross, SettlementDiscrepancy, LinesOf, EffectiveGross, EffectiveDiscrepancy,
    FeesDue, AdjustmentsDue, Attributed, Named, OrderOf

LEMMA NothingSettled ==
    ASSUME CodInv, NEW o \in Order, ~collection[o].recorded
    PROVE  SettledGross(o) = 0 /\ SettlementDiscrepancy(o) = 0
<1>1. LinesOf(o) = {}
  <2> SUFFICES ASSUME NEW l \in Line, line[l].order = o \/ line[l].match = o PROVE FALSE
    BY DEF LinesOf
  <2>1. OrderOf(l) = o
    BY CodAssumption DEF CodInv, LineFacts, OrderOf
  <2> QED
    BY <2>1, CodAssumption DEF CodInv, LineFacts
<1> QED
  BY <1>1, FS_EmptySet, SumUnfolds DEF SettledGross, SettlementDiscrepancy

\* The commands on a collection.
LEMMA CollectionWrites ==
    ASSUME Ledger, NEW o \in Order, NEW c \in CollectionRow,
           collection' = [collection EXCEPT ![o] = c], c.recorded, c.amount + c.delta >= 0,
           Command, UNCHANGED <<line, booked>>,
           Project(o, c.amount + c.delta, SettledGross(o), SettlementDiscrepancy(o))
    PROVE  Ledger'
<1>1. collection'[o] = c /\ \A d \in Order: d # o => collection'[d] = collection[d]
  BY DEF Ledger, CodInv, Typed
<1>2. Typed'
  BY Projects, CommandType DEF Ledger, CodInv, Typed
<1>3. \A l \in Line: LineFacts(l)'
  <2> SUFFICES ASSUME NEW l \in Line PROVE LineFacts(l)'
    OBVIOUS
  <2>1. LineFacts(l) /\ (OrderOf(l) = NoOrder \/ OrderOf(l) \in Order)
    BY DEF Ledger, CodInv, Typed, LineRow, OrderOf
  <2> QED
    BY <1>1, <2>1 DEF LineFacts, OrderOf
<1>4. /\ EffectiveCollected(o)' = c.amount + c.delta
      /\ \A d \in Order: d # o => EffectiveCollected(d)' = EffectiveCollected(d)
  BY <1>1 DEF EffectiveCollected
<1>5. AmountFacts' /\ CollectionFacts'
  BY <1>1, <1>4 DEF Ledger, CodInv, AmountFacts, CollectionFacts, EffectiveGross, EffectiveFee
<1>6. StoredStateIsDerived'
  <2> SUFFICES ASSUME NEW d \in Order
               PROVE  order'[d] = Stored(d, EffectiveCollected(d)', SettledGross(d)',
                                         SettlementDiscrepancy(d)')
    BY DEF StoredStateIsDerived, Stored
  <2>1. SettledGross(d)' = SettledGross(d) /\ SettlementDiscrepancy(d)' = SettlementDiscrepancy(d)
    BY LinesStay
  <2>2. CASE d = o
    BY <1>4, <2>1, <2>2, Projects DEF Ledger, CodInv
  <2>3. CASE d # o
    BY <1>4, <2>1, <2>3, Projects, StoredRead DEF Ledger, CodInv
  <2> QED
    BY <2>2, <2>3
<1>7. Booked'
  BY LinesStay DEF Ledger, Booked
<1> QED
  BY <1>2, <1>3, <1>5, <1>6, <1>7 DEF Ledger, CodInv

LEMMA RecordKeeps == ASSUME Ledger, NEW o \in Order, RecordCollection(o) PROVE Ledger'
<1>1. PICK p \in Provider, amount \in Amount:
        /\ collection' = [collection EXCEPT ![o] = [recorded |-> TRUE, provider |-> p,
                                                    amount |-> amount, delta |-> 0]]
        /\ Project(o, amount, 0, 0)
  BY DEF RecordCollection
<1> DEFINE c == [recorded |-> TRUE, provider |-> p, amount |-> amount, delta |-> 0]
<1>2. amount \in Nat
  BY CodAssumption
<1>3. c \in CollectionRow /\ c.recorded /\ c.amount + c.delta = amount /\ c.amount + c.delta >= 0
  BY <1>2 DEF CollectionRow
<1>4. SettledGross(o) = 0 /\ SettlementDiscrepancy(o) = 0
  BY NothingSettled DEF RecordCollection, Ledger
<1>5. collection' = [collection EXCEPT ![o] = c]
  BY <1>1
<1>6. Project(o, c.amount + c.delta, SettledGross(o), SettlementDiscrepancy(o))
  BY <1>1, <1>3, <1>4
<1> HIDE DEF c
<1> QED
  BY <1>3, <1>5, <1>6, CollectionWrites DEF RecordCollection

LEMMA CorrectCollectionKeeps == ASSUME Ledger, NEW o \in Order, CorrectCollection(o) PROVE Ledger'
<1>1. PICK delta \in CashDelta:
        /\ EffectiveCollected(o) + delta >= 0
        /\ collection' = [collection EXCEPT ![o].delta = @ + delta]
        /\ Project(o, EffectiveCollected(o) + delta, SettledGross(o), SettlementDiscrepancy(o))
  BY DEF CorrectCollection
<1>2. collection[o] \in CollectionRow
  BY DEF Ledger, CodInv, Typed
<1> DEFINE c == [collection[o] EXCEPT !.delta = collection[o].delta + delta]
<1>3. delta \in Int /\ collection[o].recorded
  BY CodAssumption DEF CorrectCollection
<1>4. c \in CollectionRow /\ c.recorded /\ c.amount + c.delta = EffectiveCollected(o) + delta
  BY <1>2, <1>3 DEF CollectionRow, EffectiveCollected
<1>5. collection' = [collection EXCEPT ![o] = c]
  BY <1>1, <1>2 DEF CollectionRow
<1>6. c.amount + c.delta >= 0 /\ Project(o, c.amount + c.delta, SettledGross(o), SettlementDiscrepancy(o))
  BY <1>1, <1>4
<1> HIDE DEF c
<1> QED
  BY <1>4, <1>5, <1>6, CollectionWrites DEF CorrectCollection
-----------------------------------------------------------------------------
\* What LineFacts says of the row a command writes.
RowFacts(x) ==
    /\ x.status # "absent"
    /\ x.status = "unmatched" => x.order = NoOrder
    /\ x.order # NoOrder => x.match = NoOrder
    /\ x.order = NoOrder => x.base.discrepancy = 0
    /\ RowOrder(x) # NoOrder => collection[RowOrder(x)].recorded
    /\ x.base.gross + x.delta.gross >= 0 /\ x.base.fee + x.delta.fee >= 0

\* The commands on a line, when the order it counts for is projected with the
\* line's new shares and the books move by them.
LEMMA LineWrites ==
    ASSUME Ledger, NEW l \in Line, NEW x \in LineRow, LineSet(l, x), RowFacts(x), Command,
           collection' = collection, order' \in [Order -> OrderRow],
           \A o \in Order:
             order'[o] = Stored(o, EffectiveCollected(o),
                                SettledGross(o) - GrossShare(line[l], o) + GrossShare(x, o),
                                SettlementDiscrepancy(o) - DiscrepancyShare(line[l], o)
                                  + DiscrepancyShare(x, o)),
           booked' = [fee |-> booked.fee - FeeShare(line[l]) + FeeShare(x),
                      adjustment |-> booked.adjustment - AdjustmentShare(line[l])
                                       + AdjustmentShare(x)]
    PROVE  Ledger'
<1>1. line'[l] = x /\ line' \in [Line -> LineRow] /\ \A m \in Line: m # l => line'[m] = line[m]
  BY DEF LineSet, Ledger, CodInv, Typed
<1>2. /\ booked.fee \in Int /\ booked.adjustment \in Int
      /\ FeeShare(line[l]) \in Int /\ FeeShare(x) \in Int
      /\ AdjustmentShare(line[l]) \in Int /\ AdjustmentShare(x) \in Int
  BY LineTypes DEF Ledger, CodInv, Typed, FeeShare, AdjustmentShare, LineRow, Amounts
<1>3. Typed'
  BY <1>1, <1>2, CommandType DEF Ledger, CodInv, Typed
<1>4. \A m \in Line: LineFacts(m)'
  <2> SUFFICES ASSUME NEW m \in Line PROVE LineFacts(m)'
    OBVIOUS
  <2>1. CASE m = l
    BY <1>1, <2>1 DEF RowFacts, LineFacts, OrderOf, RowOrder
  <2>2. CASE m # l
    BY <1>1, <2>2 DEF Ledger, CodInv, LineFacts, OrderOf
  <2> QED
    BY <2>1, <2>2
<1>5. AmountFacts'
  <2>1. ASSUME NEW m \in Line PROVE EffectiveGross(m)' >= 0 /\ EffectiveFee(m)' >= 0
    BY <1>1 DEF Ledger, CodInv, AmountFacts, EffectiveGross, EffectiveFee, RowFacts
  <2>2. ASSUME NEW o \in Order PROVE EffectiveCollected(o)' >= 0
    BY DEF Ledger, CodInv, AmountFacts, EffectiveCollected
  <2> QED
    BY <2>1, <2>2 DEF AmountFacts
<1>6. CollectionFacts'
  BY DEF Ledger, CodInv, CollectionFacts, EffectiveCollected
<1>7. StoredStateIsDerived'
  <2> SUFFICES ASSUME NEW d \in Order
               PROVE  order'[d] = Stored(d, EffectiveCollected(d)', SettledGross(d)',
                                         SettlementDiscrepancy(d)')
    BY DEF StoredStateIsDerived, Stored
  <2>1. EffectiveCollected(d)' = EffectiveCollected(d)
    BY DEF EffectiveCollected
  <2>2. SettledGross(d)' = SettledGross(d) - GrossShare(line[l], d) + GrossShare(x, d)
    BY <1>3, GrossWritten DEF Ledger, CodInv
  <2>3. SettlementDiscrepancy(d)' =
          SettlementDiscrepancy(d) - DiscrepancyShare(line[l], d) + DiscrepancyShare(x, d)
    BY <1>3, DiscrepancyWritten DEF Ledger, CodInv
  <2> QED
    BY <2>1, <2>2, <2>3
<1>8. Booked'
  <2>1. FeesDue' = FeesDue - FeeShare(line[l]) + FeeShare(x)
    BY <1>3, FeesWritten DEF Ledger, CodInv
  <2>2. AdjustmentsDue' = AdjustmentsDue - AdjustmentShare(line[l]) + AdjustmentShare(x)
    BY <1>3, AdjustmentsWritten DEF Ledger, CodInv
  <2> QED
    BY <2>1, <2>2 DEF Ledger, Booked
<1> QED
  BY <1>3, <1>4, <1>5, <1>6, <1>7, <1>8 DEF Ledger, CodInv

\* A line that counts for one order at most leaves the others' rows alone.
LEMMA OthersStay ==
    ASSUME Ledger, NEW l \in Line, NEW x, NEW d \in Order, ~Counts(line[l], d), ~Counts(x, d)
    PROVE  order[d] = Stored(d, EffectiveCollected(d),
                             SettledGross(d) - GrossShare(line[l], d) + GrossShare(x, d),
                             SettlementDiscrepancy(d) - DiscrepancyShare(line[l], d)
                               + DiscrepancyShare(x, d))
<1>1. SettledGross(d) \in Int /\ SettlementDiscrepancy(d) \in Int
  BY SumTypes DEF Ledger, CodInv
<1>2. order[d] = Stored(d, EffectiveCollected(d), SettledGross(d), SettlementDiscrepancy(d))
  BY StoredRead DEF Ledger
<1>3. /\ SettledGross(d) - GrossShare(line[l], d) + GrossShare(x, d) = SettledGross(d)
      /\ SettlementDiscrepancy(d) - DiscrepancyShare(line[l], d) + DiscrepancyShare(x, d)
           = SettlementDiscrepancy(d)
  BY <1>1 DEF GrossShare, DiscrepancyShare
<1> QED
  BY <1>2, <1>3

LEMMA AbsentShares ==
    ASSUME Ledger, NEW l \in Line, line[l].status = "absent"
    PROVE  /\ \A o \in Order: ~Counts(line[l], o) /\ GrossShare(line[l], o) = 0
                                /\ DiscrepancyShare(line[l], o) = 0
           /\ FeeShare(line[l]) = 0 /\ AdjustmentShare(line[l]) = 0
  BY CodAssumption DEF Ledger, CodInv, LineFacts, Counts, GrossShare, DiscrepancyShare, FeeShare,
    AdjustmentShare, RowOrder, Nought

LEMMA PostLineKeeps ==
    ASSUME Ledger, NEW l \in Line, NEW o \in Order, PostLine(l, o) PROVE Ledger'
<1>1. PICK sheet \in Sheet, discrepancy \in Int, status \in {"partial", "matched", "disputed"}:
        /\ Posted(l, status, o, collection[o].provider, sheet, discrepancy)
        /\ Project(o, EffectiveCollected(o), SettledGross(o) + sheet.gross,
                   SettlementDiscrepancy(o) + discrepancy)
        /\ Book(sheet.fee, sheet.adjustment)
  <2>1. PICK sheet \in Sheet, final \in BOOLEAN:
          LET discrepancy == IF final THEN sheet.gross - Remaining(o) ELSE 0
              status == CASE ~final -> "partial"
                          [] final /\ discrepancy = 0 -> "matched"
                          [] final /\ discrepancy # 0 -> "disputed" IN
          /\ Posted(l, status, o, collection[o].provider, sheet, discrepancy)
          /\ Project(o, EffectiveCollected(o), SettledGross(o) + sheet.gross,
                     SettlementDiscrepancy(o) + discrepancy)
          /\ Book(sheet.fee, sheet.adjustment)
    BY DEF PostLine
  <2>2. Remaining(o) \in Int /\ sheet.gross \in Int
    BY SumTypes, CodAssumption DEF Ledger, CodInv, Typed, CollectionRow, Remaining,
      EffectiveCollected
  <2>3. CASE final
    <3>1. PICK discrepancy \in Int: discrepancy = sheet.gross - Remaining(o)
      BY <2>2
    <3>2. PICK status \in {"matched", "disputed"}:
            status = IF discrepancy = 0 THEN "matched" ELSE "disputed"
      OBVIOUS
    <3> QED
      BY <2>1, <2>3, <3>1, <3>2
  <2>4. CASE ~final
    BY <2>1, <2>4
  <2> QED
    BY <2>3, <2>4
<1>2. line[l].status = "absent" /\ collection[o].recorded /\ Command /\ collection' = collection
  BY DEF PostLine
<1> DEFINE base == [gross |-> sheet.gross, fee |-> sheet.fee, adjustment |-> sheet.adjustment,
                    discrepancy |-> discrepancy]
           x == [status |-> status, order |-> o, match |-> NoOrder,
                 provider |-> collection[o].provider, base |-> base, delta |-> Nought,
                 found |-> 0]
<1>3. sheet.gross \in Nat /\ sheet.fee \in Nat /\ sheet.adjustment \in Int
  BY CodAssumption
<1>4. base \in Amounts /\ collection[o].provider \in Provider
  BY <1>3 DEF Amounts, Ledger, CodInv, Typed, CollectionRow
<1>5. x \in LineRow
  BY <1>4, NoughtFacts DEF LineRow, LineStatuses
<1>6. LineSet(l, x)
  BY <1>1 DEF Posted, LineSet
<1>7. RowFacts(x)
  BY <1>2, <1>3, CodAssumption DEF RowFacts, RowOrder, Nought
<1>8. /\ GrossShare(x, o) = sheet.gross /\ DiscrepancyShare(x, o) = discrepancy
      /\ FeeShare(x) = sheet.fee /\ AdjustmentShare(x) = sheet.adjustment
  BY <1>3, CodAssumption DEF GrossShare, DiscrepancyShare, FeeShare, AdjustmentShare, Counts, RowOrder,
    Nought
<1>9. \A d \in Order: d # o => ~Counts(x, d)
  BY CodAssumption DEF Counts
<1> HIDE DEF x
<1>10. SettledGross(o) \in Int /\ SettlementDiscrepancy(o) \in Int
  BY SumTypes DEF Ledger, CodInv
<1>11. ASSUME NEW d \in Order
       PROVE  order'[d] = Stored(d, EffectiveCollected(d),
                                 SettledGross(d) - GrossShare(line[l], d) + GrossShare(x, d),
                                 SettlementDiscrepancy(d) - DiscrepancyShare(line[l], d)
                                   + DiscrepancyShare(x, d))
  <2>1. CASE d = o
    <3>1. /\ SettledGross(o) - GrossShare(line[l], o) + GrossShare(x, o) = SettledGross(o) + sheet.gross
          /\ SettlementDiscrepancy(o) - DiscrepancyShare(line[l], o) + DiscrepancyShare(x, o)
               = SettlementDiscrepancy(o) + discrepancy
      BY <1>2, <1>3, <1>8, <1>10, AbsentShares
    <3> QED
      BY <1>1, <2>1, <3>1, Projects DEF Ledger, CodInv
  <2>2. CASE d # o
    BY <1>1, <1>2, <1>9, <2>2, AbsentShares, OthersStay, Projects DEF Ledger, CodInv
  <2> QED
    BY <2>1, <2>2
<1>12. order' \in [Order -> OrderRow]
  BY <1>1, Projects DEF Ledger, CodInv
<1>13. booked' = [fee |-> booked.fee - FeeShare(line[l]) + FeeShare(x),
                  adjustment |-> booked.adjustment - AdjustmentShare(line[l]) + AdjustmentShare(x)]
  BY <1>1, <1>2, <1>3, <1>8, AbsentShares DEF Book, Ledger, CodInv, Typed
<1> QED
  BY <1>2, <1>5, <1>6, <1>7, <1>11, <1>12, <1>13, LineWrites

LEMMA PostUnmatchedKeeps ==
    ASSUME Ledger, NEW l \in Line, PostUnmatched(l) PROVE Ledger'
<1>1. PICK p \in Provider, sheet \in Sheet: Posted(l, "unmatched", NoOrder, p, sheet, 0)
  BY DEF PostUnmatched
<1>2. line[l].status = "absent" /\ Command /\ UNCHANGED <<order, collection, booked>>
  BY DEF PostUnmatched
<1> DEFINE base == [gross |-> sheet.gross, fee |-> sheet.fee, adjustment |-> sheet.adjustment,
                    discrepancy |-> 0]
           x == [status |-> "unmatched", order |-> NoOrder, match |-> NoOrder,
                 provider |-> p, base |-> base, delta |-> Nought, found |-> 0]
<1>3. sheet.gross \in Nat /\ sheet.fee \in Nat /\ sheet.adjustment \in Int
  BY CodAssumption
<1>4. base \in Amounts
  BY <1>3 DEF Amounts
<1>5. x \in LineRow
  BY <1>4, NoughtFacts DEF LineRow, LineStatuses
<1>6. LineSet(l, x)
  BY <1>1 DEF Posted, LineSet
<1>7. RowFacts(x)
  BY <1>3 DEF RowFacts, RowOrder, Nought
<1>8. FeeShare(x) = 0 /\ AdjustmentShare(x) = 0 /\ \A d \in Order: ~Counts(x, d)
  BY CodAssumption DEF FeeShare, AdjustmentShare, Counts, RowOrder, Nought
<1> HIDE DEF x
<1>9. ASSUME NEW d \in Order
      PROVE  order'[d] = Stored(d, EffectiveCollected(d),
                                SettledGross(d) - GrossShare(line[l], d) + GrossShare(x, d),
                                SettlementDiscrepancy(d) - DiscrepancyShare(line[l], d)
                                  + DiscrepancyShare(x, d))
  BY <1>2, <1>8, AbsentShares, OthersStay
<1>10. order' \in [Order -> OrderRow] /\ collection' = collection
  BY <1>2 DEF Ledger, CodInv, Typed
<1>11. booked' = [fee |-> booked.fee - FeeShare(line[l]) + FeeShare(x),
                  adjustment |-> booked.adjustment - AdjustmentShare(line[l]) + AdjustmentShare(x)]
  BY <1>2, <1>8, AbsentShares DEF Ledger, CodInv, Typed
<1> QED
  BY <1>2, <1>5, <1>6, <1>7, <1>9, <1>10, <1>11, LineWrites

\* What a correction changes of its line's shares.
LEMMA CorrectLineKeeps ==
    ASSUME Ledger, NEW l \in Line, CorrectLine(l) PROVE Ledger'
<1> DEFINE o == OrderOf(l)
<1>1. PICK delta \in LineDelta:
        LET after == Plus(Plus(line[l].base, line[l].delta), delta) IN
        /\ after.gross >= 0 /\ after.fee >= 0
        /\ line' = [line EXCEPT ![l].delta = Plus(@, delta)]
        /\ IF o \in Order
           THEN Project(o, EffectiveCollected(o), SettledGross(o) + delta.gross,
                        SettlementDiscrepancy(o) + delta.discrepancy)
           ELSE UNCHANGED order
        /\ Book(delta.fee, delta.adjustment)
  BY DEF CorrectLine
<1>2. line[l].status # "absent" /\ Command /\ collection' = collection
  BY DEF CorrectLine
<1>3. delta \in Amounts /\ line[l] \in LineRow /\ line[l].base \in Amounts /\ line[l].delta \in Amounts
  BY LineTypes, CodAssumption DEF Ledger, CodInv
<1>4. /\ delta.gross \in Int /\ delta.fee \in Int /\ delta.adjustment \in Int
      /\ delta.discrepancy \in Int
      /\ line[l].base.gross \in Int /\ line[l].base.fee \in Int
      /\ line[l].base.adjustment \in Int /\ line[l].base.discrepancy \in Int
      /\ line[l].delta.gross \in Int /\ line[l].delta.fee \in Int
      /\ line[l].delta.adjustment \in Int /\ line[l].delta.discrepancy \in Int
      /\ line[l].found \in Int
  BY <1>3 DEF Amounts, LineRow
<1> DEFINE sum == Plus(line[l].delta, delta)
           x == [line[l] EXCEPT !.delta = sum]
<1>5. /\ sum \in Amounts
      /\ sum.gross = line[l].delta.gross + delta.gross
      /\ sum.fee = line[l].delta.fee + delta.fee
      /\ sum.adjustment = line[l].delta.adjustment + delta.adjustment
      /\ sum.discrepancy = line[l].delta.discrepancy + delta.discrepancy
  BY <1>3, PlusFacts
<1>6. /\ line[l].base.gross + sum.gross >= 0
      /\ line[l].base.fee + sum.fee >= 0
  <2>1. PICK m \in Amounts: m = Plus(line[l].base, line[l].delta)
    BY <1>3, PlusFacts
  <2>2. m.gross = line[l].base.gross + line[l].delta.gross
         /\ m.fee = line[l].base.fee + line[l].delta.fee
    BY <1>3, <2>1, PlusFacts
  <2>3. Plus(m, delta).gross >= 0 /\ Plus(m, delta).fee >= 0
    BY <1>1, <2>1
  <2>4. Plus(m, delta).gross = m.gross + delta.gross /\ Plus(m, delta).fee = m.fee + delta.fee
    BY <1>3, <2>1, PlusFacts
  <2> HIDE DEF sum
  <2> QED
    BY <1>4, <1>5, <2>2, <2>3, <2>4
<1>7. line' = [line EXCEPT ![l] = x]
  <2>1. line' = [line EXCEPT ![l].delta = Plus(line[l].delta, delta)]
    BY <1>1
  <2> QED
    BY <2>1
<1> HIDE DEF sum
<1>8. /\ x \in LineRow /\ x.status = line[l].status /\ x.order = line[l].order
      /\ x.match = line[l].match /\ x.base = line[l].base /\ x.delta = sum
      /\ x.found = line[l].found
  BY <1>3, <1>5 DEF LineRow
<1> HIDE DEF x
<1>9. /\ LineFacts(l) /\ RowOrder(x) = o /\ RowOrder(line[l]) = o
      /\ (o = NoOrder \/ o \in Order)
  BY <1>3, <1>8 DEF Ledger, CodInv, RowOrder, OrderOf, LineRow
<1>10. RowFacts(x)
  BY <1>2, <1>6, <1>8, <1>9 DEF RowFacts, LineFacts
<1>11. \A d \in Order: Counts(line[l], d) <=> d = o
  BY <1>9, CodAssumption DEF Counts, LineFacts, OrderOf
<1>12. \A d \in Order: Counts(x, d) <=> d = o
  BY <1>8, <1>11 DEF Counts
<1>13. /\ FeeShare(x) = FeeShare(line[l]) + delta.fee /\ FeeShare(line[l]) \in Int
       /\ AdjustmentShare(x) = AdjustmentShare(line[l]) + delta.adjustment
       /\ AdjustmentShare(line[l]) \in Int
  BY <1>4, <1>5, <1>8, <1>9 DEF FeeShare, AdjustmentShare
<1> HIDE DEF o
<1>14. ASSUME NEW d \in Order
       PROVE  order'[d] = Stored(d, EffectiveCollected(d),
                                 SettledGross(d) - GrossShare(line[l], d) + GrossShare(x, d),
                                 SettlementDiscrepancy(d) - DiscrepancyShare(line[l], d)
                                   + DiscrepancyShare(x, d))
  <2>1. CASE d = o
    <3>1. SettledGross(o) \in Int /\ SettlementDiscrepancy(o) \in Int
      BY SumTypes DEF Ledger, CodInv
    <3>2. Counts(line[l], o) /\ Counts(x, o)
      BY <1>11, <1>12, <2>1
    <3>3. /\ SettledGross(o) - GrossShare(line[l], o) + GrossShare(x, o)
               = SettledGross(o) + delta.gross
          /\ SettlementDiscrepancy(o) - DiscrepancyShare(line[l], o) + DiscrepancyShare(x, o)
               = SettlementDiscrepancy(o) + delta.discrepancy
      BY <1>4, <1>5, <1>8, <3>1, <3>2 DEF GrossShare, DiscrepancyShare
    <3>4. Project(o, EffectiveCollected(o), SettledGross(o) + delta.gross,
                  SettlementDiscrepancy(o) + delta.discrepancy)
      BY <1>1, <2>1
    <3> QED
      BY <2>1, <3>3, <3>4, Projects DEF Ledger, CodInv
  <2>2. CASE d # o
    <3>1. ~Counts(line[l], d) /\ ~Counts(x, d)
      BY <1>11, <1>12, <2>2
    <3>2. order'[d] = order[d]
      BY <1>1, <2>2, Projects DEF Ledger, CodInv
    <3> QED
      BY <3>1, <3>2, OthersStay
  <2> QED
    BY <2>1, <2>2
<1>15. order' \in [Order -> OrderRow]
  BY <1>1, Projects DEF Ledger, CodInv, Typed
<1>16. booked' = [fee |-> booked.fee - FeeShare(line[l]) + FeeShare(x),
                  adjustment |-> booked.adjustment - AdjustmentShare(line[l]) + AdjustmentShare(x)]
  <2>1. booked.fee \in Int /\ booked.adjustment \in Int
    BY DEF Ledger, CodInv, Typed
  <2>2. /\ booked.fee - FeeShare(line[l]) + FeeShare(x) = booked.fee + delta.fee
        /\ booked.adjustment - AdjustmentShare(line[l]) + AdjustmentShare(x)
             = booked.adjustment + delta.adjustment
    BY <1>4, <1>13, <2>1
  <2> QED
    BY <1>1, <2>2 DEF Book
<1>17. LineSet(l, x)
  BY <1>7 DEF LineSet
<1> QED
  BY <1>2, <1>8, <1>10, <1>14, <1>15, <1>16, <1>17, LineWrites

LEMMA MatchLineKeeps ==
    ASSUME Ledger, NEW l \in Line, NEW o \in Order, MatchLine(l, o) PROVE Ledger'
<1> DEFINE found == EffectiveGross(l) - Remaining(o)
           x == [line[l] EXCEPT !.match = o, !.found = found]
<1>1. /\ line[l].status = "unmatched" /\ line[l].match = NoOrder /\ collection[o].recorded
      /\ Command /\ collection' = collection
      /\ Project(o, EffectiveCollected(o), SettledGross(o) + EffectiveGross(l),
                 SettlementDiscrepancy(o) + (line[l].delta.discrepancy + found))
      /\ Book(line[l].base.fee, 0)
  <2>1. Project(o, EffectiveCollected(o), SettledGross(o) + EffectiveGross(l),
                SettlementDiscrepancy(o) + MatchDiscrepancy(l, o))
    BY DEF MatchLine
  <2>2. EffectiveGross(l) \in Int /\ Remaining(o) \in Int /\ line[l].delta.discrepancy \in Int
    BY LineTypes, SumTypes DEF Ledger, CodInv, Typed, CollectionRow, Remaining, EffectiveCollected
  <2>3. MatchDiscrepancy(l, o) = line[l].delta.discrepancy + found
    BY <2>2 DEF MatchDiscrepancy
  <2> QED
    BY <2>1, <2>3 DEF MatchLine, UnbookedFee
<1>2. LineFacts(l) /\ line[l] \in LineRow
  BY LineTypes DEF Ledger, CodInv
<1>3. /\ line[l].base \in Amounts /\ line[l].delta \in Amounts
      /\ line[l].base.gross \in Int /\ line[l].base.fee \in Int
      /\ line[l].base.adjustment \in Int /\ line[l].base.discrepancy \in Int
      /\ line[l].delta.gross \in Int /\ line[l].delta.fee \in Int
      /\ line[l].delta.adjustment \in Int /\ line[l].delta.discrepancy \in Int
      /\ line[l].found \in Int /\ EffectiveGross(l) \in Int /\ found \in Int
  BY LineTypes, SumTypes
  DEF Ledger, CodInv, Typed, CollectionRow, Remaining, EffectiveCollected
<1>4. line[l].order = NoOrder /\ line[l].base.discrepancy = 0
  BY <1>1, <1>2 DEF LineFacts
<1>5. EffectiveGross(l) >= 0 /\ EffectiveFee(l) >= 0
  BY DEF Ledger, CodInv, AmountFacts
<1>6. line' = [line EXCEPT ![l] = x]
  BY DEF MatchLine
<1> HIDE DEF found
<1>7. /\ x \in LineRow /\ x.status = "unmatched" /\ x.order = NoOrder /\ x.match = o
      /\ x.base = line[l].base /\ x.delta = line[l].delta /\ x.found = found
  BY <1>1, <1>2, <1>3, <1>4 DEF LineRow
<1> HIDE DEF x
<1>8. RowFacts(x)
  BY <1>1, <1>4, <1>5, <1>7 DEF RowFacts, RowOrder, EffectiveGross, EffectiveFee
<1>9. \A d \in Order: ~Counts(line[l], d) /\ (Counts(x, d) <=> d = o)
  BY <1>1, <1>4, <1>7, CodAssumption DEF Counts
<1>10. /\ FeeShare(line[l]) = line[l].delta.fee
       /\ FeeShare(x) = line[l].base.fee + line[l].delta.fee
       /\ AdjustmentShare(line[l]) = line[l].delta.adjustment
       /\ AdjustmentShare(x) = line[l].delta.adjustment
  BY <1>1, <1>3, <1>4, <1>7, CodAssumption DEF FeeShare, AdjustmentShare, RowOrder
<1>11. ASSUME NEW d \in Order
       PROVE  order'[d] = Stored(d, EffectiveCollected(d),
                                 SettledGross(d) - GrossShare(line[l], d) + GrossShare(x, d),
                                 SettlementDiscrepancy(d) - DiscrepancyShare(line[l], d)
                                   + DiscrepancyShare(x, d))
  <2>1. CASE d = o
    <3>1. SettledGross(o) \in Int /\ SettlementDiscrepancy(o) \in Int
      BY SumTypes DEF Ledger, CodInv
    <3>2. ~Counts(line[l], o) /\ Counts(x, o)
      BY <1>9
    <3>3. /\ SettledGross(o) - GrossShare(line[l], o) + GrossShare(x, o)
               = SettledGross(o) + EffectiveGross(l)
          /\ SettlementDiscrepancy(o) - DiscrepancyShare(line[l], o) + DiscrepancyShare(x, o)
               = SettlementDiscrepancy(o) + (line[l].delta.discrepancy + found)
      BY <1>3, <1>4, <1>7, <3>1, <3>2 DEF GrossShare, DiscrepancyShare, EffectiveGross
    <3> QED
      BY <1>1, <2>1, <3>3, Projects DEF Ledger, CodInv
  <2>2. CASE d # o
    <3>1. ~Counts(line[l], d) /\ ~Counts(x, d)
      BY <1>9, <2>2
    <3>2. order'[d] = order[d]
      BY <1>1, <2>2, Projects DEF Ledger, CodInv
    <3> QED
      BY <3>1, <3>2, OthersStay
  <2> QED
    BY <2>1, <2>2
<1>12. order' \in [Order -> OrderRow]
  BY <1>1, Projects DEF Ledger, CodInv
<1>13. booked' = [fee |-> booked.fee - FeeShare(line[l]) + FeeShare(x),
                  adjustment |-> booked.adjustment - AdjustmentShare(line[l]) + AdjustmentShare(x)]
  <2>1. booked.fee \in Int /\ booked.adjustment \in Int
    BY DEF Ledger, CodInv, Typed
  <2>2. /\ booked.fee - FeeShare(line[l]) + FeeShare(x) = booked.fee + line[l].base.fee
        /\ booked.adjustment - AdjustmentShare(line[l]) + AdjustmentShare(x)
             = booked.adjustment + 0
    BY <1>3, <1>10, <2>1
  <2> QED
    BY <1>1, <2>2 DEF Book
<1>14. LineSet(l, x)
  BY <1>6 DEF LineSet
<1> QED
  BY <1>1, <1>7, <1>8, <1>11, <1>12, <1>13, <1>14, LineWrites
-----------------------------------------------------------------------------
\* Nothing is collected, posted or booked at the start.
LEMMA InitKeeps == Init => Ledger
<1> SUFFICES ASSUME Init PROVE Ledger
  OBVIOUS
<1>1. SomeProvider \in Provider
  BY CodAssumption DEF SomeProvider
<1>2. \A l \in Line: /\ line[l].status = "absent" /\ line[l].order = NoOrder
                     /\ line[l].match = NoOrder /\ line[l].base = Nought
                     /\ line[l].delta = Nought /\ line[l].found = 0
  BY DEF Init
<1>3. \A o \in Order: ~collection[o].recorded /\ EffectiveCollected(o) = 0
  BY DEF Init, EffectiveCollected
<1>4. Typed
  <2>1. order \in [Order -> OrderRow]
    BY DEF Init, OrderRow, CodStates
  <2>2. collection \in [Order -> CollectionRow]
    BY <1>1 DEF Init, CollectionRow
  <2>3. line \in [Line -> LineRow]
    BY <1>1, NoughtFacts DEF Init, LineRow, LineStatuses
  <2>4. booked \in [fee: Int, adjustment: Int] /\ commands \in 0..MaxCommands
    BY CodAssumption DEF Init
  <2> QED
    BY <2>1, <2>2, <2>3, <2>4 DEF Typed
<1>5. \A l \in Line: LineFacts(l)
  BY <1>2 DEF LineFacts, OrderOf, Nought
<1>6. AmountFacts /\ CollectionFacts
  BY <1>2, <1>3 DEF AmountFacts, CollectionFacts, EffectiveGross, EffectiveFee, Nought
<1>7. CodInv
  BY <1>4, <1>5, <1>6 DEF CodInv
<1>8. StoredStateIsDerived
  <2> SUFFICES ASSUME NEW o \in Order
               PROVE  order[o] = Stored(o, EffectiveCollected(o), SettledGross(o),
                                        SettlementDiscrepancy(o))
    BY StoredRead
  <2>1. order[o] = [codState |-> "receivable", codCollected |-> FALSE, codRemitted |-> FALSE]
    BY DEF Init
  <2> DEFINE g == SettledGross(o)
             d == SettlementDiscrepancy(o)
             state == DeriveCodState(o, 0, g, d)
  <2>2. state = "receivable"
    BY DEF DeriveCodState
  <2>3. (0 > 0) = FALSE /\ (state = "remitted") = FALSE
    BY <2>2
  <2>4. Stored(o, 0, g, d) = [codState |-> state, codCollected |-> 0 > 0,
                              codRemitted |-> state = "remitted"]
    BY DEF Stored
  <2> HIDE DEF state
  <2>5. Stored(o, 0, g, d) = order[o]
    BY <2>1, <2>2, <2>3, <2>4, Zenon
  <2> QED
    BY <1>3, <2>5
<1>9. Attributed = {} /\ Named = {}
  BY <1>2 DEF Attributed, Named, OrderOf
<1>10. FeesDue = 0
  <2>1. SumFunctionOnSet([l \in Line |-> line[l].base.fee], Attributed) = 0
    BY <1>9, FS_EmptySet, SumUnfolds
  <2>2. SumFunctionOnSet([l \in Line |-> line[l].delta.fee], Line) = 0
    <3> DEFINE q == [l \in Line |-> line[l].delta.fee]
    <3>1. \A l \in Line: q[l] = 0
      BY <1>2 DEF Nought
    <3> HIDE DEF q
    <3>2. SumFunctionOnSet(q, Line) = 0
      BY <3>1, LinesFinite, SumOfNoughts
    <3> QED
      BY <3>2 DEF q
  <2> QED
    BY <2>1, <2>2 DEF FeesDue
<1>11. AdjustmentsDue = 0
  <2>1. SumFunctionOnSet([l \in Line |-> line[l].base.adjustment], Named) = 0
    BY <1>9, FS_EmptySet, SumUnfolds
  <2>2. SumFunctionOnSet([l \in Line |-> line[l].delta.adjustment], Line) = 0
    <3> DEFINE q == [l \in Line |-> line[l].delta.adjustment]
    <3>1. \A l \in Line: q[l] = 0
      BY <1>2 DEF Nought
    <3> HIDE DEF q
    <3>2. SumFunctionOnSet(q, Line) = 0
      BY <3>1, LinesFinite, SumOfNoughts
    <3> QED
      BY <3>2 DEF q
  <2> QED
    BY <2>1, <2>2 DEF AdjustmentsDue
<1> QED
  BY <1>7, <1>8, <1>10, <1>11 DEF Ledger, Booked, Init

LEMMA StutterKeeps == Ledger /\ UNCHANGED vars => Ledger'
<1> SUFFICES ASSUME Ledger, UNCHANGED vars PROVE Ledger'
  OBVIOUS
<1>1. /\ order' = order /\ collection' = collection /\ line' = line
      /\ booked' = booked /\ commands' = commands
  BY DEF vars
<1>2. /\ \A o: SettledGross(o)' = SettledGross(o)
      /\ \A o: SettlementDiscrepancy(o)' = SettlementDiscrepancy(o)
      /\ FeesDue' = FeesDue /\ AdjustmentsDue' = AdjustmentsDue
  BY <1>1, LinesStay
<1>3. CodInv'
  <2>1. Typed' /\ AmountFacts' /\ CollectionFacts'
    BY <1>1 DEF Ledger, CodInv, Typed, AmountFacts, CollectionFacts, EffectiveGross,
      EffectiveFee, EffectiveCollected
  <2>2. \A l \in Line: LineFacts(l)'
    BY <1>1 DEF Ledger, CodInv, LineFacts, OrderOf
  <2> QED
    BY <2>1, <2>2 DEF CodInv
<1>4. \A o: EffectiveCollected(o)' = EffectiveCollected(o)
  BY <1>1 DEF EffectiveCollected
<1>5. StoredStateIsDerived'
  <2> SUFFICES ASSUME NEW d \in Order
               PROVE  order'[d] = Stored(d, EffectiveCollected(d)', SettledGross(d)',
                                         SettlementDiscrepancy(d)')
    BY DEF StoredStateIsDerived, Stored
  <2> QED
    BY <1>1, <1>2, <1>4, StoredRead DEF Ledger
<1> QED
  BY <1>1, <1>2, <1>3, <1>5 DEF Ledger, Booked

LEMMA LedgerInvariant == Spec => []Ledger
<1>1. Ledger /\ [Next]_vars => Ledger'
  <2> SUFFICES ASSUME Ledger, [Next]_vars PROVE Ledger'
    OBVIOUS
  <2>1. CASE \E o \in Order: RecordCollection(o) \/ CorrectCollection(o)
    BY <2>1, RecordKeeps, CorrectCollectionKeeps
  <2>2. CASE \E l \in Line: PostUnmatched(l) \/ CorrectLine(l)
    BY <2>2, PostUnmatchedKeeps, CorrectLineKeeps
  <2>3. CASE \E l \in Line, o \in Order: PostLine(l, o) \/ MatchLine(l, o)
    BY <2>3, PostLineKeeps, MatchLineKeeps
  <2>4. CASE UNCHANGED vars
    BY <2>4, StutterKeeps
  <2> QED
    BY <2>1, <2>2, <2>3, <2>4 DEF Next
<1> QED
  BY <1>1, InitKeeps, PTL DEF Spec

\* TypeOK always holds: the checks of the commands keep a line's effective gross
\* and fee, and what an order's courier effectively collected, from going below
\* zero, whatever corrections the shop enters (the schemas and the checks of
\* correctCanonicalCodCollection and correctCanonicalCodSettlementLine).
THEOREM TypeOKHolds == Spec => []TypeOK
<1>1. Ledger => TypeOK
  BY DEF Ledger, CodInv, Typed, AmountFacts, TypeOK, OrderRow, CollectionRow, LineRow
<1> QED
  BY <1>1, LedgerInvariant, PTL

\* StoredStateIsDerived always holds: the state, and the two flags, stored on an
\* order are those its collection and its lines say, whatever the order in which
\* lines are posted, corrected and attributed and however many lines an order
\* has (deriveCodState, updateOrderCodProjection and the prospective sums of the
\* commands).
THEOREM StoredStateIsDerivedHolds == Spec => []StoredStateIsDerived
<1>1. Ledger => StoredStateIsDerived
  BY DEF Ledger
<1> QED
  BY <1>1, LedgerInvariant, PTL

\* CostsReachTheBooks always holds: the fees and the adjustments the movements
\* sum to are the effective fees of the attributed lines, the corrections of the
\* others and the adjustments of the lines that named their order, each once
\* (the movements of the three settlement commands).
THEOREM CostsReachTheBooksHolds == Spec => []CostsReachTheBooks
<1>1. Ledger => CostsReachTheBooks
  BY DEF Ledger, Booked, CostsReachTheBooks, FeesDue, AdjustmentsDue
<1> QED
  BY <1>1, LedgerInvariant, PTL
=============================================================================
