--------------------------- MODULE CodSettlement ---------------------------
(***************************************************************************)
(* Cash on delivery after the parcel is delivered                          *)
(* (src/lib/accounting/canonical-cod.ts).  The shop records what the       *)
(* courier collected, enters the courier's remittance sheets, corrects     *)
(* collections and sheet lines by signed amounts, and attributes lines     *)
(* that named no order.  Facts are only ever added; the order carries a    *)
(* state derived from them, and the financial movements carry what the     *)
(* profitability report sums.                                              *)
(*                                                                         *)
(* Each command is one transaction of the command kernel (CommandKernel):  *)
(* it is refused without effect when it presents another version of the    *)
(* order than the stored one, so every command here acts on the order its  *)
(* caller saw.  The lines of one sheet name different orders and are       *)
(* prepared independently, so a sheet has one line and the line is its     *)
(* reference.  Orders are delivered and have their one receivable; dates,  *)
(* references, evidence and refunds by courier deduction are left out.     *)
(***************************************************************************)
EXTENDS Integers, FiniteSets, Functions

CONSTANTS
    Order,        \* delivered trusted orders
    NoOrder,      \* a line that names no order
    Line,         \* remittance lines, by provider reference
    Provider,
    Receivable,   \* [Order -> the cod_receivable_created movement's amount]
    Amount,       \* amounts a courier may report as collected
    Sheet,        \* amounts a sheet line may carry
    CashDelta,    \* signed corrections of a collection
    LineDelta,    \* signed corrections of a line
    MaxCommands   \* bound: accepted commands

Amounts == [gross: Int, fee: Int, adjustment: Int, discrepancy: Int]
Nought == [gross |-> 0, fee |-> 0, adjustment |-> 0, discrepancy |-> 0]

\* The schemas of the commands: positive money, fees and the net of
\* a line not negative, no correction that corrects nothing.
ASSUME CodAssumption ==
    /\ IsFiniteSet(Line)
    /\ Provider # {}
    /\ NoOrder \notin Order
    /\ Receivable \in [Order -> Nat \ {0}]
    /\ Amount \subseteq Nat \ {0}
    /\ Sheet \subseteq [gross: Nat \ {0}, fee: Nat, adjustment: Int]
    /\ \A sheet \in Sheet: sheet.gross - sheet.fee + sheet.adjustment >= 0
    /\ CashDelta \subseteq Int \ {0}
    /\ LineDelta \subseteq Amounts \ {Nought}
    /\ MaxCommands \in Nat

VARIABLES
    order,      \* [Order -> [codState, codCollected, codRemitted]]
    collection, \* [Order -> [recorded, provider, amount, delta]]: CodCollection and corrections
    line,       \* [Line -> [status, order, match, provider, base, delta, found]]
    booked,     \* [fee, adjustment]: FinancialMovement sums, fees as a cost
    commands

vars == <<order, collection, line, booked, commands>>

CodStates == {"receivable", "collected", "partially_remitted", "remitted", "disputed"}
LineStatuses == {"absent", "unmatched", "partial", "matched", "disputed"}

SomeProvider == CHOOSE p \in Provider: TRUE

Init ==
    /\ order = [o \in Order |-> [codState |-> "receivable", codCollected |-> FALSE,
                                 codRemitted |-> FALSE]]
    /\ collection = [o \in Order |-> [recorded |-> FALSE, provider |-> SomeProvider,
                                      amount |-> 0, delta |-> 0]]
    /\ line = [l \in Line |-> [status |-> "absent", order |-> NoOrder, match |-> NoOrder,
                               provider |-> SomeProvider, base |-> Nought,
                               delta |-> Nought, found |-> 0]]
    /\ booked = [fee |-> 0, adjustment |-> 0]
    /\ commands = 0

-----------------------------------------------------------------------------
\* What the stored facts say of an order.

EffectiveCollected(o) == collection[o].amount + collection[o].delta

\* A line counts for the order it named or was matched to.
LinesOf(o) == {l \in Line: line[l].order = o \/ line[l].match = o}

EffectiveGross(l) == line[l].base.gross + line[l].delta.gross

EffectiveDiscrepancy(l) ==
    line[l].base.discrepancy + line[l].delta.discrepancy + line[l].found

SettledGross(o) == SumFunctionOnSet([l \in Line |-> EffectiveGross(l)], LinesOf(o))

SettlementDiscrepancy(o) ==
    SumFunctionOnSet([l \in Line |-> EffectiveDiscrepancy(l)], LinesOf(o))

Remaining(o) == EffectiveCollected(o) - SettledGross(o)

DeriveCodState(o, collected, gross, discrepancy) ==
    CASE collected <= 0 -> "receivable"
      [] collected > 0 /\ (\/ collected # Receivable[o] \/ discrepancy # 0
                           \/ gross > collected) -> "disputed"
      [] OTHER -> IF gross <= 0 THEN "collected"
                  ELSE IF gross < collected THEN "partially_remitted" ELSE "remitted"

\* updateOrderCodProjection.
Project(o, collected, gross, discrepancy) ==
    LET state == DeriveCodState(o, collected, gross, discrepancy) IN
    order' = [order EXCEPT ![o] = [codState |-> state, codCollected |-> collected > 0,
                                   codRemitted |-> state = "remitted"]]

Command ==
    /\ commands < MaxCommands
    /\ commands' = commands + 1

-----------------------------------------------------------------------------
\* The commands.

\* recordCanonicalCodCollection: one collection per order.
RecordCollection(o) ==
    /\ Command
    /\ ~collection[o].recorded
    /\ \E p \in Provider, amount \in Amount:
        /\ collection' = [collection EXCEPT ![o] = [recorded |-> TRUE, provider |-> p,
                                                    amount |-> amount, delta |-> 0]]
        /\ Project(o, amount, 0, 0)
    /\ UNCHANGED <<line, booked>>

\* correctCanonicalCodCollection.
CorrectCollection(o) ==
    /\ Command
    /\ collection[o].recorded
    /\ \E delta \in CashDelta:
        LET collected == EffectiveCollected(o) + delta IN
        /\ collected >= 0
        /\ collected >= SettledGross(o)
        /\ collection' = [collection EXCEPT ![o].delta = @ + delta]
        /\ Project(o, collected, SettledGross(o), SettlementDiscrepancy(o))
    /\ UNCHANGED <<line, booked>>

Posted(l, status, o, p, sheet, discrepancy) ==
    line' = [line EXCEPT ![l] = [status |-> status, order |-> o, match |-> NoOrder,
                                 provider |-> p,
                                 base |-> [gross |-> sheet.gross, fee |-> sheet.fee,
                                           adjustment |-> sheet.adjustment,
                                           discrepancy |-> discrepancy],
                                 delta |-> Nought, found |-> 0]]

Book(fee, adjustment) ==
    booked' = [fee |-> booked.fee + fee, adjustment |-> booked.adjustment + adjustment]

\* A line for an order: a final one closes it, a partial one leaves a rest.
PostLine(l, o) ==
    /\ Command
    /\ line[l].status = "absent"
    /\ collection[o].recorded
    /\ Remaining(o) > 0
    /\ \E sheet \in Sheet, final \in BOOLEAN:
        LET discrepancy == IF final THEN sheet.gross - Remaining(o) ELSE 0
            status == CASE ~final -> "partial"
                        [] final /\ discrepancy = 0 -> "matched"
                        [] final /\ discrepancy # 0 -> "disputed" IN
        /\ ~final => sheet.gross < Remaining(o)
        /\ Posted(l, status, o, collection[o].provider, sheet, discrepancy)
        /\ Project(o, EffectiveCollected(o), SettledGross(o) + sheet.gross,
                   SettlementDiscrepancy(o) + discrepancy)
        /\ Book(sheet.fee, sheet.adjustment)
    /\ UNCHANGED collection

\* A line that names no order books its net only, under no order.
PostUnmatched(l) ==
    /\ Command
    /\ line[l].status = "absent"
    /\ \E p \in Provider, sheet \in Sheet: Posted(l, "unmatched", NoOrder, p, sheet, 0)
    /\ UNCHANGED <<order, collection, booked>>

Plus(a, b) == [f \in DOMAIN a |-> a[f] + b[f]]

Net(a) == a.gross - a.fee + a.adjustment

\* The order a line counts for, named or matched.
OrderOf(l) == IF line[l].order # NoOrder THEN line[l].order ELSE line[l].match

\* correctCanonicalCodSettlementLine.
CorrectLine(l) ==
    /\ Command
    /\ line[l].status # "absent"
    /\ \E delta \in LineDelta:
        LET after == Plus(Plus(line[l].base, line[l].delta), delta)
            o == OrderOf(l) IN
        /\ after.gross >= 0 /\ after.fee >= 0 /\ Net(after) >= 0
        /\ line' = [line EXCEPT ![l].delta = Plus(@, delta)]
        /\ IF o \in Order
           THEN Project(o, EffectiveCollected(o), SettledGross(o) + delta.gross,
                        SettlementDiscrepancy(o) + delta.discrepancy)
           ELSE UNCHANGED order
        /\ Book(delta.fee, delta.adjustment)
    /\ UNCHANGED collection

\* What a match adds to the order's discrepancy: corrections the line already
\* carries, and its difference from what the order still lacks.
(* mutant: the corrections made before the match are forgotten *)
DifferenceOnly(l, o) == EffectiveGross(l) - Remaining(o)

MatchDiscrepancy(l, o) == line[l].delta.discrepancy + EffectiveGross(l) - Remaining(o)

\* The fee the posting did not book; its corrections are booked already.
(* mutant: the effective fee is booked *)
EffectiveFee(l) == line[l].base.fee + line[l].delta.fee

UnbookedFee(l) == line[l].base.fee

\* matchCanonicalCodSettlementLine: a match closes what the order still lacks.
MatchLine(l, o) ==
    /\ Command
    /\ line[l].status = "unmatched" /\ line[l].match = NoOrder
    /\ collection[o].recorded
    /\ collection[o].provider = line[l].provider
    /\ EffectiveGross(l) > 0
    /\ Remaining(o) > 0
    /\ line' = [line EXCEPT ![l].match = o,
                            ![l].found = EffectiveGross(l) - Remaining(o)]
    /\ Project(o, EffectiveCollected(o), SettledGross(o) + EffectiveGross(l),
               SettlementDiscrepancy(o) + MatchDiscrepancy(l, o))
    /\ Book(UnbookedFee(l), 0)
    /\ UNCHANGED collection

Next ==
    \/ \E o \in Order: RecordCollection(o) \/ CorrectCollection(o)
    \/ \E l \in Line: PostUnmatched(l) \/ CorrectLine(l)
    \/ \E l \in Line, o \in Order: PostLine(l, o) \/ MatchLine(l, o)

Spec == Init /\ [][Next]_vars

-----------------------------------------------------------------------------
\* Type correctness; the schemas and checks keep a line's effective gross and
\* fee and an order's effective collection from going below zero.
TypeOK ==
    /\ order \in [Order -> [codState: CodStates, codCollected: BOOLEAN, codRemitted: BOOLEAN]]
    /\ collection \in [Order -> [recorded: BOOLEAN, provider: Provider, amount: Nat, delta: Int]]
    /\ line \in [Line -> [status: LineStatuses, order: Order \union {NoOrder},
                          match: Order \union {NoOrder}, provider: Provider,
                          base: Amounts, delta: Amounts, found: Int]]
    /\ booked \in [fee: Int, adjustment: Int]
    /\ commands \in 0..MaxCommands
    /\ \A l \in Line: EffectiveGross(l) >= 0 /\ EffectiveFee(l) >= 0
    /\ \A o \in Order: EffectiveCollected(o) >= 0

\* The state stored on an order is the one its facts say, although every
\* command computes it ahead of its own insertions: no sequence of partial,
\* final, corrected and late attributed lines leaves an order called remitted
\* that is not, or disputed with nothing in dispute (deriveCodState,
\* updateOrderCodProjection and the prospective sums of its callers).
StoredStateIsDerived ==
    \A o \in Order:
        LET state == DeriveCodState(o, EffectiveCollected(o), SettledGross(o),
                                    SettlementDiscrepancy(o)) IN
        order[o] = [codState |-> state, codCollected |-> EffectiveCollected(o) > 0,
                    codRemitted |-> state = "remitted"]

Attributed == {l \in Line: OrderOf(l) # NoOrder}
Named == {l \in Line: line[l].order # NoOrder}

\* Whatever the order of posting, correcting and attributing a line, the fees
\* profitability sums are the effective fees of the attributed lines and the
\* corrections of the others, each once; the adjustments are those of the lines
\* that named their order and every correction (the movements of
\* postCanonicalCodSettlement, correct- and matchCanonicalCodSettlementLine).
CostsReachTheBooks ==
    /\ booked.fee = SumFunctionOnSet([l \in Line |-> line[l].base.fee], Attributed)
                    + SumFunctionOnSet([l \in Line |-> line[l].delta.fee], Line)
    /\ booked.adjustment = SumFunctionOnSet([l \in Line |-> line[l].base.adjustment], Named)
                           + SumFunctionOnSet([l \in Line |-> line[l].delta.adjustment], Line)

=============================================================================
