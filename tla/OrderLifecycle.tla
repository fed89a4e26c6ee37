--------------------------- MODULE OrderLifecycle ---------------------------
(***************************************************************************)
(* A canonical cash-on-delivery order from the seller's decision to the    *)
(* books: manual confirmation (manual-confirmation.ts), packing, manual    *)
(* dispatch and delivery (canonical-fulfillment.ts), cancellation and the  *)
(* return path (canonical-order-recovery.ts), and the carrier's reports    *)
(* pulled by synchronizeCanonicalCourierTracking, from the seller's button *)
(* or from the background worker (scheduled-reconcile.ts).                 *)
(*                                                                         *)
(* Every command of the code is one transaction of the command kernel      *)
(* (CommandKernel) guarded by Order.version, so it is one action here.     *)
(* The seller's commands carry the version they show: one with a stale     *)
(* version is refused and changes nothing, so the model's seller always    *)
(* sees the current order.  A tracking pull, on the other hand, carries    *)
(* the version it read before the network call, through several commands.  *)
(* The per-transition aggregates of the code are implied by the guards:    *)
(* no guard can become true again once its command has run.                *)
(*                                                                         *)
(* Booking is reduced to its outcomes (CourierBooking has the protocol).   *)
(* One product without variants, one line per order; storefront stock      *)
(* holds, refunds and settlement are not part of this module.              *)
(***************************************************************************)
EXTENDS Integers, Sequences, FiniteSets, Functions

CONSTANTS
    Order,          \* the orders
    Qty,            \* [Order -> Nat \ {0}]: units of the product an order asks for
    Stock,          \* units on hand before any of these orders
    Course,         \* the histories a carrier may report for a parcel
    Worker,         \* background reconcile workers: pull open parcels only
    Button,         \* sync buttons: pull any tracked parcel, when pressed
    RejectBelow     \* bound: a booking is rejected only while Order.version is below

ASSUME OrderAssumption == IsFiniteSet(Order)
ASSUME QtyAssumption == Qty \in [Order -> Nat \ {0}]
ASSUME StockAssumption == Stock \in Nat

Syncer == Worker \cup Button

(* DeliveryStatus: what the adapters translate a carrier's words into. *)
Report == {"pending", "created", "picked_up", "in_transit", "at_hub",
           "out_for_delivery", "delivered", "failed", "refused", "returned"}

ASSUME CourseAssumption == Course \subseteq Seq(Report)

VARIABLES
    order,          \* Order row: the six state columns of the projection
    version,        \* Order.version
    parcel,         \* Delivery row: who carries it, Delivery.status
    reservation,    \* InventoryReservation of the order's line
    stock,          \* Product.stock
    ledger,         \* InventoryMovement facts of the order, oldest first: <<from, to>>
    case,           \* CanonicalReturnCase: currentState, and who opened it
    receivable,     \* number of cod_receivable_created facts
    course,         \* what the carrier will report of the order's parcel
    visible,        \* reports its history shows by now
    recorded,       \* CanonicalDeliveryEvent by report: the command's request and result
    sync            \* a tracking pull: what it read, and the reports it has left

vars == <<order, version, parcel, reservation, stock, ledger, case, receivable,
          course, visible, recorded, sync>>

goods == <<reservation, stock, ledger>>
world == <<course, visible>>

(***************************************************************************)
(* The order projection.                                                   *)
(***************************************************************************)
State(st, ful, del, inv, cod, ret) ==
    [status |-> st, fulfillment |-> ful, delivery |-> del,
     inventory |-> inv, cod |-> cod, ret |-> ret]

WithDelivery(s, d) == State(s.status, s.fulfillment, d, s.inventory, s.cod, s.ret)

Undecided == State("pending", "none", "none", "none", "none", "none")

InDelivery == {"picked_up", "in_transit", "out_for_delivery"}
Failure == {"failed", "refused"}

(* canonicalDeliveryState *)
DeliveryState(r) ==
    CASE r \in {"pending", "created"} -> "pending"
      [] r \in {"at_hub", "in_transit"} -> "in_transit"
      [] r = "returned" -> "return_in_transit"
      [] OTHER -> r

(* DELIVERY_RANK, -1 for a status it does not list.  booking_retrying and  *)
(* reconciliation_required, which it also lists, are states of             *)
(* CourierBooking: here a parcel is queued, created or rejected.           *)
Rank(s) ==
    CASE s = "booking_queued" -> -2
      [] s \in {"pending", "created"} -> 0
      [] s = "picked_up" -> 1
      [] s \in {"in_transit", "at_hub"} -> 2
      [] s = "out_for_delivery" -> 3
      [] s = "delivered" -> 4
      [] OTHER -> -1

(* OPEN_COURIER_STATUSES *)
Open == {"created", "picked_up", "in_transit", "at_hub", "out_for_delivery"}

Put(o, s) ==
    /\ order' = [order EXCEPT ![o] = s]
    /\ version' = [version EXCEPT ![o] = @ + 1]

Reserve(o, st) == reservation' = [reservation EXCEPT ![o] = st]
Move(o, from, to) == ledger' = [ledger EXCEPT ![o] = Append(@, <<from, to>>)]
Carry(o, by, st) == parcel' = [parcel EXCEPT ![o] = [by |-> by, status |-> st]]
Handle(o, st) == Carry(o, parcel[o].by, st)
OpenCase(o, st, by) == case' = [case EXCEPT ![o] = [state |-> st, by |-> by]]
CaseTo(o, st) == OpenCase(o, st, case[o].by)

Rest == [pc |-> "idle", order |-> "none", expected |-> 0, shown |-> "none", batch |-> {}]
Nothing == [expected |-> 0, version |-> 0, shown |-> "none"]

Init ==
    /\ order = [o \in Order |-> Undecided]
    /\ version = [o \in Order |-> 0]
    /\ parcel = [o \in Order |-> [by |-> "nobody", status |-> "not_created"]]
    /\ reservation = [o \in Order |-> "none"]
    /\ stock = Stock
    /\ ledger = [o \in Order |-> <<>>]
    /\ case = [o \in Order |-> [state |-> "none", by |-> "nobody"]]
    /\ receivable = [o \in Order |-> 0]
    /\ course \in [Order -> Course]
    /\ visible = [o \in Order |-> {}]
    /\ recorded = [o \in Order |-> [i \in DOMAIN course[o] |-> Nothing]]
    /\ sync = [s \in Syncer |-> Rest]

(***************************************************************************)
(* The seller's decision.  Confirming takes the stock.                     *)
(***************************************************************************)
(* mutant: stock is not compared with the quantity *)
ConfirmUnchecked(o) ==
    /\ order[o].status = "pending"
    /\ stock' = stock - Qty[o]
    /\ Reserve(o, "active")
    /\ Move(o, "available", "reserved")
    /\ Put(o, State("confirmed", "unfulfilled", "not_created", "reserved", "not_expected", "none"))
    /\ UNCHANGED <<parcel, case, receivable, world, recorded, sync>>

Confirm(o) ==
    /\ order[o].status = "pending"
    /\ stock >= Qty[o]
    /\ stock' = stock - Qty[o]
    /\ Reserve(o, "active")
    /\ Move(o, "available", "reserved")
    /\ Put(o, State("confirmed", "unfulfilled", "not_created", "reserved", "not_expected", "none"))
    /\ UNCHANGED <<parcel, case, receivable, world, recorded, sync>>

Reject(o) ==
    /\ order[o].status = "pending"
    /\ Put(o, State("cancelled", "unfulfilled", "not_created", "unreserved", "not_expected", "none"))
    /\ UNCHANGED <<parcel, goods, case, receivable, world, recorded, sync>>

(* mutant: a booking under way does not block the cancellation *)
CancelBooked(o) ==
    /\ order[o].status = "confirmed"
    /\ reservation[o] = "active"
    /\ stock' = stock + Qty[o]
    /\ Reserve(o, "released")
    /\ Move(o, "reserved", "available")
    /\ Put(o, State("cancelled", "closed", "not_created", "settled", "not_expected", "none"))
    /\ UNCHANGED <<parcel, case, receivable, world, recorded, sync>>

Cancel(o) ==
    /\ order[o].status = "confirmed"
    /\ order[o].fulfillment \in {"unfulfilled", "ready"}
    /\ order[o].delivery = "not_created"
    /\ order[o].inventory = "reserved"
    /\ order[o].cod = "not_expected"
    /\ case[o].state = "none"
    /\ reservation[o] = "active"
    /\ stock' = stock + Qty[o]
    /\ Reserve(o, "released")
    /\ Move(o, "reserved", "available")
    /\ Put(o, State("cancelled", "closed", "not_created", "settled", "not_expected", "none"))
    /\ UNCHANGED <<parcel, case, receivable, world, recorded, sync>>

(***************************************************************************)
(* Fulfillment: pack, then either the seller's own dispatch and delivery   *)
(* or a courier booking.                                                   *)
(***************************************************************************)
Pack(o) ==
    /\ order[o].status = "confirmed"
    /\ order[o].fulfillment = "unfulfilled"
    /\ reservation[o] = "active"
    /\ Put(o, State("confirmed", "ready", "not_created", "reserved", "not_expected", order[o].ret))
    /\ UNCHANGED <<parcel, goods, case, receivable, world, recorded, sync>>

Packed(o, delivery) ==
    /\ order[o].status = "confirmed"
    /\ order[o].fulfillment = "ready"
    /\ order[o].inventory = "reserved"
    /\ order[o].delivery = delivery

Ship(o) ==
    /\ Packed(o, "not_created")
    /\ parcel[o].by = "nobody"
    /\ reservation[o] = "active"
    /\ Carry(o, "seller", "in_transit")
    /\ Reserve(o, "consumed")
    /\ Move(o, "reserved", "outbound")
    /\ Put(o, State("shipped", "shipped", "in_transit", "outbound", "not_expected", order[o].ret))
    /\ UNCHANGED <<stock, case, receivable, world, recorded, sync>>

Deliver(o) ==
    /\ order[o].status = "shipped"
    /\ order[o].fulfillment = "shipped"
    /\ order[o].inventory = "outbound"
    /\ order[o].delivery = "in_transit"
    /\ parcel[o] = [by |-> "seller", status |-> "in_transit"]
    /\ reservation[o] = "consumed"
    /\ Handle(o, "delivered")
    /\ receivable' = [receivable EXCEPT ![o] = @ + 1]
    /\ Put(o, State("delivered", "closed", "delivered", "settled", "receivable", order[o].ret))
    /\ UNCHANGED <<goods, case, world, recorded, sync>>

Book(o) ==
    /\ Packed(o, "not_created")
    /\ \/ parcel[o].by = "nobody"
       \/ parcel[o] = [by |-> "courier", status |-> "booking_failed"]
    /\ Carry(o, "courier", "booking_queued")
    /\ Put(o, WithDelivery(order[o], "pending"))
    /\ UNCHANGED <<goods, case, receivable, world, recorded, sync>>

(* commitBookingReceipt: the parcel has a tracking number. *)
Booked(o) ==
    /\ parcel[o].status = "booking_queued"
    /\ Handle(o, "created")
    /\ UNCHANGED <<order, version, goods, case, receivable, world, recorded, sync>>

(* A terminal rejection, and restoreTerminalKnownFailures. *)
BookingRejected(o) ==
    /\ parcel[o].status = "booking_queued"
    /\ version[o] < RejectBelow
    /\ Handle(o, "booking_failed")
    /\ UNCHANGED <<order, version, goods, case, receivable, world, recorded, sync>>

GiveBack(o) ==
    /\ parcel[o].status = "booking_failed"
    /\ Packed(o, "pending")
    /\ Put(o, WithDelivery(order[o], "not_created"))
    /\ UNCHANGED <<parcel, goods, case, receivable, world, recorded, sync>>

(***************************************************************************)
(* Recovery: a failed or refused delivery and the way back of the goods.   *)
(* The guards are operators of their own, a tracking pull runs the same    *)
(* commands for the provider.  Each of them sets the six columns whole.    *)
(***************************************************************************)
CanFail(o) ==
    /\ order[o].status = "shipped"
    /\ order[o].fulfillment = "shipped"
    /\ order[o].delivery \in {"in_transit", "out_for_delivery"}
    /\ order[o].inventory = "outbound"
    /\ order[o].cod = "not_expected"
    /\ case[o].state = "none"
    /\ reservation[o] = "consumed"
    /\ parcel[o].status \in {"in_transit", "out_for_delivery"}

(* mutant: a failed delivery puts the units back on sale *)
FailRestocks(o, outcome, by) ==
    /\ Handle(o, outcome)
    /\ OpenCase(o, "awaiting_return", by)
    /\ Move(o, "outbound", "return_pending_receipt")
    /\ Put(o, State("shipped", "closed", outcome, "return_pending_receipt",
                    "not_expected", "awaiting_return"))
    /\ stock' = stock + Qty[o]
    /\ UNCHANGED <<reservation, receivable>>

Fail(o, outcome, by) ==
    /\ Handle(o, outcome)
    /\ OpenCase(o, "awaiting_return", by)
    /\ Move(o, "outbound", "return_pending_receipt")
    /\ Put(o, State("shipped", "closed", outcome, "return_pending_receipt",
                    "not_expected", "awaiting_return"))
    /\ UNCHANGED <<reservation, stock, receivable>>

(* mutant: a parcel at a hub cannot turn back *)
ReturnsOnTheRoad(o) ==
    /\ order[o].status = "shipped"
    /\ order[o].inventory = "outbound"
    /\ case[o].state = "none"
    /\ order[o].delivery \in InDelivery
    /\ parcel[o].status \in InDelivery

ReturnsFromDelivery(o) ==
    /\ order[o].status = "shipped"
    /\ order[o].fulfillment = "shipped"
    /\ order[o].delivery \in InDelivery
    /\ order[o].inventory = "outbound"
    /\ order[o].cod = "not_expected"
    /\ case[o].state = "none"
    /\ reservation[o] = "consumed"
    /\ parcel[o].status \in InDelivery \cup {"at_hub"}

ReturnsFromException(o) ==
    /\ order[o].status = "shipped"
    /\ order[o].delivery \in Failure
    /\ order[o].inventory = "return_pending_receipt"
    /\ order[o].ret = "awaiting_return"
    /\ case[o].state = "awaiting_return"
    /\ reservation[o] = "consumed"
    /\ parcel[o].status \in Failure

CanTurnBack(o) == ReturnsFromDelivery(o) \/ ReturnsFromException(o)

TurnBack(o, by) ==
    /\ Handle(o, "return_in_transit")
    /\ \/ /\ ReturnsFromDelivery(o)
          /\ OpenCase(o, "in_transit", by)
          /\ Move(o, "outbound", "return_in_transit")
       \/ /\ ReturnsFromException(o)
          /\ CaseTo(o, "in_transit")
          /\ Move(o, "return_pending_receipt", "return_in_transit")
    /\ Put(o, State("shipped", "closed", "return_in_transit", "return_pending_receipt",
                    "not_expected", "in_transit"))
    /\ UNCHANGED <<reservation, stock, receivable>>

ReportFailure(o) ==
    \E outcome \in Failure :
        CanFail(o) /\ Fail(o, outcome, "seller") /\ UNCHANGED <<world, recorded, sync>>

ReportReturn(o) ==
    CanTurnBack(o) /\ TurnBack(o, "seller") /\ UNCHANGED <<world, recorded, sync>>

CanReceive(o) ==
    /\ order[o].status = "shipped"
    /\ order[o].delivery \in Failure \cup {"return_in_transit"}
    /\ order[o].inventory = "return_pending_receipt"
    /\ order[o].ret \in {"awaiting_return", "in_transit"}
    /\ case[o].state \in {"awaiting_return", "in_transit"}
    /\ reservation[o] = "consumed"
    /\ parcel[o].status \in Failure \cup {"return_in_transit"}

(* mutant: the goods are received from where a failure leaves them *)
ReceiveFromReceipt(o) ==
    /\ CanReceive(o)
    /\ Handle(o, "returned")
    /\ CaseTo(o, "received")
    /\ Move(o, "return_pending_receipt", "return_pending_inspection")
    /\ Put(o, State("returned", "closed", "returned", "return_pending_inspection",
                    "not_expected", "received"))
    /\ UNCHANGED <<reservation, stock, receivable, world, recorded, sync>>

ReceiveReturn(o) ==
    /\ CanReceive(o)
    /\ Handle(o, "returned")
    /\ CaseTo(o, "received")
    /\ Move(o, IF order[o].delivery = "return_in_transit"
                 THEN "return_in_transit" ELSE "return_pending_receipt",
            "return_pending_inspection")
    /\ Put(o, State("returned", "closed", "returned", "return_pending_inspection",
                    "not_expected", "received"))
    /\ UNCHANGED <<reservation, stock, receivable, world, recorded, sync>>

(* mutant: every inspected unit goes back on sale *)
InspectRestocks(o, disposition) ==
    /\ order[o].inventory = "return_pending_inspection"
    /\ case[o].state = "received"
    /\ stock' = stock + Qty[o]
    /\ Move(o, "return_pending_inspection", disposition)
    /\ CaseTo(o, "completed")
    /\ Put(o, State("returned", "closed", "returned", "settled", "not_expected", "completed"))
    /\ UNCHANGED <<parcel, reservation, receivable, world, recorded, sync>>

InspectReturn(o, disposition) ==
    /\ order[o].status = "returned"
    /\ order[o].delivery = "returned"
    /\ order[o].inventory = "return_pending_inspection"
    /\ order[o].ret = "received"
    /\ case[o].state = "received"
    /\ stock' = IF disposition = "available" THEN stock + Qty[o] ELSE stock
    /\ Move(o, "return_pending_inspection", disposition)
    /\ CaseTo(o, "completed")
    /\ Put(o, State("returned", "closed", "returned", "settled", "not_expected", "completed"))
    /\ UNCHANGED <<parcel, reservation, receivable, world, recorded, sync>>

(***************************************************************************)
(* The carrier.  Its history shows the reports of the parcel's course,     *)
(* each when it likes: a scan may be uploaded after a later one.  The      *)
(* timestamps are those of the course.                                     *)
(***************************************************************************)
Tracked(o) ==
    /\ parcel[o].by = "courier"
    /\ parcel[o].status \notin {"booking_queued", "booking_failed"}

Show(o) ==
    /\ Tracked(o)
    /\ \E i \in DOMAIN course[o] \ visible[o] :
          visible' = [visible EXCEPT ![o] = @ \cup {i}]
    /\ UNCHANGED <<order, version, parcel, goods, case, receivable, course, recorded, sync>>

(***************************************************************************)
(* A tracking pull.  It reads the order's position, waits for the carrier  *)
(* and hands the reports over one by one, oldest first; the version each   *)
(* command expects is the one the previous command returned.  A command    *)
(* that throws ends the pull.                                              *)
(***************************************************************************)
Now(s) == sync[s].order
Oldest(s) == {i \in sync[s].batch : \A j \in sync[s].batch : i <= j}
Told(s, i) == course[Now(s)][i]

PullIs(s, pc, o, v, d, left) ==
    sync' = [sync EXCEPT ![s] = [pc |-> pc, order |-> o, expected |-> v,
                                 shown |-> d, batch |-> left]]
Onward(s, pc, left) == PullIs(s, pc, Now(s), sync[s].expected, sync[s].shown, left)

(* The worker's page of open parcels is read before it pulls the first.    *)
Choose(s, o) ==
    /\ sync[s].pc = "idle"
    /\ s \in Worker
    /\ Tracked(o)
    /\ parcel[o].status \in Open
    /\ PullIs(s, "chosen", o, 0, "none", {})
    /\ UNCHANGED <<order, version, parcel, goods, case, receivable, world, recorded>>

ReadPosition(s, o) ==
    /\ IF s \in Worker THEN sync[s].pc = "chosen" /\ Now(s) = o
                       ELSE sync[s].pc = "idle" /\ Tracked(o)
    /\ PullIs(s, "asking", o, version[o], order[o].delivery, {})
    /\ UNCHANGED <<order, version, parcel, goods, case, receivable, world, recorded>>

(* The history asked for.  The code tells one more kind of report, left    *)
(* out here: for a history without any, the carrier's current status.      *)
Fetch(s) ==
    /\ sync[s].pc = "asking"
    /\ Onward(s, "looking", visible[Now(s)])
    /\ UNCHANGED <<order, version, parcel, goods, case, receivable, world, recorded>>

(* mutant: every report of the history is told again *)
LookNot(s, i) ==
    /\ sync[s].pc = "looking"
    /\ Onward(s, "telling", sync[s].batch)
    /\ UNCHANGED <<order, version, parcel, goods, case, receivable, world, recorded>>

(* The report may have been recorded already, by this command's key. *)
Look(s, i) ==
    /\ sync[s].pc = "looking"
    /\ IF recorded[Now(s)][i] # Nothing
         THEN Onward(s, "looking", sync[s].batch \ {i})
         ELSE Onward(s, "telling", sync[s].batch)
    /\ UNCHANGED <<order, version, parcel, goods, case, receivable, world, recorded>>

(* What the code does with a report: a recovery command, or tracking.      *)
(* trackingEventSchema has no failed, refused or returned, so a return     *)
(* that opens nothing is refused by the schema.                            *)
Turns(s, i) == Told(s, i) = "returned" /\ sync[s].shown \in InDelivery \cup Failure
Tracks(s, i) == Told(s, i) \notin Failure \cup {"returned"}

(* mutant: the newest answer wins *)
Always(o, r) == TRUE

Ahead(o, r) == Rank(r) >= Rank(parcel[o].status)
PicksUp(o, r) == Ahead(o, r) /\ Rank(r) >= 1 /\ Packed(o, "pending")

(* mutant: a delivery is accepted for an order already delivered *)
CanTrackTwice(o, r) ==
    Ahead(o, r) /\ Rank(r) >= 1 =>
        /\ Packed(o, "pending") \/ order[o].status \in {"shipped", "delivered"}
        /\ r = "delivered" => reservation[o] = "consumed"

(* No branch of ingestCanonicalCourierTrackingEvent throws.  The delivery  *)
(* branch looks for active reservations in the database, where the pickup  *)
(* branch of the same command has not consumed them yet.                   *)
CanTrack(o, r) ==
    Ahead(o, r) /\ Rank(r) >= 1 =>
        /\ \/ Packed(o, "pending") /\ reservation[o] = "active"
           \/ order[o].status \in {"shipped", "delivered"}
        /\ r = "delivered" =>
              /\ PicksUp(o, r) \/ (order[o].status = "shipped" /\ order[o].inventory = "outbound")
              /\ reservation[o] = "consumed"

Advanced(o, r) ==
    LET picked == IF PicksUp(o, r)
                    THEN State("shipped", "shipped", order[o].delivery, "outbound",
                               "not_expected", order[o].ret)
                    ELSE order[o]
    IN  IF r = "delivered"
          THEN State("delivered", "closed", "delivered", "settled", "receivable", order[o].ret)
          ELSE WithDelivery(picked, DeliveryState(r))

(* mutant: the pickup forgets the reservation *)
TrackUnconsumed(o, r) ==
    /\ IF Ahead(o, r) /\ Rank(r) >= 1 /\ Advanced(o, r) # order[o]
         THEN Put(o, Advanced(o, r))
         ELSE UNCHANGED <<order, version>>
    /\ IF PicksUp(o, r) THEN Move(o, "reserved", "outbound") ELSE UNCHANGED ledger
    /\ IF Ahead(o, r) THEN Handle(o, r) ELSE UNCHANGED parcel
    /\ UNCHANGED <<reservation, receivable, stock, case>>

Track(o, r) ==
    /\ IF Ahead(o, r) /\ Rank(r) >= 1 /\ Advanced(o, r) # order[o]
         THEN Put(o, Advanced(o, r))
         ELSE UNCHANGED <<order, version>>
    /\ IF PicksUp(o, r)
         THEN Reserve(o, "consumed") /\ Move(o, "reserved", "outbound")
         ELSE UNCHANGED <<reservation, ledger>>
    /\ IF Ahead(o, r) THEN Handle(o, r) ELSE UNCHANGED parcel
    /\ receivable' = IF Ahead(o, r) /\ r = "delivered"
                       THEN [receivable EXCEPT ![o] = @ + 1] ELSE receivable
    /\ UNCHANGED <<stock, case>>

Accepts(s, i) ==
    LET o == Now(s) IN
    /\ version[o] = sync[s].expected
    /\ \/ Told(s, i) \in Failure /\ CanFail(o)
       \/ Turns(s, i) /\ CanTurnBack(o)
       \/ Tracks(s, i) /\ CanTrack(o, Told(s, i))

(* The pull goes on with the version and the delivery state of the result; *)
(* the delivery state is not taken over from a failure.                    *)
Proceed(s, i, v, d) ==
    PullIs(s, "looking", Now(s), v,
           IF Told(s, i) \in Failure THEN sync[s].shown ELSE d, sync[s].batch \ {i})

Tell(s, i) ==
    LET o == Now(s)  r == Told(s, i) IN
    /\ sync[s].pc = "telling"
    /\ recorded[o][i] = Nothing
    /\ Accepts(s, i)
    /\ \/ r \in Failure /\ Fail(o, r, "courier")
       \/ Turns(s, i) /\ TurnBack(o, "courier")
       \/ Tracks(s, i) /\ Track(o, r)
    /\ recorded' = [recorded EXCEPT ![o][i] =
                      [expected |-> sync[s].expected, version |-> version'[o],
                       shown |-> order'[o].delivery]]
    /\ Proceed(s, i, version'[o], order'[o].delivery)
    /\ UNCHANGED world

(* Another pull told the same report since this one looked: the same       *)
(* request is answered with the recorded result, another is refused.       *)
Replayed(s, i) ==
    LET done == recorded[Now(s)][i] IN
    /\ done # Nothing
    /\ done.expected = sync[s].expected
    /\ Turns(s, i) \/ Tracks(s, i) \/ Told(s, i) \in Failure

Replay(s, i) ==
    LET done == recorded[Now(s)][i] IN
    /\ sync[s].pc = "telling"
    /\ Replayed(s, i)
    /\ Proceed(s, i, done.version, done.shown)
    /\ UNCHANGED <<order, version, parcel, goods, case, receivable, world, recorded>>

Abort(s, i) ==
    /\ sync[s].pc = "telling"
    /\ IF recorded[Now(s)][i] = Nothing THEN ~Accepts(s, i) ELSE ~Replayed(s, i)
    /\ Onward(s, "aborted", sync[s].batch)
    /\ UNCHANGED <<order, version, parcel, goods, case, receivable, world, recorded>>

EndSync(s) ==
    /\ \/ sync[s].pc = "looking" /\ sync[s].batch = {}
       \/ sync[s].pc = "aborted"
    /\ sync' = [sync EXCEPT ![s] = Rest]
    /\ UNCHANGED <<order, version, parcel, goods, case, receivable, world, recorded>>

Disposition == {"available", "damaged", "quarantine", "lost"}

Seller(o) ==
    \/ Confirm(o) \/ Reject(o) \/ Cancel(o) \/ Pack(o) \/ Ship(o) \/ Deliver(o) \/ Book(o)
    \/ ReportFailure(o) \/ ReportReturn(o) \/ ReceiveReturn(o)
    \/ \E d \in Disposition : InspectReturn(o, d)

Booking(o) == Booked(o) \/ BookingRejected(o) \/ GiveBack(o)

Pull(s) ==
    \/ Fetch(s)
    \/ \E i \in Oldest(s) : Look(s, i) \/ Tell(s, i) \/ Replay(s, i) \/ Abort(s, i)
    \/ EndSync(s)

Next ==
    \/ \E o \in Order : Seller(o) \/ Booking(o) \/ Show(o)
    \/ \E s \in Syncer : Pull(s) \/ \E o \in Order : Choose(s, o) \/ ReadPosition(s, o)

Spec == Init /\ [][Next]_vars

(***************************************************************************)
(* The worker's timer runs while the app is open, and every pull ends: the *)
(* adapters bound their requests.  Nothing obliges the seller, the button  *)
(* or the carrier.  With one order the worker's cursor plays no part.      *)
(***************************************************************************)
Fairness ==
    \A s \in Worker :
        /\ WF_vars(\E o \in Order : Choose(s, o))
        /\ WF_vars(\E o \in Order : ReadPosition(s, o))
        /\ WF_vars(Pull(s))

FairSpec == Spec /\ Fairness

-----------------------------------------------------------------------------
Statuses == {"pending", "confirmed", "shipped", "delivered", "cancelled", "returned"}
DeliveryStates == {"none", "not_created", "pending", "delivered", "return_in_transit", "returned"}
                    \cup InDelivery \cup Failure
Returns == {"none", "awaiting_return", "in_transit", "received", "completed"}
Position == {"available", "reserved", "outbound", "return_pending_receipt",
             "return_in_transit", "return_pending_inspection"} \cup Disposition

OrderState ==
    [status : Statuses,
     fulfillment : {"none", "unfulfilled", "ready", "shipped", "closed"},
     delivery : DeliveryStates,
     inventory : {"none", "unreserved", "reserved", "outbound", "return_pending_receipt",
                  "return_pending_inspection", "settled"},
     cod : {"none", "not_expected", "receivable"},
     ret : Returns]

(* Types of the variables; stock is never negative.                        *)
TypeOK ==
    /\ order \in [Order -> OrderState]
    /\ version \in [Order -> Nat]
    /\ parcel \in [Order -> [by : {"nobody", "seller", "courier"},
                             status : Report \cup {"not_created", "booking_queued",
                                                   "booking_failed", "return_in_transit"}]]
    /\ reservation \in [Order -> {"none", "active", "consumed", "released"}]
    /\ stock \in Nat
    /\ ledger \in [Order -> Seq(Position \X Position)]
    /\ case \in [Order -> [state : Returns, by : {"nobody", "seller", "courier"}]]
    /\ receivable \in [Order -> Nat]
    /\ course \in [Order -> Course]
    /\ \A o \in Order : visible[o] \subseteq DOMAIN course[o]
    /\ \A o \in Order : recorded[o] \in [DOMAIN course[o] ->
                             [expected : Nat, version : Nat, shown : DeliveryStates]]
    /\ sync \in [Syncer -> [pc : {"idle", "chosen", "asking", "looking", "telling", "aborted"},
                            order : Order \cup {"none"}, expected : Nat,
                            shown : DeliveryStates, batch : SUBSET Nat]]

(* Where the movements of the order say its units are.                     *)
Where(o) == IF ledger[o] = <<>> THEN "available" ELSE ledger[o][Len(ledger[o])][2]

Sold == {o \in Order : Where(o) # "available"}

(***************************************************************************)
(* The stock figure and the movement ledger never disagree: what is on     *)
(* hand and what the orders' last movements hold elsewhere add up to the   *)
(* units there were (restoreAvailableStock, reserveOrderItem and the       *)
(* inspection write both, in different functions).                         *)
(***************************************************************************)
StockConserved == stock + SumFunctionOnSet(Qty, Sold) = Stock

(***************************************************************************)
(* Every movement starts where the previous one ended, although the code   *)
(* derives the start from the delivery state and not from the ledger.      *)
(***************************************************************************)
LedgerContinuous ==
    \A o \in Order : \A i \in DOMAIN ledger[o] :
        ledger[o][i][1] = IF i = 1 THEN "available" ELSE ledger[o][i - 1][2]

(***************************************************************************)
(* The four records of an order's goods tell one story: the inventory      *)
(* column, the reservation, the last movement and the return case, which   *)
(* eight commands and the tracking pulls write side by side.               *)
(***************************************************************************)
Story(o) ==
    LET inv == order[o].inventory  w == Where(o)  c == case[o].state IN
    /\ inv \in {"none", "unreserved"} =>
          w = "available" /\ reservation[o] = "none" /\ c = "none"
    /\ inv = "reserved" => w = "reserved" /\ reservation[o] = "active" /\ c = "none"
    /\ inv = "outbound" => w = "outbound" /\ reservation[o] = "consumed" /\ c = "none"
    /\ inv = "return_pending_receipt" =>
          /\ reservation[o] = "consumed"
          /\ \/ c = "awaiting_return" /\ w = "return_pending_receipt"
             \/ c = "in_transit" /\ w = "return_in_transit"
    /\ inv = "return_pending_inspection" =>
          w = "return_pending_inspection" /\ reservation[o] = "consumed" /\ c = "received"
    /\ inv = "settled" =>
          \/ w = "available" /\ reservation[o] = "released" /\ c = "none"
          \/ w = "outbound" /\ reservation[o] = "consumed" /\ c = "none"
          \/ w \in Disposition /\ reservation[o] = "consumed" /\ c = "completed"

GoodsTellOneStory == \A o \in Order : Story(o) /\ order[o].ret = case[o].state

(***************************************************************************)
(* A carrier owes the cash of exactly the delivered orders, once each,     *)
(* whichever of the two delivery paths (the seller's command, a tracking   *)
(* report) and however many pulls told it; no order that owes cash is on   *)
(* its way back.                                                           *)
(***************************************************************************)
CashFollowsDelivery ==
    \A o \in Order :
        /\ receivable[o] = IF order[o].status = "delivered" THEN 1 ELSE 0
        /\ order[o].cod = "receivable" <=> order[o].status = "delivered"
        /\ receivable[o] > 0 => case[o].state = "none"

(***************************************************************************)
(* A cancelled order's parcel is not under way: cancellation, manual       *)
(* dispatch and booking exclude one another on the order version.          *)
(***************************************************************************)
CancelledStaysHome ==
    \A o \in Order : order[o].status = "cancelled" =>
        parcel[o].status \in {"not_created", "booking_failed"}

(***************************************************************************)
(* Stock comes back on sale only by a cancellation before dispatch or by   *)
(* the inspection of a return that was physically received; no report of   *)
(* a carrier puts it back.                                                 *)
(***************************************************************************)
NoStockBeforeInspection ==
    [][stock' > stock =>
         \E o \in Order :
            \/ case[o].state = "received" /\ case'[o].state = "completed"
            \/ reservation[o] = "active" /\ order'[o].status = "cancelled"]_vars

(* How far along the road, and past its end, a delivery state is.          *)
Reach(d) ==
    CASE d = "none" -> 0
      [] d = "not_created" -> 1
      [] d = "pending" -> 2
      [] d = "picked_up" -> 3
      [] d = "in_transit" -> 4
      [] d = "out_for_delivery" -> 5
      [] d \in Failure -> 6
      [] d = "return_in_transit" -> 7
      [] d \in {"delivered", "returned"} -> 8

(***************************************************************************)
(* "records but never applies an out-of-order tracking rollback": whatever *)
(* the late scans, and the pulls that saw different histories, the         *)
(* delivery column of any order goes forward, with two exceptions: a       *)
(* rejected booking gives the order back to its seller, and a scan told of *)
(* an order whose return case is open puts it on the road again.  The      *)
(* second is what the code does with a status it has no rank for           *)
(* (canonical-courier-effect-runtime.ts:967), hazard and finding of its    *)
(* own.                                                                    *)
(***************************************************************************)
DeliveryNeverRollsBack ==
    [][\A o \in Order :
         LET d == order[o].delivery  e == order'[o].delivery IN
         d # e =>
            \/ Reach(d) < Reach(e)
            \/ d = "pending" /\ e = "not_created" /\ parcel[o].status = "booking_failed"
            \/ /\ case[o].state \in {"awaiting_return", "in_transit"}
               /\ d \in Failure \cup {"return_in_transit"}
               /\ e \in InDelivery]_vars

Reported(o, kinds) == \E i \in DOMAIN course[o] : course[o][i] \in kinds
AllShown(o) == Tracked(o) /\ visible[o] = DOMAIN course[o]

(***************************************************************************)
(* A delivery the carrier shows reaches the order and the cash position    *)
(* without the seller, unless the seller reported a failure first.         *)
(***************************************************************************)
DeliveredReachesTheBooks ==
    \A o \in Order :
        (AllShown(o) /\ Reported(o, {"delivered"}))
            ~> (receivable[o] = 1 \/ case[o].by = "seller")

Before(o, i) == {course[o][j] : j \in 1..(i - 1)}
Ending == Failure \cup {"returned", "delivered"}

(* An end the recovery commands accept (canonical-order-recovery.ts:758    *)
(* and :774, :859 to :866).  A return is accepted from anywhere on the     *)
(* road.  A failure or a refusal is accepted only from in_transit and      *)
(* out_for_delivery, in the order and in its parcel, so not from a pickup, *)
(* and not from a hub unless the parcel left it for the customer's door.   *)
EndsOnTheRoad(o, i) ==
    /\ Before(o, i) \cap Ending = {}
    /\ \/ /\ course[o][i] \in Failure
          /\ \/ "out_for_delivery" \in Before(o, i)
             \/ "in_transit" \in Before(o, i) /\ ~Reported(o, {"at_hub"})
       \/ /\ course[o][i] = "returned"
          /\ Before(o, i) \cap (InDelivery \cup {"at_hub"}) # {}

ComesBack(o) ==
    /\ ~Reported(o, {"pending", "delivered"})
    /\ \E i \in DOMAIN course[o] : EndsOnTheRoad(o, i)

(***************************************************************************)
(* A failure or refusal the carrier shows of a parcel in transit or out    *)
(* for delivery, and a return of a parcel anywhere on the road, opens a    *)
(* return case without the seller, when it is the first end of a history   *)
(* that neither tells a delivery nor says "pending" (the status the worker *)
(* does not ask for).  Other failures are refused on every pull and open   *)
(* no case: see FailureReachesTheOrder.                                    *)
(***************************************************************************)
ReturnReachesTheOrder ==
    \A o \in Order :
        (AllShown(o) /\ ComesBack(o)) ~> (case[o].state # "none")

(***************************************************************************)
(* "a parcel delivered or refused never updated the order" until someone   *)
(* pressed the button: any failure or refusal shown opens a return case.   *)
(* The code does not keep this of a parcel cancelled at its pickup or      *)
(* refused at a desk.                                                      *)
(***************************************************************************)
FailureReachesTheOrder ==
    \A o \in Order :
        (AllShown(o) /\ Reported(o, Failure)) ~> (case[o].state # "none")

(***************************************************************************)
(* Goods on their way back can always be received: receiving is the only   *)
(* way on for an open return case.                                         *)
(***************************************************************************)
OpenReturnIsReceivable ==
    \A o \in Order : case[o].state \in {"awaiting_return", "in_transit"} => CanReceive(o)

(***************************************************************************)
(* "The exception is already open. Record the carrier event without a      *)
(* second stock movement.": a return told of an order whose exception is   *)
(* open does not end the pull.                                             *)
(***************************************************************************)
OpenReturnIsRecorded ==
    \A s \in Syncer : \A i \in Oldest(s) :
        sync[s].pc = "aborted" /\ Told(s, i) = "returned" =>
            case[Now(s)].state = "none" \/ version[Now(s)] # sync[s].expected
=============================================================================
