--------------------------- MODULE CourierBooking ---------------------------
(***************************************************************************)
(* Courier bookings as durable external effects, src/lib/delivery.  A      *)
(* booking command leaves an outbox intent; drainers (the polling worker   *)
(* and the order route) claim intents under a lease, mark the effect       *)
(* started, call the provider and record what they heard.  What cannot be  *)
(* known is left to the seller's reconciliation; a terminal rejection      *)
(* gives the order back.                                                   *)
(*                                                                         *)
(* A command whose guard fails is rolled back and changes nothing, so only *)
(* committed commands are actions; the optimistic order version, which can *)
(* only add rejections, is left out.  Retry delays and the lease duration  *)
(* are left to nondeterminism: an intent is always due, a lease may expire.*)
(***************************************************************************)
EXTENDS Integers, Sequences, FiniteSets

CONSTANTS
    Order,         \* orders, each with at most one Delivery row
    Drainer,       \* concurrent executions of drainDueCourierBookings
    Poller,        \* those the worker's timer starts again and again
    Swallowing,    \* bookings with a provider whose adapter answers success: false to
                   \* an unknown outcome; the provider is part of the sealed payload
    NoRow,
    MaxAttempts,   \* MAX_BOOKING_ATTEMPTS
    RestoreBatch,  \* rows restoreTerminalKnownFailures looks at
    MaxGenerations, \* bound: bookings per order
    MaxExpiries,   \* bound: leases that expire
    MaxUnreadable, \* bound: intents whose sealed payload stops opening
    MaxCrashes     \* bound: process crashes

ASSUME BookingAssumption ==
    /\ IsFiniteSet(Drainer)
    /\ Poller \subseteq Drainer
    /\ MaxAttempts \in Nat \ {0}
    /\ RestoreBatch \in Nat \ {0}
    /\ MaxGenerations \in Nat \ {0}
    /\ MaxExpiries \in Nat
    /\ MaxUnreadable \in Nat
    /\ MaxCrashes \in Nat

\* The outbox intent of the n-th booking command of an order.
Row == Order \X (1..MaxGenerations)

ASSUME RowAssumption == NoRow \notin Row /\ Swallowing \subseteq Row

VARIABLES
    order,       \* [Order -> [phase, delivery]]: confirmed/ready/reserved, or gone
    delivery,    \* [Order -> [status, tracked]]
    intent,      \* [Row -> [status, outcome, attempts, lease, started, expired]]
    booked,      \* the rows in the order they were created
    restored,    \* rows whose terminal-recovery command is committed
    unreadable,  \* rows whose payload cannot be opened
    drainer,     \* [Drainer -> [pc, row, token, attempts, answer, batch]]
    parcels,     \* [Row -> Nat]: parcels the provider created for a booking
    misjudged,   \* rows whose outcome the seller attested wrongly, or too early
    expiries, crashes

vars == <<order, delivery, intent, booked, restored, unreadable, drainer,
          parcels, misjudged, expiries, crashes>>

Phases == {"ready", "cancelled", "shipped"}
IntentStatus == {"absent", "queued", "processing", "retrying", "succeeded",
                 "failed", "dead_letter"}
\* outcomeState, with the lastErrorCode that tells two known failures apart.
Outcomes == {"none", "rejected", "invalid", "ambiguous", "success",
             "manual_success", "manual_not_created"}
DeliveryStatus == {"absent", "booking_queued", "booking_retrying",
                   "booking_failed", "reconciliation_required", "created"}
Stages == {"idle", "sweeping", "draining", "claimed", "opened", "sending", "answered",
           "restoring"}
Answers == {"none", "success", "rejected", "unknown"}

\* A lease token is a new UUID: here, one no drainer still holds for the row.
NoLease == 0
Leases == 1..(Cardinality(Drainer) + 1)
FreshLease(r) == CHOOSE n \in Leases:
                   \A d \in Drainer: drainer[d].row = r => drainer[d].token # n

OrderOf(r) == r[1]
Generations(o) == {n \in 1..MaxGenerations: intent[<<o, n>>].status # "absent"}
Latest(o) == <<o, Cardinality(Generations(o))>>
Claimable(r) == intent[r].status \in {"queued", "retrying"}
AwaitsCourier(o) == order[o] = [phase |-> "ready", delivery |-> "pending"]
MayBeRebooked(o) == order[o] = [phase |-> "ready", delivery |-> "not_created"]

-----------------------------------------------------------------------------

Init ==
    /\ order = [o \in Order |-> [phase |-> "ready", delivery |-> "not_created"]]
    /\ delivery = [o \in Order |-> [status |-> "absent", tracked |-> FALSE]]
    /\ intent = [r \in Row |-> [status |-> "absent", outcome |-> "none", attempts |-> 0,
                                lease |-> NoLease, started |-> FALSE, expired |-> FALSE]]
    /\ booked = <<>>
    /\ restored = {}
    /\ unreadable = {}
    /\ drainer = [d \in Drainer |-> [pc |-> "idle", row |-> NoRow, token |-> NoLease,
                                     attempts |-> 0, answer |-> "none", batch |-> {}]]
    /\ parcels = [r \in Row |-> 0]
    /\ misjudged = {}
    /\ expiries = 0
    /\ crashes = 0

-----------------------------------------------------------------------------
(* The seller's commands *)

\* An existing delivery may be booked again only without a tracking number.
Reusable(o) ==
    \/ delivery[o].status = "absent"
    \/ ~delivery[o].tracked /\ delivery[o].status = "booking_failed"

\* queueCanonicalCourierBooking
QueueBooking(o) ==
    LET r == <<o, Cardinality(Generations(o)) + 1>> IN
    /\ MayBeRebooked(o)
    /\ Reusable(o)
    /\ r \in Row
    /\ order' = [order EXCEPT ![o].delivery = "pending"]
    /\ delivery' = [delivery EXCEPT ![o].status = "booking_queued"]
    /\ intent' = [intent EXCEPT ![r].status = "queued"]
    /\ booked' = Append(booked, r)
    /\ UNCHANGED <<restored, unreadable, drainer, parcels, misjudged, expiries, crashes>>

\* The latest intent of an order whose outcome is ambiguous.
Ambiguous(o, r) ==
    /\ OrderOf(r) = o
    /\ intent[r].status = "failed" /\ intent[r].outcome = "ambiguous"
    /\ \A n \in Generations(o): intent[<<o, n>>].outcome = "ambiguous" => n <= r[2]

\* reconcileCanonicalCourierBooking, confirm_created: the seller found a parcel of
\* the order at the provider and gives its tracking number; it may be one of an
\* earlier booking.
ConfirmCreated(o, r) ==
    /\ delivery[o].status = "reconciliation_required"
    /\ Ambiguous(o, r)
    /\ \E n \in Generations(o): parcels[<<o, n>>] > 0
    /\ delivery' = [delivery EXCEPT ![o].status = "created", ![o].tracked = TRUE]
    /\ intent' = [intent EXCEPT ![r].status = "succeeded", ![r].outcome = "manual_success"]
    /\ misjudged' = IF parcels[r] = 0 THEN misjudged \cup {r} ELSE misjudged
    /\ UNCHANGED <<order, booked, restored, unreadable, drainer, parcels, expiries, crashes>>

\* reconcileCanonicalCourierBooking, confirm_not_created.  The seller may be
\* wrong: a parcel exists, or a call that will create one is still running.
ConfirmNotCreated(o, r) ==
    /\ delivery[o].status = "reconciliation_required"
    /\ Ambiguous(o, r)
    /\ AwaitsCourier(o)
    /\ order' = [order EXCEPT ![o].delivery = "not_created"]
    /\ delivery' = [delivery EXCEPT ![o].status = "booking_failed"]
    /\ intent' = [intent EXCEPT ![r].status = "dead_letter",
                                ![r].outcome = "manual_not_created"]
    /\ misjudged' = IF \/ parcels[r] > 0
                      \/ \E d \in Drainer: drainer[d].pc = "sending" /\ drainer[d].row = r
                    THEN misjudged \cup {r} ELSE misjudged
    /\ UNCHANGED <<booked, restored, unreadable, drainer, parcels, expiries, crashes>>

\* canonical-order-recovery.ts, cancel: only an order without a courier request.
Cancel(o) ==
    /\ MayBeRebooked(o)
    /\ order' = [order EXCEPT ![o].phase = "cancelled"]
    /\ UNCHANGED <<delivery, intent, booked, restored, unreadable, drainer, parcels,
                   misjudged, expiries, crashes>>

\* The first provider event of a tracked delivery ships the order.
PickedUp(o) ==
    /\ AwaitsCourier(o)
    /\ delivery[o].tracked
    /\ order' = [order EXCEPT ![o].phase = "shipped"]
    /\ UNCHANGED <<delivery, intent, booked, restored, unreadable, drainer, parcels,
                   misjudged, expiries, crashes>>

-----------------------------------------------------------------------------
(* The drain: sweep, preflight, claim loop, restore *)

Expired(r) == intent[r].status = "processing" /\ intent[r].expired

\* recoverUnreadablePostEffectLeases
Swept(r) == r \in unreadable /\ Expired(r) /\ intent[r].started

\* preflightInvalidPayloads
Invalid(r) ==
    /\ r \in unreadable
    /\ \/ Claimable(r)
       \/ Expired(r) /\ ~intent[r].started

Released(i, outcome) ==
    [i EXCEPT !.lease = NoLease, !.expired = FALSE, !.outcome = outcome]

\* A drain starts, with its sweep and its preflight.
BeginDrain(d) ==
    /\ drainer[d].pc = "idle"
    /\ drainer' = [drainer EXCEPT ![d].pc = "sweeping", ![d].row = NoRow]
    /\ UNCHANGED <<order, delivery, intent, booked, restored, unreadable, parcels,
                   misjudged, expiries, crashes>>

\* A started effect whose lease ran out with an unreadable payload is ambiguous;
\* its delivery is found through the booking command.
Sweep(d, r) ==
    LET o == OrderOf(r) IN
    /\ drainer[d].pc = "sweeping"
    /\ Swept(r)
    /\ intent' = [intent EXCEPT ![r] = [Released(@, "ambiguous") EXCEPT !.status = "failed"]]
    /\ delivery' = IF delivery[o].tracked THEN delivery
         ELSE [delivery EXCEPT ![o].status = "reconciliation_required"]
    /\ UNCHANGED <<order, booked, restored, unreadable, drainer, parcels, misjudged,
                   expiries, crashes>>

\* deadLetterInvalidPayload: work that was never started and cannot be opened is
\* dead-lettered and its order given back, in one command.  The command reads the
\* row again and asks no more than that the effect did not start, so it also takes
\* a row that another drain claimed since the preflight saw it.
Unsent(r) ==
    /\ r \in unreadable
    /\ \/ Claimable(r)
       \/ intent[r].status = "processing" /\ ~intent[r].started

DeadLetter(d, r) ==
    LET o == OrderOf(r) IN
    /\ drainer[d].pc = "sweeping"
    /\ Unsent(r)
    /\ intent' = [intent EXCEPT ![r] = [Released(@, "invalid") EXCEPT !.status = "dead_letter"]]
    /\ delivery' = IF delivery[o].tracked THEN delivery
         ELSE [delivery EXCEPT ![o].status = "booking_failed"]
    /\ order' = IF AwaitsCourier(o) THEN [order EXCEPT ![o].delivery = "not_created"]
                 ELSE order
    /\ UNCHANGED <<booked, restored, unreadable, drainer, parcels, misjudged, expiries,
                   crashes>>

EndSweep(d) ==
    /\ drainer[d].pc = "sweeping"
    /\ ~\E r \in Row: Swept(r) \/ Invalid(r)
    /\ drainer' = [drainer EXCEPT ![d].pc = "draining"]
    /\ UNCHANGED <<order, delivery, intent, booked, restored, unreadable, parcels,
                   misjudged, expiries, crashes>>

\* recoverExpiredBookingLeases, one row: before the effect the attempt is given
\* back, after it the outcome is ambiguous; an unreadable payload names no delivery.
RecoverAsUnsent(d, r) ==
    /\ drainer[d].pc = "draining"
    /\ Expired(r)
    /\ intent' = [intent EXCEPT ![r] = [Released(@, "none") EXCEPT !.status = "retrying",
                     !.attempts = intent[r].attempts - 1, !.started = FALSE]]
    /\ UNCHANGED <<order, delivery, booked, restored, unreadable, drainer, parcels,
                   misjudged, expiries, crashes>>

RecoverUnsentOnly(d, r) == ~intent[r].started /\ RecoverAsUnsent(d, r)

Recover(d, r) ==
    LET o == OrderOf(r) IN
    /\ drainer[d].pc = "draining"
    /\ Expired(r)
    /\ IF intent[r].started
       THEN /\ intent' = [intent EXCEPT ![r] =
                 [Released(@, "ambiguous") EXCEPT !.status = "failed"]]
            /\ delivery' = IF r \in unreadable \/ delivery[o].tracked THEN delivery
                 ELSE [delivery EXCEPT ![o].status = "reconciliation_required"]
       ELSE /\ intent' = [intent EXCEPT ![r] =
                 [Released(@, "none") EXCEPT !.status = "retrying",
                                             !.attempts = intent[r].attempts - 1]]
            /\ UNCHANGED delivery
    /\ UNCHANGED <<order, booked, restored, unreadable, drainer, parcels, misjudged,
                   expiries, crashes>>

\* claimBookingEffect: the compare-and-set on status and attemptCount.
Claim(d, r) ==
    /\ drainer[d].pc = "draining"
    /\ Claimable(r)
    /\ intent' = [intent EXCEPT ![r] =
         [status |-> "processing", outcome |-> "none", attempts |-> @.attempts + 1,
          lease |-> FreshLease(r), started |-> FALSE, expired |-> FALSE]]
    /\ drainer' = [drainer EXCEPT ![d].pc = "claimed", ![d].row = r]
    /\ UNCHANGED <<order, delivery, booked, restored, unreadable, parcels, misjudged,
                   expiries, crashes>>

\* claimBookingEffect reads the row again, whoever leases it by now, and the
\* payload is opened; an unreadable one throws out of the drain.
Open(d) ==
    LET r == drainer[d].row IN
    /\ drainer[d].pc = "claimed"
    /\ drainer' = [drainer EXCEPT ![d] =
         IF r \in unreadable THEN [@ EXCEPT !.pc = "idle", !.row = NoRow]
         ELSE [@ EXCEPT !.pc = "opened", !.token = intent[r].lease,
                        !.attempts = intent[r].attempts]]
    /\ UNCHANGED <<order, delivery, intent, booked, restored, unreadable, parcels,
                   misjudged, expiries, crashes>>

\* The drainer is done with its row.
Recorded(d) ==
    drainer' = [drainer EXCEPT ![d] = [pc |-> "draining", row |-> @.row,
                  token |-> NoLease, attempts |-> 0, answer |-> "none", batch |-> {}]]

\* The compare-and-set every later write of a drainer starts with.
LeaseUnchecked(d) == intent[drainer[d].row].status # "absent"
LeaseHeld(d) ==
    LET r == drainer[d].row IN
    /\ intent[r].status = "processing"
    /\ intent[r].lease = drainer[d].token
    /\ drainer[d].token # NoLease

\* effectStartedAt is set once per lease, or the loop goes on without sending.
StartAgain(d) == LeaseHeld(d)
MayStart(d) == LeaseHeld(d) /\ ~intent[drainer[d].row].started

Start(d) ==
    LET r == drainer[d].row IN
    /\ drainer[d].pc = "opened"
    /\ IF MayStart(d)
       THEN /\ intent' = [intent EXCEPT ![r].started = TRUE]
            /\ drainer' = [drainer EXCEPT ![d].pc = "sending"]
       ELSE Recorded(d) /\ UNCHANGED intent
    /\ UNCHANGED <<order, delivery, booked, restored, unreadable, parcels, misjudged,
                   expiries, crashes>>

\* What createShipment of the provider's adapter answers when the provider
\* heard, or not, of the request: yalidine.ts and ecotrack.ts throw when the
\* outcome is unknown, maystro.ts and zr-express.ts answer success: false.
UnknownIsRejection(r, heard) == IF heard = "unknown" THEN "rejected" ELSE heard
Reported(r, heard) ==
    IF heard = "unknown" /\ r \in Swallowing THEN "rejected" ELSE heard

\* The provider call: the parcel is created or not, and the answer may be lost.
Send(d) ==
    LET r == drainer[d].row IN
    /\ drainer[d].pc = "sending"
    /\ \E created \in BOOLEAN, heard \in Answers \ {"none"}:
         /\ heard = "success" => created
         /\ heard = "rejected" => ~created
         /\ parcels' = [parcels EXCEPT ![r] = IF created THEN @ + 1 ELSE @]
         /\ drainer' = [drainer EXCEPT ![d].pc = "answered",
                          ![d].answer = Reported(r, heard)]
    /\ UNCHANGED <<order, delivery, intent, booked, restored, unreadable, misjudged,
                   expiries, crashes>>

\* commitBookingReceipt, in one command with the lease check.
Receipt(d) ==
    LET r == drainer[d].row
        o == OrderOf(r) IN
    /\ drainer[d].pc = "answered" /\ drainer[d].answer = "success"
    /\ LeaseHeld(d)
    /\ ~delivery[o].tracked
    /\ delivery' = [delivery EXCEPT ![o].status = "created", ![o].tracked = TRUE]
    /\ intent' = [intent EXCEPT ![r] = [Released(@, "success") EXCEPT !.status = "succeeded"]]
    /\ Recorded(d)
    /\ UNCHANGED <<order, booked, restored, unreadable, parcels, misjudged, expiries, crashes>>

\* The rejections a booking survives.
ExhaustedTooLate(attempts) == attempts > MaxAttempts
Exhausted(attempts) == attempts >= MaxAttempts

\* knownBookingFailure
Rejection(d) ==
    LET r == drainer[d].row
        o == OrderOf(r)
        exhausted == Exhausted(drainer[d].attempts) IN
    /\ drainer[d].pc = "answered" /\ drainer[d].answer = "rejected"
    /\ IF LeaseHeld(d)
       THEN /\ intent' = [intent EXCEPT ![r] = [Released(@, "rejected") EXCEPT
                 !.status  = IF exhausted THEN "dead_letter" ELSE "retrying",
                 !.started = exhausted]]
            /\ delivery' = IF delivery[o].tracked THEN delivery
                 ELSE [delivery EXCEPT ![o].status =
                         IF exhausted THEN "booking_failed" ELSE "booking_retrying"]
       ELSE UNCHANGED <<intent, delivery>>
    /\ Recorded(d)
    /\ UNCHANGED <<order, booked, restored, unreadable, parcels, misjudged, expiries, crashes>>

\* ambiguousBookingFailure: the call threw, or what was heard could not be recorded.
Doubt(d) ==
    LET r == drainer[d].row
        o == OrderOf(r) IN
    /\ drainer[d].pc = "answered"
    /\ IF LeaseHeld(d)
       THEN /\ intent' = [intent EXCEPT ![r] =
                 [Released(@, "ambiguous") EXCEPT !.status = "failed"]]
            /\ delivery' = IF delivery[o].tracked THEN delivery
                 ELSE [delivery EXCEPT ![o].status = "reconciliation_required"]
       ELSE UNCHANGED <<intent, delivery>>
    /\ Recorded(d)
    /\ UNCHANGED <<order, booked, restored, unreadable, parcels, misjudged, expiries, crashes>>

\* The oldest dead letters of provider rejections, restored already or not.
Terminal(r) == intent[r].status = "dead_letter" /\ intent[r].outcome = "rejected"
Older(r, s) == \E i, j \in DOMAIN booked: i < j /\ booked[i] = r /\ booked[j] = s
RestoreSelection ==
    {r \in Row: /\ Terminal(r)
               /\ Cardinality({s \in Row: Terminal(s) /\ Older(s, r)}) < RestoreBatch}

\* The claim loop ends: nothing is claimable, another drainer won the race for
\* the row, or the limit is reached.
EndLoop(d) ==
    /\ drainer[d].pc = "draining"
    /\ \/ drainer[d].row # NoRow
       \/ \E e \in Drainer \ {d}: drainer[e].pc # "idle"
       \/ ~\E r \in Row: Claimable(r) \/ Expired(r)
    /\ drainer' = [drainer EXCEPT ![d].pc = "restoring", ![d].row = NoRow,
                                  ![d].batch = RestoreSelection]
    /\ UNCHANGED <<order, delivery, intent, booked, restored, unreadable, parcels,
                   misjudged, expiries, crashes>>

\* restoreTerminalKnownFailures, one row; its idempotency key makes the recovery
\* of one effect happen once, however often the row is selected.  Its conflict,
\* an order that stopped waiting between the look and the command, cannot occur: a
\* rejection that was not given back holds its order (OrderInv of the proofs), and one
\* that was is replayed.
RestorableByStatus(r) == AwaitsCourier(OrderOf(r))
RestorableOnce(r) == AwaitsCourier(OrderOf(r)) /\ ~\E s \in restored: OrderOf(s) = OrderOf(r)
Restorable(r) == AwaitsCourier(OrderOf(r)) /\ r \notin restored

Restore(d) ==
    /\ drainer[d].pc = "restoring"
    /\ \E r \in drainer[d].batch:
         /\ ~\E s \in drainer[d].batch: Older(s, r)
         /\ drainer' = [drainer EXCEPT ![d].batch = @ \ {r}]
         /\ IF Restorable(r)
            THEN /\ order' = [order EXCEPT ![OrderOf(r)].delivery = "not_created"]
                 /\ restored' = restored \cup {r}
            ELSE UNCHANGED <<order, restored>>
    /\ UNCHANGED <<delivery, intent, booked, unreadable, parcels, misjudged, expiries, crashes>>

EndDrain(d) ==
    /\ drainer[d].pc = "restoring"
    /\ drainer[d].batch = {}
    /\ drainer' = [drainer EXCEPT ![d].pc = "idle"]
    /\ UNCHANGED <<order, delivery, intent, booked, restored, unreadable, parcels,
                   misjudged, expiries, crashes>>

-----------------------------------------------------------------------------
(* The environment *)

\* LEASE_MS passes while the effect is claimed: a slow call, a sleeping PC.
LeaseExpires(r) ==
    /\ intent[r].status = "processing" /\ ~intent[r].expired
    /\ \/ expiries < MaxExpiries
       \/ \A d \in Drainer: drainer[d].row # r   \* nobody works on it any more
    /\ intent' = [intent EXCEPT ![r].expired = TRUE]
    /\ expiries' = IF expiries < MaxExpiries THEN expiries + 1 ELSE expiries
    /\ UNCHANGED <<order, delivery, booked, restored, unreadable, drainer, parcels,
                   misjudged, crashes>>

PayloadLost(r) ==
    /\ intent[r].status # "absent" /\ r \notin unreadable
    /\ Cardinality(unreadable) < MaxUnreadable
    /\ unreadable' = unreadable \cup {r}
    /\ UNCHANGED <<order, delivery, intent, booked, restored, drainer, parcels,
                   misjudged, expiries, crashes>>

\* All drainers of the process stop where they are.
Crash ==
    /\ crashes < MaxCrashes
    /\ crashes' = crashes + 1
    /\ drainer' = [d \in Drainer |-> [pc |-> "idle", row |-> NoRow, token |-> NoLease,
                                      attempts |-> 0, answer |-> "none", batch |-> {}]]
    /\ UNCHANGED <<order, delivery, intent, booked, restored, unreadable, parcels,
                   misjudged, expiries>>

Seller(o) ==
    \/ QueueBooking(o)
    \/ \E r \in Row: ConfirmCreated(o, r) \/ ConfirmNotCreated(o, r)
    \/ Cancel(o) \/ PickedUp(o)

\* The steps of a drain that is under way.
Continue(d) ==
    \/ \E r \in Row: Sweep(d, r) \/ DeadLetter(d, r) \/ Recover(d, r) \/ Claim(d, r)
    \/ EndSweep(d) \/ Open(d) \/ Start(d) \/ Send(d)
    \/ Receipt(d) \/ Rejection(d) \/ Doubt(d)
    \/ EndLoop(d) \/ Restore(d) \/ EndDrain(d)

Next ==
    \/ \E o \in Order: Seller(o)
    \/ \E d \in Drainer: BeginDrain(d) \/ Continue(d)
    \/ \E r \in Row: LeaseExpires(r) \/ PayloadLost(r)
    \/ Crash

\* The event loop finishes a drain it began, the worker's timer starts the next
\* one, and time passes for leases nobody works under.
Fairness ==
    /\ \A d \in Drainer: WF_vars(Continue(d))
    /\ \A d \in Poller: WF_vars(BeginDrain(d))
    /\ \A r \in Row: WF_vars(LeaseExpires(r))

Spec == Init /\ [][Next]_vars
FairSpec == Spec /\ Fairness

-----------------------------------------------------------------------------
TypeOK ==
    /\ order \in [Order -> [phase: Phases, delivery: {"not_created", "pending"}]]
    /\ delivery \in [Order -> [status: DeliveryStatus, tracked: BOOLEAN]]
    /\ intent \in [Row -> [status: IntentStatus, outcome: Outcomes, attempts: 0..MaxAttempts,
                           lease: Leases \cup {NoLease}, started: BOOLEAN, expired: BOOLEAN]]
    /\ booked \in Seq(Row)
    /\ restored \subseteq Row
    /\ unreadable \subseteq Row
    /\ drainer \in [Drainer -> [pc: Stages, row: Row \cup {NoRow},
                                token: Leases \cup {NoLease}, attempts: 0..MaxAttempts,
                                answer: Answers, batch: SUBSET Row]]
    /\ parcels \in [Row -> Nat]
    /\ misjudged \subseteq Row
    /\ expiries \in Nat
    /\ crashes \in Nat

\* The retries, leases, crashes and rebookings of an order never make the
\* provider create a second parcel: only a seller who attests an outcome that is
\* not so, or while the call still runs, can.
NoDuplicateParcel ==
    /\ \A r \in Row: parcels[r] <= 1
    /\ \A r, s \in Row: /\ OrderOf(r) = OrderOf(s) /\ r # s
                       /\ parcels[r] > 0 /\ parcels[s] > 0
                       => r \in misjudged \/ s \in misjudged

\* An order that may be rebooked or was cancelled has no booking effect left that
\* could still reach the provider, and none whose outcome is open.
ReleasedIsQuiet ==
    \A r \in Row: (MayBeRebooked(OrderOf(r)) \/ order[OrderOf(r)].phase = "cancelled") =>
      /\ intent[r].status \in {"absent", "dead_letter"}
      /\ ~delivery[OrderOf(r)].tracked

\* A parcel the provider created is not forgotten: unless its seller attested
\* otherwise, its intent is under way, in doubt or succeeded, and its order waits
\* for the courier or is shipped.
NoForgottenParcel ==
    \A r \in Row: parcels[r] > 0 /\ r \notin misjudged =>
      /\ intent[r].status \in {"processing", "failed", "succeeded"}
      /\ AwaitsCourier(OrderOf(r)) \/ order[OrderOf(r)].phase = "shipped"

\* The delivery row tells the seller the state of the latest booking effect, but
\* for a doubt whose payload no longer opens (see DoubtIsReconcilable).
DeliveryMirrorsIntent ==
    \A r \in Row: intent[r].status # "absent" /\ r = Latest(OrderOf(r)) =>
      LET shown == delivery[OrderOf(r)].status IN
      CASE intent[r].status \in {"queued", "processing", "retrying"} ->
             shown \in {"booking_queued", "booking_retrying"}
        [] intent[r].status = "failed" ->
             shown = "reconciliation_required" \/ r \in unreadable
        [] intent[r].status = "dead_letter" -> shown = "booking_failed"
        [] OTHER -> shown = "created" /\ delivery[OrderOf(r)].tracked

\* At most one drainer can still record what it hears under a row's lease.
OneRecorder ==
    \A d, e \in Drainer:
      /\ drainer[d].pc \in {"sending", "answered"} /\ LeaseHeld(d)
      /\ drainer[e].pc \in {"sending", "answered"} /\ LeaseHeld(e)
      /\ drainer[d].row = drainer[e].row
      => d = e

\* An effect whose outcome is in doubt can be reconciled by the seller.
DoubtIsReconcilable ==
    \A r \in Row: intent[r].status = "failed" =>
      delivery[OrderOf(r)].status = "reconciliation_required"

\* Every queued booking is carried to an outcome.
BookingResolves ==
    \A r \in Row: intent[r].status = "queued" ~>
      intent[r].status \in {"succeeded", "failed", "dead_letter"}

\* A terminal provider rejection gives the order back to its seller.
RejectionReleases ==
    \A r \in Row: (r = Latest(OrderOf(r)) /\ Terminal(r) /\ AwaitsCourier(OrderOf(r)))
                    ~> ~AwaitsCourier(OrderOf(r))

\* What an order's seller is promised, read off its latest booking.
Standing(o) ==
    CASE order[o].phase # "ready" -> "gone"
      [] MayBeRebooked(o) -> "free"
      [] OTHER -> CASE intent[Latest(o)].status \in {"queued", "processing", "retrying"} -> "asked"
                    [] intent[Latest(o)].status = "failed" -> "doubt"
                    [] intent[Latest(o)].status = "dead_letter" -> "refused"
                    [] intent[Latest(o)].status = "succeeded" -> "booked"

\* The courier holds a parcel of the order that nobody denied.
HasParcel(o) ==
    \E n \in Generations(o): parcels[<<o, n>>] > 0 /\ <<o, n>> \notin misjudged

Promise == INSTANCE CourierPromise WITH
    standing <- [o \in Order |-> Standing(o)],
    parcel <- [o \in Order |-> HasParcel(o)]

\* Leases, retries, crashes and reconciliation implement one courier request per
\* order: every behaviour is one of CourierPromise.
KeepsPromise == Promise!Spec
=============================================================================
