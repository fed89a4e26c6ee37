------------------------ MODULE CourierBookingProofs ------------------------
(***************************************************************************)
(* What holds of courier bookings for any number of orders, drainers,      *)
(* providers, bookings, expiries and crashes.  Three layers, each          *)
(* inductive over the ones before it: LeaseInv ties a drainer to the row   *)
(* it works on, BookInv an order and its delivery to its latest booking,   *)
(* ParcelInv the parcels to both.                                          *)
(***************************************************************************)
EXTENDS CourierBooking, FiniteSetTheorems, TLAPS

Generation == 1..MaxGenerations
Present(r) == intent[r].status # "absent"
Calling(d) == drainer[d].pc \in {"sending", "answered"}
Working(d) == drainer[d].pc \in {"opened", "sending", "answered"}

-----------------------------------------------------------------------------
(* Layer 1: leases *)

\* The bookings of an order are numbered without gaps.
NoGaps ==
    \A o \in Order: \A n, m \in Generation:
      n < m /\ Present(<<o, m>>) => Present(<<o, n>>)

\* Attempts are left where a row may be claimed, and one is spent under a lease.
AttemptsLeft ==
    \A r \in Row:
      /\ ~Present(r) => intent[r].attempts = 0
      /\ Claimable(r) => intent[r].attempts < MaxAttempts
      /\ intent[r].status = "processing" => intent[r].attempts > 0

\* Who holds a row's lease knows its attempt, and calls only what was started.
LeaseKnows ==
    \A d \in Drainer:
      /\ drainer[d].pc = "claimed" \/ Working(d) => drainer[d].row \in Row
      /\ Working(d) /\ LeaseHeld(d) => drainer[d].attempts = intent[drainer[d].row].attempts
      /\ Calling(d) /\ LeaseHeld(d) => intent[drainer[d].row].started

LeaseInv == TypeOK /\ NoGaps /\ AttemptsLeft /\ LeaseKnows /\ OneRecorder

-----------------------------------------------------------------------------
(* Layer 2: orders, deliveries and their latest booking *)

Last(r) == Present(r) /\ \A n \in Generation: n > r[2] => ~Present(<<r[1], n>>)

\* Every booking but the last is dead-lettered, and its rejection given back.
ChainInv(o) ==
    \A n, m \in Generation: n < m /\ Present(<<o, m>>) =>
      /\ intent[<<o, n>>].status = "dead_letter"
      /\ Terminal(<<o, n>>) => <<o, n>> \in restored

NothingAsked(o) ==
    (\A n \in Generation: ~Present(<<o, n>>)) =>
      /\ delivery[o].status = "absent" /\ ~delivery[o].tracked
      /\ order[o].delivery = "not_created" /\ order[o].phase # "shipped"

Mirrored(o, r) ==
    LET shown == delivery[o].status IN
    CASE intent[r].status \in {"queued", "processing", "retrying"} ->
           /\ shown \in {"booking_queued", "booking_retrying"}
           /\ ~delivery[o].tracked
           /\ order[o].phase = "ready" /\ order[o].delivery = "pending"
      [] intent[r].status = "failed" ->
           /\ shown = "reconciliation_required" \/ r \in unreadable
           /\ ~delivery[o].tracked
           /\ order[o].phase = "ready" /\ order[o].delivery = "pending"
      [] intent[r].status = "dead_letter" ->
           /\ shown = "booking_failed"
           /\ ~delivery[o].tracked
           /\ order[o].phase # "shipped"
           /\ IF Terminal(r) /\ r \notin restored
              THEN order[o].phase = "ready" /\ order[o].delivery = "pending"
              ELSE order[o].delivery = "not_created"
      [] OTHER ->
           /\ shown = "created"
           /\ delivery[o].tracked
           /\ order[o].phase \in {"ready", "shipped"} /\ order[o].delivery = "pending"

OrderInv(o) ==
    /\ ChainInv(o)
    /\ NothingAsked(o)
    /\ \A r \in Row: r[1] = o /\ Last(r) => Mirrored(o, r)

BookInv ==
    /\ \A o \in Order: OrderInv(o)
    /\ \A d \in Drainer: \A r \in drainer[d].batch: Terminal(r)
    /\ \A r \in restored: Terminal(r)

-----------------------------------------------------------------------------
(* Layer 3: parcels *)

RowInv(r) ==
    /\ parcels[r] <= 1
    /\ intent[r].status \in {"absent", "queued", "retrying"} => parcels[r] = 0
    /\ intent[r].status = "processing" /\ ~intent[r].started => parcels[r] = 0
    /\ intent[r].status = "dead_letter" /\ r \notin misjudged => parcels[r] = 0
    /\ intent[r].status = "succeeded" /\ r \notin misjudged => parcels[r] > 0
    /\ r \in misjudged => intent[r].status \in {"dead_letter", "succeeded"}

CallInv(d) ==
    LET r == drainer[d].row IN
    /\ drainer[d].pc = "sending" =>
         /\ parcels[r] = 0
         /\ \/ LeaseHeld(d)
            \/ intent[r].status = "failed"
            \/ intent[r].status \in {"dead_letter", "succeeded"} /\ r \in misjudged
    /\ drainer[d].pc = "answered" =>
         /\ drainer[d].answer = "success" => parcels[r] > 0
         /\ drainer[d].answer = "rejected" /\ LeaseHeld(d) => parcels[r] = 0

OneCall ==
    \A d, e \in Drainer:
      /\ drainer[d].pc = "sending" /\ drainer[e].pc = "sending"
      /\ drainer[d].row = drainer[e].row
      => d = e

ParcelInv ==
    /\ \A r \in Row: RowInv(r)
    /\ \A d \in Drainer: CallInv(d)
    /\ OneCall

-----------------------------------------------------------------------------
(* Rows, leases and generations *)

Intents == [status: IntentStatus, outcome: Outcomes, attempts: 0..MaxAttempts,
            lease: Leases \cup {NoLease}, started: BOOLEAN, expired: BOOLEAN]
Drainers == [pc: Stages, row: Row \cup {NoRow}, token: Leases \cup {NoLease},
             attempts: 0..MaxAttempts, answer: Answers, batch: SUBSET Row]
Deliveries == [status: DeliveryStatus, tracked: BOOLEAN]
Orders == [phase: Phases, delivery: {"not_created", "pending"}]

\* TypeOK with its types named.
LEMMA Typed ==
    TypeOK <=>
      /\ order \in [Order -> Orders] /\ delivery \in [Order -> Deliveries]
      /\ intent \in [Row -> Intents] /\ booked \in Seq(Row)
      /\ restored \subseteq Row /\ unreadable \subseteq Row
      /\ drainer \in [Drainer -> Drainers] /\ parcels \in [Row -> Nat]
      /\ misjudged \subseteq Row /\ expiries \in Nat /\ crashes \in Nat
  BY DEF TypeOK, Orders, Deliveries, Intents, Drainers

LEMMA RowParts ==
    /\ \A r \in Row: r[1] \in Order /\ r[2] \in Generation /\ r = <<r[1], r[2]>>
    /\ \A o \in Order, n \in Generation: /\ <<o, n>> \in Row
                                         /\ <<o, n>>[1] = o /\ <<o, n>>[2] = n
    /\ NoRow \notin Row
  BY RowAssumption DEF Row, Generation

LEMMA LeaseNumbers == Leases \subseteq Nat \ {0} /\ NoLease \notin Leases
  <1>1. Cardinality(Drainer) \in Nat
    BY BookingAssumption, FS_CardinalityType
  <1> QED
    BY <1>1 DEF Leases, NoLease

\* There is one lease more than drainers, so one that none of them holds.
LEMMA Fresh ==
    ASSUME NEW r
    PROVE  /\ FreshLease(r) \in Leases
           /\ \A d \in Drainer: drainer[d].row = r => drainer[d].token # FreshLease(r)
<1> DEFINE Free(n) == \A d \in Drainer: drainer[d].row = r => drainer[d].token # n
<1>1. \E n \in Leases: Free(n)
  <2> SUFFICES ASSUME \A n \in Leases: ~Free(n) PROVE FALSE
    OBVIOUS
  <2> DEFINE f == [n \in Leases |-> CHOOSE d \in Drainer: drainer[d].row = r /\ drainer[d].token = n]
  <2>1. \A n \in Leases: f[n] \in Drainer /\ drainer[f[n]].token = n
    OBVIOUS
  <2>2. Cardinality(Drainer) \in Nat
    BY BookingAssumption, FS_CardinalityType
  <2>3. IsFiniteSet(Leases) /\ Cardinality(Leases) = Cardinality(Drainer) + 1
    BY <2>2, FS_Interval DEF Leases
  <2>4. f \in [Leases -> Drainer]
    BY <2>1
  <2> HIDE DEF f
  <2>5. \E x, y \in Leases: x # y /\ f[x] = f[y]
    <3>1. IsFiniteSet(Drainer) /\ Cardinality(Drainer) < Cardinality(Leases)
      BY <2>2, <2>3, BookingAssumption
    <3> QED
      BY <3>1, <2>3, <2>4, FS_PigeonHole
  <2> QED
    BY <2>1, <2>5
<1> QED
  BY <1>1 DEF FreshLease

\* The bookings of an order are the first so many.
LEMMA GenerationsCounted ==
    ASSUME NoGaps, NEW o \in Order
    PROVE  /\ Cardinality(Generations(o)) \in Nat
           /\ Generations(o) = 1..Cardinality(Generations(o))
<1> DEFINE G == Generations(o)
           k == Cardinality(G)
<1>1. MaxGenerations \in Nat
  BY BookingAssumption
<1>2. G \subseteq 1..MaxGenerations
  BY DEF Generations
<1>3. IsFiniteSet(G) /\ k \in Nat
  <2>1. IsFiniteSet(1..MaxGenerations)
    BY <1>1, FS_Interval
  <2>2. IsFiniteSet(G)
    BY <1>2, <2>1, FS_Subset
  <2> QED
    BY <2>2, FS_CardinalityType
<1>4. \A m \in G, n \in 1..MaxGenerations: n < m => n \in G
  BY <1>1 DEF NoGaps, Generation, Present, Generations
<1> HIDE DEF G
<1>5. ASSUME NEW m \in G PROVE m <= k
  <2>1. m \in Nat /\ 1..m \subseteq G
    BY <1>1, <1>2, <1>4
  <2>2. Cardinality(1..m) = m
    BY <2>1, <1>1, <1>2, FS_Interval
  <2> QED
    BY <2>1, <2>2, <1>3, FS_Subset
<1>6. ASSUME NEW m \in 1..k, m \notin G PROVE FALSE
  <2>1. G \subseteq 1..(m - 1)
    <3> SUFFICES ASSUME NEW x \in G, ~(x < m) PROVE FALSE
      BY <1>1, <1>2, <1>3
    <3>1. x # m /\ m < x /\ m \in 1..MaxGenerations
      BY <1>1, <1>2, <1>3, <1>6
    <3> QED
      BY <3>1, <1>4, <1>6
  <2>2. Cardinality(1..(m - 1)) = m - 1 /\ IsFiniteSet(1..(m - 1))
    <3>1. 1 \in Int /\ m - 1 \in Int /\ m \in Nat /\ m > 0
      BY <1>3
    <3>2. /\ IsFiniteSet(1..(m - 1))
          /\ Cardinality(1..(m - 1)) = IF 1 > m - 1 THEN 0 ELSE (m - 1) - 1 + 1
      BY <3>1, FS_Interval
    <3> QED
      BY <3>1, <3>2
  <2>3. k <= m - 1
    BY ZenonT(40), <2>1, <2>2, FS_Subset
  <2> QED
    BY <2>3, <1>3
<1>7. G = 1..k
  <2>1. G \subseteq 1..k
    BY <1>1, <1>2, <1>3, <1>5
  <2>2. 1..k \subseteq G
    BY <1>6
  <2> QED
    BY <2>1, <2>2
<1> QED
  BY <1>3, <1>7 DEF G

-----------------------------------------------------------------------------
(* LeaseInv is inductive *)

\* Rows under lease stay as they were, for the drainers that worked on them.
LeasesKept ==
    /\ \A s \in Row: intent'[s].status = "processing" =>
         /\ intent[s].status = "processing" /\ intent'[s].lease = intent[s].lease
         /\ intent'[s].attempts = intent[s].attempts
         /\ intent[s].started => intent'[s].started
    /\ \A e \in Drainer: drainer'[e].pc \in {"claimed", "opened", "sending", "answered"} =>
         /\ drainer'[e].row = drainer[e].row
         /\ drainer'[e].pc = "claimed" => drainer[e].pc = "claimed"
         /\ drainer'[e].pc = "opened" => drainer[e].pc = "opened"
         /\ drainer'[e].pc \in {"sending", "answered"} =>
              drainer[e].pc \in {"sending", "answered"}
         /\ drainer'[e].pc # "claimed" =>
              drainer'[e].token = drainer[e].token /\ drainer'[e].attempts = drainer[e].attempts

LEMMA KeptLeases ==
    ASSUME LeaseKnows, OneRecorder, LeasesKept
    PROVE  LeaseKnows' /\ OneRecorder'
<1>1. ASSUME NEW d \in Drainer, drainer'[d].pc = "claimed" \/ Working(d)'
      PROVE  drainer'[d].row = drainer[d].row /\ drainer'[d].row \in Row
  BY <1>1 DEF LeasesKept, LeaseKnows, Working
<1>2. ASSUME NEW d \in Drainer, Working(d)', LeaseHeld(d)'
      PROVE  /\ Working(d) /\ LeaseHeld(d) /\ (Calling(d)' => Calling(d))
             /\ intent'[drainer'[d].row].attempts = intent[drainer[d].row].attempts
             /\ drainer'[d].attempts = drainer[d].attempts
             /\ intent[drainer[d].row].started => intent'[drainer'[d].row].started
  BY <1>1, <1>2 DEF LeasesKept, Working, Calling, LeaseHeld
<1>3. \A d \in Drainer: Calling(d)' => Working(d)'
  BY DEF Calling, Working
<1>4. LeaseKnows'
  BY <1>1, <1>2, <1>3 DEF LeaseKnows
<1>5. OneRecorder'
  BY <1>1, <1>2, <1>3 DEF OneRecorder, Calling, Working
<1> QED
  BY <1>4, <1>5

\* Writing a booking that exists.
LEMMA RowWritten ==
    ASSUME NoGaps, AttemptsLeft, intent \in [Row -> Intents],
           NEW r \in Row, Present(r), NEW i \in Intents, i.status # "absent",
           i.status \in {"queued", "retrying"} => i.attempts < MaxAttempts,
           i.status = "processing" => i.attempts > 0,
           intent' = [intent EXCEPT ![r] = i]
    PROVE  intent' \in [Row -> Intents] /\ NoGaps' /\ AttemptsLeft'
<1>1. intent' \in [Row -> Intents]
  OBVIOUS
<1>2. \A s \in Row: Present(s)' <=> Present(s)
  BY DEF Present
<1>3. NoGaps'
  BY <1>2, RowParts DEF NoGaps
<1>4. AttemptsLeft'
  BY DEF AttemptsLeft, Claimable, Present
<1> QED
  BY <1>1, <1>3, <1>4

\* The same with the row no longer leased, whatever the drainers that leave off do.
LEMMA RowReleased ==
    ASSUME LeaseInv, NEW r \in Row, Present(r), NEW i \in Intents,
           i.status \in {"retrying", "succeeded", "failed", "dead_letter"},
           i.status = "retrying" => i.attempts < MaxAttempts,
           intent' = [intent EXCEPT ![r] = i],
           \A e \in Drainer: drainer'[e] = drainer[e] \/ drainer'[e].pc = "draining"
    PROVE  intent' \in [Row -> Intents] /\ NoGaps' /\ AttemptsLeft' /\ LeaseKnows' /\ OneRecorder'
<1>1. intent \in [Row -> Intents]
  BY Typed DEF LeaseInv
<1>2. intent' \in [Row -> Intents] /\ NoGaps' /\ AttemptsLeft'
  BY <1>1, RowWritten DEF LeaseInv
<1>3. LeasesKept
  BY <1>1 DEF LeasesKept
<1> QED
  BY <1>2, <1>3, KeptLeases DEF LeaseInv

\* A drainer that moves on, without touching the bookings.
LEMMA DrainerMoves ==
    ASSUME LeaseInv, UNCHANGED intent,
           \A e \in Drainer: drainer'[e] = drainer[e]
             \/ drainer'[e].pc \in {"idle", "sweeping", "draining", "restoring"}
    PROVE  NoGaps' /\ AttemptsLeft' /\ LeaseKnows' /\ OneRecorder'
<1>1. LeasesKept
  BY DEF LeasesKept
<1>2. NoGaps' /\ AttemptsLeft'
  BY DEF LeaseInv, NoGaps, AttemptsLeft, Present, Claimable
<1> QED
  BY <1>1, <1>2, KeptLeases DEF LeaseInv

LEMMA InitLease == Init => LeaseInv
<1> SUFFICES ASSUME Init PROVE LeaseInv
  OBVIOUS
<1>1. TypeOK
  <2>1. order \in [Order -> Orders]
    BY DEF Init, Orders, Phases
  <2>2. delivery \in [Order -> Deliveries]
    BY DEF Init, Deliveries, DeliveryStatus
  <2>3. intent \in [Row -> Intents]
    BY BookingAssumption DEF Init, Intents, IntentStatus, Outcomes
  <2>4. drainer \in [Drainer -> Drainers]
    BY BookingAssumption DEF Init, Drainers, Stages, Answers
  <2>5. /\ booked \in Seq(Row) /\ restored \subseteq Row /\ unreadable \subseteq Row
        /\ parcels \in [Row -> Nat] /\ misjudged \subseteq Row
        /\ expiries \in Nat /\ crashes \in Nat
    BY DEF Init
  <2> QED
    BY <2>1, <2>2, <2>3, <2>4, <2>5, Typed
<1>2. NoGaps /\ AttemptsLeft
  BY RowParts DEF Init, NoGaps, AttemptsLeft, Present, Claimable
<1>3. LeaseKnows /\ OneRecorder
  BY DEF Init, LeaseKnows, OneRecorder, Working, Calling
<1> QED
  BY <1>1, <1>2, <1>3 DEF LeaseInv

\* A new booking takes the next number of its order.
LEMMA QueueLease ==
    ASSUME LeaseInv, NEW o \in Order, QueueBooking(o)
    PROVE  LeaseInv'
<1> DEFINE k == Cardinality(Generations(o))
           r == <<o, k + 1>>
<1>1. /\ order \in [Order -> Orders] /\ delivery \in [Order -> Deliveries]
      /\ intent \in [Row -> Intents] /\ booked \in Seq(Row)
  BY Typed DEF LeaseInv
<1>2. k \in Nat /\ Generations(o) = 1..k
  BY GenerationsCounted DEF LeaseInv
<1> HIDE DEF k
<1>3. /\ r \in Row
      /\ intent' = [intent EXCEPT ![r].status = "queued"]
      /\ order' = [order EXCEPT ![o].delivery = "pending"]
      /\ delivery' = [delivery EXCEPT ![o].status = "booking_queued"]
      /\ booked' = Append(booked, r)
      /\ UNCHANGED <<restored, unreadable, drainer, parcels, misjudged, expiries, crashes>>
  BY DEF QueueBooking, k
<1>4. k + 1 \in Generation /\ ~Present(r)
  <2>1. k + 1 \in Generation
    BY <1>3, RowParts DEF r
  <2> QED
    BY <1>2, <2>1 DEF Generations, Present, Generation
<1>5. \A n \in 1..k: Present(<<o, n>>)
  BY <1>2 DEF Generations, Present
<1> HIDE DEF r
<1>6. TypeOK'
  <2>1. order' \in [Order -> Orders]
    BY <1>1, <1>3 DEF Orders
  <2>2. delivery' \in [Order -> Deliveries]
    BY <1>1, <1>3 DEF Deliveries, DeliveryStatus
  <2>3. intent' \in [Row -> Intents]
    BY ZenonT(40), <1>1, <1>3 DEF Intents, IntentStatus
  <2>4. booked' \in Seq(Row)
    BY <1>1, <1>3
  <2> QED
    BY <2>1, <2>2, <2>3, <2>4, <1>3 DEF LeaseInv, TypeOK, Orders, Deliveries, Intents
<1>7. NoGaps'
  <2> SUFFICES ASSUME NEW q \in Order, NEW n \in Generation, NEW m \in Generation,
                      n < m, Present(<<q, m>>)'
               PROVE  Present(<<q, n>>)'
    BY DEF NoGaps
  <2>1. <<q, n>> \in Row /\ <<q, m>> \in Row
    BY RowParts
  <2>2. CASE <<q, m>> = r
    <3>1. q = o /\ m = k + 1 /\ n \in 1..k
      BY <2>2, <1>2 DEF r, Generation
    <3> QED
      BY <3>1, <1>5, <2>1, <1>3, <1>1, <1>4 DEF Present
  <2>3. CASE <<q, m>> # r
    BY <2>1, <2>3, <1>1, <1>3 DEF Present, LeaseInv, NoGaps
  <2> QED
    BY <2>2, <2>3
<1>8. AttemptsLeft'
  BY <1>1, <1>3, <1>4, BookingAssumption DEF LeaseInv, AttemptsLeft, Present, Claimable
<1>9. LeasesKept
  BY <1>1, <1>3, <1>4 DEF LeasesKept
<1> QED
  BY <1>6, <1>7, <1>8, <1>9, KeptLeases DEF LeaseInv

LEMMA ConfirmLease ==
    ASSUME LeaseInv, NEW o \in Order, NEW r \in Row,
           ConfirmCreated(o, r) \/ ConfirmNotCreated(o, r)
    PROVE  LeaseInv'
<1> DEFINE i == intent'[r]
<1>1. /\ order \in [Order -> Orders] /\ delivery \in [Order -> Deliveries]
      /\ intent \in [Row -> Intents] /\ misjudged \subseteq Row
  BY Typed DEF LeaseInv
<1>2. intent' = [intent EXCEPT ![r] = i] /\ Present(r)
      /\ i \in Intents /\ i.status \in {"succeeded", "dead_letter"}
  BY <1>1 DEF ConfirmCreated, ConfirmNotCreated, Ambiguous, Present, Intents, IntentStatus, Outcomes
<1> HIDE DEF i
<1>3. UNCHANGED drainer
  BY DEF ConfirmCreated, ConfirmNotCreated
<1>4. intent' \in [Row -> Intents] /\ NoGaps' /\ AttemptsLeft' /\ LeaseKnows' /\ OneRecorder'
  BY <1>2, <1>3, RowReleased
<1>5. order' \in [Order -> Orders] /\ delivery' \in [Order -> Deliveries]
  <2>1. CASE ConfirmCreated(o, r)
    BY <1>1, <2>1 DEF ConfirmCreated, Deliveries, DeliveryStatus
  <2>2. CASE ConfirmNotCreated(o, r)
    BY <1>1, <2>2 DEF ConfirmNotCreated, Orders, Deliveries, DeliveryStatus
  <2> QED
    BY <2>1, <2>2
<1>6. misjudged' \subseteq Row
  BY <1>1 DEF ConfirmCreated, ConfirmNotCreated
<1>7. UNCHANGED <<booked, restored, unreadable, drainer, parcels, expiries, crashes>>
  BY DEF ConfirmCreated, ConfirmNotCreated
<1>8. TypeOK'
  BY <1>4, <1>5, <1>6, <1>7 DEF LeaseInv, TypeOK, Orders, Deliveries, Intents
<1> QED
  BY <1>4, <1>8 DEF LeaseInv

LEMMA LeaveLease ==
    ASSUME LeaseInv, NEW o \in Order, Cancel(o) \/ PickedUp(o)
    PROVE  LeaseInv'
<1>1. order \in [Order -> Orders]
  BY Typed DEF LeaseInv
<1>2. order' \in [Order -> Orders]
  BY <1>1 DEF Cancel, PickedUp, Orders, Phases
<1>3. UNCHANGED <<delivery, intent, booked, restored, unreadable, drainer, parcels,
                  misjudged, expiries, crashes>>
  BY DEF Cancel, PickedUp
<1>4. TypeOK'
  BY <1>2, <1>3 DEF LeaseInv, TypeOK, Orders
<1>5. NoGaps' /\ AttemptsLeft' /\ LeaseKnows' /\ OneRecorder'
  BY <1>3, DrainerMoves
<1> QED
  BY <1>4, <1>5 DEF LeaseInv

\* The drainer steps that touch no booking.
LEMMA MoveLease ==
    ASSUME LeaseInv, NEW d \in Drainer,
           BeginDrain(d) \/ EndSweep(d) \/ EndLoop(d) \/ Restore(d) \/ EndDrain(d)
    PROVE  LeaseInv'
<1>1. /\ drainer \in [Drainer -> Drainers] /\ order \in [Order -> Orders]
      /\ restored \subseteq Row
  BY Typed DEF LeaseInv
<1>2. UNCHANGED intent /\ \A e \in Drainer: drainer'[e] = drainer[e]
             \/ drainer'[e].pc \in {"idle", "sweeping", "draining", "restoring"}
  BY <1>1 DEF BeginDrain, EndSweep, EndLoop, Restore, EndDrain, Drainers
<1>3. NoGaps' /\ AttemptsLeft' /\ LeaseKnows' /\ OneRecorder'
  BY <1>2, DrainerMoves
<1>4. /\ drainer' \in [Drainer -> Drainers] /\ order' \in [Order -> Orders]
      /\ restored' \subseteq Row
  <2>1. CASE BeginDrain(d) \/ EndSweep(d) \/ EndDrain(d)
    BY <1>1, <2>1 DEF BeginDrain, EndSweep, EndDrain, Drainers, Stages
  <2>2. CASE EndLoop(d)
    <3>1. RestoreSelection \subseteq Row
      BY DEF RestoreSelection
    <3> QED
      <4>1. drainer' = [drainer EXCEPT ![d] = [@ EXCEPT !.pc = "restoring", !.row = NoRow,
                                                     !.batch = RestoreSelection]]
        BY <2>2 DEF EndLoop
      <4>2. UNCHANGED <<order, restored>>
        BY <2>2 DEF EndLoop
      <4> HIDE DEF RestoreSelection
      <4>3. [drainer[d] EXCEPT !.pc = "restoring", !.row = NoRow, !.batch = RestoreSelection]
              \in Drainers
        BY <1>1, <3>1 DEF Drainers, Stages
      <4> QED
        BY <1>1, <4>1, <4>2, <4>3
  <2>3. CASE Restore(d)
    <3>1. PICK r \in drainer[d].batch:
            /\ drainer' = [drainer EXCEPT ![d].batch = @ \ {r}]
            /\ IF Restorable(r)
               THEN /\ order' = [order EXCEPT ![OrderOf(r)].delivery = "not_created"]
                    /\ restored' = restored \cup {r}
               ELSE UNCHANGED <<order, restored>>
      BY <2>3 DEF Restore
    <3>2. r \in Row
      BY <1>1 DEF Drainers
    <3> QED
      BY SMTT(40), <1>1, <3>1, <3>2 DEF Drainers, Orders
  <2> QED
    BY <2>1, <2>2, <2>3
<1>5. UNCHANGED <<delivery, intent, booked, unreadable, parcels, misjudged, expiries, crashes>>
  BY DEF BeginDrain, EndSweep, EndLoop, Restore, EndDrain
<1>6. TypeOK'
  BY <1>4, <1>5 DEF LeaseInv, TypeOK, Orders, Drainers
<1> QED
  BY <1>3, <1>6 DEF LeaseInv

LEMMA CrashLease == ASSUME LeaseInv, Crash PROVE LeaseInv'
<1>1. UNCHANGED intent /\ \A e \in Drainer: drainer'[e].pc = "idle"
  BY DEF Crash
<1>2. NoGaps' /\ AttemptsLeft' /\ LeaseKnows' /\ OneRecorder'
  BY <1>1, DrainerMoves
<1>3. TypeOK'
  <2>1. drainer' \in [Drainer -> Drainers]
    BY BookingAssumption DEF Crash, Drainers, Stages, Answers
  <2> QED
    BY <2>1 DEF Crash, LeaseInv, TypeOK, Drainers
<1> QED
  BY <1>2, <1>3 DEF LeaseInv

\* The sweeps and the recovery take a lease away, from a row that has one.
LEMMA SweepLease ==
    ASSUME LeaseInv, NEW d \in Drainer, NEW r \in Row,
           Sweep(d, r) \/ DeadLetter(d, r) \/ Recover(d, r)
    PROVE  LeaseInv'
<1> DEFINE i == intent'[r]
           o == OrderOf(r)
<1>1. /\ order \in [Order -> Orders] /\ delivery \in [Order -> Deliveries]
      /\ intent \in [Row -> Intents] /\ o \in Order
  BY Typed, RowParts DEF LeaseInv, OrderOf
<1>2. /\ intent' = [intent EXCEPT ![r] = i] /\ Present(r)
      /\ i \in Intents /\ i.status \in {"retrying", "failed", "dead_letter"}
      /\ i.status = "retrying" => i.attempts < MaxAttempts
  <2>1. CASE Sweep(d, r)
    BY <1>1, <2>1 DEF Sweep, Swept, Expired, Released, Present, Intents, IntentStatus, Outcomes
  <2>2. CASE DeadLetter(d, r)
    BY <1>1, <2>2 DEF DeadLetter, Unsent, Claimable, Expired, Released, Present, Intents,
         IntentStatus, Outcomes
  <2>3. CASE Recover(d, r)
    <3>1. intent[r].attempts \in 1..MaxAttempts
      BY <1>1, <2>3, BookingAssumption DEF Recover, Expired, LeaseInv, AttemptsLeft, Intents
    <3>2. Present(r)
      BY <2>3 DEF Recover, Expired, Present
    <3>3. CASE intent[r].started
      <4>1. intent' = [intent EXCEPT ![r] = [Released(intent[r], "ambiguous")
                                               EXCEPT !.status = "failed"]]
        BY <2>3, <3>3 DEF Recover
      <4> QED
        BY ZenonT(40), <1>1, <3>2, <4>1 DEF Released, Intents, IntentStatus, Outcomes
    <3>4. CASE ~intent[r].started
      <4>1. intent' = [intent EXCEPT ![r] = [Released(intent[r], "none") EXCEPT
                         !.status = "retrying", !.attempts = intent[r].attempts - 1]]
        BY <2>3, <3>4 DEF Recover
      <4>2. intent[r].attempts - 1 \in 0..MaxAttempts /\ intent[r].attempts - 1 < MaxAttempts
        BY <3>1, BookingAssumption
      <4> QED
        BY ZenonT(40), <1>1, <3>2, <4>1, <4>2 DEF Released, Intents, IntentStatus, Outcomes
    <3> QED
      BY <3>3, <3>4
  <2> QED
    BY <2>1, <2>2, <2>3
<1> HIDE DEF i
<1>3. UNCHANGED <<booked, restored, unreadable, drainer, parcels, misjudged, expiries, crashes>>
  BY DEF Sweep, DeadLetter, Recover
<1>4. intent' \in [Row -> Intents] /\ NoGaps' /\ AttemptsLeft' /\ LeaseKnows' /\ OneRecorder'
  BY <1>2, <1>3, RowReleased
<1>5. order' \in [Order -> Orders] /\ delivery' \in [Order -> Deliveries]
  <2>1. \/ order' = order
        \/ order' = [order EXCEPT ![o] = [order[o] EXCEPT !.delivery = "not_created"]]
    BY DEF Sweep, DeadLetter, Recover
  <2>2. \/ delivery' = delivery
        \/ \E s \in {"booking_failed", "reconciliation_required"}:
             delivery' = [delivery EXCEPT ![o] = [delivery[o] EXCEPT !.status = s]]
    BY DEF Sweep, DeadLetter, Recover
  <2>3. [order[o] EXCEPT !.delivery = "not_created"] \in Orders
    BY <1>1 DEF Orders
  <2>4. \A s \in {"booking_failed", "reconciliation_required"}:
          [delivery[o] EXCEPT !.status = s] \in Deliveries
    BY <1>1 DEF Deliveries, DeliveryStatus
  <2>5. order' \in [Order -> Orders]
    BY <1>1, <2>1, <2>3
  <2> QED
    BY <1>1, <2>2, <2>4, <2>5
<1>6. TypeOK'
  BY <1>3, <1>4, <1>5 DEF LeaseInv, TypeOK, Orders, Deliveries, Intents
<1> QED
  BY <1>4, <1>6 DEF LeaseInv

\* A claim takes the row under a lease nobody still holds.
LEMMA ClaimLease ==
    ASSUME LeaseInv, NEW d \in Drainer, NEW r \in Row, Claim(d, r)
    PROVE  LeaseInv'
<1> DEFINE n == FreshLease(r)
           i == [status |-> "processing", outcome |-> "none",
                 attempts |-> intent[r].attempts + 1, lease |-> n,
                 started |-> FALSE, expired |-> FALSE]
<1>1. intent \in [Row -> Intents] /\ drainer \in [Drainer -> Drainers]
  BY Typed DEF LeaseInv
<1>2. n \in Leases /\ \A e \in Drainer: drainer[e].row = r => drainer[e].token # n
  BY Fresh
<1> HIDE DEF n
<1>3. /\ drainer[d].pc = "draining" /\ Claimable(r)
      /\ intent' = [intent EXCEPT ![r] = i]
      /\ drainer' = [drainer EXCEPT ![d].pc = "claimed", ![d].row = r]
      /\ UNCHANGED <<order, delivery, booked, restored, unreadable, parcels,
                     misjudged, expiries, crashes>>
  BY DEF Claim, n
<1>4. intent[r].attempts \in 0..(MaxAttempts - 1) /\ Present(r)
  BY <1>1, <1>3, BookingAssumption DEF LeaseInv, AttemptsLeft, Claimable, Present, Intents
<1>5. /\ i \in Intents /\ i.status = "processing" /\ i.attempts > 0 /\ i.lease = n
  BY <1>2, <1>4, BookingAssumption DEF Intents, IntentStatus, Outcomes
<1> HIDE DEF i
<1>6. intent' \in [Row -> Intents] /\ NoGaps' /\ AttemptsLeft'
  BY <1>1, <1>3, <1>4, <1>5, RowWritten DEF LeaseInv
<1>7. drainer' \in [Drainer -> Drainers]
  <2> DEFINE x == [drainer[d] EXCEPT !.pc = "claimed", !.row = r]
  <2>1. x \in Drainers
    BY <1>1 DEF Drainers, Stages
  <2>2. drainer' = [drainer EXCEPT ![d] = x]
    BY <1>3
  <2> HIDE DEF x
  <2> QED
    BY <1>1, <2>1, <2>2
<1>8. TypeOK'
  BY <1>3, <1>6, <1>7 DEF LeaseInv, TypeOK, Intents, Drainers
<1>9. \A e \in Drainer: Working(e)' => e # d /\ drainer'[e] = drainer[e] /\ Working(e)
  BY <1>1, <1>3 DEF Working, Drainers
<1>10. \A e \in Drainer: Working(e)' /\ LeaseHeld(e)' =>
          /\ LeaseHeld(e) /\ drainer[e].row # r
          /\ intent'[drainer[e].row] = intent[drainer[e].row]
  BY <1>1, <1>2, <1>3, <1>5, <1>9 DEF LeaseHeld, LeaseInv, LeaseKnows
<1>11. LeaseKnows'
  BY <1>1, <1>3, <1>9, <1>10 DEF LeaseInv, LeaseKnows, Calling, Working, Drainers
<1>12. OneRecorder'
  BY <1>9, <1>10 DEF LeaseInv, OneRecorder, Working
<1> QED
  BY <1>6, <1>8, <1>11, <1>12 DEF LeaseInv

\* A drainer that opens its payload reads the lease the row has by now.
LEMMA OpenLease ==
    ASSUME LeaseInv, NEW d \in Drainer, Open(d)
    PROVE  LeaseInv'
<1> DEFINE r == drainer[d].row
           x == [drainer[d] EXCEPT !.pc = "opened", !.token = intent[r].lease,
                                   !.attempts = intent[r].attempts]
<1>1. intent \in [Row -> Intents] /\ drainer \in [Drainer -> Drainers]
  BY Typed DEF LeaseInv
<1>2. UNCHANGED <<order, delivery, intent, booked, restored, unreadable, parcels,
                  misjudged, expiries, crashes>>
  BY DEF Open
<1>3. r \in Row
  BY DEF Open, LeaseInv, LeaseKnows
<1>4. CASE r \in unreadable
  <2>1. drainer' = [drainer EXCEPT ![d] = [drainer[d] EXCEPT !.pc = "idle", !.row = NoRow]]
    BY <1>4 DEF Open
  <2>2. drainer' \in [Drainer -> Drainers] /\ drainer'[d].pc = "idle"
    BY ZenonT(40), <1>1, <2>1 DEF Drainers, Stages
  <2>3. NoGaps' /\ AttemptsLeft' /\ LeaseKnows' /\ OneRecorder'
    BY <1>1, <1>2, <2>1, <2>2, DrainerMoves
  <2>4. TypeOK'
    BY <1>2, <2>2 DEF LeaseInv, TypeOK, Drainers
  <2> QED
    BY <2>3, <2>4 DEF LeaseInv
<1>5. CASE r \notin unreadable
  <2>1. drainer' = [drainer EXCEPT ![d] = x]
    BY <1>5 DEF Open
  <2>2. /\ x \in Drainers /\ x.pc = "opened" /\ x.row = r /\ x.token = intent[r].lease
        /\ x.attempts = intent[r].attempts
    BY <1>1, <1>3 DEF Drainers, Stages, Intents
  <2> HIDE DEF x
  <2>3. TypeOK'
    BY <1>1, <1>2, <2>1, <2>2 DEF LeaseInv, TypeOK, Drainers
  <2>4. NoGaps' /\ AttemptsLeft'
    BY <1>2 DEF LeaseInv, NoGaps, AttemptsLeft, Present, Claimable
  <2>5. \A e \in Drainer \ {d}: drainer'[e] = drainer[e]
    BY <1>1, <2>1
  <2>6. drainer'[d] = x
    BY <1>1, <2>1
  <2> HIDE DEF r
  <2>7. LeaseKnows'
    BY <1>2, <1>3, <2>2, <2>5, <2>6 DEF LeaseInv, LeaseKnows, Calling, Working, LeaseHeld
  <2>8. OneRecorder'
    BY <1>2, <2>2, <2>5, <2>6 DEF LeaseInv, OneRecorder, LeaseHeld
  <2> QED
    BY <2>3, <2>4, <2>7, <2>8 DEF LeaseInv
<1> QED
  BY <1>4, <1>5

\* What a drainer is once it is done with a row.
LEMMA RecordedMoves ==
    ASSUME drainer \in [Drainer -> Drainers], NEW d \in Drainer, Recorded(d)
    PROVE  /\ drainer' \in [Drainer -> Drainers]
           /\ drainer'[d].pc = "draining" /\ drainer'[d].batch = {}
           /\ \A e \in Drainer: e # d => drainer'[e] = drainer[e]
           /\ \A e \in Drainer: drainer'[e] = drainer[e] \/ drainer'[e].pc = "draining"
<1> DEFINE x == [pc |-> "draining", row |-> drainer[d].row, token |-> NoLease, attempts |-> 0,
                 answer |-> "none", batch |-> {}]
<1>1. drainer' = [drainer EXCEPT ![d] = x]
  BY DEF Recorded
<1>2. x \in Drainers /\ x.pc = "draining" /\ x.batch = {}
  BY BookingAssumption DEF Drainers, Stages, Answers
<1> HIDE DEF x
<1> QED
  BY <1>1, <1>2

\* A start is the first and only one of its lease.
LEMMA StartLease ==
    ASSUME LeaseInv, NEW d \in Drainer, Start(d)
    PROVE  LeaseInv'
<1> DEFINE r == drainer[d].row
<1>1. intent \in [Row -> Intents] /\ drainer \in [Drainer -> Drainers]
  BY Typed DEF LeaseInv
<1>2. UNCHANGED <<order, delivery, booked, restored, unreadable, parcels, misjudged,
                  expiries, crashes>>
  BY DEF Start
<1>3. r \in Row
  BY DEF Start, LeaseInv, LeaseKnows, Working
<1>4. CASE ~MayStart(d)
  <2>1. Recorded(d) /\ UNCHANGED intent
    BY <1>4 DEF Start
  <2>2. NoGaps' /\ AttemptsLeft' /\ LeaseKnows' /\ OneRecorder'
    BY <1>1, <2>1, RecordedMoves, DrainerMoves
  <2>3. TypeOK'
    BY <1>1, <1>2, <2>1, RecordedMoves DEF LeaseInv, TypeOK, Drainers
  <2> QED
    BY <2>2, <2>3 DEF LeaseInv
<1>5. CASE MayStart(d)
  <2>1. /\ drainer[d].pc = "opened" /\ LeaseHeld(d) /\ ~intent[r].started
        /\ intent[r].status = "processing"
        /\ intent' = [intent EXCEPT ![r].started = TRUE]
        /\ drainer' = [drainer EXCEPT ![d].pc = "sending"]
    BY <1>5 DEF Start, MayStart, LeaseHeld
  <2> HIDE DEF r
  <2>2. /\ \A s \in Row: /\ intent'[s].status = intent[s].status
                         /\ intent'[s].attempts = intent[s].attempts
                         /\ intent'[s].lease = intent[s].lease
                         /\ s # r => intent'[s] = intent[s]
        /\ intent'[r].started
        /\ \A e \in Drainer: /\ drainer'[e].row = drainer[e].row
                             /\ drainer'[e].token = drainer[e].token
                             /\ drainer'[e].attempts = drainer[e].attempts
                             /\ e # d => drainer'[e] = drainer[e]
        /\ drainer'[d].pc = "sending"
    BY <1>1, <1>3, <2>1 DEF Intents, Drainers
  <2>3. TypeOK'
    <3>1. intent' \in [Row -> Intents] /\ drainer' \in [Drainer -> Drainers]
      <4>1. intent' \in [Row -> Intents]
        BY <1>1, <1>3, <2>1 DEF Intents
      <4>2. drainer' \in [Drainer -> Drainers]
        BY <1>1, <2>1 DEF Drainers, Stages
      <4> QED
        BY <4>1, <4>2
    <3> QED
      BY <1>2, <3>1 DEF LeaseInv, TypeOK, Intents, Drainers
  <2>4. NoGaps' /\ AttemptsLeft'
    BY <2>2, RowParts DEF LeaseInv, NoGaps, AttemptsLeft, Present, Claimable
  <2>5. ASSUME NEW e \in Drainer, drainer[e].row \in Row PROVE LeaseHeld(e)' <=> LeaseHeld(e)
    BY <2>2, <2>5 DEF LeaseHeld
  <2>6. \A e \in Drainer: (drainer'[e].pc = "claimed" \/ Working(e)') =>
           (drainer[e].pc = "claimed" \/ Working(e)) /\ drainer[e].row \in Row
    BY <2>1, <2>2 DEF LeaseInv, LeaseKnows, Working
  <2>7. \A e \in Drainer: Calling(e)' => e = d \/ Calling(e)
    BY <2>2 DEF Calling
  <2>8. LeaseKnows'
    BY <2>1, <2>2, <2>5, <2>6, <2>7, <1>3 DEF LeaseInv, LeaseKnows, Working, Calling, r
  <2>9. \A e \in Drainer \ {d}: ~(Calling(e) /\ LeaseHeld(e) /\ drainer[e].row = r)
    BY <2>1 DEF LeaseInv, LeaseKnows
  <2>10. OneRecorder'
    BY <2>2, <2>5, <2>6, <2>7, <2>9 DEF LeaseInv, OneRecorder, Calling, Working, r
  <2> QED
    BY <2>3, <2>4, <2>8, <2>10 DEF LeaseInv
<1> QED
  BY <1>4, <1>5

LEMMA SendLease ==
    ASSUME LeaseInv, NEW d \in Drainer, Send(d)
    PROVE  LeaseInv'
<1>1. /\ intent \in [Row -> Intents] /\ drainer \in [Drainer -> Drainers]
      /\ parcels \in [Row -> Nat]
  BY Typed DEF LeaseInv
<1>2. PICK created \in BOOLEAN, heard \in Answers \ {"none"}:
        /\ parcels' = [parcels EXCEPT ![drainer[d].row] = IF created THEN @ + 1 ELSE @]
        /\ drainer' = [drainer EXCEPT ![d].pc = "answered",
             ![d].answer = Reported(drainer[d].row, heard)]
  BY DEF Send
<1>3. /\ drainer[d].pc = "sending"
      /\ UNCHANGED <<order, delivery, intent, booked, restored, unreadable, misjudged,
                     expiries, crashes>>
  BY DEF Send
<1>4. \A row: Reported(row, heard) \in Answers
  BY DEF Reported, Answers
<1>5. drainer' \in [Drainer -> Drainers] /\ parcels' \in [Row -> Nat]
  <2> DEFINE a == Reported(drainer[d].row, heard)
             x == [drainer[d] EXCEPT !.pc = "answered", !.answer = a]
  <2>1. a \in Answers
    BY <1>4
  <2>2. drainer' = [drainer EXCEPT ![d] = x]
    BY <1>2
  <2> HIDE DEF a
  <2>3. x \in Drainers
    BY <1>1, <2>1 DEF Drainers, Stages
  <2> HIDE DEF x
  <2>4. drainer' \in [Drainer -> Drainers]
    BY <1>1, <2>2, <2>3
  <2>5. parcels' \in [Row -> Nat]
    <3>1. drainer[d].row \in Row
      BY <1>3 DEF LeaseInv, LeaseKnows, Working
    <3>2. (IF created THEN parcels[drainer[d].row] + 1 ELSE parcels[drainer[d].row]) \in Nat
      BY <1>1, <3>1
    <3> QED
      BY <1>1, <1>2, <3>2
  <2> QED
    BY <2>4, <2>5
<1>6. LeasesKept
  BY <1>1, <1>2, <1>3 DEF LeasesKept, Drainers
<1>7. TypeOK'
  BY <1>3, <1>5 DEF LeaseInv, TypeOK, Drainers
<1>8. NoGaps' /\ AttemptsLeft'
  BY <1>3 DEF LeaseInv, NoGaps, AttemptsLeft, Present, Claimable
<1> QED
  BY <1>6, <1>7, <1>8, KeptLeases DEF LeaseInv

\* What is heard is recorded under the lease, which ends with it; a rejected row
\* keeps an attempt for the next one.
LEMMA RecordLease ==
    ASSUME LeaseInv, NEW d \in Drainer, Receipt(d) \/ Rejection(d) \/ Doubt(d)
    PROVE  LeaseInv'
<1> DEFINE r == drainer[d].row
           i == intent'[r]
<1>1. /\ intent \in [Row -> Intents] /\ drainer \in [Drainer -> Drainers]
      /\ delivery \in [Order -> Deliveries]
  BY Typed DEF LeaseInv
<1>2. /\ Recorded(d)
      /\ UNCHANGED <<order, booked, restored, unreadable, parcels, misjudged, expiries, crashes>>
  BY SMTT(40) DEF Receipt, Rejection, Doubt
<1>3. r \in Row /\ Working(d)
  BY DEF Receipt, Rejection, Doubt, LeaseInv, LeaseKnows, Working
<1>4. drainer' \in [Drainer -> Drainers]
      /\ \A e \in Drainer: drainer'[e] = drainer[e] \/ drainer'[e].pc = "draining"
  BY <1>1, <1>2, RecordedMoves
<1>5. delivery' \in [Order -> Deliveries]
  <2>1. OrderOf(r) \in Order
    BY <1>3, RowParts DEF OrderOf
  <2> QED
    BY <1>1, <2>1 DEF Receipt, Rejection, Doubt, Deliveries, DeliveryStatus
<1>6. CASE UNCHANGED intent
  <2>1. NoGaps' /\ AttemptsLeft' /\ LeaseKnows' /\ OneRecorder'
    BY <1>4, <1>6, DrainerMoves
  <2>2. TypeOK'
    BY <1>2, <1>4, <1>5, <1>6 DEF LeaseInv, TypeOK, Drainers, Deliveries
  <2> QED
    BY <2>1, <2>2 DEF LeaseInv
<1>7. CASE LeaseHeld(d)
  <2>1. Present(r) /\ drainer[d].attempts = intent[r].attempts
    BY <1>3, <1>7 DEF LeaseHeld, Present, LeaseInv, LeaseKnows
  <2>2. /\ intent' = [intent EXCEPT ![r] = i]
        /\ i \in Intents /\ i.status \in {"retrying", "succeeded", "failed", "dead_letter"}
        /\ i.status = "retrying" => i.attempts < MaxAttempts
    <3>1. CASE Receipt(d)
      <4>1. intent' = [intent EXCEPT ![r] = [Released(intent[r], "success")
                                               EXCEPT !.status = "succeeded"]]
        BY <3>1 DEF Receipt
      <4> HIDE DEF r
      <4> QED
        BY <1>1, <1>3, <4>1 DEF Released, Intents, IntentStatus, Outcomes
    <3>2. CASE Rejection(d)
      <4> DEFINE exhausted == Exhausted(drainer[d].attempts)
      <4>1. intent' = [intent EXCEPT ![r] = [Released(intent[r], "rejected") EXCEPT
                         !.status  = IF exhausted THEN "dead_letter" ELSE "retrying",
                         !.started = exhausted]]
        BY <1>7, <3>2 DEF Rejection
      <4>2. exhausted \in BOOLEAN /\ (~exhausted => intent[r].attempts < MaxAttempts)
        BY <1>1, <1>3, <2>1, BookingAssumption DEF Exhausted, Intents
      <4> HIDE DEF exhausted, r
      <4> QED
        BY ZenonT(40), <1>1, <1>3, <4>1, <4>2 DEF Released, Intents, IntentStatus, Outcomes
    <3>3. CASE Doubt(d)
      <4>1. intent' = [intent EXCEPT ![r] = [Released(intent[r], "ambiguous")
                                               EXCEPT !.status = "failed"]]
        BY <1>7, <3>3 DEF Doubt
      <4> HIDE DEF r
      <4> QED
        BY <1>1, <1>3, <4>1 DEF Released, Intents, IntentStatus, Outcomes
    <3> QED
      BY <3>1, <3>2, <3>3
  <2> HIDE DEF i, r
  <2>3. intent' \in [Row -> Intents] /\ NoGaps' /\ AttemptsLeft' /\ LeaseKnows' /\ OneRecorder'
    BY <1>3, <1>4, <2>1, <2>2, RowReleased
  <2>4. TypeOK'
    BY <1>2, <1>4, <1>5, <2>3 DEF LeaseInv, TypeOK, Drainers, Deliveries, Intents
  <2> QED
    BY <2>3, <2>4 DEF LeaseInv
<1> QED
  BY <1>6, <1>7 DEF Receipt, Rejection, Doubt

LEMMA ExpiryLease ==
    ASSUME LeaseInv, NEW r \in Row, LeaseExpires(r)
    PROVE  LeaseInv'
<1> DEFINE i == [intent[r] EXCEPT !.expired = TRUE]
<1>1. intent \in [Row -> Intents] /\ expiries \in Nat
  BY Typed DEF LeaseInv
<1>2. /\ intent' = [intent EXCEPT ![r] = i] /\ intent[r].status = "processing"
      /\ UNCHANGED <<order, delivery, booked, restored, unreadable, drainer, parcels,
                     misjudged, crashes>>
      /\ expiries' \in Nat
  BY <1>1 DEF LeaseExpires
<1>3. /\ i \in Intents /\ i.status = intent[r].status /\ i.lease = intent[r].lease
      /\ i.attempts = intent[r].attempts /\ i.started = intent[r].started
  BY <1>1 DEF Intents
<1> HIDE DEF i
<1>4. Present(r) /\ intent[r].attempts > 0
  BY <1>2 DEF LeaseInv, AttemptsLeft, Present
<1>5. intent' \in [Row -> Intents] /\ NoGaps' /\ AttemptsLeft'
  BY <1>1, <1>2, <1>3, <1>4, RowWritten DEF LeaseInv
<1>6. LeasesKept
  BY <1>1, <1>2, <1>3 DEF LeasesKept
<1>7. TypeOK'
  BY <1>2, <1>5 DEF LeaseInv, TypeOK, Intents
<1> QED
  BY <1>5, <1>6, <1>7, KeptLeases DEF LeaseInv

LEMMA PayloadLease ==
    ASSUME LeaseInv, NEW r \in Row, PayloadLost(r)
    PROVE  LeaseInv'
<1>1. UNCHANGED <<order, delivery, intent, booked, restored, drainer, parcels,
                  misjudged, expiries, crashes>> /\ unreadable' = unreadable \cup {r}
  BY DEF PayloadLost
<1>2. NoGaps' /\ AttemptsLeft' /\ LeaseKnows' /\ OneRecorder'
  BY <1>1, DrainerMoves
<1>3. TypeOK'
  BY <1>1 DEF LeaseInv, TypeOK
<1> QED
  BY <1>2, <1>3 DEF LeaseInv

LEMMA StutterLease == ASSUME LeaseInv, UNCHANGED vars PROVE LeaseInv'
<1>1. NoGaps' /\ AttemptsLeft' /\ LeaseKnows' /\ OneRecorder'
  BY DrainerMoves DEF vars
<1>2. TypeOK'
  BY DEF LeaseInv, TypeOK, vars
<1> QED
  BY <1>1, <1>2 DEF LeaseInv

LEMMA NextLease == ASSUME LeaseInv, [Next]_vars PROVE LeaseInv'
<1>1. ASSUME NEW o \in Order, Seller(o) PROVE LeaseInv'
  BY <1>1, QueueLease, ConfirmLease, LeaveLease DEF Seller
<1>2. ASSUME NEW d \in Drainer, Continue(d) PROVE LeaseInv'
  BY <1>2, SweepLease, ClaimLease, MoveLease, OpenLease, StartLease, SendLease, RecordLease
     DEF Continue
<1> QED
  BY <1>1, <1>2, MoveLease, ExpiryLease, PayloadLease, CrashLease, StutterLease DEF Next

\* Every variable keeps its type in every behaviour: leases and attempts stay in
\* their ranges, whoever claims, expires, recovers or crashes.
THEOREM TypeOKHolds == Spec => []TypeOK
<1>1. LeaseInv => TypeOK
  BY DEF LeaseInv
<1> QED
  BY InitLease, NextLease, <1>1, PTL DEF Spec

\* At most one drainer can record what it hears under a row's lease: a start is
\* the only one of its lease, and a new lease is held by nobody else.
THEOREM OneRecorderHolds == Spec => []OneRecorder
<1>1. LeaseInv => OneRecorder
  BY DEF LeaseInv
<1> QED
  BY InitLease, NextLease, <1>1, PTL DEF Spec

-----------------------------------------------------------------------------
(* BookInv is inductive *)

LEMMA OrderReads ==
    ASSUME TypeOK, NEW o \in Order
    PROVE  /\ AwaitsCourier(o) <=> order[o].phase = "ready" /\ order[o].delivery = "pending"
           /\ MayBeRebooked(o) <=> order[o].phase = "ready" /\ order[o].delivery = "not_created"
           /\ order[o].delivery \in {"not_created", "pending"}
  BY Typed DEF Orders, AwaitsCourier, MayBeRebooked

\* A booking that is not over is the last of its order, and so is a rejected one
\* whose order is not given back yet.
LEMMA OpenIsLast ==
    ASSUME BookInv, NEW r \in Row, Present(r),
           intent[r].status # "dead_letter" \/ (Terminal(r) /\ r \notin restored)
    PROVE  Last(r) /\ Mirrored(r[1], r)
<1>1. r[1] \in Order /\ r[2] \in Generation /\ r = <<r[1], r[2]>>
  BY RowParts
<1>2. Last(r)
  BY <1>1 DEF Last, BookInv, OrderInv, ChainInv
<1> QED
  BY <1>1, <1>2 DEF BookInv, OrderInv

\* An order was never booked, or has a last booking.
LEMMA LastExists ==
    ASSUME NoGaps, NEW o \in Order
    PROVE  \/ \A n \in Generation: ~Present(<<o, n>>)
           \/ /\ Latest(o) \in Row /\ Latest(o)[1] = o /\ Last(Latest(o))
<1> DEFINE k == Cardinality(Generations(o))
<1>1. k \in Nat /\ Generations(o) = 1..k
  BY GenerationsCounted
<1>2. \A n \in Generation: Present(<<o, n>>) <=> n \in 1..k
  BY <1>1 DEF Generations, Present, Generation
<1>3. CASE k = 0
  BY <1>2, <1>3
<1>4. CASE k > 0
  <2>1. k \in Generations(o) /\ k \in Generation
    <3> HIDE DEF k
    <3>1. k \in Generations(o)
      BY <1>1, <1>4
    <3> QED
      BY <3>1 DEF Generations, Generation
  <2> HIDE DEF k
  <2>2. Latest(o) = <<o, k>>
    BY DEF Latest, k
  <2>3. Latest(o) \in Row /\ Latest(o)[1] = o /\ Latest(o)[2] = k
    BY <2>1, <2>2, RowParts
  <2>4. Present(<<o, k>>) /\ \A n \in Generation: n > k => ~Present(<<o, n>>)
    BY <1>1, <1>2, <2>1 DEF Generation
  <2> QED
    BY <2>2, <2>3, <2>4 DEF Last
<1> QED
  BY <1>1, <1>3, <1>4

SameBooking(s) == /\ intent'[s].status = intent[s].status
                  /\ intent'[s].outcome = intent[s].outcome

\* Orders none of whose bookings changes keep their part of the invariant.
LEMMA OtherOrders ==
    ASSUME NEW o \in Order, OrderInv(o),
           \A s \in Row: s[1] = o => SameBooking(s) /\ (s \in restored' <=> s \in restored),
           unreadable \subseteq unreadable',
           order'[o] = order[o], delivery'[o] = delivery[o]
    PROVE  OrderInv(o)'
<1>1. \A n \in Generation: <<o, n>> \in Row /\ <<o, n>>[1] = o
  BY RowParts
<1>2. ChainInv(o)'
  BY <1>1 DEF OrderInv, ChainInv, Present, Terminal, SameBooking
<1>3. NothingAsked(o)'
  BY <1>1 DEF OrderInv, NothingAsked, Present, SameBooking
<1>4. ASSUME NEW r \in Row, r[1] = o, Last(r)' PROVE Mirrored(o, r)'
  <2>1. Last(r)
    BY <1>1, <1>4 DEF Last, Present, SameBooking
  <2>2. Mirrored(o, r)
    BY <1>4, <2>1 DEF OrderInv
  <2> QED
    BY <1>4, <2>2 DEF Mirrored, Terminal, SameBooking
<1> QED
  BY <1>2, <1>3, <1>4 DEF OrderInv

\* A step on the last booking of an order, whose delivery and order follow it.
LEMMA LastWritten ==
    ASSUME BookInv, NEW r \in Row, Last(r), Present(r)', Mirrored(r[1], r)',
           \A s \in Row: s # r => SameBooking(s) /\ (s \in restored' <=> s \in restored),
           unreadable \subseteq unreadable',
           \A p \in Order: p # r[1] => order'[p] = order[p] /\ delivery'[p] = delivery[p]
    PROVE  \A o \in Order: OrderInv(o)'
<1> DEFINE o == r[1]
<1>1. o \in Order /\ r[2] \in Generation /\ r = <<o, r[2]>>
  BY RowParts
<1>2. \A n \in Generation: /\ <<o, n>> \in Row /\ <<o, n>>[1] = o /\ <<o, n>>[2] = n
                           /\ n # r[2] => <<o, n>> # r
  BY <1>1, RowParts
<1>3. OrderInv(o)
  BY <1>1 DEF BookInv
<1> HIDE DEF o
<1>4. \A n \in Generation: n > r[2] => ~Present(<<o, n>>)' /\ ~Present(<<o, n>>)
  BY <1>2, <1>1 DEF Last, Present, SameBooking, o, Generation
<1>5. ChainInv(o)'
  <2> SUFFICES ASSUME NEW n \in Generation, NEW m \in Generation, n < m, Present(<<o, m>>)'
               PROVE  /\ intent'[<<o, n>>].status = "dead_letter"
                      /\ Terminal(<<o, n>>)' => <<o, n>> \in restored'
    BY DEF ChainInv
  <2>1. n # r[2] /\ Present(<<o, m>>)
    <3>1. ~(m > r[2])
      BY <1>4
    <3>2. n # r[2]
      BY <3>1, <1>1 DEF Generation
    <3>3. CASE m = r[2]
      BY <1>1, <3>3, <3>2 DEF Last, o
    <3>4. CASE m # r[2]
      BY <1>2, <3>2, <3>4 DEF Present, SameBooking
    <3> QED
      BY <3>2, <3>3, <3>4
  <2>2. SameBooking(<<o, n>>) /\ (<<o, n>> \in restored' <=> <<o, n>> \in restored)
    BY <1>2, <2>1
  <2> QED
    BY <1>3, <2>1, <2>2 DEF OrderInv, ChainInv, Terminal, SameBooking
<1>6. NothingAsked(o)'
  BY <1>1 DEF NothingAsked, Present, o
<1>7. ASSUME NEW s \in Row, s[1] = o, Last(s)' PROVE Mirrored(o, s)'
  <2>1. s = <<o, s[2]>> /\ s[2] \in Generation
    BY <1>7, RowParts
  <2>2. s[2] = r[2]
    <3>1. ~(s[2] > r[2])
      BY <1>4, <1>7, <2>1 DEF Last
    <3>2. ~(r[2] > s[2])
      BY <1>1, <1>7 DEF Last, Present, o
    <3> QED
      BY <3>1, <3>2, <2>1, <1>1 DEF Generation
  <2> QED
    BY <1>1, <2>1, <2>2 DEF o
<1>8. ASSUME NEW p \in Order, p # o PROVE OrderInv(p)'
  BY <1>8, <1>1, OtherOrders DEF BookInv, o
<1> QED
  BY <1>5, <1>6, <1>7, <1>8 DEF OrderInv

\* Selections stay selections of rejected bookings, as do the restored ones.
LEMMA BatchKept ==
    ASSUME BookInv,
           \A r \in Row: Terminal(r) => Terminal(r)',
           \A d \in Drainer: /\ drainer[d].batch \subseteq Row
                             /\ drainer'[d].batch \subseteq drainer[d].batch,
           restored \subseteq Row, restored' = restored
    PROVE  /\ \A d \in Drainer: \A r \in drainer'[d].batch: Terminal(r)'
           /\ \A r \in restored': Terminal(r)'
  BY DEF BookInv

\* Steps that change the status of no booking and nothing of their orders.
LEMMA BookUntouched ==
    ASSUME BookInv, restored \subseteq Row,
           \A s \in Row: SameBooking(s),
           unreadable \subseteq unreadable',
           UNCHANGED <<order, delivery, restored>>,
           \A d \in Drainer: /\ drainer[d].batch \subseteq Row
                             /\ drainer'[d].batch \subseteq drainer[d].batch
    PROVE  BookInv'
<1>1. \A o \in Order: OrderInv(o)'
  BY OtherOrders DEF BookInv
<1>2. \A r \in Row: Terminal(r) => Terminal(r)'
  BY DEF Terminal, SameBooking
<1> QED
  BY <1>1, <1>2, BatchKept DEF BookInv

LEMMA Batches == ASSUME TypeOK PROVE \A d \in Drainer: drainer[d].batch \subseteq Row
  BY Typed DEF Drainers

LEMMA RestoredRows == TypeOK => restored \subseteq Row
  BY DEF TypeOK

LEMMA InitBook == Init => BookInv
<1> SUFFICES ASSUME Init PROVE BookInv
  OBVIOUS
<1>1. \A r \in Row: ~Present(r)
  BY DEF Init, Present
<1>2. \A o \in Order: /\ delivery[o].status = "absent" /\ ~delivery[o].tracked
                      /\ order[o].delivery = "not_created" /\ order[o].phase # "shipped"
  BY DEF Init
<1>3. \A o \in Order: OrderInv(o)
  BY <1>1, <1>2, RowParts DEF OrderInv, ChainInv, NothingAsked, Last
<1>4. \A d \in Drainer: drainer[d].batch = {}
  BY DEF Init
<1> QED
  BY <1>3, <1>4 DEF BookInv, Init

\* An order that may be booked has only dead letters, all given back; the new
\* booking becomes its last.
LEMMA QueueBook ==
    ASSUME LeaseInv, BookInv, NEW o \in Order, QueueBooking(o)
    PROVE  BookInv'
<1>1. /\ order \in [Order -> Orders] /\ delivery \in [Order -> Deliveries]
      /\ intent \in [Row -> Intents] /\ TypeOK
  BY Typed DEF LeaseInv
<1>2. PICK k \in Nat: k = Cardinality(Generations(o)) /\ Generations(o) = 1..k
  BY GenerationsCounted DEF LeaseInv
<1> DEFINE r == <<o, k + 1>>
<1>3. /\ r \in Row
      /\ MayBeRebooked(o)
      /\ intent' = [intent EXCEPT ![r].status = "queued"]
      /\ order' = [order EXCEPT ![o].delivery = "pending"]
      /\ delivery' = [delivery EXCEPT ![o].status = "booking_queued"]
      /\ UNCHANGED <<restored, unreadable, drainer>>
  BY <1>2 DEF QueueBooking
<1>4. k + 1 \in Generation
  BY <1>3, RowParts DEF r
<1>5. \A n \in Generation: Present(<<o, n>>) <=> n < k + 1
  BY <1>2 DEF Generations, Present, Generation
<1>6. order[o].phase = "ready" /\ order[o].delivery = "not_created"
  BY <1>1, <1>3, OrderReads
<1>7. ASSUME NEW n \in Generation, n < k + 1
      PROVE  intent[<<o, n>>].status = "dead_letter" /\ (Terminal(<<o, n>>) => <<o, n>> \in restored)
  <2>1. PICK s \in Row: s = <<o, n>> /\ s[1] = o
    BY ZenonT(40), RowParts
  <2>2. Present(s)
    BY <1>5, <1>7, <2>1
  <2>3. /\ ~Mirrored(s[1], s) \/ intent[s].status = "dead_letter"
        /\ ~Mirrored(s[1], s) \/ ~Terminal(s) \/ s \in restored
    BY <1>6, <2>1 DEF Mirrored, Terminal
  <2>4. intent[s].status = "dead_letter"
    <3> SUFFICES ASSUME intent[s].status # "dead_letter" PROVE FALSE
      OBVIOUS
    <3> QED
      BY <2>2, <2>3, OpenIsLast
  <2>5. Terminal(s) => s \in restored
    BY <2>2, <2>3, OpenIsLast
  <2> QED
    BY <2>1, <2>4, <2>5
<1>8. ~delivery[o].tracked
  <2>1. CASE \A n \in Generation: ~Present(<<o, n>>)
    BY <2>1 DEF BookInv, OrderInv, NothingAsked
  <2>2. CASE Latest(o) \in Row /\ Latest(o)[1] = o /\ Last(Latest(o))
    <3>1. Mirrored(o, Latest(o))
      BY <2>2 DEF BookInv, OrderInv
    <3> QED
      BY <3>1, <1>6 DEF Mirrored
  <2> QED
    BY <2>1, <2>2, LastExists DEF LeaseInv
<1>9. \A s \in Row: s # r => intent'[s] = intent[s]
  BY <1>1, <1>3
<1>10. intent'[r].status = "queued"
  BY <1>1, <1>3 DEF Intents
<1>11. \A n \in Generation: /\ <<o, n>> \in Row /\ <<o, n>>[2] = n /\ <<o, n>>[1] = o
                            /\ n # k + 1 => <<o, n>> # r
  BY RowParts DEF r
<1>12. ~Terminal(r)
  BY <1>4, <1>5, <1>2 DEF Terminal, Present, r
<1>13. ChainInv(o)'
  <2> SUFFICES ASSUME NEW n \in Generation, NEW m \in Generation, n < m, Present(<<o, m>>)'
               PROVE  /\ intent'[<<o, n>>].status = "dead_letter"
                      /\ Terminal(<<o, n>>)' => <<o, n>> \in restored'
    BY DEF ChainInv
  <2>1. n < k + 1
    BY <1>2, <1>5, <1>9, <1>11 DEF Present, Generation
  <2>2. intent'[<<o, n>>] = intent[<<o, n>>]
    BY <1>2, <1>9, <1>11, <2>1 DEF Generation
  <2> QED
    BY <1>3, <1>7, <2>1, <2>2 DEF Terminal
<1>14. NothingAsked(o)'
  BY <1>4, <1>10 DEF NothingAsked, Present, r
<1>15. ASSUME NEW s \in Row, s[1] = o, Last(s)' PROVE Mirrored(o, s)'
  <2>1. s = <<o, s[2]>> /\ s[2] \in Generation
    BY <1>15, RowParts
  <2>2. s = r
    <3> SUFFICES ASSUME s[2] # k + 1 PROVE FALSE
      BY <2>1 DEF r
    <3>1. Present(s)
      BY <1>9, <1>11, <1>15, <2>1 DEF Last, Present
    <3>2. s[2] < k + 1
      BY <1>5, <2>1, <3>1
    <3>3. Present(<<o, k + 1>>)'
      BY <1>10 DEF Present, r
    <3> QED
      BY <1>2, <1>4, <1>15, <3>2, <3>3, <2>1 DEF Last, Generation
  <2>3. /\ order'[o].phase = "ready" /\ order'[o].delivery = "pending"
        /\ delivery'[o].status = "booking_queued" /\ ~delivery'[o].tracked
    BY <1>1, <1>3, <1>6, <1>8 DEF Orders, Deliveries
  <2> QED
    BY <2>2, <2>3, <1>10 DEF Mirrored
<1>16. \A q \in Order: q # o => OrderInv(q)'
  <2>1. \A s \in Row: s[1] # o => s # r
    BY <1>4, RowParts DEF r
  <2>2. \A q \in Order: q # o => order'[q] = order[q] /\ delivery'[q] = delivery[q]
    BY <1>1, <1>3
  <2> QED
    BY <1>3, <1>9, <2>1, <2>2, OtherOrders DEF BookInv, SameBooking
<1>17. \A s \in Row: Terminal(s) => Terminal(s)'
  BY <1>9, <1>12 DEF Terminal
<1>18. \A d \in Drainer: drainer[d].batch \subseteq Row /\ drainer'[d].batch \subseteq drainer[d].batch
  BY <1>1, <1>3, Batches
<1> QED
  BY <1>3, <1>13, <1>14, <1>15, <1>16, <1>17, <1>18, RestoredRows, BatchKept
     DEF BookInv, OrderInv, LeaseInv

\* Cancelling and the courier's pickup move an order on without its bookings.
LEMMA LeaveBook ==
    ASSUME LeaseInv, BookInv, NEW o \in Order, Cancel(o) \/ PickedUp(o)
    PROVE  BookInv'
<1>1. order \in [Order -> Orders] /\ TypeOK
  BY Typed DEF LeaseInv
<1>2. /\ UNCHANGED <<delivery, intent, restored, unreadable, drainer>>
      /\ order[o].phase = "ready"
      /\ \A p \in Order: p # o => order'[p] = order[p]
      /\ order'[o].delivery = order[o].delivery
      /\ \/ order[o].delivery = "not_created" /\ order'[o].phase = "cancelled"
         \/ /\ order[o].delivery = "pending" /\ delivery[o].tracked
            /\ order'[o].phase = "shipped"
  BY <1>1, OrderReads DEF Cancel, PickedUp, Orders
<1>3. \A s \in Row: SameBooking(s)
  BY <1>2 DEF SameBooking
<1>4. \A p \in Order: p # o => OrderInv(p)'
  BY <1>2, <1>3, OtherOrders DEF BookInv
<1>5. OrderInv(o)'
  <2>1. CASE \A n \in Generation: ~Present(<<o, n>>)
    <3>1. NothingAsked(o)'
      BY <1>2, <2>1 DEF BookInv, OrderInv, NothingAsked
    <3>2. \A s \in Row: s[1] = o => ~Last(s)'
      BY <1>2, <2>1, RowParts DEF Last, Present
    <3>3. ChainInv(o)'
      BY <1>2, <2>1 DEF ChainInv, Present
    <3> QED
      BY <3>1, <3>2, <3>3 DEF OrderInv
  <2>2. CASE Latest(o) \in Row /\ Latest(o)[1] = o /\ Last(Latest(o))
    <3>1. PICK r \in Row: r[1] = o /\ Last(r)
      BY <2>2
    <3>2. Mirrored(o, r)
      BY <3>1 DEF BookInv, OrderInv
    <3>3. Mirrored(o, r)'
      BY <1>2, <3>2 DEF Mirrored, Terminal
    <3>4. Present(r)'
      BY <1>2, <3>1 DEF Last, Present
    <3>5. \A q \in Order: OrderInv(q)'
      BY <1>2, <1>3, <3>1, <3>3, <3>4, LastWritten
    <3> QED
      BY <3>5
  <2> QED
    BY <2>1, <2>2, LastExists DEF LeaseInv
<1>6. \A d \in Drainer: drainer[d].batch \subseteq Row /\ drainer'[d].batch \subseteq drainer[d].batch
  BY <1>1, <1>2, Batches
<1>7. \A s \in Row: Terminal(s) => Terminal(s)'
  BY <1>2 DEF Terminal
<1> QED
  BY <1>1, <1>2, <1>4, <1>5, <1>6, <1>7, RestoredRows, BatchKept DEF BookInv

\* Only the last booking of an order can be open, so whoever writes an open
\* booking writes the last one; what the step leaves must mirror it again.
LEMMA OpenWritten ==
    ASSUME LeaseInv, BookInv, NEW r \in Row,
           Present(r), intent[r].status # "dead_letter",
           \A s \in Row: s # r => intent'[s] = intent[s],
           UNCHANGED <<restored, unreadable>>,
           \A p \in Order: p # r[1] => order'[p] = order[p] /\ delivery'[p] = delivery[p],
           \A d \in Drainer: drainer'[d].batch \subseteq drainer[d].batch,
           Mirrored(r[1], r) => Present(r)' /\ Mirrored(r[1], r)'
    PROVE  BookInv'
<1>1. Last(r) /\ Mirrored(r[1], r)
  BY OpenIsLast
<1>2. \A s \in Row: s # r => SameBooking(s) /\ (s \in restored' <=> s \in restored)
  BY DEF SameBooking
<1>3. \A o \in Order: OrderInv(o)'
  BY <1>1, <1>2, LastWritten
<1>4. \A s \in Row: Terminal(s) => Terminal(s)'
  BY DEF Terminal
<1>5. \A d \in Drainer: drainer[d].batch \subseteq Row
  BY Batches DEF LeaseInv
<1> QED
  BY <1>3, <1>4, <1>5, RestoredRows, BatchKept DEF BookInv, LeaseInv

LEMMA ConfirmBook ==
    ASSUME LeaseInv, BookInv, NEW o \in Order, NEW r \in Row,
           ConfirmCreated(o, r) \/ ConfirmNotCreated(o, r)
    PROVE  BookInv'
<1>1. /\ order \in [Order -> Orders] /\ delivery \in [Order -> Deliveries]
      /\ intent \in [Row -> Intents] /\ TypeOK
  BY Typed DEF LeaseInv
<1>2. o = r[1] /\ intent[r].status = "failed" /\ Present(r)
  BY DEF ConfirmCreated, ConfirmNotCreated, Ambiguous, OrderOf, Present
<1>3. /\ \A s \in Row: s # r => intent'[s] = intent[s]
      /\ UNCHANGED <<restored, unreadable, drainer>>
      /\ \A p \in Order: p # o => order'[p] = order[p] /\ delivery'[p] = delivery[p]
  BY <1>1 DEF ConfirmCreated, ConfirmNotCreated
<1>4. CASE ConfirmCreated(o, r)
  <2>1. /\ intent'[r].status = "succeeded" /\ order' = order
        /\ delivery'[o].status = "created" /\ delivery'[o].tracked
    BY <1>1, <1>4 DEF ConfirmCreated, Intents, Deliveries
  <2>2. Mirrored(o, r) => Present(r)' /\ Mirrored(o, r)'
    BY <1>2, <2>1 DEF Mirrored, Present
  <2> QED
    BY <1>2, <1>3, <2>2, OpenWritten
<1>5. CASE ConfirmNotCreated(o, r)
  <2>1. /\ intent'[r].status = "dead_letter" /\ intent'[r].outcome = "manual_not_created"
        /\ order'[o].delivery = "not_created" /\ order'[o].phase = order[o].phase
        /\ delivery'[o].status = "booking_failed" /\ delivery'[o].tracked = delivery[o].tracked
    BY <1>1, <1>5 DEF ConfirmNotCreated, Intents, Deliveries, Orders
  <2>2. Mirrored(o, r) => Present(r)' /\ Mirrored(o, r)'
    BY <1>2, <2>1 DEF Mirrored, Present, Terminal
  <2> QED
    BY <1>2, <1>3, <2>2, OpenWritten
<1> QED
  BY <1>4, <1>5

LEMMA SweepBook ==
    ASSUME LeaseInv, BookInv, NEW d \in Drainer, NEW r \in Row,
           Sweep(d, r) \/ DeadLetter(d, r) \/ Recover(d, r)
    PROVE  BookInv'
<1> DEFINE o == r[1]
<1>1. /\ order \in [Order -> Orders] /\ delivery \in [Order -> Deliveries]
      /\ intent \in [Row -> Intents] /\ TypeOK
  BY Typed DEF LeaseInv
<1>2. intent[r].status \in {"queued", "retrying", "processing"} /\ Present(r)
  BY DEF Sweep, Swept, DeadLetter, Unsent, Claimable, Recover, Expired, Present
<1>3. o \in Order /\ OrderOf(r) = o
  BY RowParts DEF OrderOf
<1>4. /\ \A s \in Row: s # r => intent'[s] = intent[s]
      /\ UNCHANGED <<restored, unreadable, drainer>>
      /\ \A p \in Order: p # o => order'[p] = order[p] /\ delivery'[p] = delivery[p]
  BY <1>1, <1>3 DEF Sweep, DeadLetter, Recover
<1> HIDE DEF o
<1>5. Mirrored(o, r) => Present(r)' /\ Mirrored(o, r)'
  <2> SUFFICES ASSUME Mirrored(o, r) PROVE Present(r)' /\ Mirrored(o, r)'
    OBVIOUS
  <2>1. /\ ~delivery[o].tracked /\ order[o].phase = "ready" /\ order[o].delivery = "pending"
        /\ delivery[o].status \in {"booking_queued", "booking_retrying"}
    BY <1>2 DEF Mirrored
  <2>2. CASE Sweep(d, r)
    <3>1. /\ intent'[r].status = "failed" /\ order' = order
          /\ delivery'[o].status = "reconciliation_required" /\ ~delivery'[o].tracked
      BY <1>1, <1>3, <2>1, <2>2 DEF Sweep, Released, Intents, Deliveries
    <3> QED
      BY <2>1, <3>1 DEF Mirrored, Present
  <2>3. CASE DeadLetter(d, r)
    <3>1. /\ intent'[r].status = "dead_letter" /\ intent'[r].outcome = "invalid"
          /\ delivery'[o].status = "booking_failed" /\ ~delivery'[o].tracked
      BY <1>1, <1>3, <2>1, <2>3 DEF DeadLetter, Released, Intents, Deliveries
    <3>2. order'[o].delivery = "not_created" /\ order'[o].phase = "ready"
      <4>1. AwaitsCourier(o)
        BY <1>1, <1>3, <2>1, OrderReads
      <4> QED
        BY <1>1, <1>3, <2>1, <2>3, <4>1 DEF DeadLetter, Orders
    <3> QED
      BY <3>1, <3>2 DEF Mirrored, Present, Terminal
  <2>4. CASE Recover(d, r)
    <3>1. order' = order /\ ~delivery'[o].tracked /\ UNCHANGED unreadable
      BY <1>1, <1>3, <2>1, <2>4 DEF Recover, Deliveries
    <3>2. CASE intent[r].started
      <4>1. /\ intent'[r].status = "failed"
            /\ delivery'[o].status = "reconciliation_required" \/ r \in unreadable
        <5>1. /\ intent' = [intent EXCEPT ![r] = [Released(intent[r], "ambiguous")
                                                  EXCEPT !.status = "failed"]]
              /\ r \notin unreadable =>
                   delivery' = [delivery EXCEPT ![o].status = "reconciliation_required"]
          BY <1>3, <2>1, <2>4, <3>2 DEF Recover
        <5> QED
          BY <1>1, <1>3, <5>1 DEF Released, Intents, Deliveries
      <4> QED
        BY <2>1, <3>1, <4>1 DEF Mirrored, Present
    <3>3. CASE ~intent[r].started
      <4>1. intent'[r].status = "retrying" /\ delivery' = delivery
        BY <1>1, <1>3, <2>1, <2>4, <3>3 DEF Recover, Released, Intents
      <4> QED
        BY <2>1, <3>1, <4>1 DEF Mirrored, Present
    <3> QED
      BY <3>2, <3>3
  <2> QED
    BY <2>2, <2>3, <2>4
<1> QED
  BY <1>2, <1>4, <1>5, OpenWritten DEF o

LEMMA ClaimBook ==
    ASSUME LeaseInv, BookInv, NEW d \in Drainer, NEW r \in Row, Claim(d, r)
    PROVE  BookInv'
<1>1. /\ intent \in [Row -> Intents] /\ drainer \in [Drainer -> Drainers]
  BY Typed DEF LeaseInv
<1>2. /\ intent[r].status \in {"queued", "retrying"} /\ Present(r)
      /\ intent'[r].status = "processing"
      /\ \A s \in Row: s # r => intent'[s] = intent[s]
      /\ UNCHANGED <<order, delivery, restored, unreadable>>
  BY <1>1 DEF Claim, Claimable, Present
<1>3. \A e \in Drainer: drainer'[e].batch \subseteq drainer[e].batch
  BY <1>1 DEF Claim, Drainers
<1>4. Mirrored(r[1], r) => Present(r)' /\ Mirrored(r[1], r)'
  BY SMTT(40), <1>2 DEF Mirrored, Present
<1> QED
  BY <1>2, <1>3, <1>4, OpenWritten

LEMMA RecordBook ==
    ASSUME LeaseInv, BookInv, NEW d \in Drainer, Receipt(d) \/ Rejection(d) \/ Doubt(d)
    PROVE  BookInv'
<1>1. /\ order \in [Order -> Orders] /\ delivery \in [Order -> Deliveries]
      /\ intent \in [Row -> Intents] /\ drainer \in [Drainer -> Drainers] /\ TypeOK
  BY SMTT(40), Typed DEF LeaseInv
<1>2. Recorded(d) /\ UNCHANGED <<order, restored, unreadable>>
  BY DEF Receipt, Rejection, Doubt
<1>3. \A e \in Drainer: /\ drainer'[e].batch \subseteq drainer[e].batch
                        /\ drainer[e].batch \subseteq Row
  <2>1. drainer'[d].batch = {} /\ \A e \in Drainer: e # d => drainer'[e] = drainer[e]
    BY SMTT(40), <1>1, <1>2, RecordedMoves
  <2> QED
    BY <1>1, <2>1, Batches
<1>4. PICK r \in Row: r = drainer[d].row
  BY DEF Receipt, Rejection, Doubt, LeaseInv, LeaseKnows, Working
<1>5. CASE UNCHANGED <<intent, delivery>>
  <2>1. \A s \in Row: SameBooking(s)
    BY <1>5 DEF SameBooking
  <2> QED
    BY <1>1, <1>2, <1>3, <1>5, <2>1, RestoredRows, BookUntouched
<1>6. CASE LeaseHeld(d)
  <2> DEFINE o == r[1]
  <2>1. o \in Order /\ OrderOf(r) = o
    BY RowParts DEF OrderOf
  <2>2. intent[r].status = "processing" /\ Present(r)
    BY SMTT(40), <1>4, <1>6 DEF LeaseHeld, Present
  <2>3. /\ \A s \in Row: s # r => intent'[s] = intent[s]
        /\ \A p \in Order: p # o => delivery'[p] = delivery[p]
    BY <1>1, <1>4, <2>1 DEF Receipt, Rejection, Doubt
  <2> HIDE DEF o
  <2>4. Mirrored(o, r) => Present(r)' /\ Mirrored(o, r)'
    <3> SUFFICES ASSUME Mirrored(o, r) PROVE Present(r)' /\ Mirrored(o, r)'
      OBVIOUS
    <3>1. /\ ~delivery[o].tracked /\ order[o].phase = "ready" /\ order[o].delivery = "pending"
          /\ delivery[o].status \in {"booking_queued", "booking_retrying"}
      BY <2>2 DEF Mirrored
    <3>2. CASE Receipt(d)
      <4>1. /\ intent'[r].status = "succeeded"
            /\ delivery'[o].status = "created" /\ delivery'[o].tracked
        BY <1>1, <1>4, <2>1, <3>2 DEF Receipt, Released, Intents, Deliveries
      <4> QED
        BY <1>2, <3>1, <4>1 DEF Mirrored, Present
    <3>3. CASE Rejection(d)
      <4> DEFINE exhausted == Exhausted(drainer[d].attempts)
      <4>1. intent' = [intent EXCEPT ![r] = [Released(intent[r], "rejected") EXCEPT
                         !.status  = IF exhausted THEN "dead_letter" ELSE "retrying",
                         !.started = exhausted]]
            /\ delivery' = [delivery EXCEPT ![o].status =
                              IF exhausted THEN "booking_failed" ELSE "booking_retrying"]
        BY <1>4, <1>6, <2>1, <3>1, <3>3 DEF Rejection
      <4> HIDE DEF exhausted
      <4>2. ~delivery'[o].tracked /\ r \notin restored
        <5>1. ~delivery'[o].tracked
          BY <1>1, <2>1, <3>1, <4>1 DEF Deliveries
        <5>2. ~Terminal(r)
          BY <2>2 DEF Terminal
        <5> QED
          BY <5>1, <5>2 DEF BookInv
      <4>3. CASE exhausted
        BY <1>1, <1>2, <2>1, <3>1, <4>1, <4>2, <4>3
           DEF Released, Intents, Deliveries, Mirrored, Present, Terminal
      <4>4. CASE ~exhausted
        BY <1>1, <1>2, <2>1, <3>1, <4>1, <4>2, <4>4
           DEF Released, Intents, Deliveries, Mirrored, Present, Terminal
      <4> QED
        BY <4>3, <4>4
    <3>4. CASE Doubt(d)
      <4>1. /\ intent'[r].status = "failed"
            /\ delivery'[o].status = "reconciliation_required" /\ ~delivery'[o].tracked
        <5>1. /\ intent' = [intent EXCEPT ![r] = [Released(intent[r], "ambiguous")
                                                  EXCEPT !.status = "failed"]]
              /\ delivery' = [delivery EXCEPT ![o].status = "reconciliation_required"]
          BY <1>4, <1>6, <2>1, <3>1, <3>4 DEF Doubt
        <5> QED
          BY <1>1, <2>1, <3>1, <5>1 DEF Released, Intents, Deliveries
      <4> QED
        BY <1>2, <3>1, <4>1 DEF Mirrored, Present
    <3> QED
      BY <3>2, <3>3, <3>4
  <2> QED
    BY <1>2, <1>3, <2>2, <2>3, <2>4, OpenWritten DEF o
<1> QED
  BY <1>5, <1>6 DEF Receipt, Rejection, Doubt

\* Giving back takes a rejected booking that is still the last of its order.
LEMMA RestoreBook ==
    ASSUME LeaseInv, BookInv, NEW d \in Drainer, Restore(d)
    PROVE  BookInv'
<1>1. /\ order \in [Order -> Orders] /\ drainer \in [Drainer -> Drainers]
      /\ restored \subseteq Row /\ TypeOK
  BY Typed DEF LeaseInv
<1>2. PICK r \in drainer[d].batch:
        /\ drainer' = [drainer EXCEPT ![d].batch = @ \ {r}]
        /\ IF Restorable(r)
           THEN /\ order' = [order EXCEPT ![OrderOf(r)].delivery = "not_created"]
                /\ restored' = restored \cup {r}
           ELSE UNCHANGED <<order, restored>>
  BY DEF Restore
<1>3. r \in Row /\ Terminal(r) /\ Present(r)
  BY <1>1, Batches DEF BookInv, Terminal, Present
<1>4. UNCHANGED <<delivery, intent, unreadable>>
  BY DEF Restore
<1>5. \A e \in Drainer: /\ drainer'[e].batch \subseteq drainer[e].batch
                        /\ drainer[e].batch \subseteq Row
  BY <1>1, <1>2, Batches DEF Drainers
<1>6. CASE ~Restorable(r)
  <2>1. \A s \in Row: SameBooking(s)
    BY <1>4 DEF SameBooking
  <2> QED
    BY <1>1, <1>2, <1>4, <1>5, <1>6, <2>1, BookUntouched
<1>7. CASE Restorable(r)
  <2> DEFINE o == r[1]
  <2>1. o \in Order /\ OrderOf(r) = o
    BY <1>3, RowParts DEF OrderOf
  <2>2. r \notin restored /\ order[o].phase = "ready"
    BY <1>1, <1>7, <2>1, OrderReads DEF Restorable
  <2>3. Last(r) /\ Mirrored(o, r)
    BY <1>3, <2>2, OpenIsLast
  <2>4. /\ restored' = restored \cup {r}
        /\ order'[o].delivery = "not_created" /\ order'[o].phase = "ready"
        /\ \A p \in Order: p # o => order'[p] = order[p]
    BY <1>1, <1>2, <1>7, <2>1, <2>2 DEF Orders
  <2> HIDE DEF o
  <2>5. Mirrored(o, r)' /\ Present(r)'
    BY <1>3, <1>4, <2>3, <2>4 DEF Mirrored, Terminal, Present
  <2>6. \A s \in Row: s # r => SameBooking(s) /\ (s \in restored' <=> s \in restored)
    BY <1>4, <2>4 DEF SameBooking
  <2>7. \A p \in Order: OrderInv(p)'
    BY <1>3, <1>4, <2>3, <2>4, <2>5, <2>6, LastWritten DEF o
  <2>8. \A s \in Row: Terminal(s) => Terminal(s)'
    BY <1>4 DEF Terminal
  <2>9. /\ \A e \in Drainer: \A s \in drainer'[e].batch: Terminal(s)'
        /\ \A s \in restored': Terminal(s)'
    BY <1>1, <1>3, <1>5, <2>4, <2>8 DEF BookInv
  <2> QED
    BY <2>7, <2>9 DEF BookInv
<1> QED
  BY <1>6, <1>7

\* The claim loop ends with the selection of what is to be given back.
LEMMA EndLoopBook ==
    ASSUME LeaseInv, BookInv, NEW d \in Drainer, EndLoop(d)
    PROVE  BookInv'
<1>1. drainer \in [Drainer -> Drainers] /\ TypeOK /\ restored \subseteq Row
  BY Typed DEF LeaseInv
<1>2. UNCHANGED <<order, delivery, intent, restored, unreadable>>
  BY DEF EndLoop
<1>3. \A r \in RestoreSelection: r \in Row /\ Terminal(r)
  BY DEF RestoreSelection
<1>4. /\ drainer'[d].batch = RestoreSelection
      /\ \A e \in Drainer: e # d => drainer'[e] = drainer[e]
  <2> HIDE DEF RestoreSelection
  <2> QED
    BY <1>1 DEF EndLoop, Drainers
<1>5. \A s \in Row: SameBooking(s)
  BY <1>2 DEF SameBooking
<1>6. \A o \in Order: OrderInv(o)'
  BY <1>2, <1>5, OtherOrders DEF BookInv
<1>7. \A s: Terminal(s)' <=> Terminal(s)
  BY <1>2 DEF Terminal
<1>8. \A e \in Drainer: \A r \in drainer'[e].batch: Terminal(r)'
  BY <1>3, <1>4, <1>7 DEF BookInv
<1> QED
  BY <1>2, <1>6, <1>7, <1>8 DEF BookInv

\* Every other step leaves statuses, orders and deliveries alone.
LEMMA QuietBook ==
    ASSUME LeaseInv, BookInv,
           \/ \E d \in Drainer: \/ BeginDrain(d) \/ EndSweep(d) \/ EndDrain(d) \/ Open(d)
                                \/ Start(d) \/ Send(d)
           \/ \E r \in Row: LeaseExpires(r) \/ PayloadLost(r)
           \/ Crash \/ UNCHANGED vars
    PROVE  BookInv'
<1>1. /\ intent \in [Row -> Intents] /\ drainer \in [Drainer -> Drainers]
      /\ restored \subseteq Row /\ TypeOK
  BY Typed DEF LeaseInv
<1>2. \A e \in Drainer: /\ drainer'[e].batch \subseteq drainer[e].batch
                        /\ drainer[e].batch \subseteq Row
  <2>1. CASE \E d \in Drainer: BeginDrain(d) \/ EndSweep(d) \/ EndDrain(d)
    BY <1>1, <2>1, Batches DEF BeginDrain, EndSweep, EndDrain, Drainers
  <2>2. ASSUME NEW d \in Drainer, Open(d)
        PROVE  \A e \in Drainer: drainer'[e].batch = drainer[e].batch
    BY <1>1, <2>2 DEF Open, Drainers
  <2>3. ASSUME NEW d \in Drainer, Start(d)
        PROVE  \A e \in Drainer: drainer'[e].batch \subseteq drainer[e].batch
    <3>1. CASE MayStart(d)
      BY <1>1, <2>3, <3>1 DEF Start, Drainers
    <3>2. CASE ~MayStart(d)
      <4>1. Recorded(d)
        BY <2>3, <3>2 DEF Start
      <4>2. drainer'[d].batch = {} /\ \A e \in Drainer: e # d => drainer'[e] = drainer[e]
        BY <1>1, <4>1, RecordedMoves
      <4> QED
        BY <4>2
    <3> QED
      BY <3>1, <3>2
  <2>4. ASSUME NEW d \in Drainer, Send(d)
        PROVE  \A e \in Drainer: drainer'[e].batch = drainer[e].batch
    <3>1. PICK a: drainer' = [drainer EXCEPT ![d].pc = "answered", ![d].answer = a]
      BY <2>4 DEF Send
    <3> QED
      BY <1>1, <3>1 DEF Drainers
  <2>5. CASE (\E r \in Row: LeaseExpires(r) \/ PayloadLost(r)) \/ UNCHANGED vars
    BY <1>1, <2>5, Batches DEF LeaseExpires, PayloadLost, vars
  <2>6. CASE Crash
    BY <1>1, <2>6, Batches DEF Crash
  <2> QED
    BY <1>1, <2>1, <2>2, <2>3, <2>4, <2>5, <2>6, Batches
<1>3. \A s \in Row: SameBooking(s)
  <2>1. \/ UNCHANGED intent
        \/ \E r: intent' = [intent EXCEPT ![r].started = TRUE]
        \/ \E r: intent' = [intent EXCEPT ![r].expired = TRUE]
    BY ZenonT(40) DEF BeginDrain, EndSweep, EndDrain, Open, Start, Send, LeaseExpires, PayloadLost,
         Crash, vars
  <2> QED
    BY SMTT(40), <1>1, <2>1 DEF SameBooking, Intents
<1>4. UNCHANGED <<order, delivery, restored>> /\ unreadable \subseteq unreadable'
  BY DEF BeginDrain, EndSweep, EndDrain, Open, Start, Send, LeaseExpires, PayloadLost,
       Crash, vars
<1> QED
  BY <1>1, <1>2, <1>3, <1>4, BookUntouched

LEMMA NextBook == ASSUME LeaseInv, BookInv, [Next]_vars PROVE BookInv'
<1>1. ASSUME NEW o \in Order, Seller(o) PROVE BookInv'
  BY <1>1, QueueBook, ConfirmBook, LeaveBook DEF Seller
<1>2. ASSUME NEW d \in Drainer, Continue(d) PROVE BookInv'
  BY <1>2, SweepBook, ClaimBook, RecordBook, RestoreBook, EndLoopBook, QuietBook DEF Continue
<1> QED
  BY <1>1, <1>2, QuietBook DEF Next

\* An order that may be booked again or was cancelled has only dead letters and no
\* tracking number, after any number of bookings, recoveries and reconciliations.
THEOREM ReleasedIsQuietHolds == Spec => []ReleasedIsQuiet
<1>1. LeaseInv /\ BookInv => ReleasedIsQuiet
  <2> SUFFICES ASSUME LeaseInv, BookInv, NEW r \in Row,
                      MayBeRebooked(OrderOf(r)) \/ order[OrderOf(r)].phase = "cancelled"
               PROVE  /\ intent[r].status \in {"absent", "dead_letter"}
                      /\ ~delivery[OrderOf(r)].tracked
    BY DEF ReleasedIsQuiet
  <2>1. PICK o \in Order: o = r[1] /\ OrderOf(r) = o
    BY RowParts DEF OrderOf
  <2>2. \/ order[o].phase = "ready" /\ order[o].delivery = "not_created"
        \/ order[o].phase = "cancelled"
    BY <2>1, OrderReads DEF LeaseInv
  <2>3. intent[r].status \in {"absent", "dead_letter"}
    <3> SUFFICES ASSUME Present(r), intent[r].status # "dead_letter" PROVE FALSE
      BY DEF Present
    <3>1. Mirrored(o, r)
      BY <2>1, OpenIsLast
    <3> QED
      BY <2>2, <3>1 DEF Mirrored
  <2>4. ~delivery[o].tracked
    <3>1. CASE \A n \in Generation: ~Present(<<o, n>>)
      BY <3>1 DEF BookInv, OrderInv, NothingAsked
    <3>2. CASE Latest(o) \in Row /\ Latest(o)[1] = o /\ Last(Latest(o))
      <4>1. Mirrored(o, Latest(o))
        BY <3>2 DEF BookInv, OrderInv
      <4> QED
        BY <2>2, <4>1 DEF Mirrored
    <3> QED
      BY <3>1, <3>2, LastExists DEF LeaseInv
  <2> QED
    BY <2>1, <2>3, <2>4
<1> QED
  BY InitLease, NextLease, InitBook, NextBook, <1>1, PTL DEF Spec

\* The delivery row shows the seller the state of the latest booking, whichever
\* of drain, sweep, recovery or seller wrote last.
THEOREM DeliveryMirrorsIntentHolds == Spec => []DeliveryMirrorsIntent
<1>1. LeaseInv /\ BookInv => DeliveryMirrorsIntent
  <2> SUFFICES ASSUME LeaseInv, BookInv, NEW r \in Row, Present(r), r = Latest(OrderOf(r))
               PROVE  LET shown == delivery[OrderOf(r)].status IN
                      CASE intent[r].status \in {"queued", "processing", "retrying"} ->
                             shown \in {"booking_queued", "booking_retrying"}
                        [] intent[r].status = "failed" ->
                             shown = "reconciliation_required" \/ r \in unreadable
                        [] intent[r].status = "dead_letter" -> shown = "booking_failed"
                        [] OTHER -> shown = "created" /\ delivery[OrderOf(r)].tracked
    BY DEF DeliveryMirrorsIntent, Present
  <2>1. PICK o \in Order: o = r[1] /\ OrderOf(r) = o
    BY RowParts DEF OrderOf
  <2>2. Last(r)
    <3>1. r = <<o, r[2]>> /\ r[2] \in Generation
      BY <2>1, RowParts
    <3>2. ~\A n \in Generation: ~Present(<<o, n>>)
      BY <3>1
    <3> QED
      BY <2>1, <3>2, LastExists DEF LeaseInv
  <2>3. Mirrored(o, r)
    BY <2>1, <2>2 DEF BookInv, OrderInv
  <2> QED
    BY <2>1, <2>3 DEF Mirrored
<1> QED
  BY InitLease, NextLease, InitBook, NextBook, <1>1, PTL DEF Spec

-----------------------------------------------------------------------------
(* ParcelInv is inductive where every adapter owns up to an unknown outcome.  *)
(* With a swallowing adapter NoDuplicateParcel fails: see the findings.       *)

LEMMA InitParcel == Init => ParcelInv
  BY DEF Init, ParcelInv, RowInv, CallInv, OneCall, Row

\* A call that is out is for a started row under the caller's lease, or for one
\* that was given up on as failed, or judged by the seller.
LEMMA CallsAreStarted ==
    ASSUME LeaseInv, ParcelInv, NEW d \in Drainer, drainer[d].pc = "sending",
           NEW r \in Row, r = drainer[d].row
    PROVE  /\ intent[r].status \in {"processing", "failed", "dead_letter", "succeeded"}
           /\ intent[r].status = "processing" => LeaseHeld(d) /\ intent[r].started
           /\ \A e \in Drainer: /\ Calling(e) /\ drainer[e].row = r /\ LeaseHeld(e)
                                => e = d
<1>1. CallInv(d)
  BY DEF ParcelInv
<1>2. intent[r].status = "processing" => LeaseHeld(d)
  BY <1>1 DEF CallInv
<1>3. LeaseHeld(d) => intent[r].started
  BY DEF LeaseInv, LeaseKnows, Calling
<1>4. intent[r].status \in {"processing", "failed", "dead_letter", "succeeded"}
  BY <1>1 DEF CallInv, LeaseHeld
<1>5. ASSUME NEW e \in Drainer, Calling(e), drainer[e].row = r, LeaseHeld(e)
      PROVE  e = d
  <2>1. LeaseHeld(d)
    BY <1>2, <1>5 DEF LeaseHeld
  <2> QED
    BY <1>5, <2>1 DEF LeaseInv, OneRecorder, Calling
<1> QED
  BY <1>2, <1>3, <1>4, <1>5

\* Writing a booking, possibly judging it, while callers stay or leave off.
LEMMA ParcelsKept ==
    ASSUME LeaseInv, ParcelInv, NEW r \in Row,
           \A s \in Row: s # r =>
              /\ intent'[s].status = intent[s].status /\ intent'[s].lease = intent[s].lease
              /\ intent'[s].started = intent[s].started,
           parcels' = parcels, misjudged \subseteq misjudged',
           \A s \in Row: s # r /\ s \in misjudged' => s \in misjudged,
           RowInv(r)',
           \A e \in Drainer: Calling(e)' => drainer'[e] = drainer[e],
           \A e \in Drainer: Calling(e)' /\ drainer[e].row = r =>
              /\ drainer[e].pc = "sending" =>
                   \/ LeaseHeld(e)'
                   \/ intent'[r].status = "failed"
                   \/ intent'[r].status \in {"dead_letter", "succeeded"} /\ r \in misjudged'
              /\ LeaseHeld(e)' => LeaseHeld(e)
    PROVE  ParcelInv'
<1>1. ASSUME NEW s \in Row PROVE RowInv(s)'
  BY DEF ParcelInv, RowInv
<1>2. ASSUME NEW e \in Drainer, Calling(e)'
      PROVE  /\ drainer'[e] = drainer[e] /\ Calling(e) /\ drainer[e].row \in Row
             /\ drainer[e].row # r => (LeaseHeld(e)' <=> LeaseHeld(e))
  <2>1. drainer'[e] = drainer[e] /\ Calling(e)
    BY <1>2 DEF Calling
  <2>2. drainer[e].row \in Row
    BY <2>1 DEF LeaseInv, LeaseKnows, Calling, Working
  <2> QED
    BY <2>1, <2>2 DEF LeaseHeld
<1>3. ASSUME NEW e \in Drainer PROVE CallInv(e)'
  <2>1. CASE ~Calling(e)'
    BY <2>1 DEF CallInv, Calling
  <2>2. CASE Calling(e)' /\ drainer[e].row = r
    BY <2>2, <1>2 DEF CallInv, ParcelInv
  <2>3. CASE Calling(e)' /\ drainer[e].row # r
    BY <2>3, <1>2 DEF CallInv, ParcelInv
  <2> QED
    BY <2>1, <2>2, <2>3
<1>4. OneCall'
  BY <1>2 DEF OneCall, ParcelInv, Calling
<1> QED
  BY <1>1, <1>3, <1>4 DEF ParcelInv

\* Steps without a parcel, a booking or a call in them.
LEMMA CallsUntouched ==
    ASSUME ParcelInv, UNCHANGED <<intent, parcels, misjudged>>,
           \A e \in Drainer: Calling(e)' => drainer'[e] = drainer[e]
    PROVE  ParcelInv'
<1>1. \A s \in Row: RowInv(s)'
  BY DEF ParcelInv, RowInv
<1>2. \A e \in Drainer: CallInv(e)'
  BY DEF ParcelInv, CallInv, Calling, LeaseHeld
<1>3. OneCall'
  BY DEF ParcelInv, OneCall, Calling
<1> QED
  BY <1>1, <1>2, <1>3 DEF ParcelInv

LEMMA QueueParcel ==
    ASSUME LeaseInv, ParcelInv, NEW o \in Order, QueueBooking(o)
    PROVE  ParcelInv'
<1>1. /\ intent \in [Row -> Intents] /\ parcels \in [Row -> Nat]
  BY Typed DEF LeaseInv
<1>2. PICK k \in Nat: k = Cardinality(Generations(o)) /\ Generations(o) = 1..k
  BY GenerationsCounted DEF LeaseInv
<1>3. <<o, k + 1>> \in Row
  BY <1>2 DEF QueueBooking
<1>4. PICK r \in Row: r = <<o, k + 1>>
  BY <1>3
<1>5. /\ intent' = [intent EXCEPT ![r].status = "queued"]
      /\ UNCHANGED <<drainer, parcels, misjudged>>
  BY <1>2, <1>4 DEF QueueBooking
<1>6. ~Present(r)
  <2>1. k + 1 \in Generation
    BY <1>3, RowParts
  <2> QED
    BY <1>2, <1>4, <2>1 DEF Generations, Present, Generation
<1>7. intent'[r].status = "queued" /\ RowInv(r)'
  BY <1>1, <1>5, <1>6 DEF ParcelInv, RowInv, Present, Intents
<1>8. \A e \in Drainer: drainer[e].row = r => drainer[e].pc # "sending"
  BY <1>6, CallsAreStarted DEF Present
<1>9. \A e \in Drainer: drainer[e].row = r => ~LeaseHeld(e)'
  BY <1>5, <1>7 DEF LeaseHeld
<1> QED
  BY <1>1, <1>5, <1>7, <1>8, <1>9, ParcelsKept

LEMMA ConfirmParcel ==
    ASSUME LeaseInv, ParcelInv, NEW o \in Order, NEW r \in Row,
           ConfirmCreated(o, r) \/ ConfirmNotCreated(o, r)
    PROVE  ParcelInv'
<1>1. intent \in [Row -> Intents] /\ parcels \in [Row -> Nat]
  BY Typed DEF LeaseInv
<1>2. intent[r].status = "failed"
  BY DEF ConfirmCreated, ConfirmNotCreated, Ambiguous
<1>3. /\ intent'[r].status \in {"succeeded", "dead_letter"}
      /\ \A s \in Row: s # r => intent'[s] = intent[s]
      /\ UNCHANGED <<drainer, parcels>>
  BY <1>1 DEF ConfirmCreated, ConfirmNotCreated, Intents
<1>4. misjudged' \in {misjudged, misjudged \cup {r}}
  BY DEF ConfirmCreated, ConfirmNotCreated
<1>5. RowInv(r)'
  <2>1. CASE ConfirmCreated(o, r)
    <3>1. intent'[r].status = "succeeded" /\ (r \notin misjudged' => parcels[r] # 0)
      BY <1>1, <2>1 DEF ConfirmCreated, Intents
    <3> QED
      BY <1>1, <1>3, <3>1 DEF ParcelInv, RowInv
  <2>2. CASE ConfirmNotCreated(o, r)
    <3>1. intent'[r].status = "dead_letter" /\ (r \notin misjudged' => ~(parcels[r] > 0))
      BY <1>1, <2>2 DEF ConfirmNotCreated, Intents
    <3> QED
      BY <1>1, <1>3, <3>1 DEF ParcelInv, RowInv
  <2> QED
    BY <2>1, <2>2
<1>6. \A e \in Drainer: drainer[e].pc = "sending" /\ drainer[e].row = r => r \in misjudged'
  <2> SUFFICES ASSUME NEW e \in Drainer, drainer[e].pc = "sending", drainer[e].row = r
               PROVE  r \in misjudged'
    OBVIOUS
  <2>1. parcels[r] = 0
    BY DEF ParcelInv, CallInv
  <2> QED
    BY <2>1 DEF ConfirmCreated, ConfirmNotCreated
<1>7. \A e \in Drainer: drainer[e].row = r => ~LeaseHeld(e)'
  BY <1>3 DEF LeaseHeld
<1> QED
  BY <1>3, <1>4, <1>5, <1>6, <1>7, ParcelsKept

LEMMA SweepParcel ==
    ASSUME LeaseInv, ParcelInv, NEW d \in Drainer, NEW r \in Row,
           Sweep(d, r) \/ DeadLetter(d, r) \/ Recover(d, r)
    PROVE  ParcelInv'
<1>1. intent \in [Row -> Intents] /\ parcels \in [Row -> Nat]
  BY Typed DEF LeaseInv
<1>2. /\ \A s \in Row: s # r => intent'[s] = intent[s]
      /\ UNCHANGED <<drainer, parcels, misjudged>>
  BY <1>1 DEF Sweep, DeadLetter, Recover
<1>3. \/ intent[r].status = "processing" /\ intent'[r].status = "failed"
      \/ /\ \/ intent[r].status \in {"queued", "retrying"}
            \/ intent[r].status = "processing" /\ ~intent[r].started
         /\ intent'[r].status \in {"retrying", "dead_letter"}
  <2>1. CASE Sweep(d, r)
    BY <1>1, <2>1 DEF Sweep, Swept, Expired, Released, Intents
  <2>2. CASE DeadLetter(d, r)
    BY <1>1, <2>2 DEF DeadLetter, Unsent, Claimable, Expired, Released, Intents
  <2>3. CASE Recover(d, r) /\ intent[r].started
    <3>1. intent' = [intent EXCEPT ![r] = [Released(intent[r], "ambiguous")
                                             EXCEPT !.status = "failed"]]
      BY <2>3 DEF Recover
    <3> QED
      BY <1>1, <2>3, <3>1 DEF Recover, Expired, Released, Intents
  <2>4. CASE Recover(d, r) /\ ~intent[r].started
    <3>1. intent' = [intent EXCEPT ![r] = [Released(intent[r], "none") EXCEPT
                       !.status = "retrying", !.attempts = intent[r].attempts - 1]]
      BY <2>4 DEF Recover
    <3> QED
      BY <1>1, <2>4, <3>1 DEF Recover, Expired, Released, Intents
  <2> QED
    BY <2>1, <2>2, <2>3, <2>4
<1>4. RowInv(r)'
  BY <1>1, <1>2, <1>3 DEF ParcelInv, RowInv
<1>5. \A e \in Drainer: drainer[e].pc = "sending" /\ drainer[e].row = r =>
         intent'[r].status = "failed"
  BY <1>3, CallsAreStarted
<1>6. \A e \in Drainer: drainer[e].row = r => ~LeaseHeld(e)'
  BY <1>2, <1>3 DEF LeaseHeld
<1> QED
  BY <1>2, <1>4, <1>5, <1>6, ParcelsKept

\* A claimed row has no call out, and nobody who heard of it holds the new lease.
LEMMA ClaimParcel ==
    ASSUME LeaseInv, LeaseInv', ParcelInv, NEW d \in Drainer, NEW r \in Row, Claim(d, r)
    PROVE  ParcelInv'
<1>1. /\ intent \in [Row -> Intents] /\ drainer \in [Drainer -> Drainers]
  BY Typed DEF LeaseInv
<1>2. /\ intent[r].status \in {"queued", "retrying"}
      /\ intent'[r].status = "processing" /\ ~intent'[r].started
      /\ \A s \in Row: s # r => intent'[s] = intent[s]
      /\ UNCHANGED <<parcels, misjudged>>
      /\ drainer'[d].pc = "claimed"
      /\ \A e \in Drainer: e # d => drainer'[e] = drainer[e]
  BY <1>1 DEF Claim, Claimable, Drainers
<1>3. RowInv(r)'
  BY <1>2 DEF ParcelInv, RowInv
<1>4. \A e \in Drainer: Calling(e)' => drainer'[e] = drainer[e]
  BY <1>2 DEF Calling
<1>5. \A e \in Drainer: drainer[e].row = r => drainer[e].pc # "sending"
  BY <1>2, CallsAreStarted
<1>6. \A e \in Drainer: Calling(e)' /\ drainer[e].row = r => ~LeaseHeld(e)'
  BY <1>2, <1>4 DEF LeaseInv, LeaseKnows
<1> QED
  BY <1>2, <1>3, <1>4, <1>5, <1>6, ParcelsKept

LEMMA StartParcel ==
    ASSUME LeaseInv, ParcelInv, NEW d \in Drainer, Start(d)
    PROVE  ParcelInv'
<1>1. /\ intent \in [Row -> Intents] /\ drainer \in [Drainer -> Drainers]
  BY Typed DEF LeaseInv
<1>2. UNCHANGED <<parcels, misjudged>>
  BY DEF Start
<1>3. CASE ~MayStart(d)
  <2>1. Recorded(d) /\ UNCHANGED intent
    BY <1>3 DEF Start
  <2>2. \A e \in Drainer: Calling(e)' => drainer'[e] = drainer[e]
    BY <1>1, <2>1, RecordedMoves DEF Calling
  <2> QED
    BY <1>2, <2>1, <2>2, CallsUntouched
<1>4. CASE MayStart(d)
  <2>1. PICK r \in Row: r = drainer[d].row
    BY DEF Start, LeaseInv, LeaseKnows, Working
  <2>2. /\ LeaseHeld(d) /\ intent[r].status = "processing" /\ ~intent[r].started
        /\ intent' = [intent EXCEPT ![r].started = TRUE]
        /\ drainer' = [drainer EXCEPT ![d].pc = "sending"]
    BY <1>4, <2>1 DEF Start, MayStart, LeaseHeld
  <2>3. /\ \A s \in Row: /\ intent'[s].status = intent[s].status
                         /\ intent'[s].lease = intent[s].lease
                         /\ s # r => intent'[s] = intent[s]
        /\ intent'[r].started
        /\ \A e \in Drainer: /\ drainer'[e].row = drainer[e].row
                             /\ drainer'[e].token = drainer[e].token
                             /\ e # d => drainer'[e] = drainer[e]
        /\ drainer'[d].pc = "sending"
    BY <1>1, <2>2 DEF Intents, Drainers
  <2>4. parcels[r] = 0
    BY <2>2 DEF ParcelInv, RowInv
  <2>5. ASSUME NEW s \in Row PROVE RowInv(s)'
    BY <1>2, <2>2, <2>3, <2>4 DEF ParcelInv, RowInv
  <2>6. ASSUME NEW e \in Drainer, drainer[e].row \in Row PROVE LeaseHeld(e)' <=> LeaseHeld(e)
    BY <2>3, <2>6 DEF LeaseHeld
  <2>7. \A e \in Drainer: drainer[e].pc = "sending" => drainer[e].row # r
    BY <2>1, <2>2, CallsAreStarted
  <2>8. CallInv(d)'
    BY <1>2, <2>1, <2>2, <2>3, <2>4, <2>6 DEF CallInv
  <2>9. ASSUME NEW e \in Drainer, e # d PROVE CallInv(e)'
    <3>1. CASE ~Calling(e)
      BY <2>3, <2>9, <3>1 DEF CallInv, Calling
    <3>2. CASE Calling(e)
      <4>1. drainer[e].row \in Row
        BY <3>2 DEF LeaseInv, LeaseKnows, Calling, Working
      <4>2. LeaseHeld(e)' <=> LeaseHeld(e)
        BY <2>6, <4>1
      <4> QED
        BY <1>2, <2>3, <2>9, <4>1, <4>2 DEF CallInv, ParcelInv
    <3> QED
      BY <3>1, <3>2
  <2>10. OneCall'
    BY <2>1, <2>3, <2>7 DEF OneCall, ParcelInv
  <2> QED
    BY <2>5, <2>8, <2>9, <2>10 DEF ParcelInv
<1> QED
  BY <1>3, <1>4

\* The provider creates at most the one parcel: the only call that is out finds
\* none, and an adapter that owns up answers a rejection only without one.
LEMMA SendParcel ==
    ASSUME LeaseInv, ParcelInv, Swallowing = {}, NEW d \in Drainer, Send(d)
    PROVE  ParcelInv'
<1>1. /\ intent \in [Row -> Intents] /\ drainer \in [Drainer -> Drainers]
      /\ parcels \in [Row -> Nat]
  BY Typed DEF LeaseInv
<1>2. PICK r \in Row: r = drainer[d].row
  BY DEF Send, LeaseInv, LeaseKnows, Working
<1>3. PICK created \in BOOLEAN, heard \in Answers \ {"none"}:
        /\ heard = "success" => created
        /\ heard = "rejected" => ~created
        /\ parcels' = [parcels EXCEPT ![r] = IF created THEN @ + 1 ELSE @]
        /\ drainer' = [drainer EXCEPT ![d].pc = "answered",
                         ![d].answer = Reported(r, heard)]
  BY <1>2 DEF Send
<1>4. drainer[d].pc = "sending" /\ UNCHANGED <<intent, misjudged>>
  BY DEF Send
<1>5. \A row: Reported(row, heard) = heard
  BY DEF Reported
<1>6. /\ drainer'[d].pc = "answered" /\ drainer'[d].answer = heard
      /\ \A e \in Drainer: /\ drainer'[e].row = drainer[e].row
                           /\ drainer'[e].token = drainer[e].token
                           /\ e # d => drainer'[e] = drainer[e]
  BY <1>1, <1>3, <1>5 DEF Drainers
<1>7. parcels[r] = 0 /\ CallInv(d)
  BY <1>2, <1>4 DEF ParcelInv, CallInv
<1>8. /\ parcels'[r] = IF created THEN 1 ELSE 0
      /\ \A s \in Row: s # r => parcels'[s] = parcels[s]
  BY <1>1, <1>3, <1>7
<1>9. \A e \in Drainer: LeaseHeld(e)' <=> LeaseHeld(e)
  BY <1>4, <1>6 DEF LeaseHeld
<1>10. /\ intent[r].status \in {"processing", "failed", "dead_letter", "succeeded"}
       /\ intent[r].status = "processing" => intent[r].started
       /\ intent[r].status \in {"dead_letter", "succeeded"} => r \in misjudged
  <2>1. /\ intent[r].status \in {"processing", "failed", "dead_letter", "succeeded"}
        /\ intent[r].status = "processing" => intent[r].started
    BY <1>2, <1>4, CallsAreStarted
  <2>2. intent[r].status \in {"dead_letter", "succeeded"} => r \in misjudged
    BY <1>2, <1>4, <1>7 DEF CallInv, LeaseHeld
  <2> QED
    BY <2>1, <2>2
<1>11. ASSUME NEW s \in Row PROVE RowInv(s)'
  <2>1. CASE s = r
    BY <2>1, <1>4, <1>8, <1>10 DEF RowInv, ParcelInv
  <2>2. CASE s # r
    BY <2>2, <1>4, <1>8 DEF RowInv, ParcelInv
  <2> QED
    BY <2>1, <2>2
<1>12. CallInv(d)'
  <2>1. heard = "success" => parcels'[r] > 0
    BY <1>3, <1>8
  <2>2. heard = "rejected" => parcels'[r] = 0
    BY <1>3, <1>8
  <2> QED
    BY <1>2, <1>6, <2>1, <2>2 DEF CallInv
<1>13. ASSUME NEW e \in Drainer, e # d PROVE CallInv(e)'
  <2>1. CASE ~Calling(e)
    BY <1>6, <1>13, <2>1 DEF CallInv, Calling
  <2>2. CASE Calling(e) /\ drainer[e].row # r
    <3>1. drainer[e].row \in Row
      BY <2>2 DEF LeaseInv, LeaseKnows, Calling, Working
    <3> QED
      BY <1>4, <1>6, <1>8, <1>9, <1>13, <2>2, <3>1 DEF CallInv, ParcelInv
  <2>3. CASE Calling(e) /\ drainer[e].row = r
    <3>1. drainer[e].pc = "answered"
      BY <1>2, <1>4, <1>13, <2>3 DEF Calling, ParcelInv, OneCall
    <3>2. ~LeaseHeld(e)
      BY <1>2, <1>4, <1>13, <2>3, CallsAreStarted
    <3>3. drainer[e].answer # "success"
      BY <1>7, <2>3, <3>1 DEF ParcelInv, CallInv
    <3> QED
      BY <1>6, <1>9, <1>13, <3>1, <3>2, <3>3 DEF CallInv
  <2> QED
    BY <2>1, <2>2, <2>3
<1>14. OneCall'
  BY SMTT(40), <1>6 DEF OneCall, ParcelInv
<1> QED
  BY <1>11, <1>12, <1>13, <1>14 DEF ParcelInv

\* What is recorded under the lease is what happened to the parcel.
LEMMA RecordParcel ==
    ASSUME LeaseInv, ParcelInv, NEW d \in Drainer, Receipt(d) \/ Rejection(d) \/ Doubt(d)
    PROVE  ParcelInv'
<1>1. /\ intent \in [Row -> Intents] /\ drainer \in [Drainer -> Drainers]
      /\ parcels \in [Row -> Nat]
  BY SMTT(40), Typed DEF LeaseInv
<1>2. /\ Recorded(d) /\ UNCHANGED <<parcels, misjudged>> /\ drainer[d].pc = "answered"
  BY DEF Receipt, Rejection, Doubt
<1>3. \A e \in Drainer: Calling(e)' => drainer'[e] = drainer[e] /\ e # d
  BY <1>1, <1>2, RecordedMoves DEF Calling
<1>4. CASE UNCHANGED intent
  BY <1>2, <1>3, <1>4, CallsUntouched
<1>5. CASE LeaseHeld(d)
  <2>1. PICK r \in Row: r = drainer[d].row
    BY <1>2 DEF LeaseInv, LeaseKnows, Working
  <2>2. intent[r].status = "processing" /\ CallInv(d)
    BY <1>5, <2>1 DEF LeaseHeld, ParcelInv
  <2>3. \A s \in Row: s # r => intent'[s] = intent[s]
    BY <1>1, <2>1 DEF Receipt, Rejection, Doubt
  <2>4. /\ intent'[r].status \in {"succeeded", "retrying", "dead_letter", "failed"}
        /\ intent'[r].status = "succeeded" => parcels[r] > 0
        /\ intent'[r].status \in {"retrying", "dead_letter"} => parcels[r] = 0
    <3>1. CASE Receipt(d)
      <4>1. intent'[r].status = "succeeded" /\ drainer[d].answer = "success"
        BY <1>1, <2>1, <3>1 DEF Receipt, Released, Intents
      <4> QED
        BY <1>2, <2>1, <2>2, <4>1 DEF CallInv
    <3>2. CASE Rejection(d)
      <4> DEFINE exhausted == Exhausted(drainer[d].attempts)
      <4>1. intent' = [intent EXCEPT ![r] = [Released(intent[r], "rejected") EXCEPT
                         !.status  = IF exhausted THEN "dead_letter" ELSE "retrying",
                         !.started = exhausted]]
            /\ drainer[d].answer = "rejected"
        BY <1>5, <2>1, <3>2 DEF Rejection
      <4> HIDE DEF exhausted
      <4>2. intent'[r].status \in {"retrying", "dead_letter"}
        BY <1>1, <4>1 DEF Released, Intents
      <4>3. parcels[r] = 0
        BY <1>2, <1>5, <2>1, <2>2, <4>1 DEF CallInv
      <4> QED
        BY <4>2, <4>3
    <3>3. CASE Doubt(d)
      <4>1. intent' = [intent EXCEPT ![r] = [Released(intent[r], "ambiguous")
                                               EXCEPT !.status = "failed"]]
        BY <1>5, <2>1, <3>3 DEF Doubt
      <4> QED
        BY <1>1, <4>1 DEF Released, Intents
    <3> QED
      BY <3>1, <3>2, <3>3
  <2>5. RowInv(r)'
    BY <1>2, <2>2, <2>4 DEF ParcelInv, RowInv
  <2>6. \A e \in Drainer: drainer[e].row = r => drainer[e].pc # "sending"
    <3> SUFFICES ASSUME NEW e \in Drainer, drainer[e].row = r, drainer[e].pc = "sending"
                 PROVE  FALSE
      OBVIOUS
    <3>1. d = e
      BY <1>2, <1>5, <2>1, CallsAreStarted DEF Calling
    <3> QED
      BY <1>2, <3>1
  <2>7. \A e \in Drainer: Calling(e)' /\ drainer[e].row = r => ~LeaseHeld(e)'
    BY <1>3, <2>4 DEF LeaseHeld
  <2> QED
    BY <1>2, <1>3, <2>3, <2>5, <2>6, <2>7, ParcelsKept
<1> QED
  BY <1>4, <1>5 DEF Receipt, Rejection, Doubt

LEMMA ExpiryParcel ==
    ASSUME LeaseInv, ParcelInv, NEW r \in Row, LeaseExpires(r)
    PROVE  ParcelInv'
<1>1. intent \in [Row -> Intents]
  BY Typed DEF LeaseInv
<1>2. /\ intent' = [intent EXCEPT ![r].expired = TRUE]
      /\ UNCHANGED <<drainer, parcels, misjudged>>
  BY DEF LeaseExpires
<1>3. \A s \in Row: /\ intent'[s].status = intent[s].status
                    /\ intent'[s].lease = intent[s].lease
                    /\ intent'[s].started = intent[s].started
  BY <1>1, <1>2 DEF Intents
<1>4. RowInv(r)'
  BY <1>2, <1>3 DEF ParcelInv, RowInv
<1>5. \A e \in Drainer: drainer[e].row = r => (LeaseHeld(e)' <=> LeaseHeld(e))
  BY <1>2, <1>3 DEF LeaseHeld
<1>6. \A e \in Drainer: CallInv(e)
  BY DEF ParcelInv
<1> QED
  BY <1>2, <1>3, <1>4, <1>5, <1>6, ParcelsKept DEF CallInv

LEMMA QuietParcel ==
    ASSUME LeaseInv, ParcelInv,
           \/ \E o \in Order: Cancel(o) \/ PickedUp(o)
           \/ \E d \in Drainer: \/ BeginDrain(d) \/ EndSweep(d) \/ EndLoop(d) \/ Restore(d)
                                \/ EndDrain(d) \/ Open(d)
           \/ \E r \in Row: PayloadLost(r)
           \/ Crash \/ UNCHANGED vars
    PROVE  ParcelInv'
<1>1. drainer \in [Drainer -> Drainers]
  BY SMTT(40), Typed DEF LeaseInv
<1>2. UNCHANGED <<intent, parcels, misjudged>>
  BY DEF Cancel, PickedUp, BeginDrain, EndSweep, EndLoop, Restore, EndDrain, Open,
       PayloadLost, Crash, vars
<1>3. \A e \in Drainer: Calling(e)' => drainer'[e] = drainer[e]
  <2>1. ASSUME NEW d \in Drainer, Open(d) PROVE \A e \in Drainer: Calling(e)' => drainer'[e] = drainer[e]
    <3>1. drainer'[d].pc \in {"idle", "opened"} /\ \A e \in Drainer: e # d => drainer'[e] = drainer[e]
      BY <1>1, <2>1 DEF Open, Drainers
    <3> QED
      BY <3>1 DEF Calling
  <2>2. ASSUME NEW d \in Drainer, BeginDrain(d) \/ EndSweep(d) \/ EndLoop(d) \/ Restore(d) \/ EndDrain(d)
        PROVE  \A e \in Drainer: Calling(e)' => drainer'[e] = drainer[e]
    <3>1. drainer'[d].pc \notin {"sending", "answered"} /\ \A e \in Drainer: e # d => drainer'[e] = drainer[e]
      <4>1. CASE BeginDrain(d)
        BY <1>1, <4>1 DEF BeginDrain, Drainers
      <4>2. CASE EndSweep(d)
        BY <1>1, <4>2 DEF EndSweep, Drainers
      <4>3. CASE EndLoop(d)
        <5> DEFINE selected == RestoreSelection
        <5>1. drainer' = [drainer EXCEPT ![d].pc = "restoring", ![d].row = NoRow,
                                         ![d].batch = selected]
          BY <4>3 DEF EndLoop
        <5> HIDE DEF selected
        <5> QED
          BY <1>1, <5>1 DEF Drainers
      <4>4. CASE Restore(d)
        <5>1. PICK r \in drainer[d].batch: drainer' = [drainer EXCEPT ![d].batch = @ \ {r}]
          BY <4>4 DEF Restore
        <5>2. drainer[d].pc = "restoring"
          BY <4>4 DEF Restore
        <5> QED
          BY <1>1, <5>1, <5>2 DEF Drainers
      <4>5. CASE EndDrain(d)
        BY <1>1, <4>5 DEF EndDrain, Drainers
      <4> QED
        BY <2>2, <4>1, <4>2, <4>3, <4>4, <4>5
    <3> QED
      BY <3>1 DEF Calling
  <2>3. Crash => \A e \in Drainer: ~Calling(e)'
    BY DEF Crash, Calling
  <2>4. (\E o \in Order: Cancel(o) \/ PickedUp(o)) \/ (\E r \in Row: PayloadLost(r)) \/ UNCHANGED vars
          => drainer' = drainer
    BY DEF Cancel, PickedUp, PayloadLost, vars
  <2> QED
    BY <2>1, <2>2, <2>3, <2>4
<1> QED
  BY <1>2, <1>3, CallsUntouched

LEMMA NextParcel ==
    ASSUME LeaseInv, LeaseInv', ParcelInv, Swallowing = {}, [Next]_vars
    PROVE  ParcelInv'
<1>1. ASSUME NEW o \in Order, Seller(o) PROVE ParcelInv'
  BY <1>1, QueueParcel, ConfirmParcel, QuietParcel DEF Seller
<1>2. ASSUME NEW d \in Drainer, Continue(d) PROVE ParcelInv'
  BY <1>2, SweepParcel, ClaimParcel, StartParcel, SendParcel, RecordParcel, QuietParcel
     DEF Continue
<1> QED
  BY <1>1, <1>2, ExpiryParcel, QuietParcel DEF Next

\* A booking that is not the last of its order has no parcel nobody judged.
LEMMA OnlyLastHasParcel ==
    ASSUME LeaseInv, BookInv, ParcelInv, NEW r \in Row, parcels[r] > 0, r \notin misjudged
    PROVE  /\ intent[r].status \in {"processing", "failed", "succeeded"}
           /\ Last(r) /\ Mirrored(r[1], r)
<1>1. parcels[r] \in Nat /\ intent[r].status \in IntentStatus
  BY Typed DEF LeaseInv, Intents
<1>2. intent[r].status \in {"processing", "failed", "succeeded"}
  BY <1>1 DEF ParcelInv, RowInv, IntentStatus
<1> QED
  BY <1>2, OpenIsLast DEF Present

\* Where no adapter swallows an unknown outcome, retries, leases, crashes and
\* rebookings never make the provider create a second parcel that the seller did
\* not attest away.
THEOREM NoDuplicateParcelHolds == Swallowing = {} => (Spec => []NoDuplicateParcel)
<1> SUFFICES ASSUME Swallowing = {} PROVE Spec => []NoDuplicateParcel
  OBVIOUS
<1>1. LeaseInv /\ BookInv /\ ParcelInv => NoDuplicateParcel
  <2> SUFFICES ASSUME LeaseInv, BookInv, ParcelInv PROVE NoDuplicateParcel
    OBVIOUS
  <2>1. \A r \in Row: parcels[r] <= 1
    BY DEF ParcelInv, RowInv
  <2>2. ASSUME NEW r \in Row, NEW s \in Row, OrderOf(r) = OrderOf(s), r # s,
               parcels[r] > 0, parcels[s] > 0, r \notin misjudged, s \notin misjudged
        PROVE  FALSE
    <3>1. Last(r) /\ Last(s)
      BY <2>2, OnlyLastHasParcel
    <3>2. r[1] = s[1] /\ r[2] \in Nat /\ s[2] \in Nat /\ r[2] # s[2]
      BY <2>2, RowParts DEF OrderOf, Generation
    <3>3. Present(<<r[1], r[2]>>) /\ Present(<<s[1], s[2]>>)
      BY <3>1, RowParts DEF Last
    <3> QED
      BY <3>1, <3>2, <3>3, RowParts DEF Last
  <2> QED
    BY <2>1, <2>2 DEF NoDuplicateParcel
<1>2. LeaseInv /\ LeaseInv' /\ ParcelInv /\ [Next]_vars => ParcelInv'
  BY NextParcel
<1> QED
  BY InitLease, NextLease, InitBook, NextBook, InitParcel, <1>1, <1>2, PTL DEF Spec

\* Where no adapter swallows an unknown outcome, a parcel the provider created
\* stays under way, in doubt or succeeded, and its order waits for the courier or
\* is shipped, unless its seller attested otherwise.
THEOREM NoForgottenParcelHolds == Swallowing = {} => (Spec => []NoForgottenParcel)
<1> SUFFICES ASSUME Swallowing = {} PROVE Spec => []NoForgottenParcel
  OBVIOUS
<1>1. LeaseInv /\ BookInv /\ ParcelInv => NoForgottenParcel
  <2> SUFFICES ASSUME LeaseInv, BookInv, ParcelInv,
                      NEW r \in Row, parcels[r] > 0, r \notin misjudged
               PROVE  /\ intent[r].status \in {"processing", "failed", "succeeded"}
                      /\ AwaitsCourier(OrderOf(r)) \/ order[OrderOf(r)].phase = "shipped"
    BY DEF NoForgottenParcel
  <2>1. PICK o \in Order: o = r[1] /\ OrderOf(r) = o
    BY RowParts DEF OrderOf
  <2>2. intent[r].status \in {"processing", "failed", "succeeded"} /\ Mirrored(o, r)
    BY <2>1, OnlyLastHasParcel
  <2>3. order[o].phase \in {"ready", "shipped"} /\ order[o].delivery = "pending"
    BY <2>2 DEF Mirrored
  <2> QED
    BY <2>1, <2>2, <2>3, OrderReads DEF LeaseInv
<1>2. LeaseInv /\ LeaseInv' /\ ParcelInv /\ [Next]_vars => ParcelInv'
  BY NextParcel
<1> QED
  BY InitLease, NextLease, InitBook, NextBook, InitParcel, <1>1, <1>2, PTL DEF Spec

-----------------------------------------------------------------------------
(* CourierBooking implements CourierPromise *)

promised == <<[o \in Order |-> Standing(o)], [o \in Order |-> HasParcel(o)]>>

\* What one step may do to what the seller of an order sees.
Promised(o) ==
    \/ Standing(o)' = Standing(o) /\ (HasParcel(o)' <=> HasParcel(o))
    \/ /\ Standing(o) = "free" /\ Standing(o)' = "asked"
       /\ ~HasParcel(o) /\ ~HasParcel(o)'
    \/ /\ Standing(o) \in {"asked", "doubt"} /\ Standing(o)' = Standing(o)
       /\ ~HasParcel(o) /\ HasParcel(o)'
    \/ Standing(o) = "asked" /\ Standing(o)' = "booked" /\ HasParcel(o) /\ HasParcel(o)'
    \/ Standing(o) = "asked" /\ Standing(o)' = "refused" /\ ~HasParcel(o) /\ ~HasParcel(o)'
    \/ Standing(o) = "asked" /\ Standing(o)' = "doubt" /\ (HasParcel(o)' <=> HasParcel(o))
    \/ /\ Standing(o) \in {"asked", "refused"} /\ Standing(o)' = "free"
       /\ ~HasParcel(o) /\ ~HasParcel(o)'
    \/ Standing(o) = "doubt" /\ Standing(o)' = "booked" /\ (HasParcel(o)' <=> HasParcel(o))
    \/ Standing(o) = "doubt" /\ Standing(o)' = "free" /\ ~HasParcel(o)'
    \/ /\ Standing(o) \in {"booked", "free"} /\ Standing(o)' = "gone"
       /\ HasParcel(o)' <=> HasParcel(o)

LEMMA PromiseStep ==
    ASSUME NEW o \in Order, Promised(o),
           \A q \in Order: q # o => Standing(q)' = Standing(q) /\ (HasParcel(q)' <=> HasParcel(q))
    PROVE  [Promise!Next]_promised
<1> DEFINE st == [q \in Order |-> Standing(q)]
           pa == [q \in Order |-> HasParcel(q)]
<1>1. /\ st[o] = Standing(o) /\ pa[o] = HasParcel(o)
      /\ st' = [st EXCEPT ![o] = Standing(o)']
  BY DEF Promised
<1>2. (HasParcel(o)' <=> HasParcel(o)) => pa' = pa
  <2> SUFFICES ASSUME HasParcel(o)' <=> HasParcel(o) PROVE pa' = pa
    OBVIOUS
  <2>1. \A q \in Order: HasParcel(q)' = HasParcel(q)
    BY DEF HasParcel
  <2> QED
    BY <2>1
<1>3. pa' = [pa EXCEPT ![o] = HasParcel(o)']
  <2>1. \A q \in Order: q # o => HasParcel(q)' = HasParcel(q)
    BY DEF HasParcel
  <2> QED
    BY <2>1
<1>4. /\ HasParcel(o)' => HasParcel(o)' = TRUE
      /\ ~HasParcel(o)' => HasParcel(o)' = FALSE
  BY DEF HasParcel
<1>5. st' = st \/ st' = [st EXCEPT ![o] = Standing(o)']
  BY <1>1
<1>6. Standing(o)' = Standing(o) => st' = st
  BY <1>1
<1> DEFINE Here == \/ Promise!Ask(o) \/ Promise!Create(o) \/ Promise!Accept(o) \/ Promise!Refuse(o)
                   \/ Promise!LoseSight(o) \/ Promise!GiveBack(o) \/ Promise!Find(o)
                   \/ Promise!Deny(o) \/ Promise!Leave(o)
<1>7. Here => Promise!Next
  BY DEF Promise!Next
<1>8. Here \/ (st' = st /\ pa' = pa)
  <2> HIDE DEF st, pa
  <2>1. CASE Standing(o)' = Standing(o) /\ (HasParcel(o)' <=> HasParcel(o))
    BY <2>1, <1>2, <1>6
  <2> QED
    BY <2>1, <1>1, <1>2, <1>3, <1>4, <1>6 DEF Promised, st, pa, Promise!Ask, Promise!Create, Promise!Accept,
         Promise!Refuse, Promise!LoseSight, Promise!GiveBack, Promise!Find, Promise!Deny,
         Promise!Leave, Promise!Move
<1> QED
  BY <1>7, <1>8 DEF promised

\* What the seller sees is read off the last booking.
StandingRead ==
    /\ \A r \in Row: Last(r) =>
         /\ order[r[1]].phase # "ready" => Standing(r[1]) = "gone"
         /\ order[r[1]].phase = "ready" /\ order[r[1]].delivery = "not_created"
              => Standing(r[1]) = "free"
         /\ order[r[1]].phase = "ready" /\ order[r[1]].delivery = "pending" =>
              /\ intent[r].status \in {"queued", "processing", "retrying"} => Standing(r[1]) = "asked"
              /\ intent[r].status = "failed" => Standing(r[1]) = "doubt"
              /\ intent[r].status = "dead_letter" => Standing(r[1]) = "refused"
              /\ intent[r].status = "succeeded" => Standing(r[1]) = "booked"
    /\ \A o \in Order: (\A n \in Generation: ~Present(<<o, n>>)) =>
         /\ order[o].phase = "ready" /\ order[o].delivery = "not_created" => Standing(o) = "free"
         /\ order[o].phase # "ready" => Standing(o) = "gone"

ParcelRead ==
    /\ \A r \in Row: Last(r) => (HasParcel(r[1]) <=> parcels[r] > 0 /\ r \notin misjudged)
    /\ \A o \in Order: (\A n \in Generation: ~Present(<<o, n>>)) => ~HasParcel(o)

LEMMA LastIsLatest ==
    ASSUME NoGaps, NEW r \in Row, Last(r)
    PROVE  Latest(r[1]) = r
<1>1. PICK o \in Order: o = r[1]
  BY RowParts
<1>2. r = <<o, r[2]>> /\ r[2] \in Generation
  BY <1>1, RowParts
<1>3. PICK k \in Nat: k = Cardinality(Generations(o)) /\ Generations(o) = 1..k
  BY GenerationsCounted
<1>4. \A n \in Generation: Present(<<o, n>>) <=> n \in 1..k
  BY <1>3 DEF Generations, Present, Generation
<1>5. PICK m \in Generation: m = r[2]
  BY <1>2
<1>6. m \in 1..k /\ r = <<o, m>>
  BY <1>2, <1>4, <1>5 DEF Last
<1>7. k \in Nat /\ m \in Nat /\ m > 0 /\ m <= k
  BY <1>3, <1>6
<1>8. k \in 1..k
  BY <1>7
<1>9. k \in Generation /\ Present(<<o, k>>)
  BY <1>3, <1>8 DEF Generations, Generation, Present
<1>10. ~(k > m)
  BY <1>1, <1>5, <1>9 DEF Last
<1>11. m = k
  BY <1>7, <1>10
<1> QED
  BY <1>1, <1>3, <1>6, <1>11 DEF Latest

LEMMA StandingReads == LeaseInv => StandingRead
<1> SUFFICES ASSUME LeaseInv PROVE StandingRead
  OBVIOUS
<1>1. ASSUME NEW r \in Row, Last(r)
      PROVE  /\ order[r[1]].phase # "ready" => Standing(r[1]) = "gone"
             /\ order[r[1]].phase = "ready" /\ order[r[1]].delivery = "not_created"
                  => Standing(r[1]) = "free"
             /\ order[r[1]].phase = "ready" /\ order[r[1]].delivery = "pending" =>
                  /\ intent[r].status \in {"queued", "processing", "retrying"} => Standing(r[1]) = "asked"
                  /\ intent[r].status = "failed" => Standing(r[1]) = "doubt"
                  /\ intent[r].status = "dead_letter" => Standing(r[1]) = "refused"
                  /\ intent[r].status = "succeeded" => Standing(r[1]) = "booked"
  <2>1. PICK o \in Order: o = r[1] /\ Latest(o) = r
    BY <1>1, RowParts, LastIsLatest DEF LeaseInv
  <2>2. MayBeRebooked(o) <=> order[o].phase = "ready" /\ order[o].delivery = "not_created"
    BY OrderReads DEF LeaseInv
  <2> QED
    BY <2>1, <2>2 DEF Standing
<1>2. ASSUME NEW o \in Order
      PROVE  /\ order[o].phase = "ready" /\ order[o].delivery = "not_created" => Standing(o) = "free"
             /\ order[o].phase # "ready" => Standing(o) = "gone"
  <2>1. MayBeRebooked(o) <=> order[o].phase = "ready" /\ order[o].delivery = "not_created"
    BY OrderReads DEF LeaseInv
  <2> QED
    BY <2>1 DEF Standing
<1> QED
  BY <1>1, <1>2 DEF StandingRead

LEMMA ParcelReads == LeaseInv /\ BookInv /\ ParcelInv => ParcelRead
<1> SUFFICES ASSUME LeaseInv, BookInv, ParcelInv PROVE ParcelRead
  OBVIOUS
<1>1. ASSUME NEW r \in Row, Last(r)
      PROVE  HasParcel(r[1]) <=> parcels[r] > 0 /\ r \notin misjudged
  <2>1. PICK o \in Order: o = r[1] /\ r = <<o, r[2]>> /\ r[2] \in Generation /\ Latest(o) = r
    BY <1>1, RowParts, LastIsLatest DEF LeaseInv
  <2>2. ASSUME NEW n \in Generations(o), parcels[<<o, n>>] > 0, <<o, n>> \notin misjudged
        PROVE  <<o, n>> = r
    <3>1. PICK s \in Row: s = <<o, n>> /\ s[1] = o
      BY <2>2, RowParts DEF Generations, Generation
    <3>2. Last(s)
      BY <2>2, <3>1, OnlyLastHasParcel
    <3>3. Latest(o) = s
      BY <3>1, <3>2, LastIsLatest DEF LeaseInv
    <3> QED
      BY <2>1, <3>1, <3>3
  <2>3. HasParcel(o) => parcels[r] > 0 /\ r \notin misjudged
    BY <2>2 DEF HasParcel
  <2>4. r[2] \in Generations(o)
    BY <1>1, <2>1 DEF Generations, Generation, Last, Present
  <2>5. parcels[r] > 0 /\ r \notin misjudged => HasParcel(o)
    BY <2>1, <2>4 DEF HasParcel
  <2> QED
    BY <2>1, <2>3, <2>5
<1>2. ASSUME NEW o \in Order, \A n \in Generation: ~Present(<<o, n>>) PROVE ~HasParcel(o)
  BY <1>2 DEF HasParcel, Generations, Generation, Present
<1> QED
  BY <1>1, <1>2 DEF ParcelRead

\* An order none of whose bookings, parcels or judgements changes looks the same.
LEMMA SameStanding ==
    ASSUME LeaseInv, BookInv, NEW o \in Order, order'[o] = order[o],
           \A s \in Row: s[1] = o =>
             /\ intent'[s].status = intent[s].status
             /\ parcels'[s] = parcels[s]
             /\ s \in misjudged' <=> s \in misjudged
    PROVE  Standing(o)' = Standing(o) /\ (HasParcel(o)' <=> HasParcel(o))
<1>1. \A n \in 1..MaxGenerations: <<o, n>> \in Row /\ <<o, n>>[1] = o
  BY RowParts DEF Generation
<1>2. Generations(o)' = Generations(o)
  BY <1>1 DEF Generations
<1>3. HasParcel(o)' <=> HasParcel(o)
  <2>1. \A n \in Generations(o): /\ parcels'[<<o, n>>] = parcels[<<o, n>>]
                                 /\ <<o, n>> \in misjudged' <=> <<o, n>> \in misjudged
    BY <1>1 DEF Generations
  <2> QED
    BY <1>2, <2>1 DEF HasParcel
<1>4. Standing(o)' = Standing(o)
  <2>1. Latest(o)' = Latest(o)
    BY <1>2 DEF Latest
  <2>2. CASE Latest(o) \in Row /\ Latest(o)[1] = o
    <3>1. PICK r \in Row: r = Latest(o) /\ intent'[r].status = intent[r].status
      BY <2>2
    <3> QED
      BY <2>1, <3>1 DEF Standing, MayBeRebooked
  <2>3. CASE \A n \in Generation: ~Present(<<o, n>>)
    <3>1. order[o].delivery = "not_created"
      BY <2>3 DEF BookInv, OrderInv, NothingAsked
    <3>2. MayBeRebooked(o) \/ order[o].phase # "ready"
      BY <3>1, OrderReads DEF LeaseInv
    <3> QED
      BY <3>2 DEF Standing, MayBeRebooked
  <2> QED
    BY <2>2, <2>3, LastExists DEF LeaseInv
<1> QED
  BY <1>3, <1>4

PromiseInv == LeaseInv /\ BookInv /\ ParcelInv

LEMMA Reads == PromiseInv => StandingRead /\ ParcelRead
  BY StandingReads, ParcelReads DEF PromiseInv

SameRow(s) == /\ intent'[s].status = intent[s].status
              /\ parcels'[s] = parcels[s]
              /\ s \in misjudged' <=> s \in misjudged

\* A step that changes nothing of what is read, anywhere.
LEMMA PromiseUntouched ==
    ASSUME PromiseInv, \A o \in Order: order'[o] = order[o], \A s \in Row: SameRow(s)
    PROVE  [Promise!Next]_promised
<1>1. \A o \in Order: Standing(o)' = Standing(o) /\ (HasParcel(o)' <=> HasParcel(o))
  BY SameStanding DEF PromiseInv, SameRow
<1>2. \A o \in Order: HasParcel(o)' = HasParcel(o)
  BY <1>1 DEF HasParcel
<1> QED
  BY <1>1, <1>2 DEF promised

\* A step on one order, and on its bookings.
LEMMA PromiseAt ==
    ASSUME PromiseInv, NEW o \in Order, Promised(o),
           \A q \in Order: q # o => order'[q] = order[q],
           \A s \in Row: s[1] # o => SameRow(s)
    PROVE  [Promise!Next]_promised
<1>1. \A q \in Order: q # o => Standing(q)' = Standing(q) /\ (HasParcel(q)' <=> HasParcel(q))
  BY SameStanding DEF PromiseInv, SameRow
<1> QED
  BY <1>1, PromiseStep

\* A step that writes the last booking of an order leaves it the last.
LEMMA PromiseLast ==
    ASSUME PromiseInv, PromiseInv', NEW r \in Row, Last(r), Present(r)',
           \A s \in Row: s # r => SameRow(s),
           \A q \in Order: q # r[1] => order'[q] = order[q],
           Last(r)' /\ StandingRead /\ ParcelRead /\ StandingRead' /\ ParcelRead' => Promised(r[1])
    PROVE  [Promise!Next]_promised
<1>1. /\ r[1] \in Order /\ r[2] \in Generation
      /\ \A n \in Generation: /\ <<r[1], n>> \in Row
                              /\ n > r[2] => <<r[1], n>> # r
  BY RowParts DEF Generation
<1>2. Last(r)'
  BY <1>1 DEF Last, Present, SameRow
<1>3. StandingRead /\ ParcelRead /\ StandingRead' /\ ParcelRead'
  BY Reads, PTL
<1>4. \A s \in Row: s[1] # r[1] => SameRow(s)
  OBVIOUS
<1> QED
  BY <1>1, <1>2, <1>3, <1>4, PromiseAt

LEMMA InitPromise == Init => Promise!Init
<1> SUFFICES ASSUME Init PROVE Promise!Init
  OBVIOUS
<1>1. \A o \in Order: MayBeRebooked(o) /\ order[o].phase = "ready"
  BY DEF Init, MayBeRebooked
<1>2. \A o \in Order: Standing(o) = "free"
  BY <1>1 DEF Standing
<1>3. \A o \in Order: Generations(o) = {}
  BY DEF Init, Generations, Row
<1>4. \A o \in Order: HasParcel(o) = FALSE
  BY <1>3 DEF HasParcel
<1> QED
  BY <1>2, <1>4 DEF Promise!Init

LEMMA QueuePromise ==
    ASSUME PromiseInv, PromiseInv', NEW o \in Order, QueueBooking(o)
    PROVE  [Promise!Next]_promised
<1>1. /\ order \in [Order -> Orders] /\ intent \in [Row -> Intents] /\ TypeOK
      /\ LeaseInv /\ BookInv /\ ParcelInv /\ LeaseInv' /\ BookInv' /\ ParcelInv'
  BY Typed DEF PromiseInv, LeaseInv
<1>2. PICK k \in Nat: k = Cardinality(Generations(o)) /\ Generations(o) = 1..k
  BY <1>1, GenerationsCounted DEF LeaseInv
<1>3. <<o, k + 1>> \in Row
  BY <1>2 DEF QueueBooking
<1>4. PICK r \in Row: r = <<o, k + 1>> /\ r[1] = o /\ r[2] = k + 1
  BY <1>3, RowParts
<1>5. /\ MayBeRebooked(o)
      /\ intent' = [intent EXCEPT ![r].status = "queued"]
      /\ order' = [order EXCEPT ![o].delivery = "pending"]
      /\ UNCHANGED <<parcels, misjudged>>
  BY <1>2, <1>4 DEF QueueBooking
<1>6. /\ intent'[r].status = "queued" /\ \A s \in Row: s # r => intent'[s] = intent[s]
      /\ order[o].phase = "ready" /\ order[o].delivery = "not_created"
      /\ order'[o].phase = "ready" /\ order'[o].delivery = "pending"
      /\ \A q \in Order: q # o => order'[q] = order[q]
  BY <1>1, <1>5, OrderReads DEF Intents, Orders
<1>7. /\ StandingRead' /\ ParcelRead' /\ ParcelRead
  BY Reads, PTL
<1>8. Standing(o) = "free"
  BY <1>5, <1>6 DEF Standing
<1>9. ~HasParcel(o)
  <2>1. CASE \A n \in Generation: ~Present(<<o, n>>)
    BY <1>7, <2>1 DEF ParcelRead
  <2>2. CASE Latest(o) \in Row /\ Latest(o)[1] = o /\ Last(Latest(o))
    <3>1. PICK t \in Row: t[1] = o /\ Last(t)
      BY <2>2
    <3>2. Mirrored(o, t)
      BY <1>1, <3>1 DEF BookInv, OrderInv
    <3>3. intent[t].status = "dead_letter"
      BY <1>6, <3>2 DEF Mirrored
    <3>4. parcels[t] > 0 => t \in misjudged
      BY <1>1, <3>3 DEF ParcelInv, RowInv
    <3> QED
      BY <1>7, <3>1, <3>4 DEF ParcelRead
  <2> QED
    BY <1>1, <2>1, <2>2, LastExists DEF LeaseInv
<1>10. Last(r)'
  <2>1. \A n \in Generation: n > k + 1 => /\ ~Present(<<o, n>>)
                                         /\ <<o, n>> \in Row /\ <<o, n>> # r
    BY <1>2, <1>4, RowParts DEF Generations, Present, Generation
  <2>2. \A n \in Generation: n > k + 1 => ~Present(<<o, n>>)'
    BY <1>6, <2>1 DEF Present
  <2> QED
    BY <1>4, <1>6, <2>2 DEF Last, Present
<1>11. Standing(o)' = "asked"
  BY <1>4, <1>6, <1>7, <1>10 DEF StandingRead
<1>12. ~HasParcel(o)'
  <2>1. parcels'[r] = 0
    BY <1>1, <1>6 DEF ParcelInv, RowInv
  <2> QED
    BY <1>4, <1>7, <1>10, <2>1 DEF ParcelRead
<1>13. Promised(o)
  BY <1>8, <1>9, <1>11, <1>12 DEF Promised
<1>14. \A s \in Row: s[1] # o => SameRow(s)
  BY <1>4, <1>5, <1>6 DEF SameRow
<1> QED
  BY <1>6, <1>13, <1>14, PromiseAt

LEMMA ConfirmPromise ==
    ASSUME PromiseInv, PromiseInv', NEW o \in Order, NEW r \in Row,
           ConfirmCreated(o, r) \/ ConfirmNotCreated(o, r)
    PROVE  [Promise!Next]_promised
<1>1. /\ order \in [Order -> Orders] /\ intent \in [Row -> Intents] /\ parcels \in [Row -> Nat]
      /\ LeaseInv /\ BookInv
  BY Typed DEF PromiseInv, LeaseInv
<1>2. r[1] = o /\ intent[r].status = "failed" /\ Present(r)
  BY DEF ConfirmCreated, ConfirmNotCreated, Ambiguous, OrderOf, Present
<1>3. Last(r) /\ order[o].phase = "ready" /\ order[o].delivery = "pending"
  <2>1. Last(r) /\ Mirrored(o, r)
    BY <1>1, <1>2, OpenIsLast
  <2> QED
    BY <1>2, <2>1 DEF Mirrored
<1>4. /\ \A s \in Row: s # r => SameRow(s)
      /\ \A q \in Order: q # o => order'[q] = order[q]
      /\ parcels' = parcels
  BY <1>1 DEF ConfirmCreated, ConfirmNotCreated, SameRow
<1>5. CASE ConfirmCreated(o, r)
  <2>1. /\ intent'[r].status = "succeeded" /\ order' = order
        /\ parcels[r] > 0 /\ r \notin misjudged <=> parcels[r] > 0 /\ r \notin misjudged'
    BY <1>1, <1>5 DEF ConfirmCreated, Intents
  <2> QED
    BY <1>2, <1>3, <1>4, <2>1, PromiseLast DEF StandingRead, ParcelRead, Promised, Present
<1>6. CASE ConfirmNotCreated(o, r)
  <2>1. /\ intent'[r].status = "dead_letter"
        /\ order'[o].phase = "ready" /\ order'[o].delivery = "not_created"
        /\ ~(parcels[r] > 0 /\ r \notin misjudged')
    BY <1>1, <1>3, <1>6 DEF ConfirmNotCreated, Intents, Orders
  <2> QED
    BY <1>2, <1>3, <1>4, <2>1, PromiseLast DEF StandingRead, ParcelRead, Promised, Present
<1> QED
  BY <1>5, <1>6

LEMMA LeavePromise ==
    ASSUME PromiseInv, PromiseInv', NEW o \in Order, Cancel(o) \/ PickedUp(o)
    PROVE  [Promise!Next]_promised
<1>1. /\ order \in [Order -> Orders] /\ TypeOK /\ LeaseInv /\ BookInv
  BY Typed DEF PromiseInv, LeaseInv
<1>2. /\ UNCHANGED <<delivery, intent, parcels, misjudged>>
      /\ order[o].phase = "ready" /\ order'[o].phase # "ready"
      /\ \A p \in Order: p # o => order'[p] = order[p]
      /\ \/ order[o].delivery = "not_created"
         \/ order[o].delivery = "pending" /\ delivery[o].tracked
  BY <1>1, OrderReads DEF Cancel, PickedUp, Orders
<1>3. StandingRead /\ StandingRead'
  BY Reads, PTL
<1>4. Standing(o)' = "gone" /\ Standing(o) \in {"free", "booked"}
  <2>1. CASE \A n \in Generation: ~Present(<<o, n>>)
    <3>1. order[o].delivery = "not_created"
      BY <1>1, <2>1 DEF BookInv, OrderInv, NothingAsked
    <3>2. \A n \in Generation: ~Present(<<o, n>>)'
      BY <1>2, <2>1 DEF Present
    <3> QED
      BY <1>2, <1>3, <2>1, <3>1, <3>2 DEF StandingRead
  <2>2. CASE Latest(o) \in Row /\ Latest(o)[1] = o /\ Last(Latest(o))
    <3>1. PICK t \in Row: t[1] = o /\ Last(t)
      BY <2>2
    <3>2. Mirrored(o, t)
      BY <1>1, <3>1 DEF BookInv, OrderInv
    <3>3. order[o].delivery = "pending" => intent[t].status = "succeeded"
      <4>1. intent[t].status \in IntentStatus /\ intent[t].status # "absent"
        BY <1>1, <3>1, Typed DEF Intents, Last, Present
      <4> QED
        BY <1>2, <3>2, <4>1 DEF Mirrored, IntentStatus
    <3>4. Last(t)'
      BY <1>2, <3>1 DEF Last, Present
    <3> QED
      BY <1>2, <1>3, <3>1, <3>3, <3>4 DEF StandingRead
  <2> QED
    BY <1>1, <2>1, <2>2, LastExists DEF LeaseInv
<1>5. HasParcel(o)' <=> HasParcel(o)
  BY <1>2 DEF HasParcel, Generations
<1>6. \A s \in Row: SameRow(s)
  BY <1>2 DEF SameRow
<1> QED
  BY <1>2, <1>4, <1>5, <1>6, PromiseAt DEF Promised

LEMMA SweepPromise ==
    ASSUME PromiseInv, PromiseInv', NEW d \in Drainer, NEW r \in Row,
           Sweep(d, r) \/ DeadLetter(d, r) \/ Recover(d, r)
    PROVE  [Promise!Next]_promised
<1>1. /\ order \in [Order -> Orders] /\ intent \in [Row -> Intents] /\ parcels \in [Row -> Nat]
      /\ TypeOK /\ BookInv /\ ParcelInv
  BY Typed DEF PromiseInv, LeaseInv
<1>2. PICK o \in Order: r[1] = o /\ OrderOf(r) = o
  BY RowParts DEF OrderOf
<1>3. intent[r].status \in {"queued", "retrying", "processing"} /\ Present(r)
  BY DEF Sweep, Swept, DeadLetter, Unsent, Claimable, Recover, Expired, Present
<1>4. Last(r) /\ order[o].phase = "ready" /\ order[o].delivery = "pending"
  <2>1. Last(r) /\ Mirrored(o, r)
    BY <1>1, <1>2, <1>3, OpenIsLast
  <2> QED
    BY <1>3, <2>1 DEF Mirrored
<1>5. /\ \A s \in Row: s # r => SameRow(s)
      /\ \A q \in Order: q # o => order'[q] = order[q]
      /\ UNCHANGED <<parcels, misjudged>>
  BY <1>1, <1>2 DEF Sweep, DeadLetter, Recover, SameRow
<1>6. CASE Sweep(d, r)
  <2>1. intent'[r].status = "failed" /\ order' = order
    BY <1>1, <1>6 DEF Sweep, Released, Intents
  <2> QED
    BY <1>2, <1>3, <1>4, <1>5, <2>1, PromiseLast DEF StandingRead, ParcelRead, Promised, Present
<1>7. CASE DeadLetter(d, r)
  <2>1. intent'[r].status = "dead_letter" /\ parcels[r] = 0
    BY <1>1, <1>7 DEF DeadLetter, Unsent, Claimable, Expired, Released, Intents, ParcelInv, RowInv
  <2>2. order'[o].phase = "ready" /\ order'[o].delivery = "not_created"
    <3>1. AwaitsCourier(o)
      BY <1>1, <1>4, OrderReads
    <3> QED
      BY <1>1, <1>2, <1>4, <1>7, <3>1 DEF DeadLetter, Orders
  <2> QED
    BY <1>2, <1>3, <1>4, <1>5, <2>1, <2>2, PromiseLast DEF StandingRead, ParcelRead, Promised, Present
<1>8. CASE Recover(d, r)
  <2>1. intent'[r].status \in {"failed", "retrying"} /\ order' = order
    <3>1. CASE intent[r].started
      <4>1. intent' = [intent EXCEPT ![r] = [Released(intent[r], "ambiguous")
                                               EXCEPT !.status = "failed"]]
        BY <1>8, <3>1 DEF Recover
      <4> QED
        BY <1>1, <1>8, <4>1 DEF Recover, Released, Intents
    <3>2. CASE ~intent[r].started
      <4>1. intent' = [intent EXCEPT ![r] = [Released(intent[r], "none") EXCEPT
                         !.status = "retrying", !.attempts = intent[r].attempts - 1]]
        BY <1>8, <3>2 DEF Recover
      <4> QED
        BY <1>1, <1>8, <4>1 DEF Recover, Released, Intents
    <3> QED
      BY <3>1, <3>2
  <2> QED
    BY <1>2, <1>3, <1>4, <1>5, <2>1, PromiseLast DEF StandingRead, ParcelRead, Promised, Present
<1> QED
  BY <1>6, <1>7, <1>8

LEMMA ClaimPromise ==
    ASSUME PromiseInv, PromiseInv', NEW d \in Drainer, NEW r \in Row, Claim(d, r)
    PROVE  [Promise!Next]_promised
<1>1. /\ intent \in [Row -> Intents] /\ LeaseInv /\ BookInv
  BY Typed DEF PromiseInv, LeaseInv
<1>2. PICK o \in Order: r[1] = o
  BY RowParts
<1>3. /\ intent[r].status \in {"queued", "retrying"} /\ Present(r)
      /\ intent'[r].status = "processing"
      /\ \A s \in Row: s # r => SameRow(s)
      /\ UNCHANGED <<order, parcels, misjudged>>
  BY <1>1 DEF Claim, Claimable, Present, SameRow
<1>4. Last(r) /\ order[o].phase = "ready" /\ order[o].delivery = "pending"
  <2>1. Last(r) /\ Mirrored(o, r)
    BY <1>1, <1>2, <1>3, OpenIsLast
  <2> QED
    BY <1>3, <2>1 DEF Mirrored
<1> QED
  BY <1>2, <1>3, <1>4, PromiseLast DEF StandingRead, ParcelRead, Promised, Present

\* The one call that is out creates the order's only parcel.
LEMMA SendPromise ==
    ASSUME PromiseInv, PromiseInv', NEW d \in Drainer, Send(d)
    PROVE  [Promise!Next]_promised
<1>1. /\ intent \in [Row -> Intents] /\ parcels \in [Row -> Nat]
      /\ LeaseInv /\ BookInv /\ ParcelInv
  BY Typed DEF PromiseInv, LeaseInv
<1>2. PICK r \in Row: r = drainer[d].row
  BY <1>1 DEF Send, LeaseInv, LeaseKnows, Working
<1>3. PICK o \in Order: r[1] = o
  BY RowParts
<1>4. /\ drainer[d].pc = "sending"
      /\ UNCHANGED <<order, intent, misjudged>>
      /\ \A s \in Row: s # r => parcels'[s] = parcels[s]
      /\ parcels'[r] = parcels[r] \/ parcels'[r] = parcels[r] + 1
  BY <1>1, <1>2 DEF Send
<1>5. parcels[r] = 0 /\ CallInv(d)
  BY <1>1, <1>2, <1>4 DEF ParcelInv, CallInv
<1>6. CASE parcels'[r] = parcels[r]
  <2>1. \A s \in Row: SameRow(s)
    BY <1>4, <1>6 DEF SameRow
  <2> QED
    BY <1>4, <2>1, PromiseUntouched
<1>7. CASE r \in misjudged
  <2>1. StandingRead
    BY Reads
  <2>2. \A q \in Order: Standing(q)' = Standing(q) /\ (HasParcel(q)' <=> HasParcel(q))
    <3> SUFFICES ASSUME NEW q \in Order
                 PROVE  Standing(q)' = Standing(q) /\ (HasParcel(q)' <=> HasParcel(q))
      OBVIOUS
    <3>1. Generations(q)' = Generations(q)
      BY <1>4 DEF Generations
    <3>2. \A n \in Generations(q): <<q, n>> \in Row
      BY RowParts DEF Generations, Generation
    <3>3. HasParcel(q)' <=> HasParcel(q)
      BY <1>4, <1>7, <3>1, <3>2 DEF HasParcel
    <3>4. Standing(q)' = Standing(q)
      BY <1>4 DEF Standing, MayBeRebooked, Latest, Generations
    <3> QED
      BY <3>3, <3>4
  <2> QED
    BY <1>3, <2>2, PromiseStep DEF Promised
<1>8. CASE r \notin misjudged /\ parcels'[r] = parcels[r] + 1
  <2>1. intent[r].status \in {"processing", "failed"} /\ Present(r)
    BY <1>2, <1>4, <1>5, <1>8 DEF CallInv, LeaseHeld, Present
  <2>2. Last(r) /\ order[o].phase = "ready" /\ order[o].delivery = "pending"
    <3>1. Last(r) /\ Mirrored(o, r)
      BY <1>1, <1>3, <2>1, OpenIsLast
    <3> QED
      BY <2>1, <3>1 DEF Mirrored
  <2>3. \A s \in Row: s # r => SameRow(s)
    BY <1>4 DEF SameRow
  <2>4. Present(r)' /\ parcels'[r] > 0 /\ ~(parcels[r] > 0)
    BY SMTT(40), <1>4, <1>5, <1>8, <2>1 DEF Present
  <2> QED
    BY <1>3, <1>4, <1>8, <2>1, <2>2, <2>3, <2>4, PromiseLast DEF StandingRead, ParcelRead, Promised
<1> QED
  BY <1>4, <1>6, <1>7, <1>8

LEMMA RecordPromise ==
    ASSUME PromiseInv, PromiseInv', NEW d \in Drainer, Receipt(d) \/ Rejection(d) \/ Doubt(d)
    PROVE  [Promise!Next]_promised
<1>1. /\ intent \in [Row -> Intents] /\ parcels \in [Row -> Nat]
      /\ LeaseInv /\ BookInv /\ ParcelInv /\ ParcelInv'
  BY SMTT(40), Typed DEF PromiseInv, LeaseInv
<1>2. UNCHANGED <<order, parcels, misjudged>> /\ drainer[d].pc = "answered"
  BY DEF Receipt, Rejection, Doubt
<1>3. CASE UNCHANGED intent
  <2>1. \A s \in Row: SameRow(s)
    BY <1>2, <1>3 DEF SameRow
  <2> QED
    BY <1>2, <2>1, PromiseUntouched
<1>4. CASE LeaseHeld(d)
  <2>1. PICK r \in Row: r = drainer[d].row
    BY <1>1, <1>2 DEF LeaseInv, LeaseKnows, Working
  <2>2. PICK o \in Order: r[1] = o
    BY RowParts
  <2>3. intent[r].status = "processing" /\ Present(r) /\ CallInv(d)
    BY <1>1, <1>4, <2>1 DEF LeaseHeld, ParcelInv, Present
  <2>4. Last(r) /\ order[o].phase = "ready" /\ order[o].delivery = "pending"
    <3>1. Last(r) /\ Mirrored(o, r)
      BY SMTT(40), <1>1, <2>2, <2>3, OpenIsLast
    <3> QED
      BY <2>3, <3>1 DEF Mirrored
  <2>5. \A s \in Row: s # r => SameRow(s)
    BY <1>1, <1>2, <2>1 DEF Receipt, Rejection, Doubt, SameRow
  <2>6. r \notin misjudged
    BY <1>1, <2>3 DEF ParcelInv, RowInv
  <2>7. CASE Receipt(d)
    <3>1. intent'[r].status = "succeeded" /\ parcels[r] > 0
      BY <1>1, <2>1, <2>3, <2>7 DEF Receipt, Released, Intents, CallInv
    <3> QED
      BY <1>2, <2>2, <2>3, <2>4, <2>5, <2>6, <3>1, PromiseLast
         DEF StandingRead, ParcelRead, Promised, Present
  <2>8. CASE Rejection(d)
    <3> DEFINE exhausted == Exhausted(drainer[d].attempts)
    <3>1. intent' = [intent EXCEPT ![r] = [Released(intent[r], "rejected") EXCEPT
                       !.status  = IF exhausted THEN "dead_letter" ELSE "retrying",
                       !.started = exhausted]]
          /\ drainer[d].answer = "rejected"
      BY <1>4, <2>1, <2>8 DEF Rejection
    <3> HIDE DEF exhausted
    <3>2. intent'[r].status \in {"dead_letter", "retrying"}
      BY <1>1, <3>1 DEF Released, Intents
    <3>3. parcels[r] = 0
      BY <1>2, <1>4, <2>1, <2>3, <3>1 DEF CallInv
    <3> QED
      BY <1>2, <2>2, <2>3, <2>4, <2>5, <2>6, <3>2, <3>3, PromiseLast
         DEF StandingRead, ParcelRead, Promised, Present
  <2>9. CASE Doubt(d)
    <3>1. intent' = [intent EXCEPT ![r] = [Released(intent[r], "ambiguous")
                                             EXCEPT !.status = "failed"]]
      BY <1>4, <2>1, <2>9 DEF Doubt
    <3>2. intent'[r].status = "failed"
      BY <1>1, <3>1 DEF Released, Intents
    <3> QED
      BY <1>2, <2>2, <2>3, <2>4, <2>5, <3>2, PromiseLast
         DEF StandingRead, ParcelRead, Promised, Present
  <2> QED
    BY <2>7, <2>8, <2>9
<1> QED
  BY <1>3, <1>4 DEF Receipt, Rejection, Doubt

LEMMA RestorePromise ==
    ASSUME PromiseInv, PromiseInv', NEW d \in Drainer, Restore(d)
    PROVE  [Promise!Next]_promised
<1>1. /\ order \in [Order -> Orders] /\ parcels \in [Row -> Nat] /\ TypeOK /\ LeaseInv
      /\ BookInv /\ ParcelInv
  BY Typed DEF PromiseInv, LeaseInv
<1>2. PICK r \in drainer[d].batch:
        IF Restorable(r)
        THEN order' = [order EXCEPT ![OrderOf(r)].delivery = "not_created"]
        ELSE UNCHANGED order
  BY DEF Restore
<1>3. r \in Row /\ Terminal(r) /\ Present(r)
  BY <1>1, Batches DEF BookInv, Terminal, Present
<1>4. UNCHANGED <<intent, parcels, misjudged>>
  BY DEF Restore
<1>5. \A s \in Row: SameRow(s)
  BY <1>4 DEF SameRow
<1>6. CASE ~Restorable(r)
  BY <1>2, <1>5, <1>6, PromiseUntouched
<1>7. CASE Restorable(r)
  <2>1. PICK o \in Order: r[1] = o /\ OrderOf(r) = o
    BY <1>3, RowParts DEF OrderOf
  <2>2. /\ r \notin restored /\ order[o].phase = "ready" /\ order[o].delivery = "pending"
        /\ order'[o].phase = "ready" /\ order'[o].delivery = "not_created"
        /\ \A q \in Order: q # o => order'[q] = order[q]
    BY <1>1, <1>2, <1>7, <2>1, OrderReads DEF Restorable, Orders
  <2>3. Last(r)
    BY <1>1, <1>3, <2>2, OpenIsLast
  <2>4. intent[r].status = "dead_letter" /\ ~(parcels[r] > 0 /\ r \notin misjudged)
    BY <1>1, <1>3 DEF Terminal, ParcelInv, RowInv
  <2>5. Present(r)'
    BY <1>3, <1>4 DEF Present
  <2> QED
    BY <1>3, <1>4, <1>5, <2>1, <2>2, <2>3, <2>4, <2>5, PromiseLast
       DEF StandingRead, ParcelRead, Promised
<1> QED
  BY <1>6, <1>7

LEMMA QuietPromise ==
    ASSUME PromiseInv,
           \/ \E d \in Drainer: \/ BeginDrain(d) \/ EndSweep(d) \/ EndLoop(d) \/ EndDrain(d)
                                \/ Open(d) \/ Start(d)
           \/ \E r \in Row: LeaseExpires(r) \/ PayloadLost(r)
           \/ Crash \/ UNCHANGED vars
    PROVE  [Promise!Next]_promised
<1>1. intent \in [Row -> Intents]
  BY SMTT(40), Typed DEF PromiseInv, LeaseInv
<1>2. /\ \/ UNCHANGED intent
         \/ \E r: intent' = [intent EXCEPT ![r].started = TRUE]
         \/ \E r: intent' = [intent EXCEPT ![r].expired = TRUE]
      /\ UNCHANGED <<order, parcels, misjudged>>
  BY DEF BeginDrain, EndSweep, EndLoop, EndDrain, Open, Start, LeaseExpires, PayloadLost,
       Crash, vars
<1>3. \A s \in Row: SameRow(s)
  BY <1>1, <1>2 DEF SameRow, Intents
<1> QED
  BY <1>2, <1>3, PromiseUntouched

LEMMA NextPromise ==
    ASSUME PromiseInv, PromiseInv', [Next]_vars
    PROVE  [Promise!Next]_promised
<1>1. ASSUME NEW o \in Order, Seller(o) PROVE [Promise!Next]_promised
  BY <1>1, QueuePromise, ConfirmPromise, LeavePromise DEF Seller
<1>2. ASSUME NEW d \in Drainer, Continue(d) PROVE [Promise!Next]_promised
  BY <1>2, SweepPromise, ClaimPromise, SendPromise, RecordPromise, RestorePromise, QuietPromise
     DEF Continue
<1> QED
  BY <1>1, <1>2, QuietPromise DEF Next

\* Where no adapter swallows an unknown outcome, outbox, leases, retries, crashes
\* and reconciliation implement one courier request per order at a time.
THEOREM KeepsPromiseHolds == Swallowing = {} => (Spec => KeepsPromise)
<1> SUFFICES ASSUME Swallowing = {} PROVE Spec => KeepsPromise
  OBVIOUS
<1>1. Init => PromiseInv
  BY InitLease, InitBook, InitParcel DEF PromiseInv
<1>2. PromiseInv /\ [Next]_vars => PromiseInv'
  BY NextLease, NextBook, NextParcel DEF PromiseInv
<1>3. PromiseInv /\ PromiseInv' /\ [Next]_vars => [Promise!Next]_promised
  BY NextPromise
<1> QED
  BY <1>1, <1>2, <1>3, InitPromise, PTL DEF Spec, KeepsPromise, Promise!Spec, promised

=============================================================================
