------------------------ MODULE OrderLifecycleProofs ------------------------
(***************************************************************************)
(* Theorems about OrderLifecycle for any set of orders, quantities, stock  *)
(* and carrier histories, and any number of workers and sync buttons.      *)
(***************************************************************************)
EXTENDS OrderLifecycle, FiniteSums, TLAPS

(* The stages and the record of a pull, as TypeOK has them.                *)
Stage == {"idle", "chosen", "asking", "looking", "telling", "aborted"}
PullRecord == [pc : Stage, order : Order \cup {"none"}, expected : Nat,
               shown : DeliveryStates, batch : SUBSET Nat]

(* TypeOK in two halves: the order's records, and the pulls with what they *)
(* read.  Most actions write to one half only.                             *)
RecordsType ==
    /\ order \in [Order -> OrderState]
    /\ version \in [Order -> Nat]
    /\ parcel \in [Order -> [by : {"nobody", "seller", "courier"},
                             status : Report \cup {"not_created", "booking_queued",
                                                   "booking_failed", "return_in_transit"}]]
    /\ reservation \in [Order -> {"none", "active", "consumed", "released"}]
    /\ stock \in Nat
    /\ ledger \in [Order -> Seq(Position \X Position)]
    /\ case \in [Order -> [state : Returns, by : {"nobody", "seller", "courier"}]]
    /\ receivable \in [Order -> Nat]

PullType ==
    /\ course \in [Order -> Course]
    /\ \A o \in Order : visible[o] \subseteq DOMAIN course[o]
    /\ \A o \in Order : recorded[o] \in [DOMAIN course[o] ->
                             [expected : Nat, version : Nat, shown : DeliveryStates]]
    /\ sync \in [Syncer -> PullRecord]

(* visible and recorded are functions on Order, which TypeOK leaves out.   *)
WorldShape ==
    /\ visible = [o \in Order |-> visible[o]]
    /\ recorded = [o \in Order |-> recorded[o]]

(* A pull under way has an order, and reports of that order's parcel.      *)
PullShape ==
    \A s \in Syncer :
        sync[s].pc # "idle" =>
            sync[s].order \in Order /\ sync[s].batch \subseteq DOMAIN course[sync[s].order]

(* The shape of the state, all of it typed.                                *)
Shape == RecordsType /\ PullType /\ WorldShape /\ PullShape

(* The movements of one order, end to end.                                 *)
Chained(o) ==
    \A i \in DOMAIN ledger[o] :
        ledger[o][i][1] = IF i = 1 THEN "available" ELSE ledger[o][i - 1][2]

(***************************************************************************)
(* One order's records agree.  The first three conjuncts make the story    *)
(* inductive: confirming looks at the status only and takes the goods for  *)
(* unreserved, and receiving a return derives the start of its movement    *)
(* from the delivery state, where the ledger and the return case say how   *)
(* far the goods have come.                                                *)
(***************************************************************************)
Agrees(o) ==
    /\ order[o].status = "pending" => order[o].inventory = "none"
    /\ order[o].delivery \in Failure => case[o].state = "awaiting_return"
    /\ order[o].delivery = "return_in_transit" => case[o].state = "in_transit"
    /\ order[o].ret = case[o].state
    /\ receivable[o] = IF order[o].status = "delivered" THEN 1 ELSE 0
    /\ order[o].cod = "receivable" <=> order[o].status = "delivered"
    /\ order[o].status = "delivered" => case[o].state = "none"
    /\ Story(o)
    /\ Chained(o)

(* The inductive invariant.                                                *)
IInv == Shape /\ \A o \in Order : Agrees(o)

-----------------------------------------------------------------------------
(* A movement that starts where the goods are keeps the ledger end to end  *)
(* and takes the goods where it says; no other order's ledger changes.     *)
LEMMA MoveEffect ==
  ASSUME NEW o \in Order, NEW from \in Position, NEW to \in Position,
         ledger \in [Order -> Seq(Position \X Position)],
         Chained(o), Where(o) = from, Move(o, from, to)
  PROVE  /\ ledger' \in [Order -> Seq(Position \X Position)]
         /\ Chained(o)'
         /\ Where(o)' = to
         /\ \A d \in Order \ {o} : ledger'[d] = ledger[d]
<1> DEFINE old == ledger[o]
           new == Append(old, <<from, to>>)
<1>1. old \in Seq(Position \X Position)
  OBVIOUS
<1>2. ledger' = [ledger EXCEPT ![o] = new] /\ ledger'[o] = new
  BY DEF Move
<1>3. /\ new \in Seq(Position \X Position)
      /\ Len(new) = Len(old) + 1
      /\ Len(old) \in Nat
      /\ DOMAIN new = 1..(Len(old) + 1)
      /\ DOMAIN old = 1..Len(old)
      /\ new[Len(old) + 1] = <<from, to>>
      /\ \A i \in 1..Len(old) : new[i] = old[i]
  BY <1>1
<1>4. Where(o)' = to
  <2>1. new # <<>>
    BY <1>3
  <2> QED
    BY <1>2, <1>3, <2>1 DEF Where
<1>5. old = <<>> <=> Len(old) = 0
  BY <1>1
<1>6. Chained(o)'
  <2> SUFFICES ASSUME NEW i \in 1..(Len(old) + 1)
               PROVE  new[i][1] = IF i = 1 THEN "available" ELSE new[i - 1][2]
    BY <1>2, <1>3 DEF Chained
  <2>1. CASE i = Len(old) + 1
    <3>1. new[i][1] = from
      BY <1>3, <2>1
    <3>2. CASE i = 1
      <4>1. old = <<>>
        BY <1>3, <1>5, <2>1, <3>2
      <4>2. from = "available"
        BY <4>1 DEF Where
      <4> QED
        BY <3>1, <3>2, <4>2
    <3>3. CASE i # 1
      <4>1. Len(old) \in 1..Len(old) /\ i - 1 = Len(old) /\ old # <<>>
        BY <1>3, <1>5, <2>1, <3>3
      <4> QED
        BY <1>3, <3>1, <3>3, <4>1 DEF Where
    <3> QED
      BY <3>2, <3>3
  <2>2. CASE i # Len(old) + 1
    <3>1. i \in 1..Len(old) /\ (i # 1 => i - 1 \in 1..Len(old))
      BY <1>3, <2>2
    <3> QED
      BY <1>3, <3>1 DEF Chained
  <2> QED
    BY <2>1, <2>2
<1> QED
  BY <1>2, <1>3, <1>4, <1>6

(* A step that leaves the records of all other orders alone.               *)
Only(o) ==
    \A d \in Order \ {o} :
        /\ order'[d] = order[d]
        /\ reservation'[d] = reservation[d]
        /\ ledger'[d] = ledger[d]
        /\ case'[d] = case[d]
        /\ receivable'[d] = receivable[d]

(* What a command that writes to one order has to show.                    *)
LEMMA OneOrder ==
  ASSUME NEW o \in Order, \A d \in Order : Agrees(d), Only(o), Agrees(o)'
  PROVE  \A d \in Order : Agrees(d)'
<1> SUFFICES ASSUME NEW d \in Order, d # o PROVE Agrees(d)'
  OBVIOUS
<1>1. Agrees(d)
  OBVIOUS
<1>2. Where(d)' = Where(d) /\ (Chained(d)' <=> Chained(d))
  BY DEF Only, Where, Chained
<1> QED
  BY <1>1, <1>2 DEF Only, Agrees, Story

-----------------------------------------------------------------------------
(* What every command shows of the order it writes to.                     *)
Kept(o) == RecordsType' /\ Only(o) /\ Agrees(o)'

(* The seller's decision, fulfillment and booking, and a booking's outcomes. *)
LEMMA CommandKept ==
  ASSUME IInv, NEW o \in Order,
         \/ Confirm(o) \/ Reject(o) \/ Cancel(o) \/ Pack(o) \/ Ship(o) \/ Deliver(o) \/ Book(o)
         \/ Booking(o)
  PROVE  Kept(o)
<1> USE QtyAssumption DEF goods
<1>1. RecordsType /\ Agrees(o)
  BY DEF IInv, Shape
<1>2. CASE Confirm(o)
  <2>1. Where(o) = "available" /\ Chained(o)
    BY <1>1, <1>2 DEF Confirm, Agrees, Story
  <2>2. /\ ledger' \in [Order -> Seq(Position \X Position)]
        /\ Chained(o)' /\ Where(o)' = "reserved"
        /\ \A e \in Order \ {o} : ledger'[e] = ledger[e]
    BY <1>1, <1>2, <2>1, MoveEffect DEF Confirm, Position, RecordsType
  <2>3. RecordsType'
    <3>1. order' \in [Order -> OrderState] /\ version' \in [Order -> Nat]
      BY <1>1, <1>2 DEF Confirm, RecordsType, OrderState, Statuses, DeliveryStates, Returns,
        InDelivery, Put, State
    <3>2. reservation' \in [Order -> {"none", "active", "consumed", "released"}]
      BY <1>1, <1>2 DEF Confirm, RecordsType, Reserve
    <3>3. stock' \in Nat
      BY <1>1, <1>2 DEF Confirm, RecordsType
    <3> QED
      BY <1>1, <1>2, <2>2, <3>1, <3>2, <3>3 DEF Confirm, RecordsType, Carry
  <2>4. Only(o)
    BY <1>1, <1>2, <2>1, <2>2 DEF Confirm, Only, Put, Reserve, Carry, Handle, RecordsType
  <2>5. Agrees(o)'
    BY <1>1, <1>2, <2>1, <2>2 DEF Confirm, Agrees, Story, RecordsType, OrderState, Put, Reserve,
      Carry, Handle, State, WithDelivery, Failure
  <2> QED
    BY <2>3, <2>4, <2>5 DEF Kept
<1>3. CASE Reject(o)
  <2>1. ledger' = ledger
    BY <1>3 DEF Reject
  <2>2. /\ ledger' \in [Order -> Seq(Position \X Position)]
        /\ Chained(o)' /\ Where(o)' = Where(o)
    BY <1>1, <2>1 DEF Agrees, Where, Chained, RecordsType
  <2>3. RecordsType'
    BY <1>1, <1>3, <2>2 DEF Reject, RecordsType, OrderState, Statuses, DeliveryStates, Returns,
      InDelivery, Failure, Put, Reserve, Carry, Handle, OpenCase, CaseTo, State, WithDelivery
  <2>4. Only(o)
    BY <1>1, <1>3, <2>1, <2>2 DEF Reject, Only, Put, Reserve, Carry, Handle, RecordsType
  <2>5. Agrees(o)'
    BY <1>1, <1>3, <2>1, <2>2 DEF Reject, Agrees, Story, RecordsType, OrderState, Put, Reserve,
      Carry, Handle, State, WithDelivery, Failure
  <2> QED
    BY <2>3, <2>4, <2>5 DEF Kept
<1>4. CASE Cancel(o)
  <2>1. Where(o) = "reserved" /\ Chained(o)
    BY <1>1, <1>4 DEF Cancel, Agrees, Story
  <2>2. /\ ledger' \in [Order -> Seq(Position \X Position)]
        /\ Chained(o)' /\ Where(o)' = "available"
        /\ \A e \in Order \ {o} : ledger'[e] = ledger[e]
    BY ZenonT(40), <1>1, <1>4, <2>1, MoveEffect DEF Cancel, Position, RecordsType
  <2>3. RecordsType'
    <3>1. order' \in [Order -> OrderState] /\ version' \in [Order -> Nat]
      BY <1>1, <1>4 DEF Cancel, RecordsType, OrderState, Statuses, DeliveryStates, Returns,
        InDelivery, Put, State
    <3>2. reservation' \in [Order -> {"none", "active", "consumed", "released"}]
      BY <1>1, <1>4 DEF Cancel, RecordsType, Reserve
    <3>3. stock' \in Nat
      BY <1>1, <1>4 DEF Cancel, RecordsType
    <3> QED
      BY <1>1, <1>4, <2>2, <3>1, <3>2, <3>3 DEF Cancel, RecordsType, Carry
  <2>4. Only(o)
    BY <1>1, <1>4, <2>1, <2>2 DEF Cancel, Only, Put, Reserve, Carry, Handle, RecordsType
  <2>5. Agrees(o)'
    BY <1>1, <1>4, <2>1, <2>2 DEF Cancel, Agrees, Story, RecordsType, OrderState, Put, Reserve,
      Carry, Handle, State, WithDelivery, Failure
  <2> QED
    BY <2>3, <2>4, <2>5 DEF Kept
<1>5. CASE Pack(o)
  <2>1. ledger' = ledger
    BY <1>5 DEF Pack
  <2>2. /\ ledger' \in [Order -> Seq(Position \X Position)]
        /\ Chained(o)' /\ Where(o)' = Where(o)
    BY <1>1, <2>1 DEF Agrees, Where, Chained, RecordsType
  <2>3. RecordsType'
    BY <1>1, <1>5, <2>2 DEF Pack, RecordsType, OrderState, Statuses, DeliveryStates, Returns,
      InDelivery, Failure, Put, Reserve, Carry, Handle, OpenCase, CaseTo, State, WithDelivery
  <2>4. Only(o)
    BY <1>1, <1>5, <2>1, <2>2 DEF Pack, Only, Put, Reserve, Carry, Handle, RecordsType
  <2>5. Agrees(o)'
    BY <1>1, <1>5, <2>1, <2>2 DEF Pack, Agrees, Story, RecordsType, OrderState, Put, Reserve,
      Carry, Handle, State, WithDelivery, Failure
  <2> QED
    BY <2>3, <2>4, <2>5 DEF Kept
<1>6. CASE Ship(o)
  <2>1. Where(o) = "reserved" /\ Chained(o)
    BY <1>1, <1>6 DEF Ship, Packed, Report, Agrees, Story
  <2>2. /\ ledger' \in [Order -> Seq(Position \X Position)]
        /\ Chained(o)' /\ Where(o)' = "outbound"
        /\ \A e \in Order \ {o} : ledger'[e] = ledger[e]
    BY <1>1, <1>6, <2>1, MoveEffect DEF Ship, Packed, Report, Position, RecordsType
  <2>3. RecordsType'
    <3>1. order' \in [Order -> OrderState] /\ version' \in [Order -> Nat]
      BY <1>1, <1>6 DEF Ship, Packed, Report, RecordsType, OrderState, Statuses, DeliveryStates, Returns,
        InDelivery, Put, State
    <3>2. reservation' \in [Order -> {"none", "active", "consumed", "released"}]
      BY <1>1, <1>6 DEF Ship, RecordsType, Reserve
    <3>3. stock' \in Nat
      BY <1>1, <1>6 DEF Ship, RecordsType
    <3> QED
      BY <1>1, <1>6, <2>2, <3>1, <3>2, <3>3 DEF Ship, Report, RecordsType, Carry
  <2>4. Only(o)
    BY <1>1, <1>6, <2>1, <2>2 DEF Ship, Packed, Report, Only, Put, Reserve, Carry, Handle, RecordsType
  <2>5. Agrees(o)'
    BY <1>1, <1>6, <2>1, <2>2 DEF Ship, Packed, Report, Agrees, Story, RecordsType, OrderState, Put, Reserve,
      Carry, Handle, State, WithDelivery, Failure
  <2> QED
    BY <2>3, <2>4, <2>5 DEF Kept
<1>7. CASE Deliver(o)
  <2>1. ledger' = ledger
    BY <1>7 DEF Deliver, Report
  <2>2. /\ ledger' \in [Order -> Seq(Position \X Position)]
        /\ Chained(o)' /\ Where(o)' = Where(o)
    BY <1>1, <2>1 DEF Agrees, Where, Chained, RecordsType
  <2>3. RecordsType'
    BY <1>1, <1>7, <2>2 DEF Deliver, Report, RecordsType, OrderState, Statuses, DeliveryStates, Returns,
      InDelivery, Failure, Put, Reserve, Carry, Handle, OpenCase, CaseTo, State, WithDelivery
  <2>4. Only(o)
    BY <1>1, <1>7, <2>1, <2>2 DEF Deliver, Report, Only, Put, Reserve, Carry, Handle, RecordsType
  <2>5. Agrees(o)'
    BY <1>1, <1>7, <2>1, <2>2 DEF Deliver, Report, Agrees, Story, RecordsType, OrderState, Put, Reserve,
      Carry, Handle, State, WithDelivery, Failure
  <2> QED
    BY <2>3, <2>4, <2>5 DEF Kept
<1>8. CASE Book(o)
  <2>1. ledger' = ledger
    BY <1>8 DEF Book, Packed
  <2>2. /\ ledger' \in [Order -> Seq(Position \X Position)]
        /\ Chained(o)' /\ Where(o)' = Where(o)
    BY <1>1, <2>1 DEF Agrees, Where, Chained, RecordsType
  <2>3. RecordsType'
    BY <1>1, <1>8, <2>2 DEF Book, Packed, RecordsType, OrderState, Statuses, DeliveryStates, Returns,
      InDelivery, Failure, Put, Reserve, Carry, Handle, OpenCase, CaseTo, State, WithDelivery
  <2>4. Only(o)
    BY <1>1, <1>8, <2>1, <2>2 DEF Book, Packed, Only, Put, Reserve, Carry, Handle, RecordsType
  <2>5. Agrees(o)'
    BY <1>1, <1>8, <2>1, <2>2 DEF Book, Packed, Agrees, Story, RecordsType, OrderState, Put, Reserve,
      Carry, Handle, State, WithDelivery, Failure
  <2> QED
    BY <2>3, <2>4, <2>5 DEF Kept
<1>9. CASE Booked(o)
  <2>1. ledger' = ledger
    BY <1>9 DEF Booked, Report
  <2>2. /\ ledger' \in [Order -> Seq(Position \X Position)]
        /\ Chained(o)' /\ Where(o)' = Where(o)
    BY <1>1, <2>1 DEF Agrees, Where, Chained, RecordsType
  <2>3. RecordsType'
    BY <1>1, <1>9, <2>2 DEF Booked, Report, RecordsType, OrderState, Statuses, DeliveryStates, Returns,
      InDelivery, Failure, Put, Reserve, Carry, Handle, OpenCase, CaseTo, State, WithDelivery
  <2>4. Only(o)
    BY <1>1, <1>9, <2>1, <2>2 DEF Booked, Report, Only, Put, Reserve, Carry, Handle, RecordsType
  <2>5. Agrees(o)'
    BY <1>1, <1>9, <2>1, <2>2 DEF Booked, Report, Agrees, Story, RecordsType, OrderState, Put, Reserve,
      Carry, Handle, State, WithDelivery, Failure
  <2> QED
    BY <2>3, <2>4, <2>5 DEF Kept
<1>10. CASE BookingRejected(o)
  <2>1. ledger' = ledger
    BY <1>10 DEF BookingRejected
  <2>2. /\ ledger' \in [Order -> Seq(Position \X Position)]
        /\ Chained(o)' /\ Where(o)' = Where(o)
    BY <1>1, <2>1 DEF Agrees, Where, Chained, RecordsType
  <2>3. RecordsType'
    BY <1>1, <1>10, <2>2 DEF BookingRejected, RecordsType, OrderState, Statuses, DeliveryStates, Returns,
      InDelivery, Failure, Put, Reserve, Carry, Handle, OpenCase, CaseTo, State, WithDelivery
  <2>4. Only(o)
    BY <1>1, <1>10, <2>1, <2>2 DEF BookingRejected, Only, Put, Reserve, Carry, Handle, RecordsType
  <2>5. Agrees(o)'
    BY <1>1, <1>10, <2>1, <2>2 DEF BookingRejected, Agrees, Story, RecordsType, OrderState, Put, Reserve,
      Carry, Handle, State, WithDelivery, Failure
  <2> QED
    BY <2>3, <2>4, <2>5 DEF Kept
<1>11. CASE GiveBack(o)
  <2>1. ledger' = ledger
    BY <1>11 DEF GiveBack, Packed
  <2>2. /\ ledger' \in [Order -> Seq(Position \X Position)]
        /\ Chained(o)' /\ Where(o)' = Where(o)
    BY <1>1, <2>1 DEF Agrees, Where, Chained, RecordsType
  <2>3. RecordsType'
    BY <1>1, <1>11, <2>2 DEF GiveBack, Packed, RecordsType, OrderState, Statuses, DeliveryStates, Returns,
      InDelivery, Failure, Put, Reserve, Carry, Handle, OpenCase, CaseTo, State, WithDelivery
  <2>4. Only(o)
    BY <1>1, <1>11, <2>1, <2>2 DEF GiveBack, Packed, Only, Put, Reserve, Carry, Handle, RecordsType
  <2>5. Agrees(o)'
    BY <1>1, <1>11, <2>1, <2>2 DEF GiveBack, Packed, Agrees, Story, RecordsType, OrderState, Put, Reserve,
      Carry, Handle, State, WithDelivery, Failure
  <2> QED
    BY <2>3, <2>4, <2>5 DEF Kept
<1> QED
  BY <1>2, <1>3, <1>4, <1>5, <1>6, <1>7, <1>8, <1>9, <1>10, <1>11 DEF Booking

-----------------------------------------------------------------------------
(* The recovery commands, whoever runs them.  A failure opens the return   *)
(* case and moves the units from outbound.                                 *)
LEMMA FailKept ==
  ASSUME IInv, NEW o \in Order, NEW by \in {"seller", "courier"},
         NEW outcome \in Failure, CanFail(o), Fail(o, outcome, by)
  PROVE  Kept(o)
<1>1. RecordsType /\ Agrees(o)
  BY DEF IInv, Shape
<1>2. Where(o) = "outbound" /\ Chained(o)
  BY <1>1 DEF CanFail, Agrees, Story, Failure, InDelivery
<1>3. /\ ledger' \in [Order -> Seq(Position \X Position)]
      /\ Chained(o)' /\ Where(o)' = "return_pending_receipt"
      /\ \A e \in Order \ {o} : ledger'[e] = ledger[e]
  BY <1>1, <1>2, MoveEffect DEF Fail, Position, Disposition, RecordsType
<1>4. RecordsType'
  <2>1. order' \in [Order -> OrderState] /\ version' \in [Order -> Nat]
    BY <1>1 DEF Fail, RecordsType, OrderState, Statuses, DeliveryStates, Returns, Failure,
      Put, State
  <2>2. case' \in [Order -> [state : Returns, by : {"nobody", "seller", "courier"}]]
    BY <1>1 DEF Fail, RecordsType, Returns, OpenCase, CaseTo
  <2>3. parcel' \in [Order -> [by : {"nobody", "seller", "courier"},
                        status : Report \cup {"not_created", "booking_queued",
                                              "booking_failed", "return_in_transit"}]]
    BY <1>1 DEF Fail, RecordsType, Report, Failure, Handle, Carry
  <2>4. stock' \in Nat
    BY <1>1, QtyAssumption DEF Fail, RecordsType
  <2> QED
    BY <1>1, <1>3, <2>1, <2>2, <2>3, <2>4 DEF Fail, RecordsType
<1>5. Only(o)
  BY <1>1, <1>3 DEF Fail, Only, Put, OpenCase, CaseTo, RecordsType
<1>6. Agrees(o)'
  BY <1>1, <1>2, <1>3 DEF Fail, CanFail, Agrees, Story, RecordsType, OrderState, Put,
    OpenCase, CaseTo, State, Failure, Disposition
<1> QED
  BY <1>4, <1>5, <1>6 DEF Kept

(* Receiving: the delivery state tells where the return's movement starts. *)
LEMMA ReceiveKept ==
  ASSUME IInv, NEW o \in Order, ReceiveReturn(o)
  PROVE  Kept(o)
<1> DEFINE from == IF order[o].delivery = "return_in_transit"
                     THEN "return_in_transit" ELSE "return_pending_receipt"
<1>1. RecordsType /\ Agrees(o)
  BY DEF IInv, Shape
<1>2. Where(o) = from
  <2>1. CASE order[o].delivery = "return_in_transit"
    BY <1>1, <2>1 DEF ReceiveReturn, CanReceive, Agrees, Story
  <2>2. CASE order[o].delivery \in Failure
    BY <1>1, <2>2 DEF ReceiveReturn, CanReceive, Agrees, Story, Failure
  <2> QED
    BY <2>1, <2>2 DEF ReceiveReturn, CanReceive
<1>3. /\ ledger' \in [Order -> Seq(Position \X Position)]
      /\ Chained(o)' /\ Where(o)' = "return_pending_inspection"
      /\ \A e \in Order \ {o} : ledger'[e] = ledger[e]
  <2>1. from \in Position /\ "return_pending_inspection" \in Position
    BY DEF Position
  <2>2. Move(o, from, "return_pending_inspection")
    BY DEF ReceiveReturn
  <2> HIDE DEF from
  <2> QED
    BY <1>1, <1>2, <2>1, <2>2, MoveEffect DEF RecordsType, Agrees
<1>4. RecordsType'
  <2>1. order' \in [Order -> OrderState] /\ version' \in [Order -> Nat]
    BY <1>1 DEF ReceiveReturn, RecordsType, OrderState, Statuses, DeliveryStates, Returns, Failure,
      Put, State
  <2>2. case' \in [Order -> [state : Returns, by : {"nobody", "seller", "courier"}]]
    BY <1>1 DEF ReceiveReturn, RecordsType, Returns, OpenCase, CaseTo
  <2>3. parcel' \in [Order -> [by : {"nobody", "seller", "courier"},
                        status : Report \cup {"not_created", "booking_queued",
                                              "booking_failed", "return_in_transit"}]]
    BY <1>1 DEF ReceiveReturn, RecordsType, Report, Failure, Handle, Carry
  <2>4. stock' \in Nat
    BY <1>1, QtyAssumption DEF ReceiveReturn, RecordsType
  <2> QED
    BY <1>1, <1>3, <2>1, <2>2, <2>3, <2>4 DEF ReceiveReturn, RecordsType
<1>5. Only(o)
  BY <1>1, <1>3 DEF ReceiveReturn, Only, Put, OpenCase, CaseTo, RecordsType
<1>6. Agrees(o)'
  BY <1>1, <1>2, <1>3 DEF ReceiveReturn, ReceiveReturn, CanReceive, Agrees, Story, RecordsType, OrderState, Put,
    OpenCase, CaseTo, State, Failure, Disposition
<1> QED
  BY <1>4, <1>5, <1>6 DEF Kept

(* The inspection ends the return wherever the units go.                   *)
LEMMA InspectKept ==
  ASSUME IInv, NEW o \in Order, NEW d \in Disposition, InspectReturn(o, d)
  PROVE  Kept(o)
<1>1. RecordsType /\ Agrees(o)
  BY DEF IInv, Shape
<1>2. Where(o) = "return_pending_inspection" /\ Chained(o)
  BY <1>1 DEF InspectReturn, Agrees, Story, Failure, InDelivery
<1>3. /\ ledger' \in [Order -> Seq(Position \X Position)]
      /\ Chained(o)' /\ Where(o)' = d
      /\ \A e \in Order \ {o} : ledger'[e] = ledger[e]
  BY ZenonT(40), <1>1, <1>2, MoveEffect DEF InspectReturn, Position, Disposition, RecordsType
<1>4. RecordsType'
  <2>1. order' \in [Order -> OrderState] /\ version' \in [Order -> Nat]
    BY <1>1 DEF InspectReturn, RecordsType, OrderState, Statuses, DeliveryStates, Returns, Failure,
      Put, State
  <2>2. case' \in [Order -> [state : Returns, by : {"nobody", "seller", "courier"}]]
    BY <1>1 DEF InspectReturn, RecordsType, Returns, OpenCase, CaseTo
  <2>3. parcel' \in [Order -> [by : {"nobody", "seller", "courier"},
                        status : Report \cup {"not_created", "booking_queued",
                                              "booking_failed", "return_in_transit"}]]
    BY <1>1 DEF InspectReturn, RecordsType, Report, Failure, Handle, Carry
  <2>4. stock' \in Nat
    BY <1>1, QtyAssumption DEF InspectReturn, RecordsType
  <2> QED
    BY <1>1, <1>3, <2>1, <2>2, <2>3, <2>4 DEF InspectReturn, RecordsType
<1>5. Only(o)
  BY <1>1, <1>3 DEF InspectReturn, Only, Put, OpenCase, CaseTo, RecordsType
<1>6. Agrees(o)'
  BY <1>1, <1>2, <1>3 DEF InspectReturn, InspectReturn, Agrees, Story, RecordsType, OrderState, Put,
    OpenCase, CaseTo, State, Failure, Disposition
<1> QED
  BY <1>4, <1>5, <1>6 DEF Kept

(* Turning back, from a delivery under way or from an open exception.      *)
LEMMA TurnBackKept ==
  ASSUME IInv, NEW o \in Order, NEW by \in {"seller", "courier"}, TurnBack(o, by)
  PROVE  Kept(o)
<1>1. RecordsType /\ Agrees(o)
  BY DEF IInv, Shape
<1>2. /\ ledger' \in [Order -> Seq(Position \X Position)]
      /\ Chained(o)' /\ Where(o)' = "return_in_transit"
      /\ \A e \in Order \ {o} : ledger'[e] = ledger[e]
  <2>1. CASE ReturnsFromDelivery(o) /\ Move(o, "outbound", "return_in_transit")
    <3>1. Where(o) = "outbound" /\ Chained(o)
      BY <1>1, <2>1 DEF ReturnsFromDelivery, Agrees, Story
    <3> QED
      BY <1>1, <2>1, <3>1, MoveEffect DEF RecordsType, Position
  <2>2. CASE ReturnsFromException(o) /\ Move(o, "return_pending_receipt", "return_in_transit")
    <3>1. Where(o) = "return_pending_receipt" /\ Chained(o)
      BY <1>1, <2>2 DEF ReturnsFromException, Agrees, Story
    <3> QED
      BY <1>1, <2>2, <3>1, MoveEffect DEF RecordsType, Position
  <2> QED
    BY <2>1, <2>2 DEF TurnBack
<1>3. /\ reservation[o] = "consumed" /\ order[o].status = "shipped"
      /\ Carry(o, parcel[o].by, "return_in_transit")
      /\ \/ OpenCase(o, "in_transit", by)
         \/ OpenCase(o, "in_transit", case[o].by)
  BY DEF TurnBack, Handle, CaseTo, ReturnsFromDelivery, ReturnsFromException
<1>4. RecordsType'
  <2>1. order' \in [Order -> OrderState] /\ version' \in [Order -> Nat]
    BY <1>1 DEF TurnBack, RecordsType, OrderState, Statuses, DeliveryStates, Returns, Put, State
  <2>2. case' \in [Order -> [state : Returns, by : {"nobody", "seller", "courier"}]]
    <3>1. PICK who \in {"nobody", "seller", "courier"} : OpenCase(o, "in_transit", who)
      <4>1. case[o].by \in {"nobody", "seller", "courier"}
        BY <1>1 DEF RecordsType
      <4> QED
        BY <1>3, <4>1
    <3>2. [state |-> "in_transit", by |-> who]
            \in [state : Returns, by : {"nobody", "seller", "courier"}]
      BY DEF Returns
    <3> QED
      BY <1>1, <3>1, <3>2 DEF RecordsType, OpenCase
  <2>3. parcel' \in [Order -> [by : {"nobody", "seller", "courier"},
                        status : Report \cup {"not_created", "booking_queued",
                                              "booking_failed", "return_in_transit"}]]
    BY <1>1, <1>3 DEF RecordsType, Carry
  <2> QED
    BY <1>1, <1>2, <2>1, <2>2, <2>3 DEF TurnBack, RecordsType
<1>5. Only(o)
  BY <1>1, <1>2, <1>3 DEF TurnBack, Only, Put, OpenCase, RecordsType
<1>6. case'[o].state = "in_transit"
  BY <1>1, <1>3 DEF OpenCase, RecordsType
<1>7. Agrees(o)'
  BY <1>1, <1>2, <1>3, <1>6 DEF TurnBack, Agrees, Story, RecordsType, OrderState, Put, State, Failure
<1> QED
  BY <1>4, <1>5, <1>7 DEF Kept

-----------------------------------------------------------------------------
(* A report that is neither a failure nor a return moves the order on.     *)
Scan == Report \ (Failure \cup {"returned"})

(* A scan never gives a delivery state of the return path.                 *)
LEMMA ScanState ==
  ASSUME NEW r \in Scan
  PROVE  /\ DeliveryState(r) \in DeliveryStates
         /\ DeliveryState(r) \notin Failure \cup {"return_in_transit"}
  BY DEF Scan, Report, Failure, DeliveryState, DeliveryStates, InDelivery

(* A scan told to an order: ignored, a pickup, a step on, or the delivery. *)
LEMMA TrackKept ==
  ASSUME IInv, NEW o \in Order, NEW r \in Scan, CanTrack(o, r), Track(o, r)
  PROVE  Kept(o)
<1>1. RecordsType /\ Agrees(o)
  BY DEF IInv, Shape
<1>2. stock' = stock /\ case' = case
  BY DEF Track
<1>3. /\ parcel' \in [Order -> [by : {"nobody", "seller", "courier"},
                        status : Report \cup {"not_created", "booking_queued",
                                              "booking_failed", "return_in_transit"}]]
      /\ receivable' \in [Order -> Nat]
  <2>1. parcel' = parcel \/ Carry(o, parcel[o].by, r)
    BY DEF Track, Handle
  <2>2. receivable' = receivable \/ receivable' = [receivable EXCEPT ![o] = @ + 1]
    BY DEF Track
  <2>3. receivable' \in [Order -> Nat]
    <3>1. receivable \in [Order -> Nat]
      BY <1>1 DEF RecordsType
    <3> QED
      BY <2>2, <3>1
  <2> DEFINE Parcel == [by : {"nobody", "seller", "courier"},
                        status : Report \cup {"not_created", "booking_queued",
                                              "booking_failed", "return_in_transit"}]
             handled == [by |-> parcel[o].by, status |-> r]
  <2>4. parcel \in [Order -> Parcel]
    BY <1>1 DEF RecordsType
  <2>5. handled \in Parcel
    <3>1. r \in Report
      BY DEF Scan
    <3>2. parcel[o].by \in {"nobody", "seller", "courier"}
      BY <2>4
    <3> QED
      BY <3>1, <3>2
  <2>6. parcel' = parcel \/ parcel' = [parcel EXCEPT ![o] = handled]
    BY <2>1 DEF Carry
  <2>7. parcel' \in [Order -> Parcel]
    <3> HIDE DEF handled, Parcel
    <3> QED
      BY <2>4, <2>5, <2>6
  <2> QED
    BY <2>3, <2>7
<1> DEFINE paid == [receivable EXCEPT ![o] = @ + 1]
<1>4. /\ receivable' = IF Ahead(o, r) /\ r = "delivered" THEN paid ELSE receivable
      /\ receivable \in [Order -> Nat]
  BY <1>1 DEF Track, RecordsType
<1>5. CASE PicksUp(o, r)
  <2>1. /\ Packed(o, "pending") /\ reservation[o] = "active"
        /\ Where(o) = "reserved" /\ Chained(o) /\ case[o].state = "none"
        /\ r # "delivered" /\ receivable' = receivable
    BY <1>1, <1>4, <1>5 DEF PicksUp, CanTrack, Packed, Agrees, Story
  <2>2. Reserve(o, "consumed") /\ Move(o, "reserved", "outbound")
    BY <1>5 DEF Track
  <2>3. /\ ledger' \in [Order -> Seq(Position \X Position)]
        /\ Chained(o)' /\ Where(o)' = "outbound"
        /\ \A e \in Order \ {o} : ledger'[e] = ledger[e]
    BY <1>1, <2>1, <2>2, MoveEffect DEF RecordsType, Position
  <2> DEFINE new == State("shipped", "shipped", DeliveryState(r), "outbound",
                          "not_expected", order[o].ret)
  <2>4. Advanced(o, r) = new
    BY <1>5, <2>1 DEF Advanced, WithDelivery, State
  <2>5. Advanced(o, r) # order[o]
    BY <2>1, <2>4 DEF Packed, State
  <2>6. Put(o, new)
    BY <1>5, <2>4, <2>5 DEF Track, PicksUp
  <2>7. new \in OrderState
    BY <1>1, ScanState DEF State, OrderState, RecordsType, Statuses
  <2>8. order' = [order EXCEPT ![o] = new] /\ version' = [version EXCEPT ![o] = @ + 1]
    BY <2>6 DEF Put
  <2>9. RecordsType'
    <3> HIDE DEF new
    <3> QED
      BY <1>1, <1>2, <1>3, <2>2, <2>3, <2>7, <2>8 DEF RecordsType, Reserve
  <2>10. Only(o)
    BY <1>1, <1>2, <2>1, <2>2, <2>3, <2>8 DEF Only, Reserve, RecordsType
  <2>11. Agrees(o)'
    BY <1>1, <1>2, <2>1, <2>2, <2>3, <2>8, ScanState DEF Packed, Agrees, Story, RecordsType, Reserve, State
  <2> QED
    BY <2>9, <2>10, <2>11 DEF Kept
<1>6. CASE ~PicksUp(o, r)
  <2>1. reservation' = reservation /\ ledger' = ledger
    BY <1>6 DEF Track
  <2>2. Chained(o)' /\ Where(o)' = Where(o)
    BY <1>1, <2>1 DEF Agrees, Chained, Where
  <2>3. CASE ~(Ahead(o, r) /\ Rank(r) >= 1 /\ Advanced(o, r) # order[o])
    <3>0. order' = order /\ version' = version
      BY <2>3 DEF Track
    <3>1. receivable' = receivable
      <4> SUFFICES ASSUME Ahead(o, r), r = "delivered" PROVE FALSE
        BY <1>4
      <4>1. Rank(r) >= 1
        BY DEF Rank
      <4>2. order[o].status = "shipped"
        BY <1>6, <4>1 DEF CanTrack
      <4>3. Advanced(o, r).status = "delivered"
        BY DEF Advanced, State
      <4> QED
        BY <2>3, <4>1, <4>2, <4>3
    <3>2. RecordsType' /\ Only(o)
      BY <1>1, <1>2, <1>3, <2>1, <3>0, <3>1 DEF RecordsType, Only
    <3>3. Agrees(o)'
      BY <1>1, <1>2, <2>1, <2>2, <3>0, <3>1 DEF Agrees, Story
    <3> QED
      BY <3>2, <3>3 DEF Kept
  <2>4. CASE Ahead(o, r) /\ Rank(r) >= 1 /\ Advanced(o, r) # order[o]
    <3>1. /\ order[o].status \in {"shipped", "delivered"}
          /\ r = "delivered" => /\ order[o].status = "shipped"
                                /\ order[o].inventory = "outbound"
                                /\ reservation[o] = "consumed"
      BY <1>6, <2>4 DEF CanTrack, PicksUp
    <3> DEFINE new == IF r = "delivered"
                        THEN State("delivered", "closed", "delivered", "settled",
                                   "receivable", order[o].ret)
                        ELSE WithDelivery(order[o], DeliveryState(r))
    <3>2. Advanced(o, r) = new
      BY <1>6 DEF Advanced
    <3>3. order' = [order EXCEPT ![o] = new] /\ version' = [version EXCEPT ![o] = @ + 1]
      BY <2>4, <3>2 DEF Track, Put
    <3>4. new \in OrderState
      BY <1>1, ScanState DEF State, WithDelivery, OrderState, RecordsType, Statuses, DeliveryStates
    <3>5. RecordsType'
      <4> HIDE DEF new
      <4> QED
        BY <1>1, <1>2, <1>3, <2>1, <3>3, <3>4 DEF RecordsType
    <3>6. Only(o)
      BY <1>1, <1>2, <1>4, <2>1, <3>3 DEF Only, RecordsType
    <3>7. order'[o] = new
      BY <1>1, <3>3 DEF RecordsType
    <3>8. ASSUME r = "delivered" PROVE Agrees(o)'
      BY <1>1, <1>2, <1>4, <2>1, <2>2, <2>4, <3>1, <3>7, <3>8 DEF Agrees, Story, State, Failure
    <3>9. ASSUME r # "delivered" PROVE Agrees(o)'
      BY <1>1, <1>2, <1>4, <2>1, <2>2, <3>1, <3>7, <3>9, ScanState DEF Agrees, Story, State, WithDelivery
    <3> QED
      BY <3>5, <3>6, <3>8, <3>9 DEF Kept
  <2> QED
    BY <2>3, <2>4
<1> QED
  BY <1>5, <1>6

-----------------------------------------------------------------------------
(* A pull's step that leaves the orders alone.                             *)
Watching == UNCHANGED <<order, version, parcel, reservation, stock, ledger, case, receivable>>

(* Such a step keeps what the orders' records satisfy.                     *)
LEMMA WatchingKeeps ==
  ASSUME IInv, Watching
  PROVE  RecordsType' /\ \A o \in Order : Agrees(o)'
<1>1. RecordsType'
  BY DEF IInv, Shape, Watching, RecordsType
<1>2. ASSUME NEW o \in Order PROVE Agrees(o)'
  <2>1. Agrees(o)
    BY DEF IInv
  <2>2. Where(o)' = Where(o) /\ (Chained(o)' <=> Chained(o))
    BY DEF Watching, Where, Chained
  <2> QED
    BY <2>1, <2>2 DEF Watching, Agrees, Story
<1> QED
  BY <1>1, <1>2

(* The positions of a history are numbers.                                 *)
LEMMA Positions ==
  ASSUME PullType, NEW o \in Order
  PROVE  DOMAIN course[o] \subseteq Nat
<1>1. course[o] \in Seq(Report)
  BY CourseAssumption DEF PullType
<1> QED
  BY <1>1

(* A pull that goes on with an order and reports of it is a pull.          *)
LEMMA PullIsTyped ==
  ASSUME PullType, PullShape, NEW s \in Syncer, NEW o \in Order, NEW v \in Nat,
         NEW pc \in Stage,
         NEW d \in DeliveryStates, NEW left \in SUBSET (DOMAIN course[o]),
         PullIs(s, pc, o, v, d, left), course' = course
  PROVE  /\ sync' \in [Syncer -> PullRecord]
         /\ PullShape'
<1> DEFINE new == [pc |-> pc, order |-> o, expected |-> v, shown |-> d, batch |-> left]
<1>1. left \in SUBSET Nat
  BY Positions
<1>2. sync' = [sync EXCEPT ![s] = new]
  BY DEF PullIs
<1>3. new \in PullRecord
  BY <1>1 DEF PullRecord
<1>4. sync' \in [Syncer -> PullRecord]
  <2> HIDE DEF new
  <2> QED
    BY <1>2, <1>3 DEF PullType
<1>5. PullShape'
  <2> SUFFICES ASSUME NEW t \in Syncer, sync'[t].pc # "idle"
               PROVE  sync'[t].order \in Order /\ sync'[t].batch \subseteq DOMAIN course[sync'[t].order]
    BY DEF PullShape
  <2>1. CASE t = s
    BY <1>2, <2>1 DEF PullType
  <2>2. CASE t # s
    BY <1>2, <2>2 DEF PullType, PullShape
  <2> QED
    BY <2>1, <2>2
<1> QED
  BY <1>4, <1>5

(* The same for a step that stays with the pull's order and position.      *)
LEMMA OnwardTyped ==
  ASSUME PullType, PullShape, NEW s \in Syncer, sync[s].pc # "idle",
         NEW pc \in Stage,
         NEW left \in SUBSET (DOMAIN course[Now(s)]),
         Onward(s, pc, left), course' = course
  PROVE  /\ sync' \in [Syncer -> PullRecord]
         /\ PullShape'
<1>1. sync[s].order \in Order /\ sync[s].expected \in Nat /\ sync[s].shown \in DeliveryStates
  BY DEF PullType, PullShape, PullRecord
<1> QED
  BY <1>1, PullIsTyped DEF Onward, Now

(* The records of an order and its goods change, the pulls do not.         *)
LEMMA CommandInv ==
  ASSUME IInv, NEW o \in Order, Kept(o), UNCHANGED <<world, recorded, sync>>
  PROVE  IInv'
<1>1. \A d \in Order : Agrees(d)'
  BY OneOrder DEF IInv, Kept
<1>2. Shape'
  BY DEF IInv, Shape, Kept, PullType, WorldShape, PullShape, world
<1> QED
  BY <1>1, <1>2 DEF IInv

(* A report told: a recovery command or a scan, and its record.            *)
LEMMA TellInv ==
  ASSUME IInv, NEW s \in Syncer, NEW i \in Oldest(s), Tell(s, i)
  PROVE  IInv'
<1>1. PICK o \in Order : o = Now(s)
  BY DEF Tell, IInv, Shape, PullShape, Now
<1>2. /\ PullType /\ PullShape
      /\ i \in DOMAIN course[o]
      /\ sync[s].pc = "telling"
      /\ sync[s].batch \in SUBSET (DOMAIN course[o])
      /\ sync[s].expected \in Nat /\ sync[s].shown \in DeliveryStates
  BY <1>1 DEF Tell, IInv, Shape, PullType, PullShape, PullRecord, Now, Oldest
<1>3. course' = course /\ visible' = visible
  BY DEF Tell, world
<1>4. Kept(o)
  <2>1. CASE Told(s, i) \in Failure /\ Fail(o, Told(s, i), "courier")
    <3>1. CanFail(o)
      BY <1>1, <2>1 DEF Tell, Accepts, Turns, Tracks, Failure
    <3> QED
      BY <2>1, <3>1, FailKept
  <2>2. CASE Turns(s, i) /\ TurnBack(o, "courier")
    BY <2>2, TurnBackKept
  <2>3. CASE Tracks(s, i) /\ Track(o, Told(s, i))
    <3>1. CanTrack(o, Told(s, i))
      BY <1>1, <2>3 DEF Tell, Accepts, Turns, Tracks
    <3>2. Told(s, i) \in Scan
      <4>1. course[o] \in Seq(Report)
        BY <1>2, CourseAssumption DEF PullType
      <4>2. course[o][i] \in Report
        BY <1>2, <4>1
      <4> QED
        BY <1>1, <2>3, <4>2 DEF Tracks, Told, Scan
    <3> QED
      BY <2>3, <3>1, <3>2, TrackKept
  <2> QED
    BY <1>1, <2>1, <2>2, <2>3 DEF Tell
<1>5. RecordsType' /\ \A d \in Order : Agrees(d)'
  BY <1>4, OneOrder DEF Kept, IInv
<1>6. version'[o] \in Nat /\ order'[o].delivery \in DeliveryStates
  BY <1>5 DEF RecordsType, OrderState
<1>7. PICK d \in DeliveryStates : PullIs(s, "looking", o, version'[o], d, sync[s].batch \ {i})
  BY <1>1, <1>2, <1>6 DEF Tell, Proceed
<1>8. (sync[s].batch \ {i}) \in SUBSET (DOMAIN course[o])
  BY <1>2
<1>9. /\ sync' \in [Syncer -> PullRecord]
      /\ PullShape'
  BY <1>2, <1>3, <1>6, <1>7, <1>8, PullIsTyped DEF Stage
<1> DEFINE Recorded == [expected : Nat, version : Nat, shown : DeliveryStates]
           result == [expected |-> sync[s].expected, version |-> version'[o],
                      shown |-> order'[o].delivery]
<1>10. recorded' = [recorded EXCEPT ![o] = [recorded[o] EXCEPT ![i] = result]]
  BY <1>1 DEF Tell
<1>11. /\ recorded' = [e \in Order |-> recorded'[e]]
       /\ \A e \in Order : recorded'[e] \in [DOMAIN course[e] -> Recorded]
  <2>1. result \in Recorded
    BY <1>2, <1>6
  <2>2. recorded = [e \in Order |-> recorded[e]]
    BY DEF IInv, Shape, WorldShape
  <2>3. \A e \in Order : recorded[e] \in [DOMAIN course[e] -> Recorded]
    BY <1>2 DEF PullType
  <2> HIDE DEF result, Recorded
  <2>4. [recorded[o] EXCEPT ![i] = result] \in [DOMAIN course[o] -> Recorded]
    BY <1>2, <2>1, <2>3
  <2> QED
    BY <1>10, <2>2, <2>3, <2>4
<1>12. PullType' /\ WorldShape'
  BY <1>3, <1>9, <1>11 DEF PullType, WorldShape, IInv, Shape
<1> QED
  BY <1>5, <1>9, <1>12 DEF IInv, Shape

(* The steps of a pull that read.                                          *)
LEMMA PullReads ==
  ASSUME IInv, NEW s \in Syncer,
         \/ \E o \in Order : Choose(s, o) \/ ReadPosition(s, o)
         \/ Fetch(s)
         \/ \E i \in Oldest(s) : Look(s, i) \/ Replay(s, i) \/ Abort(s, i)
         \/ EndSync(s)
  PROVE  IInv'
<1>1. Watching /\ recorded' = recorded /\ course' = course /\ visible' = visible
  BY DEF Watching, Choose, ReadPosition, Fetch, Look, Replay, Abort, EndSync, goods, world
<1>2. PullType /\ PullShape /\ RecordsType
  BY DEF IInv, Shape
<1>3. /\ sync' \in [Syncer -> PullRecord]
      /\ PullShape'
  <2>1. ASSUME NEW o \in Order, Choose(s, o) PROVE  sync' \in [Syncer -> PullRecord] /\ PullShape'
    BY <1>1, <1>2, <2>1, PullIsTyped DEF Choose, DeliveryStates, Stage
  <2>2. ASSUME NEW o \in Order, ReadPosition(s, o) PROVE  sync' \in [Syncer -> PullRecord] /\ PullShape'
    <3>1. version[o] \in Nat /\ order[o].delivery \in DeliveryStates
      BY <1>2 DEF RecordsType, OrderState
    <3> QED
      BY <1>1, <1>2, <2>2, <3>1, PullIsTyped DEF ReadPosition, Stage
  <2>3. CASE Fetch(s)
    <3>1. Now(s) \in Order /\ sync[s].pc # "idle"
      BY <1>2, <2>3 DEF Fetch, PullShape, Now
    <3>2. visible[Now(s)] \in SUBSET (DOMAIN course[Now(s)])
      BY <1>2, <3>1 DEF PullType
    <3> QED
      BY <1>1, <1>2, <2>3, <3>1, <3>2, OnwardTyped DEF Fetch, Stage
  <2>4. ASSUME NEW i \in Oldest(s), Look(s, i) \/ Replay(s, i) \/ Abort(s, i) PROVE  sync' \in [Syncer -> PullRecord] /\ PullShape'
    <3>1. /\ Now(s) \in Order /\ sync[s].pc # "idle"
          /\ sync[s].batch \in SUBSET (DOMAIN course[Now(s)])
          /\ (sync[s].batch \ {i}) \in SUBSET (DOMAIN course[Now(s)])
          /\ i \in DOMAIN course[Now(s)]
      BY <1>2, <2>4 DEF Look, Replay, Abort, PullShape, Now, Oldest
    <3>2. CASE Look(s, i)
      BY <1>1, <1>2, <3>1, <3>2, OnwardTyped DEF Look, Stage
    <3>3. CASE Replay(s, i)
      <4>1. PICK o \in Order : o = Now(s)
        BY <3>1
      <4>2. recorded[o][i] \in [expected : Nat, version : Nat, shown : DeliveryStates]
        BY <1>2, <3>1, <4>1 DEF PullType
      <4>3. sync[s].shown \in DeliveryStates
        BY <1>2 DEF PullType, PullRecord
      <4>4. PICK d \in DeliveryStates :
               PullIs(s, "looking", o, recorded[o][i].version, d, sync[s].batch \ {i})
        BY <3>3, <4>1, <4>2, <4>3 DEF Replay, Proceed
      <4> QED
        BY <1>1, <1>2, <3>1, <4>1, <4>2, <4>4, PullIsTyped DEF Stage
    <3>4. CASE Abort(s, i)
      BY <1>1, <1>2, <3>1, <3>4, OnwardTyped DEF Abort, Stage
    <3> QED
      BY <2>4, <3>2, <3>3, <3>4
  <2>5. CASE EndSync(s)
    <3>1. Rest \in PullRecord
      BY DEF Rest, PullRecord, Stage, DeliveryStates
    <3>2. sync' = [sync EXCEPT ![s] = Rest]
      BY <2>5 DEF EndSync
    <3>3. Rest.pc = "idle"
      BY DEF Rest
    <3> QED
      BY <1>1, <1>2, <3>1, <3>2, <3>3 DEF PullType, PullShape
  <2> QED
    BY <2>1, <2>2, <2>3, <2>4, <2>5
<1> QED
  BY <1>1, <1>2, <1>3, WatchingKeeps DEF IInv, Shape, PullType, WorldShape

(* A report shows up in the carrier's history.                             *)
LEMMA ShowInv ==
  ASSUME IInv, NEW o \in Order, Show(o)
  PROVE  IInv'
<1>1. Watching /\ recorded' = recorded /\ course' = course /\ sync' = sync
  BY DEF Watching, Show, goods
<1>2. visible' = [e \in Order |-> visible'[e]]
      /\ \A e \in Order : visible'[e] \subseteq DOMAIN course[e]
  <2>1. PICK i \in DOMAIN course[o] : visible' = [visible EXCEPT ![o] = visible[o] \cup {i}]
    BY DEF Show
  <2>2. /\ visible = [e \in Order |-> visible[e]]
        /\ \A e \in Order : visible[e] \subseteq DOMAIN course[e]
    BY DEF IInv, Shape, WorldShape, PullType
  <2> QED
    BY <2>1, <2>2
<1> QED
  BY <1>1, <1>2, WatchingKeeps DEF IInv, Shape, PullType, PullShape, WorldShape

(* The inductive invariant holds at first, is kept by every step, and so   *)
(* holds always.                                                           *)
LEMMA InitInv == Init => IInv
<1> SUFFICES ASSUME Init PROVE IInv
  OBVIOUS
<1>1. RecordsType
  BY StockAssumption DEF Init, RecordsType, OrderState, Undecided, State, Statuses,
    DeliveryStates, Returns
<1>2. PullType /\ WorldShape /\ PullShape
  BY DEF Init, PullType, WorldShape, PullShape, Nothing, Rest, PullRecord, Stage, DeliveryStates
<1>3. ASSUME NEW o \in Order PROVE Agrees(o)
  BY DEF Init, Agrees, Story, Chained, Where, Undecided, State, Failure
<1> QED
  BY <1>1, <1>2, <1>3 DEF IInv, Shape

(* Every step keeps the inductive invariant.                               *)
LEMMA NextInv == IInv /\ [Next]_vars => IInv'
<1> SUFFICES ASSUME IInv, [Next]_vars PROVE IInv'
  OBVIOUS
<1>1. ASSUME NEW o \in Order, Seller(o) \/ Booking(o) PROVE IInv'
  <2>1. UNCHANGED <<world, recorded, sync>>
    BY <1>1 DEF Seller, Booking, Confirm, Reject, Cancel, Pack, Ship, Deliver, Book,
      ReportFailure, ReportReturn, ReceiveReturn, InspectReturn, Booked, BookingRejected, GiveBack
  <2>2. Kept(o)
    <3>1. CASE ReportFailure(o)
      BY <3>1, FailKept DEF ReportFailure
    <3>2. CASE ReportReturn(o)
      BY <3>2, TurnBackKept DEF ReportReturn
    <3> QED
      BY <1>1, <3>1, <3>2, CommandKept, ReceiveKept, InspectKept DEF Seller
  <2> QED
    BY <2>1, <2>2, CommandInv
<1>2. ASSUME NEW o \in Order, Show(o) PROVE IInv'
  BY <1>2, ShowInv
<1>3. ASSUME NEW s \in Syncer, Pull(s) \/ \E o \in Order : Choose(s, o) \/ ReadPosition(s, o)
      PROVE  IInv'
  <2>1. CASE \E i \in Oldest(s) : Tell(s, i)
    BY <2>1, TellInv
  <2>2. CASE ~ \E i \in Oldest(s) : Tell(s, i)
    BY <1>3, <2>2, PullReads DEF Pull
  <2> QED
    BY <2>1, <2>2
<1>4. CASE UNCHANGED vars
  <2>1. Watching /\ UNCHANGED <<course, visible, recorded, sync>>
    BY <1>4 DEF vars, Watching
  <2> QED
    BY <2>1, WatchingKeeps DEF IInv, Shape, PullType, PullShape, WorldShape
<1> QED
  BY <1>1, <1>2, <1>3, <1>4 DEF Next

(* So it holds in every state of every behaviour.                          *)
LEMMA Invariant == Spec => []IInv
  BY InitInv, NextInv, PTL DEF Spec

-----------------------------------------------------------------------------
(* Every state has the types of the code's rows; in particular the         *)
(* stock of a product is never negative.                                   *)
THEOREM TypeCorrect == Spec => []TypeOK
<1>1. IInv => TypeOK
  BY DEF IInv, Shape, TypeOK, RecordsType, PullType, PullRecord, Stage
<1> QED
  BY <1>1, Invariant, PTL

(* The inventory column, the reservation, the last movement and the return *)
(* case of every order tell one story, whatever the seller does, however   *)
(* late, repeated or contradictory the carrier's reports, and however many *)
(* pulls tell them.                                                        *)
THEOREM GoodsTellOneStoryHolds == Spec => []GoodsTellOneStory
<1>1. IInv => GoodsTellOneStory
  BY DEF IInv, Agrees, GoodsTellOneStory
<1> QED
  BY <1>1, Invariant, PTL

(* The carrier owes the cash of the delivered orders, once each, whichever *)
(* path and however many pulls told of the delivery.                       *)
THEOREM CashFollowsDeliveryHolds == Spec => []CashFollowsDelivery
<1>1. IInv => CashFollowsDelivery
  BY DEF IInv, Agrees, CashFollowsDelivery
<1> QED
  BY <1>1, Invariant, PTL

(* Every movement starts where the previous one of the order ended, though *)
(* the commands derive its start from the order's columns.                 *)
THEOREM LedgerContinuousHolds == Spec => []LedgerContinuous
<1>1. IInv => LedgerContinuous
  BY DEF IInv, Agrees, Chained, LedgerContinuous
<1> QED
  BY <1>1, Invariant, PTL

(* Units come back on sale only by a cancellation before dispatch or by    *)
(* the inspection of a return physically received.                         *)
THEOREM NoStockBeforeInspectionHolds == Spec => NoStockBeforeInspection
<1> DEFINE Justified ==
      \E o \in Order :
         \/ case[o].state = "received" /\ case'[o].state = "completed"
         \/ reservation[o] = "active" /\ order'[o].status = "cancelled"
<1>1. IInv /\ [Next]_vars => [stock' > stock => Justified]_vars
  <2> SUFFICES ASSUME IInv, Next, stock' > stock PROVE Justified
    OBVIOUS
  <2>1. RecordsType /\ stock \in Nat
    BY DEF IInv, Shape, RecordsType
  <2>2. stock' # stock
    BY <2>1
  <2>3. ASSUME NEW o \in Order, Seller(o) PROVE Justified
    <3>1. CASE Confirm(o)
      BY <2>1, <3>1, QtyAssumption DEF Confirm
    <3>2. CASE Cancel(o)
      BY <2>1, <3>2 DEF Cancel, Put, State, RecordsType
    <3>3. ASSUME NEW d \in Disposition, InspectReturn(o, d) PROVE Justified
      BY <2>1, <3>3 DEF InspectReturn, CaseTo, OpenCase, RecordsType
    <3>4. CASE \/ Reject(o) \/ Pack(o) \/ Ship(o) \/ Deliver(o) \/ Book(o)
               \/ ReportFailure(o) \/ ReportReturn(o) \/ ReceiveReturn(o)
      BY <2>2, <3>4 DEF Reject, Pack, Ship, Deliver, Book, ReportFailure, Fail, ReportReturn,
        TurnBack, ReceiveReturn, goods
    <3> QED
      BY <2>3, <3>1, <3>2, <3>3, <3>4 DEF Seller
  <2>4. ASSUME NEW o \in Order, Booking(o) \/ Show(o) PROVE FALSE
    BY <2>2, <2>4 DEF Booking, Booked, BookingRejected, GiveBack, Show, goods
  <2>5. ASSUME NEW s \in Syncer, Pull(s) \/ \E o \in Order : Choose(s, o) \/ ReadPosition(s, o)
        PROVE  FALSE
    BY <2>2, <2>5 DEF Pull, Choose, ReadPosition, Fetch, Look, Tell, Fail, TurnBack, Track,
      Replay, Abort, EndSync, goods
  <2> QED
    BY <2>3, <2>4, <2>5 DEF Next
<1> QED
  BY <1>1, Invariant, PTL DEF Spec, NoStockBeforeInspection

-----------------------------------------------------------------------------
(***************************************************************************)
(* Where an order's parcel is.  A parcel is under way only when the order  *)
(* left "not_created", and a pull only ever has an order whose parcel is.  *)
(* So a pull cannot put a scan on a parcel that was never handed over: the *)
(* guard of tracking alone would let one that is not on the way be marked  *)
(* as created.  The delivery column of an order on the road is never ahead *)
(* of its parcel, which is what a scan is compared with; so it is with an  *)
(* order a scan put back on the road from its return.  The two ends of the *)
(* road agree with the order's status, which the tracking looks at.        *)
(***************************************************************************)
Home(o) ==
    /\ order[o].status = "pending" => order[o].delivery = "none"
    /\ order[o].status = "cancelled" => order[o].delivery = "not_created"
    /\ order[o].fulfillment = "unfulfilled" => order[o].delivery = "not_created"
    /\ order[o].delivery \in {"none", "not_created"} =>
          parcel[o].status \in {"not_created", "booking_failed"}
    /\ parcel[o].by = "courier" => parcel[o].status # "not_created"
    /\ order[o].fulfillment = "shipped" \/ order[o].delivery \in InDelivery =>
          Rank(order[o].delivery) <= Rank(parcel[o].status)
    /\ order[o].status = "delivered" =>
          order[o].delivery = "delivered" /\ parcel[o].status = "delivered"
    /\ order[o].delivery \in {"delivered", "returned"} => order[o].status = order[o].delivery

PullsAreTracked == \A s \in Syncer : sync[s].pc # "idle" => Tracked(sync[s].order)

RoadInv == PullsAreTracked /\ \A o \in Order : Home(o)

(* The rows Home reads, and what they may hold.                            *)
Parcels == [by : {"nobody", "seller", "courier"},
            status : Report \cup {"not_created", "booking_queued",
                                  "booking_failed", "return_in_transit"}]

LEMMA RoadTyped == IInv => order \in [Order -> OrderState] /\ parcel \in [Order -> Parcels]
  BY DEF IInv, Shape, RecordsType, Parcels

(* A step that writes to one order's row and parcel.                       *)
Writes(o, s, p) ==
    /\ order' = [order EXCEPT ![o] = s]
    /\ parcel' = [parcel EXCEPT ![o] = p]

(* Ranks are numbers, and the delivery state of a scan has the scan's.     *)
LEMMA Ranks ==
    /\ \A r : Rank(r) \in Int
    /\ \A r \in Scan : Rank(r) >= 1 => /\ Rank(DeliveryState(r)) = Rank(r)
                                       /\ DeliveryState(r) \in InDelivery \cup {"delivered"}
  BY DEF Rank, DeliveryState, Scan, Report, Failure, InDelivery

(* What a scan told does to the order's row and its parcel.                *)
LEMMA TrackMoves ==
    ASSUME IInv, NEW o \in Order, NEW r \in Scan, CanTrack(o, r), Track(o, r)
    PROVE  \/ UNCHANGED <<order, parcel>>
           \/ /\ Ahead(o, r) /\ order' = order
              /\ parcel' = [parcel EXCEPT ![o] = [by |-> parcel[o].by, status |-> r]]
           \/ /\ Ahead(o, r) /\ Rank(r) >= 1
              /\ Writes(o, Advanced(o, r), [by |-> parcel[o].by, status |-> r])
  BY DEF Track, Handle, Carry, Put, Writes

(* A scan leaves the order in delivery, or delivered.                      *)
LEMMA AdvancedTo ==
    ASSUME NEW o \in Order, NEW r \in Scan, Rank(r) >= 1, CanTrack(o, r), Ahead(o, r)
    PROVE  /\ Advanced(o, r).status \in {"shipped", "delivered"}
           /\ Advanced(o, r).delivery = DeliveryState(r)
           /\ \/ Advanced(o, r).fulfillment # "unfulfilled"
              \/ order[o].fulfillment = "unfulfilled"
           /\ \/ order[o].status = "delivered"
              \/ Advanced(o, r).status = "delivered" <=> r = "delivered"
  BY DEF Advanced, WithDelivery, State, CanTrack, PicksUp, DeliveryState, Scan, Report, Failure

(* A delivered order's parcel takes no other scan, and no second delivery. *)
LEMMA DeliveredIsEnd ==
    ASSUME NEW o \in Order, NEW r \in Scan, Home(o), order[o].status = "delivered",
           Ahead(o, r), CanTrack(o, r)
    PROVE  FALSE
<1>1. r = "delivered"
  BY DEF Home, Ahead, Rank, Scan, Report, Failure
<1> QED
  BY <1>1 DEF CanTrack, PicksUp, Packed, Rank

(* The report a pull tells is one the carrier has words for.               *)
LEMMA ToldIsReport ==
    ASSUME IInv, NEW s \in Syncer, NEW i \in Oldest(s), Tell(s, i)
    PROVE  Now(s) \in Order /\ Told(s, i) \in Report
<1>1. Now(s) \in Order /\ i \in DOMAIN course[Now(s)]
  BY DEF Tell, IInv, Shape, PullShape, Now, Oldest
<1>2. course[Now(s)] \in Seq(Report)
  BY <1>1, CourseAssumption DEF IInv, Shape, PullType
<1> QED
  BY <1>1, <1>2 DEF Told

(* A parcel on its way stays on its way.                                   *)
LEMMA TrackedStays ==
    ASSUME IInv, [Next]_vars, NEW o \in Order, Tracked(o)
    PROVE  Tracked(o)'
<1>1. parcel \in [Order -> Parcels]
  BY RoadTyped
<1>2. ASSUME NEW q \in Order, Seller(q) \/ Booking(q) PROVE Tracked(o)'
  BY <1>1, <1>2 DEF Seller, Booking, Confirm, Reject, Cancel, Pack, Ship, Deliver, Book,
    ReportFailure, ReportReturn, ReceiveReturn, InspectReturn, Booked, BookingRejected, GiveBack,
    Fail, TurnBack, Handle, Carry, Tracked, Failure
<1>3. ASSUME NEW s \in Syncer, NEW i \in Oldest(s), Tell(s, i) PROVE Tracked(o)'
  <2>1. PICK q \in Order : q = Now(s)
    BY <1>3, ToldIsReport
  <2>2. Told(s, i) \in Report
    BY <1>3, ToldIsReport
  <2>3. \/ parcel' = parcel
        \/ \E st \in Report \cup {"return_in_transit"} :
              parcel' = [parcel EXCEPT ![q] = [by |-> parcel[q].by, status |-> st]]
    BY <1>3, <2>1, <2>2 DEF Tell, Fail, TurnBack, Track, Handle, Carry
  <2> QED
    BY <1>1, <2>3 DEF Tracked, Report
<1>4. CASE parcel' = parcel
  BY <1>4 DEF Tracked
<1> QED
  BY <1>2, <1>3, <1>4 DEF Next, Show, Pull, Fetch, Look, Replay, Abort, EndSync, Choose,
    ReadPosition, vars

(* The commands of the seller and the outcomes of a booking.               *)
LEMMA SellerHome ==
    ASSUME IInv, NEW o \in Order, Home(o), Seller(o) \/ Booking(o)
    PROVE  Home(o)'
<1>1. /\ order[o] \in OrderState /\ order \in [Order -> OrderState]
      /\ parcel[o] \in Parcels /\ parcel \in [Order -> Parcels]
  BY RoadTyped
<1>2. CASE Confirm(o) \/ Reject(o) \/ Cancel(o) \/ Pack(o)
  BY <1>1, <1>2 DEF Home, Confirm, Reject, Cancel, Pack, Put, State, InDelivery
<1>3. CASE Ship(o)
  BY <1>1, <1>3 DEF Home, Ship, Packed, Put, Carry, State, Rank
<1>4. CASE Deliver(o)
  BY <1>1, <1>4 DEF Home, Deliver, Put, Handle, Carry, State, InDelivery
<1>5. CASE Book(o)
  BY <1>1, <1>5 DEF Home, Book, Packed, Put, Carry, State, WithDelivery, InDelivery
<1>6. CASE Booked(o) \/ BookingRejected(o)
  BY <1>1, <1>6 DEF Home, Booked, BookingRejected, Handle, Carry, Rank
<1>7. CASE GiveBack(o)
  BY <1>1, <1>7 DEF Home, GiveBack, Packed, Put, State, WithDelivery, InDelivery
<1>8. CASE ReportFailure(o)
  BY <1>1, <1>8 DEF Home, ReportFailure, Fail, Put, Handle, Carry, State, Failure, InDelivery
<1>9. CASE ReportReturn(o)
  BY <1>1, <1>9 DEF Home, ReportReturn, TurnBack, Put, Handle, Carry, State, InDelivery
<1>10. CASE ReceiveReturn(o)
  BY <1>1, <1>10 DEF Home, ReceiveReturn, Put, Handle, Carry, State, InDelivery
<1>11. CASE \E d \in Disposition : InspectReturn(o, d)
  BY <1>1, <1>11 DEF Home, InspectReturn, Put, State
<1> QED
  BY <1>2, <1>3, <1>4, <1>5, <1>6, <1>7, <1>8, <1>9, <1>10, <1>11 DEF Seller, Booking

(* A report told by a pull, of a parcel that is on its way.                *)
LEMMA TellHome ==
    ASSUME IInv, RoadInv, NEW s \in Syncer, NEW i \in Oldest(s), Tell(s, i),
           NEW o \in Order, o = Now(s)
    PROVE  Home(o)'
<1>1. /\ order[o] \in OrderState /\ order \in [Order -> OrderState]
      /\ parcel[o] \in Parcels /\ parcel \in [Order -> Parcels]
  BY RoadTyped
<1>2. Home(o) /\ Tracked(o)
  BY DEF RoadInv, PullsAreTracked, Tell, Now
<1>3. CASE Told(s, i) \in Failure /\ Fail(o, Told(s, i), "courier")
  BY <1>1, <1>2, <1>3 DEF Home, Fail, Put, Handle, Carry, State, Failure, InDelivery
<1>4. CASE Turns(s, i) /\ TurnBack(o, "courier")
  BY <1>1, <1>2, <1>4 DEF Home, TurnBack, Put, Handle, Carry, State, InDelivery
<1>5. CASE Tracks(s, i) /\ Track(o, Told(s, i))
  <2>1. CanTrack(o, Told(s, i))
    BY <1>5 DEF Tell, Accepts, Turns, Tracks
  <2>2. PICK r \in Scan : r = Told(s, i)
    BY <1>5, ToldIsReport DEF Tracks, Scan
  <2>3. order[o].delivery \notin {"none", "not_created"}
    BY <1>1, <1>2 DEF Home, Tracked
  <2>4. r # "not_created"
    BY DEF Scan, Report
  <2>5. CASE UNCHANGED <<order, parcel>>
    BY <1>2, <2>5 DEF Home
  <2>6. CASE /\ Ahead(o, r) /\ order' = order
             /\ parcel' = [parcel EXCEPT ![o] = [by |-> parcel[o].by, status |-> r]]
    <3>1. order[o].status # "delivered"
      BY <1>2, <2>1, <2>2, <2>6, DeliveredIsEnd
    <3> QED
      BY <1>1, <1>2, <2>3, <2>4, <2>6, <3>1, Ranks DEF Home, Ahead, InDelivery
  <2>7. CASE /\ Ahead(o, r) /\ Rank(r) >= 1
             /\ Writes(o, Advanced(o, r), [by |-> parcel[o].by, status |-> r])
    <3>1. order'[o] = Advanced(o, r) /\ parcel'[o] = [by |-> parcel[o].by, status |-> r]
      BY <1>1, <2>7 DEF Writes
    <3>2. /\ order'[o].status \in {"shipped", "delivered"}
          /\ order'[o].delivery = DeliveryState(r)
          /\ order'[o].fulfillment # "unfulfilled"
      BY <1>2, <2>1, <2>2, <2>3, <2>7, <3>1, AdvancedTo DEF Home
    <3>3. Rank(order'[o].delivery) = Rank(r) /\ order'[o].delivery \notin {"none", "not_created"}
      BY <2>7, <3>2, Ranks DEF InDelivery
    <3>4. order'[o].status = "delivered" <=> r = "delivered"
      BY <1>2, <2>1, <2>2, <2>7, <3>1, AdvancedTo, DeliveredIsEnd
    <3>5. /\ order'[o].delivery = "delivered" <=> r = "delivered"
          /\ order'[o].delivery # "returned"
      BY <3>2 DEF DeliveryState, Scan, Report, Failure
    <3> QED
      BY <2>4, <3>1, <3>2, <3>3, <3>4, <3>5, Ranks DEF Home
  <2> QED
    BY <1>5, <2>1, <2>2, <2>5, <2>6, <2>7, TrackMoves
<1> QED
  BY <1>3, <1>4, <1>5 DEF Tell

(* No command and no report writes to another order's row or parcel.       *)
LEMMA RoadOnly ==
    ASSUME IInv, NEW o \in Order,
           \/ Seller(o) \/ Booking(o)
           \/ \E s \in Syncer : \E i \in Oldest(s) : o = Now(s) /\ Tell(s, i)
    PROVE  \A q \in Order : q # o => order'[q] = order[q] /\ parcel'[q] = parcel[q]
<1>1. order \in [Order -> OrderState] /\ parcel \in [Order -> Parcels]
  BY RoadTyped
<1>2. CASE Seller(o) \/ Booking(o)
  BY <1>1, <1>2 DEF Seller, Booking, Confirm, Reject, Cancel, Pack, Ship, Deliver, Book,
    ReportFailure, ReportReturn, ReceiveReturn, InspectReturn, Booked, BookingRejected, GiveBack,
    Fail, TurnBack, Handle, Carry, Put
<1>3. ASSUME NEW s \in Syncer, NEW i \in Oldest(s), o = Now(s), Tell(s, i)
      PROVE  \A q \in Order : q # o => order'[q] = order[q] /\ parcel'[q] = parcel[q]
  <2>1. /\ \/ order' = order
           \/ \E x : order' = [order EXCEPT ![o] = x]
        /\ \/ parcel' = parcel
           \/ \E y : parcel' = [parcel EXCEPT ![o] = y]
    BY <1>3 DEF Tell, Fail, TurnBack, Track, Handle, Carry, Put
  <2> QED
    BY <1>1, <2>1
<1> QED
  BY <1>2, <1>3

(* No step leaves the invariant of the road.                               *)
LEMMA NextHome ==
    ASSUME IInv, RoadInv, [Next]_vars
    PROVE  \A o \in Order : Home(o)'
<1>1. ASSUME NEW o \in Order, NEW q \in Order, Home(q)',
             \A d \in Order : d # q => order'[d] = order[d] /\ parcel'[d] = parcel[d]
      PROVE  Home(o)'
  BY <1>1 DEF RoadInv, Home
<1>2. ASSUME NEW q \in Order, Seller(q) \/ Booking(q) PROVE \A o \in Order : Home(o)'
  BY <1>1, <1>2, SellerHome, RoadOnly DEF RoadInv
<1>3. ASSUME NEW s \in Syncer, NEW i \in Oldest(s), Tell(s, i) PROVE \A o \in Order : Home(o)'
  <2>1. PICK q \in Order : q = Now(s)
    BY <1>3, ToldIsReport
  <2> QED
    BY <1>1, <1>3, <2>1, TellHome, RoadOnly
<1>4. CASE UNCHANGED <<order, parcel>>
  BY <1>4 DEF RoadInv, Home
<1> QED
  BY <1>2, <1>3, <1>4 DEF Next, Show, Pull, Fetch, Look, Replay, Abort, EndSync, Choose,
    ReadPosition, vars

LEMMA NextPulls ==
    ASSUME IInv, RoadInv, [Next]_vars
    PROVE  PullsAreTracked'
<1> SUFFICES ASSUME NEW s \in Syncer, sync'[s].pc # "idle" PROVE Tracked(sync[s].order)'
  BY DEF PullsAreTracked
<1>1. sync \in [Syncer -> PullRecord]
  BY DEF IInv, Shape, PullType
<1>2. CASE sync[s].pc # "idle" /\ sync'[s].order = sync[s].order
  <2>1. PICK o \in Order : o = sync[s].order
    BY <1>2 DEF IInv, Shape, PullShape
  <2>2. Tracked(o)'
    BY <1>2, <2>1, TrackedStays DEF RoadInv, PullsAreTracked
  <2> QED
    BY <1>2, <2>1, <2>2
<1>3. ASSUME NEW o \in Order, Tracked(o), sync'[s].order = o PROVE Tracked(sync[s].order)'
  BY <1>3, TrackedStays
<1>4. CASE sync' = sync
  BY <1>2, <1>4
<1>5. ASSUME NEW t \in Syncer, NEW o \in Order, Choose(t, o) PROVE Tracked(sync[s].order)'
  <2>1. sync'[s] = sync[s] \/ sync'[s].order = o
    BY <1>1, <1>5 DEF Choose, PullIs
  <2> QED
    BY <1>2, <1>3, <1>5, <2>1 DEF Choose
<1>6. ASSUME NEW t \in Syncer, NEW o \in Order, ReadPosition(t, o)
      PROVE  Tracked(sync[s].order)'
  <2>1. sync'[s] = sync[s] \/ sync'[s].order = o
    BY <1>1, <1>6 DEF ReadPosition, PullIs
  <2>2. Tracked(o)
    BY <1>6 DEF ReadPosition, RoadInv, PullsAreTracked, Now
  <2> QED
    BY <1>2, <1>3, <2>1, <2>2
<1>7. ASSUME NEW t \in Syncer, Pull(t) PROVE Tracked(sync[s].order)'
  <2>1. sync[t].pc # "idle"
    BY <1>7 DEF Pull, Fetch, Look, Tell, Replay, Abort, EndSync
  <2>2. CASE EndSync(t)
    BY <1>1, <1>2, <2>2 DEF EndSync, Rest
  <2>3. CASE ~EndSync(t)
    <3>1. \E pc, v, d, left : PullIs(t, pc, Now(t), v, d, left)
      BY <1>7, <2>3 DEF Pull, Fetch, Look, Tell, Proceed, Replay, Abort, Onward
    <3>2. sync'[s] = sync[s] \/ (s = t /\ sync'[s].order = sync[s].order)
      BY <1>1, <3>1 DEF PullIs, Now
    <3> QED
      BY <1>2, <2>1, <3>2
  <2> QED
    BY <2>2, <2>3
<1> QED
  BY <1>4, <1>5, <1>6, <1>7 DEF Next, Seller, Booking, Confirm, Reject, Cancel, Pack, Ship,
    Deliver, Book, ReportFailure, ReportReturn, ReceiveReturn, InspectReturn, Booked,
    BookingRejected, GiveBack, Show, vars

LEMMA RoadInvariant == Spec => []RoadInv
<1>1. Init => RoadInv
  BY DEF Init, RoadInv, Home, PullsAreTracked, Rest, Undecided, State, InDelivery
<1>2. IInv /\ RoadInv /\ [Next]_vars => RoadInv'
  BY NextHome, NextPulls DEF RoadInv
<1> QED
  BY <1>1, <1>2, Invariant, PTL DEF Spec

(* A cancelled order's parcel is not on its way, and no scan told late can *)
(* put it there.                                                           *)
THEOREM CancelledStaysHomeHolds == Spec => []CancelledStaysHome
<1>1. RoadInv => CancelledStaysHome
  BY DEF RoadInv, Home, CancelledStaysHome
<1> QED
  BY <1>1, RoadInvariant, PTL

(* A delivery column that goes on, with the exceptions of the property.    *)
Onwards(o) ==
    LET d == order[o].delivery  e == order'[o].delivery IN
    d # e =>
       \/ Reach(d) < Reach(e)
       \/ d = "pending" /\ e = "not_created" /\ parcel[o].status = "booking_failed"
       \/ /\ case[o].state \in {"awaiting_return", "in_transit"}
          /\ d \in Failure \cup {"return_in_transit"}
          /\ e \in InDelivery

(* Reports on the road reach as far as they rank, and delivery ends it.    *)
LEMMA Reaches ==
    /\ \A d, e \in InDelivery : Rank(d) <= Rank(e) => d = e \/ Reach(d) < Reach(e)
    /\ \A d \in DeliveryStates : Reach(d) \in Nat
    /\ \A d \in DeliveryStates \ {"delivered", "returned"} : Reach(d) < Reach("delivered")
    /\ \A d \in {"none", "not_created", "pending"} : \A e \in InDelivery : Reach(d) < Reach(e)
  BY DEF Reach, Rank, InDelivery, Failure, DeliveryStates

(* The delivery column after a report was told.                            *)
LEMMA TellOnwards ==
    ASSUME IInv, RoadInv, NEW s \in Syncer, NEW i \in Oldest(s), Tell(s, i),
           NEW o \in Order, o = Now(s)
    PROVE  Onwards(o)
<1>1. /\ order \in [Order -> OrderState] /\ parcel \in [Order -> Parcels]
      /\ order[o] \in OrderState /\ Home(o) /\ Agrees(o)
  BY RoadTyped DEF RoadInv, IInv
<1>2. CASE Told(s, i) \in Failure /\ Fail(o, Told(s, i), "courier")
  <2>1. CanFail(o)
    BY <1>2 DEF Tell, Accepts, Turns, Tracks, Failure
  <2> QED
    BY <1>1, <1>2, <2>1 DEF Fail, CanFail, Put, State, Failure, Onwards, Reach
<1>3. CASE Turns(s, i) /\ TurnBack(o, "courier")
  BY <1>1, <1>3 DEF TurnBack, ReturnsFromDelivery, ReturnsFromException, Put, State,
    InDelivery, Failure, Onwards, Reach
<1>4. CASE Tracks(s, i) /\ Track(o, Told(s, i))
  <2>1. CanTrack(o, Told(s, i))
    BY <1>4 DEF Tell, Accepts, Turns, Tracks
  <2>2. PICK r \in Scan : r = Told(s, i)
    BY <1>4, ToldIsReport DEF Tracks, Scan
  <2>3. CASE /\ Ahead(o, r) /\ Rank(r) >= 1
             /\ Writes(o, Advanced(o, r), [by |-> parcel[o].by, status |-> r])
    <3> DEFINE d == order[o].delivery
               e == order'[o].delivery
    <3>1. e = DeliveryState(r) /\ e \in InDelivery \cup {"delivered"} /\ Rank(e) = Rank(r)
      BY <1>1, <2>1, <2>2, <2>3, AdvancedTo, Ranks DEF Writes
    <3>2. d \in DeliveryStates /\ d # "returned"
      BY <1>1, <2>1, <2>2, <2>3 DEF OrderState, Home, CanTrack, Packed
    <3>3. CASE e = "delivered"
      BY <3>2, <3>3, Reaches DEF Onwards
    <3>4. CASE e # "delivered" /\ d = "delivered"
      <4>1. parcel[o].status = "delivered"
        BY <1>1, <3>4 DEF Home
      <4> QED
        BY <2>3, <3>1, <3>4, <4>1 DEF Ahead, Rank, InDelivery
    <3>5. CASE e # "delivered" /\ d \in InDelivery
      <4>1. Rank(d) <= Rank(e)
        BY <1>1, <2>3, <3>1, <3>5, Ranks DEF Home, Ahead
      <4> QED
        BY <3>1, <3>5, <4>1, Reaches DEF Onwards
    <3>6. CASE e # "delivered" /\ d \in {"none", "not_created", "pending"}
      BY <3>1, <3>6, Reaches DEF Onwards
    <3>7. CASE e # "delivered" /\ d \in Failure \cup {"return_in_transit"}
      BY <1>1, <3>1, <3>7 DEF Agrees, Onwards
    <3> QED
      BY <3>2, <3>3, <3>4, <3>5, <3>6, <3>7 DEF DeliveryStates
  <2>4. CASE order' = order
    BY <2>4 DEF Onwards
  <2> QED
    BY <1>4, <2>1, <2>2, <2>3, <2>4, TrackMoves
<1> QED
  BY <1>2, <1>3, <1>4 DEF Tell

(* The delivery column after a command of the seller or a booking's end.   *)
LEMMA SellerOnwards ==
    ASSUME IInv, RoadInv, NEW o \in Order, Seller(o) \/ Booking(o)
    PROVE  Onwards(o)
<1>1. order \in [Order -> OrderState] /\ order[o] \in OrderState /\ Home(o)
  BY RoadTyped DEF RoadInv
<1>2. CASE Confirm(o) \/ Reject(o) \/ Cancel(o) \/ Pack(o)
  <2>1. order[o].delivery \in {"none", "not_created"}
    BY <1>1, <1>2 DEF Confirm, Reject, Cancel, Pack, Home
  <2>2. order'[o].delivery = "not_created"
    BY <1>1, <1>2 DEF Confirm, Reject, Cancel, Pack, Put, State
  <2> QED
    BY <2>1, <2>2 DEF Onwards, Reach, Failure
<1>3. CASE Ship(o) \/ Deliver(o) \/ Book(o) \/ GiveBack(o)
  <2>1. CASE Ship(o)
    BY <1>1, <2>1 DEF Ship, Packed, Put, State, Onwards, Reach, Failure
  <2>2. CASE Deliver(o)
    BY <1>1, <2>2 DEF Deliver, Put, State, Onwards, Reach, Failure
  <2>3. CASE Book(o)
    BY <1>1, <2>3 DEF Book, Packed, Put, State, WithDelivery, Onwards, Reach, Failure
  <2>4. CASE GiveBack(o)
    BY <1>1, <2>4 DEF GiveBack, Packed, Put, State, WithDelivery, Onwards
  <2> QED
    BY <1>3, <2>1, <2>2, <2>3, <2>4
<1>4. CASE ReportFailure(o)
  BY <1>1, <1>4 DEF ReportFailure, CanFail, Fail, Put, State, Failure, Onwards, Reach
<1>5. CASE ReportReturn(o)
  BY <1>1, <1>5 DEF ReportReturn, TurnBack, ReturnsFromDelivery, ReturnsFromException, Put,
    State, InDelivery, Failure, Onwards, Reach
<1>6. CASE ReceiveReturn(o) \/ \E d \in Disposition : InspectReturn(o, d)
  BY <1>1, <1>6 DEF ReceiveReturn, CanReceive, InspectReturn, Put, State, Failure, Onwards,
    Reach
<1>7. CASE Booked(o) \/ BookingRejected(o)
  BY <1>7 DEF Booked, BookingRejected, Onwards
<1> QED
  BY <1>2, <1>3, <1>4, <1>5, <1>6, <1>7 DEF Seller, Booking

(* No order's delivery goes a step back, but for a booking that failed and *)
(* a scan told of an order whose return case is open.                      *)
THEOREM DeliveryNeverRollsBackHolds == Spec => DeliveryNeverRollsBack
<1>1. IInv /\ RoadInv /\ [Next]_vars => [\A o \in Order : Onwards(o)]_vars
  <2> SUFFICES ASSUME IInv, RoadInv, Next, NEW o \in Order PROVE Onwards(o)
    OBVIOUS
  <2>1. CASE order'[o] = order[o]
    BY <2>1 DEF Onwards
  <2>2. ASSUME NEW q \in Order, Seller(q) \/ Booking(q) PROVE Onwards(o)
    BY <2>1, <2>2, SellerOnwards, RoadOnly
  <2>3. ASSUME NEW s \in Syncer, NEW i \in Oldest(s), Tell(s, i) PROVE Onwards(o)
    <3>1. PICK q \in Order : q = Now(s)
      BY <2>3, ToldIsReport
    <3>2. CASE q = o
      BY <2>3, <3>1, <3>2, TellOnwards
    <3>3. CASE q # o
      BY <2>1, <2>3, <3>1, <3>3, RoadOnly
    <3> QED
      BY <3>2, <3>3
  <2>4. CASE UNCHANGED order
    BY <2>1, <2>4
  <2> QED
    BY <2>2, <2>3, <2>4 DEF Next, Show, Pull, Fetch, Look, Replay, Abort, EndSync,
      Choose, ReadPosition
<1>2. [\A o \in Order : Onwards(o)]_vars <=>
        [\A o \in Order :
           LET d == order[o].delivery  e == order'[o].delivery IN
           d # e =>
              \/ Reach(d) < Reach(e)
              \/ d = "pending" /\ e = "not_created" /\ parcel[o].status = "booking_failed"
              \/ /\ case[o].state \in {"awaiting_return", "in_transit"}
                 /\ d \in Failure \cup {"return_in_transit"}
                 /\ e \in InDelivery]_vars
  BY DEF Onwards
<1> QED
  BY <1>1, <1>2, Invariant, RoadInvariant, PTL DEF Spec, DeliveryNeverRollsBack
-----------------------------------------------------------------------------
(***************************************************************************)
(* Units are conserved.  Every step either leaves the stock figure and the *)
(* place of all goods alone, or takes the units of one order out of the    *)
(* stock or puts them back; a sum over the orders then changes by exactly  *)
(* those units.                                                            *)
(***************************************************************************)
UnitsMove ==
    \/ stock' = stock /\ Sold' = Sold
    \/ \E o \in Order : o \notin Sold /\ Sold' = Sold \cup {o} /\ stock' = stock - Qty[o]
    \/ \E o \in Order : o \in Sold /\ Sold' = Sold \ {o} /\ stock' = stock + Qty[o]

(* Where a movement takes the goods of its order, and of no other.         *)
LEMMA MoveTakes ==
    ASSUME IInv, NEW o \in Order, NEW from \in Position, NEW to \in Position, Move(o, from, to)
    PROVE  /\ Where(o)' = to
           /\ \A d \in Order : d # o => Where(d)' = Where(d)
<1> DEFINE old == ledger[o]
           new == Append(old, <<from, to>>)
<1>1. ledger \in [Order -> Seq(Position \X Position)]
  BY DEF IInv, Shape, RecordsType
<1>2. old \in Seq(Position \X Position) /\ ledger' = [ledger EXCEPT ![o] = new]
  BY <1>1 DEF Move
<1>3. Len(new) = Len(old) + 1 /\ new[Len(old) + 1] = <<from, to>> /\ new # <<>>
  <2>1. /\ new \in Seq(Position \X Position)
        /\ Len(new) = Len(old) + 1
        /\ Len(old) \in Nat
        /\ new[Len(old) + 1] = <<from, to>>
    BY <1>2
  <2>2. new # <<>>
    BY <2>1
  <2> QED
    BY <2>1, <2>2
<1>4. ledger'[o] = new /\ \A d \in Order : d # o => ledger'[d] = ledger[d]
  BY <1>1, <1>2
<1> HIDE DEF new
<1>5. Where(o)' = to
  BY <1>3, <1>4 DEF Where
<1> QED
  BY <1>4, <1>5 DEF Where

(* A movement between two places outside the stock.                        *)
LEMMA AwayStaysAway ==
    ASSUME IInv, NEW o \in Order, NEW from \in Position, NEW to \in Position,
           Move(o, from, to), Where(o) # "available", to # "available"
    PROVE  Sold' = Sold
  BY MoveTakes DEF Sold

LEMMA GoodsStay == UNCHANGED ledger => Sold' = Sold
  BY DEF Sold, Where

LEMMA CommandUnits ==
    ASSUME IInv, NEW o \in Order, Seller(o) \/ Booking(o)
    PROVE  UnitsMove
<1>1. Agrees(o) /\ order[o].inventory = order[o].inventory
  BY DEF IInv
<1>2. CASE Confirm(o)
  <2>1. Where(o) = "available" /\ Move(o, "available", "reserved")
    BY <1>1, <1>2 DEF Confirm, Agrees, Story
  <2>2. Where(o)' = "reserved" /\ \A d \in Order : d # o => Where(d)' = Where(d)
    BY <2>1, MoveTakes DEF Position
  <2>3. o \notin Sold /\ Sold' = Sold \cup {o}
    BY <2>1, <2>2 DEF Sold
  <2> QED
    BY <1>2, <2>3 DEF Confirm, UnitsMove
<1>3. CASE Cancel(o)
  <2>1. Where(o) = "reserved" /\ Move(o, "reserved", "available")
    BY <1>1, <1>3 DEF Cancel, Agrees, Story
  <2>2. Where(o)' = "available" /\ \A d \in Order : d # o => Where(d)' = Where(d)
    BY <2>1, MoveTakes DEF Position
  <2>3. o \in Sold /\ Sold' = Sold \ {o}
    BY <2>1, <2>2 DEF Sold
  <2> QED
    BY <1>3, <2>3 DEF Cancel, UnitsMove
<1>4. CASE Ship(o)
  <2>1. Where(o) = "reserved" /\ Move(o, "reserved", "outbound") /\ stock' = stock
    BY <1>1, <1>4 DEF Ship, Packed, Agrees, Story
  <2> QED
    BY <2>1, AwayStaysAway DEF Position, UnitsMove
<1>5. CASE ReportFailure(o)
  <2>1. Where(o) = "outbound" /\ Move(o, "outbound", "return_pending_receipt") /\ stock' = stock
    BY <1>1, <1>5 DEF ReportFailure, CanFail, Fail, Agrees, Story
  <2> QED
    BY <2>1, AwayStaysAway DEF Position, UnitsMove
<1>6. CASE ReportReturn(o)
  <2>1. /\ Where(o) # "available" /\ stock' = stock
        /\ \/ Move(o, "outbound", "return_in_transit")
           \/ Move(o, "return_pending_receipt", "return_in_transit")
    BY <1>1, <1>6 DEF ReportReturn, TurnBack, ReturnsFromDelivery, ReturnsFromException,
      Agrees, Story
  <2> QED
    BY <2>1, AwayStaysAway DEF Position, UnitsMove
<1>7. CASE ReceiveReturn(o)
  <2>1. /\ Where(o) # "available" /\ stock' = stock
        /\ \/ Move(o, "return_in_transit", "return_pending_inspection")
           \/ Move(o, "return_pending_receipt", "return_pending_inspection")
    BY <1>1, <1>7 DEF ReceiveReturn, CanReceive, Agrees, Story
  <2> QED
    BY <2>1, AwayStaysAway DEF Position, UnitsMove
<1>8. ASSUME NEW d \in Disposition, InspectReturn(o, d) PROVE UnitsMove
  <2>1. /\ Where(o) = "return_pending_inspection"
        /\ Move(o, "return_pending_inspection", d)
        /\ stock' = IF d = "available" THEN stock + Qty[o] ELSE stock
    BY <1>1, <1>8 DEF InspectReturn, Agrees, Story
  <2>2. d \in Position /\ "return_pending_inspection" \in Position
    BY DEF Position
  <2>3. CASE d = "available"
    <3>1. Where(o)' = "available" /\ \A e \in Order : e # o => Where(e)' = Where(e)
      BY <2>1, <2>2, <2>3, MoveTakes
    <3>2. o \in Sold /\ Sold' = Sold \ {o}
      BY <2>1, <3>1 DEF Sold
    <3> QED
      BY <2>1, <2>3, <3>2 DEF UnitsMove
  <2>4. CASE d # "available"
    BY <2>1, <2>2, <2>4, AwayStaysAway DEF UnitsMove
  <2> QED
    BY <2>3, <2>4
<1>9. CASE Reject(o) \/ Pack(o) \/ Deliver(o) \/ Book(o) \/ Booking(o)
  <2>1. stock' = stock /\ ledger' = ledger
    BY <1>9 DEF Reject, Pack, Deliver, Book, Booking, Booked, BookingRejected, GiveBack, goods
  <2> QED
    BY <2>1, GoodsStay DEF UnitsMove
<1> QED
  BY <1>2, <1>3, <1>4, <1>5, <1>6, <1>7, <1>8, <1>9 DEF Seller

LEMMA TellUnits ==
    ASSUME IInv, NEW s \in Syncer, NEW i \in Oldest(s), Tell(s, i)
    PROVE  UnitsMove
<1>1. PICK o \in Order : o = Now(s)
  BY ToldIsReport
<1>2. Agrees(o)
  BY DEF IInv
<1>3. CASE Told(s, i) \in Failure /\ Fail(o, Told(s, i), "courier")
  <2>1. CanFail(o)
    BY <1>1, <1>3 DEF Tell, Accepts, Turns, Tracks, Failure
  <2>2. Where(o) = "outbound" /\ Move(o, "outbound", "return_pending_receipt") /\ stock' = stock
    BY <1>2, <1>3, <2>1 DEF CanFail, Fail, Agrees, Story
  <2> QED
    BY <2>2, AwayStaysAway DEF Position, UnitsMove
<1>4. CASE Turns(s, i) /\ TurnBack(o, "courier")
  <2>1. /\ Where(o) # "available" /\ stock' = stock
        /\ \/ Move(o, "outbound", "return_in_transit")
           \/ Move(o, "return_pending_receipt", "return_in_transit")
    BY <1>2, <1>4 DEF TurnBack, ReturnsFromDelivery, ReturnsFromException, Agrees, Story
  <2> QED
    BY <2>1, AwayStaysAway DEF Position, UnitsMove
<1>5. CASE Tracks(s, i) /\ Track(o, Told(s, i))
  <2>1. stock' = stock
    BY <1>5 DEF Track
  <2>2. CASE PicksUp(o, Told(s, i))
    <3>1. Where(o) = "reserved" /\ Move(o, "reserved", "outbound")
      BY <1>2, <1>5, <2>2 DEF Track, PicksUp, Packed, Agrees, Story
    <3> QED
      BY <2>1, <3>1, AwayStaysAway DEF Position, UnitsMove
  <2>3. CASE ~PicksUp(o, Told(s, i))
    BY <1>5, <2>1, <2>3, GoodsStay DEF Track, UnitsMove
  <2> QED
    BY <2>2, <2>3
<1> QED
  BY <1>1, <1>3, <1>4, <1>5 DEF Tell

LEMMA NextUnits == ASSUME IInv, [Next]_vars PROVE UnitsMove
<1>1. CASE stock' = stock /\ ledger' = ledger
  BY <1>1, GoodsStay DEF UnitsMove
<1> QED
  BY <1>1, CommandUnits, TellUnits DEF Next, Show, Pull, Fetch, Look, Replay, Abort, EndSync,
    Choose, ReadPosition, goods, vars

(* The stock figure and what the movements hold elsewhere always add up to *)
(* the units there were, for any number of orders and any quantities.      *)
THEOREM StockConservedHolds == Spec => []StockConserved
<1>1. Init => StockConserved
  <2> SUFFICES ASSUME Init PROVE stock + SumFunctionOnSet(Qty, Sold) = Stock
    BY DEF StockConserved
  <2>1. Sold = {} /\ stock = Stock
    BY DEF Init, Sold, Where
  <2>2. SumFunctionOnSet(Qty, {}) = 0
    BY FS_EmptySet, SumUnfolds
  <2> QED
    BY <2>1, <2>2, StockAssumption
<1>2. IInv /\ StockConserved /\ [Next]_vars => StockConserved'
  <2> SUFFICES ASSUME IInv, stock + SumFunctionOnSet(Qty, Sold) = Stock, [Next]_vars
               PROVE  stock' + SumFunctionOnSet(Qty, Sold') = Stock
    BY DEF StockConserved
  <2>1. Qty \in [Order -> Int] /\ stock \in Int
    BY QtyAssumption DEF IInv, Shape, RecordsType
  <2>2. IsFiniteSet(Sold) /\ Sold \subseteq Order
    BY OrderAssumption, FS_Subset DEF Sold
  <2>3. SumFunctionOnSet(Qty, Sold) \in Int
    BY <2>1, <2>2, SumType
  <2>4. CASE stock' = stock /\ Sold' = Sold
    BY <2>4
  <2>5. ASSUME NEW o \in Order, o \notin Sold, Sold' = Sold \cup {o}, stock' = stock - Qty[o]
        PROVE  stock' + SumFunctionOnSet(Qty, Sold') = Stock
    <3>1. SumFunctionOnSet(Qty, Sold') = SumFunctionOnSet(Qty, Sold) + Qty[o] /\ Qty[o] \in Int
      BY <2>1, <2>2, <2>5, SumAdds
    <3> QED
      BY <2>1, <2>3, <2>5, <3>1
  <2>6. ASSUME NEW o \in Order, o \in Sold, Sold' = Sold \ {o}, stock' = stock + Qty[o]
        PROVE  stock' + SumFunctionOnSet(Qty, Sold') = Stock
    <3>1. /\ SumFunctionOnSet(Qty, Sold \ {o}) \in Int /\ Qty[o] \in Int
          /\ SumFunctionOnSet(Qty, Sold) = SumFunctionOnSet(Qty, Sold \ {o}) + Qty[o]
      BY <2>1, <2>2, <2>6, SumWithout
    <3> QED
      BY <2>1, <2>6, <3>1
  <2> QED
    BY <2>4, <2>5, <2>6, NextUnits DEF UnitsMove
<1> QED
  BY <1>1, <1>2, Invariant, PTL DEF Spec
=============================================================================
