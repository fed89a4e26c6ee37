--------------------------- MODULE CourierPromise ---------------------------
(***************************************************************************)
(* What a seller is promised of courier bookings, without outbox, leases   *)
(* or retries: an order is asked of the courier once at a time, at most    *)
(* one parcel that nobody denied exists for it, a refusal is believed only *)
(* without a parcel, and an unknown outcome stays open until the seller    *)
(* has looked.                                                             *)
(***************************************************************************)
CONSTANT Order

VARIABLES
    standing,  \* [Order -> Standings]
    parcel     \* [Order -> BOOLEAN]: the courier holds a parcel nobody denied

Standings == {"free", "asked", "doubt", "refused", "booked", "gone"}

Init ==
    /\ standing = [o \in Order |-> "free"]
    /\ parcel = [o \in Order |-> FALSE]

Move(o, from, to) ==
    /\ standing[o] \in from
    /\ standing' = [standing EXCEPT ![o] = to]

\* The seller asks the courier, only with no parcel at large.
Ask(o) == Move(o, {"free"}, "asked") /\ ~parcel[o] /\ UNCHANGED parcel

\* The courier creates the parcel, while asked or while the outcome is open.
Create(o) ==
    /\ standing[o] \in {"asked", "doubt"}
    /\ ~parcel[o]
    /\ parcel' = [parcel EXCEPT ![o] = TRUE]
    /\ UNCHANGED standing

Accept(o) == Move(o, {"asked"}, "booked") /\ parcel[o] /\ UNCHANGED parcel
Refuse(o) == Move(o, {"asked"}, "refused") /\ ~parcel[o] /\ UNCHANGED parcel
LoseSight(o) == Move(o, {"asked"}, "doubt") /\ UNCHANGED parcel

\* A refusal, or a request that was never sent, gives the order back.
GiveBack(o) == Move(o, {"asked", "refused"}, "free") /\ ~parcel[o] /\ UNCHANGED parcel

\* The seller looked: the parcel is there, or the seller denies it.
Find(o) == Move(o, {"doubt"}, "booked") /\ UNCHANGED parcel
Deny(o) == Move(o, {"doubt"}, "free") /\ parcel' = [parcel EXCEPT ![o] = FALSE]

Leave(o) == Move(o, {"booked", "free"}, "gone") /\ UNCHANGED parcel

Next == \E o \in Order:
    \/ Ask(o) \/ Create(o) \/ Accept(o) \/ Refuse(o) \/ LoseSight(o)
    \/ GiveBack(o) \/ Find(o) \/ Deny(o) \/ Leave(o)

Spec == Init /\ [][Next]_<<standing, parcel>>
=============================================================================
