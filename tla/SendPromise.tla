----------------------------- MODULE SendPromise -----------------------------
(***************************************************************************)
(* What a shop is promised of its outgoing WhatsApp messages, without an   *)
(* outbox, leases, a sidecar or its journals: a message goes on the wire   *)
(* at most once, never before it was asked for, never while the send guard *)
(* holds it or after a person threw it away; it is called delivered only   *)
(* when it went; and only a person reopens one that was closed, whether in *)
(* doubt, refused or thrown away.                                          *)
(***************************************************************************)
CONSTANT Effect

VARIABLES
    standing,  \* [Effect -> Standings]
    wire       \* [Effect -> BOOLEAN]: the message is on the wire

Standings == {"absent", "held", "due", "delivered", "doubt", "refused", "thrown"}

Init ==
    /\ standing = [k \in Effect |-> "absent"]
    /\ wire = [k \in Effect |-> FALSE]

Move(k, from, to) ==
    /\ standing[k] \in from
    /\ standing' = [standing EXCEPT ![k] = to]
    /\ UNCHANGED wire

Ask(k) == Move(k, {"absent"}, "due") \/ Move(k, {"absent"}, "held")
Release(k) == Move(k, {"held"}, "due")
Throw(k) == Move(k, {"held"}, "thrown")

\* Late or not, once: a send the shop has given up on may still go out.
Transmit(k) ==
    /\ standing[k] \in {"due", "doubt", "refused"}
    /\ ~wire[k]
    /\ wire' = [wire EXCEPT ![k] = TRUE]
    /\ UNCHANGED standing

Deliver(k) == wire[k] /\ Move(k, {"due"}, "delivered")
LoseSight(k) == Move(k, {"due"}, "doubt")
Refuse(k) == Move(k, {"due"}, "refused")
Reopen(k) == Move(k, {"doubt", "refused", "thrown"}, "due")

Next == \E k \in Effect:
    \/ Ask(k) \/ Release(k) \/ Throw(k) \/ Transmit(k)
    \/ Deliver(k) \/ LoseSight(k) \/ Refuse(k) \/ Reopen(k)

Spec == Init /\ [][Next]_<<standing, wire>>
=============================================================================
