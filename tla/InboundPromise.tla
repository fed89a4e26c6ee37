--------------------------- MODULE InboundPromise ---------------------------
(***************************************************************************)
(* What a shop is promised of the WhatsApp messages it receives, without a *)
(* spool, a sidecar, ingress rows or leases: a message the sidecar has     *)
(* heard is kept until it is in the inbox, it is there once, and a message *)
(* that went with its deleted chat never comes back.                       *)
(***************************************************************************)
CONSTANT Message

VARIABLE fate  \* [Message -> Fates]

Fates == {"unheard", "kept", "shown", "deleted"}

Init == fate = [m \in Message |-> "unheard"]

Move(m, from, to) == fate[m] \in from /\ fate' = [fate EXCEPT ![m] = to]

Hear(m) == Move(m, {"unheard"}, "kept")
Show(m) == Move(m, {"kept"}, "shown")

\* A chat goes with the messages it shows and those on their way into it.
DeleteChat ==
    \E gone \in SUBSET {m \in Message: fate[m] \in {"kept", "shown"}}:
        fate' = [m \in Message |-> IF m \in gone THEN "deleted" ELSE fate[m]]

Next == DeleteChat \/ \E m \in Message: Hear(m) \/ Show(m)

Spec == Init /\ [][Next]_fate
=============================================================================
