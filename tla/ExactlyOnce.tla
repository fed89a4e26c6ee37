----------------------------- MODULE ExactlyOnce -----------------------------
(***************************************************************************)
(* What the command kernel promises its callers, without queue, transaction*)
(* or crash: under one idempotency key one content takes effect, once, for *)
(* ever, and a positive answer is only given about that content.           *)
(***************************************************************************)
EXTENDS Naturals

CONSTANTS Caller, Key, Content, Nothing

VARIABLES
    effect,   \* [Key -> Content or Nothing]: the content that took effect
    told      \* [Caller -> Content or Nothing]: the content a caller was told succeeded

vars == <<effect, told>>

Init ==
    /\ effect = [k \in Key |-> Nothing]
    /\ told = [c \in Caller |-> Nothing]

\* A content takes effect under a key that had none; its caller learns of it
\* in the same step, or never.
TakeEffect(c, k, x) ==
    /\ effect[k] = Nothing
    /\ effect' = [effect EXCEPT ![k] = x]
    /\ told' = [told EXCEPT ![c] = x]

\* A caller is told of an effect that exists.
Tell(c, k) ==
    /\ effect[k] # Nothing
    /\ told' = [told EXCEPT ![c] = effect[k]]
    /\ UNCHANGED effect

\* Some callers lose, or give up, the answer they had.
Forget(S) ==
    /\ told' = [c \in Caller |-> IF c \in S THEN Nothing ELSE told[c]]
    /\ UNCHANGED effect

Next ==
    \/ \E c \in Caller, k \in Key, x \in Content: TakeEffect(c, k, x)
    \/ \E c \in Caller, k \in Key: Tell(c, k)
    \/ \E S \in SUBSET Caller: Forget(S)

Spec == Init /\ [][Next]_vars
=============================================================================
