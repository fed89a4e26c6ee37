-------------------------- MODULE MCAutomationRun --------------------------
(***************************************************************************)
(* Instances of AutomationRun: the seller's definitions.                   *)
(***************************************************************************)
EXTENDS AutomationRun

S(action, policy) == [action |-> action, policy |-> policy]

\* A check, a status change under it and a message that may fail alone; and,
\* saved by an edit, a note after a wait.
GuardedIds == {"checked", "waiting"}

Guarded ==
    [d \in GuardedIds |->
       IF d = "checked"
       THEN <<S("recheck", "stop"), S("status", "stop"), S("send", "continue")>>
       ELSE <<S("wait", "stop"), S("note", "stop")>>]

\* A step that may fail alone before one that stops the run, before a third.
MixedIds == {"mixed"}

Mixed == [d \in MixedIds |-> <<S("note", "continue"), S("status", "stop"), S("send", "stop")>>]
=============================================================================
