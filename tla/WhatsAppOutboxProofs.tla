------------------------ MODULE WhatsAppOutboxProofs ------------------------
(***************************************************************************)
(* For any messages, executors, attempts, presses and faults: a message is *)
(* written to WhatsApp at most once, what the outbox calls succeeded is    *)
(* shown as sent, a held send is untouched until a person decides, and     *)
(* together they keep the promise SendPromise makes of each message.       *)
(*                                                                         *)
(* AtMostOnce comes first and is kept by the sidecar's disk alone:         *)
(* whatever the outbox asks, a frame leaves a marker or a receipt behind,  *)
(* and neither lets a dispatch begin.                                      *)
(***************************************************************************)
EXTENDS WhatsAppOutbox, TLAPS

\* The part of TypeOK the argument needs: the sidecar's variables.
SidecarTypes ==
    /\ dispatch \in [Effect -> {"none", "preparing", "marked", "written", "receipted"}]
    /\ journal \in [Effect -> {"none", "kept"}]
    /\ receipts \subseteq Effect
    /\ frames \in [Effect -> Nat]

\* What a dispatch in flight has on disk, step by step, and what a frame that
\* was written leaves there whatever becomes of its dispatch.
Trail(k) ==
    /\ dispatch[k] = "preparing" => journal[k] = "none" /\ k \notin receipts
    /\ dispatch[k] \in {"preparing", "marked"} => frames[k] = 0
    /\ dispatch[k] \in {"marked", "written"} => journal[k] # "none"
    /\ dispatch[k] = "receipted" => k \in receipts
    /\ frames[k] > 0 => journal[k] # "none" \/ k \in receipts

IInv == SidecarTypes /\ \A k \in Effect: Trail(k) /\ frames[k] <= 1

LEMMA InitIInv == Init => IInv
  BY DEF Init, IInv, SidecarTypes, Trail

\* A step that leaves the sidecar alone keeps its invariant.
LEMMA SidecarIdle ==
    ASSUME IInv, UNCHANGED sidecarVars
    PROVE  IInv'
  BY DEF IInv, SidecarTypes, Trail, sidecarVars

\* Every step of an executor, GiveUp included, is the app's alone.
LEMMA ExecutorKept ==
    ASSUME IInv, NEW x \in Executor, Execute(x) \/ GiveUp(x)
    PROVE  IInv'
<1>1. UNCHANGED sidecarVars
  BY DEF Execute, GiveUp, Begin, HandBackUnstarted, PayloadLost, LookUp, LookUpFails,
         LookedUp, Settle, Claim, NothingDue, PreEffectFailure, Start, Finish, sidecarVars
<1> QED
  BY SMTT(40), <1>1, SidecarIdle

\* People and callbacks do not reach the sidecar.
LEMMA PeopleKept ==
    ASSUME IInv, NEW k \in Effect,
           \/ Queue(k) \/ Acknowledge(k) \/ Expire(k) \/ Approve(k) \/ Discard(k)
           \/ \E press \in {"approve", "discard", "retry"}: Press(press, k)
           \/ \E ambiguous \in BOOLEAN: Retry(k, ambiguous)
    PROVE  IInv'
<1>1. UNCHANGED sidecarVars
  BY DEF Queue, Acknowledge, Expire, Approve, Discard, Press, Retry, sidecarVars
<1> QED
  BY <1>1, SidecarIdle

\* A request begins a dispatch only of a message with no receipt and no marker:
\* by Trail, one that has no frame yet.
LEMMA ServeKept ==
    ASSUME IInv, NEW k, NEW from, Serve(k, from)
    PROVE  IInv'
<1>1. /\ UNCHANGED <<journal, receipts, frames>>
      /\ \/ UNCHANGED dispatch
         \/ /\ k \notin receipts /\ journal[k] = "none"
            /\ dispatch' = [dispatch EXCEPT ![k] = "preparing"]
  BY DEF Serve, Replayed, MayDispatch
<1>2. CASE UNCHANGED dispatch
  BY <1>1, <1>2, SidecarIdle DEF sidecarVars
<1>3. CASE /\ k \notin receipts /\ journal[k] = "none"
           /\ dispatch' = [dispatch EXCEPT ![k] = "preparing"]
  <2>1. k \in Effect => frames[k] = 0
    BY <1>3 DEF IInv, SidecarTypes, Trail
  <2> QED
    BY <1>1, <1>3, <2>1 DEF IInv, SidecarTypes, Trail
<1> QED
  BY <1>1, <1>2, <1>3

\* The dispatch in flight: the one frame is written after its marker, and the
\* marker goes only when nothing was written or a receipt is there.
LEMMA DispatchingKept ==
    ASSUME IInv, NEW k \in Effect, Dispatching(k)
    PROVE  IInv'
<1>1. CASE Mark(k)
  BY <1>1 DEF Mark, IInv, SidecarTypes, Trail
<1>2. CASE WriteFrame(k)
  BY <1>2 DEF WriteFrame, IInv, SidecarTypes, Trail
<1>3. CASE DispatchFails(k)
  BY <1>3 DEF DispatchFails, IInv, SidecarTypes, Trail
<1>4. CASE RecordReceipt(k)
  BY <1>4 DEF RecordReceipt, IInv, SidecarTypes, Trail
<1>5. CASE ClearMarker(k)
  BY <1>5 DEF ClearMarker, IInv, SidecarTypes, Trail
<1> QED
  BY <1>1, <1>2, <1>3, <1>4, <1>5 DEF Dispatching

\* A crash of the sidecar loses the dispatches, not what they have on disk.
LEMMA CrashKept ==
    ASSUME IInv, CrashApp \/ CrashSidecar
    PROVE  IInv'
<1>1. CASE CrashApp
  BY <1>1, SidecarIdle DEF CrashApp
<1>2. CASE CrashSidecar
  BY <1>2 DEF CrashSidecar, IInv, SidecarTypes, Trail
<1> QED
  BY <1>1, <1>2

LEMMA NextKept == IInv /\ [Next]_vars => IInv'
<1> SUFFICES ASSUME IInv, [Next]_vars
             PROVE  IInv'
  OBVIOUS
<1>1. CASE UNCHANGED vars
  BY <1>1, SidecarIdle DEF vars
<1>2. ASSUME NEW k \in Effect, ServeLate(k)
      PROVE  IInv'
  BY <1>2, ServeKept DEF ServeLate
<1>3. ASSUME NEW k \in Effect, Dispatching(k)
      PROVE  IInv'
  BY <1>3, DispatchingKept
<1>4. ASSUME NEW k \in Effect,
             \/ Queue(k) \/ Acknowledge(k) \/ Expire(k) \/ Approve(k) \/ Discard(k)
             \/ \E press \in {"approve", "discard", "retry"}: Press(press, k)
             \/ \E ambiguous \in BOOLEAN: Retry(k, ambiguous)
      PROVE  IInv'
  BY <1>4, PeopleKept
<1>5. ASSUME NEW x \in Executor, Execute(x) \/ GiveUp(x)
      PROVE  IInv'
  BY <1>5, ExecutorKept
<1>6. ASSUME NEW x \in Executor, ServePosted(x)
      PROVE  IInv'
  BY <1>6, ServeKept DEF ServePosted
<1>7. CASE CrashApp \/ CrashSidecar
  BY <1>7, CrashKept
<1> QED
  BY <1>1, <1>2, <1>3, <1>4, <1>5, <1>6, <1>7 DEF Next

\* However often the outbox repeats a request, whatever crashes between marker,
\* frame and receipt, a message is written to WhatsApp at most once.
THEOREM AtMostOnceHolds == Spec => []AtMostOnce
<1>1. IInv => AtMostOnce
  BY DEF IInv, AtMostOnce
<1> QED
  BY InitIInv, NextKept, <1>1, PTL DEF Spec

-----------------------------------------------------------------------------
(***************************************************************************)
(* SuccessIsShown relates the inbox to the sidecar: an answer "receipt" is *)
(* only ever given of a receipt on disk, a receipt of a frame written.     *)
(***************************************************************************)

\* Rows and executors are records; what their leases are does not matter.
Inbox ==
    /\ row = [k \in Effect |-> row[k]]
    /\ shown \in [Effect -> {"none", "sending", "sent", "delivered", "failed"}]
    /\ \A k \in Effect: "status" \in DOMAIN row[k]
    /\ SuccessIsShown

Fielded(r) == {"pc", "key", "lease", "answer", "batch"} \subseteq DOMAIN r

\* The answer an executor holds, and the batch it looks receipts up for.
Truthful(r, known) ==
    /\ r.answer = "receipt" => r.key \in known
    /\ \A e \in r.batch: e.key \in Effect

Executors ==
    /\ executor = [x \in Executor |-> executor[x]]
    /\ \A x \in Executor: Fielded(executor[x]) /\ Truthful(executor[x], receipts)

\* A receipt speaks of a frame.
Witnessed ==
    \A k \in Effect:
        /\ dispatch[k] \in {"written", "receipted"} => frames[k] > 0
        /\ k \in receipts => frames[k] > 0

ShownInv == IInv /\ Inbox /\ Executors /\ Witnessed

LEMMA IdleShape == Fielded(Idle) /\ Truthful(Idle, receipts)
<1> DEFINE someone == CHOOSE k \in Effect: TRUE
<1>1. Idle = [pc |-> "idle", key |-> someone, lease |-> 0, answer |-> "none", batch |-> {}]
  BY DEF Idle
<1> HIDE DEF someone
<1> QED
  BY <1>1 DEF Fielded, Truthful

LEMMA InitShownInv == Init => ShownInv
<1> SUFFICES ASSUME Init PROVE ShownInv
  OBVIOUS
<1>1. Inbox
  BY DEF Init, Inbox, SuccessIsShown, Absent
<1>2. Executors
  BY IdleShape DEF Init, Executors
<1>3. Witnessed
  BY DEF Init, Witnessed
<1> QED
  BY <1>1, <1>2, <1>3, InitIInv DEF ShownInv

LEMMA LetGoStatus ==
    ASSUME ShownInv, NEW k \in Effect, NEW status
    PROVE  "status" \in DOMAIN LetGo(k, status) /\ LetGo(k, status).status = status
  BY DEF ShownInv, Inbox, LetGo

\* A row is written, and what is shown of its message with it, or not.
LEMMA WriteRow ==
    ASSUME ShownInv, NEW k, NEW r, row' = [row EXCEPT ![k] = r],
           k \in Effect => "status" \in DOMAIN r /\ r.status # "succeeded",
           shown' = shown \/ Show(k, "sending") \/ Show(k, "failed"), frames' = frames
    PROVE  Inbox'
  BY DEF ShownInv, Inbox, SuccessIsShown, Show, Protected

LEMMA WriteSuccess ==
    ASSUME ShownInv, NEW k \in receipts, Succeeded(k), frames' = frames
    PROVE  Inbox'
<1>1. k \in Effect /\ frames[k] > 0
  BY DEF ShownInv, Witnessed, IInv, SidecarTypes
<1>2. /\ "status" \in DOMAIN LetGo(k, "succeeded")
      /\ row' = [row EXCEPT ![k] = LetGo(k, "succeeded")]
      /\ Show(k, "sent")
  BY <1>1, LetGoStatus DEF Succeeded
<1> QED
  BY <1>1, <1>2 DEF ShownInv, Inbox, SuccessIsShown, Show, Protected

LEMMA WriteExecutor ==
    ASSUME ShownInv, NEW x, NEW r, executor' = [executor EXCEPT ![x] = r],
           Fielded(r), Truthful(r, receipts), receipts' = receipts
    PROVE  Executors'
  BY DEF ShownInv, Executors, Truthful

LEMMA InboxIdle ==
    ASSUME ShownInv, UNCHANGED <<row, shown, frames>>
    PROVE  Inbox'
  BY DEF ShownInv, Inbox, SuccessIsShown

LEMMA AppStep ==
    ASSUME ShownInv, UNCHANGED sidecarVars, Inbox', Executors'
    PROVE  ShownInv'
<1>1. IInv'
  BY SidecarIdle DEF ShownInv
<1>2. Witnessed'
  BY DEF ShownInv, Witnessed, sidecarVars
<1> QED
  BY <1>1, <1>2 DEF ShownInv

LEMMA BeginShown ==
    ASSUME ShownInv, NEW x \in Executor, Begin(x)
    PROVE  ShownInv'
<1>1. Executors'
  <2> DEFINE r == [executor[x] EXCEPT !.pc = "recover", !.batch = ExpiredRows]
  <2>1. Fielded(r) /\ r.answer = executor[x].answer /\ r.key = executor[x].key /\ r.batch = ExpiredRows
    BY DEF ShownInv, Executors, Fielded
  <2>2. \A e \in ExpiredRows: e.key \in Effect
    BY DEF ExpiredRows
  <2>3. Truthful(r, receipts)
    BY <2>1, <2>2 DEF ShownInv, Executors, Truthful
  <2>4. executor' = [executor EXCEPT ![x] = r] /\ receipts' = receipts
    BY DEF Begin, Become, sidecarVars
  <2> HIDE DEF r
  <2> QED
    BY <2>1, <2>3, <2>4, WriteExecutor
<1>2. Inbox'
  BY InboxIdle DEF Begin, appVars, sidecarVars
<1> QED
  BY <1>1, <1>2, AppStep DEF Begin

\* Recovery without an answer takes an entry off the batch.
LEMMA BatchShrinks ==
    ASSUME ShownInv, NEW x \in Executor, NEW e,
           executor' = [executor EXCEPT ![x] = [executor[x] EXCEPT !.batch = @ \ {e}]],
           receipts' = receipts
    PROVE  Executors'
<1> DEFINE r == [executor[x] EXCEPT !.batch = @ \ {e}]
<1>1. Fielded(r) /\ r.answer = executor[x].answer /\ r.key = executor[x].key
  BY DEF ShownInv, Executors, Fielded
<1>2. r.batch = executor[x].batch \ {e}
  BY DEF ShownInv, Executors, Fielded
<1>3. Truthful(r, receipts)
  BY <1>1, <1>2 DEF ShownInv, Executors, Truthful
<1>4. executor' = [executor EXCEPT ![x] = r]
  OBVIOUS
<1> HIDE DEF r
<1> QED
  BY <1>1, <1>3, <1>4, WriteExecutor

LEMMA HandBackShown ==
    ASSUME ShownInv, NEW x \in Executor, HandBackUnstarted(x)
    PROVE  ShownInv'
<1> PICK e \in executor[x].batch:
      /\ row' = IF LeaseHeld(e.key, e.lease) /\ ~row[e.key].started
                THEN [row EXCEPT ![e.key] = [LetGo(e.key, "retrying") EXCEPT !.attempts = @ - 1]]
                ELSE row
      /\ Become(x, [executor[x] EXCEPT !.batch = @ \ {e}])
  BY DEF HandBackUnstarted
<1>1. Executors'
  BY BatchShrinks DEF Become, HandBackUnstarted, sidecarVars
<1>2. Inbox'
  <2> DEFINE r == [LetGo(e.key, "retrying") EXCEPT !.attempts = @ - 1]
  <2>1. e.key \in Effect => "status" \in DOMAIN r /\ r.status = "retrying"
    BY LetGoStatus
  <2>2. row' = [row EXCEPT ![e.key] = r] \/ row' = row
    OBVIOUS
  <2> HIDE DEF r
  <2> QED
    BY <2>1, <2>2, WriteRow, InboxIdle DEF HandBackUnstarted, sidecarVars
<1> QED
  BY <1>1, <1>2, AppStep DEF HandBackUnstarted

LEMMA PayloadLostShown ==
    ASSUME ShownInv, NEW x \in Executor, PayloadLost(x)
    PROVE  ShownInv'
<1> PICK e \in executor[x].batch:
      /\ IF LeaseHeld(e.key, e.lease)
         THEN /\ row' = [row EXCEPT ![e.key] = [LetGo(e.key, "failed") EXCEPT !.ambiguous = TRUE]]
              /\ Show(e.key, "failed")
         ELSE UNCHANGED <<row, shown>>
      /\ Become(x, [executor[x] EXCEPT !.batch = @ \ {e}])
  BY DEF PayloadLost
<1>1. Executors'
  BY BatchShrinks DEF Become, PayloadLost, sidecarVars
<1>2. Inbox'
  <2> DEFINE r == [LetGo(e.key, "failed") EXCEPT !.ambiguous = TRUE]
  <2>1. e.key \in Effect => "status" \in DOMAIN r /\ r.status = "failed"
    BY LetGoStatus
  <2>2. (row' = [row EXCEPT ![e.key] = r] /\ Show(e.key, "failed")) \/ UNCHANGED <<row, shown>>
    OBVIOUS
  <2> HIDE DEF r
  <2> QED
    BY <2>1, <2>2, WriteRow, InboxIdle DEF PayloadLost, sidecarVars
<1> QED
  BY <1>1, <1>2, AppStep DEF PayloadLost

\* What the sidecar says it has, it has: an absent or lost answer claims nothing.
LEMMA LookUpShown ==
    ASSUME ShownInv, NEW x \in Executor, LookUp(x) \/ LookUpFails(x)
    PROVE  ShownInv'
<1> PICK found: /\ LookedUp(x, found)
                /\ \A k \in Effect: found[k] = "receipt" => k \in receipts
  BY DEF LookUp, LookUpFails
<1> PICK e \in executor[x].batch:
      Become(x, [executor[x] EXCEPT !.pc = "settle", !.key = e.key, !.lease = e.lease,
                                    !.answer = found[e.key], !.batch = @ \ {e}])
  BY DEF LookedUp
<1>1. Executors'
  <2> DEFINE r == [executor[x] EXCEPT !.pc = "settle", !.key = e.key, !.lease = e.lease,
                                      !.answer = found[e.key], !.batch = @ \ {e}]
  <2>1. Fielded(r) /\ r.answer = found[e.key] /\ r.key = e.key
    BY DEF ShownInv, Executors, Fielded
  <2>2. r.batch = executor[x].batch \ {e}
    BY DEF ShownInv, Executors, Fielded
  <2>3. Truthful(r, receipts)
    BY <2>1, <2>2 DEF ShownInv, Executors, Truthful
  <2>4. executor' = [executor EXCEPT ![x] = r] /\ receipts' = receipts
    BY DEF LookedUp, Become, sidecarVars
  <2> HIDE DEF r
  <2> QED
    BY <2>1, <2>3, <2>4, WriteExecutor
<1>2. Inbox'
  BY InboxIdle DEF LookedUp, appVars, sidecarVars
<1> QED
  BY <1>1, <1>2, AppStep DEF LookedUp

\* A holder that lets go of its executor leaves nothing to answer for.
LEMMA Released ==
    ASSUME ShownInv, NEW x, Become(x, Idle), receipts' = receipts
    PROVE  Executors'
  BY IdleShape, WriteExecutor DEF Become

\* A row in doubt, given back or renewed is not a success.
LEMMA UnsettledShown ==
    ASSUME ShownInv, NEW k, Doubted(k) \/ Returned(k), frames' = frames
    PROVE  Inbox'
<1>1. CASE Doubted(k)
  <2> DEFINE r == [LetGo(k, "failed") EXCEPT !.ambiguous = TRUE]
  <2>1. k \in Effect => "status" \in DOMAIN r /\ r.status = "failed"
    BY LetGoStatus
  <2>2. row' = [row EXCEPT ![k] = r] /\ Show(k, "failed")
    BY <1>1 DEF Doubted
  <2> HIDE DEF r
  <2> QED
    BY <2>1, <2>2, WriteRow
<1>2. CASE Returned(k)
  <2> DEFINE r == [LetGo(k, "retrying") EXCEPT !.started = FALSE]
  <2>1. k \in Effect => "status" \in DOMAIN r /\ r.status = "retrying"
    BY LetGoStatus
  <2>2. row' = [row EXCEPT ![k] = r] /\ shown' = shown
    BY <1>2 DEF Returned
  <2> HIDE DEF r
  <2> QED
    BY <2>1, <2>2, WriteRow
<1> QED
  BY <1>1, <1>2

\* A row still processing whose other columns change.
LEMMA HolderWrites ==
    ASSUME ShownInv, NEW k, NEW r, row[k].status = "processing",
           k \in Effect => "status" \in DOMAIN r /\ r.status = row[k].status,
           row' = [row EXCEPT ![k] = r], shown' = shown, frames' = frames
    PROVE  Inbox'
  BY WriteRow

LEMMA SettleShown ==
    ASSUME ShownInv, NEW x \in Executor, Settle(x)
    PROVE  ShownInv'
<1> DEFINE k == executor[x].key
<1>1. Executors'
  <2> DEFINE r == [Idle EXCEPT !.pc = "recover", !.batch = executor[x].batch]
  <2>1. Fielded(r) /\ r.answer = Idle.answer /\ r.key = Idle.key /\ r.batch = executor[x].batch
    BY IdleShape DEF Fielded
  <2>2. Truthful(r, receipts)
    BY <2>1, IdleShape DEF ShownInv, Executors, Truthful
  <2>3. executor' = [executor EXCEPT ![x] = r] /\ receipts' = receipts
    BY DEF Settle, Become, sidecarVars
  <2> HIDE DEF r
  <2> QED
    BY <2>1, <2>2, <2>3, WriteExecutor
<1>2. Inbox'
  <2>0. frames' = frames
    BY DEF Settle, sidecarVars
  <2>1. CASE ~LeaseHeld(k, executor[x].lease)
    BY <2>0, <2>1, InboxIdle DEF Settle
  <2>2. CASE executor[x].answer = "receipt" /\ Succeeded(k)
    <3>1. k \in receipts
      BY <2>2 DEF ShownInv, Executors, Truthful
    <3> QED
      BY <2>0, <2>2, <3>1, WriteSuccess
  <2>3. CASE Doubted(k) \/ Returned(k)
    BY <2>0, <2>3, UnsettledShown
  <2>4. CASE LeaseHeld(k, executor[x].lease) /\ Deferred(k)
    <3> DEFINE r == [row[k] EXCEPT !.expired = FALSE]
    <3>1. k \in Effect => "status" \in DOMAIN r /\ r.status = row[k].status
      BY DEF ShownInv, Inbox
    <3>2. row' = [row EXCEPT ![k] = r] /\ shown' = shown /\ row[k].status = "processing"
      BY <2>4 DEF Deferred, LeaseHeld
    <3> HIDE DEF r, k
    <3> QED
      BY <2>0, <3>1, <3>2, HolderWrites
  <2> QED
    BY <2>1, <2>2, <2>3, <2>4 DEF Settle
<1> QED
  BY <1>1, <1>2, AppStep DEF Settle

LEMMA ClaimShown ==
    ASSUME ShownInv, NEW x \in Executor, Claim(x)
    PROVE  ShownInv'
<1> PICK k \in Effect:
      /\ row' = [row EXCEPT ![k] = [Absent EXCEPT !.status = "processing",
                                                  !.attempts = row[k].attempts + 1,
                                                  !.lease = FreshLease]]
      /\ Become(x, [Idle EXCEPT !.pc = "claimed", !.key = k, !.lease = FreshLease])
  BY DEF Claim
<1>1. Executors'
  <2> DEFINE r == [Idle EXCEPT !.pc = "claimed", !.key = k, !.lease = FreshLease]
  <2>1. Fielded(r) /\ r.answer = "none" /\ r.batch = {}
    BY DEF Fielded, Idle
  <2>2. Truthful(r, receipts)
    BY <2>1 DEF Truthful
  <2>3. executor' = [executor EXCEPT ![x] = r] /\ receipts' = receipts
    BY DEF Claim, Become, sidecarVars
  <2> HIDE DEF r
  <2> QED
    BY <2>1, <2>2, <2>3, WriteExecutor
<1>2. Inbox'
  <2> DEFINE r == [Absent EXCEPT !.status = "processing", !.attempts = row[k].attempts + 1,
                                 !.lease = FreshLease]
  <2>1. "status" \in DOMAIN r /\ r.status = "processing"
    BY DEF Absent
  <2>2. row' = [row EXCEPT ![k] = r] /\ shown' = shown /\ frames' = frames
    BY DEF Claim, sidecarVars
  <2> HIDE DEF r
  <2> QED
    BY <2>1, <2>2, WriteRow
<1> QED
  BY <1>1, <1>2, AppStep DEF Claim

LEMMA NothingDueShown ==
    ASSUME ShownInv, NEW x \in Executor, NothingDue(x)
    PROVE  ShownInv'
  BY Released, InboxIdle, AppStep DEF NothingDue, appVars, sidecarVars

LEMMA PreEffectFailureShown ==
    ASSUME ShownInv, NEW x \in Executor, PreEffectFailure(x)
    PROVE  ShownInv'
<1> DEFINE k == executor[x].key
           r == [LetGo(k, "dead_letter") EXCEPT !.started = FALSE]
<1>1. Executors'
  BY Released DEF PreEffectFailure, sidecarVars
<1>2. k \in Effect => "status" \in DOMAIN r /\ r.status = "dead_letter"
  BY LetGoStatus
<1>3. (row' = [row EXCEPT ![k] = r] /\ Show(k, "failed")) \/ UNCHANGED <<row, shown>>
  BY DEF PreEffectFailure
<1>4. UNCHANGED sidecarVars /\ frames' = frames
  BY DEF PreEffectFailure, sidecarVars
<1> HIDE DEF r, k
<1>5. Inbox'
  BY <1>2, <1>3, <1>4, WriteRow, InboxIdle
<1> QED
  BY <1>1, <1>4, <1>5, AppStep

\* Steps that only move an executor on keep the answer it holds.
LEMMA ExecutorMoves ==
    ASSUME ShownInv, NEW x \in Executor, NEW pc,
           executor' = [executor EXCEPT ![x] = [executor[x] EXCEPT !.pc = pc]],
           receipts' = receipts
    PROVE  Executors'
<1> DEFINE r == [executor[x] EXCEPT !.pc = pc]
<1>1. /\ Fielded(r) /\ r.answer = executor[x].answer
      /\ r.key = executor[x].key /\ r.batch = executor[x].batch
  BY DEF ShownInv, Executors, Fielded
<1>2. Truthful(r, receipts)
  BY <1>1 DEF ShownInv, Executors, Truthful
<1>3. executor' = [executor EXCEPT ![x] = r]
  OBVIOUS
<1> HIDE DEF r
<1> QED
  BY <1>1, <1>2, <1>3, WriteExecutor

LEMMA StartShown ==
    ASSUME ShownInv, NEW x \in Executor, Start(x)
    PROVE  ShownInv'
<1> DEFINE k == executor[x].key
           r == [row[k] EXCEPT !.started = TRUE, !.expired = FALSE]
<1>1. Executors'
  BY ExecutorMoves DEF Start, Become, sidecarVars
<1>2. k \in Effect => "status" \in DOMAIN r /\ r.status = row[k].status
  BY DEF ShownInv, Inbox
<1>3. row' = [row EXCEPT ![k] = r] /\ row[k].status = "processing"
  BY DEF Start, MayStart, LeaseHeld
<1>4. UNCHANGED sidecarVars /\ frames' = frames /\ shown' = shown
  BY DEF Start, sidecarVars
<1> HIDE DEF r, k
<1>5. Inbox'
  BY <1>2, <1>3, <1>4, HolderWrites
<1> QED
  BY <1>1, <1>4, <1>5, AppStep

LEMMA FinishShown ==
    ASSUME ShownInv, NEW x \in Executor, Finish(x)
    PROVE  ShownInv'
<1> DEFINE k == executor[x].key
           answer == executor[x].answer
<1>1. Executors'
  BY Released DEF Finish, sidecarVars
<1>2. UNCHANGED sidecarVars /\ frames' = frames
  BY DEF Finish, sidecarVars
<1>3. Inbox'
  <2>1. CASE UNCHANGED <<row, shown>>
    BY <1>2, <2>1, InboxIdle
  <2>2. CASE answer = "receipt" /\ Succeeded(k)
    <3>1. k \in receipts
      BY <2>2 DEF ShownInv, Executors, Truthful
    <3> QED
      BY <1>2, <2>2, <3>1, WriteSuccess
  <2>3. CASE Doubted(k)
    BY <1>2, <2>3, UnsettledShown
  <2>4. CASE Failed(k, answer) /\ ~Doubted(k)
    <3>1. CASE /\ row' = [row EXCEPT ![k] = [LetGo(k, "retrying") EXCEPT !.started = FALSE]]
               /\ UNCHANGED shown
      BY <1>2, <3>1, UnsettledShown DEF Returned
    <3>2. CASE row' = [row EXCEPT ![k] = LetGo(k, "dead_letter")] /\ Show(k, "failed")
      <4>1. k \in Effect => /\ "status" \in DOMAIN LetGo(k, "dead_letter")
                            /\ LetGo(k, "dead_letter").status # "succeeded"
        BY LetGoStatus
      <4> QED
        BY <1>2, <3>2, <4>1, WriteRow
    <3> QED
      BY <2>4, <3>1, <3>2 DEF Failed
  <2> QED
    BY <2>1, <2>2, <2>3, <2>4 DEF Finish
<1> QED
  BY <1>1, <1>2, <1>3, AppStep

\* Whoever is told "receipt" asked about a message that has one.
LEMMA Told ==
    ASSUME ShownInv, NEW from, NEW answer, Tell(from, answer), receipts' = receipts,
           answer = "receipt" => \A x \in from \intersect Executor: executor[x].key \in receipts
    PROVE  Executors'
<1>1. ASSUME NEW x \in Executor
      PROVE  /\ Fielded(Answered(executor[x], answer))
             /\ Answered(executor[x], answer).answer = answer
             /\ Answered(executor[x], answer).key = executor[x].key
             /\ Answered(executor[x], answer).batch = executor[x].batch
  BY DEF ShownInv, Executors, Fielded, Answered
<1>2. ASSUME NEW x \in Executor
      PROVE  Fielded(executor'[x]) /\ Truthful(executor'[x], receipts)
  <2>1. CASE x \in from
    BY <1>1, <2>1 DEF Tell, ShownInv, Executors, Truthful
  <2>2. CASE x \notin from
    BY <2>2 DEF Tell, ShownInv, Executors
  <2> QED
    BY <2>1, <2>2
<1> QED
  BY <1>2 DEF Executors, Tell

LEMMA GiveUpShown ==
    ASSUME ShownInv, NEW x \in Executor, GiveUp(x)
    PROVE  ShownInv'
<1> DEFINE r == Answered(executor[x], "again")
<1>1. Fielded(r) /\ r.answer = "again" /\ r.batch = executor[x].batch
  BY DEF ShownInv, Executors, Fielded, Answered
<1>2. Truthful(r, receipts)
  BY <1>1 DEF ShownInv, Executors, Truthful
<1>3. executor' = [executor EXCEPT ![x] = r] /\ receipts' = receipts
  BY DEF GiveUp, Become, sidecarVars
<1> HIDE DEF r
<1>4. Executors'
  BY <1>1, <1>2, <1>3, WriteExecutor
<1>5. Inbox'
  BY InboxIdle DEF GiveUp, appVars, sidecarVars
<1> QED
  BY <1>4, <1>5, AppStep DEF GiveUp

LEMMA ServeShown ==
    ASSUME ShownInv, NEW k, NEW from, Serve(k, from),
           \A x \in from \intersect Executor: executor[x].key = k
    PROVE  ShownInv'
<1>1. IInv'
  BY ServeKept DEF ShownInv
<1>2. Inbox'
  BY InboxIdle DEF Serve, appVars
<1>3. Executors'
  <2>1. CASE \E answer \in {"again", "never", "unsure"}: Tell(from, answer)
    BY <2>1, Told DEF Serve
  <2>2. CASE Replayed(k) /\ Tell(from, "receipt")
    BY <2>2, Told DEF Replayed, Serve
  <2>3. CASE executor' = [x \in Executor |->
                            IF x \in from THEN [executor[x] EXCEPT !.pc = "joined"]
                            ELSE executor[x]]
    <3>1. ASSUME NEW x \in Executor
          PROVE  LET r == [executor[x] EXCEPT !.pc = "joined"] IN
                 /\ Fielded(r) /\ r.answer = executor[x].answer
                 /\ r.key = executor[x].key /\ r.batch = executor[x].batch
      BY DEF ShownInv, Executors, Fielded
    <3>2. ASSUME NEW x \in Executor
          PROVE  Fielded(executor'[x]) /\ Truthful(executor'[x], receipts)
      BY <2>3, <3>1 DEF ShownInv, Executors, Truthful
    <3> QED
      BY <2>3, <3>2 DEF Executors, Serve
  <2> QED
    BY <2>1, <2>2, <2>3 DEF Serve
<1>4. Witnessed'
  <2>1. /\ receipts' = receipts /\ frames' = frames
        /\ dispatch' = dispatch \/ dispatch' = [dispatch EXCEPT ![k] = "preparing"]
    BY DEF Serve
  <2> QED
    BY <2>1 DEF ShownInv, IInv, SidecarTypes, Witnessed
<1> QED
  BY <1>1, <1>2, <1>3, <1>4 DEF ShownInv

\* Steps of the dispatch leave rows and what is shown alone; frames only grow.
LEMMA DispatchingShown ==
    ASSUME ShownInv, NEW k \in Effect, Dispatching(k)
    PROVE  ShownInv'
<1>1. IInv'
  BY DispatchingKept DEF ShownInv
<1>2. Inbox'
  <2>1. /\ UNCHANGED <<row, shown>>
        /\ frames' = frames \/ frames' = [frames EXCEPT ![k] = @ + 1]
    BY DEF Dispatching, Mark, WriteFrame, DispatchFails, RecordReceipt, ClearMarker, appVars
  <2>2. \A j \in Effect: frames[j] > 0 => frames'[j] > 0
    BY <2>1 DEF ShownInv, IInv, SidecarTypes
  <2> QED
    BY <2>1, <2>2 DEF ShownInv, Inbox, SuccessIsShown
<1>3. Executors'
  <2>1. CASE UNCHANGED executor
    <3>1. receipts \subseteq receipts'
      BY DEF Dispatching, Mark, WriteFrame, DispatchFails, RecordReceipt, ClearMarker
    <3> QED
      BY <2>1, <3>1 DEF ShownInv, Executors, Truthful
  <2>2. CASE DispatchFails(k)
    BY <2>2, Told DEF DispatchFails
  <2>3. CASE ClearMarker(k)
    <3>1. k \in receipts /\ \A x \in Joined(k): executor[x].key = k
      BY <2>3 DEF ClearMarker, Joined, ShownInv, IInv, Trail
    <3> QED
      BY <2>3, <3>1, Told DEF ClearMarker
  <2> QED
    BY <2>1, <2>2, <2>3 DEF Dispatching, Mark, WriteFrame, RecordReceipt
<1>4. Witnessed'
  <2>1. CASE Mark(k)
    BY <2>1 DEF Mark, ShownInv, IInv, SidecarTypes, Witnessed
  <2>2. CASE WriteFrame(k)
    BY <2>2 DEF WriteFrame, ShownInv, IInv, SidecarTypes, Witnessed
  <2>3. CASE DispatchFails(k)
    BY <2>3 DEF DispatchFails, ShownInv, IInv, SidecarTypes, Witnessed
  <2>4. CASE RecordReceipt(k)
    BY <2>4 DEF RecordReceipt, ShownInv, IInv, SidecarTypes, Witnessed
  <2>5. CASE ClearMarker(k)
    BY <2>5 DEF ClearMarker, ShownInv, IInv, SidecarTypes, Witnessed
  <2> QED
    BY <2>1, <2>2, <2>3, <2>4, <2>5 DEF Dispatching
<1> QED
  BY <1>1, <1>2, <1>3, <1>4 DEF ShownInv

\* People's decisions and a lease that expires: no row becomes a success.
LEMMA DeskShown ==
    ASSUME ShownInv, NEW k \in Effect,
           \/ Queue(k) \/ Expire(k) \/ Approve(k) \/ Discard(k)
           \/ \E press \in {"approve", "discard", "retry"}: Press(press, k)
           \/ \E ambiguous \in BOOLEAN: Retry(k, ambiguous)
    PROVE  ShownInv'
<1>1. UNCHANGED sidecarVars /\ UNCHANGED executor /\ frames' = frames
  BY DEF Queue, Expire, Approve, Discard, Press, Retry, sidecarVars
<1>2. Executors'
  BY <1>1 DEF ShownInv, Executors, sidecarVars
<1>3. Inbox'
  <2>1. CASE UNCHANGED <<row, shown>>
    BY <1>1, <2>1, InboxIdle
  <2>2. CASE Queue(k)
    <3> PICK held \in BOOLEAN:
          row' = [row EXCEPT ![k].status = IF held THEN "failed" ELSE "queued", ![k].hold = held]
      BY <2>2 DEF Queue
    <3>1. shown' = [shown EXCEPT ![k] = "sending"]
      BY <2>2 DEF Queue
    <3> DEFINE r == [row[k] EXCEPT !.status = IF held THEN "failed" ELSE "queued", !.hold = held]
    <3>2. "status" \in DOMAIN r /\ r.status # "succeeded" /\ row' = [row EXCEPT ![k] = r]
      BY DEF ShownInv, Inbox
    <3> HIDE DEF r
    <3> QED
      BY <1>1, <3>1, <3>2 DEF ShownInv, Inbox, SuccessIsShown
  <2>3. CASE Expire(k)
    <3> DEFINE r == [row[k] EXCEPT !.expired = TRUE]
    <3>1. "status" \in DOMAIN r /\ r.status = row[k].status
      BY DEF ShownInv, Inbox
    <3>2. row' = [row EXCEPT ![k] = r] /\ shown' = shown /\ row[k].status = "processing"
      BY <2>3 DEF Expire
    <3> HIDE DEF r
    <3> QED
      BY <1>1, <3>1, <3>2, HolderWrites
  <2>4. CASE Approve(k)
    <3> DEFINE r == [row[k] EXCEPT !.status = "queued", !.hold = FALSE]
    <3>1. "status" \in DOMAIN r /\ r.status = "queued"
      BY DEF ShownInv, Inbox
    <3>2. (row' = [row EXCEPT ![k] = r] \/ UNCHANGED row) /\ shown' = shown
      BY <2>4 DEF Approve
    <3> HIDE DEF r
    <3> QED
      BY <1>1, <3>1, <3>2, WriteRow, InboxIdle
  <2>5. CASE Discard(k)
    <3> DEFINE r == [row[k] EXCEPT !.status = "dead_letter"]
    <3>1. "status" \in DOMAIN r /\ r.status = "dead_letter"
      BY DEF ShownInv, Inbox
    <3>2. (row' = [row EXCEPT ![k] = r] \/ UNCHANGED row) /\ shown' = shown
      BY <2>5 DEF Discard
    <3> HIDE DEF r
    <3> QED
      BY <1>1, <3>1, <3>2, WriteRow, InboxIdle
  <2>6. CASE \E ambiguous \in BOOLEAN: Retry(k, ambiguous)
    <3> DEFINE r == [Absent EXCEPT !.status = "queued"]
    <3>1. "status" \in DOMAIN r /\ r.status = "queued"
      BY DEF Absent
    <3>2. (row' = [row EXCEPT ![k] = r] /\ Show(k, "sending")) \/ UNCHANGED <<row, shown>>
      BY <2>6 DEF Retry
    <3> HIDE DEF r
    <3> QED
      BY <1>1, <3>1, <3>2, WriteRow, InboxIdle
  <2>7. CASE \E press \in {"approve", "discard", "retry"}: Press(press, k)
    BY <1>1, <2>7, InboxIdle DEF Press, appVars
  <2> QED
    BY <2>2, <2>3, <2>4, <2>5, <2>6, <2>7
<1> QED
  BY <1>1, <1>2, <1>3, AppStep

\* A callback speaks of a frame, and never takes "sent" back.
LEMMA AcknowledgeShown ==
    ASSUME ShownInv, NEW k \in Effect, Acknowledge(k)
    PROVE  ShownInv'
<1>1. UNCHANGED sidecarVars /\ UNCHANGED executor /\ frames' = frames
  BY DEF Acknowledge, sidecarVars
<1>2. Executors'
  BY <1>1 DEF ShownInv, Executors, sidecarVars
<1> PICK status \in DOMAIN Prior:
      shown[k] \in Prior[status] /\ shown' = [shown EXCEPT ![k] = status]
  BY DEF Acknowledge
<1>3. /\ status \in {"sent", "delivered", "failed"}
      /\ shown[k] \in {"sending", "sent"}
      /\ shown[k] = "sent" => status = "delivered"
  BY DEF Prior
<1>4. frames[k] > 0 /\ row' = row
  BY DEF Acknowledge
<1>5. Inbox'
  BY <1>1, <1>3, <1>4 DEF ShownInv, Inbox, SuccessIsShown
<1> QED
  BY <1>1, <1>2, <1>5, AppStep

LEMMA CrashShown ==
    ASSUME ShownInv, CrashApp \/ CrashSidecar
    PROVE  ShownInv'
<1>1. IInv'
  BY CrashKept DEF ShownInv
<1>2. Inbox'
  BY InboxIdle DEF CrashApp, CrashSidecar, appVars, sidecarVars
<1>3. Executors'
  <2>1. CASE CrashApp
    BY <2>1, IdleShape DEF CrashApp, Executors, sidecarVars
  <2>2. CASE CrashSidecar
    BY <2>2, Told DEF CrashSidecar
  <2> QED
    BY <2>1, <2>2
<1>4. Witnessed'
  BY DEF CrashApp, CrashSidecar, ShownInv, Witnessed, sidecarVars
<1> QED
  BY <1>1, <1>2, <1>3, <1>4 DEF ShownInv

LEMMA ExecuteShown ==
    ASSUME ShownInv, NEW x \in Executor, Execute(x)
    PROVE  ShownInv'
  BY BeginShown, HandBackShown, PayloadLostShown, LookUpShown, SettleShown, ClaimShown,
     NothingDueShown, PreEffectFailureShown, StartShown, FinishShown DEF Execute

LEMMA NextShown == ShownInv /\ [Next]_vars => ShownInv'
<1> SUFFICES ASSUME ShownInv, [Next]_vars
             PROVE  ShownInv'
  OBVIOUS
<1>1. CASE UNCHANGED vars
  <2>1. Executors'
    BY <1>1 DEF vars, sidecarVars, ShownInv, Executors
  <2>2. Inbox'
    BY <1>1, InboxIdle DEF vars, appVars, sidecarVars
  <2> QED
    BY <1>1, <2>1, <2>2, AppStep DEF vars
<1>2. ASSUME NEW k \in Effect, ServeLate(k)
      PROVE  ShownInv'
  BY <1>2, ServeShown DEF ServeLate
<1>3. ASSUME NEW k \in Effect, Dispatching(k)
      PROVE  ShownInv'
  BY <1>3, DispatchingShown
<1>4. ASSUME NEW k \in Effect,
             \/ Queue(k) \/ Expire(k) \/ Approve(k) \/ Discard(k)
             \/ \E press \in {"approve", "discard", "retry"}: Press(press, k)
             \/ \E ambiguous \in BOOLEAN: Retry(k, ambiguous)
      PROVE  ShownInv'
  BY <1>4, DeskShown
<1>5. ASSUME NEW k \in Effect, Acknowledge(k)
      PROVE  ShownInv'
  BY <1>5, AcknowledgeShown
<1>6. ASSUME NEW x \in Executor, Execute(x)
      PROVE  ShownInv'
  BY <1>6, ExecuteShown
<1>7. ASSUME NEW x \in Executor, GiveUp(x)
      PROVE  ShownInv'
  BY <1>7, GiveUpShown
<1>8. ASSUME NEW x \in Executor, ServePosted(x)
      PROVE  ShownInv'
  BY <1>8, ServeShown DEF ServePosted
<1>9. CASE CrashApp \/ CrashSidecar
  BY <1>9, CrashShown
<1> QED
  BY <1>1, <1>2, <1>3, <1>4, <1>5, <1>6, <1>7, <1>8, <1>9 DEF Next

\* A send the outbox calls succeeded is shown as sent, and what is shown as
\* sent or delivered was written to WhatsApp.
THEOREM SuccessIsShownHolds == Spec => []SuccessIsShown
<1>1. ShownInv => SuccessIsShown
  BY DEF ShownInv, Inbox
<1> QED
  BY InitShownInv, NextShown, <1>1, PTL DEF Spec

-----------------------------------------------------------------------------
(***************************************************************************)
(* HeldSendsAreUntouched: a row that waits for a person, or was never      *)
(* queued, is at rest, and of a send at rest there is no trace anywhere.   *)
(* Executors only ever reach sends that are due or processing, and the     *)
(* hold code, once gone, does not return.                                  *)
(***************************************************************************)

Rows ==
    /\ row = [k \in Effect |-> row[k]] /\ noticed \subseteq Effect
    /\ \A k \in Effect: {"status", "ambiguous", "hold", "attempts"} \subseteq DOMAIN row[k]

Frames ==
    /\ executor = [x \in Executor |-> executor[x]]
    /\ \A x \in Executor: Fielded(executor[x])

AtRest(k) == row[k].status = "absent" \/ row[k].hold

Asking(x, k) == executor[x].pc \in {"posted", "joined"} /\ executor[x].key = k

Untraced(k) ==
    /\ dispatch[k] = "none" /\ journal[k] = "none" /\ frames[k] = 0
    /\ k \notin receipts \union late
    /\ \A x \in Executor: ~Asking(x, k)

\* One decision at most, and the hold stays exactly until it is one.
Decided(k) ==
    /\ row[k].status = "absent" => k \notin noticed /\ ~row[k].ambiguous /\ row[k].attempts = 0
    /\ k \notin noticed => ~row[k].hold /\ k \notin approved \union discarded
    /\ row[k].hold => /\ row[k].status \in {"failed", "dead_letter"}
                      /\ ~row[k].ambiguous /\ row[k].attempts = 0
                      /\ k \notin approved
                      /\ k \in discarded <=> row[k].status = "dead_letter"
    /\ k \in noticed /\ ~row[k].hold => ~(k \in approved <=> k \in discarded)

HeldInv ==
    /\ Rows /\ Frames
    /\ \A k \in Effect: Decided(k) /\ (AtRest(k) => Untraced(k))

LEMMA InitHeldInv == Init => HeldInv
<1> SUFFICES ASSUME Init PROVE HeldInv
  OBVIOUS
<1>1. Rows
  BY DEF Init, Rows, Absent
<1>2. Frames
  BY IdleShape DEF Init, Frames
<1>3. \A x \in Executor: executor[x].pc = "idle"
  BY DEF Init, Idle
<1>4. \A k \in Effect: row[k].status = "absent" /\ row[k].hold = FALSE
  BY DEF Init, Absent
<1>5. \A k \in Effect: Decided(k) /\ Untraced(k)
  BY <1>3, <1>4 DEF Init, Absent, Decided, Untraced, Asking
<1> QED
  BY <1>1, <1>2, <1>5 DEF HeldInv

\* A row that is not at rest is written, without the hold and not as absent.
LEMMA BusyRowWritten ==
    ASSUME HeldInv, NEW k, NEW r, row' = [row EXCEPT ![k] = r],
           k \in Effect => /\ ~AtRest(k)
                           /\ {"status", "ambiguous", "hold", "attempts"} \subseteq DOMAIN r
                           /\ r.status # "absent" /\ (r.hold => row[k].hold),
           UNCHANGED <<noticed, approved, discarded>>
    PROVE  Rows' /\ \A j \in Effect: Decided(j)' /\ (AtRest(j)' => AtRest(j))
<1>1. Rows'
  BY DEF HeldInv, Rows
<1>2. ASSUME NEW j \in Effect
      PROVE  Decided(j)' /\ (AtRest(j)' => AtRest(j))
  <2>1. CASE j = k
    <3>1. row'[j] = r /\ r.status # "absent" /\ (r.hold => row[j].hold) /\ ~AtRest(j)
      BY <2>1 DEF HeldInv, Rows
    <3> QED
      BY <3>1 DEF HeldInv, Decided, AtRest
  <2>2. CASE j # k
    <3>1. row'[j] = row[j]
      BY <2>2 DEF HeldInv, Rows
    <3> QED
      BY <3>1 DEF HeldInv, Decided, AtRest
  <2> QED
    BY <2>1, <2>2
<1> QED
  BY <1>1, <1>2

LEMMA RowsIdle ==
    ASSUME HeldInv, UNCHANGED <<row, noticed, approved, discarded>>
    PROVE  Rows' /\ \A j \in Effect: Decided(j)' /\ (AtRest(j)' => AtRest(j))
  BY DEF HeldInv, Rows, Decided, AtRest

\* An executor moves; if it now asks, it is about a send that is not at rest.
LEMMA ExecutorAsks ==
    ASSUME HeldInv, NEW x \in Executor, NEW r, Become(x, r), Fielded(r),
           r.pc \in {"posted", "joined"} /\ r.key \in Effect => ~AtRest(r.key),
           UNCHANGED <<sidecarVars, late>>, Rows',
           \A j \in Effect: Decided(j)' /\ (AtRest(j)' => AtRest(j))
    PROVE  HeldInv'
<1>1. Frames'
  BY DEF HeldInv, Frames, Become
<1>2. ASSUME NEW j \in Effect, AtRest(j)'
      PROVE  Untraced(j)'
  <2>1. AtRest(j) /\ Untraced(j)
    BY <1>2 DEF HeldInv
  <2>2. ASSUME NEW y \in Executor
        PROVE  ~Asking(y, j)'
    <3>1. CASE y = x
      BY <2>1, <3>1 DEF Become, Asking, HeldInv, Frames
    <3>2. CASE y # x
      BY <2>1, <3>2 DEF Become, Asking, Untraced, HeldInv, Frames
    <3> QED
      BY <3>1, <3>2
  <2> QED
    BY <2>1, <2>2 DEF Untraced, sidecarVars
<1> QED
  BY <1>1, <1>2 DEF HeldInv

LEMMA LetGoFields ==
    ASSUME HeldInv, NEW k \in Effect, NEW status
    PROVE  /\ {"status", "ambiguous", "hold", "attempts"} \subseteq DOMAIN LetGo(k, status)
           /\ LetGo(k, status).status = status /\ LetGo(k, status).hold = row[k].hold
  BY DEF HeldInv, Rows, LetGo

LEMMA HolderIsBusy ==
    ASSUME HeldInv, NEW k \in Effect, row[k].status \in {"queued", "processing", "retrying"}
    PROVE  ~AtRest(k)
  BY DEF HeldInv, Decided, AtRest

\* An executor that goes back to idle or recovery asks nothing.
LEMMA QuietShapes ==
    ASSUME HeldInv, NEW x \in Executor, NEW batch
    PROVE  /\ Fielded(Idle) /\ Idle.pc = "idle"
           /\ LET r == [executor[x] EXCEPT !.batch = batch] IN
              Fielded(r) /\ r.pc = executor[x].pc
           /\ LET r == [Idle EXCEPT !.pc = "recover", !.batch = batch] IN
              Fielded(r) /\ r.pc = "recover"
           /\ LET r == [executor[x] EXCEPT !.pc = "recover", !.batch = batch] IN
              Fielded(r) /\ r.pc = "recover"
<1>1. Fielded(Idle) /\ Idle.pc = "idle"
  BY IdleShape DEF Idle
<1> QED
  BY <1>1 DEF HeldInv, Frames, Fielded

\* Steps of an executor that leave every row alone.
LEMMA SilentHeld ==
    ASSUME HeldInv, NEW x \in Executor,
           \/ Begin(x) \/ LookUp(x) \/ LookUpFails(x) \/ NothingDue(x)
    PROVE  HeldInv'
<1>1. UNCHANGED <<sidecarVars, late>> /\ UNCHANGED <<row, noticed, approved, discarded>>
  BY DEF Begin, LookUp, LookUpFails, LookedUp, NothingDue, appVars
<1>2. Rows' /\ \A j \in Effect: Decided(j)' /\ (AtRest(j)' => AtRest(j))
  BY <1>1, RowsIdle
<1>3. CASE Begin(x)
  <2> DEFINE r == [executor[x] EXCEPT !.pc = "recover", !.batch = ExpiredRows]
  <2>1. Become(x, r) /\ Fielded(r) /\ r.pc = "recover"
    BY <1>3, QuietShapes DEF Begin
  <2> HIDE DEF r
  <2> QED
    BY SMTT(40), <1>1, <1>2, <2>1, ExecutorAsks
<1>4. CASE LookUp(x) \/ LookUpFails(x)
  <2> PICK found: LookedUp(x, found)
    BY <1>4 DEF LookUp, LookUpFails
  <2> PICK e \in executor[x].batch:
        Become(x, [executor[x] EXCEPT !.pc = "settle", !.key = e.key, !.lease = e.lease,
                                      !.answer = found[e.key], !.batch = @ \ {e}])
    BY DEF LookedUp
  <2> DEFINE r == [executor[x] EXCEPT !.pc = "settle", !.key = e.key, !.lease = e.lease,
                                      !.answer = found[e.key], !.batch = @ \ {e}]
  <2>1. Become(x, r) /\ Fielded(r) /\ r.pc = "settle"
    BY SMTT(40) DEF HeldInv, Frames, Fielded
  <2> HIDE DEF r
  <2> QED
    BY <1>1, <1>2, <2>1, ExecutorAsks
<1>5. CASE NothingDue(x)
  BY <1>1, <1>2, <1>5, QuietShapes, ExecutorAsks DEF NothingDue
<1> QED
  BY <1>3, <1>4, <1>5

LEMMA HandBackHeld ==
    ASSUME HeldInv, NEW x \in Executor, HandBackUnstarted(x) \/ PayloadLost(x)
    PROVE  HeldInv'
<1>1. UNCHANGED <<sidecarVars, late>> /\ UNCHANGED <<noticed, approved, discarded>>
  BY DEF HandBackUnstarted, PayloadLost
<1>2. PICK e \in executor[x].batch:
        /\ Become(x, [executor[x] EXCEPT !.batch = @ \ {e}])
        /\ \/ row' = row
           \/ LeaseHeld(e.key, e.lease)
              /\ \/ row' = [row EXCEPT ![e.key] = [LetGo(e.key, "retrying") EXCEPT !.attempts = @ - 1]]
                 \/ row' = [row EXCEPT ![e.key] = [LetGo(e.key, "failed") EXCEPT !.ambiguous = TRUE]]
  BY DEF HandBackUnstarted, PayloadLost
<1> DEFINE k == e.key
           r == [executor[x] EXCEPT !.batch = @ \ {e}]
<1>3. Become(x, r) /\ Fielded(r) /\ r.pc = executor[x].pc /\ executor[x].pc = "recover"
  BY <1>2, QuietShapes DEF HandBackUnstarted, PayloadLost
<1>4. Rows' /\ \A j \in Effect: Decided(j)' /\ (AtRest(j)' => AtRest(j))
  <2>1. CASE row' = row
    BY <1>1, <2>1, RowsIdle
  <2>2. CASE /\ LeaseHeld(k, e.lease)
             /\ row' = [row EXCEPT ![k] = [LetGo(k, "retrying") EXCEPT !.attempts = @ - 1]]
    <3> DEFINE new == [LetGo(k, "retrying") EXCEPT !.attempts = @ - 1]
    <3>1. k \in Effect => /\ {"status", "ambiguous", "hold", "attempts"} \subseteq DOMAIN new
                          /\ new.status = "retrying" /\ new.hold = row[k].hold
      BY LetGoFields
    <3>2. k \in Effect => ~AtRest(k)
      BY <2>2, HolderIsBusy DEF LeaseHeld
    <3>3. row' = [row EXCEPT ![k] = new]
      BY <2>2
    <3> HIDE DEF new, k
    <3> QED
      BY <1>1, <3>1, <3>2, <3>3, BusyRowWritten
  <2>3. CASE /\ LeaseHeld(k, e.lease)
             /\ row' = [row EXCEPT ![k] = [LetGo(k, "failed") EXCEPT !.ambiguous = TRUE]]
    <3> DEFINE new == [LetGo(k, "failed") EXCEPT !.ambiguous = TRUE]
    <3>1. k \in Effect => /\ {"status", "ambiguous", "hold", "attempts"} \subseteq DOMAIN new
                          /\ new.status = "failed" /\ new.hold = row[k].hold
      BY LetGoFields
    <3>2. k \in Effect => ~AtRest(k)
      BY <2>3, HolderIsBusy DEF LeaseHeld
    <3>3. row' = [row EXCEPT ![k] = new]
      BY <2>3
    <3> HIDE DEF new, k
    <3> QED
      BY <1>1, <3>1, <3>2, <3>3, BusyRowWritten
  <2> QED
    BY <1>2, <2>1, <2>2, <2>3
<1> HIDE DEF r, k
<1> QED
  BY <1>1, <1>3, <1>4, ExecutorAsks

\* Whatever a lease holder makes of its row, it is not at rest afterwards.
LEMMA HolderSettles ==
    ASSUME HeldInv, NEW k, row[k].status = "processing",
           \/ Succeeded(k) \/ Doubted(k) \/ Returned(k) \/ Deferred(k)
           \/ \E status \in {"retrying", "dead_letter"}:
                row' = [row EXCEPT ![k] = [LetGo(k, status) EXCEPT !.started = FALSE]]
           \/ row' = [row EXCEPT ![k] = LetGo(k, "dead_letter")],
           UNCHANGED <<noticed, approved, discarded>>
    PROVE  Rows' /\ \A j \in Effect: Decided(j)' /\ (AtRest(j)' => AtRest(j))
<1>1. k \in Effect => ~AtRest(k)
  BY HolderIsBusy
<1>2. PICK new: /\ row' = [row EXCEPT ![k] = new]
                /\ k \in Effect =>
                     /\ {"status", "ambiguous", "hold", "attempts"} \subseteq DOMAIN new
                     /\ new.status # "absent" /\ new.hold = row[k].hold
  <2>1. CASE Succeeded(k)
    <3> DEFINE new == LetGo(k, "succeeded")
    <3>1. k \in Effect => /\ {"status", "ambiguous", "hold", "attempts"} \subseteq DOMAIN new
                          /\ new.status = "succeeded" /\ new.hold = row[k].hold
      BY LetGoFields
    <3>2. row' = [row EXCEPT ![k] = new]
      BY <2>1 DEF Succeeded
    <3> HIDE DEF new
    <3> QED
      BY <3>1, <3>2
  <2>2. CASE Doubted(k)
    <3> DEFINE new == [LetGo(k, "failed") EXCEPT !.ambiguous = TRUE]
    <3>1. k \in Effect => /\ {"status", "ambiguous", "hold", "attempts"} \subseteq DOMAIN new
                          /\ new.status = "failed" /\ new.hold = row[k].hold
      BY LetGoFields
    <3>2. row' = [row EXCEPT ![k] = new]
      BY <2>2 DEF Doubted
    <3> HIDE DEF new
    <3> QED
      BY <3>1, <3>2
  <2>3. ASSUME NEW status \in {"retrying", "dead_letter"},
               row' = [row EXCEPT ![k] = [LetGo(k, status) EXCEPT !.started = FALSE]]
        PROVE  \E new: /\ row' = [row EXCEPT ![k] = new]
                       /\ k \in Effect =>
                            /\ {"status", "ambiguous", "hold", "attempts"} \subseteq DOMAIN new
                            /\ new.status # "absent" /\ new.hold = row[k].hold
    <3> DEFINE new == [LetGo(k, status) EXCEPT !.started = FALSE]
    <3>1. k \in Effect => /\ {"status", "ambiguous", "hold", "attempts"} \subseteq DOMAIN new
                          /\ new.status = status /\ new.hold = row[k].hold
      BY LetGoFields
    <3>2. row' = [row EXCEPT ![k] = new]
      BY <2>3
    <3> HIDE DEF new
    <3> QED
      BY <3>1, <3>2
  <2>4. CASE Deferred(k)
    <3> DEFINE new == [row[k] EXCEPT !.expired = FALSE]
    <3>1. k \in Effect => /\ {"status", "ambiguous", "hold", "attempts"} \subseteq DOMAIN new
                          /\ new.status = row[k].status /\ new.hold = row[k].hold
      BY DEF HeldInv, Rows
    <3>2. row' = [row EXCEPT ![k] = new]
      BY <2>4 DEF Deferred
    <3> HIDE DEF new
    <3> QED
      BY <3>1, <3>2
  <2>5. CASE row' = [row EXCEPT ![k] = LetGo(k, "dead_letter")]
    <3> DEFINE new == LetGo(k, "dead_letter")
    <3>1. k \in Effect => /\ {"status", "ambiguous", "hold", "attempts"} \subseteq DOMAIN new
                          /\ new.status = "dead_letter" /\ new.hold = row[k].hold
      BY LetGoFields
    <3>2. row' = [row EXCEPT ![k] = new]
      BY <2>5
    <3> HIDE DEF new
    <3> QED
      BY <3>1, <3>2
  <2> QED
    BY <2>1, <2>2, <2>3, <2>4, <2>5 DEF Returned
<1> QED
  BY <1>1, <1>2, BusyRowWritten

LEMMA SettleHeld ==
    ASSUME HeldInv, NEW x \in Executor, Settle(x)
    PROVE  HeldInv'
<1> DEFINE r == [Idle EXCEPT !.pc = "recover", !.batch = executor[x].batch]
<1>1. UNCHANGED <<sidecarVars, late>> /\ UNCHANGED <<noticed, approved, discarded>>
  BY SMTT(40) DEF Settle
<1>2. Become(x, r) /\ Fielded(r) /\ r.pc = "recover"
  BY QuietShapes DEF Settle
<1>3. Rows' /\ \A j \in Effect: Decided(j)' /\ (AtRest(j)' => AtRest(j))
  <2>1. CASE LeaseHeld(executor[x].key, executor[x].lease)
    BY <1>1, <2>1, HolderSettles DEF Settle, LeaseHeld
  <2>2. CASE ~LeaseHeld(executor[x].key, executor[x].lease)
    BY <1>1, <2>2, RowsIdle DEF Settle
  <2> QED
    BY <2>1, <2>2
<1> HIDE DEF r
<1> QED
  BY <1>1, <1>2, <1>3, ExecutorAsks

LEMMA FinishHeld ==
    ASSUME HeldInv, NEW x \in Executor, Finish(x) \/ PreEffectFailure(x)
    PROVE  HeldInv'
<1> DEFINE k == executor[x].key
<1>1. UNCHANGED <<sidecarVars, late>> /\ UNCHANGED <<noticed, approved, discarded>>
  BY SMTT(40) DEF Finish, PreEffectFailure
<1>2. Become(x, Idle) /\ Fielded(Idle) /\ Idle.pc = "idle"
  BY QuietShapes DEF Finish, PreEffectFailure
<1>3. Rows' /\ \A j \in Effect: Decided(j)' /\ (AtRest(j)' => AtRest(j))
  <2>1. CASE LeaseHeld(k, executor[x].lease)
    <3>1. \/ Succeeded(k) \/ Doubted(k)
          \/ \E status \in {"retrying", "dead_letter"}:
               row' = [row EXCEPT ![k] = [LetGo(k, status) EXCEPT !.started = FALSE]]
          \/ row' = [row EXCEPT ![k] = LetGo(k, "dead_letter")]
      BY <2>1 DEF Finish, Failed, PreEffectFailure
    <3>2. row[k].status = "processing"
      BY <2>1 DEF LeaseHeld
    <3> HIDE DEF k
    <3> QED
      BY <1>1, <3>1, <3>2, HolderSettles
  <2>2. CASE ~LeaseHeld(k, executor[x].lease)
    BY <1>1, <2>2, RowsIdle DEF Finish, PreEffectFailure
  <2> QED
    BY <2>1, <2>2
<1> QED
  BY <1>1, <1>2, <1>3, ExecutorAsks

LEMMA ClaimHeld ==
    ASSUME HeldInv, NEW x \in Executor, Claim(x)
    PROVE  HeldInv'
<1>0. PICK k \in Effect:
      /\ Claimable(row[k])
      /\ row' = [row EXCEPT ![k] = [Absent EXCEPT !.status = "processing",
                                                  !.attempts = row[k].attempts + 1,
                                                  !.lease = FreshLease]]
      /\ Become(x, [Idle EXCEPT !.pc = "claimed", !.key = k, !.lease = FreshLease])
  BY DEF Claim
<1> DEFINE r == [Idle EXCEPT !.pc = "claimed", !.key = k, !.lease = FreshLease]
           new == [Absent EXCEPT !.status = "processing", !.attempts = row[k].attempts + 1,
                                 !.lease = FreshLease]
<1>1. UNCHANGED <<sidecarVars, late>> /\ UNCHANGED <<noticed, approved, discarded>>
  BY DEF Claim
<1>2. Become(x, r) /\ Fielded(r) /\ r.pc = "claimed"
  BY <1>0 DEF Fielded, Idle
<1>3. /\ {"status", "ambiguous", "hold", "attempts"} \subseteq DOMAIN new
      /\ new.status = "processing" /\ new.hold = FALSE /\ row' = [row EXCEPT ![k] = new]
  BY <1>0 DEF Absent
<1> HIDE DEF r, new
<1>4. ~AtRest(k)
  BY <1>0, HolderIsBusy DEF Claimable
<1>5. Rows' /\ \A j \in Effect: Decided(j)' /\ (AtRest(j)' => AtRest(j))
  BY <1>1, <1>3, <1>4, BusyRowWritten
<1> QED
  BY <1>1, <1>2, <1>5, ExecutorAsks

\* The one step that begins to ask does so for a send under a lease.
LEMMA StartHeld ==
    ASSUME HeldInv, NEW x \in Executor, Start(x)
    PROVE  HeldInv'
<1> DEFINE k == executor[x].key
           new == [row[k] EXCEPT !.started = TRUE, !.expired = FALSE]
           r == [executor[x] EXCEPT !.pc = "posted"]
<1>1. UNCHANGED <<sidecarVars, late>> /\ UNCHANGED <<noticed, approved, discarded>>
  BY DEF Start
<1>2. Become(x, r) /\ Fielded(r) /\ r.key = k
  BY DEF Start, HeldInv, Frames, Fielded
<1>3. row' = [row EXCEPT ![k] = new] /\ row[k].status = "processing"
  BY DEF Start, MayStart, LeaseHeld
<1>4. k \in Effect => /\ {"status", "ambiguous", "hold", "attempts"} \subseteq DOMAIN new
                      /\ new.status = row[k].status /\ new.hold = row[k].hold
  BY DEF HeldInv, Rows
<1> HIDE DEF r, new, k
<1>5. k \in Effect => ~AtRest(k)
  BY <1>3, HolderIsBusy
<1>6. Rows' /\ \A j \in Effect: Decided(j)' /\ (AtRest(j)' => AtRest(j))
  BY <1>1, <1>3, <1>4, <1>5, BusyRowWritten
<1> QED
  BY <1>1, <1>2, <1>5, <1>6, ExecutorAsks

\* A request given up may be served late: it was one of a send not at rest.
LEMMA GiveUpHeld ==
    ASSUME HeldInv, NEW x \in Executor, GiveUp(x)
    PROVE  HeldInv'
<1> DEFINE r == Answered(executor[x], "again")
<1>1. Rows' /\ \A j \in Effect: Decided(j)' /\ (AtRest(j)' => AtRest(j))
  BY RowsIdle DEF GiveUp, appVars
<1>2. executor' = [executor EXCEPT ![x] = r] /\ Fielded(r) /\ r.pc = "answered"
  BY DEF GiveUp, Become, Answered, HeldInv, Frames, Fielded
<1> HIDE DEF r
<1>3. Frames'
  BY <1>2 DEF HeldInv, Frames
<1>4. ASSUME NEW j \in Effect, AtRest(j)'
      PROVE  Untraced(j)'
  <2>1. Untraced(j)
    BY <1>1, <1>4 DEF HeldInv
  <2>2. j \notin late'
    BY <2>1 DEF GiveUp, Untraced, Asking
  <2>3. \A y \in Executor: ~Asking(y, j)'
    BY <1>2, <2>1 DEF HeldInv, Frames, Untraced, Asking
  <2> QED
    BY <2>1, <2>2, <2>3 DEF GiveUp, Untraced, sidecarVars
<1> QED
  BY <1>1, <1>3, <1>4 DEF HeldInv

\* The sidecar and the crashes move executors without making one ask anew.
LEMMA NobodyAsks ==
    ASSUME HeldInv, UNCHANGED <<row, noticed, approved, discarded>>, Frames',
           \A y \in Executor, j \in Effect: Asking(y, j)' => Asking(y, j),
           \A j \in Effect: Untraced(j) =>
               /\ dispatch'[j] = "none" /\ journal'[j] = "none" /\ frames'[j] = 0
               /\ j \notin receipts' \union late'
    PROVE  HeldInv'
<1>1. Rows' /\ \A j \in Effect: Decided(j)' /\ (AtRest(j)' => AtRest(j))
  BY RowsIdle
<1>2. ASSUME NEW j \in Effect, AtRest(j)'
      PROVE  Untraced(j)'
  BY <1>1, <1>2 DEF HeldInv, Untraced
<1> QED
  BY <1>1, <1>2 DEF HeldInv

LEMMA TellHeld ==
    ASSUME HeldInv, NEW from, NEW answer, Tell(from, answer)
    PROVE  Frames' /\ \A y \in Executor, j \in Effect: Asking(y, j)' => Asking(y, j)
<1>1. ASSUME NEW y \in Executor
      PROVE  Fielded(executor'[y]) /\ \A j \in Effect: Asking(y, j)' => Asking(y, j)
  <2>1. Fielded(Answered(executor[y], answer)) /\ Answered(executor[y], answer).pc = "answered"
    BY DEF HeldInv, Frames, Fielded, Answered
  <2>2. CASE y \in from
    BY <2>1, <2>2 DEF Tell, Asking
  <2>3. CASE y \notin from
    BY <2>3 DEF Tell, Asking, HeldInv, Frames
  <2> QED
    BY <2>2, <2>3
<1> QED
  BY <1>1 DEF Tell, Frames

LEMMA ServeHeld ==
    ASSUME HeldInv, SidecarTypes, NEW k, NEW from, Serve(k, from), late' \subseteq late,
           k \in Effect => ~Untraced(k),
           \A x \in from \intersect Executor: executor[x].pc = "posted"
    PROVE  HeldInv'
<1>1. UNCHANGED <<row, noticed, approved, discarded>> /\ UNCHANGED <<journal, receipts, frames>>
  BY DEF Serve, appVars
<1>2. dispatch' = dispatch \/ dispatch' = [dispatch EXCEPT ![k] = "preparing"]
  BY DEF Serve
<1>3. Frames' /\ \A y \in Executor, j \in Effect: Asking(y, j)' => Asking(y, j)
  <2>1. CASE \E answer: Tell(from, answer)
    BY <2>1, TellHeld
  <2>2. CASE executor' = [x \in Executor |->
                            IF x \in from THEN [executor[x] EXCEPT !.pc = "joined"]
                            ELSE executor[x]]
    <3>1. ASSUME NEW y \in Executor
          PROVE  Fielded(executor'[y]) /\ \A j \in Effect: Asking(y, j)' => Asking(y, j)
      <4> DEFINE r == [executor[y] EXCEPT !.pc = "joined"]
      <4>1. Fielded(r) /\ r.pc = "joined" /\ r.key = executor[y].key
        BY DEF HeldInv, Frames, Fielded
      <4>2. (executor'[y] = r /\ y \in from) \/ executor'[y] = executor[y]
        BY <2>2
      <4> HIDE DEF r
      <4> QED
        BY <4>1, <4>2 DEF HeldInv, Frames, Asking
    <3> QED
      BY <2>2, <3>1 DEF Frames
  <2> QED
    BY <2>1, <2>2 DEF Serve
<1>4. ASSUME NEW j \in Effect, Untraced(j)
      PROVE  /\ dispatch'[j] = "none" /\ journal'[j] = "none" /\ frames'[j] = 0
             /\ j \notin receipts' \union late'
  BY <1>1, <1>2, <1>4 DEF SidecarTypes, Untraced
<1> QED
  BY <1>1, <1>3, <1>4, NobodyAsks

LEMMA DispatchingHeld ==
    ASSUME HeldInv, SidecarTypes, NEW k \in Effect, Dispatching(k)
    PROVE  HeldInv'
<1>1. UNCHANGED <<row, noticed, approved, discarded>> /\ dispatch[k] # "none" /\ late' = late
  BY DEF Dispatching, Mark, WriteFrame, DispatchFails, RecordReceipt, ClearMarker, appVars
<1>2. Frames' /\ \A y \in Executor, j \in Effect: Asking(y, j)' => Asking(y, j)
  <2>1. CASE UNCHANGED executor
    BY <2>1 DEF HeldInv, Frames, Asking
  <2>2. CASE \E answer: Tell(Joined(k), answer)
    BY <2>2, TellHeld
  <2> QED
    BY <2>1, <2>2 DEF Dispatching, Mark, WriteFrame, DispatchFails, RecordReceipt, ClearMarker
<1>3. ASSUME NEW j \in Effect, Untraced(j)
      PROVE  /\ dispatch'[j] = "none" /\ journal'[j] = "none" /\ frames'[j] = 0
             /\ j \notin receipts' \union late'
  <2>1. j # k
    BY <1>1, <1>3 DEF Untraced
  <2>2. /\ dispatch'[j] = dispatch[j] /\ journal'[j] = journal[j] /\ frames'[j] = frames[j]
        /\ j \in receipts' <=> j \in receipts
    BY <2>1 DEF SidecarTypes, Dispatching, Mark, WriteFrame, DispatchFails, RecordReceipt,
                ClearMarker
  <2> QED
    BY <1>1, <1>3, <2>2 DEF Untraced
<1> QED
  BY <1>1, <1>2, <1>3, NobodyAsks

LEMMA CrashHeld ==
    ASSUME HeldInv, CrashApp \/ CrashSidecar
    PROVE  HeldInv'
<1>1. UNCHANGED <<row, noticed, approved, discarded>>
  BY DEF CrashApp, CrashSidecar, appVars
<1>2. CASE CrashApp
  <2>1. Frames' /\ \A y \in Executor, j \in Effect: Asking(y, j)' => Asking(y, j)
    BY <1>2, IdleShape DEF CrashApp, Frames, Asking, Idle
  <2>2. ASSUME NEW j \in Effect, Untraced(j)
        PROVE  /\ dispatch'[j] = "none" /\ journal'[j] = "none" /\ frames'[j] = 0
               /\ j \notin receipts' \union late'
    BY <1>2, <2>2 DEF CrashApp, sidecarVars, Untraced, Asking, InState
  <2> QED
    BY <1>1, <2>1, <2>2, NobodyAsks
<1>3. CASE CrashSidecar
  <2>1. Frames' /\ \A y \in Executor, j \in Effect: Asking(y, j)' => Asking(y, j)
    BY <1>3, TellHeld DEF CrashSidecar
  <2>2. ASSUME NEW j \in Effect, Untraced(j)
        PROVE  /\ dispatch'[j] = "none" /\ journal'[j] = "none" /\ frames'[j] = 0
               /\ j \notin receipts' \union late'
    BY <1>3, <2>2 DEF CrashSidecar, Untraced
  <2> QED
    BY <1>1, <2>1, <2>2, NobodyAsks
<1> QED
  BY <1>2, <1>3

\* People write rows at rest: every press looks at the row again, so a send is
\* approved or discarded once, and leaves rest only by approval or retry.
LEMMA PeopleWrite ==
    ASSUME HeldInv, NEW k \in Effect, UNCHANGED <<executor, late, sidecarVars>>,
           Rows', \A j \in Effect \ {k}: row'[j] = row[j],
           noticed' \in {noticed, noticed \union {k}},
           approved' \in {approved, approved \union {k}},
           discarded' \in {discarded, discarded \union {k}},
           Decided(k)', AtRest(k)' => AtRest(k)
    PROVE  HeldInv'
<1>1. ASSUME NEW j \in Effect
      PROVE  Decided(j)' /\ (AtRest(j)' => AtRest(j))
  <2>1. CASE j = k
    BY <2>1
  <2>2. CASE j # k
    BY <2>2 DEF HeldInv, Decided, AtRest
  <2> QED
    BY <2>1, <2>2
<1>2. Frames'
  BY DEF HeldInv, Frames
<1>3. ASSUME NEW j \in Effect, AtRest(j)'
      PROVE  Untraced(j)'
  BY <1>1, <1>3 DEF HeldInv, Untraced, Asking, sidecarVars
<1> QED
  BY <1>1, <1>2, <1>3 DEF HeldInv

LEMMA PeopleHeld ==
    ASSUME HeldInv, NEW k \in Effect,
           \/ Queue(k) \/ Expire(k) \/ Approve(k) \/ Discard(k) \/ Acknowledge(k)
           \/ \E press \in {"approve", "discard", "retry"}: Press(press, k)
           \/ \E ambiguous \in BOOLEAN: Retry(k, ambiguous)
    PROVE  HeldInv'
<1>1. UNCHANGED <<executor, late, sidecarVars>>
  BY DEF Queue, Expire, Approve, Discard, Acknowledge, Press, Retry
<1>2. CASE UNCHANGED <<row, noticed, approved, discarded>>
  <2>1. Frames' /\ \A y \in Executor, j \in Effect: Asking(y, j)' => Asking(y, j)
    BY <1>1 DEF HeldInv, Frames, Asking
  <2> QED
    BY <1>1, <1>2, <2>1, NobodyAsks DEF Untraced, sidecarVars
<1>3. CASE Queue(k)
  <2> PICK held \in BOOLEAN:
        /\ row' = [row EXCEPT ![k].status = IF held THEN "failed" ELSE "queued", ![k].hold = held]
        /\ noticed' = IF held THEN noticed \union {k} ELSE noticed
    BY <1>3 DEF Queue
  <2> DEFINE r == [row[k] EXCEPT !.status = IF held THEN "failed" ELSE "queued", !.hold = held]
  <2>1. /\ row' = [row EXCEPT ![k] = r]
        /\ {"status", "ambiguous", "hold", "attempts"} \subseteq DOMAIN r
        /\ r.status = (IF held THEN "failed" ELSE "queued") /\ r.hold = held
        /\ r.ambiguous = row[k].ambiguous /\ r.attempts = row[k].attempts
    BY DEF HeldInv, Rows
  <2>2. row[k].status = "absent" /\ UNCHANGED <<approved, discarded>>
    BY <1>3 DEF Queue
  <2> HIDE DEF r
  <2>3. Rows' /\ row'[k] = r /\ \A j \in Effect \ {k}: row'[j] = row[j]
    BY <2>1, <2>2 DEF HeldInv, Rows
  <2>4. ~row[k].ambiguous /\ row[k].attempts = 0 /\ k \notin noticed \union approved \union discarded
    BY <2>2 DEF HeldInv, Decided
  <2>5. Decided(k)' /\ AtRest(k)
    BY <2>1, <2>2, <2>3, <2>4 DEF Decided, AtRest
  <2> QED
    BY <1>1, <2>2, <2>3, <2>5, PeopleWrite
<1>4. CASE Expire(k)
  <2> DEFINE r == [row[k] EXCEPT !.expired = TRUE]
  <2>1. /\ row' = [row EXCEPT ![k] = r]
        /\ {"status", "ambiguous", "hold", "attempts"} \subseteq DOMAIN r
        /\ r.status = row[k].status /\ r.hold = row[k].hold
    BY <1>4 DEF Expire, HeldInv, Rows
  <2>2. row[k].status = "processing" /\ UNCHANGED <<noticed, approved, discarded>>
    BY <1>4 DEF Expire
  <2> HIDE DEF r
  <2>3. Rows' /\ \A j \in Effect: Decided(j)' /\ (AtRest(j)' => AtRest(j))
    BY <2>1, <2>2, HolderIsBusy, BusyRowWritten
  <2>4. \A j \in Effect \ {k}: row'[j] = row[j]
    BY <2>1, <2>2 DEF HeldInv, Rows
  <2> QED
    BY <1>1, <2>2, <2>3, <2>4, PeopleWrite
<1>5. CASE Approve(k) /\ Held(row[k])
  <2> DEFINE r == [row[k] EXCEPT !.status = "queued", !.hold = FALSE]
  <2>1. /\ row' = [row EXCEPT ![k] = r]
        /\ {"status", "ambiguous", "hold", "attempts"} \subseteq DOMAIN r
        /\ r.status = "queued" /\ r.hold = FALSE
    BY <1>5 DEF Approve, HeldInv, Rows
  <2>2. /\ row[k].status = "failed" /\ row[k].hold
        /\ approved' = approved \union {k} /\ UNCHANGED <<noticed, discarded>>
    BY <1>5 DEF Approve, Held
  <2> HIDE DEF r
  <2>3. Rows' /\ row'[k] = r /\ \A j \in Effect \ {k}: row'[j] = row[j]
    BY <2>1, <2>2 DEF HeldInv, Rows
  <2>4. Decided(k)' /\ ~AtRest(k)'
    BY <2>1, <2>2, <2>3 DEF HeldInv, Decided, AtRest
  <2> QED
    BY <1>1, <2>2, <2>3, <2>4, PeopleWrite
<1>6. CASE Discard(k) /\ Held(row[k])
  <2> DEFINE r == [row[k] EXCEPT !.status = "dead_letter"]
  <2>1. /\ row' = [row EXCEPT ![k] = r]
        /\ {"status", "ambiguous", "hold", "attempts"} \subseteq DOMAIN r
        /\ r.status = "dead_letter" /\ r.hold = row[k].hold
        /\ r.ambiguous = row[k].ambiguous /\ r.attempts = row[k].attempts
    BY <1>6 DEF Discard, HeldInv, Rows
  <2>2. /\ row[k].status = "failed" /\ row[k].hold
        /\ discarded' = discarded \union {k} /\ UNCHANGED <<noticed, approved>>
    BY <1>6 DEF Discard, Held
  <2> HIDE DEF r
  <2>3. Rows' /\ row'[k] = r /\ \A j \in Effect \ {k}: row'[j] = row[j]
    BY <2>1, <2>2 DEF HeldInv, Rows
  <2>4. Decided(k)' /\ (AtRest(k)' => AtRest(k))
    BY <2>1, <2>2, <2>3 DEF HeldInv, Decided, AtRest
  <2> QED
    BY <1>1, <2>2, <2>3, <2>4, PeopleWrite
<1>7. ASSUME NEW ambiguous \in BOOLEAN, Retry(k, ambiguous), StillAsSeen(k, ambiguous)
      PROVE  HeldInv'
  <2> DEFINE r == [Absent EXCEPT !.status = "queued"]
  <2>1. /\ row' = [row EXCEPT ![k] = r]
        /\ {"status", "ambiguous", "hold", "attempts"} \subseteq DOMAIN r
        /\ r.status = "queued" /\ r.hold = FALSE
    BY <1>7 DEF Retry, Absent
  <2>2. row[k].status \in {"failed", "dead_letter"} /\ UNCHANGED <<noticed, approved, discarded>>
    BY <1>7 DEF Retry, StillAsSeen, Ambiguous
  <2>5. row[k].status = "failed" => row[k].ambiguous
    BY <1>7 DEF StillAsSeen, Ambiguous
  <2> HIDE DEF r
  <2>3. Rows' /\ row'[k] = r /\ \A j \in Effect \ {k}: row'[j] = row[j]
    BY <2>1, <2>2 DEF HeldInv, Rows
  <2>4. Decided(k)' /\ ~AtRest(k)'
    BY <2>1, <2>2, <2>3, <2>5 DEF HeldInv, Decided, AtRest
  <2> QED
    BY <1>1, <2>2, <2>3, <2>4, PeopleWrite
<1> QED
  BY <1>2, <1>3, <1>4, <1>5, <1>6, <1>7
     DEF Approve, Discard, Retry, Acknowledge, Press, appVars

LEMMA NextHeld == IInv /\ HeldInv /\ [Next]_vars => HeldInv'
<1> SUFFICES ASSUME IInv, HeldInv, [Next]_vars
             PROVE  HeldInv'
  OBVIOUS
<1>0. SidecarTypes
  BY DEF IInv
<1>1. CASE UNCHANGED vars
  <2>1. Frames' /\ \A y \in Executor, j \in Effect: Asking(y, j)' => Asking(y, j)
    BY <1>1 DEF vars, HeldInv, Frames, Asking
  <2> QED
    BY <1>1, <2>1, NobodyAsks DEF vars, appVars, sidecarVars, Untraced
<1>2. ASSUME NEW k \in Effect, ServeLate(k)
      PROVE  HeldInv'
  BY <1>0, <1>2, ServeHeld DEF ServeLate, Untraced
<1>3. ASSUME NEW k \in Effect, Dispatching(k)
      PROVE  HeldInv'
  BY <1>0, <1>3, DispatchingHeld
<1>4. ASSUME NEW k \in Effect,
             \/ Queue(k) \/ Expire(k) \/ Approve(k) \/ Discard(k) \/ Acknowledge(k)
             \/ \E press \in {"approve", "discard", "retry"}: Press(press, k)
             \/ \E ambiguous \in BOOLEAN: Retry(k, ambiguous)
      PROVE  HeldInv'
  BY <1>4, PeopleHeld
<1>5. ASSUME NEW x \in Executor, Execute(x)
      PROVE  HeldInv'
  BY <1>5, SilentHeld, HandBackHeld, SettleHeld, FinishHeld, ClaimHeld, StartHeld DEF Execute
<1>6. ASSUME NEW x \in Executor, GiveUp(x)
      PROVE  HeldInv'
  BY <1>6, GiveUpHeld
<1>7. ASSUME NEW x \in Executor, ServePosted(x)
      PROVE  HeldInv'
  BY <1>0, <1>7, ServeHeld DEF ServePosted, Untraced, Asking
<1>8. CASE CrashApp \/ CrashSidecar
  BY <1>8, CrashHeld
<1> QED
  BY <1>1, <1>2, <1>3, <1>4, <1>5, <1>6, <1>7, <1>8 DEF Next

\* Approval and discard never both happen to a held send, and until one does,
\* or a retry is pressed on a discarded one, nothing anywhere has touched it.
THEOREM HeldSendsAreUntouchedHolds == Spec => []HeldSendsAreUntouched
<1>1. HeldInv => HeldSendsAreUntouched
  <2> SUFFICES ASSUME HeldInv
               PROVE  HeldSendsAreUntouched
    OBVIOUS
  <2>1. ASSUME NEW k \in noticed
        PROVE  Decided(k) /\ (row[k].hold => Untraced(k))
    BY DEF HeldInv, Rows, AtRest
  <2> QED
    BY <2>1 DEF HeldSendsAreUntouched, Decided, Untraced
<1> QED
  BY InitIInv, NextKept, InitHeldInv, NextHeld, <1>1, PTL DEF Spec

-----------------------------------------------------------------------------
(***************************************************************************)
(* KeepsPromise: what SendPromise says of one message is read off its row  *)
(* and its frames.  The rows alone decide what a step does to the standing *)
(* of a send; that a success was on the wire is the Witnessed receipts',   *)
(* that nothing goes on the wire at rest is Untraced's, that nothing goes  *)
(* twice is Trail's.                                                       *)
(***************************************************************************)

standings == [k \in Effect |-> Standing(k)]
wires == [k \in Effect |-> frames[k] > 0]

Promised == Promise!Next \/ UNCHANGED <<standings, wires>>

\* Leaves every standing and the wire alone.
LEMMA StandsStill ==
    ASSUME row' = row, frames' = frames
    PROVE  Promised
  BY DEF Promised, standings, wires, Standing, Held, Discarded, Ambiguous

\* What the columns of a row say of its send.
Stands(r, standing) ==
    CASE standing = "absent"    -> r.status = "absent"
      [] standing = "held"      -> r.status = "failed" /\ ~r.ambiguous /\ r.hold
      [] standing = "thrown"    -> r.status = "dead_letter" /\ r.hold
      [] standing = "delivered" -> r.status = "succeeded"
      [] standing = "doubt"     -> r.status = "failed" /\ r.ambiguous
      [] standing = "refused"   -> r.status = "dead_letter" /\ ~r.hold
      [] standing = "due"       -> r.status \in {"queued", "processing", "retrying"}

LEMMA StandingIs ==
    ASSUME NEW k, NEW standing \in Promise!Standings, Stands(row[k], standing)
    PROVE  Standing(k) = standing
  BY DEF Promise!Standings, Stands, Standing, Held, Discarded, Ambiguous

\* The row of one send is written.
LEMMA RowMoves ==
    ASSUME HeldInv, NEW k \in Effect, NEW r, row' = [row EXCEPT ![k] = r], frames' = frames,
           NEW to \in Promise!Standings, Stands(r, to)
    PROVE  /\ standings' = [standings EXCEPT ![k] = to]
           /\ UNCHANGED wires
<1>1. row' = [j \in Effect |-> IF j = k THEN r ELSE row[j]]
  BY DEF HeldInv, Rows
<1>2. Standing(k)' = to
  BY <1>1 DEF Promise!Standings, Stands, Standing, Held, Discarded, Ambiguous
<1>3. ASSUME NEW j \in Effect, j # k
      PROVE  Standing(j)' = Standing(j)
  BY <1>1, <1>3 DEF Standing, Held, Discarded, Ambiguous
<1> QED
  BY <1>2, <1>3 DEF standings, wires

LEMMA RowMovesAsPromised ==
    ASSUME HeldInv, NEW k \in Effect, NEW r, row' = [row EXCEPT ![k] = r], frames' = frames,
           NEW from \in Promise!Standings, NEW to \in Promise!Standings,
           Stands(row[k], from), Stands(r, to),
           <<from, to>> \in
             { <<"absent", "due">>, <<"absent", "held">>, <<"held", "due">>, <<"held", "thrown">>,
               <<"due", "due">>, <<"due", "doubt">>, <<"due", "refused">>,
               <<"doubt", "due">>, <<"refused", "due">>, <<"thrown", "due">> }
           \/ (from = "due" /\ to = "delivered" /\ frames[k] > 0)
    PROVE  Promised
<1>1. standings[k] = from
  BY StandingIs DEF standings
<1>2. standings' = [standings EXCEPT ![k] = to] /\ UNCHANGED wires
  BY RowMoves
<1>3. wires[k] = (frames[k] > 0)
  BY DEF wires
<1>4. standings = [j \in Effect |-> standings[j]]
  BY DEF standings
<1>5. CASE from = to
  <2>1. standings' = standings
    BY <1>1, <1>2, <1>4, <1>5
  <2> QED
    BY <1>2, <2>1 DEF Promised
<1>6. CASE from = "due" /\ to = "delivered"
  <2>1. Promise!Deliver(k)
    BY <1>1, <1>2, <1>3, <1>6 DEF Promise!Deliver, Promise!Move, standings, wires
  <2> QED
    BY <2>1 DEF Promised, Promise!Next
<1>7. CASE from # to /\ to # "delivered"
  <2>1. \/ Promise!Ask(k) \/ Promise!Release(k) \/ Promise!Throw(k)
        \/ Promise!LoseSight(k) \/ Promise!Refuse(k) \/ Promise!Reopen(k)
    BY <1>1, <1>2, <1>7
       DEF Promise!Ask, Promise!Release, Promise!Throw, Promise!LoseSight, Promise!Refuse,
           Promise!Reopen, Promise!Move, standings, wires
  <2> QED
    BY <2>1 DEF Promised, Promise!Next
<1> QED
  BY <1>5, <1>6, <1>7

\* A row under a lease is due, whatever its holder makes of it is a move of the
\* promise: a success needs a frame, a dead letter keeps no hold.
LEMMA HolderWritesAsPromised ==
    ASSUME HeldInv, NEW k, row[k].status = "processing", NEW r,
           row' = [row EXCEPT ![k] = r], frames' = frames,
           k \in Effect => \/ r.status \in {"processing", "retrying"}
                           \/ r.status = "succeeded" /\ frames[k] > 0
                           \/ r.status = "failed" /\ r.ambiguous = TRUE
                           \/ r.status = "dead_letter" /\ r.hold = row[k].hold
    PROVE  Promised
<1>1. CASE k \notin Effect
  <2>1. row' = row
    BY <1>1 DEF HeldInv, Rows
  <2> QED
    BY <2>1, StandsStill
<1>2. CASE k \in Effect
  <2>1. Stands(row[k], "due") /\ ~row[k].hold
    BY <1>2 DEF Stands, HeldInv, Decided
  <2>2. CASE r.status \in {"processing", "retrying"}
    <3>1. Stands(r, "due")
      BY <2>2 DEF Stands
    <3> QED
      BY <1>2, <2>1, <3>1, RowMovesAsPromised DEF Promise!Standings
  <2>3. CASE r.status = "succeeded" /\ frames[k] > 0
    <3>1. Stands(r, "delivered")
      BY <2>3 DEF Stands
    <3> QED
      BY <1>2, <2>1, <2>3, <3>1, RowMovesAsPromised DEF Promise!Standings
  <2>4. CASE r.status = "failed" /\ r.ambiguous = TRUE
    <3>1. Stands(r, "doubt")
      BY <2>4 DEF Stands
    <3> QED
      BY <1>2, <2>1, <3>1, RowMovesAsPromised DEF Promise!Standings
  <2>5. CASE r.status = "dead_letter" /\ r.hold = row[k].hold
    <3>1. Stands(r, "refused")
      BY <2>1, <2>5 DEF Stands
    <3> QED
      BY <1>2, <2>1, <3>1, RowMovesAsPromised DEF Promise!Standings
  <2> QED
    BY <1>2, <2>2, <2>3, <2>4, <2>5
<1> QED
  BY <1>1, <1>2

\* A row let go of.
LEMMA LetGoAsPromised ==
    ASSUME HeldInv, NEW k, row[k].status = "processing", frames' = frames,
           \/ Succeeded(k) /\ (k \in Effect => frames[k] > 0)
           \/ Doubted(k) \/ Returned(k) \/ Deferred(k)
           \/ row' = [row EXCEPT ![k] = [LetGo(k, "retrying") EXCEPT !.attempts = @ - 1]]
           \/ \E status \in {"retrying", "dead_letter"}:
                row' = [row EXCEPT ![k] = [LetGo(k, status) EXCEPT !.started = FALSE]]
           \/ row' = [row EXCEPT ![k] = LetGo(k, "dead_letter")]
    PROVE  Promised
<1>1. CASE Succeeded(k) /\ (k \in Effect => frames[k] > 0)
  <2> DEFINE r == LetGo(k, "succeeded")
  <2>1. k \in Effect => r.status = "succeeded" /\ frames[k] > 0
    BY <1>1, LetGoFields
  <2>2. row' = [row EXCEPT ![k] = r]
    BY <1>1 DEF Succeeded
  <2> HIDE DEF r
  <2> QED
    BY <2>1, <2>2, HolderWritesAsPromised
<1>2. CASE Doubted(k)
  <2> DEFINE r == [LetGo(k, "failed") EXCEPT !.ambiguous = TRUE]
  <2>1. k \in Effect => r.status = "failed" /\ r.ambiguous = TRUE
    BY LetGoFields
  <2>2. row' = [row EXCEPT ![k] = r]
    BY <1>2 DEF Doubted
  <2> HIDE DEF r
  <2> QED
    BY <2>1, <2>2, HolderWritesAsPromised
<1>3. CASE Deferred(k)
  <2> DEFINE r == [row[k] EXCEPT !.expired = FALSE]
  <2>1. k \in Effect => r.status = "processing"
    BY DEF HeldInv, Rows
  <2>2. row' = [row EXCEPT ![k] = r]
    BY <1>3 DEF Deferred
  <2> HIDE DEF r
  <2> QED
    BY <2>1, <2>2, HolderWritesAsPromised
<1>4. CASE row' = [row EXCEPT ![k] = [LetGo(k, "retrying") EXCEPT !.attempts = @ - 1]]
  <2> DEFINE r == [LetGo(k, "retrying") EXCEPT !.attempts = @ - 1]
  <2>1. k \in Effect => r.status = "retrying"
    BY LetGoFields
  <2>2. row' = [row EXCEPT ![k] = r]
    BY <1>4
  <2> HIDE DEF r
  <2> QED
    BY <2>1, <2>2, HolderWritesAsPromised
<1>5. ASSUME NEW status \in {"retrying", "dead_letter"},
             row' = [row EXCEPT ![k] = [LetGo(k, status) EXCEPT !.started = FALSE]]
      PROVE  Promised
  <2> DEFINE r == [LetGo(k, status) EXCEPT !.started = FALSE]
  <2>1. k \in Effect => r.status = status /\ r.hold = row[k].hold
    BY LetGoFields
  <2>2. row' = [row EXCEPT ![k] = r]
    BY <1>5
  <2> HIDE DEF r
  <2> QED
    BY <2>1, <2>2, HolderWritesAsPromised
<1>6. CASE row' = [row EXCEPT ![k] = LetGo(k, "dead_letter")]
  <2> DEFINE r == LetGo(k, "dead_letter")
  <2>1. k \in Effect => r.status = "dead_letter" /\ r.hold = row[k].hold
    BY LetGoFields
  <2>2. row' = [row EXCEPT ![k] = r]
    BY <1>6
  <2> HIDE DEF r
  <2> QED
    BY <2>1, <2>2, HolderWritesAsPromised
<1> QED
  BY <1>1, <1>2, <1>3, <1>4, <1>5, <1>6 DEF Returned

\* What an executor writes: answers speak of receipts, receipts of frames.
LEMMA ExecutorKeepsPromise ==
    ASSUME HeldInv, ShownInv, NEW x \in Executor, Execute(x)
    PROVE  Promised
<1>1. frames' = frames
  BY DEF Execute, Begin, HandBackUnstarted, PayloadLost, LookUp, LookUpFails, LookedUp, Settle,
         Claim, NothingDue, PreEffectFailure, Start, Finish, sidecarVars
<1>2. CASE Begin(x) \/ LookUp(x) \/ LookUpFails(x) \/ NothingDue(x)
  BY <1>1, <1>2, StandsStill DEF Begin, LookUp, LookUpFails, LookedUp, NothingDue, appVars
<1>3. CASE HandBackUnstarted(x) \/ PayloadLost(x)
  <2> PICK e \in executor[x].batch:
        \/ row' = row
        \/ LeaseHeld(e.key, e.lease)
           /\ \/ row' = [row EXCEPT ![e.key] = [LetGo(e.key, "retrying") EXCEPT !.attempts = @ - 1]]
              \/ Doubted(e.key)
    BY <1>3 DEF HandBackUnstarted, PayloadLost, Doubted
  <2>1. LeaseHeld(e.key, e.lease) => row[e.key].status = "processing"
    BY DEF LeaseHeld
  <2> QED
    BY <1>1, <2>1, StandsStill, LetGoAsPromised
<1>4. CASE Settle(x) \/ Finish(x) \/ PreEffectFailure(x)
  <2> DEFINE k == executor[x].key
             answer == executor[x].answer
  <2>1. CASE row' = row
    BY <1>1, <2>1, StandsStill
  <2>2. CASE row' # row
    <3>1. LeaseHeld(k, executor[x].lease)
      BY <1>4, <2>2 DEF Settle, Finish, PreEffectFailure
    <3>2. \/ answer = "receipt" /\ Succeeded(k)
          \/ Doubted(k) \/ Returned(k) \/ Deferred(k)
          \/ \E status \in {"retrying", "dead_letter"}:
               row' = [row EXCEPT ![k] = [LetGo(k, status) EXCEPT !.started = FALSE]]
          \/ row' = [row EXCEPT ![k] = LetGo(k, "dead_letter")]
      BY <1>4, <3>1 DEF Settle, Finish, Failed, PreEffectFailure
    <3>3. answer = "receipt" /\ k \in Effect => frames[k] > 0
      BY DEF ShownInv, Executors, Truthful, Witnessed
    <3>4. row[k].status = "processing"
      BY <3>1 DEF LeaseHeld
    <3> HIDE DEF k, answer
    <3> QED
      BY <1>1, <3>2, <3>3, <3>4, LetGoAsPromised
  <2> QED
    BY <2>1, <2>2
<1>5. CASE Claim(x)
  <2> PICK k \in Effect:
        /\ Claimable(row[k])
        /\ row' = [row EXCEPT ![k] = [Absent EXCEPT !.status = "processing",
                                                    !.attempts = row[k].attempts + 1,
                                                    !.lease = FreshLease]]
    BY <1>5 DEF Claim
  <2> DEFINE r == [Absent EXCEPT !.status = "processing", !.attempts = row[k].attempts + 1,
                                 !.lease = FreshLease]
  <2>1. row' = [row EXCEPT ![k] = r] /\ Stands(r, "due") /\ Stands(row[k], "due")
    BY DEF Stands, Absent, Claimable
  <2> HIDE DEF r
  <2> QED
    BY <1>1, <2>1, RowMovesAsPromised DEF Promise!Standings
<1>6. CASE Start(x)
  <2> DEFINE k == executor[x].key
             r == [row[k] EXCEPT !.started = TRUE, !.expired = FALSE]
  <2>1. row' = [row EXCEPT ![k] = r] /\ row[k].status = "processing"
    BY <1>6 DEF Start, MayStart, LeaseHeld
  <2>2. k \in Effect => r.status = "processing"
    BY <2>1 DEF HeldInv, Rows
  <2> HIDE DEF r, k
  <2> QED
    BY <1>1, <2>1, <2>2, HolderWritesAsPromised
<1> QED
  BY <1>2, <1>3, <1>4, <1>5, <1>6 DEF Execute

\* What people write, each press after one more look at the row.
LEMMA PeopleKeepPromise ==
    ASSUME HeldInv, NEW k \in Effect,
           \/ Queue(k) \/ Expire(k) \/ Approve(k) \/ Discard(k) \/ Acknowledge(k)
           \/ \E press \in {"approve", "discard", "retry"}: Press(press, k)
           \/ \E ambiguous \in BOOLEAN: Retry(k, ambiguous)
    PROVE  Promised
<1>1. frames' = frames
  BY DEF Queue, Expire, Approve, Discard, Acknowledge, Press, Retry, sidecarVars
<1>2. CASE row' = row
  BY <1>1, <1>2, StandsStill
<1>3. CASE Queue(k)
  <2> PICK held \in BOOLEAN:
        row' = [row EXCEPT ![k].status = IF held THEN "failed" ELSE "queued", ![k].hold = held]
    BY <1>3 DEF Queue
  <2> DEFINE r == [row[k] EXCEPT !.status = IF held THEN "failed" ELSE "queued", !.hold = held]
  <2>1. row' = [row EXCEPT ![k] = r]
    BY DEF HeldInv, Rows
  <2>2. /\ r.status = (IF held THEN "failed" ELSE "queued")
        /\ r.hold = held /\ r.ambiguous = row[k].ambiguous
    BY DEF HeldInv, Rows
  <2>3. Stands(row[k], "absent") /\ ~row[k].ambiguous
    BY <1>3 DEF Queue, Stands, HeldInv, Decided
  <2> HIDE DEF r
  <2>4. CASE held
    <3>1. Stands(r, "held")
      BY <2>2, <2>3, <2>4 DEF Stands
    <3> QED
      BY <1>1, <2>1, <2>3, <3>1, RowMovesAsPromised DEF Promise!Standings
  <2>5. CASE ~held
    <3>1. Stands(r, "due")
      BY <2>2, <2>5 DEF Stands
    <3> QED
      BY <1>1, <2>1, <2>3, <3>1, RowMovesAsPromised DEF Promise!Standings
  <2> QED
    BY <2>4, <2>5
<1>4. CASE Expire(k)
  <2> DEFINE r == [row[k] EXCEPT !.expired = TRUE]
  <2>1. row' = [row EXCEPT ![k] = r] /\ r.status = "processing" /\ row[k].status = "processing"
    BY <1>4 DEF Expire, HeldInv, Rows
  <2> HIDE DEF r
  <2> QED
    BY <1>1, <2>1, HolderWritesAsPromised
<1>5. CASE Approve(k) /\ Held(row[k])
  <2> DEFINE r == [row[k] EXCEPT !.status = "queued", !.hold = FALSE]
  <2>1. row' = [row EXCEPT ![k] = r]
    BY <1>5 DEF Approve, HeldInv, Rows
  <2>2. Stands(row[k], "held") /\ Stands(r, "due")
    BY <1>5 DEF Held, Stands, HeldInv, Rows
  <2> HIDE DEF r
  <2> QED
    BY <1>1, <2>1, <2>2, RowMovesAsPromised DEF Promise!Standings
<1>6. CASE Discard(k) /\ Held(row[k])
  <2> DEFINE r == [row[k] EXCEPT !.status = "dead_letter"]
  <2>1. row' = [row EXCEPT ![k] = r]
    BY <1>6 DEF Discard, HeldInv, Rows
  <2>2. r.status = "dead_letter" /\ r.hold = row[k].hold
    BY DEF HeldInv, Rows
  <2>3. Stands(row[k], "held") /\ Stands(r, "thrown")
    BY <1>6, <2>2 DEF Held, Stands
  <2> HIDE DEF r
  <2> QED
    BY <1>1, <2>1, <2>3, RowMovesAsPromised DEF Promise!Standings
<1>7. ASSUME NEW ambiguous \in BOOLEAN, Retry(k, ambiguous), StillAsSeen(k, ambiguous)
      PROVE  Promised
  <2> DEFINE r == [Absent EXCEPT !.status = "queued"]
  <2>1. row' = [row EXCEPT ![k] = r] /\ Stands(r, "due")
    BY <1>7 DEF Retry, Absent, Stands
  <2>2. PICK from \in {"doubt", "refused", "thrown"}: Stands(row[k], from)
    BY <1>7 DEF StillAsSeen, Ambiguous, Stands
  <2> HIDE DEF r
  <2> QED
    BY <1>1, <2>1, <2>2, RowMovesAsPromised DEF Promise!Standings
<1> QED
  BY <1>2, <1>3, <1>4, <1>5, <1>6, <1>7
     DEF Approve, Discard, Retry, Acknowledge, Press, appVars

\* The frame: the marker's dispatch is of a send that is neither at rest nor
\* delivered, and that has no frame yet.
LEMMA FrameKeepsPromise ==
    ASSUME IInv, HeldInv, ShownInv, NEW k \in Effect, WriteFrame(k)
    PROVE  Promised
<1>1. row' = row /\ frames' = [frames EXCEPT ![k] = @ + 1] /\ dispatch[k] = "marked"
  BY DEF WriteFrame, appVars
<1>2. frames[k] = 0 /\ frames \in [Effect -> Nat]
  BY <1>1 DEF IInv, SidecarTypes, Trail
<1>3. ~AtRest(k) /\ row[k].status # "succeeded"
  BY <1>1, <1>2 DEF HeldInv, Untraced, ShownInv, Inbox, SuccessIsShown
<1>4. standings[k] \in {"due", "doubt", "refused"}
  BY <1>3 DEF standings, Standing, AtRest, Held, Discarded
<1>5. standings' = standings
  BY <1>1 DEF standings, Standing, Held, Discarded, Ambiguous
<1>6. ~wires[k] /\ wires' = [wires EXCEPT ![k] = TRUE]
  <2>1. ~(frames[k] > 0) /\ (frames'[k] > 0) = TRUE
    BY <1>1, <1>2
  <2>2. \A j \in Effect \ {k}: (frames'[j] > 0) = (frames[j] > 0)
    BY <1>1, <1>2
  <2>3. wires = [j \in Effect |-> frames[j] > 0] /\ wires' = [j \in Effect |-> frames'[j] > 0]
    BY DEF wires
  <2> QED
    BY <2>1, <2>2, <2>3, Zenon
<1>7. Promise!Transmit(k)
  BY <1>4, <1>5, <1>6 DEF Promise!Transmit, standings, wires
<1> QED
  BY <1>7 DEF Promised, Promise!Next

\* Whatever else the sidecar, its callers and the crashes do.
LEMMA NextKeepsPromise == IInv /\ HeldInv /\ ShownInv /\ [Next]_vars => Promised
<1> SUFFICES ASSUME IInv, HeldInv, ShownInv, [Next]_vars
             PROVE  Promised
  OBVIOUS
<1>1. CASE UNCHANGED vars
  BY <1>1, StandsStill DEF vars, appVars, sidecarVars
<1>2. ASSUME NEW k \in Effect, ServeLate(k) \/ (Dispatching(k) /\ ~WriteFrame(k))
      PROVE  Promised
  BY <1>2, StandsStill
     DEF ServeLate, Serve, Dispatching, Mark, DispatchFails, RecordReceipt, ClearMarker, appVars
<1>3. ASSUME NEW k \in Effect, WriteFrame(k)
      PROVE  Promised
  BY <1>3, FrameKeepsPromise
<1>4. ASSUME NEW k \in Effect,
             \/ Queue(k) \/ Expire(k) \/ Approve(k) \/ Discard(k) \/ Acknowledge(k)
             \/ \E press \in {"approve", "discard", "retry"}: Press(press, k)
             \/ \E ambiguous \in BOOLEAN: Retry(k, ambiguous)
      PROVE  Promised
  BY <1>4, PeopleKeepPromise
<1>5. ASSUME NEW x \in Executor, Execute(x)
      PROVE  Promised
  BY <1>5, ExecutorKeepsPromise
<1>6. ASSUME NEW x \in Executor, GiveUp(x) \/ ServePosted(x)
      PROVE  Promised
  BY <1>6, StandsStill DEF GiveUp, ServePosted, Serve, appVars, sidecarVars
<1>7. CASE CrashApp \/ CrashSidecar
  BY <1>7, StandsStill DEF CrashApp, CrashSidecar, appVars, sidecarVars
<1> QED
  BY <1>1, <1>2, <1>3, <1>4, <1>5, <1>6, <1>7 DEF Next, Dispatching

\* Two drains, people, callbacks, sidecar and crashes together keep what
\* SendPromise says of a single message: on the wire once at most, never held,
\* thrown away or unasked, delivered only if it went, reopened by a person.
THEOREM KeepsPromiseHolds == Spec => KeepsPromise
<1>1. Init => Promise!Init
  <2> SUFFICES ASSUME Init PROVE Promise!Init
    OBVIOUS
  <2>1. \A k \in Effect: row[k].status = "absent" /\ frames[k] = 0
    BY DEF Init, Absent
  <2>2. \A k \in Effect: Standing(k) = "absent"
    BY <2>1, StandingIs DEF Stands, Promise!Standings
  <2>3. \A k \in Effect: (frames[k] > 0) = FALSE
    BY <2>1
  <2> QED
    BY <2>2, <2>3, Zenon DEF Promise!Init
<1>2. IInv /\ HeldInv /\ ShownInv /\ [Next]_vars => [Promise!Next]_<<standings, wires>>
  BY NextKeepsPromise DEF Promised
<1> QED
  BY InitIInv, NextKept, InitShownInv, NextShown, InitHeldInv, NextHeld, <1>1, <1>2, PTL
     DEF Spec, KeepsPromise, Promise!Spec, standings, wires
=============================================================================
