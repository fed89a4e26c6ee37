--------------------------- MODULE WhatsAppOutbox ---------------------------
(***************************************************************************)
(* Outgoing WhatsApp messages: the app's outbox                            *)
(* (src/lib/whatsapp/durable-send.ts) over the sidecar's dispatch          *)
(* authority (sidecars/whatsapp/durable-dispatch.ts).  A queued send is    *)
(* claimed under a lease by the outbox worker or a route, posted to the    *)
(* sidecar over loopback HTTP, written to WhatsApp once, and settled from  *)
(* what the app heard.  Both processes crash; answers are lost; leases     *)
(* expire while their holder still runs.                                   *)
(*                                                                         *)
(* The five effect types differ in payload and timeouts only and are one.  *)
(* Retry delays are left out: a queued or retrying send is always due.     *)
(* Requests bind a key to one content, so binding conflicts do not arise;  *)
(* readable journals of fewer than MAX_DISPATCH_RECORDS and MAX_RECEIPTS   *)
(* keys are assumed, so that no key is evicted (send-receipts.ts:83), and  *)
(* a provider library that logs its dispatch marker.                       *)
(***************************************************************************)
EXTENDS Integers, FiniteSets, Bags

CONSTANTS
    Effect,          \* effect keys, one per outgoing message
    Executor,        \* runs of drainDueWhatsAppEffects and processWhatsAppEffect
    Poller,          \* those the worker's timer starts again and again
    MaxAttempts,     \* MAX_ATTEMPTS
    MaxPresses,      \* bound: presses by people
    MaxFaults        \* bound: crashes of either process, and leases that
                     \* expire under a holder that still runs

ASSUME OutboxAssumption ==
    /\ Poller \subseteq Executor
    /\ MaxAttempts \in Nat \ {0}
    /\ MaxPresses \in Nat
    /\ MaxFaults \in Nat

VARIABLES
    row,       \* [Effect -> the OutboxIntent row]
    shown,     \* [Effect -> Message.deliveryStatus; "delivered" stands for read too]
    noticed,   \* effects queued with a held-send notice
    approved,  \* effects with a hold_approved audit row
    discarded, \* effects with a held_send.discarded audit row
    executor,  \* [Executor -> [pc, key, lease, answer, batch]]
    desk,      \* bag of [press, key, ambiguous]: people's presses between read and write
    late,      \* effects with late, one or many, that nobody waits for any more
    dispatch,  \* [Effect -> the sidecar's in-memory in-flight dispatch]
    journal,   \* [Effect -> is there a DispatchRecord on disk, and no receipt yet;
               \* its two states, dispatching and ambiguous, are answered alike]
    receipts,  \* effects with a receipt on disk
    frames,    \* [Effect -> Nat]: frames written to WhatsApp
    presses, faults

appVars == <<row, shown, noticed, approved, discarded>>
sidecarVars == <<dispatch, journal, receipts, frames>>
bounds == <<presses, faults>>
vars == <<appVars, executor, desk, late, sidecarVars, bounds>>

Statuses == {"absent", "queued", "processing", "retrying", "succeeded", "failed", "dead_letter"}

\* "receipt": a receipt; "again": retryable; "never": refused for good;
\* "unsure": ambiguous; "absent" and "lost" answer a receipt lookup.
Answers == {"none", "receipt", "again", "never", "unsure", "absent", "lost"}

RowType ==
    [status: Statuses, ambiguous: BOOLEAN, hold: BOOLEAN, attempts: Nat,
     lease: Nat, started: BOOLEAN, expired: BOOLEAN]

Absent == [status |-> "absent", ambiguous |-> FALSE, hold |-> FALSE, attempts |-> 0,
           lease |-> 0, started |-> FALSE, expired |-> FALSE]

Idle == [pc |-> "idle", key |-> CHOOSE k \in Effect: TRUE, lease |-> 0,
         answer |-> "none", batch |-> {}]

Init ==
    /\ row = [k \in Effect |-> Absent]
    /\ shown = [k \in Effect |-> "none"]
    /\ noticed = {} /\ approved = {} /\ discarded = {}
    /\ executor = [x \in Executor |-> Idle]
    /\ desk = EmptyBag
    /\ late = {}
    /\ dispatch = [k \in Effect |-> "none"]
    /\ journal = [k \in Effect |-> "none"]
    /\ receipts = {}
    /\ frames = [k \in Effect |-> 0]
    /\ presses = 0 /\ faults = 0

-----------------------------------------------------------------------------
\* The rows' states and the message's delivery status.

Held(r) == r.status = "failed" /\ ~r.ambiguous /\ r.hold
Ambiguous(r) == r.status = "failed" /\ r.ambiguous
Discarded(r) == r.status = "dead_letter" /\ r.hold
Claimable(r) == r.status \in {"queued", "retrying"}

\* The compare-and-set every write of a lease holder carries.
LeaseHeld(k, lease) == row[k].status = "processing" /\ row[k].lease = lease

\* setMessageDeliveryWithoutDowngrade.
Protected(status) ==
    IF status = "sending" THEN {"sent", "delivered"} ELSE {"delivered"}

Show(k, status) ==
    shown' = IF shown[k] \in Protected(status) THEN shown
             ELSE [shown EXCEPT ![k] = status]

\* Lease columns are cleared whenever a holder lets go of the row.
LetGo(k, status) ==
    [row[k] EXCEPT !.status = status, !.lease = 0, !.expired = FALSE]

-----------------------------------------------------------------------------
\* Queueing, and the decisions of people.

\* One command; a repeat of it is a replay.  The send guard may hold it.
Queue(k) ==
    /\ row[k].status = "absent"
    /\ \E held \in BOOLEAN:
        /\ row' = [row EXCEPT ![k].status = IF held THEN "failed" ELSE "queued",
                              ![k].hold = held]
        /\ noticed' = IF held THEN noticed \union {k} ELSE noticed
    /\ shown' = [shown EXCEPT ![k] = "sending"]
    /\ UNCHANGED <<approved, discarded, executor, desk, late, sidecarVars, bounds>>

\* What a press finds possible in the row it reads.
Offers(press, k) ==
    CASE press = "approve" -> Held(row[k])
      [] press = "discard" -> Held(row[k]) /\ k \notin approved
      [] press = "retry"   -> Ambiguous(row[k]) \/ row[k].status = "dead_letter"

Press(press, k) ==
    /\ presses < MaxPresses
    /\ Offers(press, k)
    /\ desk' = desk (+) SetToBag({[press |-> press, key |-> k, ambiguous |-> Ambiguous(row[k])]})
    /\ presses' = presses + 1
    /\ UNCHANGED <<appVars, executor, late, sidecarVars, faults>>

\* The press goes on with what it read.
Takes(press, k, ambiguous) ==
    LET read == [press |-> press, key |-> k, ambiguous |-> ambiguous] IN
    /\ BagIn(read, desk)
    /\ desk' = desk (-) SetToBag({read})

\* Held -> queued and the approval audit row, if the row is still held.
Approve(k) ==
    /\ Takes("approve", k, FALSE)
    /\ IF Held(row[k])
       THEN /\ row' = [row EXCEPT ![k].status = "queued", ![k].hold = FALSE]
            /\ approved' = approved \union {k}
       ELSE UNCHANGED <<row, approved>>
    /\ UNCHANGED <<shown, noticed, discarded, executor, late, sidecarVars, bounds>>

(* mutant: the row is not read again inside the transaction *)
DiscardAsSeen(k) ==
    /\ Takes("discard", k, FALSE)
    /\ row' = [row EXCEPT ![k].status = "dead_letter"]
    /\ discarded' = discarded \union {k}
    /\ UNCHANGED <<shown, noticed, approved, executor, late, sidecarVars, bounds>>

\* Held -> dead_letter and the discard audit row; the hold code stays.
Discard(k) ==
    /\ Takes("discard", k, FALSE)
    /\ IF Held(row[k])
       THEN /\ row' = [row EXCEPT ![k].status = "dead_letter"]
            /\ discarded' = discarded \union {k}
       ELSE UNCHANGED <<row, discarded>>
    /\ UNCHANGED <<shown, noticed, approved, executor, late, sidecarVars, bounds>>

\* retryWhatsAppEffect, by somebody who confirmed the duplicate risk if asked.
(* mutant: the retry does not compare the state it read *)
RetryAnyway(k, ambiguous) == TRUE

StillAsSeen(k, ambiguous) ==
    IF ambiguous THEN Ambiguous(row[k]) ELSE row[k].status = "dead_letter"

Retry(k, ambiguous) ==
    /\ Takes("retry", k, ambiguous)
    /\ IF StillAsSeen(k, ambiguous)
       THEN /\ row' = [row EXCEPT ![k] = [Absent EXCEPT !.status = "queued"]]
            /\ Show(k, "sending")
       ELSE UNCHANGED <<row, shown>>
    /\ UNCHANGED <<noticed, approved, discarded, executor, late, sidecarVars, bounds>>

-----------------------------------------------------------------------------
\* claimIntent: recover every expired lease, then claim one due row.

InState(pc) == {x \in Executor: executor[x].pc = pc}

Become(x, r) == executor' = [executor EXCEPT ![x] = r]

(* mutant: only sends that never started are recovered *)
ExpiredUnstarted ==
    {[key |-> k, lease |-> row[k].lease, started |-> FALSE]:
        k \in {e \in Effect: row[e].expired /\ ~row[e].started}}

ExpiredRows ==
    {[key |-> k, lease |-> row[k].lease, started |-> row[k].started]:
        k \in {e \in Effect: row[e].status = "processing" /\ row[e].expired}}

Begin(x) ==
    /\ executor[x].pc = "idle"
    /\ \E k \in Effect: Claimable(row[k]) \/ row[k].expired
    /\ Become(x, [executor[x] EXCEPT !.pc = "recover", !.batch = ExpiredRows])
    /\ UNCHANGED <<appVars, desk, late, sidecarVars, bounds>>

\* recoverPreEffectLease: nothing was posted, the attempt is not counted.
HandBackUnstarted(x) ==
    /\ executor[x].pc = "recover"
    /\ \E e \in executor[x].batch:
        /\ ~e.started
        /\ row' = IF LeaseHeld(e.key, e.lease) /\ ~row[e.key].started
                  THEN [row EXCEPT ![e.key] = [LetGo(e.key, "retrying") EXCEPT
                                                !.attempts = @ - 1]]
                  ELSE row
        /\ Become(x, [executor[x] EXCEPT !.batch = @ \ {e}])
    /\ UNCHANGED <<shown, noticed, approved, discarded, desk, late, sidecarVars, bounds>>

\* The sealed payload of a started send does not open any more.
PayloadLost(x) ==
    /\ executor[x].pc = "recover"
    /\ \E e \in executor[x].batch:
        /\ e.started
        /\ IF LeaseHeld(e.key, e.lease)
           THEN /\ row' = [row EXCEPT ![e.key] = [LetGo(e.key, "failed") EXCEPT !.ambiguous = TRUE]]
                /\ Show(e.key, "failed")
           ELSE UNCHANGED <<row, shown>>
        /\ Become(x, [executor[x] EXCEPT !.batch = @ \ {e}])
    /\ UNCHANGED <<noticed, approved, discarded, desk, late, sidecarVars, bounds>>

\* receiptLookup: POST /send-receipt, which may fail.
LookedUp(x, found) ==
    /\ executor[x].pc = "recover"
    /\ \E e \in executor[x].batch:
        /\ e.started
        /\ Become(x, [executor[x] EXCEPT !.pc = "settle", !.key = e.key, !.lease = e.lease,
                                         !.answer = found[e.key], !.batch = @ \ {e}])
    /\ UNCHANGED <<appVars, desk, late, sidecarVars, bounds>>

LookUp(x) ==
    LookedUp(x, [k \in Effect |-> IF k \in receipts THEN "receipt" ELSE "absent"])

LookUpFails(x) == LookedUp(x, [k \in Effect |-> "lost"])

\* markSucceeded: the row, the effect row and the message in one transaction.
Succeeded(k) ==
    /\ row' = [row EXCEPT ![k] = LetGo(k, "succeeded")]
    /\ Show(k, "sent")

\* markFailure with an ambiguous error; also a receipt that cannot be committed.
Doubted(k) ==
    /\ row' = [row EXCEPT ![k] = [LetGo(k, "failed") EXCEPT !.ambiguous = TRUE]]
    /\ Show(k, "failed")

\* returnExpiredLeaseToSidecar: one more governed attempt under the same key.
Returned(k) ==
    /\ row' = [row EXCEPT ![k] = [LetGo(k, "retrying") EXCEPT !.started = FALSE]]
    /\ UNCHANGED shown

\* deferReceiptReconciliation only renews lockedAt.
Deferred(k) ==
    /\ row' = [row EXCEPT ![k].expired = FALSE]
    /\ UNCHANGED shown

Settle(x) ==
    LET k == executor[x].key
        found == executor[x].answer IN
    /\ executor[x].pc = "settle"
    /\ IF LeaseHeld(k, executor[x].lease)
       THEN \/ found = "receipt" /\ (Succeeded(k) \/ Doubted(k))
            \/ found = "absent" /\ Returned(k)
            \/ found = "lost" /\ Deferred(k)
       ELSE UNCHANGED <<row, shown>>
    /\ Become(x, [Idle EXCEPT !.pc = "recover", !.batch = executor[x].batch])
    /\ UNCHANGED <<noticed, approved, discarded, desk, late, sidecarVars, bounds>>

Remembered ==
    {executor[x].lease: x \in Executor}
        \union {e.lease: e \in UNION {executor[x].batch: x \in Executor}}

\* randomUUID: a token nobody else remembers.
FreshLease == CHOOSE n \in 1..(Cardinality(Remembered) + 1): n \notin Remembered

Claim(x) ==
    /\ executor[x].pc = "recover"
    /\ executor[x].batch = {}
    /\ \E k \in Effect:
        /\ Claimable(row[k])
        /\ row' = [row EXCEPT ![k] = [Absent EXCEPT !.status = "processing",
                                                    !.attempts = row[k].attempts + 1,
                                                    !.lease = FreshLease]]
        /\ Become(x, [Idle EXCEPT !.pc = "claimed", !.key = k, !.lease = FreshLease])
    /\ UNCHANGED <<shown, noticed, approved, discarded, desk, late, sidecarVars, bounds>>

NothingDue(x) ==
    /\ executor[x].pc = "recover"
    /\ executor[x].batch = {}
    /\ \A k \in Effect: ~Claimable(row[k])
    /\ Become(x, Idle)
    /\ UNCHANGED <<appVars, desk, late, sidecarVars, bounds>>

-----------------------------------------------------------------------------
\* executeClaimed.

\* markPreEffectFailure: the payload or the media does not open, or the start
\* cannot be written; it throws when the lease is gone.
PreEffectFailure(x) ==
    LET k == executor[x].key IN
    /\ executor[x].pc = "claimed"
    /\ IF LeaseHeld(k, executor[x].lease)
       THEN /\ row' = [row EXCEPT ![k] = [LetGo(k, "dead_letter") EXCEPT !.started = FALSE]]
            /\ Show(k, "failed")
       ELSE UNCHANGED <<row, shown>>
    /\ Become(x, Idle)
    /\ UNCHANGED <<noticed, approved, discarded, desk, late, sidecarVars, bounds>>

\* markEffectStarted renews the lease, then the request is posted.
MayStart(k, lease) == LeaseHeld(k, lease)

Start(x) ==
    LET k == executor[x].key IN
    /\ executor[x].pc = "claimed"
    /\ MayStart(k, executor[x].lease)
    /\ row' = [row EXCEPT ![k].started = TRUE, ![k].expired = FALSE]
    /\ Become(x, [executor[x] EXCEPT !.pc = "posted"])
    /\ UNCHANGED <<shown, noticed, approved, discarded, desk, late, sidecarVars, bounds>>

Answered(r, answer) == [r EXCEPT !.pc = "answered", !.answer = answer]

\* The client's timeout, a dropped connection, or the sidecar's response
\* deadline; a request nobody waits for may still be served.
GiveUp(x) ==
    /\ executor[x].pc \in {"posted", "joined"}
    /\ Become(x, Answered(executor[x], "again"))
    /\ \/ executor[x].pc = "posted" /\ late' = late \union {executor[x].key}
       \/ UNCHANGED late
    /\ UNCHANGED <<appVars, desk, sidecarVars, bounds>>

\* markFailure.
Exhausted(attempts) == attempts >= MaxAttempts

Failed(k, answer) ==
    \/ answer = "unsure" /\ Doubted(k)
    \/ /\ answer = "again" /\ ~Exhausted(row[k].attempts)
       /\ row' = [row EXCEPT ![k] = [LetGo(k, "retrying") EXCEPT !.started = FALSE]]
       /\ UNCHANGED shown
    \/ /\ answer = "never" \/ (answer = "again" /\ Exhausted(row[k].attempts))
       /\ row' = [row EXCEPT ![k] = LetGo(k, "dead_letter")]
       /\ Show(k, "failed")

Finish(x) ==
    LET k == executor[x].key
        answer == executor[x].answer IN
    /\ executor[x].pc = "answered"
    /\ IF LeaseHeld(k, executor[x].lease)
       THEN \/ answer = "receipt" /\ (Succeeded(k) \/ Doubted(k))
            \/ Failed(k, answer)
       ELSE UNCHANGED <<row, shown>>
    /\ Become(x, Idle)
    /\ UNCHANGED <<noticed, approved, discarded, desk, late, sidecarVars, bounds>>

-----------------------------------------------------------------------------
\* The sidecar: POST /send and the durable dispatcher.

\* The sidecar answers whoever joined the dispatch of an effect.
Joined(k) == {x \in InState("joined"): executor[x].key = k}

Tell(listeners, answer) ==
    executor' = [x \in Executor |->
                    IF x \in listeners THEN Answered(executor[x], answer) ELSE executor[x]]

\* findReceipt comes before the connection check and before any dispatch.
Replayed(k) == k \in receipts

(* mutant: a marker on disk does not stop a dispatch *)
DispatchAgain(k) == dispatch[k] = "none"

\* An effect whose marker is on disk is never dispatched again.
MayDispatch(k) == dispatch[k] = "none" /\ journal[k] = "none"

\* One request is served: the executors in "from" wait for it, or nobody.
Serve(k, from) ==
    /\ IF Replayed(k)
       THEN Tell(from, "receipt") /\ UNCHANGED dispatch
       ELSE \* Not connected, or another account is paired.
            \/ Tell(from, "again") /\ UNCHANGED dispatch
            \/ Tell(from, "never") /\ UNCHANGED dispatch
            \/ /\ dispatch[k] = "none" /\ ~MayDispatch(k)
               /\ Tell(from, "unsure") /\ UNCHANGED dispatch
            \/ \* Join the dispatch in flight, or begin it.
               /\ dispatch[k] # "none" \/ MayDispatch(k)
               /\ dispatch' = IF MayDispatch(k) THEN [dispatch EXCEPT ![k] = "preparing"]
                              ELSE dispatch
               /\ executor' = [x \in Executor |->
                                 IF x \in from THEN [executor[x] EXCEPT !.pc = "joined"]
                                 ELSE executor[x]]
    /\ UNCHANGED <<appVars, desk, journal, receipts, frames, bounds>>

ServePosted(x) ==
    /\ executor[x].pc = "posted"
    /\ Serve(executor[x].key, {x})
    /\ UNCHANGED late

ServeLate(k) ==
    /\ k \in late
    /\ Serve(k, {})
    /\ late' \in {late, late \ {k}}

\* The marker is on disk before control returns to the provider library.
Mark(k) ==
    /\ dispatch[k] = "preparing"
    /\ dispatch' = [dispatch EXCEPT ![k] = "marked"]
    /\ journal' = [journal EXCEPT ![k] = "kept"]
    /\ UNCHANGED <<appVars, executor, desk, late, receipts, frames, bounds>>

WriteFrame(k) ==
    /\ dispatch[k] = "marked"
    /\ dispatch' = [dispatch EXCEPT ![k] = "written"]
    /\ frames' = [frames EXCEPT ![k] = @ + 1]
    /\ UNCHANGED <<appVars, executor, desk, late, journal, receipts, bounds>>

\* The call fails: provably before the write, or nobody can tell; or a write to
\* the receipts or the journal fails, clear() after the receipt included, and the
\* marker stays.
DispatchFails(k) ==
    /\ \/ /\ dispatch[k] \in {"preparing", "marked"}
          /\ journal' = [journal EXCEPT ![k] = "none"]
          /\ Tell(Joined(k), "again")
       \/ /\ dispatch[k] \in {"marked", "written", "receipted"}
          /\ UNCHANGED journal
          /\ Tell(Joined(k), "unsure")
    /\ dispatch' = [dispatch EXCEPT ![k] = "none"]
    /\ UNCHANGED <<appVars, desk, late, receipts, frames, bounds>>

\* The marker that clear() has yet to remove is as good as gone: findReceipt comes
\* before it.
RecordReceipt(k) ==
    /\ dispatch[k] = "written"
    /\ dispatch' = [dispatch EXCEPT ![k] = "receipted"]
    /\ receipts' = receipts \union {k}
    /\ journal' = [journal EXCEPT ![k] = "none"]
    /\ UNCHANGED <<appVars, executor, desk, late, frames, bounds>>

ClearMarker(k) ==
    /\ dispatch[k] = "receipted"
    /\ dispatch' = [dispatch EXCEPT ![k] = "none"]
    /\ Tell(Joined(k), "receipt")
    /\ UNCHANGED <<appVars, desk, late, journal, receipts, frames, bounds>>

\* allowedPriorDeliveryStates: what a callback may overwrite.
(* mutant: a failure callback overwrites a sent message *)
AnyPrior == [sent |-> {"sending"}, delivered |-> {"sending", "sent"},
             failed |-> {"sending", "sent"}]

Prior == [sent |-> {"sending"}, delivered |-> {"sending", "sent"}, failed |-> {"sending"}]

\* WhatsApp's delivery callback, matched by the deterministic message id.
Acknowledge(k) ==
    /\ frames[k] > 0
    /\ \E status \in DOMAIN Prior:
        /\ shown[k] \in Prior[status]
        /\ shown' = [shown EXCEPT ![k] = status]
    /\ UNCHANGED <<row, noticed, approved, discarded, executor, desk, late, sidecarVars, bounds>>

-----------------------------------------------------------------------------
\* Faults.

HolderAlive(k) ==
    \E x \in Executor: /\ executor[x].pc \in {"claimed", "posted", "joined", "answered"}
                       /\ executor[x].key = k /\ executor[x].lease = row[k].lease

Expire(k) ==
    /\ row[k].status = "processing" /\ ~row[k].expired
    /\ HolderAlive(k) => faults < MaxFaults
    /\ row' = [row EXCEPT ![k].expired = TRUE]
    /\ faults' = IF HolderAlive(k) THEN faults + 1 ELSE faults
    /\ UNCHANGED <<shown, noticed, approved, discarded, executor, desk, late, sidecarVars, presses>>

CrashApp ==
    /\ faults < MaxFaults
    /\ executor' = [x \in Executor |-> Idle]
    /\ desk' = EmptyBag
    /\ late' \in {late, late \union {executor[x].key: x \in InState("posted")}}
    /\ faults' = faults + 1
    /\ UNCHANGED <<appVars, sidecarVars, presses>>

CrashSidecar ==
    /\ faults < MaxFaults
    /\ dispatch' = [k \in Effect |-> "none"]
    /\ late' = {}
    /\ Tell(InState("posted") \union InState("joined"), "again")
    /\ faults' = faults + 1
    /\ UNCHANGED <<appVars, desk, journal, receipts, frames, presses>>

-----------------------------------------------------------------------------
Execute(x) ==
    \/ Begin(x) \/ HandBackUnstarted(x) \/ PayloadLost(x) \/ LookUp(x)
    \/ LookUpFails(x) \/ Settle(x)
    \/ Claim(x) \/ NothingDue(x) \/ PreEffectFailure(x) \/ Start(x) \/ Finish(x)

Dispatching(k) ==
    \/ Mark(k) \/ WriteFrame(k) \/ DispatchFails(k) \/ RecordReceipt(k) \/ ClearMarker(k)

Next ==
    \/ \E k \in Effect: Queue(k) \/ Acknowledge(k) \/ Expire(k) \/ ServeLate(k) \/ Dispatching(k)
    \/ \E k \in Effect: \/ \E press \in {"approve", "discard", "retry"}: Press(press, k)
                       \/ Approve(k) \/ Discard(k)
                       \/ \E ambiguous \in BOOLEAN: Retry(k, ambiguous)
    \/ \E x \in Executor: Execute(x) \/ GiveUp(x) \/ ServePosted(x)
    \/ CrashApp \/ CrashSidecar

Spec == Init /\ [][Next]_vars

\* The worker's timer starts its drain again and again and every step of a
\* drain ends: HTTP calls time out (sidecar-client.ts), an orphaned lease
\* expires, and a receipt lookup that is tried for ever is answered.  Nothing
\* is assumed of the sidecar's dispatch, of WhatsApp or of people.
Progress(x) ==
    \/ Begin(x) \/ HandBackUnstarted(x) \/ Settle(x) \/ Claim(x) \/ NothingDue(x)
    \/ Start(x) \/ PreEffectFailure(x) \/ GiveUp(x) \/ Finish(x) \/ LookUpFails(x)

Fairness ==
    /\ \A x \in Poller: WF_vars(Progress(x))
    /\ \A x \in Executor: SF_vars(LookUp(x)) /\ WF_vars(executor[x].pc # "idle" /\ Progress(x))
    /\ \A k \in Effect: WF_vars(~HolderAlive(k) /\ Expire(k))

FairSpec == Spec /\ Fairness

-----------------------------------------------------------------------------
\* Type correctness of the outbox, the people's presses and the sidecar.
TypeOK ==
    /\ row \in [Effect -> RowType]
    /\ shown \in [Effect -> {"none", "sending", "sent", "delivered", "failed"}]
    /\ noticed \subseteq Effect /\ approved \subseteq Effect /\ discarded \subseteq Effect
    /\ executor \in [Executor ->
          [pc: {"idle", "recover", "settle", "claimed", "posted", "joined", "answered"},
           key: Effect, lease: Nat, answer: Answers,
           batch: SUBSET [key: Effect, lease: Nat, started: BOOLEAN]]]
    /\ IsABag(desk)
    /\ BagToSet(desk) \subseteq [press: {"approve", "discard", "retry"},
                                key: Effect, ambiguous: BOOLEAN]
    /\ late \subseteq Effect
    /\ dispatch \in [Effect -> {"none", "preparing", "marked", "written", "receipted"}]
    /\ journal \in [Effect -> {"none", "kept"}]
    /\ receipts \subseteq Effect
    /\ frames \in [Effect -> Nat]
    /\ presses \in Nat /\ faults \in Nat

\* Whatever is lost, retried, recovered or crashes on either side, and however
\* often a person confirms the duplicate risk, one message is written to
\* WhatsApp at most once (durable-dispatch.ts: execute, runDispatch).
AtMostOnce == \A k \in Effect: frames[k] <= 1

\* A send the outbox calls succeeded is shown as sent, whatever callbacks come
\* early or late; what is shown as sent or delivered was on the wire
\* (markSucceeded, setMessageDeliveryWithoutDowngrade, message-status).
SuccessIsShown ==
    \A k \in Effect:
        /\ row[k].status = "succeeded" => shown[k] \in {"sent", "delivered"}
        /\ shown[k] \in {"sent", "delivered"} => frames[k] > 0

\* Approval and discard race: one wins, and of a send still on hold or thrown
\* away neither the outbox nor the sidecar has a trace, unless a retry was
\* pressed on the thrown one (held-send.ts, releaseHeldRow, discardHeldRow,
\* retryWhatsAppEffect).
HeldSendsAreUntouched ==
    \A k \in noticed:
        \/ k \in approved /\ k \notin discarded
        \/ k \in discarded \ approved /\ ~row[k].hold
        \/ /\ k \notin approved /\ row[k].hold
           /\ k \in discarded <=> row[k].status = "dead_letter"
           /\ row[k].attempts = 0 /\ dispatch[k] = "none" /\ journal[k] = "none"
           /\ k \notin receipts \union late /\ frames[k] = 0

\* Two drains and two people over outbox, sidecar and journals keep what
\* SendPromise says of a single message.
Standing(k) ==
    CASE row[k].status = "absent"    -> "absent"
      [] Held(row[k])                -> "held"
      [] Discarded(row[k])           -> "thrown"
      [] row[k].status = "succeeded" -> "delivered"
      [] Ambiguous(row[k])           -> "doubt"
      [] row[k].status = "dead_letter" /\ ~row[k].hold -> "refused"
      [] OTHER                       -> "due"

Promise == INSTANCE SendPromise WITH
    standing <- [k \in Effect |-> Standing(k)],
    wire <- [k \in Effect |-> frames[k] > 0]

KeepsPromise == Promise!Spec

\* Every send that is queued or released reaches an outcome the inbox shows
\* (sent, ambiguous or failed), through crashes, lost answers and expired
\* leases (drainDueWhatsAppEffects, recoverExpiredLeases).
SendResolves ==
    \A k \in Effect:
        row[k].status \in {"queued", "processing", "retrying"} ~>
            row[k].status \in {"succeeded", "failed", "dead_letter"}

=============================================================================
