# SahelFlow: a TLA+ verification project

SahelFlow is a Windows application for Algerian online sellers who are paid in
cash on delivery. It is local-first: one Tauri shell, one Next.js process with
its background workers, one SQLite database per shop, a WhatsApp sidecar
process, and a relay for the seller's phones and public storefront. The
business truth (orders, stock, parcels, cash, messages) is in SQLite; everything
outside is reached through durable effects: rows of an outbox that workers
lease, send and settle.

This directory models that core: the command kernel through which all truth is
written, the courier bookings and the WhatsApp messages that leave the process,
the messages that come in, the life of an order from the seller's decision to
the books with the carrier's reports, the settlement of the cash, and the
automations that act for the seller. The modules are checked by TLC on small
instances, and the properties that matter
most are proved by TLAPS for every instance.

Paths below are relative to the repository (`src/lib/...`).

## 1. Inventory

### Business command kernel (`src/lib/business-truth`, `src/lib/db-pool.ts`)
- State: `BusinessCommand` rows by idempotency key, `BusinessAggregateVersion`,
  domain events, inventory reservations and movements, outbox intents, and, in
  memory, one promise chain per key and client object.
- Operations: `executeBusinessCommand`: wait behind the callers of the same key;
  in one transaction look the key up, replay a stored result or claim the
  aggregate version, run the handler, persist its outcome, commit.
- Interactions: every canonical module calls it. Route handlers and workers are
  bundled separately and hold different client objects, so the chain of one
  layer does not cover the other; the pool has `connection_limit=1`.
- Hard: concurrency of callers, a retry after a lost answer, a rollback half
  way, a crash between claim and commit, a chain link never released.
- Correct when: versions form a chain, facts are written once per key, an answer
  is the stored one and only for its author and content, everybody is answered.

### Courier booking effects (`src/lib/delivery`)
- State: `OutboxIntent` rows (status, outcome, attempts, lease token, lease
  time, `effectStartedAt`), the `Delivery` row, the order's delivery columns.
- Operations: `queueCanonicalCourierBooking`, `drainDueCourierBookings` (recover
  expired leases, claim, open the payload, mark started, call the provider,
  record a receipt, a known failure or a doubt), `restoreTerminalKnownFailures`,
  `reconcileCanonicalCourierBooking` (the seller says what happened).
- Interactions: drained by a 10 s worker and by the order route, in two layers;
  the provider adapters (`src/lib/integrations/delivery`) classify the answers.
- Hard: lease expiry while a call runs, late answers, lost answers, crashes at
  each step, payloads sealed with a key that changed, a bounded restore batch.
- Correct when: no parcel is created twice unless the seller attested wrongly,
  none is forgotten, an order is free again only when no effect is at large.

### Order lifecycle (`src/lib/orders`, ingest and pull in `src/lib/delivery`, sweep in `src/lib/integrations/scheduled-reconcile.ts`)
- State: the order projection (status, fulfillment, delivery, inventory, cod,
  return), its version, `InventoryReservation`, `Product.stock`, the inventory
  movements, the return case, the receivable, the carrier events recorded.
- Operations: confirm, reject (`manual-confirmation.ts`); pack, ship, deliver
  (`canonical-fulfillment.ts`); cancel, delivery failed or refused, return in
  transit, receive, inspect (`canonical-order-recovery.ts`); booking outcome;
  tracking pull (`synchronizeCanonicalCourierTracking`) from worker and button.
- Interactions: each is a kernel command guarded by `Order.version`; a pull is
  many commands with one network call before them.
- Hard: reports late, repeated and contradictory; two pulls that saw different
  histories; a pull that stops half way; the seller acting in between; two
  confirmations for the last units.
- Correct when: stock, reservation, movement and case tell one story, stock is
  conserved, cash is owed once for exactly the delivered orders, delivery never
  rolls back, and what the carrier shows reaches the order. (The code keeps the
  last two with exceptions, which the properties name: section 5.)

### WhatsApp outbound effects (`src/lib/whatsapp/durable-send.ts`, `sidecars/whatsapp/durable-dispatch.ts`)
- State: `OutboxIntent` rows of the send effects (status, outcome, hold code,
  attempts, lease, `effectStartedAt`), `Message.deliveryStatus`, audit rows of
  approvals and discards; in the sidecar the dispatches in flight, the journal
  of dispatch records and the receipts on disk.
- Operations: queue (held or not), approve, discard, retry, claim, pre-effect
  checks, start, post to the sidecar, settle from the answer, recover an expired
  lease by asking for the receipt, delivery callbacks; in the sidecar: join a
  dispatch in flight, replay a receipt, refuse an interrupted key, mark, write
  to WhatsApp, store the receipt.
- Interactions: loopback HTTP with time-outs between two processes that crash
  separately; the drain runs from a worker and from routes.
- Hard: an answer that comes after the lease, a request served after its caller
  left, a marker without a receipt, a decision of a person against a stale view.
- Correct when: a message is written at most once, is shown sent only if it
  went, a held one waits for a person, and one that was asked for is settled.

### WhatsApp inbound messages (`sidecars/whatsapp/inbound-spool.ts`, `src/lib/whatsapp/inbound-*.ts`, `chat-delete.ts`)
- State: spool files with their retry time, the circuit breaker; ingress rows
  (status, attempts, lease), the inbox.
- Operations: spool, offer (one request at a time), acknowledge, remove,
  postpone; store the ingress row, claim, process in one command, fail or
  dead-letter; the operator's retry; deletion of the chat.
- Hard: a crash between any two of spool, row, inbox and removal; a lease lost
  alive; a record the app always refuses ahead of good ones; a deletion during
  processing.
- Correct when: what was heard is kept until it is in the inbox, once; what was
  deleted does not return; no record keeps another from getting through.

### Automations (`src/lib/automations`)
- State: trigger intents, runs by trigger, automation and definition hash, step
  rows (status, attempts, lease, error code), messages awaited by send steps.
- Operations: drain triggers (one run for every active automation), take a run's
  next step, settle it by its failure policy, poll a message, close the run;
  the seller's retry of a failed run.
- Hard: crash between a step's lease and its effect, an edit between attempts, a
  status another hand changes, a message in doubt, a retry after side effects.
- Correct when: no event goes unanswered, an effect happens once and only when
  the steps before it allow it, every run reaches a verdict.

### Cash on delivery accounting (`src/lib/accounting/canonical-cod.ts`)
- State: the order's cod state and flags, the collection with its corrections,
  remittance lines with theirs and with a later match, the cost movements.
- Operations: record and correct a collection; settle lines for an order or for
  none; correct a line; match a line to an order. Each is one kernel command.
- Hard: any order of partial, final, corrected and late-matched lines.
- Correct when: the stored state is the one the facts derive, and every fee and
  adjustment is booked once.

### Surveyed, not modelled
| Component | State | What is hard | What makes it correct |
|---|---|---|---|
| Connected platform (`remote-command-executor.ts`) | relay cursor, command results, approvals of devices | crash between execution and completion, expiry, one bad command | each command executed once and answered with what happened |
| AI actions (`ai/actions/service.ts`) | proposal, approval, execution rows | approve twice, crash between command and mark, stale target | at most one command per proposal, and only an approved one |
| Customer returns and refunds | return cases after delivery, refunds | refund limit over several returns and reversals | never more refunded than paid |
| Commerce and sheet ingress (`integrations/ecommerce`) | webhook queue, watermarks | failing item holds the watermark; crash between commit and trigger | each provider order once; triggers follow |
| Storefront holds and receipts | reservations made outside | lease of stock by the relay, late receipts | no unit promised twice |
| Native shell (`src-tauri`) | journals of migrations and shop mutations | crash between journal steps | a shop is there or not, never half |
| Backups, conversion events | schedule state, event ledger | clock steps, leases | at least one good copy; at least one send |

Sealing and keys, access decisions, the licence gate, the read models, the
studio and the user interface are callers or conversions and are listed in
`PROJECT.json` with the reason each is left out. `PROJECT.json` also lists the
hazards, each at the line where it bites, with the properties that watch it.

## 2. Plan

| Step | Modules | State |
|---|---|---|
| 1 | `CommandKernel`, its abstract specification `ExactlyOnce`, `CommandKernelProofs` | checked; every invariant and the refinement proved |
| 2 | `CourierBooking`, its abstract specification `CourierPromise`, `CourierBookingProofs` | checked; every invariant and the refinement proved |
| 3 | `OrderLifecycle`, `OrderLifecycleProofs` | checked; every invariant and action property proved |
| 4 | `WhatsAppOutbox` (app outbox composed with the sidecar's dispatcher), its abstract specification `SendPromise`, `WhatsAppOutboxProofs` | checked; the three invariants and the refinement proved |
| 5 | `AutomationRun`, `AutomationRunProofs` | checked; both safety properties proved |
| 6 | `CodSettlement`, `CodSettlementProofs` | checked; type and both invariants proved |
| 7 | `InboundMessages` (spool, breaker, ingress), its abstract specification `InboundPromise`, `InboundMessagesProofs` | checked; the refinement proved |
| 8 | `RemoteCommands`, `AiAction`, `CustomerReturn`, `CommerceIngress`, `CourierSweep`, `ShopLifecycle` | candidates |

`FiniteSums` holds the facts about finite sets and sums over them that steps 3, 5
and 6 need. Every safety property of a passing run is a theorem. Worth proving next:
type correctness of `WhatsAppOutbox` and of the spool of `InboundMessages`;
that a parcel in doubt stays reconcilable while its payload opens; what the
carrier's course and the recorded events have to do with each other in
`OrderLifecycle`.

## 3. Modules and the code

A definition named `XUnchecked`, `XTwice` and the like, placed before the `X`
it resembles and commented "mutant", is a plausible bug of `X`; it is used only
to show that a property notices it.

### CommandKernel
One action per step a concurrent caller can be stopped at: `Submit` joins the
chain, `Replay`, `VersionConflict` and `Claim` are the three ways a transaction
begins once it holds the one connection, `Persist`, `Commit`, `RollBack`,
`WaitedTooLong` (the 10 s wait for the connection), `Reply`, `Retry`, `Crash`.
`staged` holds the writes of the open transaction; only `Commit` copies it
into the store. `MayReplay` is `hasDefaultBusinessReplayAuthority`. A payload is
its content (aggregate, expected version, reservation operation): the request
hash is equality of contents. `ExactlyOnce` promises: a key is executed at most
once and its result never changes.

### CourierBooking
`intent` is the outbox row, `delivery` and `order` the columns the effects
touch, `drainer` the stack frame of a drain, `parcels` the provider's side.
`QueueBooking`, `ConfirmCreated`, `ConfirmNotCreated`, `Cancel`, `PickedUp` are
the seller's and the carrier's steps; `BeginDrain`, `Sweep`, `DeadLetter`,
`EndSweep`, `Recover`, `Claim`, `Open`, `Start`, `Send`, `Receipt`, `Rejection`,
`Doubt`, `EndLoop`, `Restore`, `EndDrain` are the awaits of a drain in order;
`LeaseExpires`, `PayloadLost`, `Crash` the environment. Every write after a
claim is guarded by the lease token, as in the code; a token that no drain holds
any more is reused in the model, because fresh tokens are interchangeable.
`misjudged` is a history variable: the rows whose outcome the seller attested
otherwise than the provider has it. `CourierPromise` promises, per order, one
request at a time: free, asked, in doubt, refused, booked, gone.
The rows of an order are numbered by how many it has; the batch of a restore is
a set, taken oldest first (`Older`), because the code's list is read once and
each row of it is dealt with once.

### OrderLifecycle
One action per kernel command, since each is one transaction guarded by
`Order.version`. The seller's commands act on the version they show; a pull
(`Choose`, `ReadPosition`, `Fetch`, `Look`, `Tell`, `Replay`, `Abort`,
`EndSync`) carries the version it read before the network call, through several
commands, so that the seller, the other pull and the booking can come between
any two of them. `Tell` is one report: an ingest (`Track`), a failure, a turn
back, or nothing. A report already recorded is replayed if the pull's version
and state hash to the same request, and is a conflict otherwise, which is the
kernel's behaviour. `course` is what the carrier will say, `visible` what its
history shows so far, in any order. Booking is reduced to its outcomes, one
product without variants, one line per order.

### WhatsAppOutbox
`row` is the outbox row, `shown` the message's delivery status, `executor` the
stack frame of a drain or of a route that processes one effect, `desk` the bag
of presses people made on what they saw (a second tab presses what the first
has already decided). `dispatch`, `journal`, `receipts` and `frames` are the
sidecar: the dispatch it runs, the record on disk, the receipt on disk, and how
often the message was written to WhatsApp. `Serve` and `Dispatching` are the
sidecar's steps, `ServePosted` answers the request an executor waits for,
`ServeLate` one whose caller has left. Every write of a lease holder is guarded
by `LeaseHeld`. An executor may sit at any await while its lease expires
(`Expire`), so that the recovery of one drain meets the late answer of another.
`SendPromise` promises one transmission per message, none while it is held or
after it was thrown away, and that only a person reopens a closed one. A
receipt on disk, not the row's success, is what makes the message delivered
there: the row catches up.

### AutomationRun
The keys are event, automation and definition hash, as `runKey` is. `Edit` is
the seller saving a definition, `GiveUpTrigger`, `ClaimTrigger`, `Materialize`, `TriggerDone` and
`TriggerFails` the trigger drain; the run drain takes one step per transaction
and the worker's program counter names what it is about to write. `message` is
the outbox seen from a send step, `done` counts the effects on the world, and
`order` says whether the order still has the status a re-check expects.

### CodSettlement
One action per command. `DeriveCodState`, `SettledGross`,
`SettlementDiscrepancy` and `EffectiveCollected` are the code's formulas;
each command computes its projection incrementally as the code does, and
`StoredStateIsDerived` compares that with the formulas over the rows.

### InboundMessages
`spool`, `file`, `breaker`, `pass` and `post` are the sidecar's flush loop:
`rest` counts whether a postponed file waits through this pass or the next.
`handler` is a request in the route or a drain of the worker. `copies` counts
the message in the inbox, `applied` the kernel commands that committed.
`InboundPromise` promises that a heard message is kept until shown once.

## 4. Runs

| Run | Instance | Shows |
|---|---|---|
| `kernel` | 2 callers, 3 keys, 2 aggregates, 1 reservation, 4 principals, 3 attempts, 1 crash (59,129 states) | type, `VersionChain`, `ClaimedWhatWasRead`, `FactsOncePerKey`, `ReservationHistory`, `AnswerIsTheStoredOne`, `CommittedIsForever`; implements `ExactlyOnce`; every call is answered |
| `courier` | 1 order, 2 bookings, 2 drains, 2 expiries, 1 lost payload, 1 crash (376,432 states) | `NoDuplicateParcel`, `ReleasedIsQuiet`, `NoForgottenParcel`, `DeliveryMirrorsIntent`, `OneRecorder`; implements `CourierPromise` |
| `courier_live` | 1 order, the worker's drain, 1 expiry, 1 crash (4,171 states) | every booking reaches an outcome; a rejection gives the order back |
| `order_goods` | 2 orders of 1 and 2 units, 2 units on hand, 1 worker (1,306,324 states) | `StockConserved`, `LedgerContinuous`, `CancelledStaysHome`, `NoStockBeforeInspection` |
| `order_tracking` | 1 order, worker and button, four histories with late, repeated and contradictory reports (1,312,714 states) | `GoodsTellOneStory`, `CashFollowsDelivery`, `DeliveryNeverRollsBack` |
| `order_live` | 1 order, worker, 37 histories: any two scans on the way and then a failure or a return, ends with later scans, deliveries of parcels seen on the road (460,046 states) | a shown delivery reaches the cash position; a shown return, and a failure or refusal the recovery commands accept, opens a case (`ReturnReachesTheOrder`, limits below) |
| `whatsapp` | 1 message, the worker's drain and a route, 2 presses, 1 crash or lease lost alive, 2 attempts (297,898 states) | `AtMostOnce`, `SuccessIsShown`, `HeldSendsAreUntouched`; implements `SendPromise`; every send is settled |
| `automation` | 1 event, 1 automation edited between two definitions, 1 retry, 2 troubles (54,986 states) | `EventsAreAnswered`, `EffectsAreDue`, every run ends |
| `cod` | 2 orders, 2 lines, 2 providers, 6 commands, symmetric (549,479 states) | `StoredStateIsDerived`, `CostsReachTheBooks` |
| `inbound` | 1 good message and 1 the app refuses, a request and the worker's drain, 2 faults, 2 out of repeats, retries and deletions (480,499 states) | implements `InboundPromise`; a good message leaves the spool |
| `courier_swallowing`, `order_desk` | one adapter behaviour, one carrier history | each violates one property: see the findings |

### Bounds
- Two callers of one key are enough for a race on the connection, a wait in the
  chain and a replay; a third only lengthens the queue (the chain is proved for
  any number). Three attempts allow lost answer, rollback and success in a row.
- Two generations of a booking are what a duplicate needs: the old parcel and
  the new one. Two attempts (five in the code) reach retry and exhaustion; two
  expiries let a lease be lost twice, or lost and then doubted. `RestoreBatch`
  is 20 as in the code.
- Two orders that ask for three of two units make the stock the contested
  resource in `order_goods`; pulls share nothing between orders but the
  worker, so the tracking runs have one. `ReturnReachesTheOrder` speaks of the
  ends the recovery commands accept (`EndsOnTheRoad`): a return from anywhere on
  the road, a failure or refusal only in transit, not at a hub, or out for
  delivery (`canonical-order-recovery.ts:758`, `:774`), in a history without a
  delivery and without "pending". The run's histories hold the other failures
  too, which open no case (section 5). `RejectBelow` stops the loop of booking
  and rejection, which brings the order back to the same columns.
- `whatsapp`: keys do not interact except through the drain's batch, so one
  message is checked; what two actors can do to it is a drain and a route, a
  press made on a stale view and a second one, and one crash or lost lease on
  top of the answers and time-outs, which are free. Two attempts (six in the
  code) reach retry and exhaustion.
- `automation`: runs share nothing but the worker, so one event suffices; the
  edit gives it two runs. The first definition has a guarded change and a
  message whose failure is tolerated, the second a wait.
- `cod`: six commands are enough for collection, a partial line, a late match,
  and corrections of each on one order while the other takes part in a match.
- `inbound`: a refused record ahead of a good one is the order that can starve
  it. The breaker opens after two failures (three in the code) and the budget is
  two attempts. A fault is a lost answer, a failed attempt or removal, a lease
  lost alive or a crash. Two turns let a message be sent again after its chat was
  deleted, and a chat be deleted with its message still on the way.
- The type invariants of these four modules are kept out of the runs: those of
  `AutomationRun` and `CodSettlement` are theorems, the other two are checked by
  TLC with each change.
- `CHECK_DEADLOCK FALSE` everywhere: answered callers, closed orders and
  exhausted bounds are ends, not deadlocks.

### Fairness
`kernel`: every caller in flight takes its next step (the event loop), and so
does the database; nobody is obliged to submit, retry or crash. `courier_live`:
a drain under way continues, the polling worker starts another, and time passes
for leases. It assumes that the licence lets the worker run. `order_live`: the worker's timer runs
while the app is open and its pulls end, because the adapters bound their
requests; the seller, the button and the carrier are free to do nothing.
`whatsapp`: the worker's timer starts its drain again, a started drain or route
goes on because its HTTP calls time out, an orphaned lease expires, and a receipt
lookup that is asked again and again is answered at last (strong fairness of
`LookUp`: the sidecar is restarted by the shell). Nothing is assumed of the
dispatch, of WhatsApp or of people. `automation`: the one worker goes on; it
takes at most ten due runs per tick, oldest first, so the assumption covers
shops where fewer runs wait than a tick serves (section 7). `inbound`: the flush
timer, the end of cool-downs and back-offs, the expiry of leases whose holder is
gone, and requests and drains that run.

## 5. Findings

Two runs that TLC finds violated; `PROJECT.json` quotes the text the code
disagrees with.
1. `courier_swallowing`: an adapter answers `success: false` to a create request
   that timed out; the drain repeats it and a second parcel exists.
2. `order_desk`: a parcel whose first progress report is its delivery is refused
   at every pull: the pickup's consumption is not written yet when the delivery looks.

Met while modelling and not kept as runs; each can be had again by a small
change of a configuration, the named property in place of the configured ones
(`DoubtIsReconcilable`, `OpenReturnIsReceivable` and `OpenReturnIsRecorded` as an
invariant):
- A full restore batch. `MCCourierLive.cfg` with two orders, `RestoreBatch = 1`,
  `MaxAttempts = 1`, `MaxGenerations = 1` and neither expiry nor crash violates
  `RejectionReleases`: restored rejections fill the batch of 20 for good and a later
  rejected order is never given back.
- An unreadable payload. `MCCourierBooking.cfg` with `MaxGenerations = 1`,
  `MaxExpiries = 1`, `MaxUnreadable = 1`, `Poller = {}` violates
  `DoubtIsReconcilable`: a started lease that expires after the sweep is in doubt
  and its delivery cannot be reconciled.
- A scan after a refusal. `MCOrderDesk.cfg` with `Course <- Refused`,
  `SPECIFICATION Spec` violates `OpenReturnIsReceivable`: the delivery state goes
  back and the returned goods can never be received. It is the second exception
  of `DeliveryNeverRollsBack`.
- A failure that is never heard. `MCOrderDesk.cfg` with `Course <- Early`
  (picked_up, failed: EcoTrack's annule after the pickup, `ecotrack-status.ts:53`)
  or with `Course <- Desked` (in_transit, at_hub, refused: ZR Express's stop desk,
  `zr-express.ts:97`) violates `FailureReachesTheOrder`: the recovery command
  refuses the report, every pull ends there, no return case opens and the goods
  stay outbound until a person acts.
- A second return report. The same with `Course <- Retour` violates
  `OpenReturnIsRecorded`: it ends every later pull of the parcel.
- A retry that reopens too much. `MCAutomationRun.cfg` with `Definitions <-
  MixedIds`, `Steps <- Mixed`, `SPECIFICATION Spec` violates `EffectsAreDue`:
  retrying a step whose policy is to continue also reopens the steps another
  failed step blocks (`recovery.ts:277`; the comment at 212 promises only its own).
- Two more histories break `DeliveredReachesTheBooks` when put for `Course`:
  pending, out_for_delivery, delivered (a pending report leaves the statuses the
  worker asks for) and in_transit, failed, out_for_delivery, delivered
  (Maystro's POSTPONED is failed, which opens a return case).

## 6. Proofs

All theorems hold for any values of the constants that satisfy the module's
named assumptions; none bounds the number of orders, messages, executors,
faults or retries. An assumption of finiteness is made of the orders of a shop,
the lines of a sheet, and the drains of a process.
A leaf that names `SMTT(40)` or `ZenonT(40)` takes one prover several seconds and
is given the time; the others are found within the default limits.

### FiniteSums
`SumFunctionOnSet` adds in an order of its own choosing. `SubsetInduction` is the
induction over the subsets of a finite set, stated with a set of subsets in
place of a predicate and proved from the well-foundedness of strict inclusion.
From it follow that a sum is an integer (`SumType`) and what happens to it when
an element joins, leaves or changes its value (`SumValueChanges`); and that a
finite set of integers that is not empty has a smallest member (`Smallest`), the
first open step of a run.

### CommandKernelProofs
For any sets of callers, clients, keys, aggregates, reservations, principals and
requests (`KernelAssumption`, which keeps the two empty values `NoCaller` and
`NoCommand` apart from callers, commands and contents). None of the properties is
inductive alone. The invariant adds to them that a caller not yet
answered is in its chain (`InChain`), that a caller inside a transaction holds
the connection and leads its chain (`Exclusive`), and that what it has staged is
the store plus exactly its own writes, under a key that is still fresh, at the
version it read (`Pending`). With
these, `Commit` is the only step that extends the store, and it extends it by
one version of one aggregate and one command of a fresh key.
- `ReservationHistoryHolds` adds `Guarded`: the reservation a transaction will
  write is still in the state it found it in. `CommitHistory` is the one step.
- `AnswerIsTheStoredOneHolds`: an answer is written from the store by `Replay`
  and `Commit`, and a stored command is never rewritten.
- `KeepsPromiseHolds`: a commit is the step of `ExactlyOnce` in which a content
  takes effect, a replay the one that tells of it, every other answer or its
  loss is forgetting (`ForgetStep`), everything else stutters. `Asked` says that
  callers present contents of the instance only.

### CourierBookingProofs
Three layers, each inductive over those before it.
- `LeaseInv`: types, rows numbered without gaps, attempts left where a row may be
  claimed (so that `attempts` stays within `MaxAttempts`), and that whoever holds
  a lease knows its attempt and calls only what was started. A fresh token exists
  because the drains are finitely many (`IsFiniteSet(Drainer)`): they are calls
  in one process. It gives `TypeOKHolds` and `OneRecorderHolds`.
- `BookInv`: every row of an order but its last is dead-lettered and its rejection
  given back (`ChainInv`), and order and delivery say what the last row says
  (`Mirrored`). It gives `ReleasedIsQuietHolds` and `DeliveryMirrorsIntentHolds`.
- `ParcelInv`: where a row may have a parcel (`RowInv`), that a drain in the middle
  of a call either holds the lease or its row is in doubt or misjudged
  (`CallInv`), and that a row is called by one drain at a time. It gives
  `NoDuplicateParcelHolds`, `NoForgottenParcelHolds`, and the refinement
  `KeepsPromiseHolds`, in which the standing of an order is read off its last row.

The last three have the hypothesis `Swallowing = {}`: no adapter calls an unknown
outcome a refusal. Two adapters of the code do, and the run `courier_swallowing`
shows the duplicate; the theorems say that nothing else is needed.

### OrderLifecycleProofs
For any orders (finitely many), quantities, stock, histories, workers and buttons.
- `TypeCorrect`, `GoodsTellOneStoryHolds`, `CashFollowsDeliveryHolds`,
  `LedgerContinuousHolds`, `NoStockBeforeInspectionHolds`. The story alone is not
  inductive, because the commands choose the ledger position they move from by
  looking at the delivery column. `Agrees(o)` adds what ties the columns together:
  an undecided order has no goods anywhere; a delivery column of failed or refused
  means the case awaits the return, return_in_transit means it is under way; the
  return column is the case's state; the receivable, the cod column and the
  delivered status are one fact, and exclude a case; the ledger is chained.
  `Shape` holds the types, and that a pull under way has an order and a batch of
  positions of its history. `MoveEffect` gives what a movement does to the last
  position and to the chain; `OneOrder` reduces every command to the order it
  touches; then there is one lemma per command (`CommandKept`, `FailKept`,
  `TurnBackKept`, `ReceiveKept`, `InspectKept`, `TrackKept`) and one for the
  pull's own steps (`WatchingKeeps`).
- `CancelledStaysHomeHolds` and `DeliveryNeverRollsBackHolds` rest on `RoadInv`:
  a parcel is under way only when its order left not_created, the delivery column
  of an order on the road, one rolled back from its return included, is never
  ahead of its parcel, delivered and returned are the status too, and a pull only has orders whose parcel a
  courier carries (`PullsAreTracked`). Without it a scan told by a pull that read
  the order before its cancellation would be accepted by the guards alone.
  `DeliveryNeverRollsBackHolds` is about every order, with the two exceptions the
  property states: a booking that failed gives the order back, and a scan told
  of an order whose return case is open puts it on the road again (the code's
  rollback, section 5). `Onwards` is the step, `TellOnwards` and `SellerOnwards`
  its two halves.
- `StockConservedHolds`: every step leaves stock and goods alone or moves the
  units of one order (`UnitsMove`), and the sum changes by those (`FiniteSums`).

### WhatsAppOutboxProofs
For any messages, executors, attempts, presses and faults (`OutboxAssumption`):
`AtMostOnceHolds`, `SuccessIsShownHolds`, `HeldSendsAreUntouchedHolds`,
`KeepsPromiseHolds`.
- `IInv` speaks of the sidecar alone. `Trail` says what each step of a dispatch
  has on disk (nothing, a marker, a marker and a receipt) and that a frame, once
  written, leaves a marker or a receipt behind. `ServeKept` is the heart: a
  dispatch begins only without either, hence of a message without a frame.
- `ShownInv` adds that an executor that was told "receipt" asked about a message
  that has one (`Truthful`), that a receipt speaks of a frame (`Witnessed`), and
  the shapes of rows and executors. `WriteRow`, `WriteExecutor` and `Told`
  reduce each action to the row, the executor and the answers it touches.
- `HeldInv` says that a row at rest (held, discarded or never queued) has no
  trace in outbox, executors or sidecar, and that the audit rows tell one
  decision (`Decided`). Lease holders only write rows that are not at rest
  (`BusyRowWritten`, `HolderSettles`), only `Start` begins to ask
  (`ExecutorAsks`), and people change one row at a time (`PeopleWrite`).
- The refinement needs nothing more. `RowMovesAsPromised` lists the ten moves a
  write to a row may make of its standing; a success needs a frame, which
  `ShownInv` gives; the frame itself (`FrameKeepsPromise`) needs all three: not
  written yet (`Trail`), not at rest (`HeldInv`), not called delivered yet
  (`SuccessIsShown`).
The types of the numbers are not needed, and the executors may be infinitely many.

### AutomationRunProofs
Every step of the specification changes the steps of one run at most, in one of
five ways (`Moves`): the open ones go on, the first open one ends, all open ones
are dropped, a retry reopens the first failed one and what was blocked, the run
begins. `TypeInv` says besides the types that what the worker holds is claimed
and its step the first open one (`Held`); `Answering`, that while a trigger is
answered every automation has a run or is pending; `Marked`, that an effect
leaves a mark its step finds again after a crash; `Line`, how a step and an
earlier one that stops the run on failure may stand to each other.
`EventsAreAnsweredHolds` and `EffectsHappenOnceHolds` hold of all definitions.
`EffectsAreDueHolds` has the hypothesis `StopsFirst`: no step that may fail alone
comes before one that stops the run and has steps behind it. The run's
definitions satisfy it; the code accepts others, and there the property is false:
see "A retry that reopens too much" in section 5.

### CodSettlementProofs
`Ledger` is the types, what a line may say before it is posted, matched or
recorded (`LineFacts`), the amounts the checks keep from going below zero
(`AmountFacts`), and the two properties. The commands compute the stored state
from sums they have not written yet, so the argument is about shares: a
command writes one line, and each sum changes by what that line counted for
before and counts for after. `LineWrites` says it once for the four commands that
write a line; each then has a lemma that its arithmetic is that of the shares.
The lines are a finite set of any size (`CodAssumption`).

### InboundMessagesProofs
`KeepsPromiseHolds`, by an invariant that ties spool, ingress and inbox together
(`Tells`: a file leaves when its row has ended, the inbox has the message as long
as its row says so, what the kernel committed has ended) and says what the
processes know of each other: the request that is out is about a file on
disk (`Asked`), and only the handler the sidecar listens to can answer it
(`Answers`). A message's fate is read off its row and file (`FateIs`); most
steps leave it alone. Order of the spool, breaker and passes play no part.

### Only model-checked
Liveness: `EveryCallAnswered`, `BookingResolves`, `RejectionReleases`,
`DeliveredReachesTheBooks`, `ReturnReachesTheOrder`, `SendResolves`, `RunEnds` and
`MessageArrives` (fairness and ENABLED are out of the prover's reach). Type correctness of
`WhatsAppOutbox` and of the spool, breaker and passes of `InboundMessages`, which
none of their theorems needs.

## 7. What the models leave out
- SQL, sealing, hashing and formatting; a row is a record, a payload opens or
  does not, a hash is equality of contents.
- The recovery commands are those of trusted manual orders, which `loadOrder`
  requires; orders from shops and the storefront share the later steps.
- Variants, several lines per order, storefront stock holds, customer returns
  and refunds, those by courier deduction included. (The cod projections of
  `canonical-cod-projections.ts` subtract such refunds, `deriveCodState` does not.)
- Seller commands with a stale version in `OrderLifecycle`: they are refused
  without effect. In `CodSettlement` a match presents the order's version only.
- Tracking: the status snapshot the code reports when a carrier has no history
  (`canonical-courier-effect-runtime.ts:1266`). It is dated at the pull, so a later
  pull tells it again, which the repeated reports of the courses stand for; a
  snapshot that comes before a first history is not played.
- In the sweep, the page cursor and the limit of three failures in a row per
  provider: with few orders neither acts; three deliveries that always conflict,
  first by id, would starve the ones behind them (hazard at
  `scheduled-reconcile.ts:199`, module `CourierSweep` of the plan).
- WhatsApp outbound: retry delays, payload and binding conflicts, a journal at
  its limit of records and its eviction (`durable-dispatch.ts:490`, the receipts'
  in `send-receipts.ts:83`), the
  deletion of a chat with a send in progress, and the reset of a marker that is
  not trusted (`:179`).
- WhatsApp inbound: unreadable spool files and their quarantine, the account
  check, pacing, echoes of the phone.
- Automations: the bridge that queues triggers, definitions that do not parse,
  the announcement of a status change after its commit
  (`run-processor.ts:1429`), which a crash loses.

Behaviours seen in the code which no property speaks about, for whoever extends
the models:
- A discarded send can be queued again by the ordinary retry, though a comment at
  the discard in `durable-send.ts` says nothing will try the row again;
  `SendPromise` therefore lets a person reopen one that was thrown away.
- A send whose answers were all lost ends refused after its attempts although it is
  on the wire, and the delivery callback that comes later is not shown.
- An interrupted dispatch is never cleared: a retry of it is always ambiguous.
  A lease handed back to the sidecar does not count against the attempts.
- An edit between two attempts at one trigger makes a second run of it, because
  the run's key holds the definition's hash (`trigger-processor.ts:239`).
- Runs that poll a held message are due again each time and, oldest first, come
  before newer ones; ten of them fill a tick (`run-processor.ts:270`).
- A line that named no order books its net adjustment only, and its later match
  does not book the discrepancy of its own sheet.
- The app's refusals other than a malformed request count as failures of the app:
  such a record, oldest at every half-open probe, delays newer ones by the
  cool-down of up to five minutes each time.
