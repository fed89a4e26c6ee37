--------------------------- MODULE AutomationRun ---------------------------
(***************************************************************************)
(* Seller automations: a business event is queued as a trigger intent,     *)
(* src/lib/automations/trigger-processor.ts makes one run of it for every  *)
(* active automation, src/lib/automations/run-processor.ts takes the steps *)
(* of a run one transaction at a time, and src/lib/automations/recovery.ts *)
(* reopens a failed run for the seller.                                    *)
(*                                                                         *)
(* One worker runs in the one process (worker.ts), so a lease only outlives *)
(* its holder after a crash; that a run or a step is not due yet, or still *)
(* leased, is the choice to pass it over.  A message of a send step is     *)
(* external here: WhatsAppOutbox models it.  Stored definitions are valid, *)
(* and the announcement of a status change after its commit is left out.   *)
(***************************************************************************)
EXTENDS Integers, FiniteSets, Sequences

CONSTANTS
    Event,              \* trigger intents, one per business moment
    Automation,         \* the seller's automations for that trigger
    Definitions,        \* hashes of the definitions the seller may save
    Steps,              \* [Definitions -> sequence of [action, policy]]
    MaxRetries,         \* maxRetries of every definition
    MaxTriggerAttempts, \* TRIGGER_MAX_ATTEMPTS
    MaxTroubles         \* bound: crashes, unreadable triggers and runs, edits,
                        \* and retries of runs and messages, all together

Actions == {"note", "send", "status", "wait", "recheck"}
Policies == {"stop", "continue"}

ASSUME AutomationAssumption ==
    /\ Steps \in [Definitions -> Seq([action: Actions, policy: Policies])]
    /\ Definitions # {} /\ Event # {} /\ Automation # {}
    /\ MaxRetries \in Nat
    /\ MaxTriggerAttempts \in Nat \ {0}
    /\ MaxTroubles \in Nat

VARIABLES
    saved,    \* [Automation -> the definition the seller saved last]
    trigger,  \* [Event -> the automation.trigger.v1 intent]
    run,      \* [Key -> the run's status]
    step,     \* [Key -> [position -> the step row]]
    message,  \* [Key -> [position -> the WhatsApp effect of a send step]]
    done,     \* [Key -> [position -> Nat]]: effects of a step on the world
    order,    \* [Event -> its order is in the status a recheck expects]
    worker,   \* [pc, key, at, pending, state]: what the worker is doing
    troubles  \* Nat: how much of MaxTroubles is used up

world == <<message, done, order>>
vars == <<saved, trigger, run, step, world, worker, troubles>>

\* A run's key names the trigger, the automation and the definition's hash.
Key == Event \X Automation \X Definitions

Definition(key) == Steps[key[3]]
Position(key) == DOMAIN Definition(key)
Action(key, i) == Definition(key)[i].action
Policy(key, i) == Definition(key)[i].policy

OpenSteps == {"queued", "processing", "retrying", "waiting", "waiting_effect"}
EndedSteps == {"succeeded", "failed", "dead_letter", "ambiguous", "skipped", "dry_run"}
OpenRuns == {"queued", "processing", "retrying", "waiting", "waiting_effect"}
EndedRuns ==
    {"succeeded", "partially_completed", "failed", "ambiguous", "dead_letter", "skipped", "dry_run"}

\* "why" is lastErrorCode of a skipped step; "armed" is the wait's effectState.
Whys == {"none", "blocked", "guard", "invalid"}

NewStep(status) == [status |-> status, why |-> "none", attempts |-> 0, armed |-> FALSE]

NewSteps(key, status) == [i \in Position(key) |-> NewStep(status)]

Idle == [pc |-> "idle", key |-> CHOOSE key \in Key: TRUE, at |-> 0, pending |-> {},
         state |-> "none"]

Init ==
    /\ saved \in [Automation -> Definitions]
    /\ trigger = [e \in Event |-> [status |-> "queued", attempts |-> 0]]
    /\ run = [key \in Key |-> "absent"]
    /\ step = [key \in Key |-> NewSteps(key, "queued")]
    /\ message = [key \in Key |-> [i \in Position(key) |-> "none"]]
    /\ done = [key \in Key |-> [i \in Position(key) |-> 0]]
    /\ order = [e \in Event |-> TRUE]
    /\ worker = Idle
    /\ troubles = 0

At(pc) == worker.pc = pc
k == worker.key
i == worker.at

Goto(pc) == worker' = [worker EXCEPT !.pc = pc]
GotoState(pc, state) == worker' = [worker EXCEPT !.pc = pc, !.state = state]

-----------------------------------------------------------------------------
\* The trigger drain.

\* PATCH /api/automations/[id].
Edit(a) ==
    /\ troubles < MaxTroubles
    /\ \E d \in Definitions \ {saved[a]}: saved' = [saved EXCEPT ![a] = d]
    /\ troubles' = troubles + 1
    /\ UNCHANGED <<trigger, run, step, world, worker>>

Due(e) == trigger[e].status \in {"queued", "retrying", "processing"}

GiveUpTrigger(e) ==
    /\ At("idle") /\ Due(e)
    /\ trigger[e].attempts >= MaxTriggerAttempts
    /\ trigger' = [trigger EXCEPT ![e].status = "dead_letter"]
    /\ UNCHANGED <<saved, run, step, world, worker, troubles>>

\* The active automations are read once per claim, right after it commits: an edit
\* between the two is played as one before the claim.
ClaimTrigger(e) ==
    /\ At("idle") /\ Due(e)
    /\ trigger[e].attempts < MaxTriggerAttempts
    /\ trigger' = [trigger EXCEPT ![e] = [status |-> "processing", attempts |-> @.attempts + 1]]
    /\ worker' = [Idle EXCEPT !.pc = "trigger",
                              !.pending = {<<e, a, saved[a]>>: a \in Automation},
                              !.key = <<e, CHOOSE a \in Automation: TRUE,
                                        CHOOSE d \in Definitions: TRUE>>]
    /\ UNCHANGED <<saved, run, step, world, troubles>>

\* materializeValidRun: the conditions match or not, or the run is a dry run.
Materialize ==
    /\ At("trigger")
    /\ \E key \in worker.pending:
        /\ IF run[key] # "absent"
           THEN UNCHANGED <<run, step>>
           ELSE \E status \in {"queued", "skipped", "dry_run"}:
                  /\ run' = [run EXCEPT ![key] = status]
                  /\ step' = [step EXCEPT ![key] = NewSteps(key, status)]
        /\ worker' = [worker EXCEPT !.pending = @ \ {key}]
    /\ UNCHANGED <<saved, trigger, world, troubles>>

(* mutant: success is reported before every run is made *)
SomeMade == TRUE

AllMade == worker.pending = {}

TriggerDone ==
    /\ At("trigger")
    /\ AllMade
    /\ trigger' = [trigger EXCEPT ![k[1]].status = "succeeded"]
    /\ worker' = Idle
    /\ UNCHANGED <<saved, run, step, world, troubles>>

\* markFailure: a query fails, or the envelope does not open.
TriggerFails ==
    /\ At("trigger")
    /\ troubles < MaxTroubles
    /\ trigger' = [trigger EXCEPT ![k[1]].status =
                     IF trigger[k[1]].attempts >= MaxTriggerAttempts THEN "dead_letter"
                     ELSE "retrying"]
    /\ worker' = Idle
    /\ troubles' = troubles + 1
    /\ UNCHANGED <<saved, run, step, world>>

-----------------------------------------------------------------------------
\* The run drain: claim a run, claim its next step.

(* mutant: a run whose holder died is not claimed *)
ClaimableAlive(key) == run[key] \in OpenRuns \ {"processing"}

ClaimableRun(key) == run[key] \in OpenRuns

ClaimRun(key) ==
    /\ At("idle") /\ ClaimableRun(key)
    /\ run' = [run EXCEPT ![key] = "processing"]
    /\ worker' = [Idle EXCEPT !.pc = "run", !.key = key]
    /\ UNCHANGED <<saved, trigger, step, world, troubles>>

\* deadLetterInvalidRunPayload: the sealed definition or payload does not open.
PayloadInvalid ==
    /\ At("run")
    /\ troubles < MaxTroubles
    /\ step' = [step EXCEPT ![k] = [j \in Position(k) |->
                  IF @[j].status \in OpenSteps
                  THEN [@[j] EXCEPT !.status = "skipped", !.why = "invalid"] ELSE @[j]]]
    /\ run' = [run EXCEPT ![k] = "dead_letter"]
    /\ worker' = Idle
    /\ troubles' = troubles + 1
    /\ UNCHANGED <<saved, trigger, world>>

OpenAt(key) == {j \in Position(key): step[key][j].status \in OpenSteps}

First(S) == CHOOSE j \in S: \A h \in S: j <= h

\* An expired attempt is closed and the step is claimed once more.
ClaimStep ==
    /\ At("run") /\ OpenAt(k) # {}
    /\ LET next == First(OpenAt(k)) IN
       /\ step[k][next].status # "waiting_effect"
       /\ step' = [step EXCEPT ![k][next].status = "processing",
                               ![k][next].attempts = @ + 1]
       /\ worker' = [worker EXCEPT !.pc = "step", !.at = next]
    /\ UNCHANGED <<saved, trigger, run, world, troubles>>

\* Not due yet, or leased by an attempt that died: the run waits with the step.
Blocked ==
    /\ At("run") /\ OpenAt(k) # {}
    /\ \E state \in {"retrying", "waiting"}:
        /\ LET status == step[k][First(OpenAt(k))].status IN
             \/ status = state
             \/ status = "processing" /\ state = "retrying"
        /\ GotoState("schedule", state)
    /\ UNCHANGED <<saved, trigger, run, step, world, troubles>>

NoStepLeft ==
    /\ At("run") /\ OpenAt(k) = {}
    /\ Goto("finalize")
    /\ UNCHANGED <<saved, trigger, run, step, world, troubles>>

-----------------------------------------------------------------------------
\* What becomes of a step.

Ends(status) == [step[k] EXCEPT ![i].status = status]

\* skipDownstreamSteps: every open step after position j.
SkipAfter(steps, j, why) ==
    [h \in DOMAIN steps |->
       IF h > j /\ steps[h].status \in OpenSteps
       THEN [steps[h] EXCEPT !.status = "skipped", !.why = why] ELSE steps[h]]

\* The step fails for good; its policy decides about the rest.
(* mutant: the stop policy is not applied *)
FailsAlone(steps, j) == steps

FailsFor(steps, j) ==
    IF Policy(k, j) = "stop" THEN SkipAfter(steps, j, "blocked") ELSE steps

\* markStepSucceeded.
SucceedStep ==
    /\ At("step")
    /\ \/ Action(k, i) = "recheck" /\ order[k[1]]
       \/ Action(k, i) = "wait" /\ step[k][i].armed
    /\ Goto("succeed")
    /\ UNCHANGED <<saved, trigger, run, step, world, troubles>>

MarkSucceeded ==
    /\ At("succeed")
    /\ step' = [step EXCEPT ![k] = Ends("succeeded")]
    /\ Goto("finalize")
    /\ UNCHANGED <<saved, trigger, run, world, troubles>>

\* executeWaitStep, the first time.
ArmWait ==
    /\ At("step") /\ Action(k, i) = "wait" /\ ~step[k][i].armed
    /\ step' = [step EXCEPT ![k][i].status = "waiting", ![k][i].armed = TRUE]
    /\ GotoState("schedule", "waiting")
    /\ UNCHANGED <<saved, trigger, run, world, troubles>>

\* markGuardNotMatched, from an order read before its transaction.
MissGuard ==
    /\ At("step") /\ Action(k, i) = "recheck" /\ ~order[k[1]]
    /\ Goto("miss")
    /\ UNCHANGED <<saved, trigger, run, step, world, troubles>>

GuardMissed ==
    step' = [step EXCEPT ![k] =
               SkipAfter([@ EXCEPT ![i].status = "skipped", ![i].why = "guard"], i, "guard")]

MarkMissed ==
    /\ At("miss")
    /\ GuardMissed
    /\ Goto("finalize")
    /\ UNCHANGED <<saved, trigger, run, world, troubles>>

\* tag_customer and send_notification: the marker or the key makes the effect
\* idempotent, and one transaction writes it with the step's success.
NewNote(key, j) == done[key][j] = 0

WriteNote ==
    /\ At("step") /\ Action(k, i) = "note"
    /\ done' = [done EXCEPT ![k][i] = IF NewNote(k, i) THEN @ + 1 ELSE @]
    /\ step' = [step EXCEPT ![k] = Ends("succeeded")]
    /\ Goto("finalize")
    /\ UNCHANGED <<saved, trigger, run, message, order, troubles>>

\* liveOrderStatusGuardForStep: the last recheck with no wait after it.
Guards(key, j) ==
    {g \in Position(key): /\ g < j /\ Action(key, g) = "recheck"
                          /\ \A w \in g..j-1: Action(key, w) # "wait"
                          /\ \A h \in g+1..j-1: Action(key, h) # "recheck"}

GuardCommitted == \A g \in Guards(k, i): step[k][g].status = "succeeded"

\* The guard is checked again in the transaction that moves the order.
GuardHolds(key, j) == Guards(key, j) = {} \/ order[key[1]]

MoveOrder ==
    /\ At("step") /\ Action(k, i) = "status" /\ GuardCommitted
    /\ IF GuardHolds(k, i)
       THEN /\ done' = [done EXCEPT ![k][i] = @ + 1]
            /\ order' = [order EXCEPT ![k[1]] = FALSE]
            /\ step' = [step EXCEPT ![k] = Ends("succeeded")]
       ELSE GuardMissed /\ UNCHANGED <<done, order>>
    /\ Goto("finalize")
    /\ UNCHANGED <<saved, trigger, run, message, troubles>>

\* queueWhatsAppText: the step's key makes a second call a replay.
NewMessage(key, j) == message[key][j] = "none"

QueueMessage ==
    /\ At("step") /\ Action(k, i) = "send"
    /\ IF NewMessage(k, i)
       THEN /\ message' = [message EXCEPT ![k][i] = "pending"]
            /\ done' = [done EXCEPT ![k][i] = @ + 1]
       ELSE UNCHANGED <<message, done>>
    /\ Goto("sent")
    /\ UNCHANGED <<saved, trigger, run, step, order, troubles>>

AwaitMessage ==
    /\ At("sent")
    /\ step' = [step EXCEPT ![k][i].status = "waiting_effect"]
    /\ GotoState("schedule", "waiting_effect")
    /\ UNCHANGED <<saved, trigger, run, world, troubles>>

\* Anything a step calls may throw, to be retried or not.
Throw ==
    /\ At("step")
    /\ \E state \in {"retryable", "permanent"}: GotoState("fail", state)
    /\ UNCHANGED <<saved, trigger, run, step, world, troubles>>

\* markStepFailure.
CanRetry == worker.state = "retryable" /\ step[k][i].attempts <= MaxRetries

RetryStep ==
    /\ At("fail") /\ CanRetry
    /\ step' = [step EXCEPT ![k][i].status = "retrying"]
    /\ GotoState("schedule", "retrying")
    /\ UNCHANGED <<saved, trigger, run, world, troubles>>

FailStep ==
    /\ At("fail") /\ ~CanRetry
    /\ step' = [step EXCEPT ![k] =
                  FailsFor(Ends(IF Policy(k, i) = "stop" THEN "dead_letter" ELSE "failed"), i)]
    /\ Goto("finalize")
    /\ UNCHANGED <<saved, trigger, run, world, troubles>>

-----------------------------------------------------------------------------
\* reconcileWhatsAppStep.

WaitsForMessage ==
    /\ At("run") /\ OpenAt(k) # {}
    /\ step[k][First(OpenAt(k))].status = "waiting_effect"

\* The message is still on its way, or its status could not be read.
PollAgain ==
    /\ WaitsForMessage
    /\ GotoState("schedule", "waiting_effect")
    /\ UNCHANGED <<saved, trigger, run, step, world, troubles>>

Reconcile ==
    /\ WaitsForMessage
    /\ LET j == First(OpenAt(k))
           outcome == message[k][j]
           ended == [step[k] EXCEPT ![j].status = outcome] IN
       /\ outcome # "pending"
       /\ step' = [step EXCEPT ![k] = IF outcome = "succeeded" THEN ended
                                      ELSE FailsFor(ended, j)]
    /\ Goto("finalize")
    /\ UNCHANGED <<saved, trigger, run, world, troubles>>

-----------------------------------------------------------------------------
\* The end of a turn.

\* scheduleOwnedRun.
Schedule ==
    /\ At("schedule")
    /\ run' = [run EXCEPT ![k] = worker.state]
    /\ worker' = Idle
    /\ UNCHANGED <<saved, trigger, step, world, troubles>>

Having(status) == {j \in Position(k): step[k][j].status = status}

\* terminalRunState.
Verdict ==
    LET succeeded == Having("succeeded") # {}
        lost == Having("failed") # {} \/ Having("dead_letter") # {}
        skipped == Having("skipped") IN
    CASE Having("ambiguous") # {} -> "ambiguous"
      [] Having("ambiguous") = {} /\ Having("dead_letter") # {} /\ ~succeeded -> "dead_letter"
      [] Having("ambiguous") = {} /\ lost /\ (succeeded \/ Having("dead_letter") = {}) ->
            IF succeeded THEN "partially_completed" ELSE "failed"
      [] Having("ambiguous") = {} /\ ~lost /\ skipped # {} ->
            IF \A j \in skipped: step[k][j].why = "guard" THEN "skipped"
            ELSE IF succeeded THEN "partially_completed" ELSE "failed"
      [] OTHER -> "succeeded"

\* finalizeOrScheduleRun.
Finalize ==
    /\ At("finalize")
    /\ run' = [run EXCEPT ![k] =
                 IF OpenAt(k) = {} THEN Verdict
                 ELSE LET status == step[k][First(OpenAt(k))].status IN
                      IF status = "processing" THEN "retrying" ELSE status]
    /\ worker' = Idle
    /\ UNCHANGED <<saved, trigger, step, world, troubles>>

-----------------------------------------------------------------------------
\* People, WhatsApp, the rest of the shop, and crashes.

\* retryAutomationRun: the first failed step and what a stop policy skipped.
Failures(key) == {j \in Position(key): step[key][j].status \in {"failed", "dead_letter"}}

Reopened(s) == [s EXCEPT !.status = "queued", !.why = "none"]

Recoverable(key) == run[key] \in {"failed", "partially_completed", "dead_letter"}

RetryRun(key) ==
    /\ troubles < MaxTroubles
    /\ Recoverable(key)
    /\ Failures(key) # {}
    /\ LET target == First(Failures(key)) IN
       /\ Action(key, target) # "send"
       /\ step' = [step EXCEPT ![key] = [j \in Position(key) |->
                     IF \/ j = target
                        \/ j > target /\ @[j].status = "skipped" /\ @[j].why = "blocked"
                     THEN Reopened(@[j]) ELSE @[j]]]
    /\ run' = [run EXCEPT ![key] = "queued"]
    /\ troubles' = troubles + 1
    /\ UNCHANGED <<saved, trigger, world, worker>>

\* The WhatsApp outbox settles a message; its own recovery may send it again.
Settled(key, j) ==
    /\ message[key][j] = "pending"
    /\ \E outcome \in {"succeeded", "ambiguous", "dead_letter"}:
        message' = [message EXCEPT ![key][j] = outcome]
    /\ UNCHANGED <<saved, trigger, run, step, done, order, worker, troubles>>

SendAgain(key, j) ==
    /\ troubles < MaxTroubles
    /\ message[key][j] \in {"ambiguous", "dead_letter"}
    /\ message' = [message EXCEPT ![key][j] = "pending"]
    /\ troubles' = troubles + 1
    /\ UNCHANGED <<saved, trigger, run, step, done, order, worker>>

\* Somebody else moves the order.
OrderMoves(e) ==
    /\ order[e]
    /\ order' = [order EXCEPT ![e] = FALSE]
    /\ UNCHANGED <<saved, trigger, run, step, message, done, worker, troubles>>

Crash ==
    /\ ~At("idle")
    /\ troubles < MaxTroubles
    /\ worker' = Idle
    /\ troubles' = troubles + 1
    /\ UNCHANGED <<saved, trigger, run, step, world>>

-----------------------------------------------------------------------------
TriggerTurn == Materialize \/ TriggerDone \/ TriggerFails

StepTurn ==
    \/ SucceedStep \/ MarkSucceeded \/ ArmWait \/ MissGuard \/ MarkMissed \/ WriteNote
    \/ MoveOrder \/ QueueMessage \/ AwaitMessage \/ Throw \/ RetryStep \/ FailStep

RunTurn ==
    \/ PayloadInvalid \/ ClaimStep \/ Blocked \/ NoStepLeft \/ PollAgain \/ Reconcile
    \/ Schedule \/ Finalize

Next ==
    \/ \E a \in Automation: Edit(a)
    \/ \E e \in Event: GiveUpTrigger(e) \/ ClaimTrigger(e) \/ OrderMoves(e)
    \/ TriggerTurn \/ StepTurn \/ RunTurn \/ Crash
    \/ \E key \in Key: ClaimRun(key) \/ RetryRun(key)
    \/ \E key \in Key: \E j \in Position(key): Settled(key, j) \/ SendAgain(key, j)

Spec == Init /\ [][Next]_vars

\* The timer ticks for ever and no turn hangs.  Every due trigger and run is
\* reached: the drains take the oldest first and ten per tick, so this stands
\* for a shop with fewer runs waiting than a tick serves.  Delays and dead
\* leases end, a status can be read in the end, and the outbox settles.
Fairness ==
    /\ WF_vars(~At("idle") /\ (TriggerTurn \/ StepTurn \/ RunTurn))
    /\ SF_vars(ClaimStep) /\ SF_vars(Reconcile)
    /\ \A e \in Event: SF_vars(ClaimTrigger(e) \/ GiveUpTrigger(e))
    /\ \A key \in Key: SF_vars(ClaimRun(key))
    /\ WF_vars(\E key \in Key: \E j \in Position(key): Settled(key, j))

FairSpec == Spec /\ Fairness

-----------------------------------------------------------------------------
\* Types, with a claimed trigger or run while the worker holds it.
TypeOK ==
    /\ saved \in [Automation -> Definitions]
    /\ trigger \in [Event -> [status: {"queued", "processing", "retrying", "succeeded",
                                       "dead_letter"}, attempts: 0..MaxTriggerAttempts]]
    /\ run \in [Key -> {"absent"} \union OpenRuns \union EndedRuns]
    /\ \A key \in Key:
        /\ step[key] \in [Position(key) -> [status: OpenSteps \union EndedSteps, why: Whys,
                                            attempts: Nat, armed: BOOLEAN]]
        /\ message[key] \in [Position(key) ->
                               {"none", "pending", "succeeded", "ambiguous", "dead_letter"}]
        /\ done[key] \in [Position(key) -> Nat]
    /\ order \in [Event -> BOOLEAN]
    /\ At("trigger") => trigger[k[1]].status = "processing"
    /\ ~At("idle") /\ ~At("trigger") => run[k] = "processing"

\* An effect happens once per run, whatever crashed in between; after every
\* earlier step that stops the run on failure has succeeded; and it moves the
\* order only out of the status the step's guard asked for.
EffectsAreDue ==
    [][\A key \in Key: \A j \in Position(key): done'[key][j] # done[key][j] =>
         /\ done[key][j] = 0
         /\ \A h \in 1..j-1: Policy(key, h) = "stop" => step[key][h].status = "succeeded"
         /\ Action(key, j) = "status" /\ Guards(key, j) # {} => order[key[1]]]_vars

\* A trigger that reports success left a run of every automation, through any
\* number of attempts, edits and crashes.
EventsAreAnswered ==
    \A e \in Event: trigger[e].status = "succeeded" =>
        \A a \in Automation: \E d \in Definitions: run[<<e, a, d>>] # "absent"

\* Every run the worker may take up ends, with each of its steps ended.
RunEnds ==
    \A key \in Key: run[key] \in OpenRuns ~> run[key] \in EndedRuns /\ OpenAt(key) = {}
=============================================================================
