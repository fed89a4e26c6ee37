------------------------ MODULE AutomationRunProofs ------------------------
(***************************************************************************)
(* Theorems about AutomationRun, for any number of events, automations,    *)
(* definitions and steps, and any bound.                                   *)
(*                                                                         *)
(* Every step of the specification changes the steps of at most one run,   *)
(* and in one of five ways (Moves): the open ones go on, the first open    *)
(* one ends, all open ones are given up, a retry reopens the first failed  *)
(* one and what was blocked, or the run begins.  The invariants about the  *)
(* order of the steps are proved of those five ways and not of each        *)
(* action.                                                                 *)
(***************************************************************************)
EXTENDS AutomationRun, FiniteSums, TLAPS

-----------------------------------------------------------------------------
\* The shape of the state: each variable's values, key by key.
Row == [status: OpenSteps \union EndedSteps, why: Whys, attempts: Nat, armed: BOOLEAN]
Rows(key) == [Position(key) -> Row]
Messages(key) == [Position(key) -> {"none", "pending", "succeeded", "ambiguous", "dead_letter"}]
Counts(key) == [Position(key) -> Nat]

Triggers == [status: {"queued", "processing", "retrying", "succeeded", "dead_letter"},
             attempts: 0..MaxTriggerAttempts]

\* What the worker may be doing with a step of the run it holds.
AtStep == {"step", "succeed", "miss", "sent", "fail"}

Workers ==
    [pc: {"idle", "trigger", "run", "schedule", "finalize"} \union AtStep, key: Key, at: Nat,
     pending: SUBSET Key,
     state: {"none", "retryable", "permanent", "retrying", "waiting", "waiting_effect"}]

StepsTyped ==
    step = [key \in Key |-> step[key]] /\ \A key \in Key: step[key] \in Rows(key)

MessagesTyped ==
    message = [key \in Key |-> message[key]] /\ \A key \in Key: message[key] \in Messages(key)

DoneTyped ==
    done = [key \in Key |-> done[key]] /\ \A key \in Key: done[key] \in Counts(key)

Shape ==
    /\ saved \in [Automation -> Definitions]
    /\ trigger \in [Event -> Triggers]
    /\ run \in [Key -> {"absent"} \union OpenRuns \union EndedRuns]
    /\ StepsTyped
    /\ MessagesTyped
    /\ DoneTyped
    /\ order \in [Event -> BOOLEAN]
    /\ worker \in Workers

\* The worker's claim: nobody else moves the run it holds, and the step in its
\* hands is the first open one.
Held ==
    /\ At("trigger") => trigger[k[1]].status = "processing"
    /\ ~At("idle") /\ ~At("trigger") => run[k] = "processing"
    /\ At("schedule") => worker.state \in {"retrying", "waiting", "waiting_effect"}
    /\ worker.pc \in AtStep =>
        /\ i \in Position(k) /\ step[k][i].status = "processing"
        /\ \A h \in OpenAt(k): i <= h

TypeInv == Shape /\ Held

\* A message that is awaited was queued.
Awaited ==
    /\ At("sent") => message[k][i] # "none"
    /\ \A key \in Key: \A j \in Position(key):
         step[key][j].status = "waiting_effect" => message[key][j] # "none"

\* While a trigger is being answered, every automation has its run or is pending.
Answering ==
    At("trigger") =>
        \A a \in Automation: \E d \in Definitions:
            <<k[1], a, d>> \in worker.pending \/ run[<<k[1], a, d>>] # "absent"

\* What a step was, before its status was lost to a retry.
Open(s) == s.status \in OpenSteps
Ran(s) == s.status \in {"succeeded", "failed", "dead_letter", "ambiguous"}
IsBlocked(s) == s.status = "skipped" /\ s.why = "blocked"

\* A step and an earlier one that stops the run on failure.
InLine(s, t) ==
    /\ Ran(t) => s.status = "succeeded"
    /\ Open(t) => s.status = "succeeded" \/ Open(s)
    /\ IsBlocked(t) => Ran(s) \/ IsBlocked(s)

Line ==
    \A key \in Key: \A h, j \in Position(key):
        h < j /\ Policy(key, h) = "stop" => InLine(step[key][h], step[key][j])

\* An effect leaves a mark in the database that its step finds again.
Marked ==
    \A key \in Key: \A j \in Position(key):
        done[key][j] # 0 =>
            /\ Action(key, j) = "status" =>
                 run[key] # "absent" /\ step[key][j].status = "succeeded"
            /\ Action(key, j) = "send" => message[key][j] # "none"

\* No step that may fail alone comes before one that stops the run and has
\* steps after it.
StopsFirst ==
    \A key \in Key: \A t, h, j \in Position(key):
        t < h /\ h < j /\ Policy(key, h) = "stop" => Policy(key, t) = "stop"

-----------------------------------------------------------------------------
LEMMA DefinitionFacts ==
    ASSUME NEW key \in Key
    PROVE  /\ Position(key) = 1..Len(Definition(key)) /\ Len(Definition(key)) \in Nat
           /\ \A j \in Position(key): Action(key, j) \in Actions /\ Policy(key, j) \in Policies
<1>1. key[3] \in Definitions
  BY DEF Key
<1> DEFINE d == Definition(key)
           StepType == [action: Actions, policy: Policies]
<1>2. d \in Seq(StepType)
  BY <1>1, AutomationAssumption DEF Definition
<1>3. /\ DOMAIN d = 1..Len(d) /\ Len(d) \in Nat
      /\ \A j \in 1..Len(d): d[j] \in StepType
  <2> HIDE DEF d, StepType
  <2> QED
    BY <1>2
<1> QED
  BY <1>3 DEF Position, Action, Policy

LEMMA PositionNat == ASSUME NEW key \in Key PROVE Position(key) \subseteq Nat \ {0}
  BY DefinitionFacts

LEMMA FirstOpen ==
    ASSUME NEW key \in Key, OpenAt(key) # {}
    PROVE  First(OpenAt(key)) \in OpenAt(key) /\ \A h \in OpenAt(key): First(OpenAt(key)) <= h
<1>1. OpenAt(key) \subseteq 1..Len(Definition(key)) /\ Len(Definition(key)) \in Nat
  BY DefinitionFacts DEF OpenAt
<1>2. IsFiniteSet(OpenAt(key)) /\ OpenAt(key) \subseteq Int
  <2>1. IsFiniteSet(1..Len(Definition(key)))
    BY <1>1, FS_Interval
  <2> QED
    BY <1>1, <2>1, FS_Subset
<1>3. \E m \in OpenAt(key): \A h \in OpenAt(key): m <= h
  BY <1>2, Smallest
<1> QED
  BY <1>3 DEF First

LEMMA IdleFacts == Idle \in Workers /\ Idle.pc = "idle"
<1>1. Key # {}
  <2>1. PICK e \in Event, a \in Automation, d \in Definitions: TRUE
    BY AutomationAssumption
  <2>2. <<e, a, d>> \in Key
    BY DEF Key
  <2> QED
    BY <2>2
<1> QED
  BY <1>1 DEF Idle, Workers

\* A write of all the steps of one run.
LEMMA StepsSet ==
    ASSUME StepsTyped, NEW key \in Key, NEW x \in Rows(key), step' = [step EXCEPT ![key] = x]
    PROVE  StepsTyped' /\ step'[key] = x /\ \A d \in Key: d # key => step'[d] = step[d]
  BY DEF StepsTyped

LEMMA MessagesSet ==
    ASSUME MessagesTyped, NEW key \in Key, NEW x \in Messages(key),
           message' = [message EXCEPT ![key] = x]
    PROVE  MessagesTyped' /\ message'[key] = x
          /\ \A d \in Key: d # key => message'[d] = message[d]
  BY DEF MessagesTyped

LEMMA DoneSet ==
    ASSUME DoneTyped, NEW key \in Key, NEW x \in Counts(key), done' = [done EXCEPT ![key] = x]
    PROVE  DoneTyped' /\ done'[key] = x /\ \A d \in Key: d # key => done'[d] = done[d]
  BY DEF DoneTyped

\* The skipped steps are steps.
LEMMA SkipAfterRows ==
    ASSUME NEW key \in Key, NEW x \in Rows(key), NEW j \in Position(key), NEW why \in Whys
    PROVE  SkipAfter(x, j, why) \in Rows(key)
  BY DEF SkipAfter, Rows, Row, EndedSteps

LEMMA FailsForRows ==
    ASSUME NEW x \in Rows(k), NEW j \in Position(k), k \in Key
    PROVE  FailsFor(x, j) \in Rows(k)
  BY SkipAfterRows DEF FailsFor, Whys

\* A step row whose status is written.
LEMMA RowSet ==
    ASSUME NEW key \in Key, NEW x \in Rows(key), NEW j \in Position(key), NEW r \in Row
    PROVE  [x EXCEPT ![j] = r] \in Rows(key)
  BY DEF Rows

-----------------------------------------------------------------------------
\* The ways the steps of one run change, from x to y.
Same(s, t) ==
    /\ Open(s) <=> Open(t)
    /\ Ran(s) <=> Ran(t)
    /\ s.status = "succeeded" <=> t.status = "succeeded"
    /\ IsBlocked(s) <=> IsBlocked(t)

\* The open steps stay open, and only the one whose message was sent awaits it.
Goes(key, x, y) ==
    \A j \in Position(key):
        /\ Same(x[j], y[j])
        /\ y[j].status = "waiting_effect" =>
             x[j].status = "waiting_effect" \/ (At("sent") /\ key = k /\ j = i)

Foremost(key, x, j) == Open(x[j]) /\ \A h \in Position(key): h < j => ~Open(x[h])

\* Step j is over; where its failure stops the run, the open ones after it too.
EndsAt(key, x, y, j) ==
    /\ Ran(y[j])
    /\ \A h \in Position(key): h < j => y[h] = x[h]
    /\ \A h \in Position(key): h > j =>
         IF y[j].status # "succeeded" /\ Policy(key, j) = "stop" /\ Open(x[h])
         THEN IsBlocked(y[h]) ELSE y[h] = x[h]

\* Every open step is given up.
Dropped(key, x, y) ==
    \A j \in Position(key):
        IF Open(x[j]) THEN y[j].status = "skipped" /\ y[j].why \in {"guard", "invalid"}
        ELSE y[j] = x[j]

\* The first failed step t is open again, and the blocked ones after it.
Retried(key, x, y, t) ==
    /\ \A h \in Position(key): h < t => x[h].status \notin {"failed", "dead_letter"}
    /\ x[t].status \in {"failed", "dead_letter"} /\ y[t].status = "queued"
    /\ \A h \in Position(key): h # t =>
         IF h > t /\ IsBlocked(x[h]) THEN y[h].status = "queued" ELSE y[h] = x[h]

Begun(key, x) ==
    \A h, j \in Position(key): x[h] = x[j] /\ x[j].status \in {"queued", "skipped", "dry_run"}
                                 /\ x[j].why = "none"

Moves(key) ==
    /\ \A d \in Key: d # key => step'[d] = step[d]
    /\ \/ Goes(key, step[key], step'[key])
       \/ \E j \in Position(key): Foremost(key, step[key], j)
             /\ EndsAt(key, step[key], step'[key], j)
       \/ Dropped(key, step[key], step'[key])
       \/ \E j \in Position(key): Retried(key, step[key], step'[key], j)
       \/ run[key] = "absent" /\ Begun(key, step'[key])

StepsMove == \E key \in Key: Moves(key)
-----------------------------------------------------------------------------
LEMMA NothingMoves == TypeInv /\ step' = step => StepsMove
  BY IdleFacts DEF StepsMove, Moves, Goes, Same, Workers

LEMMA LineStep == ASSUME StopsFirst, Line, TypeInv, StepsMove PROVE Line'
<1>1. PICK key \in Key: Moves(key)
  BY DEF StepsMove
<1> SUFFICES ASSUME NEW d \in Key, NEW h \in Position(d), NEW j \in Position(d),
                    h < j, Policy(d, h) = "stop"
             PROVE  InLine(step'[d][h], step'[d][j])
  BY DEF Line
<1> DEFINE x == step[d]
           y == step'[d]
<1>2. InLine(x[h], x[j]) /\ h \in Nat /\ j \in Nat /\ Position(d) \subseteq Nat
  BY PositionNat DEF Line
<1>3. CASE d # key
  BY <1>1, <1>2, <1>3 DEF Moves
<1>4. CASE d = key
  <2>1. CASE Goes(d, x, y)
    BY <1>2, <2>1 DEF Goes, Same, InLine
  <2>2. ASSUME NEW g \in Position(d), Foremost(d, x, g), EndsAt(d, x, y, g)
        PROVE  InLine(y[h], y[j])
    <3>0. g \in Nat
      BY <1>2
    <3> HIDE DEF x, y
    <3>1. CASE j < g
      BY <1>2, <2>2, <3>0, <3>1 DEF EndsAt, InLine
    <3>2. CASE j = g
      BY <1>2, <2>2, <3>0, <3>2 DEF EndsAt, Foremost, InLine, Ran, Open, OpenSteps, IsBlocked
    <3>3. CASE g < j /\ h < g
      BY <1>2, <2>2, <3>0, <3>3 DEF EndsAt, Foremost, InLine, Ran, Open, OpenSteps, IsBlocked
    <3>4. CASE h = g
      BY <1>2, <2>2, <3>0, <3>4 DEF EndsAt, Foremost, InLine, Ran, Open, OpenSteps, IsBlocked
    <3>5. CASE g < h
      BY <1>2, <2>2, <3>0, <3>5 DEF EndsAt, Foremost, InLine, Ran, Open, OpenSteps, IsBlocked
    <3> QED
      BY <1>2, <3>0, <3>1, <3>2, <3>3, <3>4, <3>5
  <2>3. CASE Dropped(d, x, y)
    BY <1>2, <2>3 DEF Dropped, InLine, Ran, Open, OpenSteps, IsBlocked
  <2>4. ASSUME NEW g \in Position(d), Retried(d, x, y, g)
        PROVE  InLine(y[h], y[j])
    <3>0. /\ g \in Nat
          /\ (g < h => Policy(d, g) = "stop")
      BY <1>2 DEF StopsFirst
    <3>1. Policy(d, g) = "stop" /\ g < h => InLine(x[g], x[h]) /\ InLine(x[g], x[j])
      BY <1>2, <3>0 DEF Line
    <3>2. h < g => InLine(x[h], x[g])
      BY <1>2, <3>0 DEF Line
    <3> HIDE DEF x, y
    <3>3. CASE j < g
      BY <1>2, <2>4, <3>0, <3>2, <3>3 DEF Retried, InLine, Ran, Open, OpenSteps, IsBlocked
    <3>4. CASE j = g
      BY <1>2, <2>4, <3>0, <3>2, <3>4 DEF Retried, InLine, Ran, Open, OpenSteps, IsBlocked
    <3>5. CASE g < j /\ h < g
      BY <1>2, <2>4, <3>0, <3>2, <3>5 DEF Retried, InLine, Ran, Open, OpenSteps, IsBlocked
    <3>6. CASE h = g
      BY <1>2, <2>4, <3>0, <3>6 DEF Retried, InLine, Ran, Open, OpenSteps, IsBlocked
    <3>7. CASE g < h
      BY <1>2, <2>4, <3>0, <3>1, <3>7 DEF Retried, InLine, Ran, Open, OpenSteps, IsBlocked
    <3> QED
      BY <1>2, <3>0, <3>3, <3>4, <3>5, <3>6, <3>7
  <2>5. CASE Begun(d, y)
    BY <1>2, <2>5 DEF Begun, InLine, Ran, Open, OpenSteps, IsBlocked
  <2> QED
    BY <1>1, <1>4, <2>1, <2>2, <2>3, <2>4, <2>5 DEF Moves
<1> QED
  BY <1>3, <1>4

-----------------------------------------------------------------------------
LEMMA HeldFacts ==
    ASSUME TypeInv
    PROVE  /\ k \in Key /\ Position(k) \subseteq Nat \ {0} /\ i \in Nat
           /\ step[k] \in Rows(k) /\ message[k] \in Messages(k) /\ done[k] \in Counts(k)
           /\ worker.pc \in AtStep =>
                /\ i \in Position(k) /\ step[k][i].status = "processing"
                /\ Foremost(k, step[k], i) /\ run[k] = "processing"
<1>1. k \in Key /\ i \in Nat
  BY DEF TypeInv, Shape, Workers, k, i
<1>2. Position(k) \subseteq Nat \ {0}
  BY <1>1, PositionNat
<1>3. step[k] \in Rows(k) /\ message[k] \in Messages(k) /\ done[k] \in Counts(k)
  BY <1>1 DEF TypeInv, Shape, StepsTyped, MessagesTyped, DoneTyped
<1>4. ASSUME worker.pc \in AtStep
      PROVE  /\ i \in Position(k) /\ step[k][i].status = "processing"
             /\ Foremost(k, step[k], i) /\ run[k] = "processing"
  <2>1. i \in Position(k) /\ step[k][i].status = "processing" /\ \A h \in OpenAt(k): i <= h
    BY <1>4 DEF TypeInv, Held
  <2>2. run[k] = "processing"
    BY <1>4 DEF TypeInv, Held, AtStep, At
  <2>3. Foremost(k, step[k], i)
    BY <1>1, <1>2, <2>1 DEF Foremost, Open, OpenSteps, OpenAt
  <2> QED
    BY <2>1, <2>2, <2>3
<1> QED
  BY <1>1, <1>2, <1>3, <1>4

\* What stays typed when a variable does not change.
LEMMA Untouched ==
    TypeInv => /\ step' = step => StepsTyped'
               /\ message' = message => MessagesTyped'
               /\ done' = done => DoneTyped'
  BY DEF TypeInv, Shape, StepsTyped, MessagesTyped, DoneTyped

\* The actions that leave every step as it is.
LEMMA TriggerKeeps ==
    ASSUME TypeInv,
           \/ \E a \in Automation: Edit(a)
           \/ \E e \in Event: GiveUpTrigger(e) \/ ClaimTrigger(e) \/ OrderMoves(e)
           \/ TriggerDone \/ TriggerFails \/ Crash
    PROVE  TypeInv' /\ step' = step
<1>1. step' = step /\ message' = message /\ done' = done /\ run' = run
  BY DEF Edit, GiveUpTrigger, ClaimTrigger, OrderMoves, TriggerDone, TriggerFails, Crash,
    world
<1>2. StepsTyped' /\ MessagesTyped' /\ DoneTyped'
  BY <1>1, Untouched
<1>3. k \in Key /\ k[1] \in Event
  BY HeldFacts DEF Key
<1>4. CASE \E a \in Automation: Edit(a)
  BY <1>1, <1>2, <1>4 DEF Edit, TypeInv, Shape, Held, At, k, i, OpenAt, world
<1>5. ASSUME NEW e \in Event, GiveUpTrigger(e) PROVE TypeInv'
  BY <1>1, <1>2, <1>5 DEF GiveUpTrigger, TypeInv, Shape, Triggers, Held, At, AtStep, k, i,
    OpenAt, world
<1>6. ASSUME NEW e \in Event, ClaimTrigger(e) PROVE TypeInv'
  <2>1. trigger' \in [Event -> Triggers] /\ trigger'[e].status = "processing"
    <3> DEFINE x == [status |-> "processing", attempts |-> trigger[e].attempts + 1]
    <3>1. trigger \in [Event -> Triggers]
      BY DEF TypeInv, Shape
    <3>2. x \in Triggers
      <4>1. trigger[e] \in Triggers /\ trigger[e].attempts < MaxTriggerAttempts
        BY <1>6, <3>1 DEF ClaimTrigger
      <4>2. trigger[e].attempts \in 0..MaxTriggerAttempts
        BY <4>1 DEF Triggers
      <4> QED
        BY <4>1, <4>2, AutomationAssumption DEF Triggers
    <3>3. trigger' = [trigger EXCEPT ![e] = x]
      BY <1>6 DEF ClaimTrigger
    <3>4. x.status = "processing"
      OBVIOUS
    <3> HIDE DEF x
    <3> QED
      BY <3>1, <3>2, <3>3, <3>4
  <2>2. PICK a \in Automation, d \in Definitions: a = (CHOOSE b \in Automation: TRUE)
          /\ d = (CHOOSE c \in Definitions: TRUE)
    BY AutomationAssumption
  <2>3. <<e, a, d>> \in Key /\ {<<e, b, saved[b]>>: b \in Automation} \in SUBSET Key
    BY DEF Key, TypeInv, Shape
  <2>4. worker' = [Idle EXCEPT !.pc = "trigger",
                               !.pending = {<<e, b, saved[b]>>: b \in Automation},
                               !.key = <<e, a, d>>]
    BY <1>6, <2>2 DEF ClaimTrigger
  <2>5. worker' \in Workers /\ worker'.pc = "trigger" /\ worker'.key = <<e, a, d>>
    BY <2>3, <2>4, IdleFacts DEF Workers
  <2>6. Shape'
    BY <1>1, <1>2, <1>6, <2>1, <2>5 DEF ClaimTrigger, TypeInv, Shape, world
  <2>7. k'[1] = e
    BY <2>5 DEF k
  <2>8. Held'
    BY <2>1, <2>5, <2>7 DEF Held, At, AtStep
  <2> QED
    BY <2>6, <2>8 DEF TypeInv
<1>7. ASSUME NEW e \in Event, OrderMoves(e) PROVE TypeInv'
  BY <1>1, <1>2, <1>7 DEF OrderMoves, TypeInv, Shape, Held, At, k, i, OpenAt, world
<1>8. CASE TriggerDone \/ TriggerFails
  <2>1. trigger' \in [Event -> Triggers]
    BY <1>3, <1>8 DEF TriggerDone, TriggerFails, TypeInv, Shape, Triggers
  <2> QED
    BY <1>1, <1>2, <1>8, <2>1, IdleFacts DEF TriggerDone, TriggerFails, TypeInv, Shape, Held,
      At, AtStep, k, i, OpenAt, world
<1>9. CASE Crash
  BY <1>1, <1>2, <1>9, IdleFacts DEF Crash, TypeInv, Shape, Held, At, AtStep, k, i, OpenAt,
    world
<1> QED
  BY <1>1, <1>4, <1>5, <1>6, <1>7, <1>8, <1>9

-----------------------------------------------------------------------------
\* A write of the worker's place.
LEMMA GotoFacts ==
    ASSUME TypeInv, NEW pc, NEW state,
           pc \in {"idle", "trigger", "run", "schedule", "finalize"} \union AtStep,
           state \in {"none", "retryable", "permanent", "retrying", "waiting", "waiting_effect"}
    PROVE  /\ Goto(pc) => /\ worker' \in Workers /\ worker'.pc = pc
                          /\ k' = k /\ i' = i /\ worker'.state = worker.state
           /\ GotoState(pc, state) => /\ worker' \in Workers /\ worker'.pc = pc
                                      /\ k' = k /\ i' = i /\ worker'.state = state
  BY DEF TypeInv, Shape, Workers, Goto, GotoState, k, i

\* The turn goes on and no step changes.
LEMMA TurnKeeps ==
    ASSUME TypeInv, Blocked \/ NoStepLeft \/ SucceedStep \/ MissGuard \/ Throw \/ PollAgain
    PROVE  TypeInv' /\ step' = step
<1>1. /\ step' = step /\ message' = message /\ done' = done /\ run' = run
      /\ saved' = saved /\ trigger' = trigger /\ order' = order
  BY DEF Blocked, NoStepLeft, SucceedStep, MissGuard, Throw, PollAgain, world
<1>2. StepsTyped' /\ MessagesTyped' /\ DoneTyped'
  BY <1>1, Untouched
<1>3. /\ worker' \in Workers /\ k' = k /\ i' = i
      /\ worker'.pc \notin {"idle", "trigger"} /\ worker.pc \notin {"idle", "trigger"}
      /\ worker'.pc = "schedule" => worker'.state \in {"retrying", "waiting", "waiting_effect"}
      /\ worker'.pc \in AtStep => worker.pc \in AtStep
  <2>1. CASE Blocked
    BY <2>1, GotoFacts DEF Blocked, At, AtStep
  <2>2. CASE NoStepLeft
    BY <2>2, GotoFacts DEF NoStepLeft, At, AtStep
  <2>3. CASE SucceedStep
    BY <2>3, GotoFacts DEF SucceedStep, At, AtStep
  <2>4. CASE MissGuard
    BY <2>4, GotoFacts DEF MissGuard, At, AtStep
  <2>5. CASE Throw
    BY <2>5, GotoFacts DEF Throw, At, AtStep
  <2>6. CASE PollAgain
    BY <2>6, GotoFacts DEF PollAgain, WaitsForMessage, At, AtStep
  <2> QED
    BY <2>1, <2>2, <2>3, <2>4, <2>5, <2>6
<1>4. Shape'
  BY <1>1, <1>2, <1>3 DEF TypeInv, Shape
<1>5. Held'
  BY <1>1, <1>3, HeldFacts DEF TypeInv, Held, At, OpenAt
<1> QED
  BY <1>1, <1>4, <1>5 DEF TypeInv

\* Claims and ends of turns write the run's status and the worker.
LEMMA RunWrites ==
    ASSUME TypeInv, NEW key \in Key, NEW s \in OpenRuns \union EndedRuns,
           run' = [run EXCEPT ![key] = s], worker' \in Workers,
           \/ worker'.pc = "idle"
           \/ worker'.pc = "run" /\ k' = key /\ s = "processing",
           UNCHANGED <<saved, trigger, step, message, done, order>>
    PROVE  TypeInv'
<1>1. StepsTyped' /\ MessagesTyped' /\ DoneTyped'
  BY Untouched
<1>2. run' \in [Key -> {"absent"} \union OpenRuns \union EndedRuns] /\ run'[key] = s
  BY DEF TypeInv, Shape
<1>3. Shape'
  BY <1>1, <1>2 DEF TypeInv, Shape
<1>4. Held'
  BY <1>2 DEF Held, At, AtStep
<1> QED
  BY <1>3, <1>4 DEF TypeInv

LEMMA ClaimRunKeeps ==
    ASSUME TypeInv, NEW key \in Key, ClaimRun(key)
    PROVE  TypeInv' /\ step' = step
<1>1. worker' \in Workers /\ worker'.pc = "run" /\ k' = key
  BY IdleFacts DEF ClaimRun, Workers, k
<1> QED
  BY <1>1, RunWrites DEF ClaimRun, OpenRuns, world

LEMMA VerdictEnds == Verdict \in EndedRuns
  BY DEF Verdict, EndedRuns

LEMMA EndTurnKeeps ==
    ASSUME TypeInv, Schedule \/ Finalize
    PROVE  TypeInv' /\ step' = step
<1>1. PICK key \in Key: key = k
  BY HeldFacts
<1>2. PICK s \in OpenRuns \union EndedRuns: run' = [run EXCEPT ![k] = s]
  <2>1. CASE Schedule
    BY <2>1 DEF Schedule, TypeInv, Held, OpenRuns
  <2>2. CASE Finalize /\ OpenAt(k) = {}
    BY <2>2, VerdictEnds DEF Finalize
  <2>3. CASE Finalize /\ OpenAt(k) # {}
    <3>1. step[k][First(OpenAt(k))].status \in OpenSteps
      BY <2>3, FirstOpen, HeldFacts DEF OpenAt
    <3> QED
      BY <2>3, <3>1 DEF Finalize, OpenSteps, OpenRuns
  <2> QED
    BY <2>1, <2>2, <2>3
<1> QED
  BY <1>1, <1>2, RunWrites, IdleFacts DEF Schedule, Finalize, world

\* What settles a message.
LEMMA MessageKeeps ==
    ASSUME TypeInv, NEW key \in Key, NEW j \in Position(key), Settled(key, j) \/ SendAgain(key, j)
    PROVE  TypeInv' /\ step' = step
<1>1. /\ step' = step /\ done' = done /\ run' = run /\ worker' = worker
      /\ saved' = saved /\ trigger' = trigger /\ order' = order
  BY DEF Settled, SendAgain
<1>2. PICK outcome \in {"pending", "succeeded", "ambiguous", "dead_letter"}:
        message' = [message EXCEPT ![key][j] = outcome]
  BY DEF Settled, SendAgain
<1> DEFINE x == [message[key] EXCEPT ![j] = outcome]
<1>3. x \in Messages(key) /\ message' = [message EXCEPT ![key] = x]
  BY <1>2 DEF TypeInv, Shape, MessagesTyped, Messages
<1>4. MessagesTyped'
  <2> HIDE DEF x
  <2> QED
    BY <1>3, MessagesSet DEF TypeInv, Shape
<1>5. StepsTyped' /\ DoneTyped'
  BY <1>1, Untouched
<1> QED
  BY <1>1, <1>4, <1>5 DEF TypeInv, Shape, Held, At, k, i, OpenAt

-----------------------------------------------------------------------------
\* A turn of the worker that writes the steps of its run, then ends.
LEMMA TurnWrites ==
    ASSUME TypeInv, NEW x \in Rows(k), step' = [step EXCEPT ![k] = x],
           worker.pc \notin {"idle", "trigger"}, worker' \in Workers, k' = k,
           worker'.pc \in {"finalize", "schedule"},
           worker'.pc = "schedule" => worker'.state \in {"retrying", "waiting", "waiting_effect"},
           MessagesTyped', DoneTyped', order' \in [Event -> BOOLEAN],
           UNCHANGED <<saved, trigger, run>>
    PROVE  TypeInv' /\ step'[k] = x /\ \A d \in Key: d # k => step'[d] = step[d]
<1>1. PICK key \in Key: key = k
  BY HeldFacts
<1>2. StepsTyped' /\ step'[k] = x /\ \A d \in Key: d # k => step'[d] = step[d]
  BY <1>1, StepsSet DEF TypeInv, Shape
<1>3. Shape'
  BY <1>2 DEF TypeInv, Shape
<1>4. Held'
  BY DEF TypeInv, Held, At, AtStep
<1> QED
  BY <1>2, <1>3, <1>4 DEF TypeInv

\* The step in hand takes the row r.
LEMMA RowWrites ==
    ASSUME TypeInv, worker.pc \in AtStep, NEW r \in Row
    PROVE  /\ [step[k] EXCEPT ![i] = r] \in Rows(k)
           /\ [step[k] EXCEPT ![i] = r][i] = r
           /\ \A h \in Position(k): h # i => [step[k] EXCEPT ![i] = r][h] = step[k][h]
  BY HeldFacts DEF Rows

LEMMA StatusRow ==
    ASSUME TypeInv, NEW j \in Position(k), NEW status \in OpenSteps \union EndedSteps
    PROVE  /\ [step[k][j] EXCEPT !.status = status] \in Row
           /\ [step[k] EXCEPT ![j].status = status] =
                [step[k] EXCEPT ![j] = [step[k][j] EXCEPT !.status = status]]
           /\ [step[k][j] EXCEPT !.status = status].status = status
           /\ [step[k][j] EXCEPT !.status = status].why = step[k][j].why
<1>1. step[k][j] \in Row
  BY HeldFacts DEF Rows
<1> QED
  BY <1>1 DEF Row

\* The status of the step in hand is written, and nothing else of its run.
LEMMA EndsFacts ==
    ASSUME TypeInv, worker.pc \in AtStep, NEW status \in OpenSteps \union EndedSteps
    PROVE  /\ Ends(status) \in Rows(k) /\ Ends(status)[i].status = status
           /\ Ends(status)[i].why = step[k][i].why
           /\ \A h \in Position(k): h # i => Ends(status)[h] = step[k][h]
<1>1. i \in Position(k)
  BY HeldFacts
<1>2. PICK r \in Row: /\ Ends(status) = [step[k] EXCEPT ![i] = r]
                     /\ r.status = status /\ r.why = step[k][i].why
  <2>1. Ends(status) = [step[k] EXCEPT ![i] = [step[k][i] EXCEPT !.status = status]]
    BY <1>1, StatusRow DEF Ends
  <2> QED
    BY ZenonT(40), <1>1, <2>1, StatusRow
<1> QED
  BY <1>2, RowWrites

\* What the writes of one turn mean for the steps.
LEMMA MovesTurn ==
    ASSUME TypeInv, NEW x, step'[k] = x, \A d \in Key: d # k => step'[d] = step[d],
           \/ Goes(k, step[k], x)
           \/ \E j \in Position(k): Foremost(k, step[k], j) /\ EndsAt(k, step[k], x, j)
           \/ Dropped(k, step[k], x)
    PROVE  StepsMove
  BY HeldFacts DEF StepsMove, Moves

\* The step in hand goes on.
LEMMA GoesOn ==
    ASSUME TypeInv, worker.pc \in AtStep, NEW x \in Rows(k), Open(x[i]),
           x[i].status = "waiting_effect" => At("sent"),
           \A h \in Position(k): h # i => x[h] = step[k][h]
    PROVE  Goes(k, step[k], x)
  BY HeldFacts DEF Goes, Same, Open, OpenSteps, Ran, IsBlocked

LEMMA SuccessMoves ==
    ASSUME TypeInv, worker.pc \in AtStep
    PROVE  EndsAt(k, step[k], Ends("succeeded"), i)
  BY HeldFacts, EndsFacts DEF EndsAt, Ran, EndedSteps

LEMMA SkipAfterFacts ==
    ASSUME NEW x, NEW key, NEW j, NEW why, NEW h \in Position(key), DOMAIN x = Position(key),
           x \in Rows(key)
    PROVE  IF h > j /\ Open(x[h])
           THEN SkipAfter(x, j, why)[h].status = "skipped" /\ SkipAfter(x, j, why)[h].why = why
           ELSE SkipAfter(x, j, why)[h] = x[h]
  BY DEF SkipAfter, Open, Rows, Row

LEMMA ArmWaitKeeps == ASSUME TypeInv, ArmWait PROVE TypeInv' /\ StepsMove
<1>1. worker.pc = "step" /\ worker.pc \in AtStep
  BY DEF ArmWait, At, AtStep
<1> DEFINE r == [step[k][i] EXCEPT !.status = "waiting", !.armed = TRUE]
           x == [step[k] EXCEPT ![i] = r]
<1>2. r \in Row /\ r.status = "waiting"
  <2>1. step[k][i] \in Row
    BY <1>1, HeldFacts DEF Rows
  <2> QED
    BY <2>1 DEF Row, OpenSteps
<1>3. step' = [step EXCEPT ![k] = x]
  BY <1>1, HeldFacts DEF ArmWait, TypeInv, Shape, StepsTyped, Rows, Row
<1> HIDE DEF r
<1>4. x \in Rows(k) /\ x[i] = r /\ \A h \in Position(k): h # i => x[h] = step[k][h]
  BY <1>1, <1>2, RowWrites
<1> HIDE DEF x
<1>5. worker' \in Workers /\ k' = k /\ worker'.pc = "schedule" /\ worker'.state = "waiting"
  BY GotoFacts DEF ArmWait
<1>6. MessagesTyped' /\ DoneTyped' /\ order' \in [Event -> BOOLEAN]
  BY Untouched DEF ArmWait, world, TypeInv, Shape
<1>7. TypeInv' /\ step'[k] = x /\ \A d \in Key: d # k => step'[d] = step[d]
  BY <1>1, <1>3, <1>4, <1>5, <1>6, TurnWrites DEF ArmWait
<1>8. Goes(k, step[k], x)
  BY <1>1, <1>2, <1>4, GoesOn DEF Open, OpenSteps
<1> QED
  BY <1>7, <1>8, MovesTurn

\* The step in hand is left open, in another status.
LEMMA LeavesOpen ==
    ASSUME TypeInv, worker.pc \in AtStep, NEW status \in OpenSteps,
           status = "waiting_effect" => At("sent"),
           step' = [step EXCEPT ![k][i].status = status],
           worker' \in Workers, k' = k, worker'.pc = "schedule",
           worker'.state \in {"retrying", "waiting", "waiting_effect"},
           UNCHANGED <<saved, trigger, run, message, done, order>>
    PROVE  TypeInv' /\ StepsMove
<1>1. step' = [step EXCEPT ![k] = Ends(status)]
  BY DEF Ends
<1>2. Ends(status) \in Rows(k) /\ Goes(k, step[k], Ends(status))
  BY EndsFacts, GoesOn DEF Open
<1>3. MessagesTyped' /\ DoneTyped' /\ order' \in [Event -> BOOLEAN]
  BY Untouched DEF TypeInv, Shape
<1>4. worker.pc \notin {"idle", "trigger"}
  BY DEF AtStep
<1>5. TypeInv' /\ step'[k] = Ends(status) /\ \A d \in Key: d # k => step'[d] = step[d]
  BY <1>1, <1>2, <1>3, <1>4, TurnWrites
<1> QED
  BY <1>2, <1>5, MovesTurn

LEMMA WaitsKeep == ASSUME TypeInv, AwaitMessage \/ RetryStep PROVE TypeInv' /\ StepsMove
<1>1. CASE AwaitMessage
  BY <1>1, LeavesOpen, GotoFacts DEF AwaitMessage, At, AtStep, OpenSteps, world
<1>2. CASE RetryStep
  BY <1>2, LeavesOpen, GotoFacts DEF RetryStep, At, AtStep, OpenSteps, world
<1> QED
  BY <1>1, <1>2

\* The step in hand succeeds, with or without an effect.
LEMMA SucceedsNow ==
    ASSUME TypeInv, worker.pc \in AtStep, step' = [step EXCEPT ![k] = Ends("succeeded")],
           Goto("finalize"), MessagesTyped', DoneTyped', order' \in [Event -> BOOLEAN],
           UNCHANGED <<saved, trigger, run>>
    PROVE  TypeInv' /\ StepsMove
<1>1. Ends("succeeded") \in Rows(k)
  BY EndsFacts DEF EndedSteps
<1>2. worker' \in Workers /\ k' = k /\ worker'.pc = "finalize"
        /\ worker.pc \notin {"idle", "trigger"}
  BY GotoFacts DEF AtStep
<1>3. TypeInv' /\ step'[k] = Ends("succeeded") /\ \A d \in Key: d # k => step'[d] = step[d]
  BY <1>1, <1>2, TurnWrites
<1>4. Foremost(k, step[k], i) /\ EndsAt(k, step[k], Ends("succeeded"), i) /\ i \in Position(k)
  BY HeldFacts, SuccessMoves
<1> QED
  BY <1>3, <1>4, MovesTurn

LEMMA MarkSucceededKeeps == ASSUME TypeInv, MarkSucceeded PROVE TypeInv' /\ StepsMove
<1>1. MessagesTyped' /\ DoneTyped' /\ order' \in [Event -> BOOLEAN]
  BY Untouched DEF MarkSucceeded, world, TypeInv, Shape
<1> QED
  BY <1>1, SucceedsNow DEF MarkSucceeded, At, AtStep

\* One more effect of the step in hand.
LEMMA EffectCounts ==
    ASSUME TypeInv, worker.pc \in AtStep, NEW n \in Nat, done' = [done EXCEPT ![k][i] = n]
    PROVE  /\ DoneTyped' /\ done'[k][i] = n
           /\ \A j \in Position(k): j # i => done'[k][j] = done[k][j]
           /\ \A d \in Key: d # k => done'[d] = done[d]
<1> DEFINE x == [done[k] EXCEPT ![i] = n]
<1>1. x \in Counts(k) /\ x[i] = n /\ \A j \in Position(k): j # i => x[j] = done[k][j]
  BY HeldFacts DEF Counts
<1>2. done' = [done EXCEPT ![k] = x]
  OBVIOUS
<1> HIDE DEF x
<1>3. DoneTyped' /\ done'[k] = x /\ \A d \in Key: d # k => done'[d] = done[d]
  BY <1>1, <1>2, HeldFacts, DoneSet DEF TypeInv, Shape
<1> QED
  BY <1>1, <1>3

LEMMA WriteNoteKeeps == ASSUME TypeInv, WriteNote PROVE TypeInv' /\ StepsMove
<1>1. worker.pc \in AtStep
  BY DEF WriteNote, At, AtStep
<1>2. PICK n \in Nat: done' = [done EXCEPT ![k][i] = n]
  <2>1. done[k][i] \in Nat
    BY <1>1, HeldFacts DEF Counts
  <2>2. PICK n \in Nat: n = IF NewNote(k, i) THEN done[k][i] + 1 ELSE done[k][i]
    BY <2>1
  <2> QED
    BY <2>2 DEF WriteNote
<1>3. DoneTyped' /\ MessagesTyped' /\ order' \in [Event -> BOOLEAN]
  BY <1>1, <1>2, EffectCounts, Untouched DEF WriteNote, TypeInv, Shape
<1> QED
  BY <1>1, <1>3, SucceedsNow DEF WriteNote

\* The re-check does not match: the step and the open ones after it are skipped.
LEMMA GuardWrites ==
    ASSUME TypeInv, worker.pc \in AtStep, GuardMissed, Goto("finalize"),
           UNCHANGED <<saved, trigger, run, message, done, order>>
    PROVE  TypeInv' /\ StepsMove
<1> DEFINE r == [step[k][i] EXCEPT !.status = "skipped", !.why = "guard"]
           z == [step[k] EXCEPT ![i] = r]
           x == SkipAfter(z, i, "guard")
<1>1. r \in Row /\ r.status = "skipped" /\ r.why = "guard"
  <2>1. step[k][i] \in Row
    BY HeldFacts DEF Rows
  <2> QED
    BY <2>1 DEF Row, EndedSteps, Whys
<1>2. z = [step[k] EXCEPT ![i].status = "skipped", ![i].why = "guard"]
  BY HeldFacts DEF Rows, Row
<1>3. step' = [step EXCEPT ![k] = x]
  BY <1>2 DEF GuardMissed
<1> HIDE DEF r
<1>4. z \in Rows(k) /\ z[i] = r /\ \A h \in Position(k): h # i => z[h] = step[k][h]
  BY <1>1, RowWrites
<1> HIDE DEF z
<1>5. x \in Rows(k)
  BY <1>4, SkipAfterRows, HeldFacts DEF Whys
<1>6. Dropped(k, step[k], x)
  <2> SUFFICES ASSUME NEW j \in Position(k)
               PROVE  IF Open(step[k][j]) THEN x[j].status = "skipped"
                     /\ x[j].why \in {"guard", "invalid"}
                      ELSE x[j] = step[k][j]
    BY DEF Dropped
  <2>1. IF j > i /\ Open(z[j]) THEN x[j].status = "skipped" /\ x[j].why = "guard" ELSE x[j] = z[j]
    BY <1>4, SkipAfterFacts DEF Rows
  <2>2. i \in Nat /\ j \in Nat /\ (j < i => ~Open(step[k][j])) /\ Open(step[k][i])
    BY HeldFacts DEF Foremost
  <2> HIDE DEF x
  <2> QED
    BY <1>1, <1>4, <2>1, <2>2
<1> HIDE DEF x
<1>7. worker' \in Workers /\ k' = k /\ worker'.pc = "finalize"
        /\ worker.pc \notin {"idle", "trigger"}
  BY GotoFacts DEF AtStep
<1>8. MessagesTyped' /\ DoneTyped' /\ order' \in [Event -> BOOLEAN]
  BY Untouched DEF TypeInv, Shape
<1>9. TypeInv' /\ step'[k] = x /\ \A d \in Key: d # k => step'[d] = step[d]
  BY <1>3, <1>5, <1>7, <1>8, TurnWrites
<1> QED
  BY <1>6, <1>9, MovesTurn

LEMMA MarkMissedKeeps == ASSUME TypeInv, MarkMissed PROVE TypeInv' /\ StepsMove
  BY GuardWrites DEF MarkMissed, At, AtStep, world

LEMMA MoveOrderKeeps == ASSUME TypeInv, MoveOrder PROVE TypeInv' /\ StepsMove
<1>1. worker.pc \in AtStep
  BY DEF MoveOrder, At, AtStep
<1>2. CASE GuardHolds(k, i)
  <2>1. PICK n \in Nat: n = done[k][i] + 1
    BY <1>1, HeldFacts DEF Counts
  <2>2. DoneTyped'
    BY <1>1, <1>2, <2>1, EffectCounts DEF MoveOrder
  <2>3. MessagesTyped' /\ order' \in [Event -> BOOLEAN]
    BY <1>2, Untouched DEF MoveOrder, TypeInv, Shape
  <2> QED
    BY <1>1, <1>2, <2>2, <2>3, SucceedsNow DEF MoveOrder
<1>3. CASE ~GuardHolds(k, i)
  BY <1>1, <1>3, GuardWrites DEF MoveOrder
<1> QED
  BY <1>2, <1>3

\* A step that fails for good, its policy deciding about the rest.
LEMMA FailWrites ==
    ASSUME TypeInv, worker.pc \notin {"idle", "trigger"},
           NEW j \in Position(k), Foremost(k, step[k], j),
           NEW status \in {"failed", "dead_letter", "ambiguous"},
           step' = [step EXCEPT ![k] = FailsFor([step[k] EXCEPT ![j].status = status], j)],
           Goto("finalize"), UNCHANGED <<saved, trigger, run, message, done, order>>
    PROVE  TypeInv' /\ StepsMove
<1> DEFINE r == [step[k][j] EXCEPT !.status = status]
           z == [step[k] EXCEPT ![j] = r]
           x == FailsFor(z, j)
<1>1. r \in Row /\ r.status = status /\ z = [step[k] EXCEPT ![j].status = status]
  BY StatusRow DEF EndedSteps
<1>2. step' = [step EXCEPT ![k] = x]
  BY <1>1
<1> HIDE DEF r
<1>3. z \in Rows(k) /\ z[j] = r /\ \A h \in Position(k): h # j => z[h] = step[k][h]
  BY <1>1, HeldFacts DEF Rows
<1> HIDE DEF z
<1>4. x \in Rows(k)
  BY <1>3, FailsForRows, HeldFacts
<1>5. EndsAt(k, step[k], x, j)
  <2>1. ASSUME NEW h \in Position(k)
        PROVE  IF Policy(k, j) = "stop" /\ h > j /\ Open(z[h])
               THEN IsBlocked(x[h]) ELSE x[h] = z[h]
    <3>1. IF h > j /\ Open(z[h])
          THEN SkipAfter(z, j, "blocked")[h].status = "skipped"
                /\ SkipAfter(z, j, "blocked")[h].why = "blocked"
          ELSE SkipAfter(z, j, "blocked")[h] = z[h]
      BY <1>3, SkipAfterFacts DEF Rows
    <3> QED
      BY <3>1 DEF FailsFor, IsBlocked
  <2>2. Position(k) \subseteq Nat
    BY HeldFacts
  <2> HIDE DEF x
  <2>3. x[j] = r /\ Ran(r) /\ r.status # "succeeded"
    BY <1>1, <1>3, <2>1, <2>2 DEF Ran
  <2> QED
    BY <1>3, <2>1, <2>2, <2>3 DEF EndsAt
<1> HIDE DEF x
<1>6. worker' \in Workers /\ k' = k /\ worker'.pc = "finalize"
  BY GotoFacts
<1>7. MessagesTyped' /\ DoneTyped' /\ order' \in [Event -> BOOLEAN]
  BY Untouched DEF TypeInv, Shape
<1>8. TypeInv' /\ step'[k] = x /\ \A d \in Key: d # k => step'[d] = step[d]
  BY <1>2, <1>4, <1>6, <1>7, TurnWrites
<1> QED
  BY <1>5, <1>8, MovesTurn

LEMMA FailStepKeeps == ASSUME TypeInv, FailStep PROVE TypeInv' /\ StepsMove
<1>1. worker.pc \in AtStep /\ worker.pc \notin {"idle", "trigger"}
  BY DEF FailStep, At, AtStep
<1>2. i \in Position(k) /\ Foremost(k, step[k], i)
  BY <1>1, HeldFacts
<1>3. PICK status \in {"failed", "dead_letter", "ambiguous"}:
        status = IF Policy(k, i) = "stop" THEN "dead_letter" ELSE "failed"
  OBVIOUS
<1>4. step' = [step EXCEPT ![k] = FailsFor([step[k] EXCEPT ![i].status = status], i)]
  BY <1>3 DEF FailStep, Ends
<1> QED
  BY <1>1, <1>2, <1>4, FailWrites DEF FailStep, world

LEMMA ReconcileKeeps == ASSUME TypeInv, Awaited, Reconcile PROVE TypeInv' /\ StepsMove
<1>1. worker.pc = "run" /\ OpenAt(k) # {}
  BY DEF Reconcile, WaitsForMessage, At
<1>2. PICK j \in Position(k): j = First(OpenAt(k))
  BY <1>1, HeldFacts, FirstOpen DEF OpenAt
<1>3. Foremost(k, step[k], j)
  <2>1. j \in OpenAt(k) /\ \A h \in OpenAt(k): j <= h
    BY <1>1, <1>2, HeldFacts, FirstOpen
  <2> QED
    BY <2>1, HeldFacts DEF OpenAt, Foremost, Open
<1>4. PICK outcome \in {"succeeded", "ambiguous", "dead_letter"}: outcome = message[k][j]
  <2>1. message[k][j] # "none" /\ message[k][j] # "pending"
    BY <1>2, HeldFacts DEF Reconcile, WaitsForMessage, Awaited
  <2>2. message[k][j] \in {"none", "pending", "succeeded", "ambiguous", "dead_letter"}
    BY HeldFacts DEF Messages
  <2> QED
    BY <2>1, <2>2
<1>5. CASE outcome = "succeeded"
  <2> DEFINE r == [step[k][j] EXCEPT !.status = outcome]
             x == [step[k] EXCEPT ![j] = r]
  <2>1. r \in Row /\ r.status = outcome /\ x = [step[k] EXCEPT ![j].status = outcome]
    BY StatusRow DEF EndedSteps
  <2>2. step' = [step EXCEPT ![k] = x]
    BY <1>2, <1>4, <1>5, <2>1 DEF Reconcile
  <2> HIDE DEF r
  <2>3. x \in Rows(k) /\ x[j] = r /\ \A h \in Position(k): h # j => x[h] = step[k][h]
    BY <2>1, HeldFacts DEF Rows
  <2> HIDE DEF x
  <2>4. EndsAt(k, step[k], x, j)
    BY <1>5, <2>1, <2>3, HeldFacts DEF EndsAt, Ran
  <2>5. worker' \in Workers /\ k' = k /\ worker'.pc = "finalize"
    BY GotoFacts DEF Reconcile
  <2>6. MessagesTyped' /\ DoneTyped' /\ order' \in [Event -> BOOLEAN]
    BY Untouched DEF Reconcile, TypeInv, Shape, world
  <2>7. UNCHANGED <<saved, trigger, run>>
    BY DEF Reconcile
  <2>8. TypeInv' /\ step'[k] = x /\ \A d \in Key: d # k => step'[d] = step[d]
    BY <1>1, <2>2, <2>3, <2>5, <2>6, <2>7, TurnWrites
  <2> QED
    BY <1>3, <2>4, <2>8, MovesTurn
<1>6. CASE outcome # "succeeded"
  <2>1. step' = [step EXCEPT ![k] = FailsFor([step[k] EXCEPT ![j].status = outcome], j)]
    BY <1>2, <1>4, <1>6 DEF Reconcile
  <2>2. Goto("finalize") /\ UNCHANGED <<saved, trigger, run, message, done, order>>
    BY DEF Reconcile, world
  <2>3. outcome \in {"failed", "dead_letter", "ambiguous"}
    BY <1>6
  <2> QED
    BY <1>1, <1>3, <2>1, <2>2, <2>3, FailWrites
<1> QED
  BY <1>5, <1>6

LEMMA QueueMessageKeeps == ASSUME TypeInv, QueueMessage PROVE TypeInv' /\ step' = step
<1>1. worker.pc = "step" /\ worker.pc \in AtStep
  BY DEF QueueMessage, At, AtStep
<1>2. MessagesTyped' /\ DoneTyped'
  <2>1. CASE NewMessage(k, i)
    <3> DEFINE x == [message[k] EXCEPT ![i] = "pending"]
    <3>1. x \in Messages(k) /\ message' = [message EXCEPT ![k] = x]
      BY <1>1, <2>1, HeldFacts DEF QueueMessage, Messages
    <3> HIDE DEF x
    <3>2. MessagesTyped'
      BY <3>1, HeldFacts, MessagesSet DEF TypeInv, Shape
    <3>3. PICK n \in Nat: n = done[k][i] + 1
      BY <1>1, HeldFacts DEF Counts
    <3>4. DoneTyped'
      BY <1>1, <2>1, <3>3, EffectCounts DEF QueueMessage
    <3> QED
      BY <3>2, <3>4
  <2>2. CASE ~NewMessage(k, i)
    BY <2>2, Untouched DEF QueueMessage
  <2> QED
    BY <2>1, <2>2
<1>3. worker' \in Workers /\ k' = k /\ i' = i /\ worker'.pc = "sent"
  BY GotoFacts DEF QueueMessage, AtStep
<1>4. step' = step /\ UNCHANGED <<saved, trigger, run, order>>
  BY DEF QueueMessage
<1>5. StepsTyped'
  BY <1>4, Untouched
<1>6. Shape'
  BY <1>2, <1>3, <1>4, <1>5 DEF TypeInv, Shape
<1>7. Held'
  BY <1>1, <1>3, <1>4, HeldFacts DEF TypeInv, Held, At, OpenAt
<1> QED
  BY <1>4, <1>6, <1>7 DEF TypeInv

LEMMA ClaimStepKeeps == ASSUME TypeInv, ClaimStep PROVE TypeInv' /\ StepsMove
<1>1. worker.pc = "run" /\ OpenAt(k) # {} /\ run[k] = "processing"
  BY DEF ClaimStep, At, TypeInv, Held
<1>2. PICK j \in Position(k): j = First(OpenAt(k))
  BY <1>1, HeldFacts, FirstOpen DEF OpenAt
<1>3. j \in OpenAt(k) /\ \A h \in OpenAt(k): j <= h
  BY <1>1, <1>2, HeldFacts, FirstOpen
<1> DEFINE r == [step[k][j] EXCEPT !.status = "processing", !.attempts = step[k][j].attempts + 1]
           x == [step[k] EXCEPT ![j] = r]
<1>4. r \in Row /\ r.status = "processing"
  <2>1. step[k][j] \in Row
    BY HeldFacts DEF Rows
  <2>2. step[k][j].attempts + 1 \in Nat /\ "processing" \in OpenSteps
    BY <2>1 DEF Row, OpenSteps
  <2> QED
    BY <2>1, <2>2 DEF Row
<1>5. step' = [step EXCEPT ![k] = x]
  BY <1>2, HeldFacts DEF ClaimStep, TypeInv, Shape, StepsTyped, Rows, Row
<1> HIDE DEF r
<1>6. x \in Rows(k) /\ x[j] = r /\ \A h \in Position(k): h # j => x[h] = step[k][h]
  BY <1>4, HeldFacts DEF Rows
<1> HIDE DEF x
<1>7. PICK key \in Key: key = k
  BY HeldFacts
<1>8. StepsTyped' /\ step'[k] = x /\ \A d \in Key: d # k => step'[d] = step[d]
  BY <1>5, <1>6, <1>7, StepsSet DEF TypeInv, Shape
<1>9. worker' = [worker EXCEPT !.pc = "step", !.at = j]
  BY <1>2 DEF ClaimStep
<1>10. j \in Nat
  BY HeldFacts
<1>11. worker' \in Workers /\ k' = k /\ i' = j /\ worker'.pc = "step"
  BY <1>9, <1>10 DEF TypeInv, Shape, Workers, AtStep, k, i
<1>12. UNCHANGED <<saved, trigger, run, message, done, order>>
  BY DEF ClaimStep, world
<1>13. MessagesTyped' /\ DoneTyped'
  BY <1>12, Untouched
<1>14. Shape'
  BY <1>8, <1>11, <1>12, <1>13 DEF TypeInv, Shape
<1>15. \A h \in Position(k): h # j => step'[k][h] = step[k][h]
  BY <1>6, <1>8
<1>16. step'[k][j].status = "processing"
  BY <1>4, <1>6, <1>8
<1>17. \A h \in Position(k): step'[k][h].status \in OpenSteps => j <= h
  BY <1>3, <1>10, <1>15 DEF OpenAt
<1>18. Held'
  BY <1>1, <1>11, <1>12, <1>16, <1>17 DEF Held, At, AtStep, OpenAt
<1>19. Goes(k, step[k], x)
  BY <1>3, <1>4, <1>6 DEF OpenAt, Goes, Same, Open, OpenSteps, Ran, IsBlocked
<1> QED
  BY <1>8, <1>14, <1>18, <1>19, MovesTurn DEF TypeInv

LEMMA PayloadInvalidKeeps == ASSUME TypeInv, PayloadInvalid PROVE TypeInv' /\ StepsMove
<1> DEFINE x == [j \in Position(k) |->
                   IF step[k][j].status \in OpenSteps
                   THEN [step[k][j] EXCEPT !.status = "skipped", !.why = "invalid"]
                   ELSE step[k][j]]
<1>1. step' = [step EXCEPT ![k] = x]
  BY DEF PayloadInvalid
<1>2. ASSUME NEW j \in Position(k)
      PROVE  x[j] \in Row /\ IF Open(step[k][j]) THEN x[j].status = "skipped"
            /\ x[j].why = "invalid"
                             ELSE x[j] = step[k][j]
  <2>1. step[k][j] \in Row
    BY HeldFacts DEF Rows
  <2> QED
    BY <2>1 DEF Row, Open, EndedSteps, Whys
<1>3. x \in Rows(k) /\ Dropped(k, step[k], x)
  BY <1>2 DEF Rows, Dropped
<1> HIDE DEF x
<1>4. PICK key \in Key: key = k
  BY HeldFacts
<1>5. StepsTyped' /\ step'[k] = x /\ \A d \in Key: d # k => step'[d] = step[d]
  BY <1>1, <1>3, <1>4, StepsSet DEF TypeInv, Shape
<1>6. run' \in [Key -> {"absent"} \union OpenRuns \union EndedRuns]
  BY <1>4 DEF PayloadInvalid, TypeInv, Shape, EndedRuns
<1>7. UNCHANGED <<saved, trigger, message, done, order>> /\ worker' = Idle
  BY DEF PayloadInvalid, world
<1>8. Shape'
  BY <1>5, <1>6, <1>7, Untouched, IdleFacts DEF TypeInv, Shape
<1>9. Held'
  BY <1>7, IdleFacts DEF Held, At, AtStep
<1> QED
  BY <1>3, <1>5, <1>8, <1>9, MovesTurn DEF TypeInv

LEMMA MaterializeKeeps == ASSUME TypeInv, Materialize PROVE TypeInv' /\ StepsMove
<1>1. worker.pc = "trigger" /\ UNCHANGED <<saved, trigger, message, done, order>>
  BY DEF Materialize, At, world
<1>2. PICK key \in worker.pending:
        /\ IF run[key] # "absent" THEN UNCHANGED <<run, step>>
           ELSE \E status \in {"queued", "skipped", "dry_run"}:
                  /\ run' = [run EXCEPT ![key] = status]
                  /\ step' = [step EXCEPT ![key] = NewSteps(key, status)]
        /\ worker' = [worker EXCEPT !.pending = @ \ {key}]
  BY DEF Materialize
<1>3. key \in Key /\ worker' \in Workers /\ k' = k /\ worker'.pc = "trigger"
  BY <1>1, <1>2 DEF TypeInv, Shape, Workers, k
<1>4. Held'
  BY <1>1, <1>3 DEF TypeInv, Held, At, AtStep
<1>5. MessagesTyped' /\ DoneTyped'
  BY <1>1, Untouched
<1>6. CASE run[key] # "absent"
  <2>1. step' = step /\ run' = run
    BY <1>2, <1>6
  <2> QED
    BY <1>1, <1>3, <1>4, <1>5, <2>1, Untouched, NothingMoves DEF TypeInv, Shape
<1>7. CASE run[key] = "absent"
  <2>1. PICK status \in {"queued", "skipped", "dry_run"}:
          run' = [run EXCEPT ![key] = status]
                /\ step' = [step EXCEPT ![key] = NewSteps(key, status)]
    BY <1>2, <1>7
  <2>2. NewSteps(key, status) \in Rows(key) /\ Begun(key, NewSteps(key, status))
    BY DEF NewSteps, NewStep, Rows, Row, OpenSteps, EndedSteps, Whys, Begun
  <2>3. StepsTyped' /\ step'[key] = NewSteps(key, status)
          /\ \A d \in Key: d # key => step'[d] = step[d]
    BY <1>3, <2>1, <2>2, StepsSet DEF TypeInv, Shape
  <2>4. run' \in [Key -> {"absent"} \union OpenRuns \union EndedRuns]
    BY <1>3, <2>1 DEF TypeInv, Shape, OpenRuns, EndedRuns
  <2>5. StepsMove
    BY <1>3, <1>7, <2>2, <2>3 DEF StepsMove, Moves
  <2> QED
    BY <1>1, <1>3, <1>4, <1>5, <2>3, <2>4, <2>5 DEF TypeInv, Shape
<1> QED
  BY <1>6, <1>7

LEMMA RetryRunKeeps == ASSUME TypeInv, NEW key \in Key, RetryRun(key) PROVE TypeInv' /\ StepsMove
<1>1. Failures(key) # {} /\ Recoverable(key)
        /\ UNCHANGED <<saved, trigger, message, done, order, worker>>
  BY DEF RetryRun, world
<1>2. PICK t \in Position(key):
        /\ t = First(Failures(key)) /\ t \in Failures(key) /\ \A h \in Failures(key): t <= h
  <2>1. Failures(key) \subseteq 1..Len(Definition(key)) /\ Len(Definition(key)) \in Nat
    BY DefinitionFacts DEF Failures
  <2>2. IsFiniteSet(1..Len(Definition(key)))
    BY <2>1, FS_Interval
  <2>3. IsFiniteSet(Failures(key)) /\ Failures(key) \subseteq Int
    BY <2>1, <2>2, FS_Subset
  <2>4. \E m \in Failures(key): \A h \in Failures(key): m <= h
    BY <1>1, <2>3, Smallest
  <2>5. First(Failures(key)) \in Failures(key)
          /\ \A h \in Failures(key): First(Failures(key)) <= h
    BY <2>4 DEF First
  <2> QED
    BY <2>5 DEF Failures
<1> DEFINE x == [j \in Position(key) |->
                   IF \/ j = t
                      \/ j > t /\ step[key][j].status = "skipped" /\ step[key][j].why = "blocked"
                   THEN Reopened(step[key][j]) ELSE step[key][j]]
<1>3. step' = [step EXCEPT ![key] = x]
  BY <1>2 DEF RetryRun
<1>4. ASSUME NEW j \in Position(key)
      PROVE  /\ x[j] \in Row
             /\ IF j = t \/ (j > t /\ IsBlocked(step[key][j]))
                THEN x[j].status = "queued" ELSE x[j] = step[key][j]
  <2>1. step[key][j] \in Row
    BY DEF TypeInv, Shape, StepsTyped, Rows
  <2>2. Reopened(step[key][j]) \in Row /\ Reopened(step[key][j]).status = "queued"
    BY <2>1 DEF Reopened, Row, OpenSteps, Whys
  <2> QED
    BY <2>1, <2>2 DEF IsBlocked
<1>5. x \in Rows(key)
  BY <1>4 DEF Rows
<1> HIDE DEF x
<1>6. Retried(key, step[key], x, t)
  <2>1. \A h \in Position(key): h < t => step[key][h].status \notin {"failed", "dead_letter"}
    BY <1>2, PositionNat DEF Failures
  <2>2. step[key][t].status \in {"failed", "dead_letter"}
    BY <1>2 DEF Failures
  <2> QED
    BY <1>4, <2>1, <2>2 DEF Retried
<1>7. StepsTyped' /\ step'[key] = x /\ \A d \in Key: d # key => step'[d] = step[d]
  BY <1>3, <1>5, StepsSet DEF TypeInv, Shape
<1>8. /\ run' = [run EXCEPT ![key] = "queued"] /\ run[key] # "processing"
      /\ run' \in [Key -> {"absent"} \union OpenRuns \union EndedRuns]
  BY DEF RetryRun, Recoverable, TypeInv, Shape, OpenRuns
<1>9. Shape'
  BY <1>1, <1>7, <1>8, Untouched DEF TypeInv, Shape
<1>10. k' = k /\ i' = i /\ worker' = worker /\ k \in Key
  BY <1>1, HeldFacts DEF k, i
<1>11. ~At("idle") /\ ~At("trigger") => k # key
  BY <1>8 DEF TypeInv, Held
<1>12. Held'
  <2>1. CASE At("idle") \/ At("trigger")
    BY <1>1, <1>10, <2>1 DEF TypeInv, Held, At, AtStep
  <2>2. CASE ~At("idle") /\ ~At("trigger")
    <3>1. step'[k] = step[k] /\ run'[k] = run[k]
      BY <1>7, <1>8, <1>10, <1>11, <2>2 DEF TypeInv, Shape
    <3>2. OpenAt(k)' = OpenAt(k)
      BY <1>10, <3>1 DEF OpenAt
    <3> QED
      BY <1>1, <1>10, <3>1, <3>2 DEF TypeInv, Held, At
  <2> QED
    BY <2>1, <2>2
<1>13. StepsMove
  BY <1>6, <1>7 DEF StepsMove, Moves
<1> QED
  BY <1>9, <1>12, <1>13 DEF TypeInv

-----------------------------------------------------------------------------
LEMMA InitInv == Init => TypeInv /\ Awaited /\ Answering /\ Marked /\ Line
<1> SUFFICES ASSUME Init PROVE TypeInv /\ Awaited /\ Answering /\ Marked /\ Line
  OBVIOUS
<1>1. /\ step = [key \in Key |-> NewSteps(key, "queued")]
      /\ message = [key \in Key |-> [j \in Position(key) |-> "none"]]
      /\ done = [key \in Key |-> [j \in Position(key) |-> 0]]
  BY DEF Init
<1>2. ASSUME NEW key \in Key
      PROVE  /\ step[key] = NewSteps(key, "queued") /\ NewSteps(key, "queued") \in Rows(key)
             /\ \A j \in Position(key): step[key][j] = NewStep("queued")
  BY <1>1 DEF NewSteps, NewStep, Rows, Row, OpenSteps, EndedSteps, Whys
<1>3. StepsTyped /\ MessagesTyped /\ DoneTyped
  <2>1. StepsTyped
    BY <1>1, <1>2 DEF StepsTyped
  <2>2. MessagesTyped /\ DoneTyped
    BY <1>1 DEF MessagesTyped, DoneTyped, Messages, Counts
  <2> QED
    BY <2>1, <2>2
<1>4. trigger \in [Event -> Triggers]
  BY AutomationAssumption DEF Init, Triggers
<1>5. Shape
  BY <1>3, <1>4, IdleFacts DEF Init, Shape
<1>6. TypeInv
  BY <1>5, IdleFacts DEF Init, TypeInv, Held, At, AtStep
<1>7. Awaited
  BY <1>2, IdleFacts DEF Init, Awaited, At, NewStep
<1>8. Answering /\ Marked
  BY <1>1, IdleFacts DEF Init, Answering, At, Marked
<1>9. Line
  BY <1>2 DEF Line, InLine, NewStep, Ran, Open, OpenSteps, IsBlocked
<1> QED
  BY <1>6, <1>7, <1>8, <1>9

LEMMA NextKeeps == ASSUME TypeInv, Awaited, [Next]_vars PROVE TypeInv' /\ StepsMove
<1>1. CASE UNCHANGED vars
  <2>1. step' = step /\ TypeInv'
    BY <1>1 DEF vars, world, TypeInv, Shape, StepsTyped, MessagesTyped, DoneTyped, Held, At,
      k, i, OpenAt
  <2> QED
    BY <2>1, NothingMoves
<1>2. CASE \/ \E a \in Automation: Edit(a)
           \/ \E e \in Event: GiveUpTrigger(e) \/ ClaimTrigger(e) \/ OrderMoves(e)
           \/ TriggerDone \/ TriggerFails \/ Crash
  BY <1>2, TriggerKeeps, NothingMoves
<1>3. CASE Blocked \/ NoStepLeft \/ SucceedStep \/ MissGuard \/ Throw \/ PollAgain
  BY <1>3, TurnKeeps, NothingMoves
<1>4. CASE Schedule \/ Finalize \/ \E key \in Key: ClaimRun(key)
  BY <1>4, EndTurnKeeps, ClaimRunKeeps, NothingMoves
<1>5. CASE \E key \in Key: \E j \in Position(key): Settled(key, j) \/ SendAgain(key, j)
  BY <1>5, MessageKeeps, NothingMoves
<1>6. CASE QueueMessage
  BY <1>6, QueueMessageKeeps, NothingMoves
<1>7. CASE \/ Materialize \/ MarkSucceeded \/ ArmWait \/ MarkMissed \/ WriteNote \/ MoveOrder
           \/ AwaitMessage \/ RetryStep \/ FailStep \/ PayloadInvalid \/ ClaimStep \/ Reconcile
           \/ \E key \in Key: RetryRun(key)
  BY SMTT(40), <1>7, MaterializeKeeps, MarkSucceededKeeps, ArmWaitKeeps, MarkMissedKeeps,
    WriteNoteKeeps, MoveOrderKeeps, WaitsKeep, FailStepKeeps, PayloadInvalidKeeps,
    ClaimStepKeeps, ReconcileKeeps, RetryRunKeeps
<1> QED
  BY <1>1, <1>2, <1>3, <1>4, <1>5, <1>6, <1>7 DEF Next, TriggerTurn, StepTurn, RunTurn

\* A run stays, a queued message stays, and a step that succeeded stays so.
LEMMA RunsStay ==
    ASSUME TypeInv, [Next]_vars, NEW key \in Key, run[key] # "absent"
    PROVE  run'[key] # "absent"
<1>0. run \in [Key -> {"absent"} \union OpenRuns \union EndedRuns]
  BY DEF TypeInv, Shape
<1>1. CASE run' = run
  BY <1>1
<1>2. CASE Materialize
  BY <1>0, <1>2 DEF Materialize
<1>3. ASSUME NEW d \in Key, ClaimRun(d) \/ RetryRun(d) PROVE run'[key] # "absent"
  BY <1>0, <1>3 DEF ClaimRun, RetryRun
<1>4. CASE PayloadInvalid
  BY <1>0, <1>4 DEF PayloadInvalid
<1>5. CASE Schedule
  BY <1>0, <1>5 DEF Schedule, TypeInv, Held
<1>6. CASE Finalize
  <2>1. CASE OpenAt(k) = {}
    BY <1>0, <1>6, <2>1, VerdictEnds DEF Finalize, EndedRuns
  <2>2. CASE OpenAt(k) # {}
    <3>1. step[k][First(OpenAt(k))].status \in OpenSteps
      BY <2>2, FirstOpen, HeldFacts DEF OpenAt
    <3> QED
      BY <1>0, <1>6, <2>2, <3>1 DEF Finalize, OpenSteps
  <2> QED
    BY <2>1, <2>2
<1> QED
  BY <1>1, <1>2, <1>3, <1>4, <1>5, <1>6 DEF Next, TriggerTurn, StepTurn, RunTurn, Edit,
    GiveUpTrigger, ClaimTrigger, OrderMoves, TriggerDone, TriggerFails, SucceedStep,
    MarkSucceeded, ArmWait, MissGuard, MarkMissed, WriteNote, MoveOrder, QueueMessage,
    AwaitMessage, Throw, RetryStep, FailStep, ClaimStep, Blocked, NoStepLeft, PollAgain,
    Reconcile, Crash, Settled, SendAgain, vars

LEMMA MessagesStay ==
    ASSUME TypeInv, [Next]_vars, NEW key \in Key, NEW j \in Position(key),
          message[key][j] # "none"
    PROVE  message'[key][j] # "none"
<1>0. message = [d \in Key |-> message[d]] /\ \A d \in Key: message[d] \in Messages(d)
  BY DEF TypeInv, Shape, MessagesTyped
<1>1. CASE message' = message
  BY <1>1
<1>2. CASE QueueMessage
  BY <1>0, <1>2, HeldFacts DEF QueueMessage, Messages
<1>3. ASSUME NEW d \in Key, NEW g \in Position(d), Settled(d, g) \/ SendAgain(d, g)
      PROVE  message'[key][j] # "none"
  BY <1>0, <1>3 DEF Settled, SendAgain, Messages
<1> QED
  BY <1>1, <1>2, <1>3 DEF Next, TriggerTurn, StepTurn, RunTurn, Edit, GiveUpTrigger,
    ClaimTrigger, OrderMoves, Materialize, TriggerDone, TriggerFails, SucceedStep,
    MarkSucceeded, ArmWait, MissGuard, MarkMissed, WriteNote, MoveOrder, AwaitMessage, Throw,
    RetryStep, FailStep, ClaimStep, Blocked, NoStepLeft, PollAgain, Reconcile, Crash,
    ClaimRun, RetryRun, PayloadInvalid, Schedule, Finalize, vars, world

LEMMA SuccessStays ==
    ASSUME StepsMove, NEW key \in Key, NEW j \in Position(key), run[key] # "absent",
           step[key][j].status = "succeeded"
    PROVE  step'[key][j].status = "succeeded"
<1>1. PICK d \in Key: Moves(d)
  BY DEF StepsMove
<1>2. CASE d # key
  BY <1>1, <1>2 DEF Moves
<1>3. CASE d = key
  <2>1. ~Open(step[key][j]) /\ ~IsBlocked(step[key][j])
    BY DEF Open, OpenSteps, IsBlocked
  <2>2. CASE Goes(key, step[key], step'[key])
    BY <2>2 DEF Goes, Same
  <2>3. CASE \E g \in Position(key): Foremost(key, step[key], g)
          /\ EndsAt(key, step[key], step'[key], g)
    BY <2>1, <2>3, PositionNat DEF Foremost, EndsAt
  <2>4. CASE Dropped(key, step[key], step'[key])
    BY <2>1, <2>4 DEF Dropped
  <2>5. CASE \E g \in Position(key): Retried(key, step[key], step'[key], g)
    BY <2>1, <2>5 DEF Retried
  <2> QED
    BY <1>1, <1>3, <2>2, <2>3, <2>4, <2>5 DEF Moves
<1> QED
  BY <1>2, <1>3

-----------------------------------------------------------------------------
\* A step starts to wait for its message in the turn that queued it.
LEMMA NewWaits ==
    ASSUME TypeInv, StepsMove, NEW key \in Key, NEW j \in Position(key),
           step'[key][j].status = "waiting_effect"
    PROVE  step[key][j].status = "waiting_effect" \/ (At("sent") /\ key = k /\ j = i)
<1>1. PICK d \in Key: Moves(d)
  BY DEF StepsMove
<1>2. CASE d # key
  BY <1>1, <1>2 DEF Moves
<1>3. CASE d = key
  <2>1. Open(step'[key][j]) /\ ~Ran(step'[key][j]) /\ ~IsBlocked(step'[key][j])
    BY DEF Open, OpenSteps, Ran, IsBlocked
  <2>2. CASE Goes(key, step[key], step'[key])
    BY <2>2 DEF Goes
  <2>3. ASSUME NEW g \in Position(key), EndsAt(key, step[key], step'[key], g)
        PROVE  step[key][j].status = "waiting_effect"
    <3>1. g \in Nat /\ j \in Nat
      BY PositionNat
    <3> QED
      BY <2>1, <2>3, <3>1 DEF EndsAt
  <2>4. CASE Dropped(key, step[key], step'[key])
    BY <2>1, <2>4 DEF Dropped
  <2>5. CASE \E g \in Position(key): Retried(key, step[key], step'[key], g)
    BY <2>1, <2>5 DEF Retried
  <2>6. CASE Begun(key, step'[key])
    BY <2>6 DEF Begun
  <2> QED
    BY <1>1, <1>3, <2>2, <2>3, <2>4, <2>5, <2>6 DEF Moves
<1> QED
  BY <1>2, <1>3

LEMMA AwaitedStep ==
    ASSUME TypeInv, Awaited, [Next]_vars PROVE Awaited'
<1>1. StepsMove
  BY NextKeeps
<1>2. ASSUME NEW key \in Key, NEW j \in Position(key), step'[key][j].status = "waiting_effect"
      PROVE  message'[key][j] # "none"
  <2>1. message[key][j] # "none"
    BY <1>1, <1>2, NewWaits DEF Awaited
  <2> QED
    BY <2>1, MessagesStay
<1>3. ASSUME At("sent")' PROVE message'[k'][i'] # "none"
  <2>1. CASE worker' = worker
    <3>1. k' = k /\ i' = i /\ At("sent")
      BY <1>3, <2>1 DEF At, k, i
    <3>2. k \in Key /\ i \in Position(k) /\ message[k][i] # "none"
      BY <3>1, HeldFacts DEF Awaited, At, AtStep
    <3> QED
      BY <3>1, <3>2, MessagesStay
  <2>2. CASE QueueMessage
    <3>1. k' = k /\ i' = i /\ k \in Key /\ i \in Position(k)
      BY <2>2, GotoFacts, HeldFacts DEF QueueMessage, At, AtStep
    <3>2. CASE NewMessage(k, i)
      <4>1. message' = [message EXCEPT ![k][i] = "pending"]
        BY <2>2, <3>2 DEF QueueMessage
      <4>2. message = [d \in Key |-> message[d]] /\ message[k] \in Messages(k)
        BY <3>1 DEF TypeInv, Shape, MessagesTyped
      <4>3. message'[k][i] = "pending"
        BY <3>1, <4>1, <4>2 DEF Messages
      <4> QED
        BY <3>1, <4>3
    <3>3. CASE ~NewMessage(k, i)
      BY <2>2, <3>1, <3>3 DEF QueueMessage, NewMessage
    <3> QED
      BY <3>2, <3>3
  <2>3. CASE worker'.pc # "sent"
    BY <1>3, <2>3 DEF At
  <2>4. worker' = worker \/ QueueMessage \/ worker'.pc # "sent"
    <3>1. CASE worker' = worker \/ QueueMessage
      BY <3>1
    <3>2. CASE \/ \E e \in Event: ClaimTrigger(e)
               \/ \E key \in Key: ClaimRun(key)
               \/ TriggerDone \/ TriggerFails \/ PayloadInvalid \/ Schedule \/ Finalize \/ Crash
      BY <3>2, IdleFacts DEF ClaimTrigger, ClaimRun, TriggerDone, TriggerFails,
        PayloadInvalid, Schedule, Finalize, Crash, Workers
    <3>3. CASE \/ SucceedStep \/ MarkSucceeded \/ ArmWait \/ MissGuard \/ MarkMissed
               \/ WriteNote \/ MoveOrder \/ AwaitMessage \/ Throw \/ RetryStep \/ FailStep
               \/ Blocked \/ NoStepLeft \/ PollAgain \/ Reconcile
      BY <3>3, GotoFacts DEF SucceedStep, MarkSucceeded, ArmWait, MissGuard, MarkMissed,
        WriteNote, MoveOrder, AwaitMessage, Throw, RetryStep, FailStep, Blocked, NoStepLeft,
        PollAgain, Reconcile, AtStep
    <3>4. CASE Materialize \/ ClaimStep
      BY <3>4 DEF Materialize, ClaimStep, At, TypeInv, Shape, Workers
    <3> QED
      BY <3>1, <3>2, <3>3, <3>4 DEF Next, TriggerTurn, StepTurn, RunTurn, Edit, GiveUpTrigger,
        OrderMoves, RetryRun, Settled, SendAgain, vars
  <2> QED
    BY <2>1, <2>2, <2>3, <2>4
<1> QED
  BY <1>2, <1>3 DEF Awaited

LEMMA AnsweringStep ==
    ASSUME TypeInv, Answering, [Next]_vars PROVE Answering'
<1> SUFFICES ASSUME At("trigger")', NEW a \in Automation
             PROVE  \E d \in Definitions: <<k'[1], a, d>> \in worker'.pending
                   \/ run'[<<k'[1], a, d>>] # "absent"
  BY DEF Answering
<1>1. CASE worker' = worker
  <2>1. At("trigger") /\ k' = k
    BY <1>1 DEF At, k
  <2>2. PICK d \in Definitions: <<k[1], a, d>> \in worker.pending
          \/ run[<<k[1], a, d>>] # "absent"
    BY <2>1 DEF Answering
  <2>3. <<k[1], a, d>> \in Key
    BY HeldFacts DEF Key
  <2> QED
    BY <1>1, <2>1, <2>2, <2>3, RunsStay
<1>2. ASSUME NEW e \in Event, ClaimTrigger(e)
      PROVE  \E d \in Definitions: <<k'[1], a, d>> \in worker'.pending
            \/ run'[<<k'[1], a, d>>] # "absent"
  <2>1. PICK b \in Automation, c \in Definitions: b = (CHOOSE x \in Automation: TRUE)
          /\ c = (CHOOSE x \in Definitions: TRUE)
    BY AutomationAssumption
  <2>2. worker' = [Idle EXCEPT !.pc = "trigger",
                               !.pending = {<<e, x, saved[x]>>: x \in Automation},
                               !.key = <<e, b, c>>]
    BY <1>2, <2>1 DEF ClaimTrigger
  <2>3. k'[1] = e /\ worker'.pending = {<<e, x, saved[x]>>: x \in Automation}
    BY <2>2 DEF k, Idle
  <2>4. saved[a] \in Definitions
    BY DEF TypeInv, Shape
  <2> QED
    BY <2>3, <2>4
<1>3. CASE Materialize
  <2>1. At("trigger") /\ k' = k
    BY <1>3 DEF Materialize, At, k, TypeInv, Shape, Workers
  <2>2. PICK d \in Definitions: <<k[1], a, d>> \in worker.pending
          \/ run[<<k[1], a, d>>] # "absent"
    BY <2>1 DEF Answering
  <2>3. PICK key \in worker.pending:
          /\ IF run[key] # "absent" THEN UNCHANGED <<run, step>>
             ELSE \E status \in {"queued", "skipped",
                   "dry_run"}: run' = [run EXCEPT ![key] = status]
          /\ worker' = [worker EXCEPT !.pending = @ \ {key}]
    BY <1>3 DEF Materialize
  <2>4. <<k[1], a, d>> \in Key /\ key \in Key
    BY HeldFacts, <2>3 DEF Key, TypeInv, Shape, Workers
  <2>5. worker'.pending = worker.pending \ {key}
    BY <2>3 DEF TypeInv, Shape, Workers
  <2>6. run'[key] # "absent"
    BY <2>3, <2>4 DEF TypeInv, Shape
  <2> QED
    BY <2>1, <2>2, <2>4, <2>5, <2>6, RunsStay
<1>4. CASE worker'.pc # "trigger"
  BY <1>4 DEF At
<1>5. \/ worker' = worker \/ worker'.pc # "trigger" \/ Materialize
      \/ \E e \in Event: ClaimTrigger(e)
  <2>1. CASE \/ \E key \in Key: ClaimRun(key)
             \/ TriggerDone \/ TriggerFails \/ PayloadInvalid \/ Schedule \/ Finalize \/ Crash
    BY <2>1, IdleFacts DEF ClaimRun, TriggerDone, TriggerFails, PayloadInvalid, Schedule,
      Finalize, Crash, Workers
  <2>2. CASE \/ SucceedStep \/ MarkSucceeded \/ ArmWait \/ MissGuard \/ MarkMissed \/ QueueMessage
             \/ WriteNote \/ MoveOrder \/ AwaitMessage \/ Throw \/ RetryStep \/ FailStep
             \/ Blocked \/ NoStepLeft \/ PollAgain \/ Reconcile
    BY <2>2, GotoFacts DEF SucceedStep, MarkSucceeded, ArmWait, MissGuard, MarkMissed,
      QueueMessage, WriteNote, MoveOrder, AwaitMessage, Throw, RetryStep, FailStep, Blocked,
      NoStepLeft, PollAgain, Reconcile, AtStep
  <2>3. CASE ClaimStep
    BY <2>3 DEF ClaimStep, TypeInv, Shape, Workers
  <2> QED
    BY <2>1, <2>2, <2>3 DEF Next, TriggerTurn, StepTurn, RunTurn, Edit, GiveUpTrigger,
      OrderMoves, RetryRun, Settled, SendAgain, vars
<1> QED
  BY <1>1, <1>2, <1>3, <1>4, <1>5

LEMMA AnsweredStep ==
    ASSUME TypeInv, Answering, EventsAreAnswered, [Next]_vars PROVE EventsAreAnswered'
<1> SUFFICES ASSUME NEW e \in Event, trigger'[e].status = "succeeded", NEW a \in Automation
             PROVE  \E d \in Definitions: run'[<<e, a, d>>] # "absent"
  BY DEF EventsAreAnswered
<1>1. trigger \in [Event -> Triggers]
  BY DEF TypeInv, Shape
<1>2. CASE trigger[e].status = "succeeded"
  <2>1. PICK d \in Definitions: run[<<e, a, d>>] # "absent"
    BY <1>2 DEF EventsAreAnswered
  <2>2. <<e, a, d>> \in Key
    BY DEF Key
  <2> QED
    BY <2>1, <2>2, RunsStay
<1>3. CASE trigger[e].status # "succeeded"
  <2>1. ASSUME NEW f \in Event, GiveUpTrigger(f) \/ ClaimTrigger(f) PROVE FALSE
    <3>1. CASE f = e
      BY <1>1, <2>1, <3>1 DEF GiveUpTrigger, ClaimTrigger, Triggers
    <3>2. CASE f # e
      BY <1>1, <1>3, <2>1, <3>2 DEF GiveUpTrigger, ClaimTrigger
    <3> QED
      BY <3>1, <3>2
  <2>2. k \in Key /\ k[1] \in Event
    BY HeldFacts DEF Key
  <2>3. ~TriggerFails
    BY <1>1, <1>3, <2>2 DEF TriggerFails, Triggers
  <2>4. trigger' # trigger
    BY SMTT(40), <1>3
  <2>5. TriggerDone
    BY <2>1, <2>3, <2>4 DEF Next, TriggerTurn, StepTurn, RunTurn, Edit, GiveUpTrigger,
      ClaimTrigger, OrderMoves, Materialize, SucceedStep, MarkSucceeded, ArmWait, MissGuard,
      MarkMissed, WriteNote, MoveOrder, QueueMessage, AwaitMessage, Throw, RetryStep,
      FailStep, ClaimStep, Blocked, NoStepLeft, PollAgain, Reconcile, Crash, ClaimRun,
      RetryRun, PayloadInvalid, Schedule, Finalize, Settled, SendAgain, vars
  <2>6. k[1] = e /\ At("trigger") /\ worker.pending = {} /\ run' = run
    BY <1>1, <1>3, <2>2, <2>5 DEF TriggerDone, AllMade
  <2> QED
    BY <2>6 DEF Answering
<1> QED
  BY <1>2, <1>3

\* What writes an effect of a step: the worker, from the step in its hands.
Acting(key, j) ==
    /\ At("step") /\ key = k /\ j = i
    /\ done'[key][j] = done[key][j] + 1
    /\ run' = run
    /\ \/ Action(key, j) = "note" /\ done[key][j] = 0
       \/ Action(key, j) = "status" /\ GuardHolds(key, j) /\ step'[key][j].status = "succeeded"
       \/ Action(key, j) = "send" /\ message[key][j] = "none" /\ message'[key][j] = "pending"

LEMMA EffectsAct ==
    ASSUME TypeInv, [Next]_vars, NEW key \in Key, NEW j \in Position(key),
           done'[key][j] # done[key][j]
    PROVE  Acting(key, j)
<1>1. done' # done
  BY SMTT(40)
<1>2. WriteNote \/ MoveOrder \/ QueueMessage
  BY <1>1 DEF Next, TriggerTurn, StepTurn, RunTurn, Edit, GiveUpTrigger, ClaimTrigger,
    OrderMoves, Materialize, TriggerDone, TriggerFails, SucceedStep, MarkSucceeded, ArmWait,
    MissGuard, MarkMissed, AwaitMessage, Throw, RetryStep, FailStep, ClaimStep, Blocked,
    NoStepLeft, PollAgain, Reconcile, Crash, ClaimRun, RetryRun, PayloadInvalid, Schedule,
    Finalize, Settled, SendAgain, vars, world
<1>3. At("step") /\ worker.pc \in AtStep /\ run' = run
  BY <1>2 DEF WriteNote, MoveOrder, QueueMessage, At, AtStep
<1>4. k \in Key /\ i \in Position(k) /\ done[k] \in Counts(k)
  BY <1>3, HeldFacts
<1>5. PICK n \in Nat: n = done[k][i]
  BY <1>4 DEF Counts
<1>6. n + 1 \in Nat /\ done' = [done EXCEPT ![k][i] = n + 1]
  <2>1. CASE WriteNote
    <3>1. NewNote(k, i)
      <4> SUFFICES ASSUME ~NewNote(k, i) PROVE FALSE
        OBVIOUS
      <4>1. done' = [done EXCEPT ![k][i] = n]
        BY <1>5, <2>1 DEF WriteNote
      <4>2. /\ done'[k][i] = n /\ \A g \in Position(k): g # i => done'[k][g] = done[k][g]
            /\ \A d \in Key: d # k => done'[d] = done[d]
        BY <1>3, <4>1, EffectCounts
      <4> QED
        BY <1>5, <4>2
    <3> QED
      BY <1>5, <2>1, <3>1 DEF WriteNote
  <2>2. CASE MoveOrder
    BY <1>1, <1>5, <2>2 DEF MoveOrder
  <2>3. CASE QueueMessage
    BY <1>1, <1>5, <2>3 DEF QueueMessage
  <2> QED
    BY <1>2, <2>1, <2>2, <2>3
<1>7. /\ done'[k][i] = n + 1 /\ \A g \in Position(k): g # i => done'[k][g] = done[k][g]
      /\ \A d \in Key: d # k => done'[d] = done[d]
  BY <1>3, <1>6, EffectCounts
<1>8. key = k /\ j = i
  BY <1>7
<1>9. CASE WriteNote
  <2>1. done[k][i] = 0
    <3> SUFFICES ASSUME ~NewNote(k, i) PROVE FALSE
      BY DEF NewNote
    <3>1. done' = [done EXCEPT ![k][i] = n]
      BY <1>5, <1>9 DEF WriteNote
    <3>2. done'[k][i] = n
      BY <1>3, <3>1, EffectCounts
    <3> QED
      BY <1>7, <3>2
  <2> QED
    BY <1>3, <1>5, <1>7, <1>8, <1>9, <2>1 DEF Acting, WriteNote
<1>10. CASE MoveOrder
  <2>1. GuardHolds(k, i)
    BY <1>1, <1>10 DEF MoveOrder
  <2>2. step' = [step EXCEPT ![k] = Ends("succeeded")] /\ step = [d \in Key |-> step[d]]
    BY <1>10, <2>1 DEF MoveOrder, TypeInv, Shape, StepsTyped
  <2>3. step'[k][i].status = "succeeded"
    BY <1>3, <1>4, <2>2, EndsFacts DEF EndedSteps
  <2> QED
    BY <1>3, <1>5, <1>7, <1>8, <1>10, <2>1, <2>3 DEF Acting, MoveOrder
<1>11. CASE QueueMessage
  <2>1. NewMessage(k, i) /\ message' = [message EXCEPT ![k][i] = "pending"]
    BY <1>1, <1>11 DEF QueueMessage
  <2>2. message = [d \in Key |-> message[d]] /\ message[k] \in Messages(k)
    BY <1>4 DEF TypeInv, Shape, MessagesTyped
  <2>3. message'[k][i] = "pending"
    BY <1>4, <2>1, <2>2 DEF Messages
  <2> QED
    BY <1>3, <1>5, <1>7, <1>8, <1>11, <2>1, <2>3 DEF Acting, QueueMessage, NewMessage
<1> QED
  BY <1>2, <1>9, <1>10, <1>11

LEMMA MarkedStep ==
    ASSUME TypeInv, Awaited, Marked, [Next]_vars PROVE Marked'
<1> SUFFICES ASSUME NEW key \in Key, NEW j \in Position(key), done'[key][j] # 0
             PROVE  /\ Action(key, j) = "status" =>
                         run'[key] # "absent" /\ step'[key][j].status = "succeeded"
                    /\ Action(key, j) = "send" => message'[key][j] # "none"
  BY DEF Marked
<1>1. StepsMove
  BY NextKeeps
<1>2. CASE done'[key][j] = done[key][j]
  BY <1>1, <1>2, RunsStay, MessagesStay, SuccessStays DEF Marked
<1>3. CASE done'[key][j] # done[key][j]
  <2>1. Acting(key, j)
    BY <1>3, EffectsAct
  <2>2. run[key] = "processing" /\ run' = run
    BY <2>1, HeldFacts DEF Acting, At, AtStep
  <2> QED
    BY <2>1, <2>2 DEF Acting
<1> QED
  BY <1>2, <1>3

\* The effect of the step in hand is its first, and its guard holds.
LEMMA OnceStep ==
    ASSUME TypeInv, Marked, [Next]_vars, NEW key \in Key, NEW j \in Position(key),
           done'[key][j] # done[key][j]
    PROVE  /\ done[key][j] = 0
           /\ Action(key, j) = "status" /\ Guards(key, j) # {} => order[key[1]]
<1>1. Acting(key, j)
  BY EffectsAct
<1>2. key = k /\ j = i /\ step[key][j].status = "processing"
  BY <1>1, HeldFacts DEF Acting, At, AtStep
<1>3. done[key][j] = 0
  BY <1>1, <1>2 DEF Acting, Marked
<1>4. Action(key, j) = "status" /\ Guards(key, j) # {} => order[key[1]]
  BY <1>1 DEF Acting, GuardHolds
<1> QED
  BY <1>3, <1>4

\* And what had to succeed before it did.
LEMMA DueStep ==
    ASSUME TypeInv, Line, [Next]_vars, NEW key \in Key, NEW j \in Position(key),
           done'[key][j] # done[key][j], NEW h \in 1..j-1, Policy(key, h) = "stop"
    PROVE  step[key][h].status = "succeeded"
<1>1. Acting(key, j)
  BY EffectsAct
<1>2. Foremost(key, step[key], j)
  BY <1>1, HeldFacts DEF Acting, At, AtStep
<1>3. h \in Position(key) /\ h < j
  BY DefinitionFacts
<1>4. InLine(step[key][h], step[key][j])
  BY <1>3 DEF Line
<1> QED
  BY <1>2, <1>3, <1>4 DEF InLine, Foremost

-----------------------------------------------------------------------------
RunInv == TypeInv /\ Awaited /\ Answering /\ Marked /\ EventsAreAnswered

LEMMA RunInvariant == Spec => []RunInv
<1>1. Init => RunInv
  <2> SUFFICES ASSUME Init PROVE RunInv
    OBVIOUS
  <2>1. \A e \in Event: trigger[e].status # "succeeded"
    BY DEF Init
  <2> QED
    BY <2>1, InitInv DEF RunInv, EventsAreAnswered
<1>2. RunInv /\ [Next]_vars => RunInv'
  BY NextKeeps, AwaitedStep, AnsweringStep, MarkedStep, AnsweredStep DEF RunInv
<1> QED
  BY <1>1, <1>2, PTL DEF Spec

\* Type correctness: the values of every variable, and that the trigger or the
\* run in the worker's hands is claimed.
THEOREM TypeOKHolds == Spec => []TypeOK
<1>1. RunInv => TypeOK
  BY DEF RunInv, TypeInv, Shape, Held, TypeOK, StepsTyped, MessagesTyped, DoneTyped, Rows,
    Row, Messages, Counts, Triggers
<1> QED
  BY <1>1, RunInvariant, PTL

\* A trigger that reports success left a run of every automation: for any
\* number of events, automations, definitions, attempts, edits and crashes.
THEOREM EventsAreAnsweredHolds == Spec => []EventsAreAnswered
<1>1. RunInv => EventsAreAnswered
  BY DEF RunInv
<1> QED
  BY <1>1, RunInvariant, PTL

\* An effect happens once and under its guard, whatever crashes, retries and
\* definitions: the part of EffectsAreDue that asks nothing of the definitions.
THEOREM EffectsHappenOnceHolds ==
    Spec => [][\A key \in Key: \A j \in Position(key): done'[key][j] # done[key][j] =>
                 /\ done[key][j] = 0
                 /\ Action(key, j) = "status" /\ Guards(key, j) # {} => order[key[1]]]_vars
<1>1. RunInv /\ [Next]_vars =>
        [\A key \in Key: \A j \in Position(key): done'[key][j] # done[key][j] =>
           /\ done[key][j] = 0
           /\ Action(key, j) = "status" /\ Guards(key, j) # {} => order[key[1]]]_vars
  BY OnceStep DEF RunInv
<1> QED
  BY <1>1, RunInvariant, PTL DEF Spec

\* An effect happens once, after every earlier step that stops the run has
\* succeeded, and under its guard: for definitions of any length in which no
\* step that may fail alone precedes one that stops the run before a third.
\* Elsewhere a seller's retry reopens what another failure blocked.
THEOREM EffectsAreDueHolds == ASSUME StopsFirst PROVE Spec => EffectsAreDue
<1>1. RunInv /\ Line /\ [Next]_vars => Line'
  BY LineStep, NextKeeps DEF RunInv
<1>2. RunInv /\ Line /\ [Next]_vars =>
        [\A key \in Key: \A j \in Position(key): done'[key][j] # done[key][j] =>
           /\ done[key][j] = 0
           /\ \A h \in 1..j-1: Policy(key, h) = "stop" => step[key][h].status = "succeeded"
           /\ Action(key, j) = "status" /\ Guards(key, j) # {} => order[key[1]]]_vars
  BY OnceStep, DueStep DEF RunInv
<1>3. Init => Line
  BY InitInv
<1> QED
  BY <1>1, <1>2, <1>3, RunInvariant, PTL DEF Spec, EffectsAreDue
=============================================================================
