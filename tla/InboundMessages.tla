-------------------------- MODULE InboundMessages --------------------------
(***************************************************************************)
(* Incoming WhatsApp messages of one chat.  The sidecar spools each one to *)
(* disk and offers it to the app until the app acknowledges it             *)
(* (sidecars/whatsapp/inbound-spool.ts, behind a circuit breaker); the app *)
(* stores an ingress row, claims it under a lease and puts the message in  *)
(* the inbox in one business command (lib/whatsapp/inbound-ingress.ts,     *)
(* inbound-processor.ts), from the route's request, from its own worker    *)
(* (inbound-worker.ts) or after an operator's retry (inbound-recovery.ts). *)
(* The chat can be deleted meanwhile (chat-delete.ts).                     *)
(*                                                                         *)
(* Left out: unreadable spool files and their quarantine, pacing, phone    *)
(* echoes, the account check and identities bound to other content.        *)
(***************************************************************************)
EXTENDS Integers, SequencesExt

CONSTANTS
    Message,
    Bad,          \* messages whose envelope the app's schema refuses
    Handler,      \* requests and drains running in the app
    OpenAfter,    \* BREAKER_OPEN_AFTER
    Budget,       \* MAX_ATTEMPTS_PER_BUDGET
    MaxFaults,    \* bound: crashes, timeouts, failed attempts and leases lost alive
    MaxTurns      \* bound: messages WhatsApp sends again, operator retries
                  \* and deletions of the chat, together

ASSUME InboundAssumption ==
    /\ Bad \subseteq Message
    /\ {OpenAfter, Budget} \subseteq Nat \ {0}
    /\ {MaxFaults, MaxTurns} \subseteq Nat

VARIABLES
    spool,     \* Seq(Message): the files on disk, oldest first
    file,      \* [Message -> [state, rest]]; rest: passes it must sit out
    breaker,   \* [state, failures]
    pass,      \* [on, tried, probed]: the running flush
    post,      \* [pc, message, probe, answer]: its request to the app
    row,       \* [Message -> ProviderIngressEvent: status, left, lease, expired, due]
    applied,   \* messages whose command the kernel has committed
    copies,    \* [Message -> Nat]: the message in the inbox
    handler,   \* [Handler -> [pc, message, lease, heard]]
    used       \* [faults, turns]: the bounds

sidecarVars == <<spool, file, breaker, pass, post>>
rowVars == <<row, applied, copies>>
vars == <<sidecarVars, rowVars, handler, used>>

Someone == CHOOSE m \in Message: TRUE
NoFile == [state |-> "none", rest |-> 0]
NoPass == [on |-> FALSE, tried |-> {}, probed |-> FALSE]
NoPost == [pc |-> "none", message |-> Someone, probe |-> FALSE, answer |-> "none"]
NoRow == [status |-> "absent", left |-> Budget, lease |-> 0, expired |-> FALSE, due |-> TRUE]
Free == [pc |-> "idle", message |-> Someone, lease |-> 0, heard |-> FALSE]
Closed == [state |-> "closed", failures |-> 0]

Init ==
    /\ spool = <<>>
    /\ file = [m \in Message |-> NoFile]
    /\ breaker = Closed /\ pass = NoPass /\ post = NoPost
    /\ row = [m \in Message |-> NoRow]
    /\ applied = {}
    /\ copies = [m \in Message |-> 0]
    /\ handler = [h \in Handler |-> Free]
    /\ used = [faults |-> 0, turns |-> 0]

Use(bound, limit) == used[bound] < limit /\ used' = [used EXCEPT ![bound] = @ + 1]

-----------------------------------------------------------------------------
\* The sidecar.

Ended(status) == status \in {"applied", "chat_deleted"}
Known(m) == file[m].state # "none" \/ row[m].status # "absent"

\* enqueue: on disk before the provider's callback returns.  WhatsApp sends a
\* message once, and may send it again after a reconnect.
Hear(m) ==
    /\ file[m].state = "none"
    /\ IF Known(m) THEN Use("turns", MaxTurns) ELSE UNCHANGED used
    /\ file' = [file EXCEPT ![m] = [NoFile EXCEPT !.state = "pending"]]
    /\ spool' = Append(spool, m)
    /\ UNCHANGED <<breaker, pass, post, rowVars, handler>>

StartPass ==
    /\ ~pass.on
    /\ pass' = [NoPass EXCEPT !.on = TRUE]
    /\ UNCHANGED <<spool, file, breaker, post, rowVars, handler, used>>

\* breakerPhase: the cool-down has ended.
HalfOpen ==
    /\ breaker.state = "open"
    /\ breaker' = [breaker EXCEPT !.state = "half-open"]
    /\ UNCHANGED <<spool, file, pass, post, rowVars, handler, used>>

MayAsk == breaker.state = "closed" \/ (breaker.state = "half-open" /\ ~pass.probed)

\* nextDue: a committed record waits for nothing.
Due(m) ==
    /\ m \notin pass.tried
    /\ \/ file[m].state = "committed"
       \/ file[m].state = "pending" /\ file[m].rest = 0 /\ MayAsk

OldestDue(m) == LET due == SelectSeq(spool, Due) IN due # <<>> /\ Head(due) = m

\* deliver: the request is sent.
Ask(m) ==
    /\ pass.on /\ post.pc = "none"
    /\ OldestDue(m) /\ file[m].state = "pending"
    /\ pass' = [pass EXCEPT !.tried = @ \union {m}]
    /\ post' = [NoPost EXCEPT !.pc = "sent", !.message = m,
                              !.probe = breaker.state = "half-open"]
    /\ UNCHANGED <<spool, file, breaker, rowVars, handler, used>>

EndPass ==
    /\ pass.on /\ post.pc = "none"
    /\ \A m \in Message: ~OldestDue(m)
    /\ pass' = NoPass
    /\ file' = [m \in Message |->
                  IF file[m].rest = 2 /\ m \notin pass.tried THEN [file[m] EXCEPT !.rest = 1]
                  ELSE file[m]]
    /\ UNCHANGED <<spool, breaker, post, rowVars, handler, used>>

\* nextAttemptAt passes.
Wake(m) ==
    /\ file[m].rest = 1
    /\ file' = [file EXCEPT ![m].rest = 0]
    /\ UNCHANGED <<spool, breaker, pass, post, rowVars, handler, used>>

\* breakerNote.
Counted == [breaker EXCEPT !.failures = IF @ < OpenAfter THEN @ + 1 ELSE @]

Opens == \/ breaker.state = "half-open"
         \/ breaker.state = "closed" /\ Counted.failures >= OpenAfter

NotedSuccess == Closed

NotedFailure == IF Opens THEN [Counted EXCEPT !.state = "open"] ELSE Counted

Probed == [pass EXCEPT !.probed = @ \/ post.probe]

\* The app took the message; a slow success counts against it all the same.
Acknowledge ==
    /\ post.answer = "taken"
    /\ file' = [file EXCEPT ![post.message] = [state |-> "committed", rest |-> 0]]
    /\ breaker' \in {NotedSuccess, NotedFailure}
    /\ post' = [post EXCEPT !.pc = "finish"]

(* mutant: a record the app refuses counts against the app's health *)
PostponeCounted ==
    /\ post.answer \in {"failure", "refused"}
    /\ file' = [file EXCEPT ![post.message].rest = 2]
    /\ breaker' = NotedFailure
    /\ post' = NoPost

\* scheduleFailure; a refusal of the record says nothing of the app's health.
Postpone ==
    /\ post.answer \in {"failure", "refused"}
    /\ file' = [file EXCEPT ![post.message].rest = 2]
    /\ breaker' = IF post.answer = "refused" THEN breaker ELSE NotedFailure
    /\ post' = NoPost

Judge ==
    /\ post.pc = "answered"
    /\ Acknowledge \/ Postpone
    /\ pass' = Probed
    /\ UNCHANGED <<spool, rowVars, handler, used>>

\* finishCommitted: shown to open browsers, then removed; after a restart from
\* the record alone.
MayFinish(m) ==
    /\ file[m].state = "committed"
    /\ \/ post.pc = "finish" /\ post.message = m
       \/ pass.on /\ post.pc = "none" /\ OldestDue(m)

Finish(m) ==
    /\ MayFinish(m)
    /\ file' = [file EXCEPT ![m] = NoFile]
    /\ spool' = Remove(spool, m)
    /\ post' = NoPost
    /\ UNCHANGED <<breaker, pass, rowVars, handler, used>>

\* Showing or removing it fails: tried again in the next pass, whatever its
\* back-off says.
StaysCommitted(m) ==
    /\ MayFinish(m)
    /\ Use("faults", MaxFaults)
    /\ pass' = [pass EXCEPT !.tried = @ \union {m}]
    /\ post' = NoPost
    /\ UNCHANGED <<spool, file, breaker, rowVars, handler>>

GiveUp ==
    /\ post.pc \in {"sent", "taken"}
    /\ Use("faults", MaxFaults)
    /\ post' = [post EXCEPT !.pc = "answered", !.answer = "failure"]
    /\ handler' = [h \in Handler |-> [handler[h] EXCEPT !.heard = FALSE]]
    /\ UNCHANGED <<spool, file, breaker, pass, rowVars>>

-----------------------------------------------------------------------------
\* The app: a request, or a drain of the worker.

\* persistWhatsAppInbound: one row per provider identity.
Receive(h) ==
    LET m == post.message IN
    /\ handler[h].pc = "idle"
    /\ post.pc = "sent" /\ m \notin Bad
    /\ post' = [post EXCEPT !.pc = "taken"]
    /\ row' = IF row[m].status = "absent" THEN [row EXCEPT ![m].status = "received"] ELSE row
    /\ handler' = [handler EXCEPT ![h] = [Free EXCEPT !.pc = "process", !.message = m,
                                                      !.heard = TRUE]]
    /\ UNCHANGED <<spool, file, breaker, pass, applied, copies, used>>

\* withErrorHandler: an envelope the schema refuses leaves nothing behind.
Refuse ==
    /\ post.pc = "sent" /\ post.message \in Bad
    /\ post' = [post EXCEPT !.pc = "answered", !.answer = "refused"]
    /\ UNCHANGED <<spool, file, breaker, pass, rowVars, handler, used>>

Claimable(m) ==
    \/ row[m].status = "received"
    \/ row[m].status = "retrying" /\ row[m].due
    \/ row[m].status = "processing" /\ row[m].expired

\* drainDueWhatsAppIngress, every few seconds.
Drain(h) ==
    /\ handler[h].pc = "idle"
    /\ \E m \in Message:
        /\ Claimable(m)
        /\ handler' = [handler EXCEPT ![h] = [Free EXCEPT !.pc = "process", !.message = m]]
    /\ UNCHANGED <<sidecarVars, rowVars, used>>

(* mutant: what the app holds back is acknowledged *)
AcknowledgesHeld(status) == status \in {"applied", "chat_deleted", "quarantined", "dead_letter"}

\* acknowledgeWhatsAppSpoolRemoval.
Acknowledges(status) == status \in {"applied", "chat_deleted"}

\* The handler is done and answers the sidecar, if that still listens.
Respond(h, status) ==
    /\ handler' = [handler EXCEPT ![h] = Free]
    /\ post' = IF handler[h].heard
               THEN [post EXCEPT !.pc = "answered",
                                 !.answer = IF Acknowledges(status) THEN "taken" ELSE "failure"]
               ELSE post

\* claimIngress on a row that is not to be claimed, or not any more.
Decline(h) ==
    LET m == handler[h].message
        status == IF Claimable(m) THEN "dead_letter" ELSE row[m].status IN
    /\ handler[h].pc = "process"
    /\ Claimable(m) => row[m].left = 0
    /\ row' = [row EXCEPT ![m].status = status]
    /\ Respond(h, status)
    /\ UNCHANGED <<spool, file, breaker, pass, applied, copies, used>>

Claim(h) ==
    LET m == handler[h].message IN
    /\ handler[h].pc = "process"
    /\ Claimable(m) /\ row[m].left > 0
    /\ row' = [row EXCEPT ![m] = [status |-> "processing", left |-> row[m].left - 1,
                                  lease |-> row[m].lease + 1, expired |-> FALSE, due |-> TRUE]]
    /\ handler' = [handler EXCEPT ![h].pc = "apply", ![h].lease = row[m].lease + 1]
    /\ UNCHANGED <<sidecarVars, applied, copies, used>>

LeaseHeld(h) ==
    LET r == row[handler[h].message] IN r.status = "processing" /\ r.lease = handler[h].lease

\* applyClaim: message and row in one command, or the answer of the command
\* that did it before.
Apply(h) ==
    LET m == handler[h].message IN
    /\ handler[h].pc = "apply"
    /\ m \in applied \/ LeaseHeld(h)
    /\ IF m \in applied THEN UNCHANGED rowVars
       ELSE /\ applied' = applied \union {m}
            /\ copies' = [copies EXCEPT ![m] = @ + 1]
            /\ row' = [row EXCEPT ![m].status = "applied", ![m].expired = FALSE]
    /\ Respond(h, "applied")
    /\ UNCHANGED <<spool, file, breaker, pass, used>>

\* markFailure: a lease that changed hands (a conflict, to be quarantined, but
\* the row is not its own any more), or trouble of the moment.
Fail(h) ==
    LET m == handler[h].message
        conflict == ~LeaseHeld(h) /\ m \notin applied
        status == CASE conflict -> "quarantined"
                    [] ~conflict -> IF row[m].left = 0 THEN "dead_letter" ELSE "retrying" IN
    /\ handler[h].pc = "apply"
    /\ IF conflict THEN UNCHANGED used ELSE Use("faults", MaxFaults)
    /\ row' = IF LeaseHeld(h)
              THEN [row EXCEPT ![m].status = status, ![m].expired = FALSE,
                                    ![m].due = status # "retrying"]
              ELSE row
    /\ Respond(h, status)
    /\ UNCHANGED <<spool, file, breaker, pass, applied, copies>>

RetryDue(m) ==
    /\ row[m].status = "retrying" /\ ~row[m].due
    /\ row' = [row EXCEPT ![m].due = TRUE]
    /\ UNCHANGED <<sidecarVars, applied, copies, handler, used>>

\* retryWhatsAppInbound: one more budget of attempts, and any handler goes on.
OperatorRetries(m) ==
    /\ row[m].status \notin {"absent", "applied", "chat_deleted"}
    /\ row[m].status = "processing" => row[m].expired
    /\ Use("turns", MaxTurns)
    /\ row' = [row EXCEPT ![m].status = "received", ![m].left = @ + Budget,
                          ![m].lease = @ + 1, ![m].expired = FALSE]
    /\ UNCHANGED <<sidecarVars, applied, copies, handler>>

-----------------------------------------------------------------------------
\* deleteWhatsAppChats: the transaction takes every row of the chat's source,
\* those included that came after the chat was read.  A chat the shop has opened
\* can go before its first message is in it.

Rows == {m \in Message: row[m].status # "absent"}

DeleteChat ==
    /\ Use("turns", MaxTurns)
    /\ row' = [m \in Message |->
                 IF m \in Rows THEN [row[m] EXCEPT !.status = "chat_deleted", !.expired = FALSE,
                                                  !.due = TRUE]
                 ELSE row[m]]
    /\ copies' = [m \in Message |-> 0]
    /\ UNCHANGED <<sidecarVars, applied, handler>>

-----------------------------------------------------------------------------
\* Faults.

HolderAlive(m) ==
    \E h \in Handler: /\ handler[h].pc = "apply" /\ handler[h].message = m
                      /\ handler[h].lease = row[m].lease

Expire(m) ==
    /\ row[m].status = "processing" /\ ~row[m].expired
    /\ IF HolderAlive(m) THEN Use("faults", MaxFaults) ELSE UNCHANGED used
    /\ row' = [row EXCEPT ![m].expired = TRUE]
    /\ UNCHANGED <<sidecarVars, applied, copies, handler>>

CrashApp ==
    /\ Use("faults", MaxFaults)
    /\ handler' = [h \in Handler |-> Free]
    /\ post' = IF post.pc \in {"sent", "taken"}
               THEN [post EXCEPT !.pc = "answered", !.answer = "failure"] ELSE post
    /\ UNCHANGED <<spool, file, breaker, pass, rowVars>>

\* Files survive; the pass, the breaker and the request do not.
CrashSidecar ==
    /\ Use("faults", MaxFaults)
    /\ breaker' = Closed /\ pass' = NoPass /\ post' = NoPost
    /\ handler' = [h \in Handler |-> [handler[h] EXCEPT !.heard = FALSE]]
    /\ UNCHANGED <<spool, file, rowVars>>

-----------------------------------------------------------------------------
Handle(h) == Receive(h) \/ Decline(h) \/ Claim(h) \/ Apply(h) \/ Fail(h)

Next ==
    \/ StartPass \/ EndPass \/ HalfOpen \/ Judge \/ Refuse \/ GiveUp \/ DeleteChat
    \/ CrashApp \/ CrashSidecar
    \/ \E m \in Message: Hear(m) \/ Ask(m) \/ Wake(m) \/ Finish(m) \/ StaysCommitted(m)
                         \/ RetryDue(m) \/ OperatorRetries(m) \/ Expire(m)
    \/ \E h \in Handler: Handle(h) \/ Drain(h)

Spec == Init /\ [][Next]_vars

\* Timers tick, cool-downs and back-offs end, leases of the dead expire, and a
\* request a running app took is answered.  A request that finds every handler
\* busy is served when one is free.
Fairness ==
    /\ WF_vars(StartPass) /\ WF_vars(EndPass) /\ WF_vars(HalfOpen)
    /\ WF_vars(Judge) /\ WF_vars(Refuse)
    /\ \A m \in Message: /\ WF_vars(Ask(m)) /\ WF_vars(Wake(m)) /\ WF_vars(Finish(m))
                         /\ WF_vars(RetryDue(m)) /\ WF_vars(~HolderAlive(m) /\ Expire(m))
    /\ \A h \in Handler: WF_vars(Handle(h))

FairSpec == Spec /\ Fairness

-----------------------------------------------------------------------------
\* Type correctness of spool, breaker, pass, request, rows and handlers.
TypeOK ==
    /\ spool \in Seq(Message)
    /\ file \in [Message -> [state: {"none", "pending", "committed"}, rest: 0..2]]
    /\ breaker \in [state: {"closed", "open", "half-open"}, failures: 0..OpenAfter]
    /\ pass \in [on: BOOLEAN, tried: SUBSET Message, probed: BOOLEAN]
    /\ post \in [pc: {"none", "sent", "taken", "answered", "finish"}, message: Message,
                 probe: BOOLEAN, answer: {"none", "taken", "failure", "refused"}]
    /\ row \in [Message -> [status: {"absent", "received", "processing", "retrying", "applied",
                                     "dead_letter", "chat_deleted"},
                            left: Nat, lease: Nat, expired: BOOLEAN, due: BOOLEAN]]
    /\ applied \subseteq Message
    /\ copies \in [Message -> Nat]
    /\ handler \in [Handler -> [pc: {"idle", "process", "apply"}, message: Message,
                                lease: Nat, heard: BOOLEAN]]

Fate(m) ==
    CASE copies[m] = 1 -> "shown"
      [] copies[m] > 1 -> "twice"
      [] copies[m] = 0 /\ row[m].status = "chat_deleted" -> "deleted"
      [] copies[m] = 0 /\ ~Ended(row[m].status) /\ file[m].state # "none" -> "kept"
      [] ~Known(m) -> "unheard"
      [] OTHER -> "lost"

\* Spool, lost answers, two processes that restart, leases, the worker, the
\* operator and the deletion keep what InboundPromise says of each message:
\* none is lost, doubled or brought back from a deleted chat.
Promise == INSTANCE InboundPromise WITH fate <- [m \in Message |-> Fate(m)]

KeepsPromise == Promise!Spec

\* A spooled message the app can take is acknowledged and leaves the spool, or
\* has used up its attempts and waits for the operator: through crashes,
\* timeouts, an open breaker and a record ahead of it that the app refuses for
\* ever (runFlush, breakerNote, claimIngress).
MessageArrives ==
    \A m \in Message \ Bad:
        file[m].state # "none" ~> file[m].state = "none" \/ row[m].status = "dead_letter"

=============================================================================
