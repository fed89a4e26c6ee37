---------------------------- MODULE CommandKernel ----------------------------
(***************************************************************************)
(* The business command kernel, src/lib/business-truth: every canonical    *)
(* mutation of the product runs through executeBusinessCommand, which      *)
(*   - queues callers of one idempotency key behind each other, per client *)
(*     object (same-key-queue.ts), in memory;                              *)
(*   - opens one transaction on the single pooled connection (db-pool.ts); *)
(*   - replays the stored result when the key is already committed, or     *)
(*     claims the aggregate version, runs the handler, persists its facts  *)
(*     and marks the command committed.                                    *)
(* Anything thrown rolls the transaction back; a crash loses the queue,    *)
(* the transaction and the answers that were not delivered.                *)
(***************************************************************************)
EXTENDS Integers, Sequences

CONSTANTS
    Caller,       \* concurrent invocations of executeBusinessCommand
    Client,       \* Prisma client objects: one per copy of db.ts (route layer, worker layer)
    Key,          \* idempotency keys
    Aggregate,    \* aggregates, each with its own version row
    Reservation,  \* inventory reservation ids the handlers open and close
    Principal,    \* [kind, subject, session] records, see MayReplay
    Request,      \* the requests callers may submit, a subset of Requests
    NoCaller, NoCommand, NoWrites,
    MaxAttempts,  \* bound: submissions of one request by one caller
    MaxCrashes    \* bound: process crashes

Operations == {"open", "close"}

\* The content the request hash covers: the aggregate with its expected version
\* and the payload, here the reservation operation the handler will perform.
Contents == [agg: Aggregate, expected: Nat, op: Operations, res: Reservation]

Requests == [key: Key, content: Contents, principal: Principal, client: Client]

ASSUME KernelAssumption ==
    /\ Request \subseteq Requests
    /\ NoCaller \notin Caller
    /\ NoCommand \notin [content: Contents, author: Principal, version: Nat]
    /\ NoCommand \notin Contents
    /\ MaxAttempts \in Nat
    /\ MaxCrashes \in Nat

VARIABLES
    version,      \* BusinessAggregateVersion: [Aggregate -> Nat]
    stored,       \* BusinessCommand: [Key -> committed command or NoCommand]
    reservation,  \* InventoryReservation.state of each reservation id
    ledger,       \* movement, event and outbox rows written under each key
    queue,        \* [Client -> [Key -> Seq(Caller)]], the same-key promise chains
    conn,         \* the caller whose transaction holds the one connection
    staged,       \* the writes of that transaction, not yet committed
    pc,           \* where each caller is
    request,      \* the request each caller submitted
    answer,       \* what each caller was, or is about to be, told
    attempts,     \* submissions made by each caller
    crashes

store == <<version, stored, reservation, ledger>>
vars == <<version, stored, reservation, ledger, queue, conn, staged, pc,
          request, answer, attempts, crashes>>

States == {"idle", "queued", "handling", "persisted", "replying", "answered"}
Verdicts == {"none", "committed", "replayed", "rejected", "lost"}
ReservationStates == {"absent", "active", "closed"}
Command == [content: Contents, author: Principal, version: Nat]

-----------------------------------------------------------------------------
(* Replay authority (principal.ts): a person reads back the results of the *)
(* same person across sessions, the legacy owner those of a legacy owner,  *)
(* any other principal only its own.  A handler may bring its own rule     *)
(* (authorizeReplay): those of the collaboration commands ask that author  *)
(* and reader are one durable person.                                      *)

MayReplay(author, reader) ==
    IF reader.kind \in {"person", "legacy"}
    THEN /\ author.kind = reader.kind
         /\ reader.kind = "person" => author.subject = reader.subject
    ELSE author = reader

-----------------------------------------------------------------------------

Init ==
    /\ version = [a \in Aggregate |-> 0]
    /\ stored = [k \in Key |-> NoCommand]
    /\ reservation = [r \in Reservation |-> "absent"]
    /\ ledger = [k \in Key |-> 0]
    /\ queue = [p \in Client |-> [k \in Key |-> <<>>]]
    /\ conn = NoCaller
    /\ staged = NoWrites
    /\ pc = [c \in Caller |-> "idle"]
    /\ request \in [Caller -> Request]
    /\ answer = [c \in Caller |-> [verdict |-> "none", version |-> 0]]
    /\ attempts = [c \in Caller |-> 0]
    /\ crashes = 0

\* withBusinessCommandKeyQueue: the caller joins the promise chain of its key.
Enqueue(c) ==
    /\ queue' = [queue EXCEPT ![request[c].client][request[c].key] = Append(@, c)]
    /\ pc' = [pc EXCEPT ![c] = "queued"]
    /\ attempts' = [attempts EXCEPT ![c] = @ + 1]
    /\ answer' = [answer EXCEPT ![c] = [verdict |-> "none", version |-> 0]]
    /\ UNCHANGED <<store, conn, staged, crashes>>

Submit(c) ==
    /\ pc[c] = "idle"
    /\ Enqueue(c)
    /\ UNCHANGED request

\* A caller without a committed answer sends the same command again, possibly
\* from a renewed session.
Retry(c) ==
    /\ pc[c] = "answered"
    /\ answer[c].verdict \in {"rejected", "lost"}
    /\ attempts[c] < MaxAttempts
    /\ \E p \in Principal:
         /\ p.kind = request[c].principal.kind
         /\ p.subject = request[c].principal.subject
         /\ request' = [request EXCEPT ![c].principal = p]
    /\ Enqueue(c)

\* The caller whose predecessors in the key's chain have all released it.
Leads(c) ==
    /\ pc[c] = "queued"
    /\ Head(queue[request[c].client][request[c].key]) = c

\* findStoredCommand: no command is committed under the caller's key.
LookupSkipped(c) == TRUE
Fresh(c) == stored[request[c].key] = NoCommand

\* The UPDATE of claimAggregateVersion matches its expected version.
VersionUnchecked(c) == TRUE
VersionAsRead(c) ==
    version[request[c].content.agg] = request[c].content.expected

\* assertStoredCommandReplayable: the stored request hash is the caller's.
HashUnchecked(c) == TRUE
SameContent(c) == stored[request[c].key].content = request[c].content

\* The state persistOutcome's INSERT or UPDATE requires of a reservation.
AnyState(op) == ReservationStates
RequiredState(op) == IF op = "open" THEN {"absent"} ELSE {"active"}

\* The state it leaves the reservation in.
UnknownState(op) == IF op = "open" THEN "active" ELSE "shipped"
ReachedState(op) == IF op = "open" THEN "active" ELSE "closed"

\* The finally block of the queue, with the answer on its way to the caller.
ReleasedOnSuccessOnly(c, verdict, at) ==
    /\ pc' = [pc EXCEPT ![c] = "replying"]
    /\ answer' = [answer EXCEPT ![c] = [verdict |-> verdict, version |-> at]]
    /\ queue' = IF verdict = "rejected" THEN queue
                ELSE [queue EXCEPT ![request[c].client][request[c].key] = Tail(@)]

Finish(c, verdict, at) ==
    /\ pc' = [pc EXCEPT ![c] = "replying"]
    /\ answer' = [answer EXCEPT ![c] = [verdict |-> verdict, version |-> at]]
    /\ queue' = [queue EXCEPT ![request[c].client][request[c].key] = Tail(@)]

\* The transaction gives up waiting for the connection (maxWait).
WaitedTooLong(c) ==
    /\ Leads(c)
    /\ conn # NoCaller
    /\ Finish(c, "rejected", 0)
    /\ UNCHANGED <<store, conn, staged, request, attempts, crashes>>

\* The key is already committed: hash check, then replay authority, then the
\* stored result.
Replay(c) ==
    LET command == stored[request[c].key] IN
    /\ Leads(c)
    /\ conn = NoCaller
    /\ ~Fresh(c)
    /\ IF /\ SameContent(c)
          /\ MayReplay(command.author, request[c].principal)
       THEN Finish(c, "replayed", command.version)
       ELSE Finish(c, "rejected", 0)
    /\ UNCHANGED <<store, conn, staged, request, attempts, crashes>>

\* claimAggregateVersion found another version.
VersionConflict(c) ==
    /\ Leads(c)
    /\ conn = NoCaller
    /\ Fresh(c)
    /\ ~VersionAsRead(c)
    /\ Finish(c, "rejected", 0)
    /\ UNCHANGED <<store, conn, staged, request, attempts, crashes>>

\* The version is claimed and the command row inserted as 'processing'.
Claim(c) ==
    /\ Leads(c)
    /\ conn = NoCaller
    /\ Fresh(c)
    /\ VersionAsRead(c)
    /\ conn' = c
    /\ staged' = [reservation |-> reservation, ledger |-> ledger,
                  version |-> [version EXCEPT ![request[c].content.agg] = @ + 1]]
    /\ pc' = [pc EXCEPT ![c] = "handling"]
    /\ UNCHANGED <<store, queue, request, answer, attempts, crashes>>

\* The handler returned and persistOutcome wrote its facts. A reservation id is
\* new when opened and must still be active when closed.
Persist(c) ==
    LET content == request[c].content IN
    /\ pc[c] = "handling"
    /\ staged.reservation[content.res] \in RequiredState(content.op)
    /\ staged' = [staged EXCEPT !.reservation[content.res] = ReachedState(content.op),
                                !.ledger[request[c].key] = @ + 1]
    /\ pc' = [pc EXCEPT ![c] = "persisted"]
    /\ UNCHANGED <<store, queue, conn, request, answer, attempts, crashes>>

\* A throw of the handler, an invalid outcome, a lost reservation guard, a
\* unique violation or the transaction timeout: everything is rolled back.
VersionClaimKept(c) ==
    /\ pc[c] \in {"handling", "persisted"}
    /\ conn' = NoCaller
    /\ staged' = NoWrites
    /\ version' = staged.version
    /\ Finish(c, "rejected", 0)
    /\ UNCHANGED <<stored, reservation, ledger, request, attempts, crashes>>

RollBack(c) ==
    /\ pc[c] \in {"handling", "persisted"}
    /\ conn' = NoCaller
    /\ staged' = NoWrites
    /\ Finish(c, "rejected", 0)
    /\ UNCHANGED <<store, request, attempts, crashes>>

\* The command row becomes 'committed' and the transaction ends.
Commit(c) ==
    LET content == request[c].content
        claimed == staged.version[content.agg] IN
    /\ pc[c] = "persisted"
    /\ version' = staged.version
    /\ reservation' = staged.reservation
    /\ ledger' = staged.ledger
    /\ stored' = [stored EXCEPT ![request[c].key] =
                    [content |-> content, author |-> request[c].principal,
                     version |-> claimed]]
    /\ conn' = NoCaller
    /\ staged' = NoWrites
    /\ Finish(c, "committed", claimed)
    /\ UNCHANGED <<request, attempts, crashes>>

\* The answer reaches the caller.
Reply(c) ==
    /\ pc[c] = "replying"
    /\ pc' = [pc EXCEPT ![c] = "answered"]
    /\ UNCHANGED <<store, queue, conn, staged, request, answer, attempts, crashes>>

\* The process dies: promise chains, the open transaction and answers that were
\* not delivered are gone; committed rows stay.
Crash ==
    /\ crashes < MaxCrashes
    /\ crashes' = crashes + 1
    /\ queue' = [p \in Client |-> [k \in Key |-> <<>>]]
    /\ conn' = NoCaller
    /\ staged' = NoWrites
    /\ pc' = [c \in Caller |-> IF pc[c] = "idle" THEN "idle" ELSE "answered"]
    /\ answer' = [c \in Caller |->
                    IF pc[c] \in {"idle", "answered"} THEN answer[c]
                    ELSE [verdict |-> "lost", version |-> 0]]
    /\ UNCHANGED <<store, request, attempts>>

Step(c) ==
    \/ Submit(c) \/ Retry(c)
    \/ WaitedTooLong(c) \/ Replay(c) \/ VersionConflict(c)
    \/ Claim(c) \/ Persist(c) \/ RollBack(c) \/ Commit(c)
    \/ Reply(c)

Next == Crash \/ \E c \in Caller: Step(c)

\* What the event loop runs by itself once a command was submitted.
Serve(c) ==
    \/ WaitedTooLong(c) \/ Replay(c) \/ VersionConflict(c)
    \/ Claim(c) \/ Persist(c) \/ RollBack(c) \/ Commit(c)
    \/ Reply(c)

Fairness == \A c \in Caller: WF_vars(Serve(c))

Spec == Init /\ [][Next]_vars
FairSpec == Spec /\ Fairness

-----------------------------------------------------------------------------
TypeOK ==
    /\ version \in [Aggregate -> Nat]
    /\ stored \in [Key -> Command \cup {NoCommand}]
    /\ reservation \in [Reservation -> ReservationStates]
    /\ ledger \in [Key -> Nat]
    /\ queue \in [Client -> [Key -> Seq(Caller)]]
    /\ conn \in Caller \cup {NoCaller}
    /\ staged \in [version: [Aggregate -> Nat],
                   reservation: [Reservation -> ReservationStates],
                   ledger: [Key -> Nat]] \cup {NoWrites}
    /\ pc \in [Caller -> States]
    /\ request \in [Caller -> Requests]
    /\ answer \in [Caller -> [verdict: Verdicts, version: Nat]]
    /\ attempts \in [Caller -> Nat]
    /\ crashes \in Nat

\* Two pieces of durable state agree: the committed commands of an aggregate
\* carry exactly the versions 1..version, one command each, so no version was
\* claimed by a command that did not commit, and none by two.
VersionChain ==
    \A a \in Aggregate:
      LET ofA == {k \in Key: stored[k] # NoCommand /\ stored[k].content.agg = a} IN
      /\ {stored[k].version: k \in ofA} = 1..version[a]
      /\ \A j, k \in ofA: stored[j].version = stored[k].version => j = k

\* A committed command claimed the version right after the one its author read.
ClaimedWhatWasRead ==
    \A k \in Key: stored[k] # NoCommand =>
      stored[k].version = stored[k].content.expected + 1

\* The facts of an idempotency key exist once when its command is committed,
\* through any number of retries, crashes and callers, and not at all otherwise.
FactsOncePerKey ==
    \A k \in Key: ledger[k] = IF stored[k] = NoCommand THEN 0 ELSE 1

\* A reservation is in the state its committed commands put it in, and only one
\* command closes it, whatever key or aggregate the command has.
ReservationHistory ==
    \A r \in Reservation:
      LET by(op) == {k \in Key: /\ stored[k] # NoCommand
                                /\ stored[k].content.op = op
                                /\ stored[k].content.res = r} IN
      /\ reservation[r] = "absent" => by("open") = {} /\ by("close") = {}
      /\ reservation[r] = "active" => by("open") # {} /\ by("close") = {}
      /\ reservation[r] = "closed" => by("open") # {} /\ by("close") # {}
      /\ \A op \in Operations: \A j, k \in by(op): j = k

\* What a caller is told is what the store holds: the result of its own content
\* at the version it is told, and of no other person.
AnswerIsTheStoredOne ==
    \A c \in Caller: answer[c].verdict \in {"committed", "replayed"} =>
      LET command == stored[request[c].key]
          reader  == request[c].principal IN
      /\ command # NoCommand
      /\ command.content = request[c].content
      /\ command.version = answer[c].version
      /\ "person" \in {command.author.kind, reader.kind} =>
           /\ command.author.kind = reader.kind
           /\ command.author.subject = reader.subject

\* At most one caller is inside a transaction, and it leads its key's chain.
OneTransaction ==
    /\ \A c \in Caller: pc[c] \in {"handling", "persisted"} => conn = c
    /\ conn # NoCaller =>
         Head(queue[request[conn].client][request[conn].key]) = conn

\* A committed command is never rewritten or removed, and an aggregate version
\* only moves by the commit of one command.
CommittedIsForever ==
    [][ /\ \A k \in Key: stored[k] # NoCommand => stored'[k] = stored[k]
        /\ \A a \in Aggregate: version'[a] # version[a] =>
             /\ version'[a] = version[a] + 1
             /\ \E k \in Key: /\ stored[k] = NoCommand
                              /\ stored'[k] # NoCommand
                              /\ stored'[k].version = version'[a] ]_vars

\* Nobody waits for ever in a key's chain or for the connection: every
\* submitted command is answered, or lost with the process.
EveryCallAnswered ==
    \A c \in Caller: pc[c] = "queued" ~> pc[c] = "answered"

\* The promise of the kernel: what is stored is what took effect, a positive
\* answer is what its caller was told.
Promise == INSTANCE ExactlyOnce WITH
    Content <- {r.content: r \in Request},
    Nothing <- NoCommand,
    effect <- [k \in Key |-> IF stored[k] = NoCommand THEN NoCommand
                             ELSE stored[k].content],
    told <- [c \in Caller |->
               IF answer[c].verdict \in {"committed", "replayed"}
               THEN request[c].content ELSE NoCommand]

\* executeBusinessCommand implements exactly-once execution: every behaviour of
\* queue, transaction, retries and crashes is one of ExactlyOnce.
KeepsPromise == Promise!Spec
=============================================================================
