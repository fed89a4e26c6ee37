------------------------- MODULE CommandKernelProofs -------------------------
(***************************************************************************)
(* Proofs about the command kernel, for any number of callers, clients,    *)
(* keys, aggregates, retries and crashes: type correctness, the version    *)
(* chain of every aggregate, one set of facts per idempotency key, the     *)
(* history of every reservation, the truth of every answer, the permanence *)
(* of committed commands, and the refinement of ExactlyOnce.               *)
(***************************************************************************)
EXTENDS CommandKernel, TLAPS

\* The promise chain a caller is, or was last, in.
Chain(c) == queue[request[c].client][request[c].key]

\* A caller that has not been answered is still in its chain.
InChain ==
    \A c \in Caller: pc[c] \in {"queued", "handling", "persisted"} =>
      \E i \in 1..Len(Chain(c)): Chain(c)[i] = c

\* A caller inside a transaction holds the connection and leads its chain.
Exclusive ==
    \A c \in Caller: pc[c] \in {"handling", "persisted"} =>
      conn = c /\ Chain(c)[1] = c

\* What the open transaction would commit, relative to the committed store.
Pending ==
    \A c \in Caller:
      LET content == request[c].content
          claimed == [version EXCEPT ![content.agg] = @ + 1] IN
      /\ pc[c] \in {"handling", "persisted"} => Fresh(c) /\ VersionAsRead(c)
      /\ pc[c] = "handling" =>
           staged = [reservation |-> reservation, ledger |-> ledger,
                     version |-> claimed]
      /\ pc[c] = "persisted" =>
           staged = [reservation |-> [reservation EXCEPT
                                        ![content.res] = ReachedState(content.op)],
                     ledger |-> [ledger EXCEPT ![request[c].key] = @ + 1],
                     version |-> claimed]

\* The inductive invariant.
IInv ==
    /\ TypeOK
    /\ InChain
    /\ Exclusive
    /\ Pending
    /\ VersionChain
    /\ ClaimedWhatWasRead
    /\ FactsOncePerKey

-----------------------------------------------------------------------------

\* The initial states satisfy the inductive invariant.
LEMMA InitInv == Init => IInv
<1> SUFFICES ASSUME Init PROVE IInv
  OBVIOUS
<1>1. TypeOK
  <2>1. request \in [Caller -> Requests]
    BY KernelAssumption DEF Init
  <2>2. queue \in [Client -> [Key -> Seq(Caller)]]
    BY DEF Init
  <2>3. pc \in [Caller -> States] /\ reservation \in [Reservation -> ReservationStates]
    BY DEF Init, States, ReservationStates
  <2>4. answer \in [Caller -> [verdict: Verdicts, version: Nat]]
    BY DEF Init, Verdicts
  <2> QED
    BY <2>1, <2>2, <2>3, <2>4 DEF Init, TypeOK
<1>2. InChain /\ Exclusive /\ Pending
  BY DEF Init, InChain, Exclusive, Pending
<1>3. VersionChain
  BY DEF Init, VersionChain
<1>4. ClaimedWhatWasRead /\ FactsOncePerKey
  BY DEF Init, ClaimedWhatWasRead, FactsOncePerKey
<1> QED
  BY <1>1, <1>2, <1>3, <1>4 DEF IInv

\* Joining a chain: its length grows by one and its members keep their places.
LEMMA EnqueueInv ==
  ASSUME IInv, NEW c \in Caller, Enqueue(c),
         pc[c] \in {"idle", "answered"},
         request' \in [Caller -> Requests],
         request'[c].client = request[c].client,
         request'[c].key = request[c].key,
         \A d \in Caller \ {c}: request'[d] = request[d]
  PROVE  IInv'
<1> USE DEF IInv
<1> DEFINE p == request[c].client
           k == request[c].key
<1>0. p \in Client /\ k \in Key /\ queue[p][k] \in Seq(Caller)
  BY DEF TypeOK, Requests
<1>1. TypeOK'
  <2>1. queue' \in [Client -> [Key -> Seq(Caller)]]
    BY <1>0 DEF TypeOK, Enqueue
  <2>2. pc' \in [Caller -> States]
    BY DEF TypeOK, Enqueue, States
  <2>3. answer' \in [Caller -> [verdict: Verdicts, version: Nat]]
    BY DEF TypeOK, Enqueue, Verdicts
  <2>4. attempts' \in [Caller -> Nat]
    BY DEF TypeOK, Enqueue
  <2> QED
    BY <2>1, <2>2, <2>3, <2>4 DEF TypeOK, Enqueue, store
<1>2. /\ Len(queue'[p][k]) = Len(queue[p][k]) + 1
      /\ queue'[p][k][Len(queue[p][k]) + 1] = c
      /\ \A i \in 1..Len(queue[p][k]): queue'[p][k][i] = queue[p][k][i]
      /\ \A q \in Client, j \in Key: <<q, j>> # <<p, k>> => queue'[q][j] = queue[q][j]
  BY <1>0 DEF TypeOK, Enqueue
<1>3. \A d \in Caller \ {c}: pc'[d] = pc[d] /\ request'[d] = request[d]
  BY DEF Enqueue, TypeOK
<1>4. InChain'
  <2> SUFFICES ASSUME NEW d \in Caller, pc'[d] \in {"queued", "handling", "persisted"}
               PROVE  \E i \in 1..Len(Chain(d)'): Chain(d)'[i] = d
    BY DEF InChain
  <2>1. CASE d = c
    <3>1. Len(queue[p][k]) + 1 \in 1..Len(queue'[p][k])
      BY <1>0, <1>2
    <3> QED
      BY <2>1, <3>1, <1>2 DEF Chain
  <2>2. CASE d # c
    <3>1. PICK i \in 1..Len(Chain(d)): Chain(d)[i] = d
      BY <2>2, <1>3 DEF InChain
    <3>2. request[d].client \in Client /\ request[d].key \in Key
      BY SMTT(40) DEF TypeOK, Requests
    <3>3. CASE <<request[d].client, request[d].key>> # <<p, k>>
      BY <2>2, <3>1, <3>2, <3>3, <1>2, <1>3 DEF Chain
    <3>4. CASE <<request[d].client, request[d].key>> = <<p, k>>
      <4>1. i \in 1..Len(queue[p][k]) /\ queue[p][k][i] = d
        BY <3>1, <3>4 DEF Chain
      <4>2. Len(queue[p][k]) \in Nat
        BY SMTT(40), <1>0
      <4>3. i \in 1..Len(queue'[p][k])
        BY <4>1, <4>2, <1>2
      <4>4. queue'[p][k][i] = d
        BY <4>1, <1>2
      <4> QED
        BY <2>2, <3>4, <4>3, <4>4, <1>3 DEF Chain
    <3> QED
      BY <3>3, <3>4
  <2> QED
    BY <2>1, <2>2
<1>5. Exclusive'
  <2> SUFFICES ASSUME NEW d \in Caller, pc'[d] \in {"handling", "persisted"}
               PROVE  conn' = d /\ Chain(d)'[1] = d
    BY DEF Exclusive
  <2>1. d # c /\ pc[d] \in {"handling", "persisted"}
    BY DEF Enqueue, TypeOK
  <2>2. conn' = d /\ Chain(d)[1] = d
    BY <2>1 DEF Exclusive, Enqueue
  <2>3. request[d].client \in Client /\ request[d].key \in Key
    BY DEF TypeOK, Requests
  <2>4. PICK i \in 1..Len(Chain(d)): Chain(d)[i] = d
    BY <2>1 DEF InChain
  <2>5. CASE <<request[d].client, request[d].key>> # <<p, k>>
    BY <2>1, <2>2, <2>3, <2>5, <1>2, <1>3 DEF Chain
  <2>6. CASE <<request[d].client, request[d].key>> = <<p, k>>
    <3>1. 1 \in 1..Len(queue[p][k]) /\ queue[p][k][1] = d
      BY <1>0, <2>2, <2>4, <2>6 DEF Chain
    <3> QED
      BY <2>1, <2>2, <2>6, <3>1, <1>2, <1>3 DEF Chain
  <2> QED
    BY <2>5, <2>6
<1>6. Pending'
  BY DEF Pending, Enqueue, TypeOK, store, Fresh, VersionAsRead
<1>7. VersionChain' /\ ClaimedWhatWasRead' /\ FactsOncePerKey'
  BY DEF VersionChain, ClaimedWhatWasRead, FactsOncePerKey, Enqueue, store
<1> QED
  BY <1>1, <1>4, <1>5, <1>6, <1>7

\* Leaving a chain from its head: the others keep their order in it.
LEMMA FinishChains ==
  ASSUME IInv, NEW c \in Caller, NEW verdict \in Verdicts, NEW at \in Nat,
         Finish(c, verdict, at), UNCHANGED request,
         pc[c] \in {"queued", "handling", "persisted"},
         Chain(c)[1] = c
  PROVE  /\ queue' \in [Client -> [Key -> Seq(Caller)]]
         /\ pc' \in [Caller -> States]
         /\ answer' \in [Caller -> [verdict: Verdicts, version: Nat]]
         /\ InChain'
         /\ \A d \in Caller: pc'[d] \in {"handling", "persisted"} =>
              Chain(d)'[1] = d /\ d # c /\ pc[d] = pc'[d]
<1> USE DEF IInv
<1> DEFINE p == request[c].client
           k == request[c].key
<1>0. /\ p \in Client /\ k \in Key /\ queue[p][k] \in Seq(Caller)
      /\ queue[p][k] # <<>>
  BY DEF TypeOK, Requests, InChain, Chain
<1>1. queue' \in [Client -> [Key -> Seq(Caller)]]
  BY <1>0 DEF TypeOK, Finish
<1>2. /\ Len(queue'[p][k]) = Len(queue[p][k]) - 1
      /\ \A i \in 1..Len(queue'[p][k]): queue'[p][k][i] = queue[p][k][i + 1]
      /\ \A q \in Client, j \in Key: <<q, j>> # <<p, k>> => queue'[q][j] = queue[q][j]
  BY <1>0 DEF TypeOK, Finish
<1>3. pc' \in [Caller -> States] /\ answer' \in [Caller -> [verdict: Verdicts, version: Nat]]
  BY DEF TypeOK, Finish, States
<1>4. InChain'
  <2> SUFFICES ASSUME NEW d \in Caller, pc'[d] \in {"queued", "handling", "persisted"}
               PROVE  \E i \in 1..Len(Chain(d)'): Chain(d)'[i] = d
    BY DEF InChain
  <2>1. d # c /\ pc[d] = pc'[d]
    BY DEF Finish, TypeOK
  <2>2. PICK i \in 1..Len(Chain(d)): Chain(d)[i] = d
    BY <2>1 DEF InChain
  <2>3. request[d].client \in Client /\ request[d].key \in Key
    BY DEF TypeOK, Requests
  <2>4. CASE <<request[d].client, request[d].key>> # <<p, k>>
    BY <2>2, <2>3, <2>4, <1>2 DEF Chain
  <2>5. CASE <<request[d].client, request[d].key>> = <<p, k>>
    <3>1. i \in 1..Len(queue[p][k]) /\ queue[p][k][i] = d
      BY <2>2, <2>5 DEF Chain
    <3>0. Len(queue[p][k]) \in Nat /\ queue[p][k][1] = c
      BY SMTT(40), <1>0 DEF Chain
    <3>2. i # 1 /\ i \in Nat
      BY <2>1, <3>0, <3>1
    <3>a. Len(queue'[p][k]) = Len(queue[p][k]) - 1
      BY <1>2
    <3>3. i - 1 \in 1..Len(queue'[p][k])
      <4> HIDE DEF p, k
      <4> QED BY <3>0, <3>1, <3>2, <3>a
    <3>4. queue'[p][k][i - 1] = queue[p][k][(i - 1) + 1]
      BY <1>2, <3>3
    <3>5. queue'[p][k][i - 1] = d
      BY <3>1, <3>2, <3>4
    <3> QED
      BY <2>5, <3>3, <3>5 DEF Chain, Finish
  <2> QED
    BY <2>4, <2>5
<1>5. \A d \in Caller: pc'[d] \in {"handling", "persisted"} =>
        Chain(d)'[1] = d /\ d # c /\ pc[d] = pc'[d]
  <2> SUFFICES ASSUME NEW d \in Caller, pc'[d] \in {"handling", "persisted"}
               PROVE  Chain(d)'[1] = d /\ d # c /\ pc[d] = pc'[d]
    OBVIOUS
  <2>1. d # c /\ pc[d] = pc'[d]
    BY DEF Finish, TypeOK
  <2>2. Chain(d)[1] = d
    BY <2>1 DEF Exclusive
  <2>3. <<request[d].client, request[d].key>> # <<p, k>>
    BY <2>1, <2>2 DEF Chain
  <2>4. Chain(d)' = Chain(d)
    BY <2>3, <1>2 DEF Chain, TypeOK, Requests
  <2> QED
    BY <2>1, <2>2, <2>4
<1> QED
  BY <1>1, <1>3, <1>4, <1>5

\* A chain left without any change to the store, the connection or the staged
\* writes keeps the inductive invariant.
LEMMA LeaveInv ==
  ASSUME IInv, NEW c \in Caller, NEW verdict \in Verdicts, NEW at \in Nat,
         Finish(c, verdict, at), Leads(c),
         UNCHANGED <<store, conn, staged, request, attempts, crashes>>
  PROVE  IInv'
<1>1. pc[c] \in {"queued", "handling", "persisted"} /\ Chain(c)[1] = c
  <2>1. PICK i \in 1..Len(Chain(c)): Chain(c)[i] = c
    BY DEF IInv, InChain, Leads
  <2>2. Chain(c) \in Seq(Caller) /\ Chain(c) # <<>>
    BY <2>1 DEF IInv, TypeOK, Requests, Chain
  <2> QED
    BY <2>2 DEF Leads, Chain
<1>2. /\ queue' \in [Client -> [Key -> Seq(Caller)]]
      /\ pc' \in [Caller -> States]
      /\ answer' \in [Caller -> [verdict: Verdicts, version: Nat]]
      /\ InChain'
      /\ \A d \in Caller: pc'[d] \in {"handling", "persisted"} =>
           Chain(d)'[1] = d /\ d # c /\ pc[d] = pc'[d]
  BY <1>1, FinishChains
<1>3. TypeOK'
  BY <1>2 DEF IInv, TypeOK, store
<1>4. Exclusive'
  BY <1>2 DEF IInv, Exclusive
<1>5. Pending'
  BY <1>2 DEF IInv, Pending, store, Fresh, VersionAsRead
<1>6. VersionChain' /\ ClaimedWhatWasRead' /\ FactsOncePerKey'
  BY DEF IInv, VersionChain, ClaimedWhatWasRead, FactsOncePerKey, store
<1> QED
  BY <1>2, <1>3, <1>4, <1>5, <1>6 DEF IInv

\* A commit extends the version chain of its aggregate by one command.
LEMMA CommitInv == ASSUME IInv, NEW c \in Caller, Commit(c) PROVE IInv'
<1> DEFINE content == request[c].content
           a == content.agg
           k == request[c].key
           n == version[a]
           of(b) == {j \in Key: stored[j] # NoCommand /\ stored[j].content.agg = b}
           next(b) == {j \in Key: stored'[j] # NoCommand /\ stored'[j].content.agg = b}
<1>1. /\ content \in Contents /\ a \in Aggregate /\ k \in Key
      /\ content.res \in Reservation
      /\ n \in Nat /\ request[c].principal \in Principal
  BY DEF IInv, TypeOK, Requests, Contents
<1>2. /\ stored[k] = NoCommand /\ n = content.expected
      /\ staged = [reservation |-> [reservation EXCEPT ![content.res]
                                      = ReachedState(content.op)],
                   ledger |-> [ledger EXCEPT ![k] = @ + 1],
                   version |-> [version EXCEPT ![a] = @ + 1]]
  BY DEF IInv, Pending, Commit, Fresh, VersionAsRead
<1>3. pc[c] \in {"queued", "handling", "persisted"} /\ Chain(c)[1] = c /\ conn = c
  BY DEF IInv, Exclusive, Commit
<1>4. version' = [version EXCEPT ![a] = @ + 1] /\ staged.version[a] = n + 1
  BY <1>1, <1>2 DEF Commit, IInv, TypeOK
<1>5. stored' = [stored EXCEPT ![k] = [content |-> content,
                   author |-> request[c].principal, version |-> n + 1]]
  BY <1>4 DEF Commit
<1>6. stored'[k] \in Command /\ stored'[k] # NoCommand
  BY <1>1, <1>5, KernelAssumption DEF Command, IInv, TypeOK
<1>7. /\ queue' \in [Client -> [Key -> Seq(Caller)]]
      /\ pc' \in [Caller -> States]
      /\ answer' \in [Caller -> [verdict: Verdicts, version: Nat]]
      /\ InChain'
      /\ \A d \in Caller: pc'[d] \in {"handling", "persisted"} =>
           Chain(d)'[1] = d /\ d # c /\ pc[d] = pc'[d]
  <2>1. n + 1 \in Nat /\ "committed" \in Verdicts
    BY <1>1 DEF Verdicts
  <2>2. Finish(c, "committed", n + 1) /\ UNCHANGED request
    BY <1>4 DEF Commit
  <2> QED
    BY <2>1, <2>2, <1>3, FinishChains
<1>8. \A d \in Caller: pc'[d] \notin {"handling", "persisted"}
  BY <1>3, <1>7 DEF IInv, Exclusive
<1>9. TypeOK'
  <2>1. ReachedState(content.op) \in ReservationStates
    BY DEF ReachedState, ReservationStates
  <2>2. reservation' \in [Reservation -> ReservationStates] /\ ledger' \in [Key -> Nat]
    BY <1>1, <1>2, <2>1 DEF Commit, IInv, TypeOK
  <2>3. stored' \in [Key -> Command \cup {NoCommand}]
    BY <1>1, <1>5, <1>6 DEF IInv, TypeOK
  <2>4. version' \in [Aggregate -> Nat]
    BY <1>1, <1>4 DEF IInv, TypeOK
  <2> QED
    BY <1>7, <2>2, <2>3, <2>4 DEF IInv, TypeOK, Commit
<1>10. Exclusive' /\ Pending'
  BY <1>8 DEF Exclusive, Pending
<1>11. \A j \in Key \ {k}: stored'[j] = stored[j]
  BY <1>5 DEF IInv, TypeOK
<1>12. /\ next(a) = of(a) \cup {k} /\ k \notin of(a)
       /\ \A b \in Aggregate \ {a}: next(b) = of(b)
       /\ stored'[k].version = n + 1
  BY <1>1, <1>2, <1>5, <1>6, <1>11 DEF IInv, TypeOK
<1>13. VersionChain'
  <2> SUFFICES ASSUME NEW b \in Aggregate
               PROVE  /\ {stored'[j].version: j \in next(b)} = 1..version'[b]
                      /\ \A i, j \in next(b): stored'[i].version = stored'[j].version => i = j
    BY DEF VersionChain
  <2>1. /\ {stored[j].version: j \in of(b)} = 1..version[b]
        /\ \A i, j \in of(b): stored[i].version = stored[j].version => i = j
    BY DEF IInv, VersionChain
  <2> HIDE DEF of, next
  <2>2. CASE b # a
    <3>1. next(b) = of(b) /\ version'[b] = version[b]
      BY <1>4, <1>12, <2>2 DEF IInv, TypeOK
    <3>2. \A j \in of(b): stored'[j].version = stored[j].version
      BY <1>2, <1>11 DEF of
    <3>3. {stored'[j].version: j \in next(b)} = {stored[j].version: j \in of(b)}
      BY <3>1, <3>2
    <3>4. \A i, j \in next(b): stored'[i].version = stored'[j].version => i = j
      BY <2>1, <3>1, <3>2
    <3> QED
      BY <2>1, <3>1, <3>3, <3>4
  <2>3. CASE b = a
    <3>1. version'[b] = n + 1
      BY <1>1, <1>4, <2>3 DEF IInv, TypeOK
    <3>0. of(a) \subseteq Key \ {k}
      BY <1>12 DEF of
    <3>2. \A j \in of(a): stored'[j].version = stored[j].version /\ stored[j].version \in 1..n
      BY <1>11, <2>1, <2>3, <3>0
    <3>3. {stored'[j].version: j \in next(a)} = {stored[j].version: j \in of(a)} \cup {n + 1}
      BY <1>12, <3>2
    <3>4. 1..(n + 1) = (1..n) \cup {n + 1}
      BY <1>1
    <3>5. \A i, j \in next(a): stored'[i].version = stored'[j].version => i = j
      BY <1>1, <1>12, <2>1, <2>3, <3>2
    <3> QED
      BY <2>1, <2>3, <3>1, <3>3, <3>4, <3>5
  <2> QED
    BY <2>2, <2>3
<1>14. ClaimedWhatWasRead'
  BY <1>2, <1>5, <1>11, <1>12 DEF IInv, TypeOK, ClaimedWhatWasRead
<1>15. FactsOncePerKey'
  BY <1>1, <1>2, <1>6, <1>11 DEF IInv, TypeOK, FactsOncePerKey, Commit
<1> QED
  BY <1>7, <1>9, <1>10, <1>13, <1>14, <1>15 DEF IInv

\* Every step of a caller preserves the inductive invariant.
LEMMA CallerInv == ASSUME IInv, NEW c \in Caller, Step(c) PROVE IInv'
<1>1. CASE Submit(c)
  BY <1>1, EnqueueInv DEF Submit, IInv, TypeOK
<1>2. CASE Retry(c)
  <2>1. PICK p \in Principal: request' = [request EXCEPT ![c].principal = p]
    BY <1>2 DEF Retry
  <2>2. /\ request' \in [Caller -> Requests]
        /\ request'[c].client = request[c].client
        /\ request'[c].key = request[c].key
        /\ \A d \in Caller \ {c}: request'[d] = request[d]
    BY <2>1 DEF IInv, TypeOK, Requests
  <2>3. pc[c] \in {"idle", "answered"} /\ Enqueue(c)
    BY <1>2 DEF Retry
  <2> QED
    BY <2>2, <2>3, EnqueueInv
<1>3. CASE WaitedTooLong(c)
  BY <1>3, LeaveInv DEF WaitedTooLong, Verdicts
<1>4. CASE Replay(c)
  <2>1. stored[request[c].key] \in Command
    BY <1>4 DEF Replay, Fresh, IInv, TypeOK, Requests
  <2>2. stored[request[c].key].version \in Nat
    BY <2>1 DEF Command
  <2> QED
    BY <1>4, <2>2, LeaveInv DEF Replay, Verdicts
<1>5. CASE VersionConflict(c)
  BY <1>5, LeaveInv DEF VersionConflict, Verdicts
<1>6. CASE Claim(c)
  <2>1. request[c] \in Requests /\ request[c].content.agg \in Aggregate
    BY DEF IInv, TypeOK, Requests, Contents
  <2>2. Chain(c)[1] = c
    <3>1. PICK i \in 1..Len(Chain(c)): Chain(c)[i] = c
      BY <1>6 DEF IInv, InChain, Claim, Leads
    <3>2. Chain(c) \in Seq(Caller) /\ Chain(c) # <<>>
      BY <3>1 DEF IInv, TypeOK, Requests, Chain
    <3> QED
      BY <1>6, <3>2 DEF Claim, Leads, Chain
  <2>3. TypeOK'
    BY <1>6, <2>1 DEF IInv, TypeOK, Claim, States, store
  <2>4. InChain'
    <3> SUFFICES ASSUME NEW d \in Caller, pc'[d] \in {"queued", "handling", "persisted"}
                 PROVE  \E i \in 1..Len(Chain(d)'): Chain(d)'[i] = d
      BY DEF InChain
    <3>1. pc[d] \in {"queued", "handling", "persisted"}
      BY <1>6 DEF Claim, Leads, IInv, TypeOK
    <3>2. Chain(d)' = Chain(d)
      BY <1>6 DEF Claim, Chain
    <3> QED
      BY <3>1, <3>2 DEF IInv, InChain
  <2>5. \A d \in Caller: pc[d] \notin {"handling", "persisted"}
    BY <1>6, KernelAssumption DEF IInv, Exclusive, Claim
  <2>6. \A d \in Caller \ {c}: pc'[d] \notin {"handling", "persisted"}
    BY <1>6, <2>5 DEF Claim, IInv, TypeOK
  <2>7. pc'[c] = "handling"
    BY <1>6 DEF Claim, IInv, TypeOK
  <2>8. Exclusive'
    BY <1>6, <2>2, <2>6 DEF Exclusive, Claim, Chain
  <2>9. Pending'
    BY <1>6, <2>1, <2>6, <2>7 DEF Pending, Claim, store, Fresh, VersionAsRead
  <2>10. VersionChain' /\ ClaimedWhatWasRead' /\ FactsOncePerKey'
    BY <1>6 DEF IInv, VersionChain, ClaimedWhatWasRead, FactsOncePerKey, Claim, store
  <2> QED
    BY <2>3, <2>4, <2>8, <2>9, <2>10 DEF IInv
<1>7. CASE Persist(c)
  <2>1. /\ request[c] \in Requests
        /\ request[c].content.res \in Reservation
        /\ request[c].content.agg \in Aggregate /\ request[c].key \in Key
    BY DEF IInv, TypeOK, Requests, Contents
  <2>2. staged = [reservation |-> reservation, ledger |-> ledger,
                  version |-> [version EXCEPT ![request[c].content.agg] = @ + 1]]
    BY <1>7 DEF Persist, IInv, Pending
  <2>3. staged' = [reservation |-> [reservation EXCEPT ![request[c].content.res]
                                      = ReachedState(request[c].content.op)],
                   ledger |-> [ledger EXCEPT ![request[c].key] = @ + 1],
                   version |-> [version EXCEPT ![request[c].content.agg] = @ + 1]]
    BY <1>7, <2>2 DEF Persist
  <2>4. TypeOK'
    <3>1. ReachedState(request[c].content.op) \in ReservationStates
      BY DEF ReachedState, ReservationStates
    <3>2. staged' \in [version: [Aggregate -> Nat],
                       reservation: [Reservation -> ReservationStates],
                       ledger: [Key -> Nat]]
      BY <2>1, <2>3, <3>1 DEF IInv, TypeOK
    <3> QED
      BY <1>7, <3>2 DEF IInv, TypeOK, Persist, States, store
  <2>5. InChain'
    BY <1>7 DEF IInv, TypeOK, InChain, Chain, Persist
  <2>6. \A d \in Caller \ {c}: pc'[d] \notin {"handling", "persisted"}
    BY <1>7 DEF Persist, IInv, TypeOK, Exclusive
  <2>7. pc'[c] = "persisted"
    BY <1>7 DEF Persist, IInv, TypeOK
  <2>8. Exclusive'
    BY SMTT(40), <1>7, <2>6 DEF IInv, Exclusive, Persist, Chain
  <2>9. Pending'
    BY ZenonT(40), <1>7, <2>3, <2>6, <2>7 DEF IInv, Pending, Persist, store, Fresh, VersionAsRead
  <2>10. VersionChain' /\ ClaimedWhatWasRead' /\ FactsOncePerKey'
    BY <1>7 DEF IInv, VersionChain, ClaimedWhatWasRead, FactsOncePerKey, Persist, store
  <2> QED
    BY <2>4, <2>5, <2>8, <2>9, <2>10 DEF IInv
<1>8. CASE RollBack(c)
  <2>1. pc[c] \in {"queued", "handling", "persisted"} /\ Chain(c)[1] = c /\ conn = c
    BY <1>8 DEF IInv, Exclusive, RollBack
  <2>2. /\ queue' \in [Client -> [Key -> Seq(Caller)]]
        /\ pc' \in [Caller -> States]
        /\ answer' \in [Caller -> [verdict: Verdicts, version: Nat]]
        /\ InChain'
        /\ \A d \in Caller: pc'[d] \in {"handling", "persisted"} =>
             Chain(d)'[1] = d /\ d # c /\ pc[d] = pc'[d]
    BY <1>8, <2>1, FinishChains DEF RollBack, Verdicts
  <2>3. \A d \in Caller: pc'[d] \notin {"handling", "persisted"}
    BY <2>1, <2>2 DEF IInv, Exclusive
  <2>4. TypeOK'
    BY <1>8, <2>2 DEF IInv, TypeOK, RollBack, store
  <2>5. Exclusive' /\ Pending'
    BY <2>3 DEF Exclusive, Pending
  <2>6. VersionChain' /\ ClaimedWhatWasRead' /\ FactsOncePerKey'
    BY <1>8 DEF IInv, VersionChain, ClaimedWhatWasRead, FactsOncePerKey, RollBack, store
  <2> QED
    BY <2>2, <2>4, <2>5, <2>6 DEF IInv
<1>9. CASE Commit(c)
  BY <1>9, CommitInv
<1>10. CASE Reply(c)
  <2>1. pc' = [pc EXCEPT ![c] = "answered"]
    BY <1>10 DEF Reply
  <2>2. TypeOK'
    BY <1>10 DEF IInv, TypeOK, Reply, States, store
  <2>3. \A d \in Caller: pc'[d] # "answered" => pc'[d] = pc[d]
    BY <2>1 DEF IInv, TypeOK
  <2>4. InChain' /\ Exclusive' /\ Pending'
    BY <1>10, <2>3 DEF IInv, InChain, Exclusive, Pending, Chain, Reply, store,
                       Fresh, VersionAsRead
  <2>5. VersionChain' /\ ClaimedWhatWasRead' /\ FactsOncePerKey'
    BY <1>10 DEF IInv, VersionChain, ClaimedWhatWasRead, FactsOncePerKey, Reply, store
  <2> QED
    BY <2>2, <2>4, <2>5 DEF IInv
<1> QED
  BY <1>1, <1>2, <1>3, <1>4, <1>5, <1>6, <1>7, <1>8, <1>9, <1>10 DEF Step

\* A crash empties the chains and drops the open transaction.
LEMMA CrashInv == ASSUME IInv, Crash PROVE IInv'
<1>1. TypeOK'
  <2>1. queue' \in [Client -> [Key -> Seq(Caller)]]
    BY DEF Crash
  <2>2. pc' \in [Caller -> States]
    BY DEF Crash, States
  <2>3. answer' \in [Caller -> [verdict: Verdicts, version: Nat]]
    BY DEF IInv, TypeOK, Crash, Verdicts
  <2> QED
    BY <2>1, <2>2, <2>3 DEF IInv, TypeOK, Crash, store
<1>2. \A c \in Caller: pc'[c] \notin {"queued", "handling", "persisted"}
  BY DEF Crash
<1>3. InChain' /\ Exclusive' /\ Pending'
  BY <1>2 DEF InChain, Exclusive, Pending
<1>4. VersionChain' /\ ClaimedWhatWasRead' /\ FactsOncePerKey'
  BY DEF IInv, VersionChain, ClaimedWhatWasRead, FactsOncePerKey, Crash, store
<1> QED
  BY <1>1, <1>3, <1>4 DEF IInv

\* No step leaves the inductive invariant.
LEMMA NextInv == IInv /\ [Next]_vars => IInv'
<1> SUFFICES ASSUME IInv, [Next]_vars PROVE IInv'
  OBVIOUS
<1>1. CASE Crash
  BY <1>1, CrashInv
<1>2. CASE \E c \in Caller: Step(c)
  BY <1>2, CallerInv
<1>3. CASE UNCHANGED vars
  BY <1>3 DEF vars, IInv, TypeOK, InChain, Exclusive, Pending, Chain, Fresh,
              VersionAsRead, VersionChain, ClaimedWhatWasRead, FactsOncePerKey
<1> QED
  BY <1>1, <1>2, <1>3 DEF Next

\* Every reachable state of the kernel satisfies the inductive invariant.
THEOREM Invariance == Spec => []IInv
<1> QED
  BY InitInv, NextInv, PTL DEF Spec

\* Every variable of the kernel keeps its type, the promise chains included.
THEOREM TypeCorrect == Spec => []TypeOK
<1>1. IInv => TypeOK
  BY DEF IInv
<1> QED
  BY <1>1, Invariance, PTL

\* The committed commands of every aggregate carry the versions 1..version, one
\* each, whatever was rolled back, retried or lost in a crash.
THEOREM VersionChainHolds == Spec => []VersionChain
<1>1. IInv => VersionChain
  BY DEF IInv
<1> QED
  BY <1>1, Invariance, PTL

\* A committed command claimed the version after the one its author had read.
THEOREM ClaimedWhatWasReadHolds == Spec => []ClaimedWhatWasRead
<1>1. IInv => ClaimedWhatWasRead
  BY DEF IInv
<1> QED
  BY <1>1, Invariance, PTL

\* The facts of an idempotency key are written once if its command is committed
\* and never otherwise.
THEOREM FactsOnce == Spec => []FactsOncePerKey
<1>1. IInv => FactsOncePerKey
  BY DEF IInv
<1> QED
  BY <1>1, Invariance, PTL

\* A committed command is never rewritten, and an aggregate version moves only
\* by one, with the commit of a command that carries it.
THEOREM CommittedForever == Spec => CommittedIsForever
<1> DEFINE Permanent ==
             /\ \A k \in Key: stored[k] # NoCommand => stored'[k] = stored[k]
             /\ \A a \in Aggregate: version'[a] # version[a] =>
                  /\ version'[a] = version[a] + 1
                  /\ \E k \in Key: /\ stored[k] = NoCommand
                                   /\ stored'[k] # NoCommand
                                   /\ stored'[k].version = version'[a]
<1>1. ASSUME IInv, [Next]_vars PROVE [Permanent]_vars
  <2> SUFFICES ASSUME NEW c \in Caller, Commit(c) PROVE Permanent
    BY <1>1 DEF Next, Step, Crash, Submit, Retry, Enqueue, WaitedTooLong, Replay,
                VersionConflict, Claim, Persist, RollBack, Reply, store, vars
  <2> DEFINE k == request[c].key
             a == request[c].content.agg
  <2>1. /\ request[c].content \in Contents /\ a \in Aggregate /\ k \in Key
        /\ version[a] \in Nat /\ request[c].principal \in Principal
    BY <1>1 DEF IInv, TypeOK, Requests, Contents
  <2>2. stored[k] = NoCommand /\ staged.version = [version EXCEPT ![a] = @ + 1]
    BY <1>1 DEF IInv, Pending, Commit, Fresh
  <2>3. version' = [version EXCEPT ![a] = @ + 1] /\ staged.version[a] = version[a] + 1
    BY <1>1, <2>1, <2>2 DEF Commit, IInv, TypeOK
  <2>4. stored' = [stored EXCEPT ![k] = [content |-> request[c].content,
                     author |-> request[c].principal, version |-> version[a] + 1]]
    BY <2>3 DEF Commit
  <2>5. stored'[k].version = version[a] + 1 /\ stored'[k] # NoCommand
    BY <1>1, <2>1, <2>4, KernelAssumption DEF IInv, TypeOK
  <2>6. \A j \in Key: stored[j] # NoCommand => stored'[j] = stored[j]
    BY <1>1, <2>2, <2>4 DEF IInv, TypeOK
  <2>7. \A b \in Aggregate: version'[b] # version[b] => b = a /\ version'[b] = version[b] + 1
    BY <1>1, <2>1, <2>3 DEF IInv, TypeOK
  <2> QED
    BY SMTT(40), <2>1, <2>2, <2>3, <2>5, <2>6, <2>7
<1> QED
  BY <1>1, Invariance, PTL DEF Spec, CommittedIsForever

-----------------------------------------------------------------------------
(* Reservations. The transaction that is about to commit found the         *)
(* reservation in the state its operation requires; it holds the only      *)
(* connection, so the reservation is in that state when it commits.        *)

Guarded ==
    \A c \in Caller: pc[c] = "persisted" =>
      reservation[request[c].content.res] \in RequiredState(request[c].content.op)

\* The committed commands that opened, or closed, a reservation.
By(r, op) == {k \in Key: /\ stored[k] # NoCommand
                         /\ stored[k].content.op = op
                         /\ stored[k].content.res = r}

HistoryInv == Guarded /\ ReservationHistory

\* The first open finds the reservation absent, the first close finds it open.
LEMMA CommitHistory ==
    ASSUME IInv, HistoryInv, NEW c \in Caller, Commit(c)
    PROVE  ReservationHistory'
<1> DEFINE content == request[c].content
           k == request[c].key
<1>1. /\ content \in Contents /\ k \in Key /\ content.res \in Reservation
      /\ content.op \in Operations
  BY DEF IInv, TypeOK, Requests, Contents
<1>2. /\ stored[k] = NoCommand
      /\ reservation' = [reservation EXCEPT ![content.res] = ReachedState(content.op)]
      /\ reservation[content.res] \in RequiredState(content.op)
  BY DEF IInv, Pending, Commit, Fresh, HistoryInv, Guarded
<1>3. /\ stored'[k].content = content
      /\ \A j \in Key: j # k => stored'[j] = stored[j]
  BY <1>1 DEF Commit, IInv, TypeOK
<1>4. stored'[k] # NoCommand
  <2>1. stored' \in [Key -> Command \cup {NoCommand}]
    BY CommitInv DEF IInv, TypeOK
  <2>2. staged.version[content.agg] \in Nat /\ request[c].principal \in Principal
    BY <1>1 DEF IInv, TypeOK, Pending, Commit, Requests, Contents
  <2>3. [content |-> content, author |-> request[c].principal,
         version |-> staged.version[content.agg]] # NoCommand
    BY <1>1, <2>2, KernelAssumption
  <2> QED
    BY <1>1, <2>3 DEF Commit, IInv, TypeOK
<1> HIDE DEF content, k
<1>5. \A r \in Reservation, op \in Operations:
        By(r, op)' = IF r = content.res /\ op = content.op
                     THEN By(r, op) \cup {k} ELSE By(r, op)
  BY <1>1, <1>2, <1>3, <1>4 DEF By
<1>6. k \notin By(content.res, content.op)
  BY <1>2 DEF By
<1> SUFFICES ASSUME NEW r \in Reservation
    PROVE /\ reservation'[r] = "absent" => By(r, "open")' = {} /\ By(r, "close")' = {}
          /\ reservation'[r] = "active" => By(r, "open")' # {} /\ By(r, "close")' = {}
          /\ reservation'[r] = "closed" => By(r, "open")' # {} /\ By(r, "close")' # {}
          /\ \A op \in Operations: \A i, j \in By(r, op)': i = j
  BY DEF ReservationHistory, By
<1>7. /\ reservation[r] = "absent" => By(r, "open") = {} /\ By(r, "close") = {}
      /\ reservation[r] = "active" => By(r, "open") # {} /\ By(r, "close") = {}
      /\ reservation[r] = "closed" => By(r, "open") # {} /\ By(r, "close") # {}
      /\ \A op \in Operations: \A i, j \in By(r, op): i = j
  BY DEF HistoryInv, ReservationHistory, By
<1>8. "open" \in Operations /\ "close" \in Operations
  BY DEF Operations
<1>9. CASE r # content.res
  <2>1. reservation'[r] = reservation[r]
    BY <1>2, <1>9 DEF IInv, TypeOK
  <2>2. \A op \in Operations: By(r, op)' = By(r, op)
    BY <1>5, <1>9
  <2> QED
    BY <1>7, <1>8, <2>1, <2>2
<1>10. CASE r = content.res
  <2>1. reservation'[r] = ReachedState(content.op)
    BY <1>2, <1>10 DEF IInv, TypeOK
  <2>2. CASE content.op = "open"
    <3>1. By(r, "open") = {} /\ By(r, "close") = {} /\ reservation'[r] = "active"
      BY <1>2, <1>7, <1>10, <2>1, <2>2 DEF RequiredState, ReachedState
    <3>2. By(r, "open")' = {k} /\ By(r, "close")' = {}
      BY <1>5, <1>8, <1>10, <2>2, <3>1
    <3> QED
      BY <3>1, <3>2 DEF Operations
  <2>3. CASE content.op = "close"
    <3>1. By(r, "open") # {} /\ By(r, "close") = {} /\ reservation'[r] = "closed"
      BY <1>2, <1>7, <1>10, <2>1, <2>3 DEF RequiredState, ReachedState
    <3>2. By(r, "open")' = By(r, "open") /\ By(r, "close")' = {k}
      BY <1>5, <1>8, <1>10, <2>3, <3>1
    <3> QED
      BY <1>7, <3>1, <3>2 DEF Operations
  <2> QED
    BY <1>1, <2>2, <2>3 DEF Operations
<1> QED
  BY <1>9, <1>10

\* No step leaves the history of the reservations.
LEMMA NextHistory ==
    ASSUME IInv, HistoryInv, [Next]_vars
    PROVE  HistoryInv'
<1>1. CASE \E c \in Caller: Commit(c)
  <2>1. PICK c \in Caller: Commit(c)
    BY <1>1
  <2>2. \A d \in Caller: pc'[d] # "persisted"
    BY <2>1 DEF Commit, Finish, IInv, TypeOK, Exclusive
  <2> QED
    BY <2>1, <2>2, CommitHistory DEF HistoryInv, Guarded
<1>2. CASE \E c \in Caller: Persist(c)
  <2>1. PICK c \in Caller: Persist(c)
    BY <1>2
  <2>2. UNCHANGED <<stored, reservation, request>>
    BY <2>1 DEF Persist, store
  <2>3. reservation[request[c].content.res] \in RequiredState(request[c].content.op)
    BY <2>1 DEF Persist, IInv, Pending
  <2>4. \A d \in Caller: pc'[d] = "persisted" => d = c \/ pc[d] = "persisted"
    BY <2>1 DEF Persist, IInv, TypeOK
  <2> QED
    BY <2>2, <2>3, <2>4 DEF HistoryInv, Guarded, ReservationHistory
<1>3. CASE ~(\E c \in Caller: Commit(c) \/ Persist(c))
  <2>1. /\ UNCHANGED <<stored, reservation>>
        /\ \A d \in Caller: pc'[d] = "persisted" =>
             pc[d] = "persisted" /\ request'[d] = request[d]
    BY ZenonT(40), <1>3 DEF Next, Step, Submit, Retry, Enqueue, WaitedTooLong, Replay, VersionConflict,
         Claim, RollBack, Reply, Finish, Leads, Crash, vars, store, IInv, TypeOK
  <2> QED
    BY SMTT(40), <2>1 DEF HistoryInv, Guarded, ReservationHistory
<1> QED
  BY <1>1, <1>2, <1>3

\* A reservation is opened by one command and closed by one, and its state is the
\* one those commands left it in.
THEOREM ReservationHistoryHolds == Spec => []ReservationHistory
<1>1. Init => HistoryInv
  BY DEF Init, HistoryInv, Guarded, ReservationHistory
<1>2. IInv /\ HistoryInv /\ [Next]_vars => HistoryInv'
  BY NextHistory
<1>3. HistoryInv => ReservationHistory
  BY DEF HistoryInv
<1> QED
  BY <1>1, <1>2, <1>3, Invariance, PTL DEF Spec

-----------------------------------------------------------------------------
(* Answers. A positive answer is given about the content that is stored,    *)
(* and neither the stored command nor the content a caller asks for ever    *)
(* changes after it.                                                        *)

Positive(c) == answer[c].verdict \in {"committed", "replayed"}

\* The answer of one caller is the stored one.
Answered(c) ==
    LET command == stored[request[c].key]
        reader  == request[c].principal IN
    /\ command # NoCommand
    /\ command.content = request[c].content
    /\ command.version = answer[c].version
    /\ "person" \in {command.author.kind, reader.kind} =>
         /\ command.author.kind = reader.kind
         /\ command.author.subject = reader.subject

LEMMA AnswersRead == AnswerIsTheStoredOne <=> \A c \in Caller: Positive(c) => Answered(c)
<1> QED
  BY DEF AnswerIsTheStoredOne, Positive, Answered

\* A committed command stays as it is.
LEMMA StoredStays ==
    ASSUME IInv, [Next]_vars
    PROVE  \A k \in Key: stored[k] # NoCommand => stored'[k] = stored[k]
<1>1. CASE \E c \in Caller: Commit(c)
  <2>1. PICK c \in Caller: Commit(c)
    BY <1>1
  <2>2. stored[request[c].key] = NoCommand
    BY <2>1 DEF IInv, Pending, Commit, Fresh
  <2> QED
    BY <2>1, <2>2 DEF Commit, IInv, TypeOK
<1>2. CASE ~(\E c \in Caller: Commit(c))
  BY <1>2 DEF Next, Step, Submit, Retry, Enqueue, WaitedTooLong, Replay, VersionConflict,
       Claim, Persist, RollBack, Reply, Crash, vars, store
<1> QED
  BY <1>1, <1>2

\* What a step does to the answer a caller has.
LEMMA AnswerMoves ==
    ASSUME IInv, [Next]_vars, NEW c \in Caller, Positive(c)'
    PROVE  \/ Positive(c) /\ answer'[c] = answer[c] /\ request'[c] = request[c]
           \/ Commit(c)
           \/ /\ Replay(c) /\ SameContent(c) /\ ~Fresh(c)
              /\ MayReplay(stored[request[c].key].author, request[c].principal)
              /\ answer'[c].version = stored[request[c].key].version
<1> USE DEF Positive
<1>0. answer \in [Caller -> [verdict: Verdicts, version: Nat]] /\ request \in [Caller -> Requests]
  BY DEF IInv, TypeOK
<1>1. CASE Crash
  BY <1>0, <1>1 DEF Crash
<1>2. CASE UNCHANGED vars
  BY <1>2 DEF vars
<1>3. ASSUME NEW d \in Caller, Step(d), d # c
      PROVE  Positive(c) /\ answer'[c] = answer[c] /\ request'[c] = request[c]
  <2>1. answer'[c] = answer[c]
    BY <1>0, <1>3 DEF Step, Submit, Retry, Enqueue, WaitedTooLong, Replay, VersionConflict,
         Claim, Persist, RollBack, Commit, Reply, Finish
  <2>2. request'[c] = request[c]
    BY <1>0, <1>3 DEF Step, Submit, Retry, Enqueue, WaitedTooLong, Replay, VersionConflict,
         Claim, Persist, RollBack, Commit, Reply, Finish
  <2> QED
    BY <2>1, <2>2
<1>4. CASE Submit(c) \/ Retry(c)
  BY <1>0, <1>4 DEF Submit, Retry, Enqueue
<1>5. CASE WaitedTooLong(c) \/ VersionConflict(c) \/ RollBack(c)
  BY <1>0, <1>5 DEF WaitedTooLong, VersionConflict, RollBack, Finish
<1>6. CASE Claim(c) \/ Persist(c) \/ Reply(c)
  BY <1>0, <1>6 DEF Claim, Persist, Reply
<1>7. CASE Replay(c)
  BY <1>0, <1>7 DEF Replay, Finish
<1> QED
  BY <1>1, <1>2, <1>3, <1>4, <1>5, <1>6, <1>7 DEF Next, Step

\* What a commit stores, and what its caller is told.
CommitTells(c) ==
    /\ answer'[c] = [verdict |-> "committed", version |-> stored'[request[c].key].version]
    /\ request' = request
    /\ stored[request[c].key] = NoCommand
    /\ stored'[request[c].key] # NoCommand
    /\ stored'[request[c].key].content = request[c].content
    /\ stored'[request[c].key].author = request[c].principal
    /\ \A d \in Caller: d # c => answer'[d] = answer[d]
    /\ \A k \in Key: k # request[c].key => stored'[k] = stored[k]

\* A caller that is told of its commit is told what was stored.
LEMMA CommitAnswer ==
    ASSUME IInv, NEW c \in Caller, Commit(c)
    PROVE  CommitTells(c)
<1> DEFINE content == request[c].content
           k == request[c].key
           at == staged.version[content.agg]
<1>1. content \in Contents /\ k \in Key /\ request[c].principal \in Principal
  BY DEF IInv, TypeOK, Requests, Contents
<1>2. at \in Nat /\ stored[k] = NoCommand
  BY <1>1 DEF IInv, TypeOK, Pending, Commit, Contents, Fresh
<1>3. [content |-> content, author |-> request[c].principal, version |-> at] # NoCommand
  BY <1>1, <1>2, KernelAssumption
<1> QED
  BY <1>1, <1>2, <1>3 DEF CommitTells, Commit, Finish, IInv, TypeOK

\* The answers stay the stored ones.
LEMMA NextAnswers ==
    ASSUME IInv, AnswerIsTheStoredOne, [Next]_vars
    PROVE  AnswerIsTheStoredOne'
<1> SUFFICES ASSUME NEW c \in Caller, Positive(c)' PROVE Answered(c)'
  BY DEF AnswerIsTheStoredOne, Positive, Answered
<1>0. request[c].key \in Key
  BY DEF IInv, TypeOK, Requests
<1>1. CASE Positive(c) /\ answer'[c] = answer[c] /\ request'[c] = request[c]
  <2>1. Answered(c)
    BY <1>1, AnswersRead
  <2>2. stored'[request[c].key] = stored[request[c].key]
    BY <1>0, <2>1, StoredStays DEF Answered
  <2> QED
    BY <1>1, <2>1, <2>2 DEF Answered
<1>2. CASE Commit(c)
  <2>1. /\ request'[c] = request[c]
        /\ answer'[c].version = stored'[request[c].key].version
        /\ stored'[request[c].key] # NoCommand
        /\ stored'[request[c].key].content = request[c].content
        /\ stored'[request[c].key].author = request[c].principal
    <3>1. CommitTells(c)
      BY <1>2, CommitAnswer
    <3> QED
      BY <3>1 DEF CommitTells
  <2> QED
    BY <2>1 DEF Answered
<1>3. CASE /\ Replay(c) /\ SameContent(c) /\ ~Fresh(c)
           /\ MayReplay(stored[request[c].key].author, request[c].principal)
           /\ answer'[c].version = stored[request[c].key].version
  <2>1. UNCHANGED <<stored, request>>
    BY <1>3 DEF Replay, store
  <2> QED
    BY <1>3, <2>1 DEF Answered, SameContent, Fresh, MayReplay
<1> QED
  BY <1>1, <1>2, <1>3, AnswerMoves

\* Whoever is told of success is told of its own content, at the version stored,
\* and a person is told of nobody else's result.
THEOREM AnswerIsTheStoredOneHolds == Spec => []AnswerIsTheStoredOne
<1>1. Init => AnswerIsTheStoredOne
  BY SMTT(40) DEF Init, AnswerIsTheStoredOne
<1>2. IInv /\ AnswerIsTheStoredOne /\ [Next]_vars => AnswerIsTheStoredOne'
  BY SMTT(40), NextAnswers
<1> QED
  BY <1>1, <1>2, Invariance, PTL DEF Spec

-----------------------------------------------------------------------------
(* Refinement. A commit is the step in which a content takes effect, a       *)
(* replay tells of it, and every other answer, or its loss, forgets.         *)

Effect(k) == IF stored[k] = NoCommand THEN NoCommand ELSE stored[k].content
Told(c) == IF Positive(c) THEN request[c].content ELSE NoCommand

promised == <<[k \in Key |-> IF stored[k] = NoCommand THEN NoCommand
                            ELSE stored[k].content],
              [c \in Caller |-> IF answer[c].verdict \in {"committed", "replayed"}
                               THEN request[c].content ELSE NoCommand]>>

\* What callers ask for never leaves the requests of the instance.
Asked == \A c \in Caller: request[c].content \in {r.content: r \in Request}

LEMMA NextAsked == ASSUME IInv, Asked, [Next]_vars PROVE Asked'
<1> SUFFICES ASSUME NEW c \in Caller PROVE request'[c].content = request[c].content
  BY DEF Asked
<1>1. request \in [Caller -> Requests]
  BY DEF IInv, TypeOK
<1>2. CASE \E d \in Caller: Retry(d)
  BY <1>1, <1>2 DEF Retry, Requests
<1>3. CASE UNCHANGED request
  BY <1>3
<1> QED
  BY <1>2, <1>3 DEF Next, Step, Submit, WaitedTooLong, Replay, VersionConflict,
       Claim, Persist, RollBack, Commit, Reply, Crash, vars

\* Answers that are lost or given up, over a store that stays.
LEMMA ForgetStep ==
    ASSUME UNCHANGED stored,
           \A c \in Caller: Told(c)' = Told(c) \/ Told(c)' = NoCommand
    PROVE  Promise!Next
<1>0. PICK S \in SUBSET Caller: \A c \in Caller: IF c \in S THEN Told(c)' = NoCommand
                                                ELSE Told(c)' = Told(c)
  <2> WITNESS {c \in Caller: Told(c)' = NoCommand} \in SUBSET Caller
  <2> QED
    OBVIOUS
<1>1. [c \in Caller |-> Told(c)]' =
        [c \in Caller |-> IF c \in S THEN NoCommand ELSE [d \in Caller |-> Told(d)][c]]
  BY <1>0
<1>2. UNCHANGED [k \in Key |-> Effect(k)]
  BY DEF Effect
<1>3. Promise!Forget(S)
  BY <1>1, <1>2 DEF Promise!Forget, Effect, Told, Positive
<1> QED
  BY <1>3 DEF Promise!Next

LEMMA NextPromise ==
    ASSUME IInv, AnswerIsTheStoredOne, AnswerIsTheStoredOne', Asked, [Next]_vars
    PROVE  [Promise!Next]_promised
<1>0. /\ answer \in [Caller -> [verdict: Verdicts, version: Nat]]
      /\ \A c \in Caller: request[c].key \in Key
  BY DEF IInv, TypeOK, Requests
<1>1. ASSUME NEW c \in Caller, Commit(c) PROVE Promise!Next
  <2>1. PICK k \in Key: k = request[c].key
    BY <1>0
  <2>2. PICK x \in {r.content: r \in Request}: x = request[c].content
    BY DEF Asked
  <2>a. /\ UNCHANGED request /\ stored[k] = NoCommand /\ stored'[k] # NoCommand
        /\ stored'[k].content = x /\ answer'[c].verdict = "committed"
        /\ \A d \in Caller: d # c => answer'[d] = answer[d]
        /\ \A j \in Key: j # k => stored'[j] = stored[j]
    <3>1. CommitTells(c)
      BY <1>1, CommitAnswer
    <3> QED
      BY <2>1, <2>2, <3>1 DEF CommitTells
  <2>3. /\ Effect(k) = NoCommand /\ Effect(k)' = x /\ Told(c)' = x
        /\ \A j \in Key: j # k => Effect(j)' = Effect(j)
        /\ \A d \in Caller: d # c => Told(d)' = Told(d)
    BY <2>2, <2>a DEF Effect, Told, Positive
  <2>4. [j \in Key |-> Effect(j)]' = [[j \in Key |-> Effect(j)] EXCEPT ![k] = x]
    BY <2>3
  <2>5. [d \in Caller |-> Told(d)]' = [[d \in Caller |-> Told(d)] EXCEPT ![c] = x]
    BY <2>3
  <2>6. Promise!TakeEffect(c, k, x)
    BY <2>3, <2>4, <2>5 DEF Promise!TakeEffect, Effect, Told, Positive
  <2> QED
    BY <2>6 DEF Promise!Next
<1>2. ASSUME NEW c \in Caller, Replay(c) PROVE Promise!Next
  <2>1. UNCHANGED <<stored, request>> /\ ~Fresh(c)
    BY <1>2 DEF Replay, store
  <2>2. \A d \in Caller: d # c => Told(d)' = Told(d)
    BY <1>0, <1>2, <2>1 DEF Replay, Finish, Told, Positive
  <2>3. CASE ~Positive(c)'
    BY <2>1, <2>2, <2>3, ForgetStep DEF Told
  <2>4. CASE Positive(c)'
    <3>1. PICK k \in Key: k = request[c].key
      BY <1>0
    <3>2. Effect(k) = request[c].content /\ Told(c)' = Effect(k)
      <4>1. Answered(c)'
        BY <2>4 DEF AnswerIsTheStoredOne, Positive, Answered
      <4> QED
        BY <2>1, <2>4, <3>1, <4>1 DEF Answered, Effect, Told, Fresh
    <3>3. [d \in Caller |-> Told(d)]' = [[d \in Caller |-> Told(d)] EXCEPT ![c] = Effect(k)]
      BY <2>2, <3>2
    <3>4. Effect(k) # NoCommand
      BY <3>2, KernelAssumption DEF IInv, TypeOK, Requests
    <3>5. Promise!Tell(c, k)
      BY <2>1, <3>3, <3>4 DEF Promise!Tell, Effect, Told, Positive
    <3> QED
      BY <3>5 DEF Promise!Next
  <2> QED
    BY <2>3, <2>4
<1>3. CASE ~(\E c \in Caller: Commit(c) \/ Replay(c))
  <2>1. UNCHANGED stored
    BY <1>3 DEF Next, Step, Submit, Retry, Enqueue, WaitedTooLong, VersionConflict,
         Claim, Persist, RollBack, Reply, Crash, vars, store
  <2>2. \A c \in Caller: Positive(c)' => answer'[c] = answer[c] /\ request'[c] = request[c]
    BY <1>3, AnswerMoves
  <2>3. \A c \in Caller: Told(c)' = Told(c) \/ Told(c)' = NoCommand
    BY <2>2 DEF Told, Positive
  <2> QED
    BY <2>1, <2>3, ForgetStep
<1> QED
  BY <1>1, <1>2, <1>3

\* Queue, transaction, retries, sessions and crashes implement exactly-once
\* execution: one content per key, once, and positive answers about it only.
THEOREM KeepsPromiseHolds == Spec => KeepsPromise
<1>1. Init => Asked /\ AnswerIsTheStoredOne
  BY DEF Init, Asked, AnswerIsTheStoredOne
<1>2. IInv /\ Asked /\ [Next]_vars => Asked'
  BY NextAsked
<1>3. Init => Promise!Init
  <2> SUFFICES ASSUME Init PROVE Promise!Init
    OBVIOUS
  <2>1. \A c \in Caller: ~Positive(c)
    BY DEF Init, Positive
  <2> QED
    BY <2>1 DEF Init, Promise!Init, Positive
<1>4. /\ IInv /\ AnswerIsTheStoredOne /\ AnswerIsTheStoredOne' /\ Asked /\ [Next]_vars
      => [Promise!Next]_promised
  BY NextPromise
<1> QED
  BY <1>1, <1>2, <1>3, <1>4, Invariance, AnswerIsTheStoredOneHolds, PTL
     DEF Spec, KeepsPromise, Promise!Spec, Promise!vars, promised
=============================================================================
