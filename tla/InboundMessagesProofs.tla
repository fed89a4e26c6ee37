----------------------- MODULE InboundMessagesProofs -----------------------
(***************************************************************************)
(* InboundMessages implements InboundPromise, for any messages, handlers,  *)
(* thresholds, budgets and faults.                                         *)
(*                                                                         *)
(* The invariant ties the three stores together (Tells): a file leaves the *)
(* spool when its row has ended, the inbox has the message as long as its  *)
(* row says so, and what the kernel committed has ended.  It needs what    *)
(* the processes know of each other: the request that is out concerns a    *)
(* file on disk (Asked), and only the handler the sidecar listens to can   *)
(* answer it (Answers).  Then a message's fate can be read off its row and *)
(* its file (FateIs), and most steps leave it alone (RowsGoOn).            *)
(***************************************************************************)
EXTENDS InboundMessages, TLAPS

-----------------------------------------------------------------------------
\* What the states are made of; the pass, the breaker and the order of the spool
\* play no part in what becomes of a message.
Anyone == Message \union {Someone}
FileRow == [state: {"none", "pending", "committed"}, rest: 0..2]
Request == [pc: {"none", "sent", "taken", "answered", "finish"}, message: Anyone,
            probe: BOOLEAN, answer: {"none", "taken", "failure", "refused"}]
Statuses ==
    {"absent", "received", "processing", "retrying", "applied", "dead_letter", "chat_deleted"}
IngressRow == [status: Statuses, left: Nat, lease: Nat, expired: BOOLEAN, due: BOOLEAN]
Work == [pc: {"idle", "process", "apply"}, message: Anyone, lease: Nat, heard: BOOLEAN]

Typed ==
    /\ file \in [Message -> FileRow]
    /\ post \in Request
    /\ row \in [Message -> IngressRow]
    /\ copies \in [Message -> Nat]
    /\ applied \subseteq Message
    /\ handler \in [Handler -> Work]

\* A message leaves the spool when its row has ended, and is in the inbox as
\* long as its row says so; what the kernel has committed has ended.
Tells(m) ==
    /\ file[m].state = "none" => row[m].status = "absent" \/ Ended(row[m].status)
    /\ file[m].state = "committed" => Ended(row[m].status)
    /\ copies[m] = IF row[m].status = "applied" THEN 1 ELSE 0
    /\ m \in applied => Ended(row[m].status)

\* The request that is out concerns a message on disk, and what the app says it
\* took has ended.
Asked ==
    /\ post.pc # "none" => post.message \in Message
    /\ post.pc \in {"sent", "taken", "answered"} => file[post.message].state = "pending"
    /\ post.pc = "answered" /\ post.answer = "taken" => Ended(row[post.message].status)

\* Whom the sidecar listens to works on the message it asked about, alone.
Answers ==
    /\ \A h \in Handler:
        /\ handler[h].pc # "idle" => handler[h].message \in Message
        /\ handler[h].heard => post.pc = "taken" /\ handler[h].message = post.message
                                 /\ handler[h].pc # "idle"
    /\ \A h, g \in Handler: handler[h].heard /\ handler[g].heard => h = g

AllTell == \A m \in Message: Tells(m)

IInv == Typed /\ AllTell /\ Asked /\ Answers

-----------------------------------------------------------------------------
\* What a row and a file say of the message's fate.
Reads(m) ==
    /\ row[m].status = "applied" => Fate(m) = "shown"
    /\ row[m].status = "chat_deleted" => Fate(m) = "deleted"
    /\ ~Ended(row[m].status) /\ file[m].state # "none" => Fate(m) = "kept"
    /\ ~Ended(row[m].status) /\ file[m].state = "none" => Fate(m) = "unheard"

LEMMA FateIs == AllTell => \A m \in Message: Reads(m)
<1> SUFFICES ASSUME AllTell, NEW m \in Message PROVE Reads(m)
  OBVIOUS
<1>1. Tells(m) /\ copies[m] = (IF row[m].status = "applied" THEN 1 ELSE 0)
  BY DEF AllTell, Tells
<1>2. CASE row[m].status = "applied"
  BY <1>1, <1>2 DEF Fate, Known, Ended, Reads
<1>3. CASE row[m].status = "chat_deleted"
  BY <1>1, <1>3 DEF Fate, Known, Ended, Reads
<1>4. CASE ~Ended(row[m].status) /\ file[m].state # "none"
  BY <1>1, <1>4 DEF Fate, Known, Ended, Reads
<1>5. CASE ~Ended(row[m].status) /\ file[m].state = "none"
  <2>1. row[m].status = "absent" /\ copies[m] = 0
    BY <1>1, <1>5 DEF Tells, Ended
  <2> QED
    BY <1>5, <2>1 DEF Fate, Known, Ended, Reads
<1> QED
  BY <1>2, <1>3, <1>4, <1>5 DEF Ended

LEMMA FateWillBe == AllTell' => \A m \in Message: Reads(m)'
<1>1. AllTell' => (\A m \in Message: Reads(m))'
  BY FateIs, PTL
<1> QED
  BY <1>1

\* Fates that do not move.
SameFates == \A m \in Message: Fate(m)' = Fate(m)

\* Steps on rows under way: none appears, ends or comes back.
RowsGo ==
    \A m \in Message:
        \/ row'[m].status = row[m].status
        \/ /\ ~Ended(row[m].status) /\ row[m].status # "absent"
           /\ ~Ended(row'[m].status) /\ row'[m].status # "absent"

FilesStay == \A m \in Message: file'[m].state = file[m].state

LEMMA RowsGoOn ==
    ASSUME IInv, RowsGo, FilesStay, UNCHANGED <<copies, applied>>
    PROVE  /\ AllTell'
           /\ \A m \in Message: Ended(row[m].status) => Ended(row'[m].status)
           /\ SameFates
<1>1. ASSUME NEW m \in Message PROVE Tells(m)' /\ (Ended(row[m].status) => Ended(row'[m].status))
  <2>1. Tells(m) /\ file'[m].state = file[m].state /\ copies' = copies /\ applied' = applied
    BY DEF IInv, AllTell, FilesStay
  <2>2. CASE row'[m].status = row[m].status
    BY <2>1, <2>2 DEF Tells
  <2>3. CASE /\ ~Ended(row[m].status) /\ row[m].status # "absent"
             /\ ~Ended(row'[m].status) /\ row'[m].status # "absent"
    BY <2>1, <2>3 DEF Tells, Ended
  <2> QED
    BY <2>2, <2>3 DEF RowsGo
<1>2. AllTell'
  BY <1>1 DEF AllTell
<1>3. ASSUME NEW m \in Message PROVE Fate(m)' = Fate(m)
  <2>1. Reads(m) /\ Reads(m)' /\ file'[m].state = file[m].state
    BY <1>2, FateIs, FateWillBe DEF IInv, FilesStay
  <2> QED
    BY <2>1 DEF Reads, Ended, RowsGo
<1> QED
  BY <1>1, <1>2, <1>3 DEF SameFates
-----------------------------------------------------------------------------
\* One lemma per action, or per kind of action.

\* Steps of the sidecar that leave request, rows and handlers alone.
LEMMA QuietKeeps ==
    ASSUME IInv, FilesStay, file' \in [Message -> FileRow], UNCHANGED <<post, rowVars, handler>>
    PROVE  IInv' /\ SameFates
<1>1. /\ post' = post /\ row' = row /\ applied' = applied /\ copies' = copies
      /\ handler' = handler
  BY DEF rowVars
<1>2. AllTell' /\ SameFates
  BY <1>1, RowsGoOn DEF RowsGo
<1>3. Typed' /\ Answers'
  BY <1>1 DEF IInv, Typed, Answers
<1>4. Asked'
  BY <1>1 DEF IInv, Asked, FilesStay
<1> QED
  BY <1>2, <1>3, <1>4 DEF IInv

LEMMA RestKeeps ==
    ASSUME IInv, EndPass \/ \E m \in Message: Wake(m) PROVE IInv' /\ SameFates
<1>1. file \in [Message -> FileRow]
  BY DEF IInv, Typed
<1>2. /\ UNCHANGED <<post, rowVars, handler>>
      /\ \A m \in Message: file'[m] = file[m] \/ \E r \in 0..2: file'[m] = [file[m] EXCEPT !.rest = r]
      /\ file' \in [Message -> FileRow]
  <2>1. CASE EndPass
    <3>1. file' = [m \in Message |->
                     IF file[m].rest = 2 /\ m \notin pass.tried THEN [file[m] EXCEPT !.rest = 1]
                     ELSE file[m]]
      BY <2>1 DEF EndPass
    <3>2. \A m \in Message: file[m] \in FileRow /\ [file[m] EXCEPT !.rest = 1] \in FileRow
      BY <1>1 DEF FileRow
    <3>3. UNCHANGED <<post, rowVars, handler>>
      BY <2>1 DEF EndPass
    <3>4. \A m \in Message: file'[m] = file[m] \/ file'[m] = [file[m] EXCEPT !.rest = 1]
      BY <3>1
    <3> QED
      BY <3>1, <3>2, <3>3, <3>4
  <2>2. CASE \E m \in Message: Wake(m)
    <3>1. PICK m \in Message: Wake(m)
      BY <2>2
    <3>2. file' = [file EXCEPT ![m].rest = 0] /\ UNCHANGED <<post, rowVars, handler>>
      BY <3>1 DEF Wake
    <3>3. [file[m] EXCEPT !.rest = 0] \in FileRow
      BY <1>1 DEF FileRow
    <3>4. file' = [file EXCEPT ![m] = [file[m] EXCEPT !.rest = 0]]
      BY <1>1, <3>2
    <3> QED
      BY <1>1, <3>2, <3>3, <3>4
  <2> QED
    BY <2>1, <2>2
<1>3. FilesStay
  BY <1>1, <1>2 DEF FilesStay, FileRow
<1> QED
  BY <1>2, <1>3, QuietKeeps

\* The sidecar's request changes hands; files and rows stay.
LEMMA RequestKeeps ==
    ASSUME IInv, NEW r \in Request, NEW w \in [Handler -> Work],
           post' = r, handler' = w, FilesStay, file' \in [Message -> FileRow],
           UNCHANGED rowVars, Asked', Answers'
    PROVE  IInv' /\ SameFates
<1>1. row' = row /\ applied' = applied /\ copies' = copies
  BY DEF rowVars
<1>2. AllTell' /\ SameFates
  BY <1>1, RowsGoOn DEF RowsGo
<1>3. Typed'
  BY <1>1 DEF IInv, Typed
<1> QED
  BY <1>2, <1>3 DEF IInv

LEMMA PostTypes ==
    ASSUME IInv
    PROVE  /\ NoPost \in Request /\ NoPost.pc = "none" /\ Free \in Work
           /\ Free.pc = "idle" /\ ~Free.heard
           /\ \A h \in Handler: /\ handler[h] \in Work
                                /\ [handler[h] EXCEPT !.heard = FALSE] \in Work
           /\ \A h \in Handler: [handler[h] EXCEPT !.heard = FALSE].heard = FALSE
           /\ \A h \in Handler:
                [handler[h] EXCEPT !.heard = FALSE].message = handler[h].message
           /\ \A h \in Handler: [handler[h] EXCEPT !.heard = FALSE].pc = handler[h].pc
<1>1. handler \in [Handler -> Work]
  BY DEF IInv, Typed
<1> QED
  BY <1>1 DEF NoPost, Request, Anyone, Free, Work

LEMMA AskKeeps ==
    ASSUME IInv, NEW m \in Message, Ask(m) PROVE IInv' /\ SameFates
<1>1. /\ post.pc = "none" /\ file[m].state = "pending"
      /\ post' = [NoPost EXCEPT !.pc = "sent", !.message = m,
                                !.probe = breaker.state = "half-open"]
      /\ file' = file /\ UNCHANGED rowVars /\ handler' = handler
  BY DEF Ask
<1>2. /\ post'.pc = "sent" /\ post'.message = m /\ post'.answer = "none"
      /\ post' \in Request
  BY <1>1 DEF NoPost, Request, Anyone
<1>3. Asked'
  BY <1>1, <1>2 DEF Asked
<1>4. Answers'
  BY <1>1, <1>2 DEF IInv, Answers
<1>5. FilesStay /\ file' \in [Message -> FileRow] /\ handler \in [Handler -> Work]
  BY <1>1 DEF FilesStay, IInv, Typed
<1> QED
  BY <1>1, <1>2, <1>3, <1>4, <1>5, RequestKeeps

\* Nobody is listened to unless the request was taken.
LEMMA NobodyHeard ==
    ASSUME IInv, post.pc # "taken" PROVE \A h \in Handler: ~handler[h].heard
  BY DEF IInv, Answers

LEMMA JudgeKeeps == ASSUME IInv, Judge PROVE IInv' /\ SameFates
<1>1. /\ post.pc = "answered" /\ UNCHANGED rowVars /\ handler' = handler
      /\ post.message \in Message /\ file[post.message].state = "pending"
      /\ post \in Request /\ file \in [Message -> FileRow] /\ handler \in [Handler -> Work]
  BY DEF Judge, IInv, Asked, Typed
<1>2. row' = row /\ applied' = applied /\ copies' = copies
  BY <1>1 DEF rowVars
<1>3. \A h \in Handler: ~handler'[h].heard
  BY <1>1, NobodyHeard
<1>4. Answers'
  BY <1>1, <1>3 DEF IInv, Answers
<1>5. CASE Acknowledge
  <2>1. /\ post.answer = "taken"
        /\ file' = [file EXCEPT ![post.message] = [state |-> "committed", rest |-> 0]]
        /\ post' = [post EXCEPT !.pc = "finish"]
    BY <1>5 DEF Acknowledge
  <2>2. Ended(row[post.message].status)
    BY <1>1, <2>1 DEF IInv, Asked
  <2>3. post' \in Request /\ post'.pc = "finish" /\ post'.message = post.message
    BY <1>1, <2>1 DEF Request
  <2>4. /\ file' \in [Message -> FileRow] /\ file'[post.message].state = "committed"
        /\ \A m \in Message: m # post.message => file'[m] = file[m]
    BY <1>1, <2>1 DEF FileRow
  <2>5. AllTell'
    <3> SUFFICES ASSUME NEW m \in Message PROVE Tells(m)'
      BY DEF AllTell
    <3> QED
      BY <1>1, <1>2, <2>2, <2>4 DEF IInv, AllTell, Tells
  <2>6. SameFates
    <3> SUFFICES ASSUME NEW m \in Message PROVE Fate(m)' = Fate(m)
      BY DEF SameFates
    <3>1. Reads(m) /\ Reads(m)'
      BY <2>5, FateIs, FateWillBe DEF IInv
    <3>2. (file'[m].state = "none") <=> (file[m].state = "none")
      BY <1>1, <2>4
    <3> QED
      BY <1>2, <3>1, <3>2 DEF Reads, Ended, IInv, Typed, IngressRow, Statuses
  <2>7. Typed'
    BY <1>1, <1>2, <2>3, <2>4 DEF IInv, Typed
  <2>8. Asked'
    BY <1>1, <2>3 DEF Asked
  <2> QED
    BY <1>4, <2>5, <2>6, <2>7, <2>8 DEF IInv
<1>6. CASE Postpone
  <2>1. /\ file' = [file EXCEPT ![post.message].rest = 2] /\ post' = NoPost
    BY <1>6 DEF Postpone
  <2>2. [file[post.message] EXCEPT !.rest = 2] \in FileRow
    BY <1>1 DEF FileRow
  <2>3. file' = [file EXCEPT ![post.message] = [file[post.message] EXCEPT !.rest = 2]]
    BY <1>1, <2>1
  <2>4. FilesStay /\ file' \in [Message -> FileRow]
    BY <1>1, <2>2, <2>3 DEF FilesStay, FileRow
  <2>5. Asked'
    BY <2>1, PostTypes DEF Asked
  <2> QED
    BY <1>1, <1>4, <2>1, <2>4, <2>5, PostTypes, RequestKeeps
<1> QED
  BY <1>5, <1>6 DEF Judge

LEMMA RefuseKeeps == ASSUME IInv, Refuse PROVE IInv' /\ SameFates
<1>1. /\ post.pc = "sent" /\ post' = [post EXCEPT !.pc = "answered", !.answer = "refused"]
      /\ file' = file /\ UNCHANGED rowVars /\ handler' = handler
  BY DEF Refuse
<1>2. post \in Request /\ handler \in [Handler -> Work] /\ file \in [Message -> FileRow]
  BY DEF IInv, Typed
<1>3. /\ post' \in Request /\ post'.pc = "answered" /\ post'.answer = "refused"
      /\ post'.message = post.message
  BY <1>1, <1>2 DEF Request
<1>4. Asked'
  BY <1>1, <1>3 DEF IInv, Asked
<1>5. Answers'
  BY <1>1, <1>3, NobodyHeard DEF IInv, Answers
<1>6. FilesStay
  BY <1>1 DEF FilesStay
<1> QED
  BY <1>1, <1>2, <1>3, <1>4, <1>5, <1>6, RequestKeeps

\* The caller leaves, and nobody is listened to any more.
LEMMA GiveUpKeeps == ASSUME IInv, GiveUp PROVE IInv' /\ SameFates
<1>1. /\ post.pc \in {"sent", "taken"}
      /\ post' = [post EXCEPT !.pc = "answered", !.answer = "failure"]
      /\ handler' = [h \in Handler |-> [handler[h] EXCEPT !.heard = FALSE]]
      /\ file' = file /\ UNCHANGED rowVars
  BY DEF GiveUp
<1>2. post \in Request /\ handler \in [Handler -> Work] /\ file \in [Message -> FileRow]
  BY DEF IInv, Typed
<1>3. /\ post' \in Request /\ post'.pc = "answered" /\ post'.answer = "failure"
      /\ post'.message = post.message
  BY <1>1, <1>2 DEF Request
<1>4. Asked'
  BY <1>1, <1>3 DEF IInv, Asked
<1>5. /\ handler' \in [Handler -> Work]
      /\ \A h \in Handler: /\ ~handler'[h].heard /\ handler'[h].pc = handler[h].pc
                           /\ handler'[h].message = handler[h].message
  BY <1>1, PostTypes
<1>6. Answers'
  BY <1>5 DEF IInv, Answers
<1>7. FilesStay
  BY <1>1 DEF FilesStay
<1> QED
  BY <1>1, <1>2, <1>3, <1>4, <1>5, <1>6, <1>7, RequestKeeps

LEMMA CrashSidecarKeeps == ASSUME IInv, CrashSidecar PROVE IInv' /\ SameFates
<1>1. /\ post' = NoPost /\ file' = file /\ UNCHANGED rowVars
      /\ handler' = [h \in Handler |-> [handler[h] EXCEPT !.heard = FALSE]]
  BY DEF CrashSidecar
<1>2. file \in [Message -> FileRow]
  BY DEF IInv, Typed
<1>3. /\ handler' \in [Handler -> Work]
      /\ \A h \in Handler: /\ ~handler'[h].heard /\ handler'[h].pc = handler[h].pc
                           /\ handler'[h].message = handler[h].message
  BY <1>1, PostTypes
<1>4. Asked' /\ Answers'
  BY <1>1, <1>3, PostTypes DEF IInv, Asked, Answers
<1>5. FilesStay
  BY <1>1 DEF FilesStay
<1> QED
  BY <1>1, <1>2, <1>3, <1>4, <1>5, PostTypes, RequestKeeps

LEMMA CrashAppKeeps == ASSUME IInv, CrashApp PROVE IInv' /\ SameFates
<1>1. /\ post' = IF post.pc \in {"sent", "taken"}
                 THEN [post EXCEPT !.pc = "answered", !.answer = "failure"] ELSE post
      /\ file' = file /\ UNCHANGED rowVars
      /\ handler' = [h \in Handler |-> Free]
  BY DEF CrashApp
<1>2. post \in Request /\ file \in [Message -> FileRow]
  BY DEF IInv, Typed
<1>3. /\ handler' \in [Handler -> Work]
      /\ \A h \in Handler: ~handler'[h].heard /\ handler'[h].pc = "idle"
  BY <1>1, PostTypes
<1>4. /\ post' \in Request
      /\ \/ post' = post
         \/ /\ post'.pc = "answered" /\ post'.answer = "failure" /\ post'.message = post.message
            /\ post.pc \in {"sent", "taken"}
  BY <1>1, <1>2 DEF Request
<1>5. Asked'
  BY <1>1, <1>4 DEF IInv, Asked, rowVars
<1>6. Answers'
  BY <1>3 DEF Answers
<1>7. FilesStay
  BY <1>1 DEF FilesStay
<1> QED
  BY <1>1, <1>2, <1>3, <1>4, <1>5, <1>6, <1>7, RequestKeeps

LEMMA DrainKeeps ==
    ASSUME IInv, NEW h \in Handler, Drain(h) PROVE IInv' /\ SameFates
<1>1. PICK m \in Message:
        handler' = [handler EXCEPT ![h] = [Free EXCEPT !.pc = "process", !.message = m]]
  BY DEF Drain
<1>2. post' = post /\ file' = file /\ UNCHANGED rowVars
  BY DEF Drain, sidecarVars
<1>3. post \in Request /\ handler \in [Handler -> Work] /\ file \in [Message -> FileRow]
  BY DEF IInv, Typed
<1> DEFINE w == [Free EXCEPT !.pc = "process", !.message = m]
<1>4. w \in Work /\ w.pc = "process" /\ w.message = m /\ ~w.heard
  BY DEF Free, Work, Anyone
<1> HIDE DEF w
<1>5. /\ handler' \in [Handler -> Work] /\ handler'[h] = w
      /\ \A g \in Handler: g # h => handler'[g] = handler[g]
  BY <1>1, <1>3, <1>4 DEF w
<1>6. Asked'
  BY <1>2 DEF IInv, Asked, rowVars
<1>7. Answers'
  BY <1>2, <1>4, <1>5 DEF IInv, Answers
<1>8. FilesStay
  BY <1>2 DEF FilesStay
<1> QED
  BY <1>2, <1>3, <1>5, <1>6, <1>7, <1>8, RequestKeeps
-----------------------------------------------------------------------------
\* Steps that move one message, or none.
Moved(m, from, to) ==
    /\ Fate(m) = from /\ Fate(m)' = to
    /\ \A n \in Message: n # m => Fate(n)' = Fate(n)

LEMMA HearKeeps ==
    ASSUME IInv, NEW m \in Message, Hear(m)
    PROVE  IInv' /\ (SameFates \/ Moved(m, "unheard", "kept"))
<1>1. /\ file[m].state = "none" /\ post' = post /\ UNCHANGED rowVars /\ handler' = handler
      /\ file' = [file EXCEPT ![m] = [NoFile EXCEPT !.state = "pending"]]
  BY DEF Hear
<1>2. row' = row /\ applied' = applied /\ copies' = copies /\ file \in [Message -> FileRow]
  BY <1>1 DEF rowVars, IInv, Typed
<1>3. /\ file' \in [Message -> FileRow] /\ file'[m].state = "pending"
      /\ \A n \in Message: n # m => file'[n] = file[n]
  BY <1>1, <1>2 DEF NoFile, FileRow
<1>4. AllTell'
  <2> SUFFICES ASSUME NEW n \in Message PROVE Tells(n)'
    BY DEF AllTell
  <2> QED
    BY <1>1, <1>2, <1>3 DEF IInv, AllTell, Tells
<1>5. Asked'
  BY <1>1, <1>2, <1>3 DEF IInv, Asked
<1>6. Typed' /\ Answers'
  BY <1>1, <1>2, <1>3 DEF IInv, Typed, Answers
<1>7. \A n \in Message: Reads(n) /\ Reads(n)'
  BY <1>4, FateIs, FateWillBe DEF IInv
<1>8. \A n \in Message: n # m => Fate(n)' = Fate(n)
  BY <1>2, <1>3, <1>7 DEF Reads, Ended
<1>9. CASE Ended(row[m].status)
  <2>1. Fate(m)' = Fate(m)
    BY <1>2, <1>7, <1>9 DEF Reads, Ended
  <2> QED
    BY <1>4, <1>5, <1>6, <1>8, <2>1 DEF IInv, SameFates
<1>10. CASE ~Ended(row[m].status)
  <2>1. Fate(m) = "unheard" /\ Fate(m)' = "kept"
    BY <1>1, <1>2, <1>3, <1>7, <1>10 DEF Reads
  <2> QED
    BY <1>4, <1>5, <1>6, <1>8, <2>1 DEF IInv, Moved
<1> QED
  BY <1>9, <1>10

LEMMA FinishKeeps ==
    ASSUME IInv, NEW m \in Message, Finish(m) PROVE IInv' /\ SameFates
<1>1. /\ file[m].state = "committed" /\ file' = [file EXCEPT ![m] = NoFile]
      /\ post' = NoPost /\ UNCHANGED rowVars /\ handler' = handler
      /\ post.pc = "finish" \/ post.pc = "none"
  BY DEF Finish, MayFinish
<1>2. row' = row /\ applied' = applied /\ copies' = copies /\ file \in [Message -> FileRow]
  BY <1>1 DEF rowVars, IInv, Typed
<1>3. /\ file' \in [Message -> FileRow] /\ file'[m].state = "none"
      /\ \A n \in Message: n # m => file'[n] = file[n]
  BY <1>1, <1>2 DEF NoFile, FileRow
<1>4. Ended(row[m].status)
  BY <1>1 DEF IInv, AllTell, Tells
<1>5. AllTell'
  <2> SUFFICES ASSUME NEW n \in Message PROVE Tells(n)'
    BY DEF AllTell
  <2> QED
    BY <1>2, <1>3, <1>4 DEF IInv, AllTell, Tells
<1>6. \A n \in Message: Reads(n) /\ Reads(n)'
  BY <1>5, FateIs, FateWillBe DEF IInv
<1>7. SameFates
  <2> SUFFICES ASSUME NEW n \in Message PROVE Fate(n)' = Fate(n)
    BY DEF SameFates
  <2>1. CASE n = m
    BY <1>2, <1>4, <1>6, <2>1 DEF Reads, Ended
  <2>2. CASE n # m
    BY <1>2, <1>3, <1>6, <2>2 DEF Reads, Ended
  <2> QED
    BY <2>1, <2>2
<1>8. Asked' /\ Typed'
  BY <1>1, <1>2, <1>3, PostTypes DEF IInv, Typed, Asked
<1>9. Answers'
  BY <1>1, NobodyHeard DEF IInv, Answers
<1> QED
  BY <1>5, <1>7, <1>8, <1>9 DEF IInv

LEMMA StaysCommittedKeeps ==
    ASSUME IInv, NEW m \in Message, StaysCommitted(m) PROVE IInv' /\ SameFates
<1>1. /\ post' = NoPost /\ handler' = handler /\ file' = file /\ UNCHANGED rowVars
      /\ post.pc \in {"finish", "none"}
  BY DEF StaysCommitted, MayFinish
<1>2. /\ file' \in [Message -> FileRow] /\ handler' \in [Handler -> Work]
      /\ FilesStay
  BY <1>1 DEF IInv, Typed, FilesStay
<1>3. Asked' /\ Answers'
  BY <1>1, NobodyHeard, PostTypes DEF IInv, Asked, Answers
<1> QED
  BY <1>1, <1>2, <1>3, PostTypes, RequestKeeps

LEMMA ReceiveKeeps ==
    ASSUME IInv, NEW h \in Handler, Receive(h) PROVE IInv' /\ SameFates
<1> DEFINE m == post.message
           w == [Free EXCEPT !.pc = "process", !.message = m, !.heard = TRUE]
<1>1. /\ handler[h].pc = "idle" /\ post.pc = "sent"
      /\ post' = [post EXCEPT !.pc = "taken"]
      /\ row' = IF row[m].status = "absent" THEN [row EXCEPT ![m].status = "received"] ELSE row
      /\ handler' = [handler EXCEPT ![h] = w]
      /\ file' = file /\ applied' = applied /\ copies' = copies
  BY DEF Receive
<1>2. /\ m \in Message /\ file[m].state = "pending" /\ post \in Request
      /\ row \in [Message -> IngressRow] /\ handler \in [Handler -> Work]
      /\ file \in [Message -> FileRow]
  BY <1>1 DEF IInv, Asked, Typed
<1>3. w \in Work /\ w.pc = "process" /\ w.message = m /\ w.heard
  BY <1>2 DEF Free, Work, Anyone
<1>4. /\ post' \in Request /\ post'.pc = "taken" /\ post'.message = m
  BY <1>1, <1>2 DEF Request
<1> HIDE DEF m, w
<1>5. /\ row' \in [Message -> IngressRow]
      /\ \A n \in Message: n # m => row'[n] = row[n]
      /\ \/ row'[m].status = row[m].status
         \/ row[m].status = "absent" /\ row'[m].status = "received"
  <2>1. CASE row[m].status = "absent"
    <3>1. row' = [row EXCEPT ![m] = [row[m] EXCEPT !.status = "received"]]
      BY <1>1, <1>2, <2>1
    <3>2. [row[m] EXCEPT !.status = "received"] \in IngressRow
      BY <1>2 DEF IngressRow, Statuses
    <3> QED
      BY <1>2, <2>1, <3>1, <3>2 DEF IngressRow
  <2>2. CASE row[m].status # "absent"
    BY <1>1, <1>2, <2>2
  <2> QED
    BY <2>1, <2>2
<1>6. AllTell'
  <2> SUFFICES ASSUME NEW n \in Message PROVE Tells(n)'
    BY DEF AllTell
  <2>1. Tells(n)
    BY DEF IInv, AllTell
  <2>2. CASE n = m
    BY <1>1, <1>2, <1>5, <2>1, <2>2 DEF Tells, Ended
  <2>3. CASE n # m
    BY <1>1, <1>5, <2>1, <2>3 DEF Tells
  <2> QED
    BY <2>2, <2>3
<1>7. \A n \in Message: Reads(n) /\ Reads(n)'
  BY <1>6, FateIs, FateWillBe DEF IInv
<1>8. SameFates
  <2> SUFFICES ASSUME NEW n \in Message PROVE Fate(n)' = Fate(n)
    BY DEF SameFates
  <2>1. CASE n = m
    BY <1>1, <1>2, <1>5, <1>7, <2>1 DEF Reads, Ended
  <2>2. CASE n # m
    BY <1>1, <1>5, <1>7, <2>2 DEF Reads, Ended
  <2> QED
    BY <2>1, <2>2
<1>9. /\ handler' \in [Handler -> Work] /\ handler'[h] = w
      /\ \A g \in Handler: g # h => handler'[g] = handler[g]
  BY <1>1, <1>2, <1>3
<1>10. Typed'
  BY <1>1, <1>4, <1>5, <1>9 DEF IInv, Typed
<1>11. Asked'
  BY <1>1, <1>2, <1>4 DEF Asked
<1>12. Answers'
  <2>1. \A g \in Handler: ~handler[g].heard
    BY <1>1, NobodyHeard
  <2> QED
    BY <1>2, <1>3, <1>4, <1>9, <2>1 DEF IInv, Answers
<1> QED
  BY <1>6, <1>8, <1>10, <1>11, <1>12 DEF IInv

\* A handler that is done answers whom it still has.
LEMMA RespondKeeps ==
    ASSUME IInv, NEW h \in Handler, handler[h].pc # "idle", NEW status, Respond(h, status),
           file' = file, \A m \in Message: Ended(row[m].status) => Ended(row'[m].status),
           Acknowledges(status) => Ended(row'[handler[h].message].status)
    PROVE  /\ post' \in Request /\ handler' \in [Handler -> Work] /\ Asked' /\ Answers'
<1>1. post \in Request /\ handler \in [Handler -> Work] /\ handler[h].message \in Message
  BY DEF IInv, Typed, Answers
<1>2. handler' = [handler EXCEPT ![h] = Free]
  BY DEF Respond
<1>3. /\ handler' \in [Handler -> Work] /\ handler'[h] = Free
      /\ \A g \in Handler: g # h => handler'[g] = handler[g]
  BY <1>1, <1>2, PostTypes
<1>4. CASE handler[h].heard
  <2>1. /\ post.pc = "taken" /\ post.message = handler[h].message
        /\ \A g \in Handler: g # h => ~handler[g].heard
    BY <1>4 DEF IInv, Answers
  <2>2. post' = [post EXCEPT !.pc = "answered",
                             !.answer = IF Acknowledges(status) THEN "taken" ELSE "failure"]
    BY <1>4 DEF Respond
  <2>3. /\ post' \in Request /\ post'.pc = "answered" /\ post'.message = post.message
        /\ post'.answer = "taken" => Acknowledges(status)
    BY <1>1, <2>2 DEF Request
  <2>4. Asked'
    BY <2>1, <2>3 DEF IInv, Asked
  <2>5. Answers'
    BY <1>3, <2>1, PostTypes DEF IInv, Answers
  <2> QED
    BY <1>3, <2>3, <2>4, <2>5
<1>5. CASE ~handler[h].heard
  <2>1. post' = post
    BY <1>5 DEF Respond
  <2>2. Asked'
    BY <2>1 DEF IInv, Asked
  <2>3. Answers'
    BY <1>3, <2>1, PostTypes DEF IInv, Answers
  <2> QED
    BY <1>1, <1>3, <2>1, <2>2, <2>3
<1> QED
  BY <1>4, <1>5

LEMMA DeclineKeeps ==
    ASSUME IInv, NEW h \in Handler, Decline(h) PROVE IInv' /\ SameFates
<1> DEFINE m == handler[h].message
           status == IF Claimable(m) THEN "dead_letter" ELSE row[m].status
<1>1. /\ handler[h].pc = "process" /\ row' = [row EXCEPT ![m].status = status]
      /\ Respond(h, status) /\ file' = file /\ applied' = applied /\ copies' = copies
  BY DEF Decline
<1>2. m \in Message /\ row \in [Message -> IngressRow]
  BY <1>1 DEF IInv, Answers, Typed
<1>3. Claimable(m) => ~Ended(row[m].status) /\ row[m].status # "absent"
  BY DEF Claimable, Ended
<1>4. status \in Statuses
  BY <1>2 DEF IngressRow, Statuses
<1>5. \/ status = row[m].status
      \/ /\ status = "dead_letter" /\ ~Ended(row[m].status) /\ row[m].status # "absent"
  BY <1>3
<1> HIDE DEF m, status
<1>6. row' = [row EXCEPT ![m] = [row[m] EXCEPT !.status = status]]
  BY <1>1, <1>2
<1>7. [row[m] EXCEPT !.status = status] \in IngressRow
  BY <1>2, <1>4 DEF IngressRow
<1>8. /\ row' \in [Message -> IngressRow] /\ row'[m].status = status
      /\ \A n \in Message: n # m => row'[n] = row[n]
  BY <1>2, <1>6, <1>7 DEF IngressRow
<1>9. RowsGo /\ FilesStay
  BY <1>1, <1>2, <1>5, <1>8 DEF RowsGo, FilesStay, Ended
<1>10. /\ AllTell' /\ SameFates
       /\ \A n \in Message: Ended(row[n].status) => Ended(row'[n].status)
  BY <1>1, <1>9, RowsGoOn
<1>11. Acknowledges(status) => Ended(row'[m].status)
  BY <1>8 DEF Acknowledges, Ended
<1>12. post' \in Request /\ handler' \in [Handler -> Work] /\ Asked' /\ Answers'
  BY <1>1, <1>10, <1>11, RespondKeeps DEF m
<1> QED
  BY <1>1, <1>8, <1>10, <1>12 DEF IInv, Typed

LEMMA ClaimKeeps ==
    ASSUME IInv, NEW h \in Handler, Claim(h) PROVE IInv' /\ SameFates
<1> DEFINE m == handler[h].message
           r == [status |-> "processing", left |-> row[m].left - 1,
                 lease |-> row[m].lease + 1, expired |-> FALSE, due |-> TRUE]
           w == [handler[h] EXCEPT !.pc = "apply", !.lease = row[m].lease + 1]
<1>1. /\ handler[h].pc = "process" /\ Claimable(m) /\ row[m].left > 0
      /\ row' = [row EXCEPT ![m] = r]
      /\ handler' = [handler EXCEPT ![h].pc = "apply", ![h].lease = row[m].lease + 1]
      /\ file' = file /\ post' = post /\ applied' = applied /\ copies' = copies
  BY DEF Claim, sidecarVars
<1>2. /\ m \in Message /\ row \in [Message -> IngressRow] /\ handler \in [Handler -> Work]
      /\ row[m].left \in Nat /\ row[m].lease \in Nat
  BY <1>1 DEF IInv, Answers, Typed, IngressRow
<1>3. ~Ended(row[m].status) /\ row[m].status # "absent"
  BY <1>1 DEF Claimable, Ended
<1>4. r \in IngressRow /\ r.status = "processing"
  BY <1>1, <1>2 DEF IngressRow, Statuses
<1>5. /\ w \in Work /\ w.pc = "apply" /\ w.message = handler[h].message
      /\ w.heard = handler[h].heard
  <2>1. handler[h] \in Work /\ row[m].lease + 1 \in Nat
    BY <1>2
  <2> QED
    BY <2>1 DEF Work
<1>6. handler' = [handler EXCEPT ![h] = w]
  BY <1>1, <1>2
<1> HIDE DEF m, r, w
<1>7. /\ row' \in [Message -> IngressRow] /\ row'[m].status = "processing"
      /\ \A n \in Message: n # m => row'[n] = row[n]
  BY <1>1, <1>2, <1>4
<1>8. RowsGo /\ FilesStay
  BY <1>1, <1>3, <1>7 DEF RowsGo, FilesStay, Ended
<1>9. /\ AllTell' /\ SameFates
      /\ \A n \in Message: Ended(row[n].status) => Ended(row'[n].status)
  BY <1>1, <1>8, RowsGoOn
<1>10. /\ handler' \in [Handler -> Work] /\ handler'[h] = w
       /\ \A g \in Handler: g # h => handler'[g] = handler[g]
  BY <1>2, <1>5, <1>6
<1>11. Asked'
  BY <1>1, <1>9 DEF IInv, Asked
<1>12. Answers'
  BY <1>1, <1>5, <1>10 DEF IInv, Answers
<1>13. Typed'
  BY <1>1, <1>7, <1>10 DEF IInv, Typed
<1> QED
  BY <1>9, <1>11, <1>12, <1>13 DEF IInv

LEMMA ApplyKeeps ==
    ASSUME IInv, NEW h \in Handler, Apply(h)
    PROVE  IInv' /\ (SameFates \/ \E m \in Message: Moved(m, "kept", "shown"))
<1>m. PICK m \in Message: m = handler[h].message
  BY DEF Apply, IInv, Answers
<1>1. /\ handler[h].pc = "apply" /\ Respond(h, "applied") /\ file' = file
      /\ m \in applied \/ LeaseHeld(h)
  BY <1>m DEF Apply
<1>2. /\ m \in Message /\ row \in [Message -> IngressRow] /\ handler \in [Handler -> Work]
      /\ copies \in [Message -> Nat] /\ AllTell /\ applied \subseteq Message
  BY <1>1 DEF IInv, Answers, Typed
<1>3. CASE m \in applied
  <2>1. row' = row /\ applied' = applied /\ copies' = copies
    BY <1>m, <1>3 DEF Apply, rowVars
  <2>2. RowsGo /\ FilesStay
    BY <1>1, <2>1 DEF RowsGo, FilesStay
  <2>3. /\ AllTell' /\ SameFates
        /\ \A n \in Message: Ended(row[n].status) => Ended(row'[n].status)
    BY <2>1, <2>2, RowsGoOn
  <2>4. Ended(row'[m].status)
    BY <1>2, <1>3, <2>1 DEF AllTell, Tells
  <2>5. post' \in Request /\ handler' \in [Handler -> Work] /\ Asked' /\ Answers'
    BY <1>m, <1>1, <2>3, <2>4, RespondKeeps
  <2> QED
    BY <1>1, <2>1, <2>3, <2>5 DEF IInv, Typed
<1>4. CASE m \notin applied
  <2>1. /\ applied' = applied \union {m} /\ copies' = [copies EXCEPT ![m] = @ + 1]
        /\ row' = [row EXCEPT ![m].status = "applied", ![m].expired = FALSE]
    BY <1>m, <1>4 DEF Apply
  <2>2. row[m].status = "processing"
    BY <1>m, <1>1, <1>4 DEF LeaseHeld
  <2> DEFINE r == [row[m] EXCEPT !.status = "applied", !.expired = FALSE]
  <2>3. r \in IngressRow /\ r.status = "applied"
    BY <1>2 DEF IngressRow, Statuses
  <2>4. row' = [row EXCEPT ![m] = r]
    BY <1>2, <2>1
  <2> HIDE DEF r
  <2>5. /\ row' \in [Message -> IngressRow] /\ row'[m].status = "applied"
        /\ \A n \in Message: n # m => row'[n] = row[n]
    BY <1>2, <2>3, <2>4
  <2>6. /\ Tells(m) /\ copies[m] = 0 /\ file[m].state # "none" /\ file[m].state # "committed"
    BY <1>2, <2>2 DEF AllTell, Tells, Ended
  <2>7. /\ copies' \in [Message -> Nat] /\ copies'[m] = 1
        /\ \A n \in Message: n # m => copies'[n] = copies[n]
    BY <1>2, <2>1, <2>6
  <2>8. AllTell'
    <3> SUFFICES ASSUME NEW n \in Message PROVE Tells(n)'
      BY DEF AllTell
    <3>1. Tells(n)
      BY <1>2 DEF AllTell
    <3>2. CASE n = m
      BY <1>1, <2>5, <2>6, <2>7, <3>2 DEF Tells, Ended
    <3>3. CASE n # m
      BY <1>1, <2>1, <2>5, <2>7, <3>1, <3>3 DEF Tells, Ended
    <3> QED
      BY <3>2, <3>3
  <2>9. \A n \in Message: Reads(n) /\ Reads(n)'
    BY <1>2, <2>8, FateIs, FateWillBe
  <2>10. Fate(m) = "kept" /\ Fate(m)' = "shown"
    <3>1. ~Ended(row[m].status)
      BY <2>2 DEF Ended
    <3>2. Reads(m) /\ Reads(m)'
      BY <1>2, <2>9
    <3>3. Fate(m) = "kept"
      BY <2>6, <3>1, <3>2 DEF Reads
    <3>4. Fate(m)' = "shown"
      BY <2>5, <3>2 DEF Reads
    <3> QED
      BY <3>3, <3>4
  <2>11. \A n \in Message: n # m => Fate(n)' = Fate(n)
    BY <1>1, <2>5, <2>9 DEF Reads, Ended
  <2>12. \A n \in Message: Ended(row[n].status) => Ended(row'[n].status)
    BY <2>5 DEF Ended
  <2>13. post' \in Request /\ handler' \in [Handler -> Work] /\ Asked' /\ Answers'
    <3>1. Ended(row'[handler[h].message].status)
      BY <1>m, <2>5 DEF Ended
    <3> QED
      BY <1>1, <2>12, <3>1, RespondKeeps
  <2>14. Typed'
    BY <1>1, <1>2, <2>1, <2>5, <2>7, <2>13 DEF IInv, Typed
  <2>15. Moved(m, "kept", "shown")
    BY <2>10, <2>11 DEF Moved
  <2> QED
    BY <1>2, <2>8, <2>13, <2>14, <2>15 DEF IInv
<1> QED
  BY <1>3, <1>4

LEMMA FailKeeps ==
    ASSUME IInv, NEW h \in Handler, Fail(h) PROVE IInv' /\ SameFates
<1> DEFINE m == handler[h].message
<1>1. /\ handler[h].pc = "apply" /\ file' = file /\ applied' = applied /\ copies' = copies
      /\ m \in Message /\ row \in [Message -> IngressRow]
  BY SMTT(40) DEF Fail, IInv, Answers, Typed
<1>2. PICK status \in {"quarantined", "dead_letter", "retrying"}:
        /\ Respond(h, status)
        /\ row' = IF LeaseHeld(h)
                  THEN [row EXCEPT ![m].status = status, ![m].expired = FALSE,
                                   ![m].due = status # "retrying"]
                  ELSE row
        /\ LeaseHeld(h) => status # "quarantined"
  <2> DEFINE conflict == ~LeaseHeld(h) /\ m \notin applied
             status == CASE conflict -> "quarantined"
                         [] ~conflict -> IF row[m].left = 0 THEN "dead_letter" ELSE "retrying"
  <2>1. /\ Respond(h, status)
        /\ row' = IF LeaseHeld(h)
                  THEN [row EXCEPT ![m].status = status, ![m].expired = FALSE,
                                   ![m].due = status # "retrying"]
                  ELSE row
    BY DEF Fail
  <2>2. status \in {"quarantined", "dead_letter", "retrying"}
    OBVIOUS
  <2>3. LeaseHeld(h) => status # "quarantined"
    OBVIOUS
  <2> HIDE DEF status
  <2> QED
    BY <2>1, <2>2, <2>3
<1>3. /\ row' \in [Message -> IngressRow]
      /\ \A n \in Message: n # m => row'[n] = row[n]
      /\ \/ row'[m].status = row[m].status
         \/ row[m].status = "processing" /\ row'[m].status \in {"dead_letter", "retrying"}
  <2>1. CASE LeaseHeld(h)
    <3> DEFINE r == [row[m] EXCEPT !.status = status, !.expired = FALSE,
                                   !.due = status # "retrying"]
    <3>1. row' = [row EXCEPT ![m] = r]
      BY <1>1, <1>2, <2>1
    <3>2. status \in {"dead_letter", "retrying"} /\ row[m].status = "processing"
      BY <1>2, <2>1 DEF LeaseHeld
    <3>3. r \in IngressRow /\ r.status = status
      BY ZenonT(40), <1>1, <3>2 DEF IngressRow, Statuses
    <3> HIDE DEF r, m
    <3> QED
      BY <1>1, <3>1, <3>2, <3>3
  <2>2. CASE ~LeaseHeld(h)
    BY <1>1, <1>2, <2>2
  <2> QED
    BY <2>1, <2>2
<1>4. RowsGo /\ FilesStay
  BY <1>1, <1>3 DEF RowsGo, FilesStay, Ended
<1>5. /\ AllTell' /\ SameFates
      /\ \A n \in Message: Ended(row[n].status) => Ended(row'[n].status)
  BY <1>1, <1>4, RowsGoOn
<1>6. ~Acknowledges(status)
  BY SMTT(40) DEF Acknowledges
<1>7. post' \in Request /\ handler' \in [Handler -> Work] /\ Asked' /\ Answers'
  BY <1>1, <1>2, <1>5, <1>6, RespondKeeps
<1> QED
  BY <1>1, <1>3, <1>5, <1>7 DEF IInv, Typed

\* The clock and the operator write one row that is under way.
LEMMA RowKeeps ==
    ASSUME IInv, NEW m \in Message, NEW r \in IngressRow, row' = [row EXCEPT ![m] = r],
           ~Ended(row[m].status), row[m].status # "absent",
           ~Ended(r.status), r.status # "absent",
           UNCHANGED <<file, post, applied, copies, handler>>
    PROVE  IInv' /\ SameFates
<1>1. /\ row' \in [Message -> IngressRow] /\ row'[m] = r
      /\ \A n \in Message: n # m => row'[n] = row[n]
  BY DEF IInv, Typed
<1>2. RowsGo /\ FilesStay
  BY <1>1 DEF RowsGo, FilesStay
<1>3. /\ AllTell' /\ SameFates
      /\ \A n \in Message: Ended(row[n].status) => Ended(row'[n].status)
  BY <1>2, RowsGoOn
<1>4. Asked' /\ Answers'
  BY <1>3 DEF IInv, Asked, Answers
<1> QED
  BY <1>1, <1>3, <1>4 DEF IInv, Typed

LEMMA ClockKeeps ==
    ASSUME IInv, NEW m \in Message, RetryDue(m) \/ Expire(m) PROVE IInv' /\ SameFates
<1>1. row \in [Message -> IngressRow] /\ row[m] \in IngressRow
  BY DEF IInv, Typed
<1>2. CASE RetryDue(m)
  <2>1. row' = [row EXCEPT ![m] = [row[m] EXCEPT !.due = TRUE]]
    BY <1>1, <1>2 DEF RetryDue
  <2>2. /\ [row[m] EXCEPT !.due = TRUE] \in IngressRow
        /\ [row[m] EXCEPT !.due = TRUE].status = "retrying" /\ row[m].status = "retrying"
    BY <1>1, <1>2 DEF IngressRow, RetryDue
  <2>3. UNCHANGED <<file, post, applied, copies, handler>>
    BY <1>2 DEF RetryDue, sidecarVars
  <2> QED
    BY <2>1, <2>2, <2>3, RowKeeps DEF Ended
<1>3. CASE Expire(m)
  <2>1. row' = [row EXCEPT ![m] = [row[m] EXCEPT !.expired = TRUE]]
    BY <1>1, <1>3 DEF Expire
  <2>2. /\ [row[m] EXCEPT !.expired = TRUE] \in IngressRow
        /\ [row[m] EXCEPT !.expired = TRUE].status = "processing" /\ row[m].status = "processing"
    BY <1>1, <1>3 DEF IngressRow, Expire
  <2>3. UNCHANGED <<file, post, applied, copies, handler>>
    BY <1>3 DEF Expire, sidecarVars
  <2> QED
    BY <2>1, <2>2, <2>3, RowKeeps DEF Ended
<1> QED
  BY <1>2, <1>3

LEMMA OperatorRetriesKeeps ==
    ASSUME IInv, NEW m \in Message, OperatorRetries(m) PROVE IInv' /\ SameFates
<1>1. /\ row \in [Message -> IngressRow] /\ row[m] \in IngressRow
      /\ row[m].left \in Nat /\ row[m].lease \in Nat /\ Budget \in Nat
  BY InboundAssumption DEF IInv, Typed, IngressRow
<1> DEFINE r == [row[m] EXCEPT !.status = "received", !.left = row[m].left + Budget,
                               !.lease = row[m].lease + 1, !.expired = FALSE]
<1>2. row' = [row EXCEPT ![m] = r]
  BY <1>1 DEF OperatorRetries
<1>3. r \in IngressRow /\ r.status = "received"
  <2>1. row[m].left + Budget \in Nat /\ row[m].lease + 1 \in Nat
    BY <1>1
  <2> QED
    BY <1>1, <2>1 DEF IngressRow, Statuses
<1> HIDE DEF r
<1>4. /\ ~Ended(row[m].status) /\ row[m].status # "absent"
      /\ UNCHANGED <<file, post, applied, copies, handler>>
  BY DEF OperatorRetries, sidecarVars, Ended
<1> QED
  BY <1>2, <1>3, <1>4, RowKeeps DEF Ended

\* The chat goes, with what is in it and what is on its way.
Gone == {m \in Message: Fate(m) \in {"kept", "shown"} /\ Fate(m)' = "deleted"}

LEMMA DeleteChatKeeps ==
    ASSUME IInv, DeleteChat
    PROVE  /\ IInv'
           /\ \A m \in Message \ Gone: Fate(m)' = Fate(m)
<1>1. /\ row' = [m \in Message |->
                   IF m \in Rows THEN [row[m] EXCEPT !.status = "chat_deleted", !.expired = FALSE,
                                                    !.due = TRUE]
                   ELSE row[m]]
      /\ copies' = [m \in Message |-> 0]
      /\ file' = file /\ post' = post /\ applied' = applied /\ handler' = handler
  BY DEF DeleteChat, sidecarVars
<1>2. row \in [Message -> IngressRow]
  BY DEF IInv, Typed
<1>3. \A m \in Message:
        [row[m] EXCEPT !.status = "chat_deleted", !.expired = FALSE, !.due = TRUE] \in IngressRow
  BY <1>2 DEF IngressRow, Statuses
<1>4. /\ row' \in [Message -> IngressRow]
      /\ \A m \in Message:
           row'[m].status = IF row[m].status = "absent" THEN "absent" ELSE "chat_deleted"
  BY <1>1, <1>2, <1>3 DEF Rows, IngressRow
<1>5. \A m \in Message: Ended(row[m].status) => Ended(row'[m].status)
  BY <1>4 DEF Ended
<1>6. AllTell'
  <2> SUFFICES ASSUME NEW m \in Message PROVE Tells(m)'
    BY DEF AllTell
  <2>1. Tells(m)
    BY DEF IInv, AllTell
  <2>2. copies'[m] = 0 /\ file'[m] = file[m]
    BY <1>1
  <2>3. CASE row[m].status = "absent"
    <3>1. row'[m].status = "absent"
      BY <1>4, <2>3
    <3> QED
      BY <1>1, <2>1, <2>2, <2>3, <3>1 DEF Tells, Ended
  <2>4. CASE row[m].status # "absent"
    <3>1. row'[m].status = "chat_deleted"
      BY <1>4, <2>4
    <3> QED
      BY <2>2, <3>1 DEF Tells, Ended
  <2> QED
    BY <2>3, <2>4
<1>7. Typed' /\ Asked' /\ Answers'
  BY <1>1, <1>4, <1>5 DEF IInv, Typed, Asked, Answers
<1>8. \A m \in Message: Reads(m) /\ Reads(m)'
  BY <1>6, FateIs, FateWillBe DEF IInv
<1>9. ASSUME NEW m \in Message PROVE m \in Gone \/ Fate(m)' = Fate(m)
  <2>1. CASE row[m].status = "absent"
    <3>1. row'[m].status = "absent" /\ file'[m] = file[m]
      BY <1>1, <1>4, <2>1
    <3> QED
      BY <1>8, <2>1, <3>1 DEF Reads, Ended
  <2>2. CASE row[m].status # "absent"
    <3>1. Fate(m)' = "deleted"
      BY <1>4, <1>8, <2>2 DEF Reads
    <3>2. Tells(m)
      BY DEF IInv, AllTell
    <3>3. Fate(m) \in {"kept", "shown", "deleted"}
      BY <1>8, <2>2, <3>2 DEF Reads, Ended, Tells
    <3> QED
      BY <3>1, <3>3 DEF Gone
  <2> QED
    BY <2>1, <2>2
<1> QED
  BY <1>6, <1>7, <1>9 DEF IInv

-----------------------------------------------------------------------------
LEMMA InitHolds == Init => IInv
<1> SUFFICES ASSUME Init PROVE IInv
  OBVIOUS
<1>1. Typed
  BY InboundAssumption
  DEF Init, Typed, NoFile, FileRow, NoPost, Request, Anyone, NoRow, IngressRow, Statuses, Free, Work
<1>2. AllTell
  BY DEF Init, AllTell, Tells, NoFile, NoRow, Ended
<1>3. Asked /\ Answers
  BY DEF Init, Asked, Answers, NoPost, Free
<1> QED
  BY <1>1, <1>2, <1>3 DEF IInv

\* What one step does to the invariant and to the fates.
FatesMove ==
    \/ SameFates
    \/ \E m \in Message: Moved(m, "unheard", "kept") \/ Moved(m, "kept", "shown")
    \/ \A m \in Message \ Gone: Fate(m)' = Fate(m)

LEMMA StepKeeps == IInv /\ [Next]_vars => IInv' /\ FatesMove
<1> SUFFICES ASSUME IInv, [Next]_vars PROVE IInv' /\ FatesMove
  OBVIOUS
<1>1. CASE StartPass \/ HalfOpen \/ UNCHANGED vars
  <2>1. UNCHANGED <<file, post, rowVars, handler>>
    BY <1>1 DEF StartPass, HalfOpen, vars, sidecarVars
  <2>2. FilesStay /\ file' \in [Message -> FileRow]
    BY <2>1 DEF FilesStay, IInv, Typed
  <2> QED
    BY <2>1, <2>2, QuietKeeps DEF FatesMove
<1>2. CASE EndPass \/ \E m \in Message: Wake(m)
  BY <1>2, RestKeeps DEF FatesMove
<1>3. CASE Judge \/ Refuse \/ GiveUp \/ CrashApp \/ CrashSidecar
  BY <1>3, JudgeKeeps, RefuseKeeps, GiveUpKeeps, CrashAppKeeps, CrashSidecarKeeps DEF FatesMove
<1>4. CASE \E m \in Message: \/ Ask(m) \/ Finish(m) \/ StaysCommitted(m)
                          \/ RetryDue(m) \/ OperatorRetries(m) \/ Expire(m)
  BY <1>4, AskKeeps, FinishKeeps, StaysCommittedKeeps, ClockKeeps, OperatorRetriesKeeps DEF FatesMove
<1>5. CASE \E m \in Message: Hear(m)
  BY <1>5, HearKeeps DEF FatesMove
<1>6. CASE \E h \in Handler: Receive(h) \/ Decline(h) \/ Claim(h) \/ Fail(h) \/ Drain(h)
  BY <1>6, ReceiveKeeps, DeclineKeeps, ClaimKeeps, FailKeeps, DrainKeeps DEF FatesMove
<1>7. CASE \E h \in Handler: Apply(h)
  BY <1>7, ApplyKeeps DEF FatesMove
<1>8. CASE DeleteChat
  BY <1>8, DeleteChatKeeps DEF FatesMove
<1> QED
  BY <1>1, <1>2, <1>3, <1>4, <1>5, <1>6, <1>7, <1>8 DEF Next, Handle

LEMMA Invariance == Spec => []IInv
  BY InitHolds, StepKeeps, PTL DEF Spec

fates == [m \in Message |-> Fate(m)]

LEMMA FatesMoveAsPromised == FatesMove => [Promise!Next]_fates
<1> SUFFICES ASSUME FatesMove PROVE [Promise!Next]_fates
  OBVIOUS
<1>1. CASE SameFates
  BY <1>1 DEF SameFates, fates
<1>2. ASSUME NEW m \in Message, Moved(m, "unheard", "kept") PROVE Promise!Next
  <2>1. fates' = [fates EXCEPT ![m] = "kept"] /\ fates[m] \in {"unheard"}
    BY <1>2 DEF Moved, fates
  <2> QED
    BY <2>1 DEF Promise!Next, Promise!Hear, Promise!Move, fates
<1>3. ASSUME NEW m \in Message, Moved(m, "kept", "shown") PROVE Promise!Next
  <2>1. fates' = [fates EXCEPT ![m] = "shown"] /\ fates[m] \in {"kept"}
    BY <1>3 DEF Moved, fates
  <2> QED
    BY <2>1 DEF Promise!Next, Promise!Show, Promise!Move, fates
<1>4. CASE \A m \in Message \ Gone: Fate(m)' = Fate(m)
  <2>1. fates' = [m \in Message |-> IF m \in Gone THEN "deleted" ELSE fates[m]]
    BY <1>4 DEF Gone, fates
  <2>2. Gone \in SUBSET {m \in Message: fates[m] \in {"kept", "shown"}}
    BY DEF Gone, fates
  <2>3. Promise!DeleteChat
    BY <2>1, <2>2 DEF Promise!DeleteChat, fates
  <2> QED
    BY <2>3 DEF Promise!Next
<1> QED
  BY <1>1, <1>2, <1>3, <1>4 DEF FatesMove

\* Spool, lost answers, restarts, leases, retries and deletions implement what
\* is promised of a message: heard, it is kept until it is shown, shown once, and
\* never brought back from a deleted chat (enqueue, finishCommitted,
\* persistWhatsAppInbound, claimIngress, applyClaim, deleteWhatsAppChats).
THEOREM KeepsPromiseHolds == Spec => KeepsPromise
<1>1. Init => Promise!Init
  <2> SUFFICES ASSUME Init PROVE Promise!Init
    OBVIOUS
  <2>1. AllTell /\ \A m \in Message: row[m].status = "absent" /\ file[m].state = "none"
    BY InitHolds DEF IInv, Init, NoRow, NoFile
  <2>2. \A m \in Message: Fate(m) = "unheard"
    BY <2>1, FateIs DEF Reads, Ended
  <2> QED
    BY <2>2 DEF Promise!Init
<1>2. IInv /\ [Next]_vars => [Promise!Next]_fates
  BY StepKeeps, FatesMoveAsPromised
<1> QED
  BY <1>1, <1>2, Invariance, PTL DEF Spec, KeepsPromise, Promise!Spec, fates
=============================================================================
