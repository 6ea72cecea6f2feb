-------------------------- MODULE TaskQueueRefinement -------------------------
(* TaskQueue implements TaskLifecycle, and its action properties, for every  *)
(* value of the constants.                                                   *)
EXTENDS TaskQueueProofs

\* The stage of every status.
LEMMA Stages ==
  /\ StageOf("absent") = "new" /\ StageOf("queued") = "open"
  /\ StageOf("running") = "running" /\ StageOf("waiting_approval") = "waiting"
  /\ \A s \in Terminal : StageOf(s) = "closed"
BY DEF StageOf, Terminal

LEMMA ClosedStage ==
  ASSUME NEW s \in Status
  PROVE  /\ StageOf(s) = "closed" <=> s \in Terminal
         /\ StageOf(s) = "running" <=> s = "running"
         /\ StageOf(s) = "waiting" <=> s = "waiting_approval"
         /\ StageOf(s) = "open" <=> s = "queued"
         /\ StageOf(s) = "new" <=> s = "absent"
         /\ StageOf(s) \in Lifecycle!Stages
<1>1. s \in {"absent", "queued", "running", "waiting_approval"} \/ s \in Terminal
  BY DEF Status, Active
<1>2. {"absent", "queued", "running", "waiting_approval"} \intersect Terminal = {}
  BY DEF Terminal
<1> QED BY <1>1, <1>2, Stages DEF Lifecycle!Stages

\* A step that keeps every status, chat, origin, grant and write stutters.
LEMMA Stutters ==
  ASSUME UNCHANGED <<writes, granted>>,
         \A t \in Tasks : /\ row'[t].status = row[t].status
                          /\ row'[t].chat = row[t].chat /\ row'[t].origin = row[t].origin
  PROVE  UNCHANGED Lifecycle!vars
BY DEF Lifecycle!vars

\* One row changes its status and nothing else that the lifecycle sees.
LEMMA OneRow ==
  ASSUME QueueInv, NEW t \in Tasks, NEW r \in Row, row' = [row EXCEPT ![t] = r],
         r.chat = row[t].chat, r.origin = row[t].origin, UNCHANGED writes
  PROVE  /\ Lifecycle!Move(t, StageOf(row[t].status), StageOf(r.status))
         /\ [u \in Tasks |-> StageOf(row[u].status)]' =
              [[u \in Tasks |-> StageOf(row[u].status)] EXCEPT ![t] = StageOf(r.status)]
         /\ UNCHANGED [u \in Tasks |-> row[u].chat]
         /\ UNCHANGED [u \in Tasks |-> row[u].origin]
         /\ UNCHANGED {u \in Tasks : writes[u] > 0}
<1>1. \A u \in Tasks : row'[u] = IF u = t THEN r ELSE row[u]
  BY DEF QueueInv, TypeOK
<1>2. [u \in Tasks |-> StageOf(row[u].status)]' =
        [[u \in Tasks |-> StageOf(row[u].status)] EXCEPT ![t] = StageOf(r.status)]
  <2>1. \A u \in Tasks : StageOf(row'[u].status) =
                           IF u = t THEN StageOf(r.status) ELSE StageOf(row[u].status)
    BY <1>1
  <2> QED BY <2>1
<1>3. /\ UNCHANGED [u \in Tasks |-> row[u].chat]
      /\ UNCHANGED [u \in Tasks |-> row[u].origin]
      /\ UNCHANGED {u \in Tasks : writes[u] > 0}
  BY <1>1
<1> QED BY <1>2, <1>3 DEF Lifecycle!Move

\* A row that is not absent is closed.
LEMMA Closes ==
  ASSUME QueueInv, NEW t \in Tasks, NEW r \in Row, row' = [row EXCEPT ![t] = r],
         r.chat = row[t].chat, r.origin = row[t].origin, UNCHANGED <<writes, granted>>,
         ~ Absent(t), r.status \in Terminal
  PROVE  Lifecycle!Next
<1>1. StageOf(row[t].status) # "new" /\ StageOf(r.status) = "closed"
  BY ClosedStage, Stages, RowFields DEF Absent
<1>2. Lifecycle!Close(t)
  BY <1>1, OneRow DEF Lifecycle!Close
<1> QED BY <1>2 DEF Lifecycle!Next

LEMMA RefineClaim ==
  ASSUME QueueInv, NEW c \in Chats, Claim(c)
  PROVE  [Lifecycle!Next]_(Lifecycle!vars)
<1> DEFINE t == Current(c)
           r == [row[t] EXCEPT !.status = "running"]
<1>1. up /\ worker[c].pc = "claim" /\ worker[c].task = t /\ UNCHANGED <<writes, granted>>
  BY DEF Claim, At, allButRowAndWorker, Current
<1>2. CASE UNCHANGED row
  BY <1>1, <1>2, Stutters
<1>3. CASE t \in Eligible(c) /\ SetStatus(t, "running")
  <2>1. t \in Tasks /\ row[t].chat = c /\ row[t].status = "queued" /\ row[t] \in Row
    BY <1>3 DEF Eligible, QueueInv, TypeOK
  <2>2. "running" \in Status
    BY DEF Status, Active
  <2>3. /\ row' = [row EXCEPT ![t] = r] /\ r \in Row /\ r.status = "running"
        /\ r.chat = row[t].chat /\ r.origin = row[t].origin
    BY <1>3, <2>1, <2>2, StatusRow DEF SetStatus
  <2>4. \A u \in Tasks : row[u].status = "running" => row[u].chat # c
    <3>1. "claim" \notin Busy
      BY DEF Busy
    <3> QED BY <1>1, <3>1 DEF QueueInv, RunningIsOwned
  <2>5. \A u \in Tasks : StageOf(row[u].status) = "running" => row[u].chat # row[t].chat
    BY <2>1, <2>4, ClosedStage, RowFields
  <2> HIDE DEF r
  <2>6. Lifecycle!Move(t, "open", "running")
        /\ UNCHANGED [u \in Tasks |-> row[u].chat]
        /\ UNCHANGED [u \in Tasks |-> row[u].origin]
        /\ UNCHANGED {u \in Tasks : writes[u] > 0}
    BY <1>1, <2>1, <2>3, OneRow, Stages
  <2>7. Lifecycle!Begin(t)
    BY <1>1, <2>1, <2>5, <2>6 DEF Lifecycle!Begin
  <2> QED BY <2>1, <2>7 DEF Lifecycle!Next
<1> QED BY <1>2, <1>3 DEF Claim

LEMMA RefinePark ==
  ASSUME QueueInv, NEW c \in Chats, Park(c)
  PROVE  [Lifecycle!Next]_(Lifecycle!vars)
<1> DEFINE t == Current(c)
           r == [row[t] EXCEPT !.status = "waiting_approval", !.phase = "approval"]
<1>1. worker[c].pc = "park" /\ UNCHANGED <<writes, granted>> /\ "park" \in Busy
  BY DEF Park, At, allButRowAndWorker, Busy
<1>2. t \in Tasks /\ row[t] \in Row
  BY <1>1, BusyJob
<1>3. CASE UNCHANGED row
  BY <1>1, <1>3, Stutters
<1>4. CASE row[t].status = "running" /\ row' = [row EXCEPT ![t] =
             [@ EXCEPT !.status = "waiting_approval", !.phase = "approval"]]
  <2>1. "waiting_approval" \in Status /\ "approval" \in Phases
    BY DEF Status, Active, Phases
  <2>2. /\ row' = [row EXCEPT ![t] = r] /\ r \in Row /\ r.status = "waiting_approval"
        /\ r.chat = row[t].chat /\ r.origin = row[t].origin
    BY <1>2, <1>4, <2>1 DEF Row
  <2> HIDE DEF r
  <2>3. Lifecycle!Move(t, "running", "waiting")
        /\ UNCHANGED [u \in Tasks |-> row[u].chat]
        /\ UNCHANGED [u \in Tasks |-> row[u].origin]
        /\ UNCHANGED {u \in Tasks : writes[u] > 0}
    <3>1. StageOf(row[t].status) = "running" /\ StageOf(r.status) = "waiting"
      BY <1>4, <2>2, Stages
    <3> HIDE DEF t
    <3> QED BY <1>1, <1>2, <2>2, <3>1, OneRow
  <2>4. Lifecycle!Ask(t)
    BY <1>1, <2>3 DEF Lifecycle!Ask
  <2> QED BY <1>2, <2>4 DEF Lifecycle!Next
<1> QED BY <1>3, <1>4 DEF Park

LEMMA RefineFinish ==
  ASSUME QueueInv, NEW c \in Chats, Finish(c) \/ FinishMeeting(c)
  PROVE  Lifecycle!Next
<1> DEFINE t == Current(c)
<1>1. worker[c].pc \in Busy /\ UNCHANGED <<writes, granted>>
  BY DEF Finish, FinishMeeting, At, allButRowAndWorker, Busy
<1>2. t \in Tasks /\ row[t] \in Row /\ ~ Absent(t) /\ worker[c] \in Job
  BY <1>1, BusyJob
<1>3. PICK s \in {worker[c].out, "succeeded"} : SetStatus(t, s)
  BY DEF Finish, FinishMeeting
<1> DEFINE r == [row[t] EXCEPT !.status = s]
<1>4. s \in Terminal
  BY <1>2, <1>3 DEF Job, Terminal
<1>5. /\ row' = [row EXCEPT ![t] = r] /\ r \in Row /\ r.status = s
      /\ r.chat = row[t].chat /\ r.origin = row[t].origin
  BY <1>2, <1>3, <1>4, Names, StatusRow DEF SetStatus
<1> HIDE DEF r, t
<1> QED BY <1>1, <1>2, <1>4, <1>5, Closes

LEMMA RefineEnterWrite ==
  ASSUME QueueInv, NEW c \in Chats, EnterWrite(c)
  PROVE  Lifecycle!Next
<1>0. worker[c].pc = "checked" /\ "checked" \in Busy
  BY DEF EnterWrite, At, Busy
<1> PICK t \in Tasks : t = Current(c)
  BY <1>0, BusyJob
<1>1. /\ worker[c].pc = "checked" /\ writes' = [writes EXCEPT ![t] = @ + 1]
      /\ UNCHANGED <<row, granted>> /\ "checked" \in Busy
  BY <1>0 DEF EnterWrite
<1>2. RowOK(t) /\ JobOK(c, worker[c]) /\ row[t] \in Row /\ worker[c].task = t
  BY <1>1, BusyJob DEF Current
<1>3. row[t].status \in {"running"} \union Terminal /\ row[t].approved /\ writes[t] = 0
  BY <1>1, <1>2 DEF JobOK
<1>4. \E u \in granted : row[u].origin = row[t].origin
  BY <1>2, <1>3 DEF RowOK, Granted
<1>5. granted \subseteq Tasks /\ writes \in [Tasks -> Nat]
  BY DEF QueueInv, TypeOK
<1>6. {u \in Tasks : writes[u] > 0}' = {u \in Tasks : writes[u] > 0} \union {t}
  BY <1>1, <1>2, <1>3, <1>5
<1>7. t \notin {u \in Tasks : writes[u] > 0}
  BY <1>3
<1>8. StageOf(row[t].status) \in {"running", "closed"}
  BY <1>3, Stages
<1>9. Lifecycle!Write(t)
  BY <1>1, <1>2, <1>4, <1>5, <1>6, <1>7, <1>8 DEF Lifecycle!Write
<1> QED BY <1>9 DEF Lifecycle!Next

LEMMA RefineWorker ==
  ASSUME QueueInv, NEW c \in Chats, WorkerStep(c)
  PROVE  [Lifecycle!Next]_(Lifecycle!vars)
<1>1. CASE UNCHANGED <<row, writes, granted>>
  BY <1>1, Stutters
<1>2. ASSUME StartJob(c) \/ PickNext(c) \/ Retire(c) \/ RunnerRaises(c) \/ ParkCheck(c)
             \/ CheckReceipt(c) \/ Merge(c) \/ FinalCheck(c)
      PROVE  UNCHANGED <<row, writes, granted>>
  BY <1>2 DEF StartJob, PickNext, Retire, RunnerRaises, ParkCheck, CheckReceipt, Merge,
     FinalCheck, allButWorker
<1> QED
  BY <1>1, <1>2, RefineClaim, RefinePark, RefineFinish, RefineEnterWrite DEF WorkerStep

LEMMA RefineNewRow ==
  ASSUME QueueInv, NEW c \in Chats, NEW t \in Tasks, NEW r \in Row, Absent(t),
         row' = [row EXCEPT ![t] = r], r.status = "queued", r.chat = c,
         UNCHANGED <<writes, granted>>,
         \/ r.origin = t
         \/ \E u \in Tasks : row[u].status \in Terminal /\ r.origin = row[u].origin
  PROVE  Lifecycle!Next
<1>1. \A u \in Tasks : row'[u] = IF u = t THEN r ELSE row[u]
  BY DEF QueueInv, TypeOK
<1>2. StageOf(row[t].status) = "new" /\ StageOf(r.status) = "open"
  BY Stages DEF Absent
<1>3. Lifecycle!Move(t, "new", "open")
  <2>1. \A u \in Tasks : StageOf(row'[u].status) =
                           IF u = t THEN "open" ELSE StageOf(row[u].status)
    BY <1>1, <1>2
  <2> QED BY <1>2, <2>1 DEF Lifecycle!Move
<1>4. [u \in Tasks |-> row[u].chat]' = [[u \in Tasks |-> row[u].chat] EXCEPT ![t] = c]
  <2>1. \A u \in Tasks : row'[u].chat = IF u = t THEN c ELSE row[u].chat
    BY <1>1
  <2> QED BY <2>1
<1>5. [u \in Tasks |-> row[u].origin]' = [[u \in Tasks |-> row[u].origin] EXCEPT ![t] = r.origin]
  <2>1. \A u \in Tasks : row'[u].origin = IF u = t THEN r.origin ELSE row[u].origin
    BY <1>1
  <2> QED BY <2>1
<1>6. \A u \in Tasks : row[u].status \in Terminal => StageOf(row[u].status) = "closed"
  BY Stages
<1>7. Lifecycle!Open(t)
  BY <1>3, <1>4, <1>5, <1>6 DEF Lifecycle!Open
<1> QED BY <1>7 DEF Lifecycle!Next

LEMMA RefineSubmit ==
  ASSUME QueueInv, NEW c \in Chats, Submit(c)
  PROVE  Lifecycle!Next
<1>1. PICK k \in SubmitKinds, t \in Tasks :
        Absent(t) /\ row' = [row EXCEPT ![t] = NewRow(c, k, t)]
  BY DEF Submit
<1>2. UNCHANGED <<writes, granted>>
  BY DEF Submit, notHandled
<1>3. NewRow(c, k, t) \in Row
  BY QueueAssumption, NewRowType DEF QueueInv
<1>4. /\ NewRow(c, k, t).status = "queued" /\ NewRow(c, k, t).chat = c
      /\ NewRow(c, k, t).origin = t
  BY DEF NewRow
<1> QED BY <1>1, <1>2, <1>3, <1>4, RefineNewRow

LEMMA RefineRetryCreate ==
  ASSUME QueueInv, NEW c \in Chats, RetryCreate(c)
  PROVE  Lifecycle!Next
<1>1. UNCHANGED <<writes, granted>>
  BY DEF RetryCreate, notHandled
<1>2. PICK old \in InChat(c), t \in Tasks :
        LET fresh == NewRow(c, row[old].kind, row[old].origin)
        IN  /\ row[old].status \in Terminal /\ Absent(t)
            /\ row' \in {[row EXCEPT ![t] = fresh],
                         [row EXCEPT ![t] = [fresh EXCEPT !.phase = "execute", !.approved = TRUE]]}
  BY DEF RetryCreate
<1> DEFINE fresh == NewRow(c, row[old].kind, row[old].origin)
<1>3. old \in Tasks
  BY DEF InChat
<1>4. fresh \in Row
  BY <1>3, RowFields, NewRowType DEF QueueInv
<1>5. fresh.status = "queued" /\ fresh.chat = c /\ fresh.origin = row[old].origin
  BY DEF NewRow
<1> HIDE DEF fresh
<1>6. PICK r \in {fresh, [fresh EXCEPT !.phase = "execute", !.approved = TRUE]} :
        row' = [row EXCEPT ![t] = r]
  BY <1>2 DEF fresh
<1>7. r \in Row /\ r.status = "queued" /\ r.chat = c /\ r.origin = row[old].origin
  <2>1. "execute" \in Phases
    BY DEF Phases
  <2> QED BY <1>4, <1>5, <1>6, <2>1 DEF Row
<1> QED BY <1>1, <1>2, <1>3, <1>6, <1>7, RefineNewRow

LEMMA RefineApproveCommit ==
  ASSUME QueueInv, NEW c \in Chats, ApproveCommit(c)
  PROVE  [Lifecycle!Next]_(Lifecycle!vars)
<1>1. handler[c].pc = "approve" /\ UNCHANGED writes
  BY DEF ApproveCommit, Handling, notHandled
<1> PICK t \in Tasks : t = handler[c].task
  BY <1>1, CommandRow
<1> DEFINE r == [row[t] EXCEPT !.status = "queued", !.phase = "execute", !.approved = TRUE,
                               !.key = clock, !.baseline = handler[c].base]
<1>2. row[t] \in Row /\ handler[c].base \in Nat /\ clock \in Nat
  BY <1>1, CommandRow DEF QueueInv, TypeOK
<1>3. CASE UNCHANGED <<row, granted>>
  BY <1>1, <1>3, Stutters
<1>4. CASE /\ row[t].status = "waiting_approval" /\ granted' = granted \union {t}
           /\ row' = [row EXCEPT ![t] = r]
  <2>1. "queued" \in Status /\ "execute" \in Phases
    BY DEF Status, Active, Phases
  <2>2. r \in Row /\ r.status = "queued" /\ r.chat = row[t].chat /\ r.origin = row[t].origin
    BY <1>2, <2>1 DEF Row
  <2>3. StageOf(row[t].status) = "waiting" /\ StageOf(r.status) = "open"
    BY <1>4, <2>2, Stages
  <2> HIDE DEF r
  <2>4. /\ Lifecycle!Move(t, "waiting", "open")
        /\ UNCHANGED [u \in Tasks |-> row[u].chat]
        /\ UNCHANGED [u \in Tasks |-> row[u].origin]
        /\ UNCHANGED {u \in Tasks : writes[u] > 0}
    BY <1>1, <1>4, <2>2, <2>3, OneRow
  <2>5. Lifecycle!Agree(t)
    BY <1>4, <2>4 DEF Lifecycle!Agree
  <2> QED BY <2>5 DEF Lifecycle!Next
<1> QED BY <1>3, <1>4 DEF ApproveCommit

LEMMA RefineCancelWrite ==
  ASSUME QueueInv, NEW c \in Chats, CancelWrite(c)
  PROVE  [Lifecycle!Next]_(Lifecycle!vars)
<1>1. handler[c].pc \in {"cancel", "flag"} /\ UNCHANGED <<writes, granted>>
  BY DEF CancelWrite, Handling, notHandled
<1> PICK t \in Tasks : t = handler[c].task
  BY <1>1, CommandRow
<1>2. ~ Absent(t) /\ row[t] \in Row /\ row \in [Tasks -> Row]
  BY <1>1, CommandRow DEF QueueInv, TypeOK
<1>3. CASE row' = [row EXCEPT ![t] = [@ EXCEPT !.cancel = TRUE]]
  <2>1. \A u \in Tasks : row'[u] = IF u = t THEN [row[t] EXCEPT !.cancel = TRUE] ELSE row[u]
    BY <1>2, <1>3
  <2>2. \A u \in Tasks : /\ row'[u].status = row[u].status
                         /\ row'[u].chat = row[u].chat /\ row'[u].origin = row[u].origin
    BY <1>2, <2>1 DEF Row
  <2> QED BY <1>1, <2>2, Stutters
<1>4. CASE row' = [row EXCEPT ![t] = [@ EXCEPT !.status = "cancelled", !.cancel = TRUE]]
  <2> DEFINE r == [row[t] EXCEPT !.status = "cancelled", !.cancel = TRUE]
  <2>1. "cancelled" \in Status /\ "cancelled" \in Terminal
    BY DEF Status, Terminal
  <2>2. /\ row' = [row EXCEPT ![t] = r] /\ r \in Row /\ r.status = "cancelled"
        /\ r.chat = row[t].chat /\ r.origin = row[t].origin
    BY <1>2, <1>4, <2>1 DEF Row
  <2> HIDE DEF r
  <2> QED BY <1>1, <1>2, <2>1, <2>2, Closes
<1> QED BY <1>3, <1>4 DEF CancelWrite

LEMMA RefineExpire ==
  ASSUME QueueInv, NEW c \in Chats, Expire(c)
  PROVE  Lifecycle!Next
<1>1. PICK E \in SUBSET Waiting : row' = Expired(E)
  BY DEF Expire
<1>2. UNCHANGED <<writes, granted>>
  BY DEF Expire, notHandled
<1>3. \A t \in Tasks : /\ t \in E => row[t].status = "waiting_approval"
                       /\ row'[t].status = IF t \in E THEN "cancelled" ELSE row[t].status
                       /\ row'[t].chat = row[t].chat /\ row'[t].origin = row[t].origin
  <2> SUFFICES ASSUME NEW t \in Tasks
               PROVE  /\ t \in E => row[t].status = "waiting_approval"
                      /\ row'[t].status = IF t \in E THEN "cancelled" ELSE row[t].status
                      /\ row'[t].chat = row[t].chat /\ row'[t].origin = row[t].origin
    OBVIOUS
  <2>1. row[t] \in Row /\ "cancelled" \in Status
    BY DEF QueueInv, TypeOK, Status, Terminal
  <2>2. row'[t] = IF t \in E THEN [row[t] EXCEPT !.status = "cancelled"] ELSE row[t]
    BY <1>1 DEF Expired
  <2> QED BY <2>1, <2>2, StatusRow DEF Waiting
<1>4. \A t \in Tasks : StageOf(row'[t].status) = IF t \in E THEN "closed" ELSE StageOf(row[t].status)
  BY <1>3, Stages DEF Terminal
<1>5. [t \in Tasks |-> StageOf(row[t].status)]' =
        [t \in Tasks |-> IF t \in E THEN "closed" ELSE [u \in Tasks |-> StageOf(row[u].status)][t]]
  BY <1>4
<1>6. \A t \in E : t \in Tasks /\ StageOf(row[t].status) = "waiting"
  BY <1>3, Stages DEF Waiting
<1>7. UNCHANGED [t \in Tasks |-> row[t].chat] /\ UNCHANGED [t \in Tasks |-> row[t].origin]
  BY <1>3
<1>8. Lifecycle!Expire(E)
  BY <1>2, <1>5, <1>6, <1>7 DEF Lifecycle!Expire
<1>9. E \in SUBSET Tasks
  BY <1>6
<1> QED BY <1>8, <1>9 DEF Lifecycle!Next

LEMMA RefineHandler ==
  ASSUME QueueInv, NEW c \in Chats, HandlerStep(c) \/ Message(c)
  PROVE  [Lifecycle!Next]_(Lifecycle!vars)
<1>1. ASSUME Schedule(c) \/ ApproveRead(c) \/ CancelRead(c)
      PROVE  UNCHANGED Lifecycle!vars
  <2>1. UNCHANGED <<row, writes, granted>>
    BY <1>1 DEF Schedule, ApproveRead, CancelRead, notHandled
  <2> QED BY <2>1, Stutters
<1>2. ASSUME RetryReceipt(c)
      PROVE  UNCHANGED Lifecycle!vars
  <2>1. handler[c].pc = "receipt" /\ UNCHANGED <<writes, granted>>
    BY <1>2 DEF RetryReceipt, Handling, notHandled
  <2> PICK t \in Tasks : t = handler[c].task
    BY <2>1, CommandRow
  <2>2. \A u \in Tasks : row'[u] = IF u = t THEN [row[t] EXCEPT !.baseline = handler[c].base]
                                   ELSE row[u]
    BY <1>2 DEF RetryReceipt, QueueInv, TypeOK
  <2>3. \A u \in Tasks : /\ row'[u].status = row[u].status
                         /\ row'[u].chat = row[u].chat /\ row'[u].origin = row[u].origin
    BY <2>2 DEF QueueInv, TypeOK, Row
  <2> QED BY <2>1, <2>3, Stutters
<1> QED
  BY <1>1, <1>2, RefineSubmit, RefineRetryCreate, RefineApproveCommit, RefineCancelWrite,
     RefineExpire DEF HandlerStep, Message

LEMMA RefineStart ==
  ASSUME QueueInv, Start
  PROVE  Lifecycle!Next
<1>1. PICK E \in SUBSET Waiting : row' = [t \in Tasks |-> Recovered(Expired(E)[t])]
  BY DEF Start
<1>2. UNCHANGED <<writes, granted>>
  BY DEF Start
<1>3. ASSUME NEW t \in Tasks
      PROVE  /\ row'[t].chat = row[t].chat /\ row'[t].origin = row[t].origin
             /\ StageOf(row'[t].status) \in Lifecycle!Stages
             /\ StageOf(row'[t].status) \in
                   CASE StageOf(row[t].status) = "running" ->
                          IF writes[t] > 0 THEN {"closed"} ELSE {"open", "closed"}
                     [] StageOf(row[t].status) = "open"    -> {"open", "closed"}
                     [] StageOf(row[t].status) = "waiting" -> {"waiting", "closed"}
                     [] OTHER                              -> {StageOf(row[t].status)}
  <2> DEFINE x == Expired(E)[t]
  <2>1. /\ x \in Row /\ (x = row[t] \/ (row[t].status = "waiting_approval" /\ x.status = "cancelled"))
        /\ x.chat = row[t].chat /\ x.origin = row[t].origin
    BY ExpiredRow
  <2>2. row'[t] = Recovered(x)
    BY <1>1
  <2> HIDE DEF x
  <2>3. row'[t].chat = row[t].chat /\ row'[t].origin = row[t].origin /\ row'[t].status \in Status
    BY <2>1, <2>2, RecoveredRow DEF Row
  <2>4. row[t].status = "absent" => row'[t].status = "absent"
    BY <2>1, <2>2, RecoveredRow
  <2>5. row[t].status = "waiting_approval" => row'[t].status \in {"waiting_approval", "cancelled"}
    BY <2>1, <2>2 DEF Recovered
  <2>6. row[t].status \in Terminal => row'[t].status = row[t].status
    BY <2>1, <2>2 DEF Recovered, Terminal
  <2>7. row[t].status = "queued" => row'[t].status \in {"queued", "cancelled"}
    BY <2>1, <2>2, StatusRow DEF Recovered, Status, Terminal
  <2>8. row[t].status = "running" => row'[t].status \in {"queued", "blocked", "cancelled"}
    <3>1. {"queued", "blocked", "cancelled"} \subseteq Status
      BY DEF Status, Active, Terminal
    <3> QED BY <2>1, <2>2, <3>1, StatusRow DEF Recovered
  <2>9. row[t].status = "running" /\ writes[t] > 0 => row'[t].status \in Terminal
    <3>1. ASSUME row[t].status = "running", writes[t] > 0
          PROVE  row[t].kind = "swarm" /\ row[t].phase = "execute"
      BY <3>1 DEF QueueInv, TypeOK, Rows, RowOK
    <3> QED BY <2>1, <2>2, <3>1, RecoveredRow
  <2>10. {"cancelled", "blocked"} \subseteq Terminal /\ "queued" \notin Terminal
    BY DEF Terminal
  <2>11. row[t].status \in {"absent", "queued", "running", "waiting_approval"} \union Terminal
    BY RowFields DEF Status, Active
  <2>12. StageOf(row'[t].status) \in Lifecycle!Stages
    BY <2>3, ClosedStage
  <2>13. CASE row[t].status = "running"
    BY <2>3, <2>8, <2>9, <2>10, <2>12, <2>13, Stages
  <2>14. CASE row[t].status = "queued"
    BY <2>3, <2>7, <2>10, <2>12, <2>14, Stages
  <2>15. CASE row[t].status = "waiting_approval"
    BY <2>3, <2>5, <2>10, <2>12, <2>15, Stages
  <2>16. CASE row[t].status = "absent"
    BY <2>3, <2>4, <2>12, <2>16, Stages
  <2>17. CASE row[t].status \in Terminal
    BY <2>3, <2>6, <2>12, <2>17, Stages
  <2> QED BY <2>11, <2>13, <2>14, <2>15, <2>16, <2>17
<1>4. UNCHANGED [t \in Tasks |-> row[t].chat] /\ UNCHANGED [t \in Tasks |-> row[t].origin]
  BY <1>3
<1>5. [t \in Tasks |-> StageOf(row[t].status)]' \in [Tasks -> Lifecycle!Stages]
  BY <1>3
<1>6. \A t \in Tasks : StageOf(row'[t].status) \in Lifecycle!AfterRestart(t)
  BY <1>3 DEF Lifecycle!AfterRestart
<1>7. Lifecycle!Restart
  BY <1>2, <1>4, <1>5, <1>6 DEF Lifecycle!Restart
<1> QED BY <1>7 DEF Lifecycle!Next

LEMMA RefineInit == Init => Lifecycle!Init
<1> SUFFICES ASSUME Init PROVE Lifecycle!Init
  OBVIOUS
<1>1. PICK c \in Chats, s \in {"queued", "waiting_approval", "failed"} :
        row = [t \in Tasks |-> LegacyRow(c, IF t \in Legacy THEN s ELSE "absent", t)]
  BY DEF Init
<1>2. writes = [t \in Tasks |-> 0] /\ granted = {}
  BY DEF Init
<1>3. \A t \in Tasks : /\ row[t].status \in {"absent", "queued", "waiting_approval", "failed"}
                       /\ row[t].chat = c /\ row[t].origin = t
  BY <1>1 DEF LegacyRow
<1>4. \A t \in Tasks : StageOf(row[t].status) \in {"new", "open", "waiting", "closed"}
  BY <1>3, Stages DEF Terminal
<1>5. [t \in Tasks |-> StageOf(row[t].status)] \in [Tasks -> {"new", "open", "waiting", "closed"}]
  BY <1>4
<1>6. [t \in Tasks |-> row[t].chat] \in [Tasks -> Chats]
  BY <1>3
<1>7. [t \in Tasks |-> row[t].origin] = [t \in Tasks |-> t]
  BY <1>3
<1>8. {t \in Tasks : writes[t] > 0} = {}
  BY <1>2
<1> QED BY <1>2, <1>5, <1>6, <1>7, <1>8 DEF Lifecycle!Init

LEMMA RefineNext == QueueInv /\ [Next]_vars => [Lifecycle!Next]_(Lifecycle!vars)
<1> SUFFICES ASSUME QueueInv, [Next]_vars PROVE [Lifecycle!Next]_(Lifecycle!vars)
  OBVIOUS
<1>1. CASE Crash
  BY <1>1, Stutters DEF Crash
<1>2. CASE UNCHANGED vars
  BY <1>2, Stutters DEF vars
<1> QED BY <1>1, <1>2, RefineWorker, RefineHandler, RefineStart DEF Next

\* Every behaviour of the queue is one of the lifecycle.
THEOREM QueueImplementsLifecycle == Spec => ImplementsLifecycle
BY RefineInit, RefineNext, QueueInvariant, PTL DEF Spec, ImplementsLifecycle, Lifecycle!Spec

-------------------------------------------------------------------------------
(* Action properties.                                                       *)

\* Jobs that leave a task with no success in hand: one not about to finish, and
\* one about to finish with another outcome.
LEMMA QuietJob ==
  ASSUME QueueInv, NEW t \in Tasks, Unjudged(t), NEW c \in Chats, NEW j,
         worker' = [worker EXCEPT ![c] = j],
         j.pc = "finish" /\ j.task = t => j.out # "succeeded"
  PROVE  Unjudged(t)'
<1>1. worker \in [Chats -> Job]
  BY DEF QueueInv, TypeOK
<1>2. \A d \in Chats : worker'[d] = IF d = c THEN j ELSE worker[d]
  BY <1>1
<1> QED BY <1>2 DEF Unjudged

LEMMA QuietGoto ==
  ASSUME QueueInv, NEW t \in Tasks, Unjudged(t), NEW c \in Chats,
         NEW p, p # "finish", Goto(c, p)
  PROVE  Unjudged(t)'
<1>1. worker[c] \in Job
  BY DEF QueueInv, TypeOK
<1> DEFINE j == [worker[c] EXCEPT !.pc = p]
<1>2. j.pc # "finish" /\ worker' = [worker EXCEPT ![c] = j]
  BY <1>1 DEF Goto, Job
<1> HIDE DEF j
<1> QED BY <1>2, QuietJob

LEMMA QuietPick ==
  ASSUME QueueInv, NEW t \in Tasks, Unjudged(t), NEW c \in Chats,
         \E u \in NextQueued(c) :
           worker' = [worker EXCEPT ![c] = [@ EXCEPT !.pc = "claim", !.task = u]]
  PROVE  Unjudged(t)'
<1>1. worker[c] \in Job
  BY DEF QueueInv, TypeOK
<1>2. PICK u \in NextQueued(c) :
         worker' = [worker EXCEPT ![c] = [@ EXCEPT !.pc = "claim", !.task = u]]
  OBVIOUS
<1> DEFINE j == [worker[c] EXCEPT !.pc = "claim", !.task = u]
<1>3. j.pc # "finish" /\ worker' = [worker EXCEPT ![c] = j]
  BY <1>1, <1>2 DEF Job
<1> HIDE DEF j
<1> QED BY <1>3, QuietJob

LEMMA QuietFresh ==
  ASSUME QueueInv, NEW t \in Tasks, Unjudged(t), NEW c \in Chats,
         \/ worker' = [worker EXCEPT ![c] = IdleWorker]
         \/ worker' = [worker EXCEPT ![c] = [IdleWorker EXCEPT !.pc = "pool"]]
         \/ NextLoop(c)
  PROVE  Unjudged(t)'
<1>1. /\ IdleWorker.pc # "finish"
      /\ [IdleWorker EXCEPT !.pc = "pool"].pc # "finish"
      /\ [IdleWorker EXCEPT !.pc = "loop"].pc # "finish"
  BY DEF IdleWorker
<1> QED BY <1>1, QuietJob DEF NextLoop

LEMMA QuietRaise ==
  ASSUME QueueInv, NEW t \in Tasks, Unjudged(t), NEW c \in Chats,
         NEW o, Raise(c, o), Current(c) = t => o # "succeeded"
  PROVE  Unjudged(t)'
<1>1. worker[c] \in Job
  BY DEF QueueInv, TypeOK
<1> DEFINE j == [worker[c] EXCEPT !.pc = "finish", !.out = o]
<1>2. /\ worker' = [worker EXCEPT ![c] = j]
      /\ j.task = Current(c) /\ j.out = o
  BY <1>1 DEF Raise, Job, Current
<1> HIDE DEF j
<1> QED BY <1>2, QuietJob

\* A worker's step brings no success in hand to a cancelled task: FinalCheck reads
\* the flag, and no error of the runner is a success.
LEMMA WorkerStaysQuiet ==
  ASSUME QueueInv, NEW t \in Tasks, CancelPending(t), NEW c \in Chats, WorkerStep(c)
  PROVE  Unjudged(t)'
<1>1. Unjudged(t)
  BY DEF CancelPending
<1>2. worker[c] \in Job
  BY DEF QueueInv, TypeOK
<1>4. ASSUME NEW p, p # "finish", Goto(c, p) PROVE Unjudged(t)'
  BY <1>1, <1>4, QuietGoto
<1>5. CASE PickNext(c)
  <2>1. \/ Goto(c, "drain")
        \/ \E u \in NextQueued(c) :
             worker' = [worker EXCEPT ![c] = [@ EXCEPT !.pc = "claim", !.task = u]]
    BY <1>5 DEF PickNext
  <2>2. CASE Goto(c, "drain")
    BY <1>4, <2>2
  <2> QED BY <1>1, <2>1, <2>2, QuietPick
<1>6. CASE Retire(c)
  <2>1. \/ worker' = [worker EXCEPT ![c] = IdleWorker]
        \/ \E u \in NextQueued(c) :
             worker' = [worker EXCEPT ![c] = [@ EXCEPT !.pc = "claim", !.task = u]]
    BY <1>6 DEF Retire
  <2>2. CASE worker' = [worker EXCEPT ![c] = IdleWorker]
    BY <1>1, <2>2, QuietFresh
  <2> QED BY <1>1, <2>1, <2>2, QuietPick
<1>7. CASE Claim(c)
  <2>1. CASE NextLoop(c)
    BY <1>1, <2>1, QuietFresh
  <2>2. CASE worker' = [worker EXCEPT ![c] =
                          [@ EXCEPT !.pc = "run", !.base = row[Current(c)].baseline]]
    <3> DEFINE b == row[Current(c)].baseline
    <3>1. worker' = [worker EXCEPT ![c] = [@ EXCEPT !.pc = "run", !.base = b]]
      BY <2>2
    <3> HIDE DEF b
    <3> DEFINE j == [worker[c] EXCEPT !.pc = "run", !.base = b]
    <3>2. j.pc # "finish"
      BY <1>2 DEF Job
    <3>3. worker' = [worker EXCEPT ![c] = j]
      BY <3>1
    <3> HIDE DEF j
    <3> QED BY <1>1, <3>2, <3>3, QuietJob
  <2> QED BY <1>7, <2>1, <2>2 DEF Claim
<1>8. CASE RunnerRaises(c)
  <2>1. PICK o \in RunnerErrors(c) : Raise(c, o)
    BY <1>8 DEF RunnerRaises
  <2>2. o # "succeeded"
    BY <2>1, QueueAssumption DEF RunnerErrors
  <2> QED BY <1>1, <2>1, <2>2, QuietRaise
<1>9. CASE Park(c)
  <2>1. CASE NextLoop(c)
    BY <1>1, <2>1, QuietFresh
  <2>2. CASE Raise(c, "failed")
    BY <1>1, <2>2, QuietRaise
  <2> QED BY <1>9, <2>1, <2>2 DEF Park
<1>10. CASE CheckReceipt(c)
  <2>1. CASE worker' = [worker EXCEPT ![c] = [@ EXCEPT !.pc = "checked", !.base = 0]]
    <3> DEFINE j == [worker[c] EXCEPT !.pc = "checked", !.base = 0]
    <3>1. j.pc # "finish" /\ worker' = [worker EXCEPT ![c] = j]
      BY <1>2, <2>1 DEF Job
    <3> HIDE DEF j
    <3> QED BY <1>1, <3>1, QuietJob
  <2>2. CASE Raise(c, "failed")
    BY <1>1, <2>2, QuietRaise
  <2> QED BY <1>10, <2>1, <2>2 DEF CheckReceipt
<1>11. CASE FinalCheck(c)
  <2> DEFINE o == IF row[Current(c)].cancel THEN "cancelled" ELSE "succeeded"
  <2>1. Raise(c, o) /\ (Current(c) = t => o # "succeeded")
    BY <1>11 DEF FinalCheck, CancelPending
  <2> HIDE DEF o
  <2> QED BY <1>1, <2>1, QuietRaise
<1>12. CASE Finish(c)
  BY <1>1, <1>12, QuietFresh DEF Finish
<1>13. CASE StartJob(c) \/ ParkCheck(c) \/ EnterWrite(c) \/ Merge(c) \/ FinishMeeting(c)
  BY <1>4, <1>13 DEF StartJob, ParkCheck, EnterWrite, Merge, FinishMeeting
<1> QED BY <1>5, <1>6, <1>7, <1>8, <1>9, <1>10, <1>11, <1>12, <1>13 DEF WorkerStep

\* A worker's step keeps the flag, and a status it writes is no success: Finish
\* writes the outcome in hand.
LEMMA WorkerKeepsFlag ==
  ASSUME QueueInv, NEW t \in Tasks, CancelPending(t), NEW c \in Chats, WorkerStep(c)
  PROVE  /\ row'[t].cancel /\ row'[t].kind = row[t].kind
         /\ row'[t].status \notin {"absent", "succeeded"}
<1>1. row[t] \in Row /\ row \in [Tasks -> Row] /\ worker[c] \in Job
  BY DEF QueueInv, TypeOK
<1>2. row[t].cancel /\ row[t].kind # "roundtable" /\ row[t].status \notin {"absent", "succeeded"}
  BY DEF CancelPending
<1>3. ASSUME NEW s \in Status \ {"absent", "succeeded"},
             row'[t] = row[t] \/ row'[t] = [row[t] EXCEPT !.status = s]
      PROVE  /\ row'[t].cancel /\ row'[t].kind = row[t].kind
             /\ row'[t].status \notin {"absent", "succeeded"}
  BY <1>1, <1>2, <1>3 DEF Row
<1>4. ASSUME UNCHANGED row
      PROVE  /\ row'[t].cancel /\ row'[t].kind = row[t].kind
             /\ row'[t].status \notin {"absent", "succeeded"}
  BY <1>2, <1>4
<1>5. ASSUME \/ StartJob(c) \/ ParkCheck(c) \/ EnterWrite(c) \/ Merge(c) \/ PickNext(c)
             \/ Retire(c) \/ RunnerRaises(c) \/ CheckReceipt(c) \/ FinalCheck(c)
      PROVE  UNCHANGED row
  <2>1. CASE StartJob(c) \/ ParkCheck(c) \/ PickNext(c) \/ CheckReceipt(c)
    BY <2>1 DEF StartJob, ParkCheck, PickNext, CheckReceipt, allButWorker
  <2>2. CASE RunnerRaises(c) \/ FinalCheck(c)
    BY <2>2 DEF RunnerRaises, FinalCheck, allButWorker
  <2>3. CASE EnterWrite(c) \/ Merge(c) \/ Retire(c)
    BY <2>3 DEF EnterWrite, Merge, Retire
  <2> QED BY <1>5, <2>1, <2>2, <2>3
<1>6. CASE Claim(c)
  <2>1. row'[t] = row[t] \/ row'[t] = [row[t] EXCEPT !.status = "running"]
    BY <1>1, <1>6 DEF Claim, SetStatus
  <2> QED BY <1>3, <2>1 DEF Status, Active
<1>7. CASE Park(c)
  <2>1. CASE UNCHANGED row
    BY <1>4, <2>1
  <2>2. CASE row' = [row EXCEPT ![Current(c)] =
                       [@ EXCEPT !.status = "waiting_approval", !.phase = "approval"]]
    <3>1. \/ row'[t] = row[t]
          \/ row'[t] = [row[t] EXCEPT !.status = "waiting_approval", !.phase = "approval"]
      BY <1>1, <2>2
    <3> QED BY <1>1, <1>2, <3>1 DEF Row
  <2> QED BY <1>7, <2>1, <2>2 DEF Park
<1>8. CASE Finish(c)
  <2>1. worker[c].out \in Terminal /\ (Current(c) = t => worker[c].out # "succeeded")
    BY <1>1, <1>8 DEF Finish, At, Current, CancelPending, Unjudged, Job
  <2>2. \/ row'[t] = row[t]
        \/ Current(c) = t /\ row'[t] = [row[t] EXCEPT !.status = worker[c].out]
    BY <1>1, <1>8 DEF Finish, SetStatus
  <2>3. CASE row'[t] = row[t]
    BY <1>2, <2>3
  <2>4. CASE Current(c) = t /\ row'[t] = [row[t] EXCEPT !.status = worker[c].out]
    <3>1. worker[c].out \in Status \ {"absent", "succeeded"}
      BY <2>1, <2>4 DEF Status, Terminal
    <3> QED BY <1>3, <2>4, <3>1
  <2> QED BY <2>2, <2>3, <2>4
<1>9. CASE FinishMeeting(c)
  <2>1. Current(c) # t
    BY <1>2, <1>9 DEF FinishMeeting
  <2>2. row'[t] = row[t]
    BY <1>1, <1>9, <2>1 DEF FinishMeeting, SetStatus
  <2> QED BY <1>2, <2>2
<1> QED BY <1>4, <1>5, <1>6, <1>7, <1>8, <1>9 DEF WorkerStep

\* A handler's step: a job it starts has judged nothing, and the statuses it
\* writes are "queued" and "cancelled".
LEMMA HandlerHonoursCancel ==
  ASSUME QueueInv, NEW t \in Tasks, CancelPending(t), NEW c \in Chats,
         HandlerStep(c) \/ Message(c)
  PROVE  CancelPending(t)'
<1>1. row[t] \in Row /\ row \in [Tasks -> Row] /\ Unjudged(t)
  BY DEF QueueInv, TypeOK, CancelPending
<1>2. row[t].cancel /\ row[t].kind # "roundtable" /\ row[t].status \notin {"absent", "succeeded"}
  BY DEF CancelPending
<1>3. Unjudged(t)'
  <2>1. CASE Schedule(c)
    <3>1. CASE UNCHANGED worker
      BY <1>1, <3>1 DEF Unjudged
    <3> QED BY <1>1, <2>1, <3>1, QuietFresh DEF Schedule
  <2>2. CASE ~ Schedule(c)
    <3>1. UNCHANGED worker
      <4>1. CASE ApproveCommit(c) \/ CancelWrite(c) \/ RetryReceipt(c)
        BY <4>1 DEF ApproveCommit, CancelWrite, RetryReceipt, notHandled
      <4>2. CASE Expire(c) \/ ApproveRead(c) \/ CancelRead(c)
        BY <4>2 DEF Expire, ApproveRead, CancelRead, notHandled
      <4>3. CASE Submit(c) \/ RetryCreate(c)
        BY <4>3 DEF Submit, RetryCreate, notHandled
      <4> QED BY <2>2, <4>1, <4>2, <4>3 DEF HandlerStep, Message
    <3> QED BY <1>1, <3>1 DEF Unjudged
  <2> QED BY <2>1, <2>2
<1>4. /\ row'[t].cancel /\ row'[t].kind = row[t].kind
      /\ row'[t].status \notin {"absent", "succeeded"}
  <2>1. CASE UNCHANGED row
    BY <1>2, <2>1
  <2>2. CASE ApproveCommit(c)
    <3>1. \/ row'[t] = row[t]
          \/ row'[t] = [row[t] EXCEPT !.status = "queued", !.phase = "execute",
                                      !.approved = TRUE, !.key = clock,
                                      !.baseline = handler[c].base]
      BY <1>1, <2>2 DEF ApproveCommit
    <3> QED BY <1>1, <1>2, <3>1 DEF Row
  <2>3. CASE CancelWrite(c)
    <3>1. \/ row'[t] = row[t]
          \/ row'[t] = [row[t] EXCEPT !.status = "cancelled", !.cancel = TRUE]
          \/ row'[t] = [row[t] EXCEPT !.cancel = TRUE]
      BY <1>1, <2>3 DEF CancelWrite
    <3> QED BY <1>1, <1>2, <3>1 DEF Row
  <2>4. CASE RetryReceipt(c)
    <3>1. \/ row'[t] = row[t]
          \/ row'[t] = [row[t] EXCEPT !.baseline = handler[c].base]
      BY <1>1, <2>4 DEF RetryReceipt
    <3> QED BY <1>1, <1>2, <3>1 DEF Row
  <2>5. CASE Submit(c)
    <3>1. PICK u \in Tasks, k \in SubmitKinds :
             Absent(u) /\ row' = [row EXCEPT ![u] = NewRow(c, k, u)]
      BY <2>5 DEF Submit
    <3>2. u # t
      BY <1>2, <3>1 DEF Absent
    <3> QED BY <1>1, <1>2, <3>1, <3>2
  <2>6. CASE RetryCreate(c)
    <3>1. PICK u \in Tasks : Absent(u) /\ \A v \in Tasks : v # u => row'[v] = row[v]
      BY <1>1, <2>6 DEF RetryCreate
    <3>2. u # t
      BY <1>2, <3>1 DEF Absent
    <3> QED BY <1>2, <3>1, <3>2
  <2>7. CASE Expire(c)
    <3>1. PICK E \in SUBSET Waiting : row' = Expired(E)
      BY <2>7 DEF Expire
    <3>2. row'[t] = row[t] \/ row'[t] = [row[t] EXCEPT !.status = "cancelled"]
      BY <3>1 DEF Expired
    <3> QED BY <1>1, <1>2, <3>2 DEF Row
  <2>8. CASE Schedule(c) \/ ApproveRead(c) \/ CancelRead(c)
    BY <2>1, <2>8 DEF Schedule, ApproveRead, CancelRead
  <2> QED BY <2>2, <2>3, <2>4, <2>5, <2>6, <2>7, <2>8 DEF HandlerStep, Message
<1> QED BY <1>2, <1>3, <1>4 DEF CancelPending, Unjudged

\* An exit drops the jobs; a start neither judges nor reopens.
LEMMA RestartHonoursCancel ==
  ASSUME QueueInv, NEW t \in Tasks, CancelPending(t), Crash \/ Start
  PROVE  CancelPending(t)'
<1>1. row[t] \in Row
  BY DEF QueueInv, TypeOK
<1>2. CASE Crash
  <2>1. \A d \in Chats : worker'[d].pc = "idle"
    BY <1>2 DEF Crash, IdleWorker
  <2> QED BY <1>2, <2>1 DEF Crash, CancelPending, Unjudged
<1>3. CASE Start
  <2>1. \A d \in Chats : worker'[d].pc \in {"idle", "pool"}
    BY <1>3 DEF Start, IdleWorker
  <2>2. PICK E \in SUBSET Waiting : row' = [u \in Tasks |-> Recovered(Expired(E)[u])]
    BY <1>3 DEF Start
  <2> DEFINE r == Expired(E)[t]
  <2>3. r = row[t] \/ r = [row[t] EXCEPT !.status = "cancelled"]
    BY DEF Expired
  <2>4. /\ r.cancel /\ r.kind = row[t].kind /\ r \in Row
        /\ r.status \notin {"absent", "succeeded"}
    BY <1>1, <2>3 DEF Row, CancelPending, Status, Terminal
  <2>5. row'[t] = Recovered(r)
    BY <2>2
  <2> HIDE DEF r
  <2>6. Recovered(r) = r \/ Recovered(r) = [r EXCEPT !.status = "cancelled"]
    BY <2>4 DEF Recovered
  <2>7. /\ row'[t].cancel /\ row'[t].kind = row[t].kind
        /\ row'[t].status \notin {"absent", "succeeded"}
    BY <2>4, <2>5, <2>6 DEF Row
  <2> QED BY <2>1, <2>7 DEF CancelPending, Unjudged
<1> QED BY <1>2, <1>3

\* A task cancelled before its result is judged never succeeds.
THEOREM CancelWins == Spec => CancelBeatsSuccess
<1>1. ASSUME QueueInv, [Next]_vars, NEW t \in Tasks, CancelPending(t) PROVE CancelPending(t)'
  <2>1. CASE \E c \in Chats : WorkerStep(c)
    BY <1>1, <2>1, WorkerStaysQuiet, WorkerKeepsFlag DEF CancelPending
  <2>2. CASE \E c \in Chats : HandlerStep(c) \/ Message(c)
    BY <1>1, <2>2, HandlerHonoursCancel
  <2>3. CASE Crash \/ Start
    BY <1>1, <2>3, RestartHonoursCancel
  <2>4. CASE UNCHANGED vars
    BY <1>1, <2>4 DEF vars, CancelPending, Unjudged
  <2> QED BY <1>1, <2>1, <2>2, <2>3, <2>4 DEF Next
<1>2. QueueInv /\ [Next]_vars => \A t \in Tasks : CancelPending(t) => CancelPending(t)'
  BY <1>1
<1> QED BY <1>2, QueueInvariant, PTL DEF Spec, CancelBeatsSuccess

\* Steps that write no stamp, bring no row to a queue and move no job to a claim.
LEMMA FifoKept ==
  ASSUME QueueInv, QueueInv', FifoInv, clock' >= clock,
         \A t \in Tasks : row'[t].key = row[t].key,
         \A d \in Chats : worker'[d].pc = "claim" =>
           /\ Eligible(d)' \subseteq Eligible(d)
           /\ worker'[d] = worker[d]
           /\ row'[worker[d].task].status \in {"queued"} \union Terminal
  PROVE  FifoInv'
<1>1. \A t \in Tasks : row'[t].key <= clock'
  BY RowFields DEF FifoInv, QueueInv, TypeOK
<1>2. ASSUME NEW d \in Chats, worker'[d].pc = "claim"
      PROVE  /\ row'[worker'[d].task].status \in {"queued"} \union Terminal
             /\ worker'[d].task \in Eligible(d)' =>
                  \A u \in Eligible(d)' : row'[worker'[d].task].key <= row'[u].key
  <2>1. worker[d].pc = "claim" /\ worker'[d].task = worker[d].task /\ worker[d].task \in Tasks
    BY <1>2 DEF QueueInv, Jobs, JobOK
  <2>2. \A u \in Eligible(d)' : u \in Eligible(d)
    BY <1>2
  <2>3. Eligible(d) \subseteq Tasks
    BY DEF Eligible
  <2> QED BY <1>2, <2>1, <2>2, <2>3 DEF FifoInv, Current
<1> QED BY <1>1, <1>2 DEF FifoInv, Current

\* A pick takes a row with the smallest stamp of its chat.
LEMMA FifoPick ==
  ASSUME QueueInv, FifoInv, UNCHANGED <<row, clock>>, NEW c \in Chats,
         \/ \E t \in NextQueued(c) :
              worker' = [worker EXCEPT ![c] = [@ EXCEPT !.pc = "claim", !.task = t]]
         \/ \E j : j.pc # "claim" /\ worker' = [worker EXCEPT ![c] = j]
         \/ UNCHANGED worker
  PROVE  FifoInv'
<1>1. \A d \in Chats : worker'[d].pc = "claim" =>
        \/ worker'[d] = worker[d]
        \/ worker'[d].task \in NextQueued(d)
  <2>1. CASE \E t \in NextQueued(c) :
               worker' = [worker EXCEPT ![c] = [@ EXCEPT !.pc = "claim", !.task = t]]
    <3>1. PICK t \in NextQueued(c) :
               worker' = [worker EXCEPT ![c] = [worker[c] EXCEPT !.pc = "claim", !.task = t]]
      BY <2>1
    <3>2. worker[c] \in Job /\ worker \in [Chats -> Job]
      BY DEF QueueInv, TypeOK
    <3>3. [worker[c] EXCEPT !.pc = "claim", !.task = t].task = t
      BY <3>2 DEF Job
    <3> QED BY <3>1, <3>2, <3>3
  <2>2. CASE \E j : j.pc # "claim" /\ worker' = [worker EXCEPT ![c] = j]
    BY <2>2 DEF QueueInv, TypeOK
  <2> QED BY <2>1, <2>2
<1>2. ASSUME NEW d \in Chats, worker'[d].pc = "claim", worker'[d].task \in NextQueued(d)
      PROVE  /\ row'[worker'[d].task].status \in {"queued"} \union Terminal
             /\ \A u \in Eligible(d)' : row'[worker'[d].task].key <= row'[u].key
  BY <1>2 DEF NextQueued, Eligible
<1>3. ASSUME NEW d \in Chats, worker'[d].pc = "claim", worker'[d] = worker[d]
      PROVE  /\ row'[worker'[d].task].status \in {"queued"} \union Terminal
             /\ worker'[d].task \in Eligible(d)' =>
                  \A u \in Eligible(d)' : row'[worker'[d].task].key <= row'[u].key
  BY <1>3 DEF FifoInv, Current, Eligible
<1> QED BY <1>1, <1>2, <1>3 DEF FifoInv, Current

\* One row of chat c changes its status; only c's own job may be affected.
LEMMA FifoStatus ==
  ASSUME QueueInv, QueueInv', FifoInv, NEW c \in Chats, NEW t \in Tasks, NEW r \in Row,
         row[t].chat = c, row' = [row EXCEPT ![t] = r], r.key = row[t].key, r.chat = row[t].chat,
         r.status = "queued" /\ ~ r.cancel => t \in Eligible(c),
         UNCHANGED clock,
         \A d \in Chats : worker'[d].pc = "claim" =>
           worker'[d] = worker[d] /\ (d = c => r.status \in {"queued"} \union Terminal)
  PROVE  FifoInv'
<1>1. \A u \in Tasks : row'[u] = IF u = t THEN r ELSE row[u]
  BY DEF QueueInv, TypeOK
<1>2. \A u \in Tasks : row'[u].key = row[u].key
  BY <1>1
<1>3. \A d \in Chats : Eligible(d)' \subseteq Eligible(d)
  BY <1>1 DEF Eligible
<1>4. ASSUME NEW d \in Chats, worker'[d].pc = "claim"
      PROVE  worker'[d] = worker[d] /\ row'[worker[d].task].status \in {"queued"} \union Terminal
  <2>1. /\ worker'[d] = worker[d] /\ worker[d].task \in Tasks /\ row[worker[d].task].chat = d
        /\ row[worker[d].task].status \in {"queued"} \union Terminal
    BY <1>4 DEF QueueInv, Jobs, JobOK, FifoInv, Current
  <2> QED BY <1>1, <1>4, <2>1
<1>5. clock' >= clock
  BY DEF QueueInv, TypeOK
<1> QED BY <1>2, <1>3, <1>4, <1>5, FifoKept

\* A row that no job has picked joins the queue with the current stamp.
LEMMA FifoJoin ==
  ASSUME QueueInv, FifoInv, NEW t \in Tasks, NEW r \in Row,
         row[t].status \in {"absent", "waiting_approval"},
         row' = [row EXCEPT ![t] = r], r.key = clock, clock' = clock + 1, UNCHANGED worker
  PROVE  FifoInv'
<1>1. \A u \in Tasks : row'[u] = IF u = t THEN r ELSE row[u]
  BY DEF QueueInv, TypeOK
<1>2. clock \in Nat /\ \A u \in Tasks : row[u].key \in Nat /\ row[u].key <= clock
  BY RowFields DEF QueueInv, TypeOK, FifoInv
<1>3. \A u \in Tasks : row'[u].key <= clock'
  BY <1>1, <1>2
<1>4. ASSUME NEW d \in Chats, worker[d].pc = "claim"
      PROVE  /\ row'[worker[d].task].status \in {"queued"} \union Terminal
             /\ worker[d].task \in Eligible(d)' =>
                  \A u \in Eligible(d)' : row'[worker[d].task].key <= row'[u].key
  <2>1. /\ worker[d].task \in Tasks
        /\ row[worker[d].task].status \in {"queued"} \union Terminal
    BY <1>4 DEF QueueInv, Jobs, JobOK, FifoInv, Current
  <2>2. worker[d].task # t
    BY <2>1 DEF Terminal
  <2>3. row'[worker[d].task] = row[worker[d].task]
    BY <1>1, <2>1, <2>2
  <2>4. ASSUME worker[d].task \in Eligible(d)', NEW u \in Eligible(d)'
        PROVE  row'[worker[d].task].key <= row'[u].key
    <3>1. worker[d].task \in Eligible(d) /\ u \in Tasks
      BY <2>1, <2>3, <2>4 DEF Eligible
    <3>2. CASE u = t
      BY <1>1, <1>2, <2>1, <2>3, <3>2
    <3>3. CASE u # t
      <4>1. u \in Eligible(d)
        BY <1>1, <2>4, <3>3 DEF Eligible
      <4> QED BY <1>1, <1>4, <2>3, <3>1, <3>3, <4>1 DEF FifoInv, Current
    <3> QED BY <3>2, <3>3
  <2> QED BY <2>1, <2>3, <2>4
<1> QED BY <1>3, <1>4 DEF FifoInv, Current

LEMMA FifoWorker ==
  ASSUME QueueInv, QueueInv', FifoInv, NEW c \in Chats, WorkerStep(c)
  PROVE  FifoInv'
<1> USE DEF At
<1>1. CASE PickNext(c) \/ Retire(c)
  <2>1. IdleWorker.pc # "claim"
    BY DEF IdleWorker
  <2>2. worker[c] \in Job
    BY DEF QueueInv, TypeOK
  <2>3. [worker[c] EXCEPT !.pc = "drain"].pc # "claim"
    BY <2>2 DEF Job
  <2> QED BY <1>1, <2>1, <2>3, FifoPick DEF PickNext, Retire, Goto, allButWorker
<1>2. CASE StartJob(c) \/ RunnerRaises(c) \/ ParkCheck(c) \/ CheckReceipt(c) \/ EnterWrite(c)
           \/ Merge(c) \/ FinalCheck(c)
  <2>1. worker[c] \in Job
    BY DEF QueueInv, TypeOK
  <2>2. UNCHANGED <<row, clock>>
    BY <1>2 DEF StartJob, RunnerRaises, ParkCheck, CheckReceipt, EnterWrite, Merge, FinalCheck,
       allButWorker
  <2>3. PICK p \in {"loop", "finish", "park", "checked", "write", "merged"} :
          \/ Goto(c, p)
          \/ \E o : worker' = [worker EXCEPT ![c] = [@ EXCEPT !.pc = p, !.out = o]]
          \/ worker' = [worker EXCEPT ![c] = [@ EXCEPT !.pc = p, !.base = 0]]
    BY <1>2 DEF StartJob, RunnerRaises, ParkCheck, CheckReceipt, EnterWrite, Merge, FinalCheck, Raise
  <2>4. \E j : j.pc # "claim" /\ worker' = [worker EXCEPT ![c] = j]
    <3>1. CASE Goto(c, p)
      <4>1. [worker[c] EXCEPT !.pc = p].pc # "claim"
        BY <2>1 DEF Job
      <4> QED BY <3>1, <4>1 DEF Goto
    <3>2. CASE \E o : worker' = [worker EXCEPT ![c] = [@ EXCEPT !.pc = p, !.out = o]]
      <4>1. PICK o : worker' = [worker EXCEPT ![c] = [worker[c] EXCEPT !.pc = p, !.out = o]]
        BY <3>2
      <4>2. [worker[c] EXCEPT !.pc = p, !.out = o].pc # "claim"
        BY <2>1 DEF Job
      <4> QED BY <4>1, <4>2
    <3>3. CASE worker' = [worker EXCEPT ![c] = [@ EXCEPT !.pc = p, !.base = 0]]
      <4>1. [worker[c] EXCEPT !.pc = p, !.base = 0].pc # "claim"
        BY <2>1 DEF Job
      <4> QED BY <3>3, <4>1
    <3> QED BY <2>3, <3>1, <3>2, <3>3
  <2> QED BY <2>2, <2>4, FifoPick
<1>3. CASE Claim(c) \/ Park(c) \/ FinishMeeting(c) \/ Finish(c)
  <2>1. UNCHANGED clock
    BY <1>3 DEF Claim, Park, FinishMeeting, Finish, allButRowAndWorker
  <2>2. worker[c] \in Job /\ worker \in [Chats -> Job]
    BY DEF QueueInv, TypeOK
  <2>3. PICK j : worker' = [worker EXCEPT ![c] = j] /\ j.pc # "claim"
    <3>1. [IdleWorker EXCEPT !.pc = "loop"].pc # "claim"
      BY DEF IdleWorker
    <3>2. /\ \A b : [worker[c] EXCEPT !.pc = "run", !.base = b].pc # "claim"
          /\ \A o : [worker[c] EXCEPT !.pc = "finish", !.out = o].pc # "claim"
          /\ [worker[c] EXCEPT !.pc = "return"].pc # "claim"
      BY <2>2 DEF Job
    <3>3. CASE NextLoop(c)
      BY <3>1, <3>3 DEF NextLoop
    <3>4. CASE worker' = [worker EXCEPT ![c] =
                            [@ EXCEPT !.pc = "run", !.base = row[Current(c)].baseline]]
      BY <3>2, <3>4
    <3>5. CASE Raise(c, "failed")
      BY <3>2, <3>5 DEF Raise
    <3>6. CASE Goto(c, "return")
      BY <3>2, <3>6 DEF Goto
    <3> QED BY <1>3, <3>3, <3>4, <3>5, <3>6 DEF Claim, Park, FinishMeeting, Finish
  <2>4. CASE UNCHANGED row
    BY <2>1, <2>3, <2>4, FifoPick
  <2>5. CASE ~ UNCHANGED row
    <3>1. worker[c].pc \in Busy \union {"claim"}
      BY <1>3 DEF Claim, Park, FinishMeeting, Finish, Busy
    <3>2. Current(c) \in Tasks /\ row[Current(c)].chat = c /\ row[Current(c)] \in Row
      BY <3>1 DEF QueueInv, TypeOK, Jobs, JobOK, Current
    <3> PICK t \in Tasks : t = Current(c)
      BY <3>2
    <3>3. \/ \E s \in {"running", "succeeded", worker[c].out} :
               row' = [row EXCEPT ![t] = [row[t] EXCEPT !.status = s]]
          \/ row' = [row EXCEPT ![t] =
                       [row[t] EXCEPT !.status = "waiting_approval", !.phase = "approval"]]
      BY <1>3, <2>5 DEF Claim, Park, FinishMeeting, Finish, SetStatus
    <3>4. \A s \in {"running", "succeeded", worker[c].out} : s \in Status /\ s # "queued"
      BY <2>2 DEF Job, Status, Active, Terminal
    <3>5. PICK r \in Row : /\ row' = [row EXCEPT ![t] = r] /\ r.status # "queued"
                           /\ r.key = row[t].key /\ r.chat = row[t].chat
      <4>1. "waiting_approval" \in Status /\ "approval" \in Phases
        BY DEF Status, Active, Phases
      <4>2. CASE \E s \in {"running", "succeeded", worker[c].out} :
               row' = [row EXCEPT ![t] = [row[t] EXCEPT !.status = s]]
        <5>1. PICK s \in {"running", "succeeded", worker[c].out} :
               row' = [row EXCEPT ![t] = [row[t] EXCEPT !.status = s]]
          BY <4>2
        <5> DEFINE x == [row[t] EXCEPT !.status = s]
        <5>2. x \in Row /\ x.status # "queued" /\ x.key = row[t].key /\ x.chat = row[t].chat
          BY <3>2, <3>4 DEF Row
        <5>3. row' = [row EXCEPT ![t] = x]
          BY <5>1
        <5> HIDE DEF x
        <5> QED BY <5>2, <5>3
      <4>3. CASE row' = [row EXCEPT ![t] =
                       [row[t] EXCEPT !.status = "waiting_approval", !.phase = "approval"]]
        <5> DEFINE x == [row[t] EXCEPT !.status = "waiting_approval", !.phase = "approval"]
        <5>1. x \in Row /\ x.status # "queued" /\ x.key = row[t].key /\ x.chat = row[t].chat
          BY <3>2, <4>1 DEF Row
        <5>2. row' = [row EXCEPT ![t] = x]
          BY <4>3
        <5> HIDE DEF x
        <5> QED BY <5>1, <5>2
      <4> QED BY <3>3, <4>2, <4>3
    <3>6. \A d \in Chats : worker'[d].pc = "claim" => worker'[d] = worker[d] /\ d # c
      BY <2>2, <2>3
    <3> QED BY <2>1, <3>2, <3>5, <3>6, FifoStatus
  <2> QED BY <2>4, <2>5
<1> QED BY <1>1, <1>2, <1>3 DEF WorkerStep

LEMMA FifoHandler ==
  ASSUME QueueInv, QueueInv', FifoInv, NEW c \in Chats, HandlerStep(c) \/ Message(c)
  PROVE  FifoInv'
<1>1. CASE Submit(c)
  <2>1. PICK k \in SubmitKinds, t \in Tasks : Absent(t) /\ row' = [row EXCEPT ![t] = NewRow(c, k, t)]
    BY <1>1 DEF Submit
  <2>2. clock' = clock + 1 /\ UNCHANGED worker
    BY <1>1 DEF Submit, notHandled
  <2>3. NewRow(c, k, t) \in Row /\ NewRow(c, k, t).key = clock
    BY QueueAssumption, NewRowType DEF QueueInv, NewRow
  <2> QED BY <2>1, <2>2, <2>3, FifoJoin DEF Absent
<1>2. CASE RetryCreate(c)
  <2>1. PICK old \in InChat(c), t \in Tasks :
          LET fresh == NewRow(c, row[old].kind, row[old].origin)
          IN  /\ Absent(t)
              /\ row' \in {[row EXCEPT ![t] = fresh],
                           [row EXCEPT ![t] = [fresh EXCEPT !.phase = "execute", !.approved = TRUE]]}
    BY <1>2 DEF RetryCreate
  <2>2. clock' = clock + 1 /\ UNCHANGED worker
    BY <1>2 DEF RetryCreate, notHandled
  <2> DEFINE fresh == NewRow(c, row[old].kind, row[old].origin)
  <2>3. fresh \in Row /\ fresh.key = clock
    <3>1. row[old].kind \in Kinds /\ row[old].origin \in Tasks
      BY RowFields DEF InChat
    <3> QED BY <3>1, NewRowType DEF QueueInv, NewRow
  <2> HIDE DEF fresh
  <2>4. PICK r \in {fresh, [fresh EXCEPT !.phase = "execute", !.approved = TRUE]} :
          row' = [row EXCEPT ![t] = r]
    BY <2>1 DEF fresh
  <2>5. r \in Row /\ r.key = clock
    <3>1. "execute" \in Phases
      BY DEF Phases
    <3> QED BY <2>3, <2>4, <3>1 DEF Row
  <2> QED BY <2>1, <2>2, <2>4, <2>5, FifoJoin DEF Absent
<1>3. CASE ApproveCommit(c)
  <2>1. handler[c].pc = "approve" /\ UNCHANGED worker
    BY <1>3 DEF ApproveCommit, Handling, notHandled
  <2> PICK t \in Tasks : t = handler[c].task
    BY <2>1, CommandRow
  <2>2. row[t] \in Row /\ handler[c].base \in Nat /\ clock \in Nat
    BY <2>1, CommandRow DEF QueueInv, TypeOK
  <2>3. CASE UNCHANGED <<row, clock>>
    BY <2>1, <2>3, FifoPick
  <2>4. CASE /\ row[t].status = "waiting_approval" /\ clock' = clock + 1
             /\ row' = [row EXCEPT ![t] =
                   [row[t] EXCEPT !.status = "queued", !.phase = "execute", !.approved = TRUE,
                                  !.key = clock, !.baseline = handler[c].base]]
    <3> DEFINE r == [row[t] EXCEPT !.status = "queued", !.phase = "execute", !.approved = TRUE,
                                   !.key = clock, !.baseline = handler[c].base]
    <3>1. "queued" \in Status /\ "execute" \in Phases
      BY DEF Status, Active, Phases
    <3>2. r \in Row /\ r.key = clock
      BY <2>2, <3>1 DEF Row
    <3>3. row' = [row EXCEPT ![t] = r]
      BY <2>4
    <3> HIDE DEF r
    <3> QED BY <2>1, <2>4, <3>2, <3>3, FifoJoin
  <2> QED BY <1>3, <2>3, <2>4 DEF ApproveCommit
<1>4. CASE CancelWrite(c) \/ RetryReceipt(c)
  <2>1. handler[c].pc # "idle" /\ UNCHANGED <<worker, clock>>
    BY <1>4 DEF CancelWrite, RetryReceipt, Handling, notHandled
  <2> PICK t \in Tasks : t = handler[c].task
    BY <2>1, CommandRow
  <2>2. row[t] \in Row /\ row[t].chat = c /\ handler[c].base \in Nat
    BY <2>1, CommandRow
  <2>3. PICK r \in {[row[t] EXCEPT !.status = "cancelled", !.cancel = TRUE],
                    [row[t] EXCEPT !.cancel = TRUE],
                    [row[t] EXCEPT !.baseline = handler[c].base]} : row' = [row EXCEPT ![t] = r]
    BY <1>4 DEF CancelWrite, RetryReceipt
  <2>4. "cancelled" \in Status /\ "cancelled" \in Terminal /\ "cancelled" # "queued"
    BY DEF Status, Terminal
  <2>5. /\ r \in Row /\ r.key = row[t].key /\ r.chat = row[t].chat
        /\ r.status \in {"cancelled", row[t].status}
        /\ r.status = "queued" /\ ~ r.cancel => row[t].status = "queued" /\ ~ row[t].cancel
    BY <2>2, <2>3, <2>4 DEF Row
  <2>6. \A u \in Tasks : row'[u] = IF u = t THEN r ELSE row[u]
    BY <2>3 DEF QueueInv, TypeOK
  <2>7. \A d \in Chats : Eligible(d)' \subseteq Eligible(d)
    BY <2>5, <2>6 DEF Eligible
  <2>8. ASSUME NEW d \in Chats, worker[d].pc = "claim"
        PROVE  row'[worker[d].task].status \in {"queued"} \union Terminal
    <3>1. worker[d].task \in Tasks /\ row[worker[d].task].status \in {"queued"} \union Terminal
      BY <2>8 DEF QueueInv, Jobs, JobOK, FifoInv, Current
    <3> QED BY <2>4, <2>5, <2>6, <3>1
  <2>9. clock' >= clock /\ \A u \in Tasks : row'[u].key = row[u].key
    BY <2>1, <2>5, <2>6 DEF QueueInv, TypeOK
  <2> QED BY <2>1, <2>7, <2>8, <2>9, FifoKept
<1>5. CASE Expire(c)
  <2>1. PICK E \in SUBSET Waiting : row' = Expired(E)
    BY <1>5 DEF Expire
  <2>2. UNCHANGED <<worker, clock>>
    BY <1>5 DEF Expire, notHandled
  <2>3. \A u \in Tasks : row'[u].chat = row[u].chat /\ row'[u].key = row[u].key
    BY <2>1 DEF Expired, QueueInv, TypeOK, Row
  <2>4. \A u \in Tasks : \/ row'[u] = row[u]
                         \/ row[u].status = "waiting_approval" /\ row'[u].status = "cancelled"
    BY <2>1, ExpiredRow
  <2>5. \A d \in Chats : Eligible(d)' \subseteq Eligible(d)
    BY <2>3, <2>4 DEF Eligible
  <2>6. ASSUME NEW d \in Chats, worker[d].pc = "claim"
        PROVE  row'[worker[d].task].status \in {"queued"} \union Terminal
    <3>1. worker[d].task \in Tasks /\ row[worker[d].task].status \in {"queued"} \union Terminal
      BY <2>6 DEF QueueInv, Jobs, JobOK, FifoInv, Current
    <3> QED BY <2>4, <3>1 DEF Terminal
  <2>7. clock' >= clock
    BY <2>2 DEF QueueInv, TypeOK
  <2> QED BY <2>2, <2>3, <2>5, <2>6, <2>7, FifoKept
<1>6. CASE ApproveRead(c) \/ CancelRead(c)
  BY <1>6, FifoPick DEF ApproveRead, CancelRead, notHandled
<1>7. CASE Schedule(c)
  <2>1. [IdleWorker EXCEPT !.pc = "pool"].pc # "claim"
    BY DEF IdleWorker
  <2> QED BY <1>7, <2>1, FifoPick DEF Schedule
<1> QED BY <1>1, <1>2, <1>3, <1>4, <1>5, <1>6, <1>7 DEF HandlerStep, Message

LEMMA FifoInvNext ==
  ASSUME QueueInv, QueueInv', FifoInv, [Next]_vars
  PROVE  FifoInv'
<1>1. CASE Crash \/ Start
  <2>1. \A d \in Chats : worker'[d].pc # "claim"
    BY <1>1 DEF Crash, Start, IdleWorker
  <2>2. UNCHANGED clock /\ \A u \in Tasks : row'[u].key = row[u].key
    <3>1. CASE Crash
      BY <3>1 DEF Crash
    <3>2. CASE Start
      <4>1. PICK E \in SUBSET Waiting : row' = [u \in Tasks |-> Recovered(Expired(E)[u])]
        BY <3>2 DEF Start
      <4>2. \A u \in Tasks : Expired(E)[u] \in Row /\ Expired(E)[u].key = row[u].key
        BY ExpiredRow DEF Expired, QueueInv, TypeOK, Row
      <4>3. \A r \in Row : Recovered(r).key = r.key
        BY DEF Recovered, Row
      <4> QED BY <3>2, <4>1, <4>2, <4>3 DEF Start
    <3> QED BY <1>1, <3>1, <3>2
  <2> QED BY <2>1, <2>2 DEF FifoInv
<1>2. CASE UNCHANGED vars
  BY <1>2 DEF vars, FifoInv, Current, Eligible
<1> QED BY <1>1, <1>2, FifoWorker, FifoHandler DEF Next

\* The tasks of a chat are claimed in queue order.
THEOREM ClaimsAreFifo == Spec => ClaimIsFifo
<1> DEFINE InOrder == \A t \in Tasks :
             row[t].status = "queued" /\ row'[t].status = "running" =>
               \A u \in Eligible(row[t].chat) : row[t].key <= row[u].key
<1>1. Init => FifoInv
  <2> SUFFICES ASSUME Init PROVE FifoInv
    OBVIOUS
  <2>1. PICK c \in Chats, s \in {"queued", "waiting_approval", "failed"} :
          row = [t \in Tasks |-> LegacyRow(c, IF t \in Legacy THEN s ELSE "absent", t)]
    BY DEF Init
  <2>2. clock = 1 /\ \A d \in Chats : worker[d].pc # "claim"
    BY DEF Init, IdleWorker
  <2> QED BY <2>1, <2>2 DEF FifoInv, LegacyRow
<1>2. QueueInv /\ QueueInv' /\ FifoInv /\ [Next]_vars => FifoInv'
  BY FifoInvNext
<1>3. QueueInv /\ FifoInv /\ [Next]_vars => InOrder
  <2> SUFFICES ASSUME QueueInv, FifoInv, [Next]_vars, NEW t \in Tasks,
                      row[t].status = "queued", row'[t].status = "running"
               PROVE  \A u \in Eligible(row[t].chat) : row[t].key <= row[u].key
    OBVIOUS
  <2>1. row[t] \in Row /\ row \in [Tasks -> Row] /\ ~ UNCHANGED row
    BY DEF QueueInv, TypeOK
  <2>2. ASSUME NEW c \in Chats, Claim(c)
        PROVE  \A u \in Eligible(row[t].chat) : row[t].key <= row[u].key
    <3>1. /\ Current(c) \in Eligible(c) /\ worker[c].pc = "claim"
          /\ row' = [row EXCEPT ![Current(c)] = [@ EXCEPT !.status = "running"]]
      BY <2>1, <2>2 DEF Claim, At, SetStatus
    <3>2. t = Current(c)
      BY <2>1, <3>1
    <3> QED BY <3>1, <3>2 DEF FifoInv, Eligible
  <2>3. ASSUME NEW c \in Chats, Finish(c) \/ FinishMeeting(c) \/ Park(c) PROVE FALSE
    <3>1. worker[c].pc \in Busy
      BY <2>3 DEF Finish, FinishMeeting, Park, At, Busy
    <3>2. t # Current(c)
      BY <3>1, BusyJob
    <3> QED BY <2>1, <2>3, <3>2 DEF Finish, FinishMeeting, Park, SetStatus
  <2>4. ASSUME NEW c \in Chats, Expire(c) PROVE FALSE
    <3>1. PICK E \in SUBSET Waiting : row' = Expired(E)
      BY <2>4 DEF Expire
    <3> QED BY <3>1, ExpiredRow
  <2>5. ASSUME NEW c \in Chats, Submit(c) \/ RetryCreate(c) PROVE FALSE
    <3>1. PICK u \in Tasks : Absent(u) /\ \E r : row' = [row EXCEPT ![u] = r]
      BY <2>5 DEF Submit, RetryCreate
    <3> QED BY <2>1, <3>1 DEF Absent
  <2>6. ASSUME NEW c \in Chats, ApproveCommit(c) \/ RetryReceipt(c) PROVE FALSE
    BY <2>1, <2>6 DEF ApproveCommit, RetryReceipt, Row
  <2>7. ASSUME NEW c \in Chats, CancelWrite(c) PROVE FALSE
    <3>1. row'[t] \in {row[t], [row[t] EXCEPT !.status = "cancelled", !.cancel = TRUE],
                       [row[t] EXCEPT !.cancel = TRUE]}
      BY <2>1, <2>7 DEF CancelWrite
    <3> QED BY <2>1, <3>1 DEF Row
  <2>8. ASSUME Start PROVE FALSE
    <3>1. PICK E \in SUBSET Waiting : row' = [u \in Tasks |-> Recovered(Expired(E)[u])]
      BY <2>8 DEF Start
    <3> QED BY <3>1, ExpiredRow, RecoveredRow
  <2>9. ASSUME NEW c \in Chats,
                StartJob(c) \/ PickNext(c) \/ Retire(c) \/ RunnerRaises(c) \/ ParkCheck(c)
                \/ CheckReceipt(c) \/ EnterWrite(c) \/ Merge(c) \/ FinalCheck(c)
         PROVE  FALSE
    BY <2>1, <2>9 DEF StartJob, PickNext, Retire, RunnerRaises, ParkCheck, CheckReceipt,
       EnterWrite, Merge, FinalCheck, allButWorker
  <2>10. ASSUME NEW c \in Chats, Schedule(c) \/ ApproveRead(c) \/ CancelRead(c) PROVE FALSE
    BY <2>1, <2>10 DEF Schedule, ApproveRead, CancelRead
  <2>11. ~ (Crash \/ UNCHANGED vars)
    BY <2>1 DEF Crash, vars
  <2> QED
    BY <2>2, <2>3, <2>4, <2>5, <2>6, <2>7, <2>8, <2>9, <2>10, <2>11
    DEF Next, WorkerStep, HandlerStep, Message
<1> QED BY <1>1, <1>2, <1>3, QueueInvariant, PTL DEF Spec, ClaimIsFifo
===============================================================================
