--------------------------- MODULE TaskQueueProofs ----------------------------
(* Proofs about TaskQueue, for every value of its constants. *)
EXTENDS TaskQueue, TLAPS

\* What the idle records and a new row are made of.
LEMMA IdleTypes == IdleWorker \in Job /\ IdleHandler \in Command
BY DEF IdleWorker, IdleHandler, Job, Command, WorkerPcs, HandlerPcs, Terminal

LEMMA NewRowType ==
  ASSUME TypeOK, NEW c \in Chats, NEW k \in Kinds, NEW o \in Tasks
  PROVE  NewRow(c, k, o) \in Row
BY DEF TypeOK, NewRow, Row, Status, Active, Phases

LEMMA RowFields ==
  ASSUME QueueInv, NEW t \in Tasks
  PROVE  /\ row[t].status \in Status /\ row[t].kind \in Kinds /\ row[t].chat \in Chats
         /\ row[t].phase \in Phases /\ row[t].cancel \in BOOLEAN /\ row[t].key \in Nat
         /\ row[t].approved \in BOOLEAN /\ row[t].baseline \in Nat
         /\ row[t].handoff \in BOOLEAN /\ row[t].origin \in Tasks
BY DEF QueueInv, TypeOK, Row

\* A job moved to another program counter is a job.
LEMMA JobAt ==
  ASSUME NEW j \in Job, NEW p \in WorkerPcs
  PROVE  /\ [j EXCEPT !.pc = p] \in Job
         /\ \A t \in Tasks : [j EXCEPT !.pc = p, !.task = t] \in Job
         /\ \A o \in Terminal : [j EXCEPT !.pc = p, !.out = o] \in Job
         /\ \A b \in Nat : [j EXCEPT !.pc = p, !.base = b] \in Job
BY DEF Job

LEMMA GotoType ==
  ASSUME TypeOK, NEW c \in Chats
  PROVE  /\ \A p \in WorkerPcs : Goto(c, p) => worker' \in [Chats -> Job]
         /\ \A o \in Terminal : Raise(c, o) => worker' \in [Chats -> Job]
         /\ NextLoop(c) => worker' \in [Chats -> Job]
         /\ \A t \in Tasks, s \in Status : SetStatus(t, s) => row' \in [Tasks -> Row]
<1>1. \A p \in WorkerPcs : Goto(c, p) => worker' \in [Chats -> Job]
  BY DEF TypeOK, Goto, Job
<1>2. \A o \in Terminal : Raise(c, o) => worker' \in [Chats -> Job]
  <2> "finish" \in WorkerPcs BY DEF WorkerPcs
  <2> QED BY DEF TypeOK, Raise, Job
<1>3. NextLoop(c) => worker' \in [Chats -> Job]
  BY IdleTypes, JobAt DEF TypeOK, NextLoop, WorkerPcs
<1>4. \A t \in Tasks, s \in Status : SetStatus(t, s) => row' \in [Tasks -> Row]
  BY DEF TypeOK, SetStatus, Row
<1> QED BY <1>1, <1>2, <1>3, <1>4

-------------------------------------------------------------------------------
(* Steps that only move the job of one chat.                                *)

LEMMA WorkerMoves ==
  ASSUME QueueInv, up, NEW c \in Chats, NEW j \in Job,
         worker' = [worker EXCEPT ![c] = j],
         worker[c].pc # "idle", j.pc # "idle", JobOK(c, j),
         worker[c].pc \in Busy => j.pc \in Busy /\ j.task = worker[c].task,
         ws' \in Nat \ {0},
         UNCHANGED <<row, scheduled, handler, clock, up, crashes, writes, granted>>
  PROVE  QueueInv'
<1>1. \A d \in Chats : worker'[d] = IF d = c THEN j ELSE worker[d]
  BY DEF QueueInv, TypeOK
<1>2. TypeOK'
  BY DEF QueueInv, TypeOK
<1>3. Processes'
  BY <1>1 DEF QueueInv, Processes
<1>4. Jobs'
  BY <1>1 DEF QueueInv, Jobs, JobOK, Absent
<1>5. Commands' /\ Rows' /\ NoLostWakeup' /\ NoWriteReplay'
  BY DEF QueueInv, Commands, CommandOK, Rows, RowOK, Granted, Absent, NoLostWakeup, Eligible, NoWriteReplay
<1>6. RunningIsOwned'
  BY <1>1 DEF QueueInv, TypeOK, RunningIsOwned
<1> QED BY <1>2, <1>3, <1>4, <1>5, <1>6 DEF QueueInv

\* The program counters and outcomes the steps below name.
LEMMA Names ==
  /\ {"loop", "drain", "claim", "pool"} \subseteq WorkerPcs
  /\ Busy \subseteq WorkerPcs /\ "idle" \notin Busy
  /\ {"loop", "drain", "claim", "pool"} \intersect Busy = {}
  /\ Terminal \subseteq Status /\ Active \subseteq Status
BY DEF WorkerPcs, Busy, Terminal, Status, Active

LEMMA StartJobInv ==
  ASSUME QueueInv, NEW c \in Chats, StartJob(c)
  PROVE  QueueInv'
<1> DEFINE j == [worker[c] EXCEPT !.pc = "loop"]
<1>1. j \in Job /\ j.pc = "loop"
  BY JobAt, Names DEF QueueInv, TypeOK, Job
<1>2. JobOK(c, j)
  BY <1>1, Names DEF JobOK, Busy
<1>3. up /\ worker[c].pc = "pool" /\ worker' = [worker EXCEPT ![c] = j]
  BY DEF StartJob, At, Goto
<1>4. ws' \in Nat \ {0}
      /\ UNCHANGED <<row, scheduled, handler, clock, up, crashes, writes, granted>>
  BY DEF StartJob, allButWorker, QueueInv, TypeOK
<1> HIDE DEF j
<1> QED BY <1>1, <1>2, <1>3, <1>4, WorkerMoves, Names

\* A pick moves the job to its claim.
LEMMA PickMoves ==
  ASSUME QueueInv, NEW c \in Chats, NEW t \in NextQueued(c),
         up, worker[c].pc \in {"loop", "drain"},
         worker' = [worker EXCEPT ![c] = [@ EXCEPT !.pc = "claim", !.task = t]],
         UNCHANGED allButWorker
  PROVE  QueueInv'
<1> DEFINE j == [worker[c] EXCEPT !.pc = "claim", !.task = t]
<1>1. t \in Tasks /\ row[t].chat = c /\ row[t].status = "queued"
  BY DEF NextQueued, Eligible
<1>2. j \in Job /\ j.pc = "claim" /\ j.task = t
  <2>1. worker[c] \in Job /\ "claim" \in WorkerPcs
    BY Names DEF QueueInv, TypeOK
  <2> QED BY <1>1, <2>1 DEF Job
<1>3. JobOK(c, j)
  BY <1>1, <1>2 DEF JobOK, Busy, Absent
<1>4. worker' = [worker EXCEPT ![c] = j] /\ ws' \in Nat \ {0}
      /\ UNCHANGED <<row, scheduled, handler, clock, up, crashes, writes, granted>>
  BY DEF allButWorker, QueueInv, TypeOK
<1> HIDE DEF j
<1> QED BY <1>2, <1>3, <1>4, WorkerMoves, Names

LEMMA PickNextInv ==
  ASSUME QueueInv, NEW c \in Chats, PickNext(c)
  PROVE  QueueInv'
<1> DEFINE j == [worker[c] EXCEPT !.pc = "drain"]
<1>1. up /\ worker[c].pc = "loop" /\ UNCHANGED allButWorker
  BY DEF PickNext, At
<1>2. CASE Goto(c, "drain")
  <2>1. j \in Job /\ j.pc = "drain"
    BY JobAt, Names DEF QueueInv, TypeOK, Job
  <2>2. JobOK(c, j)
    BY <2>1 DEF JobOK, Busy
  <2>3. worker' = [worker EXCEPT ![c] = j] /\ ws' \in Nat \ {0}
        /\ UNCHANGED <<row, scheduled, handler, clock, up, crashes, writes, granted>>
    BY <1>1, <1>2 DEF Goto, allButWorker, QueueInv, TypeOK
  <2> HIDE DEF j
  <2> QED BY <1>1, <2>1, <2>2, <2>3, WorkerMoves, Names
<1>3. CASE \E t \in NextQueued(c) :
             worker' = [worker EXCEPT ![c] = [@ EXCEPT !.pc = "claim", !.task = t]]
  BY <1>1, <1>3, PickMoves
<1> QED BY <1>2, <1>3 DEF PickNext

LEMMA RetireInv ==
  ASSUME QueueInv, NEW c \in Chats, Retire(c)
  PROVE  QueueInv'
<1>1. up /\ worker[c].pc = "drain"
      /\ UNCHANGED <<row, handler, clock, ws, up, crashes, writes, granted>>
  BY DEF Retire, At
<1>2. CASE \E t \in NextQueued(c) :
             /\ worker' = [worker EXCEPT ![c] = [@ EXCEPT !.pc = "claim", !.task = t]]
             /\ UNCHANGED scheduled
  BY <1>1, <1>2, PickMoves DEF allButWorker
<1>3. CASE /\ Eligible(c) = {}
           /\ worker' = [worker EXCEPT ![c] = IdleWorker]
           /\ scheduled' = scheduled \ {c}
  <2>1. IdleWorker.pc = "idle"
    BY DEF IdleWorker
  <2>2. \A d \in Chats : worker'[d] = IF d = c THEN IdleWorker ELSE worker[d]
    BY <1>3 DEF QueueInv, TypeOK
  <2>3. TypeOK'
    BY <1>1, <1>3, IdleTypes DEF QueueInv, TypeOK
  <2>4. Processes'
    BY <1>1, <1>3, <2>1, <2>2 DEF QueueInv, Processes, TypeOK
  <2>5. Jobs'
    BY <1>1, <2>1, <2>2, Names DEF QueueInv, Jobs, JobOK, Absent
  <2>6. Commands' /\ Rows' /\ NoWriteReplay'
    BY <1>1 DEF QueueInv, Commands, CommandOK, Rows, RowOK, Granted, Absent, NoWriteReplay
  <2>7. NoLostWakeup'
    BY <1>1, <1>3 DEF QueueInv, NoLostWakeup, Eligible
  <2>8. RunningIsOwned'
    BY <1>1, <2>2, RowFields DEF QueueInv, RunningIsOwned, Busy
  <2> QED BY <2>3, <2>4, <2>5, <2>6, <2>7, <2>8 DEF QueueInv
<1> QED BY <1>2, <1>3 DEF Retire

-------------------------------------------------------------------------------
(* Steps that move the job of a chat and the row of its task.               *)

LEMMA JobAndRowMove ==
  ASSUME QueueInv, up, NEW c \in Chats, NEW j \in Job, NEW r \in Row, NEW t \in Tasks,
         worker[c].task = t, worker[c].pc \in Busy \union {"claim"},
         worker' = [worker EXCEPT ![c] = j],
         row' = [row EXCEPT ![t] = r],
         UNCHANGED allButRowAndWorker,
         j.pc \in {"run", "return", "loop"}, j.pc # "loop" => j.task = t,
         j.pc = "run" => writes[t] = 0,
         j.pc # "loop" => r.status \in {"running"} \union Terminal,
         j.pc = "loop" => r.status # "running",
         r.chat = row[t].chat, r.kind = row[t].kind, r.handoff = row[t].handoff,
         r.origin = row[t].origin, r.approved = row[t].approved,
         r.status \notin {"absent", "queued"},
         r.status = "waiting_approval" => r.kind \in Collab /\ r.phase = "approval",
         r.approved => r.phase = "execute"
  PROVE  QueueInv'
<1>1. \A d \in Chats : worker'[d] = IF d = c THEN j ELSE worker[d]
  BY DEF QueueInv, TypeOK
<1>2. \A u \in Tasks : row'[u] = IF u = t THEN r ELSE row[u]
  BY DEF QueueInv, TypeOK
<1>3. UNCHANGED <<scheduled, handler, clock, ws, up, crashes, writes, granted>>
  BY DEF allButRowAndWorker
<1>4. ~ Absent(t) /\ row[t].chat = c
  BY DEF QueueInv, Jobs, JobOK
<1>5. TypeOK'
  BY <1>3 DEF QueueInv, TypeOK
<1>6. Processes'
  BY <1>1, <1>3, Names DEF QueueInv, Processes
<1>7. Jobs'
  <2> SUFFICES ASSUME NEW d \in Chats PROVE JobOK(d, worker[d])'
    BY DEF Jobs
  <2>1. CASE d = c
    BY <1>1, <1>2, <1>3, <1>4, <2>1 DEF JobOK, Busy, Absent
  <2>2. CASE d # c
    <3>1. worker'[d] = worker[d] /\ JobOK(d, worker[d])
      BY <1>1, <2>2 DEF QueueInv, Jobs
    <3>2. CASE worker[d].pc \in Busy \union {"claim"}
      <4>1. worker[d].task \in Tasks /\ worker[d].task # t
        BY <1>4, <2>2, <3>1, <3>2 DEF JobOK
      <4> QED BY <1>2, <1>3, <3>1, <4>1 DEF JobOK, Absent
    <3>3. CASE worker[d].pc \notin Busy \union {"claim"}
      BY <1>3, <3>1, <3>3 DEF JobOK, Busy
    <3> QED BY <3>2, <3>3
  <2> QED BY <2>1, <2>2
<1>8. Commands'
  BY <1>2, <1>3, <1>4 DEF QueueInv, Commands, CommandOK, Absent
<1>9. Rows'
  <2>1. \A u \in granted' : ~ Absent(u)'
    BY <1>2, <1>3, <1>4 DEF QueueInv, Rows, Absent, TypeOK
  <2>2. \A u \in Tasks : Granted(u)' = Granted(u)
    BY <1>2, <1>3 DEF Granted, QueueInv, TypeOK
  <2>3. ASSUME NEW u \in Tasks PROVE RowOK(u)'
    <3>1. RowOK(u)
      BY DEF QueueInv, Rows
    <3>2. CASE u # t
      BY <1>2, <1>3, <2>2, <3>1, <3>2 DEF RowOK, Absent
    <3>3. CASE u = t
      <4>1. r.status \in Status
        BY DEF Row
      <4>2. r.status \in {"running"} \union Terminal \/ r.status = "waiting_approval"
        BY <4>1 DEF Status, Active, Terminal
      <4>3. ASSUME writes[t] # 0 PROVE r.approved /\ r.kind = "swarm" /\ r.status \in {"running"} \union Terminal
        BY <3>1, <3>3, <4>2, <4>3 DEF RowOK
      <4> QED BY <1>2, <1>3, <1>4, <2>2, <3>1, <3>3, <4>3 DEF RowOK, Absent
    <3> QED BY <3>2, <3>3
  <2> QED BY <2>1, <2>3 DEF Rows
<1>10. NoLostWakeup'
  BY <1>2, <1>3 DEF QueueInv, NoLostWakeup, Eligible
<1>11. RunningIsOwned'
  <2> SUFFICES ASSUME NEW u \in Tasks, row'[u].status = "running"
               PROVE  worker'[row'[u].chat].task = u /\ worker'[row'[u].chat].pc \in Busy
    BY DEF RunningIsOwned
  <2>1. CASE u = t
    BY <1>1, <1>2, <1>4, <2>1 DEF Busy
  <2>2. CASE u # t
    <3>1. row'[u] = row[u] /\ row[u].chat \in Chats
      BY <1>2, <2>2, RowFields
    <3>2. worker[row[u].chat].task = u
          /\ worker[row[u].chat].pc \in Busy
      BY <3>1 DEF QueueInv, RunningIsOwned
    <3>3. row[u].chat # c
      BY <2>2, <3>2
    <3> QED BY <1>1, <3>1, <3>2, <3>3
  <2> QED BY <2>1, <2>2
<1>12. NoWriteReplay'
  BY <1>3 DEF QueueInv, NoWriteReplay
<1> QED BY <1>5, <1>6, <1>7, <1>8, <1>9, <1>10, <1>11, <1>12 DEF QueueInv

\* What the invariant says of a job past its claim.
LEMMA BusyJob ==
  ASSUME QueueInv, NEW c \in Chats, worker[c].pc \in Busy
  PROVE  /\ worker[c] \in Job /\ Current(c) \in Tasks /\ worker[c].pc # "idle"
         /\ ~ Absent(Current(c)) /\ row[Current(c)].chat = c
         /\ row[Current(c)] \in Row /\ row[Current(c)].status # "queued"
         /\ RowOK(Current(c)) /\ JobOK(c, worker[c])
<1>1. worker[c] \in Job /\ JobOK(c, worker[c])
  BY DEF QueueInv, TypeOK, Jobs
<1>2. Current(c) \in Tasks /\ ~ Absent(Current(c)) /\ row[Current(c)].chat = c
  BY <1>1 DEF JobOK, Current
<1>3. row[Current(c)].status # "queued"
  BY <1>1 DEF JobOK, Current, Terminal
<1>4. row[Current(c)] \in Row /\ RowOK(Current(c))
  BY <1>2 DEF QueueInv, TypeOK, Rows
<1> QED BY <1>1, <1>2, <1>3, <1>4, Names

\* The job turns to its next task.
LEMMA LoopJob == [IdleWorker EXCEPT !.pc = "loop"] \in Job
BY DEF IdleWorker, Job, WorkerPcs, Terminal

\* What SetStatus makes of a row.
LEMMA StatusRow ==
  ASSUME NEW r \in Row, NEW s \in Status
  PROVE  /\ [r EXCEPT !.status = s] \in Row
         /\ [r EXCEPT !.status = s].status = s
         /\ [r EXCEPT !.status = s].chat = r.chat
         /\ [r EXCEPT !.status = s].kind = r.kind
         /\ [r EXCEPT !.status = s].phase = r.phase
         /\ [r EXCEPT !.status = s].cancel = r.cancel
         /\ [r EXCEPT !.status = s].handoff = r.handoff
         /\ [r EXCEPT !.status = s].origin = r.origin
         /\ [r EXCEPT !.status = s].approved = r.approved
BY DEF Row

LEMMA ClaimInv ==
  ASSUME QueueInv, NEW c \in Chats, Claim(c)
  PROVE  QueueInv'
<1> DEFINE t == Current(c)
<1>1. /\ up /\ worker[c].pc = "claim" /\ UNCHANGED allButRowAndWorker
      /\ worker[c] \in Job /\ ws \in Nat \ {0}
  BY DEF Claim, At, QueueInv, TypeOK
<1>2. CASE /\ t \in Eligible(c) /\ SetStatus(t, "running")
           /\ worker' = [worker EXCEPT ![c] =
                           [@ EXCEPT !.pc = "run", !.base = row[Current(c)].baseline]]
  <2> DEFINE j == [worker[c] EXCEPT !.pc = "run", !.base = row[t].baseline]
             r == [row[t] EXCEPT !.status = "running"]
  <2>1. t \in Tasks /\ row[t].status = "queued" /\ row[t] \in Row /\ row[t].baseline \in Nat
    BY <1>2 DEF Eligible, QueueInv, TypeOK, Row
  <2>2. j \in Job /\ j.pc = "run" /\ j.task = t
    <3>1. "run" \in WorkerPcs
      BY DEF WorkerPcs
    <3> QED BY <1>1, <2>1, <3>1 DEF Job, Current
  <2>3. "running" \in Status
    BY DEF Status, Active
  <2>4. /\ r \in Row /\ r.status = "running" /\ r.chat = row[t].chat /\ r.kind = row[t].kind
        /\ r.handoff = row[t].handoff /\ r.origin = row[t].origin
        /\ r.approved = row[t].approved /\ r.phase = row[t].phase
    BY <2>1, <2>3, StatusRow
  <2>5. writes[t] = 0 /\ (row[t].approved => row[t].phase = "execute")
    BY <2>1 DEF QueueInv, Rows, RowOK, Terminal
  <2>6. worker' = [worker EXCEPT ![c] = j] /\ row' = [row EXCEPT ![t] = r]
    BY <1>2 DEF SetStatus
  <2> HIDE DEF j, r
  <2> QED BY <1>1, <2>1, <2>2, <2>4, <2>5, <2>6, JobAndRowMove DEF Current
<1>3. CASE /\ t \notin Eligible(c) /\ NextLoop(c) /\ UNCHANGED row
  <2> DEFINE j == [IdleWorker EXCEPT !.pc = "loop"]
  <2>1. j \in Job /\ j.pc = "loop"
    BY LoopJob DEF IdleWorker
  <2>2. JobOK(c, j)
    BY <2>1 DEF JobOK, Busy
  <2>3. worker' = [worker EXCEPT ![c] = j] /\ ws' \in Nat \ {0}
        /\ UNCHANGED <<row, scheduled, handler, clock, up, crashes, writes, granted>>
    BY <1>1, <1>3 DEF NextLoop, allButRowAndWorker
  <2> HIDE DEF j
  <2> QED BY <1>1, <2>1, <2>2, <2>3, WorkerMoves, Names
<1> QED BY <1>2, <1>3 DEF Claim

LEMMA FinishInv ==
  ASSUME QueueInv, NEW c \in Chats, Finish(c)
  PROVE  QueueInv'
<1> DEFINE t == Current(c)
           j == [IdleWorker EXCEPT !.pc = "loop"]
           r == [row[t] EXCEPT !.status = worker[c].out]
<1>1. up /\ worker[c].pc = "finish" /\ "finish" \in Busy
  BY DEF Finish, At, Busy
<1>2. UNCHANGED allButRowAndWorker /\ worker' = [worker EXCEPT ![c] = j]
      /\ row' = [row EXCEPT ![t] = r]
  BY DEF Finish, NextLoop, SetStatus
<1>3. t \in Tasks /\ row[t] \in Row /\ worker[c] \in Job /\ RowOK(t)
  BY <1>1, BusyJob
<1>4. worker[c].out \in Terminal
  BY <1>3 DEF Job
<1>5. /\ r \in Row /\ r.status = worker[c].out /\ r.chat = row[t].chat
      /\ r.kind = row[t].kind /\ r.handoff = row[t].handoff /\ r.origin = row[t].origin
      /\ r.approved = row[t].approved /\ r.phase = row[t].phase
  BY <1>3, <1>4, StatusRow, Names
<1>6. worker[c].out \notin {"absent", "queued", "running", "waiting_approval"}
  BY <1>4 DEF Terminal
<1>7. j \in Job /\ j.pc = "loop"
  BY LoopJob DEF IdleWorker
<1>8. row[t].approved => row[t].phase = "execute"
  BY <1>3 DEF RowOK
<1>9. worker[c].task = t
  BY DEF Current
<1> HIDE DEF j, r, t
<1> QED BY <1>1, <1>2, <1>3, <1>5, <1>6, <1>7, <1>8, <1>9, JobAndRowMove

LEMMA FinishMeetingInv ==
  ASSUME QueueInv, NEW c \in Chats, FinishMeeting(c)
  PROVE  QueueInv'
<1> DEFINE t == Current(c)
           j == [worker[c] EXCEPT !.pc = "return"]
           r == [row[t] EXCEPT !.status = "succeeded"]
<1>1. up /\ worker[c].pc = "run" /\ "run" \in Busy
  BY DEF FinishMeeting, At, Busy
<1>2. UNCHANGED allButRowAndWorker /\ worker' = [worker EXCEPT ![c] = j]
      /\ row' = [row EXCEPT ![t] = r]
  BY DEF FinishMeeting, Goto, SetStatus
<1>3. t \in Tasks /\ row[t] \in Row /\ worker[c] \in Job /\ RowOK(t)
  BY <1>1, BusyJob
<1>4. "succeeded" \in Terminal /\ "return" \in WorkerPcs
  BY DEF Terminal, WorkerPcs
<1>5. /\ r \in Row /\ r.status = "succeeded" /\ r.chat = row[t].chat
      /\ r.kind = row[t].kind /\ r.handoff = row[t].handoff /\ r.origin = row[t].origin
      /\ r.approved = row[t].approved /\ r.phase = row[t].phase
  BY <1>3, <1>4, StatusRow, Names
<1>6. j \in Job /\ j.pc = "return" /\ j.task = t
  BY <1>3, <1>4 DEF Job, Current
<1>7. row[t].approved => row[t].phase = "execute"
  BY <1>3 DEF RowOK
<1>8. worker[c].task = t
  BY DEF Current
<1> HIDE DEF j, r, t
<1> QED BY <1>1, <1>2, <1>3, <1>4, <1>5, <1>6, <1>7, <1>8, JobAndRowMove

-------------------------------------------------------------------------------
(* Steps of a busy job that leave the table alone.                          *)

\* A busy job that keeps its task stays sound when it moves to a program
\* counter whose promises it already keeps.
LEMMA BusyMoves ==
  ASSUME QueueInv, up, NEW c \in Chats, NEW j \in Job, worker[c].pc \in Busy,
         worker' = [worker EXCEPT ![c] = j],
         j.pc \in Busy, j.task = worker[c].task, JobOK(c, j),
         ws' \in Nat \ {0},
         UNCHANGED <<row, scheduled, handler, clock, up, crashes, writes, granted>>
  PROVE  QueueInv'
<1>1. worker[c].pc # "idle" /\ j.pc # "idle"
  BY Names
<1> QED BY <1>1, WorkerMoves

LEMMA RaiseMoves ==
  ASSUME QueueInv, up, NEW c \in Chats, NEW o \in Terminal, worker[c].pc \in Busy,
         Raise(c, o), UNCHANGED allButWorker
  PROVE  QueueInv'
<1> DEFINE j == [worker[c] EXCEPT !.pc = "finish", !.out = o]
<1>1. worker[c] \in Job /\ JobOK(c, worker[c]) /\ "finish" \in WorkerPcs
  BY BusyJob DEF WorkerPcs
<1>2. j \in Job /\ j.pc = "finish" /\ j.task = worker[c].task
  BY <1>1 DEF Job
<1>3. JobOK(c, j) /\ "finish" \in Busy
  BY <1>1, <1>2 DEF JobOK, Busy
<1>4. worker' = [worker EXCEPT ![c] = j] /\ ws' \in Nat \ {0}
      /\ UNCHANGED <<row, scheduled, handler, clock, up, crashes, writes, granted>>
  BY DEF Raise, allButWorker, QueueInv, TypeOK
<1> HIDE DEF j
<1> QED BY <1>2, <1>3, <1>4, BusyMoves

LEMMA RunnerRaisesInv ==
  ASSUME QueueInv, NEW c \in Chats, RunnerRaises(c)
  PROVE  QueueInv'
<1>1. up /\ worker[c].pc \in Busy /\ UNCHANGED allButWorker
  BY DEF RunnerRaises, Busy
<1>2. PICK o \in RunnerErrors(c) : Raise(c, o)
  BY DEF RunnerRaises
<1>3. o \in Terminal
  <2>1. o \in {"blocked", "failed", "cancelled"} \union Verdicts
    BY <1>2 DEF RunnerErrors
  <2> QED BY <2>1, QueueAssumption DEF Terminal
<1> QED BY <1>1, <1>2, <1>3, RaiseMoves

LEMMA FinalCheckInv ==
  ASSUME QueueInv, NEW c \in Chats, FinalCheck(c)
  PROVE  QueueInv'
<1>1. up /\ worker[c].pc \in Busy /\ UNCHANGED allButWorker
  BY DEF FinalCheck, Returned, At, Busy
<1>2. PICK o \in {"cancelled", "succeeded"} : Raise(c, o)
  BY DEF FinalCheck
<1>3. o \in Terminal
  BY DEF Terminal
<1> QED BY <1>1, <1>2, <1>3, RaiseMoves

LEMMA ParkCheckInv ==
  ASSUME QueueInv, NEW c \in Chats, ParkCheck(c)
  PROVE  QueueInv'
<1> DEFINE j == [worker[c] EXCEPT !.pc = "park"]
<1>1. /\ up /\ worker[c].pc = "run" /\ UNCHANGED allButWorker
      /\ row[Current(c)].kind \in Collab /\ row[Current(c)].phase = "planning"
      /\ worker' = [worker EXCEPT ![c] = j]
  BY DEF ParkCheck, At, IsCollab, Goto
<1>2. {"run", "park"} \subseteq Busy /\ "park" \in WorkerPcs
  BY DEF Busy, WorkerPcs
<1>3. worker[c] \in Job /\ JobOK(c, worker[c])
  BY <1>1, <1>2, BusyJob
<1>4. j \in Job /\ j.pc = "park" /\ j.task = worker[c].task
  BY <1>2, <1>3 DEF Job
<1>5. JobOK(c, j)
  BY <1>1, <1>3, <1>4 DEF JobOK, Busy, Current
<1>6. ws' \in Nat \ {0}
      /\ UNCHANGED <<row, scheduled, handler, clock, up, crashes, writes, granted>>
  BY <1>1 DEF allButWorker, QueueInv, TypeOK
<1> HIDE DEF j
<1> QED BY <1>1, <1>2, <1>4, <1>5, <1>6, BusyMoves

LEMMA ParkInv ==
  ASSUME QueueInv, NEW c \in Chats, Park(c)
  PROVE  QueueInv'
<1> DEFINE t == Current(c)
<1>1. up /\ worker[c].pc = "park" /\ UNCHANGED allButRowAndWorker /\ "park" \in Busy
  BY DEF Park, At, Busy
<1>2. /\ t \in Tasks /\ row[t] \in Row /\ RowOK(t) /\ JobOK(c, worker[c])
      /\ worker[c].task = t
  BY <1>1, BusyJob DEF Current
<1>3. CASE /\ row[t].status = "running" /\ row[t].phase = "planning" /\ NextLoop(c)
           /\ row' = [row EXCEPT ![t] =
                         [@ EXCEPT !.status = "waiting_approval", !.phase = "approval"]]
  <2> DEFINE j == [IdleWorker EXCEPT !.pc = "loop"]
             r == [row[t] EXCEPT !.status = "waiting_approval", !.phase = "approval"]
  <2>1. j \in Job /\ j.pc = "loop" /\ worker' = [worker EXCEPT ![c] = j]
    BY <1>3, LoopJob DEF IdleWorker, NextLoop
  <2>2. "waiting_approval" \in Status /\ "approval" \in Phases
    BY DEF Status, Active, Phases
  <2>3. /\ r \in Row /\ r.status = "waiting_approval" /\ r.phase = "approval"
        /\ r.chat = row[t].chat /\ r.kind = row[t].kind /\ r.handoff = row[t].handoff
        /\ r.origin = row[t].origin /\ r.approved = row[t].approved
    BY <1>2, <2>2 DEF Row
  <2>4. row[t].kind \in Collab /\ ~ row[t].approved
    BY <1>1, <1>2, <1>3 DEF JobOK, RowOK
  <2>5. row' = [row EXCEPT ![t] = r]
    BY <1>3
  <2> HIDE DEF j, r, t
  <2> QED BY <1>1, <1>2, <2>1, <2>3, <2>4, <2>5, JobAndRowMove
<1>4. CASE Raise(c, "failed") /\ UNCHANGED row
  <2>1. "failed" \in Terminal /\ UNCHANGED allButWorker
    BY <1>1, <1>4 DEF Terminal, allButWorker, allButRowAndWorker
  <2> QED BY <1>1, <1>4, <2>1, RaiseMoves
<1> QED BY <1>3, <1>4 DEF Park

LEMMA CheckReceiptInv ==
  ASSUME QueueInv, NEW c \in Chats, CheckReceipt(c)
  PROVE  QueueInv'
<1>1. up /\ worker[c].pc = "run" /\ UNCHANGED allButWorker /\ "run" \in Busy
  BY DEF CheckReceipt, At, Busy
<1>2. CASE Raise(c, "failed")
  BY <1>1, <1>2, RaiseMoves DEF Terminal
<1>3. CASE /\ ReceiptValid(row[Current(c)], worker[c].base)
           /\ worker' = [worker EXCEPT ![c] = [@ EXCEPT !.pc = "checked", !.base = 0]]
  <2> DEFINE j == [worker[c] EXCEPT !.pc = "checked", !.base = 0]
  <2>1. worker[c] \in Job /\ JobOK(c, worker[c]) /\ RowOK(Current(c))
    BY <1>1, BusyJob
  <2>2. "checked" \in WorkerPcs /\ "checked" \in Busy
    BY DEF WorkerPcs, Busy
  <2>3. j \in Job /\ j.pc = "checked" /\ j.task = worker[c].task
    BY <2>1, <2>2 DEF Job
  <2>4. row[Current(c)].approved /\ row[Current(c)].phase = "execute"
    BY <1>3, <2>1 DEF ReceiptValid, RowOK
  <2>5. JobOK(c, j)
    BY <1>1, <2>1, <2>3, <2>4 DEF JobOK, Busy, Current
  <2>6. ws' \in Nat \ {0} /\ worker' = [worker EXCEPT ![c] = j]
        /\ UNCHANGED <<row, scheduled, handler, clock, up, crashes, writes, granted>>
    BY <1>1, <1>3 DEF allButWorker, QueueInv, TypeOK
  <2> HIDE DEF j
  <2> QED BY <1>1, <2>2, <2>3, <2>5, <2>6, BusyMoves
<1> QED BY <1>2, <1>3 DEF CheckReceipt

LEMMA MergeInv ==
  ASSUME QueueInv, NEW c \in Chats, Merge(c)
  PROVE  QueueInv'
<1> DEFINE j == [worker[c] EXCEPT !.pc = "merged"]
<1>1. /\ up /\ worker[c].pc = "write" /\ worker' = [worker EXCEPT ![c] = j]
      /\ UNCHANGED <<row, scheduled, handler, clock, up, crashes, writes, granted>>
      /\ ws' = ws + 1
  BY DEF Merge, At, Goto
<1>2. {"write", "merged"} \subseteq Busy /\ "merged" \in WorkerPcs
  BY DEF Busy, WorkerPcs
<1>3. worker[c] \in Job /\ JobOK(c, worker[c])
  BY <1>1, <1>2, BusyJob
<1>4. j \in Job /\ j.pc = "merged" /\ j.task = worker[c].task
  BY <1>2, <1>3 DEF Job
<1>5. JobOK(c, j)
  BY <1>1, <1>3, <1>4 DEF JobOK, Busy
<1>6. ws' \in Nat \ {0}
  BY <1>1 DEF QueueInv, TypeOK
<1> HIDE DEF j
<1> QED BY <1>1, <1>2, <1>4, <1>5, <1>6, BusyMoves

\* The write phase begins on an approved row that no job has written for: the
\* receipt check saw writes = 0 and only this job holds the task.
LEMMA EnterWriteInv ==
  ASSUME QueueInv, NEW c \in Chats, EnterWrite(c)
  PROVE  QueueInv'
<1> DEFINE t == Current(c)
           j == [worker[c] EXCEPT !.pc = "write"]
<1>1. /\ up /\ worker[c].pc = "checked" /\ worker' = [worker EXCEPT ![c] = j]
      /\ writes' = [writes EXCEPT ![t] = @ + 1] /\ row[t].kind = "swarm"
      /\ UNCHANGED <<row, scheduled, handler, clock, ws, up, crashes, granted>>
  BY DEF EnterWrite, At, Goto
<1>2. {"checked", "write"} \subseteq Busy /\ "write" \in WorkerPcs
  BY DEF Busy, WorkerPcs
<1>3. /\ worker[c] \in Job /\ JobOK(c, worker[c]) /\ worker[c].task = t
      /\ t \in Tasks /\ ~ Absent(t) /\ row[t].chat = c
  BY <1>1, <1>2, BusyJob DEF Current
<1>4. j \in Job /\ j.pc = "write" /\ j.task = t
  BY <1>2, <1>3 DEF Job
<1>5. \A d \in Chats : worker'[d] = IF d = c THEN j ELSE worker[d]
  BY <1>1 DEF QueueInv, TypeOK
<1>6. writes[t] = 0 /\ writes \in [Tasks -> Nat]
  BY <1>1, <1>3 DEF JobOK, QueueInv, TypeOK
<1>7. \A u \in Tasks : writes'[u] = IF u = t THEN 1 ELSE writes[u]
  BY <1>1, <1>6
<1> HIDE DEF j, t
<1>8. TypeOK'
  <2>1. writes' \in [Tasks -> Nat]
    <3>1. writes' = [writes EXCEPT ![t] = 1]
      BY <1>1, <1>3, <1>6
    <3> QED BY <1>6, <3>1
  <2>2. worker' \in [Chats -> Job]
    BY <1>1, <1>4 DEF QueueInv, TypeOK
  <2> QED BY <1>1, <2>1, <2>2 DEF QueueInv, TypeOK
<1>9. Processes'
  BY <1>1, <1>2, <1>4, <1>5, Names DEF QueueInv, Processes
<1>10. Jobs'
  <2> SUFFICES ASSUME NEW d \in Chats PROVE JobOK(d, worker[d])'
    BY DEF Jobs
  <2>1. CASE d = c
    BY <1>1, <1>3, <1>4, <1>5, <2>1 DEF JobOK, Busy, Absent
  <2>2. CASE d # c
    <3>1. worker'[d] = worker[d] /\ JobOK(d, worker[d])
      BY <1>5, <2>2 DEF QueueInv, Jobs
    <3>2. worker[d].pc \in Busy => worker[d].task \in Tasks /\ worker[d].task # t
      BY <1>3, <2>2, <3>1 DEF JobOK
    <3> QED BY <1>1, <1>7, <3>1, <3>2 DEF JobOK, Absent, Busy
  <2> QED BY <2>1, <2>2
<1>11. Rows'
  <2>1. \A u \in Tasks : Granted(u)' = Granted(u)
    BY <1>1 DEF Granted
  <2>2. \A u \in Tasks : RowOK(u)
    BY DEF QueueInv, Rows
  <2>3. row[t].approved /\ row[t].status \in {"running"} \union Terminal
    BY <1>1, <1>2, <1>3 DEF JobOK
  <2>4. \A u \in Tasks : RowOK(u)'
    BY <1>1, <1>3, <1>7, <2>1, <2>2, <2>3 DEF RowOK, Absent
  <2> QED BY <1>1, <2>4 DEF Rows, Absent, QueueInv
<1>12. Commands' /\ NoLostWakeup'
  BY <1>1 DEF QueueInv, Commands, CommandOK, Absent, NoLostWakeup, Eligible
<1>13. RunningIsOwned'
  BY <1>1, <1>2, <1>3, <1>4, <1>5, RowFields DEF QueueInv, RunningIsOwned
<1>14. NoWriteReplay'
  BY <1>7 DEF QueueInv, NoWriteReplay
<1> QED BY <1>8, <1>9, <1>10, <1>11, <1>12, <1>13, <1>14 DEF QueueInv

LEMMA WorkerStepInv ==
  ASSUME QueueInv, NEW c \in Chats, WorkerStep(c)
  PROVE  QueueInv'
BY StartJobInv, PickNextInv, RetireInv, ClaimInv, RunnerRaisesInv, ParkCheckInv, ParkInv,
   CheckReceiptInv, EnterWriteInv, MergeInv, FinishMeetingInv, FinalCheckInv, FinishInv
   DEF WorkerStep

-------------------------------------------------------------------------------
(* Steps of the handler of a chat.                                          *)

LEMMA HandlerMoves ==
  ASSUME QueueInv, up, NEW c \in Chats, NEW h \in Command,
         handler' = [handler EXCEPT ![c] = h], CommandOK(c, h),
         handler[c].pc \notin {"schedule", "receipt"},
         UNCHANGED <<notHandled, row, clock, granted>>
  PROVE  QueueInv'
<1>1. UNCHANGED <<row, scheduled, worker, clock, ws, up, crashes, writes, granted>>
  BY DEF notHandled
<1>2. \A d \in Chats : handler'[d] = IF d = c THEN h ELSE handler[d]
  BY DEF QueueInv, TypeOK
<1>3. TypeOK'
  BY <1>1 DEF QueueInv, TypeOK
<1>4. Processes' /\ Jobs' /\ Rows'
  BY <1>1 DEF QueueInv, Processes, Jobs, JobOK, Rows, RowOK, Granted, Absent
<1>5. Commands'
  BY <1>1, <1>2 DEF QueueInv, Commands, CommandOK, Absent
<1>6. NoLostWakeup'
  BY <1>1, <1>2 DEF QueueInv, NoLostWakeup, Eligible
<1>7. RunningIsOwned' /\ NoWriteReplay'
  BY <1>1 DEF QueueInv, RunningIsOwned, NoWriteReplay
<1> QED BY <1>3, <1>4, <1>5, <1>6, <1>7 DEF QueueInv

\* A command rewrites a row of its chat and ends, or goes on to schedule it.
LEMMA HandlerAndRowMove ==
  ASSUME QueueInv, up, NEW c \in Chats, NEW h \in Command, NEW t \in Tasks, NEW r \in Row,
         ~ Absent(t), row[t].chat = c,
         handler' = [handler EXCEPT ![c] = h],
         row' = [row EXCEPT ![t] = r],
         clock' \in Nat \ {0}, granted' \in {granted, granted \union {t}},
         UNCHANGED notHandled,
         h.pc = "idle" \/ (h.pc = "schedule" /\ h.task = t),
         handler[c].pc \in {"schedule", "receipt"} => h.pc = "schedule",
         r.chat = row[t].chat, r.kind = row[t].kind, r.handoff = row[t].handoff,
         r.origin = row[t].origin, r.status # "absent",
         r.status = "running" => row[t].status = "running",
         r.status = "queued" /\ ~ r.cancel =>
           h.pc = "schedule" \/ t \in Eligible(c),
         worker[c].pc \in Busy /\ worker[c].task = t =>
           /\ r.status \in {"running"} \union Terminal
           /\ r.phase = row[t].phase /\ r.approved = row[t].approved,
         r.status = "waiting_approval" => r.kind \in Collab /\ r.phase = "approval",
         r.approved => r.handoff /\ r.phase = "execute" /\ (row[t].approved \/ t \in granted'),
         writes[t] # 0 => r.approved /\ r.status \in {"running"} \union Terminal
  PROVE  QueueInv'
<1>1. UNCHANGED <<scheduled, worker, ws, up, crashes, writes>>
  BY DEF notHandled
<1>2. \A d \in Chats : handler'[d] = IF d = c THEN h ELSE handler[d]
  BY DEF QueueInv, TypeOK
<1>3. \A u \in Tasks : row'[u] = IF u = t THEN r ELSE row[u]
  BY DEF QueueInv, TypeOK
<1>4. TypeOK'
  BY <1>1 DEF QueueInv, TypeOK
<1>5. Processes'
  BY <1>1 DEF QueueInv, Processes
<1>6. Jobs'
  <2> SUFFICES ASSUME NEW d \in Chats PROVE JobOK(d, worker[d])'
    BY DEF Jobs
  <2>1. JobOK(d, worker[d])
    BY DEF QueueInv, Jobs
  <2>2. CASE worker[d].task = t /\ worker[d].pc \in Busy
    <3>1. d = c
      BY <2>1, <2>2 DEF JobOK
    <3> QED BY <1>1, <1>3, <2>1, <2>2, <3>1 DEF JobOK, Absent, Busy
  <2>3. CASE worker[d].task # t \/ worker[d].pc \notin Busy
    BY <1>1, <1>3, <2>1, <2>3 DEF JobOK, Absent, Busy
  <2> QED BY <2>2, <2>3
<1>7. Commands'
  BY <1>2, <1>3 DEF QueueInv, Commands, CommandOK, Absent
<1>8. Rows'
  <2>1. \A u \in granted' : u \in Tasks /\ ~ Absent(u)'
    BY <1>3 DEF QueueInv, TypeOK, Rows, Absent
  <2>2. \A u \in Tasks : Granted(u) => Granted(u)'
    BY <1>3 DEF Granted, QueueInv, TypeOK
  <2>3. t \in granted' => Granted(t)'
    BY DEF Granted
  <2>4. ASSUME NEW u \in Tasks PROVE RowOK(u)'
    <3>1. RowOK(u)
      BY DEF QueueInv, Rows
    <3>2. CASE u # t
      BY <1>1, <1>3, <2>2, <3>1, <3>2 DEF RowOK, Absent
    <3>3. CASE u = t
      BY <1>1, <1>3, <2>2, <2>3, <3>1, <3>3 DEF RowOK, Absent
    <3> QED BY <3>2, <3>3
  <2> QED BY <2>1, <2>4 DEF Rows
<1>9. NoLostWakeup'
  <2> SUFFICES ASSUME NEW d \in Chats, NEW u \in Eligible(d)'
               PROVE  d \in scheduled' \/ handler'[d].pc \in {"schedule", "receipt"}
    BY DEF NoLostWakeup
  <2>1. u \in Tasks /\ row'[u].chat = d /\ row'[u].status = "queued" /\ ~ row'[u].cancel
    BY DEF Eligible
  <2>2. CASE d = c
    <3>1. h.pc = "schedule" \/ Eligible(c) # {}
      BY <1>3, <2>1, <2>2 DEF Eligible
    <3> QED BY <1>1, <1>2, <2>2, <3>1 DEF QueueInv, NoLostWakeup
  <2>3. CASE d # c
    <3>1. u \in Eligible(d)
      BY <1>3, <2>1, <2>3 DEF Eligible
    <3> QED BY <1>1, <1>2, <2>3, <3>1 DEF QueueInv, NoLostWakeup
  <2> QED BY <2>2, <2>3
<1>10. RunningIsOwned'
  BY <1>1, <1>3 DEF QueueInv, RunningIsOwned
<1>11. NoWriteReplay'
  BY <1>1 DEF QueueInv, NoWriteReplay
<1> QED BY <1>4, <1>5, <1>6, <1>7, <1>8, <1>9, <1>10, <1>11 DEF QueueInv

\* A command creates a row and will schedule it.
LEMMA NewRowMove ==
  ASSUME QueueInv, up, NEW c \in Chats, NEW h \in Command, NEW t \in Tasks, NEW r \in Row,
         Absent(t), handler[c].pc = "idle",
         handler' = [handler EXCEPT ![c] = h],
         row' = [row EXCEPT ![t] = r],
         clock' \in Nat \ {0},
         UNCHANGED <<notHandled, granted>>,
         h.pc \in {"schedule", "receipt"}, h.task = t,
         r.chat = c, r.status = "queued",
         r.approved => /\ r.handoff /\ r.phase = "execute"
                       /\ \E u \in granted : row[u].origin = r.origin
  PROVE  QueueInv'
<1>1. UNCHANGED <<scheduled, worker, ws, up, crashes, writes, granted>>
  BY DEF notHandled
<1>2. \A d \in Chats : handler'[d] = IF d = c THEN h ELSE handler[d]
  BY DEF QueueInv, TypeOK
<1>3. \A u \in Tasks : row'[u] = IF u = t THEN r ELSE row[u]
  BY DEF QueueInv, TypeOK
<1>4. TypeOK'
  BY <1>1 DEF QueueInv, TypeOK
<1>5. Processes'
  BY <1>1 DEF QueueInv, Processes
<1>6. Jobs'
  BY <1>1, <1>3 DEF QueueInv, Jobs, JobOK, Absent, Busy
<1>7. Commands'
  BY <1>2, <1>3 DEF QueueInv, Commands, CommandOK, Absent
<1>8. Rows'
  <2>1. \A u \in granted : u \in Tasks /\ u # t /\ ~ Absent(u)
    BY DEF QueueInv, TypeOK, Rows
  <2>2. \A u \in granted' : ~ Absent(u)'
    BY <1>1, <1>3, <2>1 DEF Absent
  <2>3. ASSUME NEW u \in Tasks PROVE RowOK(u)'
    <3>1. RowOK(u)
      BY DEF QueueInv, Rows
    <3>2. CASE u # t
      <4>1. Granted(u) => Granted(u)'
        BY <1>1, <1>3, <2>1, <3>2 DEF Granted
      <4> QED BY <1>1, <1>3, <3>1, <3>2, <4>1 DEF RowOK, Absent
    <3>3. CASE u = t
      <4>1. r.approved => Granted(t)'
        BY <1>1, <1>3, <2>1 DEF Granted
      <4> QED BY <1>1, <1>3, <3>1, <3>3, <4>1 DEF RowOK, Absent
    <3> QED BY <3>2, <3>3
  <2> QED BY <2>2, <2>3 DEF Rows
<1>9. NoLostWakeup'
  BY <1>1, <1>2, <1>3 DEF QueueInv, NoLostWakeup, Eligible
<1>10. RunningIsOwned'
  BY <1>1, <1>3 DEF QueueInv, RunningIsOwned
<1>11. NoWriteReplay'
  BY <1>1 DEF QueueInv, NoWriteReplay
<1> QED BY <1>4, <1>5, <1>6, <1>7, <1>8, <1>9, <1>10, <1>11 DEF QueueInv

LEMMA ReplyMoves ==
  ASSUME QueueInv, up, NEW c \in Chats, Reply(c), handler[c].pc \notin {"schedule", "receipt"},
         UNCHANGED <<notHandled, row, clock, granted>>
  PROVE  QueueInv'
<1>1. CommandOK(c, IdleHandler) /\ IdleHandler \in Command
  BY IdleTypes DEF CommandOK, IdleHandler
<1> QED BY <1>1, HandlerMoves DEF Reply

\* A record the handler keeps for its next step.
LEMMA CommandAt ==
  ASSUME NEW p \in HandlerPcs, NEW t \in Tasks, NEW b \in Nat
  PROVE  /\ [IdleHandler EXCEPT !.pc = p, !.task = t] \in Command
         /\ [IdleHandler EXCEPT !.pc = p, !.task = t].pc = p
         /\ [IdleHandler EXCEPT !.pc = p, !.task = t].task = t
         /\ [pc |-> p, task |-> t, base |-> b] \in Command
BY DEF IdleHandler, Command

LEMMA ApproveReadInv ==
  ASSUME QueueInv, NEW c \in Chats, ApproveRead(c)
  PROVE  QueueInv'
<1>1. up /\ handler[c].pc = "idle" /\ UNCHANGED <<notHandled, row, clock, granted>>
  BY DEF ApproveRead, Handling
<1>2. PICK t \in InChat(c) \intersect Waiting :
        /\ row[t].handoff
        /\ handler' = [handler EXCEPT ![c] =
             [pc |-> "approve", task |-> t, base |-> Fingerprint]]
  BY DEF ApproveRead
<1> DEFINE h == [pc |-> "approve", task |-> t, base |-> Fingerprint]
<1>3. t \in Tasks /\ row[t].chat = c /\ ~ Absent(t) /\ row[t].status = "waiting_approval"
  BY DEF InChat, Waiting
<1>4. row[t].kind \in Collab
  BY <1>3 DEF QueueInv, Rows, RowOK
<1>5. h \in Command
  BY <1>3, CommandAt DEF HandlerPcs, QueueInv, TypeOK, Fingerprint
<1>6. CommandOK(c, h)
  BY <1>2, <1>3, <1>4 DEF CommandOK
<1> HIDE DEF h
<1> QED BY <1>1, <1>2, <1>5, <1>6, HandlerMoves DEF h

LEMMA CancelReadInv ==
  ASSUME QueueInv, NEW c \in Chats, CancelRead(c)
  PROVE  QueueInv'
<1>1. up /\ handler[c].pc = "idle" /\ UNCHANGED <<notHandled, row, clock, granted>>
  BY DEF CancelRead, Handling
<1>2. PICK t \in InChat(c), p \in {"flag", "cancel"} : HGoto(c, p, t)
  BY DEF CancelRead
<1> DEFINE h == [IdleHandler EXCEPT !.pc = p, !.task = t]
<1>3. t \in Tasks /\ row[t].chat = c /\ ~ Absent(t)
  BY DEF InChat
<1>4. h \in Command /\ h.pc = p /\ h.task = t
  <2>1. p \in HandlerPcs
    BY DEF HandlerPcs
  <2> QED BY <1>3, <2>1, CommandAt
<1>5. handler' = [handler EXCEPT ![c] = h]
  BY <1>2 DEF HGoto
<1> HIDE DEF h
<1>6. CommandOK(c, h)
  BY <1>3, <1>4 DEF CommandOK
<1> QED BY <1>1, <1>4, <1>5, <1>6, HandlerMoves

\* The row a command in progress works on.
LEMMA CommandRow ==
  ASSUME QueueInv, NEW c \in Chats, handler[c].pc # "idle"
  PROVE  LET t == handler[c].task
         IN  /\ t \in Tasks /\ ~ Absent(t) /\ row[t].chat = c /\ row[t] \in Row /\ RowOK(t)
             /\ handler[c].base \in Nat
             /\ worker[c].pc \in Busy /\ worker[c].task = t =>
                  row[t].status \in {"running"} \union Terminal
BY DEF QueueInv, TypeOK, Commands, CommandOK, Rows, Jobs, JobOK, Command

LEMMA ApproveCommitInv ==
  ASSUME QueueInv, NEW c \in Chats, ApproveCommit(c)
  PROVE  QueueInv'
<1> DEFINE t == handler[c].task
           r == [row[t] EXCEPT !.status = "queued", !.phase = "execute", !.approved = TRUE,
                               !.key = clock, !.baseline = handler[c].base]
           h == [IdleHandler EXCEPT !.pc = "schedule", !.task = t]
<1>1. up /\ handler[c].pc = "approve" /\ UNCHANGED notHandled
  BY DEF ApproveCommit, Handling
<1>2. /\ t \in Tasks /\ ~ Absent(t) /\ row[t].chat = c /\ row[t] \in Row /\ RowOK(t)
      /\ handler[c].base \in Nat
      /\ worker[c].pc \in Busy /\ worker[c].task = t =>
           row[t].status \in {"running"} \union Terminal
  BY <1>1, CommandRow
<1>3. CASE /\ row[t].status = "waiting_approval" /\ row' = [row EXCEPT ![t] = r]
           /\ clock' = clock + 1 /\ granted' = granted \union {t} /\ HGoto(c, "schedule", t)
  <2>1. h \in Command /\ h.pc = "schedule" /\ h.task = t
    BY <1>2, CommandAt DEF HandlerPcs
  <2>2. clock \in Nat /\ clock' \in Nat \ {0}
    BY <1>3 DEF QueueInv, TypeOK
  <2>3. "queued" \in Status /\ "execute" \in Phases
    BY DEF Status, Active, Phases
  <2>4. /\ r \in Row /\ r.status = "queued" /\ r.phase = "execute" /\ r.chat = row[t].chat
        /\ r.kind = row[t].kind /\ r.handoff = row[t].handoff /\ r.origin = row[t].origin
    BY <1>2, <2>2, <2>3 DEF Row
  <2>5. row[t].handoff
    BY <1>1 DEF QueueInv, Commands, CommandOK
  <2>6. ~ (worker[c].pc \in Busy /\ worker[c].task = t) /\ writes[t] = 0
    BY <1>2, <1>3 DEF RowOK, Terminal
  <2>7. handler' = [handler EXCEPT ![c] = h] /\ granted' \in {granted, granted \union {t}}
        /\ t \in granted' /\ row' = [row EXCEPT ![t] = r]
    BY <1>3 DEF HGoto
  <2> HIDE DEF h, r, t
  <2> QED BY <1>1, <1>2, <2>1, <2>2, <2>4, <2>5, <2>6, <2>7, HandlerAndRowMove
<1>4. CASE Reply(c) /\ UNCHANGED <<row, clock, granted>>
  BY <1>1, <1>4, ReplyMoves
<1> QED BY <1>3, <1>4 DEF ApproveCommit

LEMMA CancelWriteInv ==
  ASSUME QueueInv, NEW c \in Chats, CancelWrite(c)
  PROVE  QueueInv'
<1> DEFINE t == handler[c].task
<1>1. /\ up /\ handler[c].pc \in {"cancel", "flag"} /\ UNCHANGED <<notHandled, clock, granted>>
      /\ handler' = [handler EXCEPT ![c] = IdleHandler]
  BY DEF CancelWrite, Handling, Reply
<1>2. /\ t \in Tasks /\ ~ Absent(t) /\ row[t].chat = c /\ row[t] \in Row /\ RowOK(t)
      /\ worker[c].pc \in Busy /\ worker[c].task = t =>
           row[t].status \in {"running"} \union Terminal
  BY <1>1, CommandRow
<1>3. PICK s \in {"cancelled", row[t].status} :
        row' = [row EXCEPT ![t] = [row[t] EXCEPT !.status = s, !.cancel = TRUE]]
  <2>1. CASE row' = [row EXCEPT ![t] = [@ EXCEPT !.status = "cancelled", !.cancel = TRUE]]
    BY <2>1
  <2>2. CASE row' = [row EXCEPT ![t] = [@ EXCEPT !.cancel = TRUE]]
    <3>1. [row[t] EXCEPT !.cancel = TRUE] = [row[t] EXCEPT !.status = row[t].status, !.cancel = TRUE]
      BY <1>2 DEF Row
    <3> QED BY <2>2, <3>1
  <2> QED BY <2>1, <2>2 DEF CancelWrite
<1> DEFINE r == [row[t] EXCEPT !.status = s, !.cancel = TRUE]
<1>4. s \in Status /\ (s = "cancelled" => s \in Terminal)
  BY <1>2 DEF Row, Status, Terminal
<1>5. /\ r \in Row /\ r.status = s /\ r.cancel /\ r.phase = row[t].phase
      /\ r.chat = row[t].chat /\ r.kind = row[t].kind /\ r.handoff = row[t].handoff
      /\ r.origin = row[t].origin /\ r.approved = row[t].approved
  BY <1>2, <1>4 DEF Row
<1>6. IdleHandler \in Command /\ IdleHandler.pc = "idle" /\ clock' \in Nat \ {0}
      /\ granted' \in {granted, granted \union {t}} /\ row' = [row EXCEPT ![t] = r]
  BY <1>1, <1>3, IdleTypes DEF IdleHandler, QueueInv, TypeOK
<1> HIDE DEF r, t
<1>7. row[t].approved => row[t].handoff /\ row[t].phase = "execute"
  BY <1>2 DEF RowOK
<1>8. writes[t] # 0 => row[t].approved /\ row[t].status \in {"running"} \union Terminal
  BY <1>2 DEF RowOK
<1>9. row[t].status = "waiting_approval" => row[t].kind \in Collab /\ row[t].phase = "approval"
  BY <1>2 DEF RowOK
<1>10. s # "absent"
  BY <1>2 DEF Absent
<1>11. s = "cancelled" \/ s = row[t].status
  BY <1>3
<1>12. r.status = "running" => row[t].status = "running"
  BY <1>5, <1>11
<1>13. r.status = "waiting_approval" => r.kind \in Collab /\ r.phase = "approval"
  BY <1>5, <1>9, <1>11
<1>14. worker[c].pc \in Busy /\ worker[c].task = t =>
         /\ r.status \in {"running"} \union Terminal
         /\ r.phase = row[t].phase /\ r.approved = row[t].approved
  BY <1>2, <1>4, <1>5, <1>11
<1>15. writes[t] # 0 => r.approved /\ r.status \in {"running"} \union Terminal
  BY <1>4, <1>5, <1>8, <1>11
<1>16. r.approved => r.handoff /\ r.phase = "execute" /\ row[t].approved
  BY <1>5, <1>7
<1>17. ~ (r.status = "queued" /\ ~ r.cancel)
  BY <1>5
<1>18. handler[c].pc \notin {"schedule", "receipt"} /\ r.status # "absent"
  BY <1>1, <1>5, <1>10
<1> QED
  BY <1>1, <1>2, <1>5, <1>6, <1>17, <1>18, <1>12, <1>13, <1>14, <1>15, <1>16, HandlerAndRowMove

LEMMA SubmitInv ==
  ASSUME QueueInv, NEW c \in Chats, Submit(c)
  PROVE  QueueInv'
<1>1. PICK k \in SubmitKinds, t \in Tasks :
        Absent(t) /\ row' = [row EXCEPT ![t] = NewRow(c, k, t)] /\ HGoto(c, "schedule", t)
  BY DEF Submit
<1> DEFINE r == NewRow(c, k, t)
           h == [IdleHandler EXCEPT !.pc = "schedule", !.task = t]
<1>2. /\ up /\ handler[c].pc = "idle" /\ clock' = clock + 1
      /\ UNCHANGED <<notHandled, granted>> /\ handler' = [handler EXCEPT ![c] = h]
  BY <1>1 DEF Submit, Handling, HGoto
<1> clock' \in Nat \ {0}
  BY <1>2 DEF QueueInv, TypeOK
<1>3. h \in Command /\ h.pc = "schedule" /\ h.task = t
  BY CommandAt DEF HandlerPcs
<1>4. r \in Row
  BY QueueAssumption, NewRowType DEF QueueInv
<1>5. r.chat = c /\ r.status = "queued" /\ ~ r.approved
  BY DEF NewRow
<1> HIDE DEF r, h
<1> QED BY <1>1, <1>2, <1>3, <1>4, <1>5, NewRowMove DEF r

LEMMA RetryCreateInv ==
  ASSUME QueueInv, NEW c \in Chats, RetryCreate(c)
  PROVE  QueueInv'
<1>1. /\ up /\ handler[c].pc = "idle" /\ clock' \in Nat \ {0} /\ UNCHANGED <<notHandled, granted>>
  BY DEF RetryCreate, Handling, QueueInv, TypeOK
<1>2. PICK old \in InChat(c), t \in Tasks :
        LET fresh == NewRow(c, row[old].kind, row[old].origin)
        IN  /\ Absent(t)
            /\ \/ /\ ReusesApproval(old)
                  /\ row' = [row EXCEPT ![t] = [fresh EXCEPT !.phase = "execute",
                                                             !.approved = TRUE]]
                  /\ handler' = [handler EXCEPT ![c] =
                       [pc |-> "receipt", task |-> t, base |-> row[old].baseline]]
               \/ /\ row' = [row EXCEPT ![t] = fresh]
                  /\ HGoto(c, "schedule", t)
  BY DEF RetryCreate
<1> DEFINE fresh == NewRow(c, row[old].kind, row[old].origin)
<1>3. old \in Tasks /\ RowOK(old) /\ row[old].baseline \in Nat
  BY RowFields DEF InChat, QueueInv, Rows
<1>4. fresh \in Row
  BY <1>3, RowFields, NewRowType DEF QueueInv
<1>5. /\ fresh.chat = c /\ fresh.status = "queued" /\ ~ fresh.approved
      /\ fresh.handoff /\ fresh.origin = row[old].origin
  BY DEF NewRow
<1>6. CASE /\ ReusesApproval(old)
           /\ row' = [row EXCEPT ![t] = [fresh EXCEPT !.phase = "execute", !.approved = TRUE]]
           /\ handler' = [handler EXCEPT ![c] =
                [pc |-> "receipt", task |-> t, base |-> row[old].baseline]]
  <2> DEFINE r == [fresh EXCEPT !.phase = "execute", !.approved = TRUE]
             h == [pc |-> "receipt", task |-> t, base |-> row[old].baseline]
  <2>1. h \in Command /\ h.pc = "receipt" /\ h.task = t
    BY <1>3, CommandAt DEF HandlerPcs
  <2>2. "execute" \in Phases
    BY DEF Phases
  <2> HIDE DEF fresh
  <2>3. /\ r \in Row /\ r.chat = c /\ r.status = "queued" /\ r.handoff
        /\ r.phase = "execute" /\ r.origin = row[old].origin
    BY <1>4, <1>5, <2>2 DEF Row
  <2>4. \E u \in granted : row[u].origin = r.origin
    BY <1>3, <1>6, <2>3 DEF ReusesApproval, ReceiptValid, RowOK, Granted
  <2>5. row' = [row EXCEPT ![t] = r] /\ handler' = [handler EXCEPT ![c] = h]
    BY <1>6
  <2> HIDE DEF r, h
  <2> QED BY <1>1, <1>2, <2>1, <2>3, <2>4, <2>5, NewRowMove
<1>7. CASE row' = [row EXCEPT ![t] = fresh] /\ HGoto(c, "schedule", t)
  <2> DEFINE h == [IdleHandler EXCEPT !.pc = "schedule", !.task = t]
  <2>1. h \in Command /\ h.pc = "schedule" /\ h.task = t
    BY CommandAt DEF HandlerPcs
  <2>2. handler' = [handler EXCEPT ![c] = h] /\ row' = [row EXCEPT ![t] = fresh]
    BY <1>7 DEF HGoto
  <2> HIDE DEF fresh, h
  <2> QED BY <1>1, <1>2, <1>4, <1>5, <2>1, <2>2, NewRowMove
<1> QED BY <1>2, <1>6, <1>7

LEMMA RetryReceiptInv ==
  ASSUME QueueInv, NEW c \in Chats, RetryReceipt(c)
  PROVE  QueueInv'
<1> DEFINE t == handler[c].task
           r == [row[t] EXCEPT !.baseline = handler[c].base]
           h == [IdleHandler EXCEPT !.pc = "schedule", !.task = t]
<1>1. /\ up /\ handler[c].pc = "receipt" /\ UNCHANGED <<notHandled, clock, granted>>
      /\ handler' = [handler EXCEPT ![c] = h] /\ row' = [row EXCEPT ![t] = r]
  BY DEF RetryReceipt, Handling, HGoto
<1>2. /\ t \in Tasks /\ ~ Absent(t) /\ row[t].chat = c /\ row[t] \in Row /\ RowOK(t)
      /\ handler[c].base \in Nat
      /\ worker[c].pc \in Busy /\ worker[c].task = t =>
           row[t].status \in {"running"} \union Terminal
  BY <1>1, CommandRow
<1>3. h \in Command /\ h.pc = "schedule" /\ h.task = t
  BY <1>2, CommandAt DEF HandlerPcs
<1>4. /\ r \in Row /\ r.status = row[t].status /\ r.phase = row[t].phase
      /\ r.chat = row[t].chat /\ r.kind = row[t].kind /\ r.handoff = row[t].handoff
      /\ r.origin = row[t].origin /\ r.approved = row[t].approved
  BY <1>2 DEF Row
<1>5. clock' \in Nat \ {0} /\ granted' \in {granted, granted \union {t}}
  BY <1>1 DEF QueueInv, TypeOK
<1> HIDE DEF r, h, t
<1>6. /\ r.approved => r.handoff /\ r.phase = "execute" /\ row[t].approved
      /\ r.status = "waiting_approval" => r.kind \in Collab /\ r.phase = "approval"
      /\ writes[t] # 0 => r.approved /\ r.status \in {"running"} \union Terminal
      /\ r.status # "absent"
  BY <1>2, <1>4 DEF RowOK, Absent
<1>7. worker[c].pc \in Busy /\ worker[c].task = t =>
        /\ r.status \in {"running"} \union Terminal
        /\ r.phase = row[t].phase /\ r.approved = row[t].approved
  BY <1>2, <1>4
<1>8. /\ ~ Absent(t) /\ row[t].chat = c /\ t \in Tasks
      /\ r.status = "running" => row[t].status = "running"
  BY <1>2, <1>4
<1>9. UNCHANGED notHandled
  BY <1>1
<1> QED BY <1>1, <1>3, <1>4, <1>5, <1>6, <1>7, <1>8, <1>9, HandlerAndRowMove

LEMMA ScheduleInv ==
  ASSUME QueueInv, NEW c \in Chats, Schedule(c)
  PROVE  QueueInv'
<1> DEFINE j == [IdleWorker EXCEPT !.pc = "pool"]
<1>1. /\ up /\ handler' = [handler EXCEPT ![c] = IdleHandler]
      /\ UNCHANGED <<row, clock, ws, up, crashes, writes, granted>>
      /\ scheduled' = scheduled \union {c}
  BY DEF Schedule, Handling, Reply
<1>2. /\ IdleHandler \in Command /\ IdleHandler.pc = "idle"
      /\ j \in Job /\ j.pc = "pool"
  BY IdleTypes DEF IdleHandler, IdleWorker, Job, WorkerPcs, Terminal
<1>3. \/ worker' = worker /\ c \in scheduled
      \/ c \notin scheduled /\ worker' = [worker EXCEPT ![c] = j]
  BY DEF Schedule
<1> HIDE DEF j
<1>4. \A d \in Chats : handler'[d] = IF d = c THEN IdleHandler ELSE handler[d]
  BY <1>1 DEF QueueInv, TypeOK
<1>5. \A d \in Chats : \/ worker'[d] = worker[d]
                       \/ d = c /\ worker[d].pc = "idle" /\ worker'[d] = j
  BY <1>3 DEF QueueInv, TypeOK, Processes
<1>6. TypeOK'
  <2>1. worker' \in [Chats -> Job] /\ handler' \in [Chats -> Command]
    BY <1>1, <1>2, <1>3 DEF QueueInv, TypeOK
  <2> QED BY <1>1, <2>1 DEF QueueInv, TypeOK
<1>7. Processes'
  BY <1>1, <1>2, <1>3 DEF QueueInv, Processes, TypeOK
<1>8. Jobs'
  BY <1>1, <1>2, <1>5, Names DEF QueueInv, Jobs, JobOK, Absent
<1>9. Commands'
  BY <1>1, <1>2, <1>4 DEF QueueInv, Commands, CommandOK, Absent
<1>10. Rows' /\ NoWriteReplay'
  BY <1>1 DEF QueueInv, Rows, RowOK, Granted, Absent, NoWriteReplay
<1>11. NoLostWakeup'
  BY <1>1, <1>4 DEF QueueInv, NoLostWakeup, Eligible
<1>12. RunningIsOwned'
  BY <1>1, <1>5, RowFields, Names DEF QueueInv, RunningIsOwned
<1> QED BY <1>6, <1>7, <1>8, <1>9, <1>10, <1>11, <1>12 DEF QueueInv

\* Expiry closes waiting rows only, and only their status changes.
LEMMA ExpiredRow ==
  ASSUME QueueInv, NEW E \in SUBSET Waiting, NEW t \in Tasks
  PROVE  /\ Expired(E)[t] \in Row
         /\ \/ Expired(E)[t] = row[t]
            \/ row[t].status = "waiting_approval" /\ Expired(E)[t].status = "cancelled"
         /\ Expired(E)[t].chat = row[t].chat /\ Expired(E)[t].kind = row[t].kind
         /\ Expired(E)[t].handoff = row[t].handoff /\ Expired(E)[t].origin = row[t].origin
         /\ Expired(E)[t].approved = row[t].approved /\ Expired(E)[t].phase = row[t].phase
<1>1. row[t] \in Row
  BY DEF QueueInv, TypeOK
<1>2. t \in E => row[t].status = "waiting_approval"
  BY DEF Waiting
<1>3. "cancelled" \in Status
  BY DEF Status, Terminal
<1>4. Expired(E)[t] = IF t \in E THEN [row[t] EXCEPT !.status = "cancelled"] ELSE row[t]
  BY DEF Expired
<1>5. [row[t] EXCEPT !.status = "cancelled"].status = "cancelled"
  BY <1>1, <1>3, StatusRow
<1> QED BY <1>1, <1>2, <1>3, <1>4, <1>5, StatusRow

LEMMA ExpireInv ==
  ASSUME QueueInv, NEW c \in Chats, Expire(c)
  PROVE  QueueInv'
<1>1. PICK E \in SUBSET Waiting : row' = Expired(E)
  BY DEF Expire
<1>2. up /\ UNCHANGED <<scheduled, worker, handler, clock, ws, up, crashes, writes, granted>>
  BY DEF Expire, Handling, notHandled
<1>3. \A t \in Tasks :
        /\ row'[t] \in Row
        /\ \/ row'[t] = row[t]
           \/ row[t].status = "waiting_approval" /\ row'[t].status = "cancelled"
        /\ row'[t].chat = row[t].chat /\ row'[t].kind = row[t].kind
        /\ row'[t].handoff = row[t].handoff /\ row'[t].origin = row[t].origin
        /\ row'[t].approved = row[t].approved /\ row'[t].phase = row[t].phase
  BY <1>1, ExpiredRow
<1>4. TypeOK'
  <2>1. row' \in [Tasks -> Row]
    BY <1>1, <1>3 DEF Expired
  <2> QED BY <1>2, <2>1 DEF QueueInv, TypeOK
<1>5. Processes' /\ NoWriteReplay'
  BY <1>2 DEF QueueInv, Processes, NoWriteReplay
<1>6. Jobs'
  BY <1>2, <1>3 DEF QueueInv, Jobs, JobOK, Absent, Busy, Terminal
<1>7. Commands'
  BY <1>2, <1>3 DEF QueueInv, Commands, CommandOK, Absent
<1>8. Rows'
  <2>1. \A u \in Tasks : Granted(u) => Granted(u)'
    BY <1>2, <1>3 DEF Granted, QueueInv, TypeOK
  <2>2. \A u \in Tasks : ~ Absent(u) => ~ Absent(u)'
    BY <1>3 DEF Absent
  <2>3. ASSUME NEW u \in Tasks PROVE RowOK(u)'
    <3>1. RowOK(u) /\ "cancelled" \in Terminal
      BY DEF QueueInv, Rows, Terminal
    <3> QED BY <1>2, <1>3, <2>1, <2>2, <3>1 DEF RowOK
  <2> QED BY <1>2, <2>2, <2>3 DEF Rows, QueueInv, TypeOK
<1>9. NoLostWakeup'
  BY <1>2, <1>3 DEF QueueInv, NoLostWakeup, Eligible
<1>10. RunningIsOwned'
  BY <1>2, <1>3 DEF QueueInv, RunningIsOwned
<1> QED BY <1>4, <1>5, <1>6, <1>7, <1>8, <1>9, <1>10 DEF QueueInv

LEMMA HandlerStepInv ==
  ASSUME QueueInv, NEW c \in Chats, HandlerStep(c) \/ Message(c)
  PROVE  QueueInv'
BY ScheduleInv, ApproveCommitInv, CancelWriteInv, RetryReceiptInv, ExpireInv, SubmitInv,
   ApproveReadInv, CancelReadInv, RetryCreateInv
   DEF HandlerStep, Message

-------------------------------------------------------------------------------
(* Process exit and start.                                                  *)

LEMMA CrashInv ==
  ASSUME QueueInv, Crash
  PROVE  QueueInv'
<1>1. /\ ~ up' /\ crashes' = crashes + 1 /\ scheduled' = {}
      /\ worker' = [c \in Chats |-> IdleWorker] /\ handler' = [c \in Chats |-> IdleHandler]
      /\ UNCHANGED <<row, clock, ws, writes, granted>> /\ up' \in BOOLEAN
  BY DEF Crash
<1>2. IdleWorker.pc = "idle" /\ IdleHandler.pc = "idle"
  BY DEF IdleWorker, IdleHandler
<1>3. TypeOK'
  <2>1. crashes' \in Nat
    BY <1>1 DEF QueueInv, TypeOK
  <2>2. worker' \in [Chats -> Job] /\ handler' \in [Chats -> Command]
    BY <1>1, IdleTypes
  <2> QED BY <1>1, <2>1, <2>2 DEF QueueInv, TypeOK
<1>4. Processes' /\ NoLostWakeup' /\ RunningIsOwned'
  BY <1>1, <1>2 DEF Processes, NoLostWakeup, RunningIsOwned
<1>5. Jobs'
  BY <1>1, <1>2 DEF Jobs, JobOK, Busy
<1>6. Commands'
  BY <1>1, <1>2 DEF Commands, CommandOK
<1>7. Rows' /\ NoWriteReplay'
  BY <1>1 DEF QueueInv, Rows, RowOK, Granted, Absent, NoWriteReplay
<1> QED BY <1>3, <1>4, <1>5, <1>6, <1>7 DEF QueueInv

\* What recover makes of a row: nothing keeps running, a code write that was
\* interrupted is closed, and only the status changes.
LEMMA RecoveredRow ==
  ASSUME NEW r \in Row
  PROVE  /\ Recovered(r) \in Row
         /\ Recovered(r).status # "running"
         /\ Recovered(r).status = "absent" <=> r.status = "absent"
         /\ Recovered(r).status = "waiting_approval" <=> r.status = "waiting_approval"
         /\ r.status \in {"running"} \union Terminal /\ r.kind = "swarm" /\ r.phase = "execute"
              => Recovered(r).status \in Terminal
         /\ Recovered(r).chat = r.chat /\ Recovered(r).kind = r.kind
         /\ Recovered(r).handoff = r.handoff /\ Recovered(r).origin = r.origin
         /\ Recovered(r).approved = r.approved /\ Recovered(r).phase = r.phase
<1>1. {"blocked", "queued", "cancelled"} \subseteq Status /\ {"blocked", "cancelled"} \subseteq Terminal
  BY DEF Status, Active, Terminal
<1>2. CASE Recovered(r) = r /\ r.status # "running"
  BY <1>2
<1>3. CASE \E s \in {"blocked", "queued", "cancelled"} :
             /\ Recovered(r) = [r EXCEPT !.status = s]
             /\ r.status \in {"running", "queued"}
             /\ s = "queued" => ~ (r.kind = "swarm" /\ r.phase = "execute")
  <2>1. PICK s \in {"blocked", "queued", "cancelled"} :
             /\ Recovered(r) = [r EXCEPT !.status = s]
             /\ r.status \in {"running", "queued"}
             /\ s = "queued" => ~ (r.kind = "swarm" /\ r.phase = "execute")
    BY <1>3
  <2>2. s \in Status /\ (s # "queued" => s \in Terminal)
    BY <1>1
  <2> QED BY <2>1, <2>2, StatusRow
<1> QED BY <1>2, <1>3 DEF Recovered

LEMMA StartInv ==
  ASSUME QueueInv, Start
  PROVE  QueueInv'
<1>1. PICK E \in SUBSET Waiting : row' = [t \in Tasks |-> Recovered(Expired(E)[t])]
  BY DEF Start
<1>2. /\ ~ up /\ up' /\ up' \in BOOLEAN
      /\ scheduled' = {c \in Chats : \E t \in Tasks : row'[t].chat = c /\ row'[t].status = "queued"}
      /\ worker' = [c \in Chats |-> IF c \in scheduled' THEN [IdleWorker EXCEPT !.pc = "pool"]
                                    ELSE IdleWorker]
      /\ UNCHANGED <<handler, clock, ws, crashes, writes, granted>>
  BY DEF Start
<1>3. /\ IdleWorker \in Job /\ IdleWorker.pc = "idle"
      /\ [IdleWorker EXCEPT !.pc = "pool"] \in Job /\ [IdleWorker EXCEPT !.pc = "pool"].pc = "pool"
      /\ IdleHandler.pc = "idle"
  BY IdleTypes DEF IdleWorker, IdleHandler, Job, WorkerPcs, Terminal
<1>4. ASSUME NEW t \in Tasks
      PROVE  /\ row'[t] \in Row /\ row'[t].status # "running"
             /\ row'[t].status = "absent" <=> row[t].status = "absent"
             /\ row'[t].status = "waiting_approval" => row[t].status = "waiting_approval"
             /\ row[t].status \in {"running"} \union Terminal /\ row[t].kind = "swarm"
                  /\ row[t].phase = "execute" => row'[t].status \in Terminal
             /\ row'[t].chat = row[t].chat /\ row'[t].kind = row[t].kind
             /\ row'[t].handoff = row[t].handoff /\ row'[t].origin = row[t].origin
             /\ row'[t].approved = row[t].approved /\ row'[t].phase = row[t].phase
  <2> DEFINE x == Expired(E)[t]
  <2>1. /\ x \in Row /\ (x = row[t] \/ (row[t].status = "waiting_approval" /\ x.status = "cancelled"))
        /\ x.chat = row[t].chat /\ x.kind = row[t].kind /\ x.handoff = row[t].handoff
        /\ x.origin = row[t].origin /\ x.approved = row[t].approved /\ x.phase = row[t].phase
    BY ExpiredRow
  <2>2. row'[t] = Recovered(x)
    BY <1>1
  <2>3. "waiting_approval" \notin {"running"} \union Terminal
    BY DEF Terminal
  <2> HIDE DEF x
  <2> QED BY <2>1, <2>2, <2>3, RecoveredRow
<1>5. TypeOK'
  <2>1. row' \in [Tasks -> Row]
    BY <1>1, <1>4
  <2>2. worker' \in [Chats -> Job]
    BY <1>2, <1>3
  <2> QED BY <1>2, <2>1, <2>2 DEF QueueInv, TypeOK
<1>6. Processes'
  BY <1>2, <1>3 DEF Processes
<1>7. Jobs'
  BY <1>2, <1>3, Names DEF Jobs, JobOK, Busy
<1>8. Commands'
  BY <1>2, <1>3 DEF QueueInv, Processes, Commands, CommandOK
<1>9. Rows'
  <2>1. \A u \in Tasks : Granted(u) => Granted(u)'
    BY <1>2, <1>4 DEF Granted, QueueInv, TypeOK
  <2>2. \A u \in Tasks : ~ Absent(u) => ~ Absent(u)'
    BY <1>4 DEF Absent
  <2>3. ASSUME NEW u \in Tasks PROVE RowOK(u)'
    <3>1. RowOK(u)
      BY DEF QueueInv, Rows
    <3> QED BY <1>2, <1>4, <2>1, <2>2, <3>1 DEF RowOK
  <2> QED BY <1>2, <2>2, <2>3 DEF Rows, QueueInv, TypeOK
<1>10. NoLostWakeup'
  BY <1>2 DEF NoLostWakeup, Eligible
<1>11. RunningIsOwned'
  BY <1>4 DEF RunningIsOwned
<1>12. NoWriteReplay'
  BY <1>2 DEF QueueInv, NoWriteReplay
<1> QED BY <1>5, <1>6, <1>7, <1>8, <1>9, <1>10, <1>11, <1>12 DEF QueueInv

-------------------------------------------------------------------------------
(* The theorems.                                                            *)

LEMMA InitInv == Init => QueueInv
<1> SUFFICES ASSUME Init PROVE QueueInv
  OBVIOUS
<1>1. PICK c \in Chats, s \in {"queued", "waiting_approval", "failed"} :
        row = [t \in Tasks |-> LegacyRow(c, IF t \in Legacy THEN s ELSE "absent", t)]
  BY DEF Init
<1>2. /\ scheduled = {} /\ worker = [d \in Chats |-> IdleWorker]
      /\ handler = [d \in Chats |-> IdleHandler] /\ clock = 1 /\ ws = 1
      /\ up = FALSE /\ crashes = 0 /\ writes = [t \in Tasks |-> 0] /\ granted = {}
  BY DEF Init
<1>3. \A t \in Tasks : /\ row[t] \in Row /\ ~ row[t].approved
                       /\ row[t].status = "waiting_approval" =>
                            row[t].kind \in Collab /\ row[t].phase = "approval"
  BY <1>1 DEF LegacyRow, Row, Status, Active, Terminal, Kinds, Phases, Collab
<1>4. TypeOK
  <2>1. row \in [Tasks -> Row]
    BY <1>1, <1>3
  <2>2. worker \in [Chats -> Job] /\ handler \in [Chats -> Command]
    BY <1>2, IdleTypes
  <2>3. writes \in [Tasks -> Nat]
    BY <1>2
  <2>4. clock \in Nat \ {0} /\ ws \in Nat \ {0} /\ crashes \in Nat
    BY <1>2
  <2>5. up \in BOOLEAN /\ scheduled \in SUBSET Chats /\ granted \in SUBSET Tasks
    BY <1>2
  <2> QED BY <2>1, <2>2, <2>3, <2>4, <2>5 DEF TypeOK
<1>5. IdleWorker.pc = "idle" /\ IdleHandler.pc = "idle"
  BY DEF IdleWorker, IdleHandler
<1>6. Processes /\ Jobs /\ Commands
  BY <1>2, <1>5 DEF Processes, Jobs, JobOK, Commands, CommandOK, Busy
<1>7. Rows /\ NoLostWakeup /\ RunningIsOwned /\ NoWriteReplay
  BY <1>2, <1>3 DEF Rows, RowOK, NoLostWakeup, RunningIsOwned, NoWriteReplay
<1> QED BY <1>4, <1>6, <1>7 DEF QueueInv

LEMMA NextInv == QueueInv /\ [Next]_vars => QueueInv'
<1> SUFFICES ASSUME QueueInv, [Next]_vars PROVE QueueInv'
  OBVIOUS
<1>1. CASE Next
  BY <1>1, WorkerStepInv, HandlerStepInv, CrashInv, StartInv DEF Next
<1>2. CASE UNCHANGED vars
  BY <1>2 DEF vars, QueueInv, TypeOK, Processes, Jobs, JobOK, Commands, CommandOK, Rows, RowOK,
     Granted, Absent, NoLostWakeup, Eligible, RunningIsOwned, NoWriteReplay
<1> QED BY <1>1, <1>2

\* QueueInv holds in every state of the queue: it is inductive.
THEOREM QueueInvariant == Spec => []QueueInv
BY InitInv, NextInv, PTL DEF Spec

\* The variables keep their types.
THEOREM TypeCorrect == Spec => []TypeOK
BY QueueInvariant, PTL DEF QueueInv

\* No wakeup is lost between next_queued, the retirement of a job and
\* _schedule_chat.
THEOREM NoWakeupIsLost == Spec => []NoLostWakeup
BY QueueInvariant, PTL DEF QueueInv

\* A row is 'running' only while its chat's job runs it.
THEOREM RunningHasOwner == Spec => []RunningIsOwned
BY QueueInvariant, PTL DEF QueueInv

\* No task enters its write phase twice, whatever crashes and races happen.
THEOREM WritesAreNotReplayed == Spec => []NoWriteReplay
BY QueueInvariant, PTL DEF QueueInv

\* Whoever passed the receipt check has the meeting's confirmation and the
\* owner's approval.
THEOREM WritesAreGranted == Spec => []WriteIsGranted
<1>1. QueueInv => WriteIsGranted
  <2> SUFFICES ASSUME QueueInv, NEW c \in Chats, worker[c].pc \in {"checked", "write", "merged"}
               PROVE  row[Current(c)].handoff /\ Granted(Current(c))
    BY DEF WriteIsGranted
  <2>1. worker[c].pc \in Busy
    BY DEF Busy
  <2>2. RowOK(Current(c)) /\ JobOK(c, worker[c])
    BY <2>1, BusyJob
  <2> QED BY <2>2 DEF RowOK, JobOK, Current
<1> QED BY <1>1, QueueInvariant, PTL
===============================================================================
