--------------------------- MODULE CollaborationProofs --------------------------
(* Theorems about Collaboration, for any workflows, tasks, modes and number   *)
(* of exits.                                                                  *)
EXTENDS Collaboration, FiniteSetTheorems, SequenceTheorems, TLAPS

-------------------------------------------------------------------------------
(* The inductive invariant.                                                   *)

\* Where the job goes on when a transition it is in the middle of is done.
Place == IF worker.pc \in {"trans", "commit"} THEN worker.after ELSE worker.pc

Approved == {"work", "send", "verified", "deliver"}
Reopens  == {"resume", "reopen", "resumed"}
Started  == {"plan", "park", "receipt"} \union Reopens \union Approved
Held     == {"meet", "ledger", "minutes"}
Afters   == {"idle", "minutes", "plan", "park", "work", "verified", "deliver", "return"}
Pcs      == Held \union Started \union
            {"idle", "claimed", "start", "return", "trans", "commit", "sync", "syncwrite", "finish"}
Awaiting == {"awaiting_boss_decision", "awaiting_collaboration_confirmation"}
Asked    == {"cancelled", "awaiting_collaboration_confirmation", "meeting_continuation", "planning"}

Job == [pc : Pcs, task : Tasks \union {NoTask}, to : States, after : Afters,
        out : Closed \ {"succeeded"}, stale : BOOLEAN]

Letter == [pc : {"idle", "create", "submit", "bind", "record", "handoff", "trans", "commit"},
           wf : Workflows \union {NoWorkflow}, to : Asked, after : {"idle", "create", "submit"},
           task : Tasks \union {NoTask}, meeting : Tasks \union {NoTask}]

Shape ==
  /\ wf \in [Workflows -> [state : States \union {"absent"}, task : Tasks \union {NoTask}]]
  /\ rank \in [Workflows -> 0 .. Cardinality(Workflows)]
  /\ task \in [Tasks -> Row]
  /\ worker \in Job
  /\ handler \in Letter
  /\ up \in BOOLEAN /\ crashes \in 0 .. MaxCrashes
  /\ decided \subseteq Workflows /\ forgotten \subseteq Workflows
  /\ confirmed \subseteq Workflows /\ overtaken \subseteq Workflows

Queued(t) == task[t].status = "queued"

\* The queue holds the queued rows, each once.
QueueOK ==
  /\ queue \in Seq(Tasks)
  /\ \A i \in 1 .. Len(queue) : Queued(queue[i])
  /\ \A t \in Tasks : Queued(t) => \E i \in 1 .. Len(queue) : queue[i] = t
  /\ \A i, j \in 1 .. Len(queue) : queue[i] = queue[j] => i = j

\* A task of a workflow, with what a hand-off has seen.
Belongs(t, w) == ~ Absent(t) /\ task[t].wf = w

RowOK(t) ==
  /\ Absent(t) => task[t] = NoRow(t)
  /\ ~ Absent(t) => task[t].wf \in Workflows /\ wf[task[t].wf].state # "absent"
  /\ task[t].cont => task[t].wf \in decided
  /\ task[t].status \in {"queued", "waiting_approval"} => ~ task[t].cancel
  /\ task[t].kind # "roundtable" =>
       /\ task[t].meeting \in Tasks
       /\ Belongs(task[t].meeting, task[t].wf) /\ task[task[t].meeting].kind = "roundtable"
       /\ task[t].wf \in decided \intersect confirmed
  /\ task[t].approved => \E u \in Tasks : task[u].agreed /\ task[u].origin = task[t].origin

\* A meeting that has ended well, and that its job has left.
Settled(m) == task[m].status = "succeeded" /\ worker.task # m

Cleared(t) ==
  /\ task[t].kind # "roundtable"
  /\ Settled(task[t].meeting)
  /\ \E u \in Tasks : task[u].agreed /\ task[u].origin = task[t].origin

WroteOK(t) ==
  /\ task[t].wrote \/ task[t].sent => Cleared(t)
  /\ task[t].wrote =>
       /\ task[t].kind = "code" /\ task[t].phase = "execute"
       /\ task[t].status \in {"running"} \union Closed
       /\ up /\ task[t].status = "running" =>
            Place \in {"verified", "return", "sync", "syncwrite", "finish"}

WfOK(w) ==
  /\ wf[w].task # NoTask => Belongs(wf[w].task, w)
  /\ wf[w].state = "awaiting_collaboration_confirmation" => w \in decided

\* One task runs: the job's, or the one an exit has interrupted.
RunningOK ==
  /\ up => \A t \in Tasks : task[t].status = "running" => worker.task = t
  /\ ~ up => worker = NoJob /\ handler = NoMessage
  /\ \A t, u \in Tasks : task[t].status = "running" /\ task[u].status = "running" => t = u

JobOK ==
  /\ worker.pc = "idle" => worker = NoJob
  /\ worker.pc # "idle" =>
       /\ worker.task \in Tasks
       /\ IF worker.pc = "return" /\ task[T].kind = "roundtable"
          THEN task[T].status = "succeeded" ELSE task[T].status = "running"
  /\ Place \in Held => task[T].kind = "roundtable"
  /\ Place \in {"start"} \union Started => task[T].kind # "roundtable"
  /\ Place \in Started => Settled(task[T].meeting)
  /\ Place \in Approved \union {"receipt"} => task[T].phase = "execute"
  /\ Place \in Approved => task[T].approved
  /\ Place \in {"send", "deliver"} => task[T].kind = "report"
  /\ worker.pc \in Reopens => task[T].retry
  /\ worker.pc \in {"trans", "commit"} =>
       /\ worker.after # "idle"
       /\ worker.to \in Awaiting => worker.after = "minutes"
       /\ worker.to = "awaiting_collaboration_confirmation" => W \in decided
       /\ worker.after = "return" => worker.to = "completed" /\ task[T].kind = "code"
  /\ worker.pc \in {"sync", "syncwrite"} => worker.to \in {"cancelled", "failed"}

\* A successful code change has completed its workflow.
ReturnOK ==
  worker.pc = "return" /\ task[T].kind = "code" =>
    wf[W].state = "completed" \/ W \in overtaken

MessageOK ==
  LET w == handler.wf
      m == handler.meeting
      t == handler.task
  IN  /\ handler.pc = "idle" => handler = NoMessage
      /\ handler.pc \notin {"idle", "create"} => w \in Workflows /\ wf[w].state # "absent"
      /\ t # NoTask => Belongs(t, w)
      /\ m # NoTask => Belongs(m, w) /\ task[m].kind = "roundtable"
      /\ m # NoTask /\ handler.pc # "record" => w \in decided
      /\ handler.pc \in {"record", "handoff"} => m # NoTask
      /\ handler.pc = "bind" => t # NoTask
      /\ handler.pc = "create" => t = NoTask /\ m = NoTask
      /\ handler.pc \in {"trans", "commit"} =>
           /\ handler.after = "create" => t = NoTask /\ m = NoTask
           /\ handler.to = "awaiting_collaboration_confirmation" => m # NoTask
           /\ handler.after = "submit" => m # NoTask /\ handler.to = "meeting_continuation"

\* A meeting of w that is still to be held or being held.
LiveMeeting(t, w) ==
  t \in Tasks /\ task[t].wf = w /\ task[t].kind = "roundtable" /\ task[t].status \in Live

Retried(w) == \E t \in Tasks : task[t].wf = w /\ task[t].retry

\* Meetings of one workflow follow each other: the owner decides between them.
InTurn(w) ==
  /\ \A t, u \in Tasks : LiveMeeting(t, w) /\ LiveMeeting(u, w) => t = u
  /\ wf[w].state \in Awaiting /\ Concluded(w) => \A t \in Tasks : ~ LiveMeeting(t, w)
  /\ handler.wf = w /\ handler.meeting # NoTask
     /\ handler.pc \in {"record", "handoff", "trans", "commit"} =>
       \A t \in Tasks : ~ LiveMeeting(t, w)
  /\ handler.wf = w /\ handler.pc = "submit" =>
       wf[w].state \notin Awaiting /\ \A t \in Tasks : ~ LiveMeeting(t, w)
  /\ handler.wf = w /\ handler.pc = "bind" =>
       \A t \in Tasks : LiveMeeting(t, w) => t = handler.task

TurnInv ==
  /\ \A w \in Workflows : Retried(w) \/ InTurn(w)
  /\ worker.stale => Retried(W)
  /\ \A w \in forgotten : Retried(w)

CoreInv ==
  /\ Shape
  /\ QueueOK
  /\ \A t \in Tasks : RowOK(t)
  /\ \A w \in Workflows : WfOK(w)
  /\ RunningOK
  /\ JobOK
  /\ MessageOK

WroteInv == \A t \in Tasks : WroteOK(t)

-------------------------------------------------------------------------------
(* What every step leaves as it was.                                          *)

\* A later version of a row that exists.
Later(q, r) ==
  /\ q.status # "absent" /\ q.wf = r.wf /\ q.kind = r.kind /\ q.meeting = r.meeting
  /\ q.retry = r.retry /\ q.cont = r.cont /\ q.origin = r.origin
  /\ r.agreed => q.agreed

Grows ==
  /\ \A t \in Tasks : ~ Absent(t) => Later(task'[t], task[t])
  /\ \A w \in Workflows : wf[w].state # "absent" => wf'[w].state # "absent"
  /\ decided \subseteq decided' /\ confirmed \subseteq confirmed'

LEMMA BelongsStays ==
  ASSUME Grows, NEW t \in Tasks, NEW w, Belongs(t, w)
  PROVE  Belongs(t, w)' /\ task'[t].kind = task[t].kind
BY DEF Grows, Belongs, Absent, Later

\* Rows keep what RowOK says unless they gain an approval.
LEMMA RowStays ==
  ASSUME Shape, Grows, \A u \in Tasks : RowOK(u), NEW t \in Tasks,
         \/ task'[t] = task[t]
         \/ /\ ~ Absent(t)
            /\ task'[t].approved => task[t].approved
            /\ task'[t].status \in {"queued", "waiting_approval"} => ~ task'[t].cancel
  PROVE  RowOK(t)'
<1>1. CASE Absent(t)
  <2>1. task'[t] = NoRow(t) /\ task[t] = NoRow(t)
    <3>1. RowOK(t)
      OBVIOUS
    <3> QED BY <1>1, <3>1 DEF RowOK
  <2>2. NoRow(t).status = "absent" /\ NoRow(t).kind = "roundtable" /\ NoRow(t).cont = FALSE
        /\ NoRow(t).approved = FALSE
    BY DEF NoRow, NewRow
  <2>3. NoRow(t)' = NoRow(t)
    BY DEF NoRow, NewRow
  <2> QED BY <2>1, <2>2, <2>3 DEF RowOK, Absent
<1>2. CASE ~ Absent(t)
  <2>1. Later(task'[t], task[t]) /\ RowOK(t)
    BY <1>2 DEF Grows
  <2>2. task'[t].approved => \E u \in Tasks : task'[u].agreed /\ task'[u].origin = task'[t].origin
    <3> SUFFICES ASSUME task'[t].approved
                 PROVE  \E u \in Tasks : task'[u].agreed /\ task'[u].origin = task'[t].origin
      OBVIOUS
    <3>0. task[t].approved
      OBVIOUS
    <3>1. PICK u \in Tasks : task[u].agreed /\ task[u].origin = task[t].origin
      BY <2>1, <3>0 DEF RowOK
    <3>2. ~ Absent(u)
      <4>1. Absent(u) => task[u] = NoRow(u)
        BY DEF RowOK
      <4>2. NoRow(u).agreed = FALSE
        BY DEF NoRow, NewRow
      <4> QED BY <3>1, <4>1, <4>2
    <3> QED BY <2>1, <3>1, <3>2 DEF Grows, Later
  <2>3. task'[t].kind # "roundtable" =>
          /\ task'[t].meeting \in Tasks
          /\ Belongs(task[t].meeting, task[t].wf)' /\ task'[task[t].meeting].kind = "roundtable"
          /\ task'[t].wf \in decided' \intersect confirmed'
    BY <2>1, BelongsStays DEF RowOK, Later, Grows
  <2>4. task'[t].status # "absent" /\ task'[t].wf \in Workflows
        /\ wf'[task'[t].wf].state # "absent"
    BY <1>2, <2>1 DEF RowOK, Later, Grows
  <2> QED BY <2>1, <2>2, <2>3, <2>4 DEF RowOK, Later, Grows, Absent, Belongs
<1> QED BY <1>1, <1>2

LEMMA WfStays ==
  ASSUME Shape, Grows, NEW w \in Workflows, WfOK(w), wf'[w] = wf[w]
  PROVE  WfOK(w)'
<1>1. wf[w].task \in Tasks \union {NoTask}
  BY DEF Shape
<1> QED BY <1>1, BelongsStays DEF WfOK, Grows

LEMMA MessageStays ==
  ASSUME Shape, Grows, MessageOK, UNCHANGED handler
  PROVE  MessageOK'
<1>1. handler.task \in Tasks \union {NoTask} /\ handler.meeting \in Tasks \union {NoTask}
  BY DEF Shape, Letter
<1> QED BY <1>1, BelongsStays DEF MessageOK, Grows

\* A row's new version.
LEMMA RowMoves ==
  ASSUME Shape, NEW t \in Tasks, NEW q \in Row, task' = [task EXCEPT ![t] = q],
         ~ Absent(t) => Later(q, task[t]), UNCHANGED wf,
         decided \subseteq decided', confirmed \subseteq confirmed'
  PROVE  /\ task' \in [Tasks -> Row] /\ task'[t] = q
         /\ \A u \in Tasks : u # t => task'[u] = task[u]
         /\ Grows
<1>1. /\ task' \in [Tasks -> Row] /\ task'[t] = q
      /\ \A u \in Tasks : u # t => task'[u] = task[u]
  BY DEF Shape
<1> QED BY <1>1 DEF Grows, Later, Absent

LEMMA Ranks ==
  ASSUME Shape, NEW w \in Workflows, Touch(w)
  PROVE  rank' \in [Workflows -> 0 .. Cardinality(Workflows)]
<1>1. Cardinality(Workflows) \in Nat
  BY CollaborationAssumption, FS_CardinalityType
<1>2. \A v \in Workflows : rank[v] \in 0 .. Cardinality(Workflows)
  BY DEF Shape
<1> DEFINE n == Cardinality(Workflows)
<1> HIDE DEF n
<1>3. \A v \in Workflows : (IF v = w THEN n ELSE IF rank[v] > rank[w] THEN rank[v] - 1
                             ELSE rank[v]) \in 0 .. n
  BY <1>1, <1>2 DEF n
<1> QED BY <1>3 DEF Touch, n

\* A workflow's new state.
LEMMA StateMoves ==
  ASSUME Shape, NEW w \in Workflows, NEW s \in States, NEW t \in Tasks \union {NoTask},
         SetState(w, s, t), UNCHANGED <<task, decided, confirmed>>
  PROVE  /\ wf' \in [Workflows -> [state : States \union {"absent"}, task : Tasks \union {NoTask}]]
         /\ rank' \in [Workflows -> 0 .. Cardinality(Workflows)]
         /\ wf'[w].state = s /\ s # "absent"
         /\ wf'[w].task = IF t = NoTask THEN wf[w].task ELSE t
         /\ \A v \in Workflows : v # w => wf'[v] = wf[v]
         /\ Grows
<1>1. rank' \in [Workflows -> 0 .. Cardinality(Workflows)]
  BY Ranks DEF SetState
<1>2. s # "absent"
  BY DEF States, Meeting, Underway, Ended
<1> DEFINE x == [state |-> s, task |-> IF t = NoTask THEN wf[w].task ELSE t]
<1>3. x \in [state : States \union {"absent"}, task : Tasks \union {NoTask}]
      /\ x.state = s /\ x.task = IF t = NoTask THEN wf[w].task ELSE t
  BY DEF Shape
<1>4. wf' = [wf EXCEPT ![w] = x]
  BY DEF SetState
<1> HIDE DEF x
<1>5. /\ wf' \in [Workflows -> [state : States \union {"absent"}, task : Tasks \union {NoTask}]]
      /\ wf'[w] = x /\ \A v \in Workflows : v # w => wf'[v] = wf[v]
  BY <1>3, <1>4 DEF Shape
<1>6. Grows
  BY <1>2, <1>3, <1>5 DEF Grows, Later, Absent
<1> QED BY <1>1, <1>2, <1>3, <1>5, <1>6

-------------------------------------------------------------------------------
(* Steps of the job that change nothing but where it is.                      *)

LEMMA MoveKeeps ==
  ASSUME CoreInv, UNCHANGED otherThanWorker, worker' \in Job, JobOK',
         worker.pc # "idle", worker'.pc # "idle", worker'.task = worker.task
  PROVE  CoreInv'
<1>1. Grows
  BY DEF Grows, Later, otherThanWorker, Absent
<1>2. Shape' /\ QueueOK'
  BY DEF CoreInv, Shape, QueueOK, Queued, otherThanWorker
<1>3. (\A t \in Tasks : RowOK(t)') /\ (\A w \in Workflows : WfOK(w)') /\ MessageOK'
  BY <1>1, RowStays, WfStays, MessageStays DEF CoreInv, otherThanWorker
<1>4. RunningOK'
  BY DEF CoreInv, RunningOK, NoJob, otherThanWorker
<1> QED BY <1>2, <1>3, <1>4 DEF CoreInv

\* The job, unless it is idle, goes on with its task.
JobGoesOn ==
  /\ worker' \in Job /\ JobOK' /\ worker.pc # "idle" /\ worker'.pc # "idle"
  /\ worker'.task = worker.task

LEMMA Raises ==
  ASSUME Shape, JobOK, worker.pc # "idle", UNCHANGED <<task, wf, decided>>,
         task[T].status = "running",
         NEW o \in {"failed", "blocked", "cancelled"}, Raise(o)
  PROVE  JobGoesOn
<1>1. worker \in Job
  BY DEF Shape
<1>2. worker.task \in Tasks
  BY DEF JobOK
<1> DEFINE to == IF o = "cancelled" THEN "cancelled" ELSE "failed"
<1>3. to \in {"cancelled", "failed"} /\ worker' = [worker EXCEPT !.pc = "sync", !.out = o, !.to = to]
  BY DEF Raise
<1> HIDE DEF to
<1>4. /\ worker'.pc = "sync" /\ worker'.task = worker.task /\ worker'.to = to
      /\ worker' \in Job
  BY <1>1, <1>3 DEF Job, Pcs, Closed, States, Ended
<1>5. Place' = "sync" /\ "sync" \notin Held \union Started \union Approved \union {"start", "receipt"}
  BY <1>4 DEF Place, Held, Started, Reopens, Approved
<1> QED BY <1>2, <1>3, <1>4, <1>5 DEF JobOK, JobGoesOn, Reopens, T, W

LEMMA MoveSteps ==
  ASSUME Shape, JobOK, Meet \/ Plan \/ CheckReceipt \/ Generate \/ Complete \/ SyncRead
  PROVE  JobGoesOn
<1>1. worker \in Job
  BY DEF Shape
<1>2. CASE Meet
  BY <1>1, <1>2 DEF Meet, At, Goto, Job, JobOK, JobGoesOn, Place, T, W, Settled, otherThanWorker,
       Pcs, Held,
     Started, Reopens, Approved, Awaiting, NoJob
<1>3. CASE Plan
  BY <1>1, <1>3 DEF Plan, Transition, At, Goto, Job, JobOK, JobGoesOn, Place, T, W, Settled,
       otherThanWorker,
     Pcs, Held, Afters, States, Underway, Started, Reopens, Approved, Awaiting, NoJob
<1>4. CASE CheckReceipt
  <2>1. worker.pc = "receipt" /\ task[T].approved
        /\ UNCHANGED <<task, wf, decided>> /\ worker' \in
             {[worker EXCEPT !.pc = "trans", !.to = "executing", !.after = "work"],
              [worker EXCEPT !.pc = "work"]}
    BY <1>4 DEF CheckReceipt, Transition, At, Goto, otherThanWorker
  <2>2. CASE worker' = [worker EXCEPT !.pc = "trans", !.to = "executing", !.after = "work"]
    BY <1>1, <2>1, <2>2 DEF Job, JobOK, JobGoesOn, Place, T, W, Settled, Pcs, Held, Afters,
         States, Underway,
       Started, Reopens, Approved, Awaiting, NoJob
  <2>3. CASE worker' = [worker EXCEPT !.pc = "work"]
    BY <1>1, <2>1, <2>3 DEF Job, JobOK, JobGoesOn, Place, T, W, Settled, Pcs, Held, Afters,
         States, Underway,
       Started, Reopens, Approved, Awaiting, NoJob
  <2> QED BY <2>1, <2>2, <2>3
<1>5. CASE Generate
  BY <1>1, <1>5 DEF Generate, Transition, At, Goto, Job, JobOK, JobGoesOn, Place, T, W, Settled,
     otherThanWorker, Pcs, Held, Afters, States, Underway, Started, Reopens, Approved, Awaiting, NoJob
<1>6. CASE Complete
  <2>1. worker.pc = "verified" /\ UNCHANGED <<task, wf, decided>>
        /\ worker' = [worker EXCEPT !.pc = "trans", !.to = "completed",
                        !.after = IF task[T].kind = "report" THEN "deliver" ELSE "return"]
    BY <1>6 DEF Complete, Transition, At, Goto, otherThanWorker
  <2>2. task[T].kind # "roundtable" /\ task[T].kind \in Kinds /\ Settled(task[T].meeting)
        /\ task[T].phase = "execute" /\ task[T].approved /\ task[T].status = "running"
        /\ worker.task \in Tasks
    <3>1. worker.task \in Tasks
      BY <2>1 DEF JobOK
    <3> QED BY <2>1, <3>1 DEF JobOK, JobGoesOn, Place, Started, Reopens, Approved, Shape, Row, T
  <2>3. CASE task[T].kind = "report"
    BY <1>1, <2>1, <2>2, <2>3 DEF Job, JobOK, JobGoesOn, Place, T, W, Settled, Pcs, Held, Afters,
         States, Ended,
       Started, Reopens, Approved, Awaiting, NoJob
  <2>4. CASE task[T].kind = "code"
    BY <1>1, <2>1, <2>2, <2>4 DEF Job, JobOK, JobGoesOn, Place, T, W, Settled, Pcs, Held, Afters,
         States, Ended,
       Started, Reopens, Approved, Awaiting, NoJob
  <2> QED BY <2>2, <2>3, <2>4 DEF Kinds
<1>7. CASE SyncRead
  BY <1>1, <1>7 DEF SyncRead, Transition, At, Goto, Job, JobOK, JobGoesOn, Place, T, W, Settled,
     otherThanWorker, Pcs, Held, Afters, States, Underway, Started, Reopens, Approved, Awaiting, NoJob
<1> QED BY <1>2, <1>3, <1>4, <1>5, <1>6, <1>7

LEMMA ReadSteps ==
  ASSUME Shape, JobOK, TransRead \/ RunnerRaises
  PROVE  JobGoesOn
<1>1. worker \in Job /\ worker.pc \in {"trans", "meet", "ledger", "minutes"} \union Started
      /\ UNCHANGED <<task, wf, decided>>
  BY DEF Shape, TransRead, RunnerRaises, At, otherThanWorker, Started, Reopens, Approved
<1>2. worker.task \in Tasks /\ worker.pc # "idle" /\ task[T].status = "running"
  BY <1>1 DEF JobOK, T, Started, Reopens, Approved
<1>3. CASE worker.pc = "trans" /\ Goto("commit")
  BY <1>1, <1>2, <1>3 DEF Goto, Job, JobOK, JobGoesOn, Place, T, W, Settled, Pcs, Held, Started,
     Reopens, Approved, NoJob
<1>4. CASE \E o \in {"failed", "blocked", "cancelled"} : Raise(o)
  BY <1>1, <1>2, <1>4, Raises
<1> QED BY <1>3, <1>4 DEF TransRead, RunnerRaises, At

\* The ways a collaboration's job starts.
LEMMA StartMoves ==
  ASSUME CoreInv, StartCollaboration \/ ResumeRead \/ Resumed
  PROVE  JobGoesOn
<1> DEFINE m == task[T].meeting
           next == IF task[T].phase = "planning" THEN "plan" ELSE "receipt"
<1>1. /\ worker \in Job /\ worker.pc \in {"start", "resume", "resumed"}
      /\ UNCHANGED <<task, wf, decided>>
      /\ worker.task \in Tasks /\ task[T].status = "running" /\ task[T].kind # "roundtable"
      /\ task[T].phase \in {"planning", "execute"}
  <2>1. worker.pc \in {"start", "resume", "resumed"} /\ UNCHANGED <<task, wf, decided>>
    BY DEF StartCollaboration, ResumeRead, Resumed, At, otherThanWorker
  <2> QED BY <2>1 DEF CoreInv, Shape, JobOK, Place, Started, Reopens, T, Row
<1>2. CASE Raise("blocked")
  BY <1>1, <1>2, Raises DEF CoreInv
<1>3. ASSUME task[m].status = "succeeded" PROVE Settled(m)
  <2>1. task[m].kind = "roundtable"
    BY <1>1 DEF CoreInv, RowOK, T
  <2> QED BY <1>1, <1>3, <2>1 DEF T, Settled
<1>4. ASSUME Settled(m), NEW p \in {"plan", "receipt", "resume", "reopen"}, Goto(p),
             p = "receipt" => task[T].phase = "execute",
             p \in {"resume", "reopen"} => task[T].retry
      PROVE  JobGoesOn
  BY <1>1, <1>4 DEF Goto, Job, CoreInv, JobOK, JobGoesOn, Place, T, W, Settled, Pcs, Held, Started,
     Reopens, Approved, NoJob
<1>5. ASSUME Settled(m), next = "plan", Transition("planning", next)
      PROVE  JobGoesOn
  BY <1>1, <1>5 DEF Transition, Job, CoreInv, JobOK, JobGoesOn, Place, T, W, Settled, Pcs, Held,
     Started, Reopens, Approved, NoJob, Afters, States, Underway, Awaiting
<1>6. ASSUME NEW s, Proceed(s), Settled(m) PROVE JobGoesOn
  <2>1. next \in {"plan", "receipt"} /\ (next = "receipt" => task[T].phase = "execute")
    BY <1>1
  <2>2. Goto(next) \/ (next = "plan" /\ Transition("planning", next))
    BY <1>6 DEF Proceed
  <2> HIDE DEF m, next
  <2> QED BY <1>4, <1>5, <1>6, <2>1, <2>2
<1>7. CASE StartCollaboration
  <2>1. \/ Raise("blocked")
        \/ /\ task[m].status = "succeeded"
           /\ (task[T].retry /\ Goto("resume")) \/ \E s : Proceed(s)
    BY <1>7 DEF StartCollaboration
  <2> HIDE DEF m
  <2> QED BY <1>2, <1>3, <1>4, <1>6, <2>1
<1>8. CASE ResumeRead
  <2>1. worker.pc = "resume" /\ (Goto("reopen") \/ \E s : Proceed(s))
    BY <1>8 DEF ResumeRead, At
  <2>2. Settled(m) /\ task[T].retry
    BY <2>1 DEF CoreInv, JobOK, Place, Started, Reopens
  <2> HIDE DEF m
  <2> QED BY <1>4, <1>6, <2>1, <2>2
<1>9. CASE Resumed
  <2>1. worker.pc = "resumed" /\ \E s : Proceed(s)
    BY <1>9 DEF Resumed, At
  <2>2. Settled(m)
    BY <2>1 DEF CoreInv, JobOK, Place, Started, Reopens
  <2> HIDE DEF m
  <2> QED BY <1>6, <2>1, <2>2
<1> QED BY <1>7, <1>8, <1>9

LEMMA MovesOfJob ==
  ASSUME CoreInv,
         \/ Meet \/ Plan \/ CheckReceipt \/ Generate \/ Complete \/ SyncRead
         \/ TransRead \/ RunnerRaises
         \/ StartCollaboration \/ ResumeRead \/ Resumed
  PROVE  CoreInv'
<1>1. UNCHANGED otherThanWorker
  BY DEF Meet, Plan, CheckReceipt, Generate, Complete, SyncRead, TransRead, RunnerRaises,
     StartCollaboration, ResumeRead, Resumed
<1>2. JobGoesOn
  BY MoveSteps, ReadSteps, StartMoves DEF CoreInv
<1> QED BY <1>1, <1>2, MoveKeeps DEF JobGoesOn

-------------------------------------------------------------------------------
(* Steps of the job that write the workflow's row.                            *)

\* The job's task is a row of its workflow.
LEMMA JobTask ==
  ASSUME CoreInv, worker.pc # "idle"
  PROVE  /\ T \in Tasks /\ task[T] \in Row /\ Belongs(T, W) /\ W \in Workflows
         /\ task[T].status \in {"running", "succeeded"}
         /\ up /\ worker \in Job
<1>1. worker \in Job /\ T \in Tasks /\ task[T].status \in {"running", "succeeded"}
  BY DEF CoreInv, Shape, JobOK, T
<1>2. task[T] \in Row /\ ~ Absent(T) /\ RowOK(T)
  BY <1>1 DEF CoreInv, Shape, Absent
<1>3. up
  BY DEF CoreInv, Shape, RunningOK, NoJob
<1> QED BY <1>1, <1>2, <1>3 DEF RowOK, Belongs, W

\* What a write of the job to the workflow's row leaves alone.
FlowOnly == /\ UNCHANGED <<task, queue, handler, up, crashes, decided, confirmed>>
            /\ overtaken' \subseteq overtaken
            /\ forgotten' \subseteq forgotten \union {W}

LEMMA FlowKeeps ==
  ASSUME CoreInv, worker.pc # "idle", NEW s \in States, SetState(W, s, T),
         FlowOnly, JobGoesOn,
         s = "awaiting_collaboration_confirmation" => W \in decided
  PROVE  CoreInv'
<1>0. /\ UNCHANGED <<task, queue, handler, up, crashes, decided, confirmed>>
      /\ overtaken' \subseteq overtaken /\ forgotten' \subseteq forgotten \union {W}
  BY DEF FlowOnly
<1>1. PICK w \in Workflows, t \in Tasks : w = W /\ t = T /\ Belongs(t, w)
  BY JobTask
<1>2. t # NoTask
  BY CollaborationAssumption
<1>3. /\ wf' \in [Workflows -> [state : States \union {"absent"}, task : Tasks \union {NoTask}]]
      /\ rank' \in [Workflows -> 0 .. Cardinality(Workflows)]
      /\ wf'[w].state = s /\ wf'[w].task = t
      /\ \A v \in Workflows : v # w => wf'[v] = wf[v]
      /\ Grows
  <2>1. SetState(w, s, t)
    BY <1>1
  <2> QED BY <2>1, <1>0, <1>2, StateMoves DEF CoreInv
<1>4. Shape' /\ QueueOK'
  BY <1>0, <1>1, <1>3 DEF CoreInv, Shape, QueueOK, Queued, JobGoesOn
<1>5. \A u \in Tasks : RowOK(u)'
  BY <1>0, <1>3, RowStays DEF CoreInv
<1>6. \A v \in Workflows : WfOK(v)'
  <2>1. WfOK(w)'
    BY <1>0, <1>1, <1>3, BelongsStays DEF WfOK
  <2> QED BY <2>1, <1>3, WfStays DEF CoreInv
<1>7. MessageOK'
  BY <1>0, <1>3, MessageStays DEF CoreInv
<1>8. RunningOK'
  BY <1>0, JobTask DEF CoreInv, RunningOK, JobGoesOn
<1> QED BY <1>4, <1>5, <1>6, <1>7, <1>8 DEF CoreInv, JobGoesOn

LEMMA TransWriteStep == ASSUME CoreInv, TransWrite PROVE CoreInv' /\ JobGoesOn
<1>1. worker.pc = "commit" /\ FlowOnly /\ SetState(W, worker.to, T)
      /\ worker' = [worker EXCEPT !.pc = worker.after] /\ UNCHANGED <<task, decided>>
  BY DEF TransWrite, At, Goto, FlowOnly
<1>2. /\ worker \in Job /\ worker.after # "idle" /\ worker.to \in States
      /\ worker.to = "awaiting_collaboration_confirmation" => W \in decided
      /\ T \in Tasks
  BY <1>1, JobTask DEF Job, CoreInv, JobOK
<1>3. JobGoesOn
  <2>1. worker' \in Job /\ worker'.pc = worker.after /\ worker'.task = worker.task
        /\ worker'.stale = worker.stale
        /\ worker.after \in {"minutes", "plan", "park", "work", "verified", "deliver", "return"}
    BY <1>1, <1>2 DEF Job, Afters, Pcs, Held, Started, Reopens, Approved
  <2>2. Place' = Place /\ worker'.pc \notin {"trans", "commit", "sync", "syncwrite", "idle"}
    BY <1>1, <2>1 DEF Place
  <2>3. task[T].status = "running"
    BY <1>1 DEF CoreInv, JobOK
  <2>4. worker.after = "return" => task[T].kind = "code"
    BY <1>1 DEF CoreInv, JobOK
  <2>5. T' = T /\ W' = W /\ UNCHANGED task
    BY <1>1, <2>1 DEF T, W
  <2> QED BY <1>1, <1>2, <2>1, <2>2, <2>3, <2>4, <2>5 DEF CoreInv, JobOK, JobGoesOn, Reopens, Settled, T
<1> QED BY <1>1, <1>2, <1>3, FlowKeeps

LEMMA SyncWriteStep == ASSUME CoreInv, SyncWrite PROVE CoreInv'
<1>1. worker.pc = "syncwrite" /\ FlowOnly /\ SetState(W, worker.to, T)
      /\ worker' = [worker EXCEPT !.pc = "finish"] /\ UNCHANGED <<task, decided>>
  BY DEF SyncWrite, At, Goto, otherThanFlow, FlowOnly
<1>2. /\ worker \in Job /\ worker.to \in {"cancelled", "failed"} /\ T \in Tasks
      /\ task[T].status = "running"
  BY <1>1, JobTask DEF CoreInv, JobOK
<1>3. JobGoesOn
  BY <1>1, <1>2 DEF CoreInv, JobGoesOn, Job, JobOK, Place, T, W, Settled, Pcs, Held, Started,
     Reopens, Approved
<1>4. worker.to \in States /\ worker.to # "awaiting_collaboration_confirmation"
  BY <1>2 DEF States, Ended
<1> QED BY <1>1, <1>3, <1>4, FlowKeeps

LEMMA ResumeWriteStep == ASSUME CoreInv, ResumeWrite PROVE CoreInv' /\ JobGoesOn
<1> DEFINE s == IF task[T].phase = "planning" THEN "planning" ELSE "waiting_approval"
<1>1. /\ worker.pc = "reopen" /\ FlowOnly /\ SetState(W, s, T) /\ UNCHANGED <<task, decided>>
      /\ worker' = [worker EXCEPT !.pc = "resumed", !.stale = FALSE]
  BY DEF ResumeWrite, At, FlowOnly
<1>2. /\ worker \in Job /\ T \in Tasks /\ task[T].status = "running" /\ task[T].retry
      /\ task[T].kind # "roundtable" /\ Settled(task[T].meeting)
  BY <1>1, JobTask DEF CoreInv, JobOK, Place, Started, Reopens
<1>3. JobGoesOn
  BY <1>1, <1>2 DEF JobGoesOn, Job, JobOK, Place, T, W, Settled, Pcs, Held, Started, Reopens,
     Approved
<1>4. s \in States /\ s # "awaiting_collaboration_confirmation"
  BY DEF States, Underway
<1> HIDE DEF s
<1> QED BY <1>1, <1>3, <1>4, FlowKeeps

-------------------------------------------------------------------------------
(* Steps of the job that write its task's row.                                *)

\* A row the job may write: what has been agreed on stays as it is.
Written(q) ==
  /\ q \in Row /\ Later(q, task[T]) /\ q.approved = task[T].approved
  /\ q.status # "queued" /\ q.phase = task[T].phase
  /\ q.status = "waiting_approval" => ~ q.cancel

LEMMA RowKeeps ==
  ASSUME CoreInv, worker.pc # "idle", NEW q \in Row, Written(q),
         task' = [task EXCEPT ![T] = q], UNCHANGED otherThanRow, worker' \in Job,
         JobOK', q.status = "running" => worker'.task = worker.task
  PROVE  CoreInv'
<1>0. UNCHANGED <<wf, rank, queue, handler, up, crashes, decided, forgotten, confirmed, overtaken>>
  BY DEF otherThanRow
<1>1. PICK t \in Tasks : t = T
  BY JobTask
<1>2. t = worker.task /\ ~ Absent(t) /\ up /\ task[t].status \in {"running", "succeeded"}
  BY <1>1, JobTask DEF T, Belongs
<1>3. /\ task' \in [Tasks -> Row] /\ task'[t] = q
      /\ \A u \in Tasks : u # t => task'[u] = task[u]
      /\ Grows
  <2>1. task' = [task EXCEPT ![t] = q] /\ Later(q, task[t])
    BY <1>1 DEF Written
  <2> QED BY <1>0, <2>1, RowMoves DEF CoreInv
<1>4. Shape'
  BY <1>0, <1>3 DEF CoreInv, Shape
<1>5. \A u \in Tasks : Queued(u)' <=> Queued(u)
  BY <1>1, <1>2, <1>3 DEF Queued, Written
<1>6. QueueOK'
  <2>1. queue \in Seq(Tasks) /\ \A i \in 1 .. Len(queue) : queue[i] \in Tasks
    BY ElementOfSeq DEF CoreInv, QueueOK
  <2> QED BY <1>0, <1>5, <2>1 DEF CoreInv, QueueOK
<1>7. \A u \in Tasks : RowOK(u)'
  <2>1. RowOK(t)'
    BY <1>1, <1>2, <1>3, RowStays DEF CoreInv, Written
  <2> QED BY <1>3, <2>1, RowStays DEF CoreInv
<1>8. (\A w \in Workflows : WfOK(w)') /\ MessageOK'
  BY <1>0, <1>3, WfStays, MessageStays DEF CoreInv
<1>9. RunningOK'
  BY <1>0, <1>2, <1>3 DEF CoreInv, RunningOK
<1> QED BY <1>4, <1>6, <1>7, <1>8, <1>9 DEF CoreInv

LEMMA IdleJob ==
  ASSUME worker' = NoJob
  PROVE  worker' \in Job /\ JobOK' /\ worker'.pc = "idle" /\ worker'.task = NoTask
         /\ worker'.stale = FALSE
BY DEF Job, JobOK, NoJob, Place, Pcs, States, Ended, Afters, Closed, Held, Started, Reopens, Approved

\* The job's task gets a status and the job ends.
LEMMA Ends ==
  ASSUME CoreInv, worker.pc # "idle", NEW s \in Closed \union {"waiting_approval"},
         s = "waiting_approval" => ~ task[T].cancel,
         task' = [task EXCEPT ![T] = [@ EXCEPT !.status = s]], UNCHANGED otherThanRow,
         worker' = NoJob
  PROVE  CoreInv'
<1> DEFINE q == [task[T] EXCEPT !.status = s]
<1>1. T \in Tasks /\ task[T] \in Row
  BY JobTask
<1>2. /\ q \in Row /\ Written(q) /\ q.status # "running"
  BY <1>1 DEF Row, Written, Later, Closed, Live
<1>3. task' = [task EXCEPT ![T] = q]
  OBVIOUS
<1> HIDE DEF q
<1> QED BY <1>2, <1>3, IdleJob, RowKeeps

LEMMA EndSteps ==
  ASSUME CoreInv, Park \/ Return \/ Finish
  PROVE  CoreInv'
<1>1. CASE Park
  <2>1. worker.pc = "park" /\ UNCHANGED otherThanRow /\ worker' = NoJob /\ ~ task[T].cancel
        /\ task' = [task EXCEPT ![T] = [@ EXCEPT !.status = "waiting_approval"]]
    BY <1>1 DEF Park, At
  <2> QED BY <2>1, Ends
<1>2. CASE Return
  <2>1. PICK s \in {"cancelled", "succeeded"} :
          worker.pc = "return" /\ UNCHANGED otherThanRow /\ worker' = NoJob
          /\ task' = [task EXCEPT ![T] = [@ EXCEPT !.status = s]]
    BY <1>2 DEF Return, At
  <2>2. s \in Closed /\ s # "waiting_approval"
    BY DEF Closed
  <2> QED BY <2>1, <2>2, Ends
<1>3. CASE Finish
  <2>1. worker.pc = "finish" /\ UNCHANGED otherThanRow /\ worker' = NoJob
        /\ task' = [task EXCEPT ![T] = [@ EXCEPT !.status = worker.out]]
    BY <1>3 DEF Finish, At
  <2>2. worker.out \in Closed /\ worker.out # "waiting_approval"
    BY DEF CoreInv, Shape, Job, Closed
  <2> QED BY <2>1, <2>2, Ends
<1> QED BY <1>1, <1>2, <1>3

LEMMA BeginStep == ASSUME CoreInv, Begin PROVE CoreInv'
<1>1. worker.pc = "claimed" /\ UNCHANGED otherThanRow
  BY DEF Begin, At
<1>2. CASE task[T].cancel
  <2>1. worker' = NoJob /\ task' = [task EXCEPT ![T] = [@ EXCEPT !.status = "cancelled"]]
    BY <1>2 DEF Begin
  <2>2. "cancelled" \in Closed
    BY DEF Closed
  <2> QED BY <1>1, <2>1, <2>2, Ends
<1>3. CASE ~ task[T].cancel
  <2>1. UNCHANGED task /\ worker' = [worker EXCEPT !.pc =
                                     IF task[T].kind = "roundtable" THEN "meet" ELSE "start"]
    BY <1>3 DEF Begin, Goto
  <2>2. UNCHANGED otherThanWorker /\ UNCHANGED <<wf, decided>>
    BY <1>1, <2>1 DEF otherThanWorker, otherThanRow
  <2>3. JobGoesOn
    BY <1>1, <2>1, <2>2 DEF CoreInv, Shape, Job, JobOK, JobGoesOn, Place, T, W, Settled, Pcs, Held,
       Started, Reopens, Approved
  <2> QED BY <2>2, <2>3, MoveKeeps DEF JobGoesOn
<1> QED BY <1>2, <1>3

\* A history of the row, or the status of a meeting that ends.
LEMMA MarkSteps ==
  ASSUME CoreInv, FinishMeeting \/ Write \/ Send \/ Deliver
  PROVE  CoreInv' /\ JobGoesOn
<1>1. /\ T \in Tasks /\ task[T] \in Row /\ worker \in Job /\ UNCHANGED otherThanRow
      /\ worker.pc \in {"minutes", "work", "send", "deliver"} /\ UNCHANGED <<wf, decided>>
  <2>1. worker.pc \in {"minutes", "work", "send", "deliver"} /\ UNCHANGED otherThanRow
    BY DEF FinishMeeting, Write, Send, Deliver, At
  <2> QED BY <2>1, JobTask DEF otherThanRow
<1>2. task[T].status = "running" /\ ~ Absent(T) /\ T = worker.task
  BY <1>1 DEF CoreInv, JobOK, T, Absent
<1>3. task[T].kind # "roundtable" => task[T].meeting \in Tasks /\ task[T].meeting # T
  BY <1>1 DEF CoreInv, RowOK
<1>4. ASSUME NEW q \in Row, Written(q), task' = [task EXCEPT ![T] = q],
             q.status = "running" \/ (q.status = "succeeded" /\ worker.pc = "minutes"), JobGoesOn
      PROVE  CoreInv'
  BY <1>1, <1>4, RowKeeps DEF JobGoesOn
<1>5. CASE FinishMeeting
  <2> DEFINE q == [task[T] EXCEPT !.status = "succeeded"]
  <2>1. worker.pc = "minutes" /\ task' = [task EXCEPT ![T] = q]
        /\ worker' = [worker EXCEPT !.pc = "return"]
    BY <1>5 DEF FinishMeeting, At, Goto
  <2>2. q \in Row /\ Written(q) /\ q.status = "succeeded" /\ q.kind = task[T].kind
    BY <1>1, <1>2 DEF Row, Written, Later, Closed, Live
  <2>3. q.kind = "roundtable"
    BY <2>1, <2>2 DEF CoreInv, JobOK, Place, Held
  <2> HIDE DEF q
  <2>4. task'[T] = q
    BY <1>1, <2>1 DEF CoreInv, Shape
  <2>5. JobGoesOn
    BY <1>1, <1>2, <2>1, <2>2, <2>3, <2>4 DEF JobGoesOn, Job, JobOK, Place, T, W, Settled, Pcs,
         Held,
       Started, Reopens, Approved
  <2> QED BY <1>4, <2>1, <2>2, <2>5
<1>6. CASE Write \/ Send
  <2> DEFINE q == IF worker.pc = "work" THEN [task[T] EXCEPT !.wrote = TRUE]
                  ELSE [task[T] EXCEPT !.sent = TRUE]
  <2>1. worker.pc \in {"work", "send"} /\ task' = [task EXCEPT ![T] = q]
        /\ worker' = [worker EXCEPT !.pc = "trans", !.to = "verifying", !.after = "verified"]
    BY <1>6 DEF Write, Send, At, Transition
  <2>2. /\ q \in Row /\ Written(q) /\ q.status = "running" /\ q.kind = task[T].kind
        /\ q.meeting = task[T].meeting /\ q.phase = task[T].phase /\ q.approved = task[T].approved
    BY <1>1, <1>2 DEF Row, Written, Later
  <2>3. q.kind # "roundtable" /\ Settled(q.meeting) /\ q.phase = "execute" /\ q.approved
    BY <2>1, <2>2 DEF CoreInv, JobOK, Place, Started, Reopens, Approved
  <2> HIDE DEF q
  <2>4. task'[T] = q /\ \A u \in Tasks : u # T => task'[u] = task[u]
    BY <1>1, <2>1 DEF CoreInv, Shape
  <2>5. task'[q.meeting].status = "succeeded" /\ worker'.task = worker.task
        /\ worker'.task # q.meeting /\ worker' \in Job
    BY <1>1, <1>2, <1>3, <2>1, <2>2, <2>3, <2>4 DEF Settled, Job, Pcs, Afters, States, Underway
  <2>6. worker'.pc = "trans" /\ worker'.to = "verifying" /\ worker'.after = "verified"
        /\ Place' = "verified" /\ T' = T
    BY <1>1, <2>1 DEF Job, Place, T
  <2>7. JobGoesOn
    BY <1>1, <1>2, <2>1, <2>2, <2>3, <2>4, <2>5, <2>6 DEF JobGoesOn, JobOK, Settled, Held, Started,
       Reopens, Approved, Awaiting
  <2> QED BY <1>4, <2>1, <2>2, <2>7
<1>7. CASE Deliver
  <2> DEFINE q == [task[T] EXCEPT !.delivered = TRUE]
  <2>1. worker.pc = "deliver" /\ task' = [task EXCEPT ![T] = q]
        /\ worker' = [worker EXCEPT !.pc = "return"]
    BY <1>7 DEF Deliver, At, Goto
  <2>2. /\ q \in Row /\ Written(q) /\ q.status = "running" /\ q.kind = task[T].kind
    BY <1>1, <1>2 DEF Row, Written, Later
  <2>3. q.kind # "roundtable"
    BY <2>1, <2>2 DEF CoreInv, JobOK, Place, Started, Reopens, Approved
  <2> HIDE DEF q
  <2>4. task'[T] = q
    BY <1>1, <2>1 DEF CoreInv, Shape
  <2>5. JobGoesOn
    BY <1>1, <1>2, <2>1, <2>2, <2>3, <2>4 DEF JobGoesOn, Job, JobOK, Place, T, W, Settled, Pcs,
         Held,
       Started, Reopens, Approved
  <2> QED BY <1>4, <2>1, <2>2, <2>5
<1> QED BY <1>5, <1>6, <1>7

LEMMA ClaimStep == ASSUME CoreInv, Claim PROVE CoreInv'
<1>1. /\ up /\ worker.pc = "idle" /\ queue # <<>> /\ queue' = Tail(queue)
      /\ task' = [task EXCEPT ![Head(queue)] = [@ EXCEPT !.status = "running"]]
      /\ worker' = [NoJob EXCEPT !.pc = "claimed", !.task = Head(queue)]
      /\ UNCHANGED <<wf, rank, handler, up, crashes, decided, forgotten, confirmed, overtaken>>
  BY DEF Claim, At
<1>2. /\ queue \in Seq(Tasks) /\ Len(queue) \in Nat \ {0} /\ Head(queue) = queue[1]
      /\ queue' \in Seq(Tasks) /\ Len(queue') = Len(queue) - 1
      /\ \A i \in 1 .. Len(queue') : queue'[i] = queue[i + 1]
  BY <1>1, HeadTailProperties, LenProperties DEF CoreInv, QueueOK
<1>3. PICK h \in Tasks : h = Head(queue) /\ h = queue[1] /\ task[h].status = "queued"
  BY <1>2, ElementOfSeq DEF CoreInv, QueueOK, Queued
<1> DEFINE q == [task[h] EXCEPT !.status = "running"]
<1>4. task[h] \in Row /\ ~ Absent(h) /\ RowOK(h)
  BY <1>3 DEF CoreInv, Shape, Absent
<1>5. q \in Row /\ Later(q, task[h]) /\ q.approved = task[h].approved /\ q.status = "running"
  BY <1>4 DEF Row, Live, Later
<1>6. task' = [task EXCEPT ![h] = q]
  BY <1>1, <1>3
<1> HIDE DEF q
<1>7. /\ task' \in [Tasks -> Row] /\ task'[h] = q
      /\ \A u \in Tasks : u # h => task'[u] = task[u]
      /\ Grows
  BY <1>1, <1>4, <1>5, <1>6, RowMoves DEF CoreInv
<1>8. worker' \in Job /\ worker'.pc = "claimed" /\ worker'.task = h /\ JobOK'
  <2>1. worker' \in Job /\ worker'.pc = "claimed" /\ worker'.task = h
    BY <1>1, <1>3 DEF NoJob, Job, Pcs, States, Ended, Afters, Closed
  <2>2. Place' = "claimed" /\ "claimed" \notin Held \union Started \union Approved \union {"start", "receipt"}
    BY <2>1 DEF Place, Held, Started, Reopens, Approved
  <2> QED BY <1>5, <1>7, <2>1, <2>2 DEF JobOK, Reopens, T
<1>9. QueueOK'
  <2>1. \A u \in Tasks : Queued(u)' <=> Queued(u) /\ u # h
    BY <1>5, <1>7 DEF Queued
  <2>2. \A i \in 1 .. Len(queue') : i + 1 \in 1 .. Len(queue) /\ queue[i + 1] \in Tasks
                                     /\ queue[i + 1] # h /\ Queued(queue[i + 1])
    <3> SUFFICES ASSUME NEW i \in 1 .. Len(queue')
                 PROVE  i + 1 \in 1 .. Len(queue) /\ queue[i + 1] \in Tasks
                        /\ queue[i + 1] # h /\ Queued(queue[i + 1])
      OBVIOUS
    <3>1. i + 1 \in 1 .. Len(queue) /\ 1 \in 1 .. Len(queue) /\ i + 1 # 1
      BY <1>2
    <3>2. queue[i + 1] \in Tasks
      BY <1>2, <3>1, ElementOfSeq
    <3> QED BY <1>3, <3>1, <3>2 DEF CoreInv, QueueOK
  <2>3. \A i \in 1 .. Len(queue') : task'[queue'[i]].status = "queued"
    BY <1>2, <2>1, <2>2 DEF Queued
  <2>4. ASSUME NEW u \in Tasks, Queued(u)' PROVE \E i \in 1 .. Len(queue') : queue'[i] = u
    <3>1. PICK j \in 1 .. Len(queue) : queue[j] = u
      BY <2>1, <2>4 DEF CoreInv, QueueOK
    <3>2. j # 1
      BY <1>3, <2>1, <2>4, <3>1
    <3>3. j - 1 \in 1 .. Len(queue') /\ (j - 1) + 1 = j
      BY <1>2, <3>1, <3>2
    <3> QED BY <1>2, <3>1, <3>3
  <2>5. ASSUME NEW i \in 1 .. Len(queue'), NEW j \in 1 .. Len(queue'), queue'[i] = queue'[j]
        PROVE  i = j
    <3>1. queue[i + 1] = queue[j + 1] /\ i + 1 \in 1 .. Len(queue) /\ j + 1 \in 1 .. Len(queue)
      BY <1>2, <2>2, <2>5
    <3>2. i + 1 = j + 1
      BY <3>1 DEF CoreInv, QueueOK
    <3> QED BY <3>2, <1>2
  <2> QED BY <1>2, <2>3, <2>4, <2>5 DEF QueueOK, Queued
<1>10. (\A u \in Tasks : RowOK(u)') /\ (\A w \in Workflows : WfOK(w)') /\ MessageOK'
  <2>1. RowOK(h)'
    BY <1>4, <1>5, <1>7, RowStays DEF CoreInv
  <2> QED BY <1>1, <1>7, <2>1, RowStays, WfStays, MessageStays DEF CoreInv
<1>11. RunningOK'
  <2>1. \A u \in Tasks : task[u].status # "running"
    BY <1>1, CollaborationAssumption DEF CoreInv, RunningOK, JobOK, NoJob
  <2> QED BY <1>1, <1>7, <1>8, <2>1 DEF RunningOK
<1>12. Shape'
  BY <1>1, <1>7, <1>8 DEF CoreInv, Shape
<1> QED BY <1>8, <1>9, <1>10, <1>11, <1>12 DEF CoreInv

LEMMA LedgerStep == ASSUME CoreInv, WriteLedgers PROVE CoreInv'
<1>1. /\ worker.pc = "ledger" /\ up /\ Touch(W)
      /\ forgotten' = IF worker.stale THEN forgotten \union {W} ELSE forgotten
      /\ UNCHANGED <<wf, task, queue, handler, up, crashes, decided, confirmed, overtaken>>
  BY DEF WriteLedgers, At
<1>2. T \in Tasks /\ task[T] \in Row /\ W \in Workflows /\ worker \in Job
      /\ task[T].status = "running" /\ task[T].kind = "roundtable" /\ RowOK(T)
  BY <1>1, JobTask DEF CoreInv, JobOK, Place, Held
<1>3. rank' \in [Workflows -> 0 .. Cardinality(Workflows)]
  BY <1>1, <1>2, Ranks DEF CoreInv
<1> DEFINE to == IF task[T].cont THEN "awaiting_collaboration_confirmation"
                 ELSE "awaiting_boss_decision"
<1>4. to \in Awaiting /\ to \in States /\ (to = "awaiting_collaboration_confirmation" => W \in decided)
  BY <1>2 DEF Awaiting, States, Meeting, RowOK, W
<1>5. JobGoesOn
  <2>1. \/ worker' = [worker EXCEPT !.pc = "meet", !.stale = FALSE]
        \/ worker' = [worker EXCEPT !.pc = "trans", !.after = "minutes", !.stale = FALSE, !.to = to]
    BY DEF WriteLedgers
  <2> HIDE DEF to
  <2>2. CASE worker' = [worker EXCEPT !.pc = "meet", !.stale = FALSE]
    BY <1>1, <1>2, <2>2 DEF JobGoesOn, Job, JobOK, Place, T, W, Settled, Pcs, Held, Started,
         Reopens, Approved
  <2>3. CASE worker' = [worker EXCEPT !.pc = "trans", !.after = "minutes", !.stale = FALSE, !.to = to]
    BY <1>1, <1>2, <1>4, <2>3 DEF JobGoesOn, Job, JobOK, Place, T, W, Settled, Pcs, Held, Started,
       Reopens, Approved, Afters
  <2> QED BY <2>1, <2>2, <2>3
<1>6. Grows
  BY <1>1 DEF Grows, Later, Absent
<1>7. Shape' /\ QueueOK' /\ RunningOK'
  BY <1>1, <1>2, <1>3, <1>5 DEF CoreInv, Shape, QueueOK, Queued, RunningOK, JobGoesOn
<1>8. (\A u \in Tasks : RowOK(u)') /\ (\A w \in Workflows : WfOK(w)') /\ MessageOK'
  BY <1>1, <1>6, RowStays, WfStays, MessageStays DEF CoreInv
<1> QED BY <1>5, <1>7, <1>8 DEF CoreInv, JobGoesOn

LEMMA WorkerCore == CoreInv /\ WorkerStep => CoreInv'
BY MovesOfJob, TransWriteStep, SyncWriteStep, ResumeWriteStep, EndSteps, BeginStep, MarkSteps, ClaimStep,
   LedgerStep DEF WorkerStep

-------------------------------------------------------------------------------
(* Steps of the handler.                                                      *)

\* The job sees nothing of a message but its cancellation and a stale ledger.
Steady(t) ==
  /\ task'[t].status = task[t].status /\ task'[t].phase = task[t].phase
  /\ task'[t].approved = task[t].approved

Undisturbed ==
  \A t \in Tasks : /\ task[t].status \in {"running", "succeeded"} => Steady(t)
                   /\ task'[t].status = "running" => task[t].status = "running"

SameJob ==
  /\ worker' \in Job /\ worker'.pc = worker.pc /\ worker'.task = worker.task
  /\ worker'.to = worker.to /\ worker'.after = worker.after /\ worker'.out = worker.out
  /\ worker.pc = "idle" => worker' = worker

LEMMA JobStays ==
  ASSUME CoreInv, Grows, SameJob,
         \A t \in Tasks : task[t].status \in {"running", "succeeded"} => Steady(t)
  PROVE  JobOK'
<1>1. CASE worker.pc = "idle"
  <2>1. worker' = NoJob
    BY <1>1 DEF CoreInv, JobOK, SameJob
  <2> QED BY <2>1, IdleJob
<1>2. CASE worker.pc # "idle"
  <2>1. /\ T \in Tasks /\ task[T].status \in {"running", "succeeded"} /\ W \in Workflows
        /\ T' = T /\ Place' = Place /\ Later(task'[T], task[T]) /\ Steady(T)
    BY <1>2, JobTask DEF SameJob, T, Place, Grows, Belongs
  <2>2. W' = W /\ task'[T].kind = task[T].kind /\ task'[T].meeting = task[T].meeting
        /\ task'[T].retry = task[T].retry
    BY <2>1 DEF W, Later
  <2>3. task[T].kind # "roundtable" => task[T].meeting \in Tasks
    BY <2>1 DEF CoreInv, RowOK
  <2>4. task[T].kind # "roundtable" /\ Settled(task[T].meeting) =>
          task'[task[T].meeting].status = "succeeded" /\ worker'.task # task[T].meeting
    BY <2>3 DEF Settled, SameJob, Steady
  <2>5. /\ worker.pc = "return" /\ task[T].kind = "roundtable" => task[T].status = "succeeded"
        /\ ~ (worker.pc = "return" /\ task[T].kind = "roundtable") => task[T].status = "running"
    BY <1>2 DEF CoreInv, JobOK
  <2>6. worker'.pc # "idle" /\ worker'.task \in Tasks
    BY <1>2, <2>1 DEF SameJob, T
  <2>7. Place \in Started => Place \in {"start"} \union Started
    OBVIOUS
  <2>8. Place \in Started => Settled(task[T].meeting)'
    BY <2>1, <2>2, <2>4, <2>7 DEF CoreInv, JobOK, Settled
  <2>9. /\ Place \in Held => task[T].kind = "roundtable"
        /\ Place \in {"start"} \union Started => task[T].kind # "roundtable"
        /\ Place \in Approved \union {"receipt"} => task[T].phase = "execute"
        /\ Place \in Approved => task[T].approved
        /\ Place \in {"send", "deliver"} => task[T].kind = "report"
        /\ worker.pc \in Reopens => task[T].retry
    BY DEF CoreInv, JobOK
  <2>10. worker.pc \in {"trans", "commit"} =>
           /\ worker.after # "idle"
           /\ worker.to \in Awaiting => worker.after = "minutes"
           /\ worker.to = "awaiting_collaboration_confirmation" => W \in decided
           /\ worker.after = "return" => worker.to = "completed" /\ task[T].kind = "code"
    BY DEF CoreInv, JobOK
  <2>11. worker.pc \in {"sync", "syncwrite"} => worker.to \in {"cancelled", "failed"}
    BY DEF CoreInv, JobOK
  <2>12. W \in decided => W' \in decided'
    BY <2>2 DEF Grows
  <2>13. worker'.pc = worker.pc /\ worker'.to = worker.to /\ worker'.after = worker.after
    BY DEF SameJob
  <2>14. task'[T].status = task[T].status /\ task'[T].phase = task[T].phase
         /\ task'[T].approved = task[T].approved
    BY <2>1 DEF Steady
  <2> QED BY <2>1, <2>2, <2>5, <2>6, <2>8, <2>9, <2>10, <2>11, <2>12, <2>13, <2>14 DEF JobOK
<1> QED BY <1>1, <1>2

LEMMA HandlerKeeps ==
  ASSUME CoreInv, Grows, SameJob, up, up' = up, Shape', QueueOK', MessageOK',
         Undisturbed, \A t \in Tasks : RowOK(t)', \A w \in Workflows : WfOK(w)'
  PROVE  CoreInv'
<1>1. JobOK'
  BY JobStays DEF Undisturbed
<1>2. RunningOK'
  BY DEF CoreInv, RunningOK, SameJob, Undisturbed
<1> QED BY <1>1, <1>2 DEF CoreInv

LEMMA SameJobStays == ASSUME Shape, UNCHANGED worker PROVE SameJob
BY DEF Shape, SameJob

\* Steps that change nothing but the message's place.
LEMMA LetterKeeps ==
  ASSUME CoreInv, up, UNCHANGED otherThanHandler, handler' \in Letter, MessageOK'
  PROVE  CoreInv'
<1>1. UNCHANGED <<wf, rank, task, queue, worker, up, crashes, decided, forgotten, confirmed, overtaken>>
  BY DEF otherThanHandler
<1>2. Grows
  BY <1>1 DEF Grows, Later, Absent
<1>3. Shape' /\ QueueOK' /\ SameJob
  BY <1>1, SameJobStays DEF CoreInv, Shape, QueueOK, Queued
<1>4. (\A t \in Tasks : RowOK(t)') /\ (\A w \in Workflows : WfOK(w)')
  BY <1>1, <1>2, RowStays, WfStays DEF CoreInv
<1> QED BY <1>1, <1>2, <1>3, <1>4, HandlerKeeps DEF Undisturbed, Steady

LEMMA NoMessageOK == NoMessage \in Letter
BY DEF NoMessage, Letter, Asked

LEMMA IdleMessage ==
  ASSUME handler' = NoMessage
  PROVE  MessageOK' /\ handler' \in Letter
BY NoMessageOK DEF MessageOK, NoMessage

LEMMA ConveneStep ==
  ASSUME CoreInv, NEW refused, Convene(refused)
  PROVE  CoreInv'
<1>1. up /\ handler.pc = "idle" /\ UNCHANGED otherThanHandler /\ UNCHANGED <<wf, task, decided>>
  BY DEF Convene, HAt, otherThanHandler
<1>2. CASE handler' = [NoMessage EXCEPT !.pc = "create"]
  <2>1. handler' \in Letter /\ MessageOK'
    BY <1>2 DEF NoMessage, Letter, Asked, MessageOK
  <2> QED BY <1>1, <2>1, LetterKeeps
<1>3. CASE \E w \in Workflows : Open(w) /\
             handler' = [NoMessage EXCEPT !.pc = "trans", !.after = "create", !.wf = w]
  <2>1. PICK w \in Workflows : Open(w) /\
             handler' = [NoMessage EXCEPT !.pc = "trans", !.after = "create", !.wf = w]
    BY <1>3
  <2>2. wf[w].state # "absent"
    BY <2>1 DEF Open
  <2>3. handler' \in Letter /\ MessageOK'
    BY <1>1, <2>1, <2>2 DEF NoMessage, Letter, Asked, MessageOK
  <2> QED BY <1>1, <2>3, LetterKeeps
<1>4. (\E w \in Workflows : Active(w)) => Open(CHOOSE w \in Workflows : Active(w))
      /\ (CHOOSE w \in Workflows : Active(w)) \in Workflows
  BY DEF Active
<1> QED BY <1>2, <1>3, <1>4 DEF Convene

LEMMA AskSteps ==
  ASSUME CoreInv, Decide \/ HandOff \/ HandlerTransRead
  PROVE  CoreInv'
<1>1. up /\ UNCHANGED otherThanHandler /\ UNCHANGED <<wf, task, decided>>
  BY DEF Decide, HandOff, HandlerTransRead, HAt, otherThanHandler
<1>2. CASE Decide \/ HandOff
  <2>1. PICK w \in Workflows, p \in {"record", "handoff"} :
          /\ Open(w) /\ Concluded(w)
          /\ p = "handoff" => wf[w].state = "awaiting_collaboration_confirmation"
          /\ handler' = [NoMessage EXCEPT !.pc = p, !.wf = w, !.meeting = wf[w].task]
    BY <1>2 DEF Decide, HandOff, Active
  <2>2. wf[w].task \in Tasks /\ Belongs(wf[w].task, w) /\ task[wf[w].task].kind = "roundtable"
        /\ wf[w].state # "absent" /\ (p = "handoff" => w \in decided)
    BY <2>1 DEF CoreInv, Shape, Concluded, Open, WfOK
  <2>3. handler' \in Letter /\ MessageOK'
    BY <1>1, <2>1, <2>2, CollaborationAssumption
    DEF NoMessage, Letter, Asked, MessageOK, Belongs, Absent
  <2> QED BY <1>1, <2>3, LetterKeeps
<1>3. CASE HandlerTransRead /\ handler' = NoMessage
  BY <1>1, <1>3, IdleMessage, LetterKeeps
<1>4. CASE HandlerTransRead /\ HGoto("commit")
  <2>1. handler.pc = "trans" /\ handler' = [handler EXCEPT !.pc = "commit"]
    BY <1>4 DEF HandlerTransRead, HAt, HGoto
  <2>2. handler' \in Letter /\ MessageOK'
    BY <1>1, <2>1 DEF CoreInv, Shape, Letter, MessageOK, Belongs, Absent
  <2> QED BY <1>1, <2>2, LetterKeeps
<1> QED BY <1>2, <1>3, <1>4 DEF HandlerTransRead

\* A workflow's row is written by the handler.
LEMMA HandlerFlow ==
  ASSUME CoreInv, up, NEW w \in Workflows, NEW s \in States, NEW t \in Tasks \union {NoTask},
         SetState(w, s, t), t # NoTask => Belongs(t, w),
         s = "awaiting_collaboration_confirmation" => w \in decided,
         UNCHANGED <<task, queue, worker, up, crashes, decided, forgotten, confirmed>>,
         overtaken' \subseteq Workflows, handler' \in Letter, MessageOK'
  PROVE  CoreInv'
<1>1. /\ wf' \in [Workflows -> [state : States \union {"absent"}, task : Tasks \union {NoTask}]]
      /\ rank' \in [Workflows -> 0 .. Cardinality(Workflows)]
      /\ wf'[w].state = s
      /\ wf'[w].task = IF t = NoTask THEN wf[w].task ELSE t
      /\ \A v \in Workflows : v # w => wf'[v] = wf[v]
      /\ Grows
  BY StateMoves DEF CoreInv
<1>2. Shape' /\ QueueOK' /\ SameJob
  BY <1>1, SameJobStays DEF CoreInv, Shape, QueueOK, Queued
<1>3. \A u \in Tasks : RowOK(u)'
  BY <1>1, RowStays DEF CoreInv
<1>4. \A v \in Workflows : WfOK(v)'
  <2>1. WfOK(w)'
    <3>1. wf[w].task \in Tasks \union {NoTask} /\ WfOK(w)
      BY DEF CoreInv, Shape
    <3> QED BY <1>1, <3>1, BelongsStays DEF WfOK
  <2> QED BY <1>1, <2>1, WfStays DEF CoreInv
<1> QED BY <1>1, <1>2, <1>3, <1>4, HandlerKeeps DEF Undisturbed, Steady

LEMMA CreateStep == ASSUME CoreInv, Create PROVE CoreInv'
<1>1. PICK w \in Workflows :
        /\ up /\ handler.pc = "create" /\ wf[w].state = "absent"
        /\ SetState(w, "meeting_discussion", NoTask)
        /\ handler' = [handler EXCEPT !.pc = "submit", !.wf = w]
        /\ UNCHANGED <<task, queue, worker, up, crashes, decided, forgotten, confirmed, overtaken>>
  BY DEF Create, HAt
<1>2. "meeting_discussion" \in States
  BY DEF States, Meeting
<1>3. wf'[w].state # "absent"
  BY <1>1, <1>2, StateMoves DEF CoreInv
<1>4. handler' \in Letter /\ MessageOK'
  BY <1>1, <1>3 DEF CoreInv, Shape, Letter, MessageOK
<1>5. overtaken' \subseteq Workflows
  BY <1>1 DEF CoreInv, Shape
<1> QED BY <1>1, <1>2, <1>4, <1>5, HandlerFlow

LEMMA HandlerWriteStep == ASSUME CoreInv, HandlerTransWrite PROVE CoreInv'
<1> DEFINE w == handler.wf
           t == handler.task
<1>1. /\ up /\ handler.pc = "commit" /\ SetState(w, handler.to, t)
      /\ IF handler.after = "idle" THEN handler' = NoMessage
         ELSE handler' = [handler EXCEPT !.pc = handler.after]
      /\ UNCHANGED <<task, queue, worker, up, crashes, decided, forgotten, confirmed>>
  BY DEF HandlerTransWrite, HAt, HGoto
<1>2. /\ w \in Workflows /\ handler \in Letter /\ t \in Tasks \union {NoTask}
      /\ handler.to \in States /\ (t # NoTask => Belongs(t, w))
      /\ handler.to = "awaiting_collaboration_confirmation" => w \in decided
  <2>1. handler \in Letter /\ w \in Workflows /\ (t # NoTask => Belongs(t, w))
    BY <1>1 DEF CoreInv, Shape, MessageOK
  <2>2. handler.to = "awaiting_collaboration_confirmation" => w \in decided
    BY <1>1 DEF CoreInv, MessageOK
  <2> QED BY <2>1, <2>2 DEF Letter, Asked, States, Meeting, Underway, Ended
<1>3. overtaken' \subseteq Workflows
  BY <1>2 DEF HandlerTransWrite, CoreInv, Shape
<1>4. Grows
  BY <1>1, <1>2, StateMoves DEF CoreInv
<1>5. handler' \in Letter /\ MessageOK'
  <2>1. CASE handler.after = "idle"
    BY <1>1, <2>1, IdleMessage
  <2>2. CASE handler.after # "idle"
    <3>1. handler' = [handler EXCEPT !.pc = handler.after] /\ handler.after \in {"create", "submit"}
      BY <1>1, <1>2, <2>2 DEF Letter
    <3>2. handler' \in Letter /\ handler'.pc = handler.after /\ handler'.wf = handler.wf
          /\ handler'.task = handler.task /\ handler'.meeting = handler.meeting
      BY <1>2, <3>1 DEF Letter
    <3>3. MessageOK /\ wf'[w].state # "absent"
      BY <1>1, <1>2, StateMoves DEF CoreInv
    <3>4. /\ handler.meeting \in Tasks \union {NoTask}
          /\ handler.meeting # NoTask => Belongs(handler.meeting, w)
      BY <1>2, <3>3 DEF Letter, MessageOK
    <3>5. /\ t # NoTask => Belongs(t, w)'
          /\ handler.meeting # NoTask => Belongs(handler.meeting, w)'
      BY <1>1, <1>2, <3>2, <3>4 DEF Belongs, Absent
    <3> QED BY <1>1, <1>2, <3>1, <3>2, <3>3, <3>5 DEF MessageOK, Belongs, Absent
  <2> QED BY <2>1, <2>2
<1> HIDE DEF w, t
<1> QED BY <1>1, <1>2, <1>3, <1>5, HandlerFlow

LEMMA BindStep == ASSUME CoreInv, BindTask PROVE CoreInv'
<1>1. PICK w \in Workflows, t \in Tasks :
        /\ up /\ w = handler.wf /\ t = handler.task /\ Belongs(t, w)
        /\ wf' = [wf EXCEPT ![w] = [@ EXCEPT !.task = t]] /\ Touch(w) /\ handler' = NoMessage
        /\ UNCHANGED <<task, queue, worker, up, crashes, decided, forgotten, confirmed, overtaken>>
  <2>1. /\ up /\ handler.pc = "bind" /\ Touch(handler.wf) /\ handler' = NoMessage
        /\ wf' = [wf EXCEPT ![handler.wf] = [@ EXCEPT !.task = handler.task]]
        /\ UNCHANGED <<task, queue, worker, up, crashes, decided, forgotten, confirmed, overtaken>>
    BY DEF BindTask, HAt
  <2>2. handler.wf \in Workflows /\ handler.task \in Tasks /\ Belongs(handler.task, handler.wf)
    BY <2>1 DEF CoreInv, Shape, Letter, MessageOK
  <2> QED BY <2>1, <2>2
<1>2. /\ wf' \in [Workflows -> [state : States \union {"absent"}, task : Tasks \union {NoTask}]]
      /\ wf'[w].state = wf[w].state /\ wf'[w].task = t
      /\ \A v \in Workflows : v # w => wf'[v] = wf[v]
  BY <1>1 DEF CoreInv, Shape
<1>3. Grows
  BY <1>1, <1>2 DEF Grows, Later, Absent
<1>4. rank' \in [Workflows -> 0 .. Cardinality(Workflows)]
  BY <1>1, Ranks DEF CoreInv
<1>5. Shape' /\ QueueOK' /\ SameJob /\ MessageOK'
  BY <1>1, <1>2, <1>4, SameJobStays, IdleMessage DEF CoreInv, Shape, QueueOK, Queued
<1>6. \A u \in Tasks : RowOK(u)'
  BY <1>1, <1>3, RowStays DEF CoreInv
<1>7. \A v \in Workflows : WfOK(v)'
  <2>1. WfOK(w)'
    <3>1. WfOK(w)
      BY DEF CoreInv
    <3> QED BY <1>1, <1>2, <1>3, <3>1, BelongsStays DEF WfOK
  <2> QED BY <1>2, <1>3, <2>1, WfStays DEF CoreInv
<1> QED BY <1>1, <1>3, <1>5, <1>6, <1>7, HandlerKeeps DEF Undisturbed, Steady

LEMMA RecordStep == ASSUME CoreInv, RecordDecision PROVE CoreInv'
<1>1. /\ up /\ handler.pc = "record" /\ Touch(handler.wf)
      /\ decided' = decided \union {handler.wf}
      /\ UNCHANGED <<wf, task, queue, up, crashes, forgotten, confirmed, overtaken>>
  BY DEF RecordDecision, HAt
<1>2. /\ handler \in Letter /\ MessageOK /\ handler.wf \in Workflows /\ handler.meeting # NoTask
      /\ handler.meeting \in Tasks
  BY <1>1 DEF CoreInv, Shape, Letter, MessageOK
<1>3. SameJob
  BY DEF RecordDecision, CoreInv, Shape, Job, SameJob
<1>4. Grows
  BY <1>1 DEF Grows, Later, Absent
<1>5. handler' \in Letter /\ MessageOK'
  <2>1. \/ handler' = [handler EXCEPT !.pc = "trans", !.to = "awaiting_collaboration_confirmation",
                                     !.after = "idle", !.task = handler.meeting]
        \/ handler' = [handler EXCEPT !.pc = "trans", !.to = "meeting_continuation",
                                     !.after = "submit"]
    BY DEF RecordDecision
  <2>2. /\ wf[handler.wf].state # "absent" /\ Belongs(handler.meeting, handler.wf)
        /\ task[handler.meeting].kind = "roundtable"
        /\ handler.task # NoTask => Belongs(handler.task, handler.wf)
    BY <1>1, <1>2 DEF MessageOK
  <2>3. CASE handler' = [handler EXCEPT !.pc = "trans", !.to = "awaiting_collaboration_confirmation",
                                      !.after = "idle", !.task = handler.meeting]
    BY <1>1, <1>2, <2>2, <2>3 DEF Letter, Asked, MessageOK, Belongs, Absent
  <2>4. CASE handler' = [handler EXCEPT !.pc = "trans", !.to = "meeting_continuation",
                                      !.after = "submit"]
    BY <1>1, <1>2, <2>2, <2>4 DEF Letter, Asked, MessageOK, Belongs, Absent
  <2> QED BY <2>1, <2>3, <2>4
<1>6. rank' \in [Workflows -> 0 .. Cardinality(Workflows)]
  BY <1>1, <1>2, Ranks DEF CoreInv
<1>7. Shape' /\ QueueOK'
  BY <1>1, <1>2, <1>3, <1>5, <1>6 DEF CoreInv, Shape, QueueOK, Queued, SameJob
<1>8. (\A u \in Tasks : RowOK(u)') /\ (\A v \in Workflows : WfOK(v)')
  BY <1>1, <1>4, RowStays, WfStays DEF CoreInv
<1> QED BY <1>1, <1>3, <1>4, <1>5, <1>7, <1>8, HandlerKeeps DEF Undisturbed, Steady

-------------------------------------------------------------------------------
(* New tasks and the commands on tasks.                                       *)

LEMMA QueueGrows ==
  ASSUME QueueOK, NEW t \in Tasks, ~ Queued(t), queue' = Append(queue, t),
         \A u \in Tasks : Queued(u)' <=> Queued(u) \/ u = t
  PROVE  QueueOK'
<1>1. /\ queue' \in Seq(Tasks) /\ Len(queue') = Len(queue) + 1 /\ Len(queue) \in Nat
      /\ \A i \in 1 .. Len(queue) : queue'[i] = queue[i]
      /\ queue'[Len(queue) + 1] = t
  BY AppendProperties, LenProperties DEF QueueOK
<1>2. \A i \in 1 .. Len(queue) : queue[i] \in Tasks /\ Queued(queue[i])
  BY ElementOfSeq DEF QueueOK
<1>3. \A i \in 1 .. Len(queue') :
        \/ i \in 1 .. Len(queue) /\ queue'[i] = queue[i]
        \/ i = Len(queue) + 1 /\ queue'[i] = t
  BY <1>1
<1>4. \A i \in 1 .. Len(queue') : task'[queue'[i]].status = "queued"
  BY <1>2, <1>3 DEF Queued
<1>5. ASSUME NEW u \in Tasks, Queued(u)' PROVE \E i \in 1 .. Len(queue') : queue'[i] = u
  <2>1. CASE u = t
    BY <1>1, <2>1
  <2>2. CASE u # t
    <3>1. PICK i \in 1 .. Len(queue) : queue[i] = u
      BY <1>5, <2>2 DEF QueueOK
    <3>2. i \in 1 .. Len(queue') /\ queue'[i] = u
      BY <1>1, <3>1
    <3> QED BY <3>2
  <2> QED BY <2>1, <2>2
<1>6. ASSUME NEW i \in 1 .. Len(queue'), NEW j \in 1 .. Len(queue'), queue'[i] = queue'[j]
      PROVE  i = j
  BY <1>2, <1>3, <1>6 DEF QueueOK
<1> QED BY <1>1, <1>4, <1>5, <1>6 DEF QueueOK, Queued

LEMMA QueueShrinks ==
  ASSUME QueueOK, NEW t \in Tasks, Queued(t), queue' = Without(t),
         \A u \in Tasks : Queued(u)' <=> Queued(u) /\ u # t
  PROVE  QueueOK'
<1> DEFINE i == CHOOSE i \in DOMAIN queue : queue[i] = t
<1>1. Len(queue) \in Nat /\ DOMAIN queue = 1 .. Len(queue)
      /\ \A j \in 1 .. Len(queue) : queue[j] \in Tasks /\ Queued(queue[j])
  BY LenProperties, ElementOfSeq DEF QueueOK
<1>2. i \in 1 .. Len(queue) /\ queue[i] = t
  BY <1>1 DEF QueueOK
<1>3. queue' = [j \in 1 .. Len(queue) - 1 |-> IF j < i THEN queue[j] ELSE queue[j + 1]]
  BY DEF Without
<1> HIDE DEF i
<1>4. \A j \in 1 .. Len(queue) : j # i => queue[j] # t
  BY <1>2 DEF QueueOK
<1>5. Len(queue) - 1 \in Nat
  BY <1>1, <1>2
<1>6. \A j \in 1 .. Len(queue) - 1 :
        \/ j < i /\ j \in 1 .. Len(queue) /\ queue'[j] = queue[j]
        \/ j >= i /\ j + 1 \in 1 .. Len(queue) /\ j + 1 # i /\ queue'[j] = queue[j + 1]
  BY <1>1, <1>2, <1>3
<1>7. queue' \in [1 .. Len(queue) - 1 -> Tasks]
  BY <1>1, <1>3, <1>6
<1>8. queue' \in Seq(Tasks) /\ Len(queue') = Len(queue) - 1
  <2>1. queue' \in Seq(Tasks)
    BY <1>5, <1>7, SeqDef
  <2>2. DOMAIN queue' = 1 .. Len(queue) - 1 /\ DOMAIN queue' = 1 .. Len(queue')
        /\ Len(queue') \in Nat
    BY <1>3, <2>1, LenProperties
  <2> QED BY <1>5, <2>1, <2>2
<1>9. \A j \in 1 .. Len(queue') : task'[queue'[j]].status = "queued"
  BY <1>1, <1>4, <1>6, <1>8 DEF Queued
<1>10. ASSUME NEW u \in Tasks, Queued(u)' PROVE \E j \in 1 .. Len(queue') : queue'[j] = u
  <2>1. PICK k \in 1 .. Len(queue) : queue[k] = u
    BY <1>10 DEF QueueOK
  <2>2. k # i
    BY <1>2, <1>10, <2>1
  <2>3. CASE k < i
    <3>1. k \in 1 .. Len(queue) - 1
      BY <1>1, <1>2, <2>3
    <3>2. queue'[k] = queue[k]
      BY <1>3, <2>3, <3>1
    <3> QED BY <1>8, <2>1, <3>1, <3>2
  <2>4. CASE k > i
    <3>1. k - 1 \in 1 .. Len(queue) - 1 /\ k - 1 >= i /\ (k - 1) + 1 = k
      BY <1>1, <1>2, <2>4
    <3>2. queue'[k - 1] = queue[k]
      BY <1>2, <1>3, <3>1
    <3> QED BY <1>8, <2>1, <3>1, <3>2
  <2> QED BY <1>1, <1>2, <2>2, <2>3, <2>4
<1>11. ASSUME NEW j \in 1 .. Len(queue'), NEW k \in 1 .. Len(queue'), queue'[j] = queue'[k]
       PROVE  j = k
  <2>1. \A a, b \in 1 .. Len(queue) : queue[a] = queue[b] => a = b
    BY DEF QueueOK
  <2>2. j \in 1 .. Len(queue) - 1 /\ k \in 1 .. Len(queue) - 1
    BY <1>8
  <2>3. CASE j < i /\ k < i
    BY <1>3, <1>11, <2>1, <2>2, <2>3
  <2>4. CASE ~ (j < i) /\ ~ (k < i)
    <3>1. j + 1 = k + 1
      BY <1>3, <1>1, <1>5, <1>11, <2>1, <2>2, <2>4
    <3> QED BY <2>2, <3>1
  <2>5. CASE j < i /\ ~ (k < i)
    <3>1. j = k + 1
      BY <1>3, <1>1, <1>5, <1>11, <2>1, <2>2, <2>5
    <3> QED BY <1>2, <2>2, <2>5, <3>1
  <2>6. CASE ~ (j < i) /\ k < i
    <3>1. j + 1 = k
      BY <1>3, <1>1, <1>5, <1>11, <2>1, <2>2, <2>6
    <3> QED BY <1>2, <2>2, <2>6, <3>1
  <2> QED BY <2>3, <2>4, <2>5, <2>6
<1> QED BY <1>8, <1>9, <1>10, <1>11 DEF QueueOK, Queued

\* A row for a task that does not exist yet: submitted, or a retry.
Fresh(t, q) ==
  /\ q \in Row /\ q.status = "queued" /\ ~ q.cancel /\ ~ q.agreed
  /\ q.wf \in Workflows /\ wf[q.wf].state # "absent"
  /\ q.cont => q.wf \in decided
  /\ q.kind # "roundtable" =>
       /\ q.meeting \in Tasks
       /\ Belongs(q.meeting, q.wf) /\ task[q.meeting].kind = "roundtable"
       /\ q.wf \in decided \intersect confirmed'
  /\ q.approved => \E u \in Tasks : task[u].agreed /\ task[u].origin = q.origin

LEMMA RowAdds ==
  ASSUME CoreInv, NEW t \in Tasks, Absent(t), NEW q \in Row, Fresh(t, q),
         task' = [task EXCEPT ![t] = q], queue' = Append(queue, t),
         UNCHANGED <<wf, decided>>, confirmed \subseteq confirmed'
  PROVE  /\ task' \in [Tasks -> Row] /\ task'[t] = q
         /\ \A u \in Tasks : u # t => task'[u] = task[u]
         /\ Grows /\ QueueOK' /\ Undisturbed
         /\ \A u \in Tasks : RowOK(u)'
         /\ \A w \in Workflows : WfOK(w)'
<1>1. /\ task' \in [Tasks -> Row] /\ task'[t] = q
      /\ \A u \in Tasks : u # t => task'[u] = task[u]
      /\ Grows
  BY RowMoves DEF CoreInv
<1>2. task[t].status = "absent" /\ q.status = "queued"
  BY DEF Absent, Fresh
<1>3. QueueOK'
  <2>1. \A u \in Tasks : Queued(u)' <=> Queued(u) \/ u = t
    BY <1>1, <1>2 DEF Queued
  <2>2. ~ Queued(t)
    BY <1>2 DEF Queued
  <2> QED BY <2>1, <2>2, QueueGrows DEF CoreInv
<1>4. RowOK(t)'
  <2>1. q.kind # "roundtable" =>
          /\ q.meeting \in Tasks
          /\ Belongs(q.meeting, q.wf)' /\ task'[q.meeting].kind = "roundtable"
    BY <1>1, BelongsStays DEF Fresh
  <2>2. q.approved => \E u \in Tasks : task'[u].agreed /\ task'[u].origin = q.origin
    <3> SUFFICES ASSUME q.approved
                 PROVE  \E u \in Tasks : task'[u].agreed /\ task'[u].origin = q.origin
      OBVIOUS
    <3>1. PICK u \in Tasks : task[u].agreed /\ task[u].origin = q.origin
      BY DEF Fresh
    <3>2. u # t
      <4>1. task[t] = NoRow(t)
        <5>1. RowOK(t)
          BY DEF CoreInv
        <5> QED BY <5>1 DEF RowOK
      <4>2. NoRow(t).agreed = FALSE
        BY DEF NoRow, NewRow
      <4> QED BY <3>1, <4>1, <4>2
    <3> QED BY <1>1, <3>1, <3>2
  <2> QED BY <1>1, <1>2, <2>1, <2>2 DEF RowOK, Fresh, Absent, Belongs
<1>5. (\A u \in Tasks : RowOK(u)') /\ (\A w \in Workflows : WfOK(w)')
  BY <1>1, <1>4, RowStays, WfStays DEF CoreInv
<1>6. Undisturbed
  BY <1>1, <1>2 DEF Steady, Undisturbed
<1> QED BY <1>1, <1>3, <1>5, <1>6

LEMMA SubmitMeetingStep == ASSUME CoreInv, SubmitMeeting PROVE CoreInv'
<1> DEFINE c == handler.meeting # NoTask
<1>1. PICK t \in Tasks :
        /\ up /\ handler.pc = "submit" /\ Absent(t)
        /\ task' = [task EXCEPT ![t] = NewRow(t, "roundtable", handler.wf, c, NoTask)]
        /\ queue' = Append(queue, t)
        /\ handler' = [handler EXCEPT !.pc = "bind", !.task = t]
        /\ UNCHANGED <<wf, rank, worker, up, crashes, decided, forgotten, confirmed, overtaken>>
  BY DEF SubmitMeeting, HAt
<1> DEFINE q == NewRow(t, "roundtable", handler.wf, c, NoTask)
<1>2. /\ handler \in Letter /\ handler.wf \in Workflows /\ wf[handler.wf].state # "absent"
      /\ c \in BOOLEAN /\ (c => handler.wf \in decided)
  BY <1>1 DEF CoreInv, Shape, MessageOK
<1> HIDE DEF c
<1>3. /\ q \in Row /\ q.status = "queued" /\ q.cancel = FALSE /\ q.agreed = FALSE
      /\ q.wf = handler.wf /\ q.cont = c /\ q.kind = "roundtable" /\ q.approved = FALSE
  BY <1>2 DEF NewRow, Row, Live, Kinds
<1>4. task' = [task EXCEPT ![t] = q]
  BY <1>1
<1> HIDE DEF q
<1>5. Fresh(t, q)
  BY <1>2, <1>3 DEF Fresh
<1>6. /\ task' \in [Tasks -> Row] /\ task'[t] = q
      /\ Grows /\ QueueOK' /\ Undisturbed
      /\ \A u \in Tasks : RowOK(u)'
      /\ \A w \in Workflows : WfOK(w)'
  BY <1>1, <1>3, <1>4, <1>5, RowAdds
<1>7. handler' \in Letter /\ MessageOK'
  <2>1. /\ handler' \in Letter /\ handler'.pc = "bind" /\ handler'.task = t
        /\ handler'.wf = handler.wf /\ handler'.meeting = handler.meeting
    BY <1>1, <1>2 DEF Letter
  <2>2. /\ handler.meeting \in Tasks \union {NoTask}
        /\ handler.meeting # NoTask => /\ Belongs(handler.meeting, handler.wf)
                                       /\ task[handler.meeting].kind = "roundtable"
                                       /\ handler.wf \in decided
    BY <1>1, <1>2 DEF Letter, CoreInv, MessageOK
  <2>3. handler.meeting # NoTask => /\ task'[handler.meeting].status # "absent"
                                   /\ task'[handler.meeting].wf = handler.wf
                                   /\ task'[handler.meeting].kind = "roundtable"
    BY <2>2, <1>6 DEF Grows, Later, Belongs
  <2>4. task'[t].status # "absent" /\ task'[t].wf = handler.wf
    BY <1>3, <1>6
  <2>5. wf'[handler.wf].state # "absent" /\ decided' = decided
    BY <1>1, <1>2
  <2> HIDE DEF c, q
  <2> QED BY <1>2, <2>1, <2>2, <2>3, <2>4, <2>5, CollaborationAssumption
          DEF MessageOK, Belongs, Absent
<1>8. Shape' /\ SameJob
  BY <1>1, <1>6, <1>7, SameJobStays DEF CoreInv, Shape
<1> QED BY <1>1, <1>6, <1>7, <1>8, HandlerKeeps

LEMMA SubmitCollaborationStep == ASSUME CoreInv, SubmitCollaboration PROVE CoreInv'
<1>1. PICK t \in Tasks, k \in Modes :
        /\ up /\ handler.pc = "handoff" /\ Absent(t)
        /\ task' = [task EXCEPT ![t] = NewRow(t, k, handler.wf, FALSE, handler.meeting)]
        /\ queue' = Append(queue, t)
        /\ handler' = [handler EXCEPT !.pc = "trans", !.to = "planning",
                                      !.after = "idle", !.task = t]
        /\ confirmed' = confirmed \union {handler.wf}
        /\ UNCHANGED <<wf, rank, worker, up, crashes, decided, forgotten, overtaken>>
  BY DEF SubmitCollaboration, HAt
<1> DEFINE q == NewRow(t, k, handler.wf, FALSE, handler.meeting)
<1>2. /\ handler \in Letter /\ handler.wf \in Workflows /\ wf[handler.wf].state # "absent"
      /\ handler.meeting \in Tasks /\ Belongs(handler.meeting, handler.wf)
      /\ task[handler.meeting].kind = "roundtable" /\ handler.wf \in decided
  <2>1. handler \in Letter
    BY DEF CoreInv, Shape
  <2>2. handler.meeting \in Tasks
    BY <1>1, <2>1 DEF CoreInv, MessageOK, Letter
  <2> QED BY <1>1, <2>1, <2>2 DEF CoreInv, MessageOK
<1>3. /\ q \in Row /\ q.status = "queued" /\ q.cancel = FALSE /\ q.agreed = FALSE
      /\ q.wf = handler.wf /\ q.cont = FALSE /\ q.kind = k /\ q.approved = FALSE
      /\ q.meeting = handler.meeting
  BY <1>2, CollaborationAssumption DEF NewRow, Row, Live, Kinds
<1>4. task' = [task EXCEPT ![t] = q]
  BY <1>1
<1> HIDE DEF q
<1>5. Fresh(t, q)
  BY <1>1, <1>2, <1>3 DEF Fresh
<1>6. /\ task' \in [Tasks -> Row] /\ task'[t] = q
      /\ Grows /\ QueueOK' /\ Undisturbed
      /\ \A u \in Tasks : RowOK(u)'
      /\ \A w \in Workflows : WfOK(w)'
  BY <1>1, <1>3, <1>4, <1>5, RowAdds
<1>7. handler' \in Letter /\ MessageOK'
  <2>1. /\ handler' \in Letter /\ handler'.pc = "trans" /\ handler'.task = t
        /\ handler'.wf = handler.wf /\ handler'.meeting = handler.meeting
        /\ handler'.to = "planning" /\ handler'.after = "idle"
    BY <1>1, <1>2 DEF Letter, Asked
  <2>3. /\ task'[handler.meeting].status # "absent" /\ task'[handler.meeting].wf = handler.wf
        /\ task'[handler.meeting].kind = "roundtable"
    BY <1>2, <1>6 DEF Grows, Later, Belongs
  <2>4. task'[t].status # "absent" /\ task'[t].wf = handler.wf
    BY <1>3, <1>6
  <2>5. wf'[handler.wf].state # "absent" /\ decided' = decided
    BY <1>1, <1>2
  <2> QED BY <1>2, <2>1, <2>3, <2>4, <2>5 DEF MessageOK, Belongs, Absent
<1>8. Shape' /\ SameJob
  BY <1>1, <1>2, <1>6, <1>7, SameJobStays DEF CoreInv, Shape
<1> QED BY <1>1, <1>6, <1>7, <1>8, HandlerKeeps

LEMMA RetryStep == ASSUME CoreInv, NEW u \in Tasks, Retry(u) PROVE CoreInv'
<1>1. PICK t \in Tasks, reuse \in {task[u].approved, FALSE} :
        /\ up /\ handler.pc = "idle" /\ task[u].status \in Closed /\ Absent(t)
        /\ queue' = Append(queue, t)
        /\ task' = [task EXCEPT ![t] =
             [NewRow(t, task[u].kind, task[u].wf, task[u].cont, task[u].meeting)
                EXCEPT !.retry = TRUE, !.origin = task[u].origin,
                       !.phase = IF reuse \/ task[u].kind = "roundtable"
                                 THEN "execute" ELSE "planning",
                       !.approved = reuse]]
        /\ UNCHANGED <<wf, rank, worker, handler, up, crashes, decided, forgotten, confirmed, overtaken>>
  BY DEF Retry, HAt
<1> DEFINE q == [NewRow(t, task[u].kind, task[u].wf, task[u].cont, task[u].meeting)
                   EXCEPT !.retry = TRUE, !.origin = task[u].origin,
                          !.phase = IF reuse \/ task[u].kind = "roundtable"
                                    THEN "execute" ELSE "planning",
                          !.approved = reuse]
<1>2. task[u] \in Row /\ ~ Absent(u) /\ RowOK(u)
  BY <1>1 DEF CoreInv, Shape, Absent, Closed
<1>3. /\ q \in Row /\ q.status = "queued" /\ q.cancel = FALSE /\ q.agreed = FALSE
      /\ q.wf = task[u].wf /\ q.cont = task[u].cont /\ q.kind = task[u].kind
      /\ q.meeting = task[u].meeting /\ q.origin = task[u].origin /\ q.approved = reuse
  <2>1. reuse \in BOOLEAN
    BY <1>1, <1>2 DEF Row
  <2> DEFINE p == IF reuse \/ task[u].kind = "roundtable" THEN "execute" ELSE "planning"
  <2>2. p \in {"planning", "execute"}
    OBVIOUS
  <2>3. q = [NewRow(t, task[u].kind, task[u].wf, task[u].cont, task[u].meeting)
                   EXCEPT !.retry = TRUE, !.origin = task[u].origin, !.phase = p,
                          !.approved = reuse]
    OBVIOUS
  <2> DEFINE n == NewRow(t, task[u].kind, task[u].wf, task[u].cont, task[u].meeting)
  <2>4. /\ n \in Row /\ n.status = "queued" /\ n.cancel = FALSE /\ n.agreed = FALSE
        /\ n.wf = task[u].wf /\ n.cont = task[u].cont /\ n.kind = task[u].kind
        /\ n.meeting = task[u].meeting
    BY <1>2 DEF NewRow, Row, Live
  <2>5. task[u].origin \in Tasks
    BY <1>2 DEF Row
  <2>6. q = [n EXCEPT !.retry = TRUE, !.origin = task[u].origin, !.phase = p, !.approved = reuse]
    BY <2>3
  <2> HIDE DEF p, q, n
  <2>7. q \in Row
    BY <2>1, <2>2, <2>4, <2>5, <2>6 DEF Row
  <2>8. /\ q.status = n.status /\ q.cancel = n.cancel /\ q.agreed = n.agreed /\ q.wf = n.wf
        /\ q.cont = n.cont /\ q.kind = n.kind /\ q.meeting = n.meeting
        /\ q.origin = task[u].origin /\ q.approved = reuse
    BY <2>4, <2>6 DEF Row
  <2> QED BY <2>4, <2>7, <2>8
<1>4. task' = [task EXCEPT ![t] = q]
  BY <1>1
<1> HIDE DEF q
<1>5. Fresh(t, q)
  <2>1. reuse => task[u].approved
    BY <1>1
  <2>2. reuse => \E v \in Tasks : task[v].agreed /\ task[v].origin = q.origin
    BY <1>2, <1>3, <2>1 DEF RowOK
  <2> QED BY <1>1, <1>2, <1>3, <2>2 DEF Fresh, RowOK
<1>6. /\ task' \in [Tasks -> Row] /\ task'[t] = q
      /\ Grows /\ QueueOK' /\ Undisturbed
      /\ \A v \in Tasks : RowOK(v)'
      /\ \A w \in Workflows : WfOK(w)'
  BY <1>1, <1>3, <1>4, <1>5, RowAdds
<1>7. Shape' /\ SameJob /\ MessageOK'
  BY <1>1, <1>6, SameJobStays, MessageStays DEF CoreInv, Shape
<1> QED BY <1>1, <1>6, <1>7, HandlerKeeps

\* A command or an expiry changes a row that is no job's, or asks a job to stop.
LEMMA RowCommand ==
  ASSUME CoreInv, up, NEW t \in Tasks, ~ Absent(t), NEW q \in Row, Later(q, task[t]),
         task' = [task EXCEPT ![t] = q], QueueOK',
         q.status = "running" => task[t].status = "running",
         task[t].status \notin Closed,
         task[t].status = "running" =>
           q.status = "running" /\ q.phase = task[t].phase /\ q.approved = task[t].approved,
         q.approved => task[t].approved \/ q.agreed,
         q.status \in {"queued", "waiting_approval"} => ~ q.cancel,
         UNCHANGED <<wf, rank, worker, handler, up, crashes, decided, forgotten, confirmed, overtaken>>
  PROVE  CoreInv'
<1>1. /\ task' \in [Tasks -> Row] /\ task'[t] = q
      /\ \A u \in Tasks : u # t => task'[u] = task[u]
      /\ Grows
  BY RowMoves DEF CoreInv
<1>2. RowOK(t)'
  <2>1. CASE q.approved => task[t].approved
    BY <1>1, <2>1, RowStays DEF CoreInv
  <2>2. CASE q.approved /\ q.agreed
    <3>1. RowOK(t)
      BY DEF CoreInv
    <3>2. task[t].kind # "roundtable" =>
            /\ task[t].meeting \in Tasks
            /\ task'[task[t].meeting].status # "absent" /\ task'[task[t].meeting].wf = task[t].wf
            /\ task'[task[t].meeting].kind = "roundtable"
      BY <1>1, <3>1 DEF RowOK, Grows, Later, Belongs
    <3>3. task'[t].approved => \E v \in Tasks : task'[v].agreed /\ task'[v].origin = task'[t].origin
      BY <1>1, <2>2
    <3> QED BY <1>1, <3>1, <3>2, <3>3 DEF RowOK, Later, Absent, Belongs
  <2> QED BY <2>1, <2>2
<1>3. (\A v \in Tasks : RowOK(v)') /\ (\A w \in Workflows : WfOK(w)')
  BY <1>1, <1>2, RowStays, WfStays DEF CoreInv
<1>4. Shape' /\ SameJob /\ MessageOK'
  BY <1>1, SameJobStays, MessageStays DEF CoreInv, Shape
<1>5. Undisturbed
  BY <1>1 DEF Undisturbed, Steady, Closed
<1> QED BY <1>1, <1>3, <1>4, <1>5, HandlerKeeps

LEMMA ApproveStep == ASSUME CoreInv, NEW t \in Tasks, Approve(t) PROVE CoreInv'
<1> DEFINE q == [task[t] EXCEPT !.status = "queued", !.phase = "execute", !.approved = TRUE,
                                !.agreed = TRUE]
<1>1. /\ up /\ task[t].status = "waiting_approval" /\ task' = [task EXCEPT ![t] = q]
      /\ queue' = Append(queue, t)
      /\ UNCHANGED <<wf, rank, worker, handler, up, crashes, decided, forgotten, confirmed, overtaken>>
  BY DEF Approve, HAt
<1>2. task[t] \in Row /\ ~ Absent(t) /\ ~ task[t].cancel
  BY <1>1 DEF CoreInv, Shape, Absent, RowOK
<1>3. /\ q \in Row /\ Later(q, task[t]) /\ q.status = "queued" /\ q.agreed /\ ~ q.cancel
  BY <1>2 DEF Row, Live, Later
<1> HIDE DEF q
<1>4. \A u \in Tasks : Queued(u)' <=> Queued(u) \/ u = t
  BY <1>1, <1>3 DEF CoreInv, Shape, Queued
<1>5. QueueOK'
  BY <1>1, <1>4, QueueGrows DEF CoreInv, Queued
<1> QED BY <1>1, <1>2, <1>3, <1>5, RowCommand DEF Closed

LEMMA CancelStep == ASSUME CoreInv, NEW t \in Tasks, Cancel(t) PROVE CoreInv'
<1> DEFINE s == IF task[t].status = "running" THEN "running" ELSE "cancelled"
           q == [task[t] EXCEPT !.cancel = TRUE, !.status = s]
<1>1. /\ up /\ task[t].status \in Live /\ task' = [task EXCEPT ![t] = q]
      /\ queue' = IF task[t].status = "queued" THEN Without(t) ELSE queue
      /\ UNCHANGED <<wf, rank, worker, handler, up, crashes, decided, forgotten, confirmed, overtaken>>
  BY DEF Cancel, HAt
<1>2. task[t] \in Row /\ ~ Absent(t)
  BY <1>1 DEF CoreInv, Shape, Absent, Live
<1>3. s \in {"running", "cancelled"} /\ (s = "running" <=> task[t].status = "running")
  OBVIOUS
<1> HIDE DEF s
<1>4. /\ q \in Row /\ Later(q, task[t]) /\ q.status = s /\ q.phase = task[t].phase
      /\ q.approved = task[t].approved
  BY <1>2, <1>3 DEF Row, Live, Closed, Later
<1> HIDE DEF q
<1>5. \A u \in Tasks : Queued(u)' <=> Queued(u) /\ u # t
  BY <1>1, <1>3, <1>4 DEF CoreInv, Shape, Queued
<1>6. QueueOK'
  <2>1. CASE Queued(t)
    BY <1>1, <1>5, <2>1, QueueShrinks DEF CoreInv, Queued
  <2>2. CASE ~ Queued(t)
    <3>1. queue' = queue /\ \A i \in 1 .. Len(queue) : queue[i] \in Tasks
      BY <1>1, <2>2, ElementOfSeq DEF CoreInv, QueueOK, Queued
    <3>2. \A u \in Tasks : Queued(u)' <=> Queued(u)
      BY <1>5, <2>2
    <3> QED BY <3>1, <3>2 DEF CoreInv, QueueOK, Queued
  <2> QED BY <2>1, <2>2
<1>7. task[t].status \notin Closed /\ q.status \notin {"queued", "waiting_approval"}
  BY <1>1, <1>3, <1>4 DEF Live, Closed
<1> QED BY <1>1, <1>2, <1>3, <1>4, <1>6, <1>7, RowCommand

LEMMA ExpireStep == ASSUME CoreInv, Expire PROVE CoreInv'
<1>1. PICK t \in Tasks :
        /\ up /\ task[t].status = "waiting_approval"
        /\ task' = [task EXCEPT ![t] = [@ EXCEPT !.status = "cancelled"]]
        /\ UNCHANGED <<wf, rank, queue, worker, handler, up, crashes, decided, forgotten, confirmed,
                       overtaken>>
  BY DEF Expire
<1> DEFINE q == [task[t] EXCEPT !.status = "cancelled"]
<1>2. task[t] \in Row /\ ~ Absent(t)
  BY <1>1 DEF CoreInv, Shape, Absent
<1>3. /\ q \in Row /\ Later(q, task[t]) /\ q.status = "cancelled" /\ q.approved = task[t].approved
      /\ task' = [task EXCEPT ![t] = q]
  BY <1>1, <1>2 DEF Row, Closed, Later
<1> HIDE DEF q
<1>4. QueueOK'
  <2>1. \A i \in 1 .. Len(queue) : queue[i] \in Tasks
    BY ElementOfSeq DEF CoreInv, QueueOK
  <2>2. \A u \in Tasks : Queued(u)' <=> Queued(u)
    BY <1>1, <1>3 DEF CoreInv, Shape, Queued
  <2> QED BY <1>1, <2>1, <2>2 DEF CoreInv, QueueOK, Queued
<1> QED BY <1>1, <1>2, <1>3, <1>4, RowCommand DEF Closed

LEMMA HandlerCore == CoreInv /\ (HandlerStep \/ Message) => CoreInv'
BY CreateStep, SubmitMeetingStep, BindStep, RecordStep, SubmitCollaborationStep, AskSteps,
   HandlerWriteStep, ConveneStep, ExpireStep, ApproveStep, CancelStep, RetryStep
   DEF HandlerStep, Message, AskMeeting, AskCollaboration

-------------------------------------------------------------------------------
(* The process ends and starts again.                                         *)

LEMMA CrashStep == ASSUME CoreInv, Crash PROVE CoreInv'
<1>1. /\ up /\ crashes < MaxCrashes /\ up' = FALSE /\ crashes' = crashes + 1
      /\ worker' = NoJob /\ handler' = NoMessage
      /\ UNCHANGED <<wf, rank, task, queue, decided, forgotten, confirmed, overtaken>>
  BY DEF Crash
<1>2. Grows
  BY <1>1 DEF Grows, Later, Absent
<1>3. crashes' \in 0 .. MaxCrashes
  BY <1>1, CollaborationAssumption DEF CoreInv, Shape
<1>4. Shape' /\ QueueOK' /\ JobOK' /\ MessageOK'
  BY <1>1, <1>3, IdleJob, IdleMessage DEF CoreInv, Shape, QueueOK, Queued
<1>5. (\A t \in Tasks : RowOK(t)') /\ (\A w \in Workflows : WfOK(w)')
  BY <1>1, <1>2, RowStays, WfStays DEF CoreInv
<1>6. RunningOK'
  BY <1>1 DEF CoreInv, RunningOK, NoJob, NoMessage
<1> QED BY <1>4, <1>5, <1>6 DEF CoreInv

LEMMA RecoveredRow ==
  ASSUME CoreInv, NEW t \in Tasks
  PROVE  LET q == Recovered(task[t])
             r == task[t]
         IN  /\ q \in Row /\ q.status # "running" /\ (r.status # "absent" => Later(q, r))
             /\ q.approved = r.approved /\ q.cancel = r.cancel /\ q.phase = r.phase
             /\ q.wrote = r.wrote /\ q.sent = r.sent /\ q.agreed = r.agreed
             /\ q.origin = r.origin /\ q.kind = r.kind
             /\ r.status = "running" => q.status \in {"queued", "cancelled", "blocked"}
             /\ r.status = "running" /\ q.status = "queued" =>
                  ~ q.cancel /\ ~ (r.kind = "code" /\ r.phase = "execute")
             /\ r.status # "running" => q = r
<1>1. task[t] \in Row /\ (task[t].status = "queued" => ~ task[t].cancel)
  BY DEF CoreInv, Shape, RowOK
<1>2. CASE task[t].status = "running" /\ task[t].cancel
  BY <1>1, <1>2 DEF Recovered, Row, Closed, Live, Later
<1>3. CASE task[t].status = "running" /\ ~ task[t].cancel
  BY <1>1, <1>3 DEF Recovered, Row, Closed, Live, Later
<1>4. CASE task[t].status # "running"
  BY <1>1, <1>4 DEF Recovered, Later
<1> QED BY <1>2, <1>3, <1>4

LEMMA QueuePushed ==
  ASSUME QueueOK, NEW t \in Tasks, ~ Queued(t), queue' = <<t>> \o queue,
         \A u \in Tasks : Queued(u)' <=> Queued(u) \/ u = t
  PROVE  QueueOK'
<1>1. <<t>> \in Seq(Tasks) /\ Len(<<t>>) = 1 /\ <<t>>[1] = t
  OBVIOUS
<1>2. /\ queue' \in Seq(Tasks) /\ Len(queue') = 1 + Len(queue) /\ Len(queue) \in Nat
      /\ \A i \in 1 .. 1 + Len(queue) : queue'[i] = IF i <= 1 THEN <<t>>[i] ELSE queue[i - 1]
  BY <1>1, ConcatProperties, LenProperties DEF QueueOK
<1>3. queue'[1] = t /\ \A i \in 1 .. Len(queue) : queue'[i + 1] = queue[i]
  <2>1. 1 \in 1 .. 1 + Len(queue) /\ \A i \in 1 .. Len(queue) :
          i + 1 \in 1 .. 1 + Len(queue) /\ ~ (i + 1 <= 1) /\ (i + 1) - 1 = i
    BY <1>2
  <2> QED BY <1>1, <1>2, <2>1
<1>4. \A i \in 1 .. Len(queue) : queue[i] \in Tasks /\ Queued(queue[i])
  BY ElementOfSeq DEF QueueOK
<1>5. \A i \in 1 .. Len(queue') :
        i = 1 \/ (i - 1 \in 1 .. Len(queue) /\ queue'[i] = queue[i - 1])
  <2>1. \A i \in 1 .. Len(queue') : i = 1 \/ (i - 1 \in 1 .. Len(queue) /\ (i - 1) + 1 = i)
    BY <1>2
  <2> QED BY <1>3, <2>1
<1>6. \A i \in 1 .. Len(queue') : task'[queue'[i]].status = "queued"
  BY <1>3, <1>4, <1>5 DEF Queued
<1>7. ASSUME NEW u \in Tasks, Queued(u)' PROVE \E i \in 1 .. Len(queue') : queue'[i] = u
  <2>1. CASE u = t
    BY <1>2, <1>3, <2>1
  <2>2. CASE u # t
    <3>1. PICK i \in 1 .. Len(queue) : queue[i] = u
      BY <1>7, <2>2 DEF QueueOK
    <3>2. i + 1 \in 1 .. Len(queue') /\ queue'[i + 1] = u
      BY <1>2, <1>3, <3>1
    <3> QED BY <3>2
  <2> QED BY <2>1, <2>2
<1>8. ASSUME NEW i \in 1 .. Len(queue'), NEW j \in 1 .. Len(queue'), queue'[i] = queue'[j]
      PROVE  i = j
  <2>1. CASE i # 1 /\ j # 1
    <3>1. /\ i - 1 \in 1 .. Len(queue) /\ queue'[i] = queue[i - 1]
          /\ j - 1 \in 1 .. Len(queue) /\ queue'[j] = queue[j - 1]
      BY <1>5, <2>1
    <3>2. \A a, b \in 1 .. Len(queue) : queue[a] = queue[b] => a = b
      BY DEF QueueOK
    <3>3. i - 1 = j - 1
      BY <1>8, <3>1, <3>2
    <3>4. i \in Int /\ j \in Int
      BY <1>2
    <3> QED BY <3>3, <3>4
  <2>2. CASE i = 1 \/ j = 1
    BY <1>3, <1>4, <1>5, <1>8, <2>2
  <2> QED BY <2>1, <2>2
<1> QED BY <1>2, <1>6, <1>7, <1>8 DEF QueueOK, Queued

LEMMA StartAgain == ASSUME CoreInv, Start PROVE CoreInv'
<1>1. /\ ~ up /\ up' = TRUE /\ task' = [t \in Tasks |-> Recovered(task[t])]
      /\ UNCHANGED <<wf, rank, worker, handler, crashes, decided, forgotten, confirmed, overtaken>>
  BY DEF Start
<1> DEFINE again == {t \in Tasks : task[t].status = "running" /\ task'[t].status = "queued"}
<1>2. queue' = IF again = {} THEN queue ELSE <<CHOOSE t \in again : TRUE>> \o queue
  BY DEF Start
<1>3. \A t \in Tasks : task'[t] = Recovered(task[t])
  BY <1>1
<1>4. task' \in [Tasks -> Row] /\ \A t \in Tasks : task'[t].status # "running"
  BY <1>1, RecoveredRow
<1>5. Grows
  BY <1>1, <1>3, RecoveredRow DEF Grows, Absent
<1>6. worker' = NoJob /\ handler' = NoMessage
  BY <1>1 DEF CoreInv, RunningOK
<1>7. \A t \in Tasks : RowOK(t)'
  <2> SUFFICES ASSUME NEW t \in Tasks PROVE RowOK(t)'
    OBVIOUS
  <2>1. CASE task[t].status # "running"
    BY <1>3, <1>5, <2>1, RecoveredRow, RowStays DEF CoreInv
  <2>2. CASE task[t].status = "running"
    <3>1. /\ task'[t].approved = task[t].approved
          /\ task'[t].status \in {"queued", "waiting_approval"} => ~ task'[t].cancel
      BY <1>3, <2>2, RecoveredRow
    <3> QED BY <1>5, <2>2, <3>1, RowStays DEF CoreInv, Absent
  <2> QED BY <2>1, <2>2
<1>8. \A u \in Tasks : Queued(u)' <=> Queued(u) \/ u \in again
  BY <1>3, RecoveredRow DEF Queued
<1>9. \A t \in again : \A u \in again : t = u
  BY DEF CoreInv, RunningOK
<1>10. \A t \in again : t \in Tasks /\ ~ Queued(t)
  BY DEF Queued
<1> HIDE DEF again
<1>11. QueueOK'
  <2>1. CASE again = {}
    <3>1. \A i \in 1 .. Len(queue) : queue[i] \in Tasks
      BY ElementOfSeq DEF CoreInv, QueueOK
    <3>2. queue' = queue /\ \A u \in Tasks : Queued(u)' <=> Queued(u)
      BY <1>2, <1>8, <2>1
    <3> QED BY <3>1, <3>2 DEF CoreInv, QueueOK, Queued
  <2>2. CASE again # {}
    <3>1. PICK t \in again : t = CHOOSE u \in again : TRUE
      BY <2>2
    <3>2. t \in Tasks /\ ~ Queued(t) /\ queue' = <<t>> \o queue
      BY <1>2, <1>10, <2>2, <3>1
    <3>3. \A u \in Tasks : Queued(u)' <=> Queued(u) \/ u = t
      BY <1>8, <1>9
    <3> QED BY <3>2, <3>3, QueuePushed DEF CoreInv
  <2> QED BY <2>1, <2>2
<1>12. \A w \in Workflows : WfOK(w)'
  BY <1>1, <1>5, WfStays DEF CoreInv
<1>13. Shape' /\ JobOK' /\ MessageOK'
  BY <1>1, <1>4, <1>6, IdleJob, IdleMessage DEF CoreInv, Shape
<1>14. RunningOK'
  BY <1>1, <1>4 DEF RunningOK
<1> QED BY <1>7, <1>11, <1>12, <1>13, <1>14 DEF CoreInv

LEMMA InitCore == Init => CoreInv
<1> SUFFICES ASSUME Init PROVE CoreInv
  OBVIOUS
<1>1. \A t \in Tasks : task[t] = NoRow(t) /\ NoRow(t) \in Row /\ task[t].status = "absent"
  <2> TAKE t \in Tasks
  <2> DEFINE q == NewRow(t, "roundtable", NoWorkflow, FALSE, NoTask)
  <2>1. q \in Row
    BY DEF NewRow, Row, Kinds, Live
  <2> HIDE DEF q
  <2>2. [q EXCEPT !.status = "absent"] \in Row /\ [q EXCEPT !.status = "absent"].status = "absent"
    BY <2>1 DEF Row
  <2> QED BY <2>2 DEF Init, NoRow, q
<1>2. \A t \in Tasks : task[t].cont = FALSE /\ task[t].kind = "roundtable"
                       /\ task[t].approved = FALSE
  BY <1>1 DEF NoRow, NewRow
<1>3. queue = <<>> /\ worker = NoJob /\ handler = NoMessage /\ up = TRUE /\ crashes = 0
      /\ decided = {} /\ forgotten = {} /\ confirmed = {} /\ overtaken = {}
      /\ wf = [w \in Workflows |-> [state |-> "absent", task |-> NoTask]]
      /\ rank = [w \in Workflows |-> 0]
  BY DEF Init
<1>4. worker \in Job /\ JobOK
  BY <1>3 DEF Job, JobOK, NoJob, Place, Pcs, States, Ended, Afters, Closed, Held, Started, Reopens, Approved
<1>5. handler \in Letter /\ MessageOK
  BY <1>3, NoMessageOK DEF MessageOK, NoMessage
<1>6. 0 \in 0 .. Cardinality(Workflows) /\ 0 \in 0 .. MaxCrashes
  BY CollaborationAssumption, FS_CardinalityType
<1>7. Shape
  <2>1. task \in [Tasks -> Row]
    BY <1>1 DEF Init
  <2> QED BY <1>3, <1>4, <1>5, <1>6, <2>1 DEF Shape
<1>8. QueueOK
  BY <1>1, <1>3, EmptySeq DEF QueueOK, Queued
<1>9. (\A t \in Tasks : RowOK(t)) /\ (\A w \in Workflows : WfOK(w)) /\ RunningOK
  BY <1>1, <1>2, <1>3 DEF RowOK, WfOK, RunningOK, Absent
<1> QED BY <1>4, <1>5, <1>7, <1>8, <1>9 DEF CoreInv

LEMMA StepCore == CoreInv /\ [Next]_vars => CoreInv'
<1> SUFFICES ASSUME CoreInv, [Next]_vars PROVE CoreInv'
  OBVIOUS
<1>1. CASE UNCHANGED vars
  BY <1>1 DEF vars, CoreInv, Shape, QueueOK, Queued, RowOK, Absent, NoRow, NewRow, Belongs, WfOK,
     RunningOK, JobOK, Place, T, W, Settled, MessageOK
<1> QED BY <1>1, WorkerCore, HandlerCore, CrashStep, StartAgain DEF Next

\* The invariant that the theorems below rest on: rows, queue, job and message
\* fit together, whatever is cancelled, retried or interrupted.
THEOREM CoreInvariant == Spec => []CoreInv
BY InitCore, StepCore, PTL DEF Spec

\* The tables are type-correct, the queue holds exactly the queued tasks, and the
\* job and the message are of existing tasks and workflows.
THEOREM CollaborationTypes == Spec => []TypeOK
<1>1. CoreInv => TypeOK
  <2> SUFFICES ASSUME CoreInv PROVE TypeOK
    OBVIOUS
  <2>1. DOMAIN queue = 1 .. Len(queue) /\ \A i \in 1 .. Len(queue) : queue[i] \in Tasks
    BY LenProperties, ElementOfSeq DEF CoreInv, QueueOK
  <2>2. {queue[i] : i \in DOMAIN queue} = {t \in Tasks : task[t].status = "queued"}
    BY <2>1 DEF CoreInv, QueueOK, Queued
  <2>3. worker.task \in Tasks \union {NoTask} /\ worker.to \in States /\ worker.out \in Closed
        /\ (worker.pc # "idle" => worker.task # NoTask)
    BY CollaborationAssumption DEF CoreInv, Shape, Job, JobOK
  <2>4. handler.wf \in Workflows \union {NoWorkflow} /\ handler.to \in States
        /\ handler.task \in Tasks \union {NoTask} /\ handler.meeting \in Tasks \union {NoTask}
    BY DEF CoreInv, Shape, Letter, Asked, States, Meeting, Underway, Ended
  <2> QED BY <2>2, <2>3, <2>4 DEF CoreInv, Shape, TypeOK
<1> QED BY <1>1, CoreInvariant, PTL

-------------------------------------------------------------------------------
(* What a step does to the rows.                                              *)

Sets(s) == task' = [task EXCEPT ![T] = [@ EXCEPT !.status = s]]

\* The job's own row is the only one its steps write.
JobRow ==
  \/ UNCHANGED task /\ worker'.pc # "idle"
  \/ Sets("succeeded") /\ worker.pc = "minutes" /\ worker'.pc = "return"
  \/ \E s \in Closed \union {"waiting_approval"} :
       /\ Sets(s) /\ worker' = NoJob
       /\ s = "waiting_approval" => worker.pc = "park"
       /\ s = "succeeded" => worker.pc = "return"
  \/ /\ task' = [task EXCEPT ![T] = [@ EXCEPT !.wrote = TRUE]]
     /\ worker.pc = "work" /\ task[T].kind = "code"
     /\ worker' = [worker EXCEPT !.pc = "trans", !.to = "verifying", !.after = "verified"]
  \/ /\ task' = [task EXCEPT ![T] = [@ EXCEPT !.sent = TRUE]]
     /\ worker.pc = "send"
     /\ worker' = [worker EXCEPT !.pc = "trans", !.to = "verifying", !.after = "verified"]
  \/ /\ task' = [task EXCEPT ![T] = [@ EXCEPT !.delivered = TRUE]]
     /\ worker.pc = "deliver" /\ worker'.pc = "return"

LEMMA JobSteps ==
  ASSUME CoreInv, WorkerStep, ~ Claim
  PROVE  /\ worker.pc # "idle" /\ up /\ UNCHANGED <<handler, up, decided, confirmed>>
         /\ worker'.task \in {T, NoTask} /\ (worker'.pc = "idle" => worker' = NoJob)
         /\ JobRow
<1>0. worker \in Job
  BY DEF CoreInv, Shape
<1>1. CASE \/ RunnerRaises \/ TransRead \/ Meet \/ Plan \/ CheckReceipt \/ Generate \/ Complete
           \/ SyncRead
  <2>1. JobGoesOn
    BY <1>1, MoveSteps, ReadSteps DEF CoreInv
  <2>2. up /\ UNCHANGED otherThanWorker
    BY <1>1 DEF RunnerRaises, TransRead, Meet, Plan, CheckReceipt, Generate, Complete, SyncRead, At
  <2> QED BY <2>1, <2>2 DEF JobGoesOn, JobRow, otherThanWorker, T
<1>2. CASE TransWrite \/ ResumeWrite \/ StartCollaboration \/ ResumeRead \/ Resumed
  <2>1. JobGoesOn
    BY <1>2, TransWriteStep, ResumeWriteStep, StartMoves
  <2>2. up /\ FlowOnly
    BY <1>2 DEF TransWrite, ResumeWrite, StartCollaboration, ResumeRead, Resumed, At,
         otherThanWorker, FlowOnly
  <2> QED BY <2>1, <2>2 DEF JobGoesOn, JobRow, FlowOnly, T
<1>3. CASE SyncWrite
  <2>1. up /\ worker.pc = "syncwrite" /\ UNCHANGED otherThanFlow
        /\ worker' = [worker EXCEPT !.pc = "finish"]
    BY <1>3 DEF SyncWrite, At, Goto
  <2> QED BY <1>0, <2>1 DEF JobRow, otherThanFlow, T, Job
<1>4. CASE WriteLedgers
  <2>1. /\ up /\ worker.pc = "ledger" /\ UNCHANGED <<task, handler, up, decided, confirmed>>
        /\ worker' \in {[worker EXCEPT !.pc = "meet", !.stale = FALSE],
                        [worker EXCEPT !.pc = "trans", !.after = "minutes", !.stale = FALSE,
                           !.to = IF task[T].cont THEN "awaiting_collaboration_confirmation"
                                  ELSE "awaiting_boss_decision"]}
    BY <1>4 DEF WriteLedgers, At
  <2>2. worker'.task = worker.task /\ worker'.pc \in {"meet", "trans"}
    BY <1>0, <2>1 DEF Job
  <2> QED BY <2>1, <2>2 DEF JobRow, T
<1>5. CASE Begin
  <2>1. up /\ worker.pc = "claimed" /\ UNCHANGED <<handler, up, decided, confirmed>>
    BY <1>5 DEF Begin, At, otherThanRow
  <2>2. CASE task[T].cancel
    <3>1. Sets("cancelled") /\ worker' = NoJob
      BY <1>5, <2>2 DEF Begin, Sets
    <3> QED BY <2>1, <3>1 DEF JobRow, NoJob, Closed
  <2>3. CASE ~ task[T].cancel
    <3>1. UNCHANGED task /\ worker' = [worker EXCEPT !.pc = IF task[T].kind = "roundtable"
                                                            THEN "meet" ELSE "start"]
      BY <1>5, <2>3 DEF Begin, Goto
    <3> QED BY <1>0, <2>1, <3>1 DEF JobRow, T, Job
  <2> QED BY <2>2, <2>3
<1>6. CASE FinishMeeting
  <2>1. /\ up /\ worker.pc = "minutes" /\ UNCHANGED <<handler, up, decided, confirmed>>
        /\ Sets("succeeded") /\ worker' = [worker EXCEPT !.pc = "return"]
    BY <1>6 DEF FinishMeeting, At, Goto, otherThanRow, Sets
  <2> QED BY <1>0, <2>1 DEF JobRow, T, Job
<1>7. CASE Park \/ Return \/ Finish
  <2>1. up /\ worker' = NoJob /\ UNCHANGED <<handler, up, decided, confirmed>>
        /\ worker.pc \in {"park", "return", "finish"}
    BY <1>7 DEF Park, Return, Finish, At, otherThanRow
  <2>2. \E s \in Closed \union {"waiting_approval"} :
          /\ Sets(s)
          /\ s = "waiting_approval" => worker.pc = "park"
          /\ s = "succeeded" => worker.pc = "return"
    <3>1. CASE Park
      <4>1. Sets("waiting_approval") /\ worker.pc = "park"
        BY <3>1 DEF Park, At, Sets
      <4> QED BY <4>1
    <3>2. CASE Return
      <4>1. worker.pc = "return" /\ \E s \in {"cancelled", "succeeded"} : Sets(s)
        BY <3>2 DEF Return, At, Sets
      <4> QED BY <4>1 DEF Closed
    <3>3. CASE Finish
      <4>1. Sets(worker.out) /\ worker.out \in Closed \ {"succeeded"}
        BY <1>0, <3>3 DEF Finish, Sets, Job
      <4> QED BY <4>1 DEF Closed
    <3> QED BY <1>7, <3>1, <3>2, <3>3
  <2> QED BY <2>1, <2>2 DEF JobRow, NoJob
<1>8. CASE Write \/ Send
  <2>1. up /\ UNCHANGED <<handler, up, decided, confirmed>>
        /\ worker' = [worker EXCEPT !.pc = "trans", !.to = "verifying", !.after = "verified"]
    BY <1>8 DEF Write, Send, At, Transition, otherThanRow
  <2>2. \/ /\ task' = [task EXCEPT ![T] = [@ EXCEPT !.wrote = TRUE]]
           /\ worker.pc = "work" /\ task[T].kind = "code"
        \/ /\ task' = [task EXCEPT ![T] = [@ EXCEPT !.sent = TRUE]] /\ worker.pc = "send"
    BY <1>8 DEF Write, Send, At
  <2>3. worker'.task = worker.task /\ worker'.pc = "trans"
    BY <1>0, <2>1 DEF Job
  <2> QED BY <2>1, <2>2, <2>3 DEF JobRow, T
<1>9. CASE Deliver
  <2>1. /\ up /\ worker.pc = "deliver" /\ UNCHANGED <<handler, up, decided, confirmed>>
        /\ task' = [task EXCEPT ![T] = [@ EXCEPT !.delivered = TRUE]]
        /\ worker' = [worker EXCEPT !.pc = "return"]
    BY <1>9 DEF Deliver, At, Goto, otherThanRow
  <2> QED BY <1>0, <2>1 DEF JobRow, T, Job
<1> QED BY <1>1, <1>2, <1>3, <1>4, <1>5, <1>6, <1>7, <1>8, <1>9 DEF WorkerStep

\* The job writes the state of its workflow, and of no other.
JobFlow ==
  \/ UNCHANGED wf
  \/ \E s \in States : /\ SetState(W, s, T) /\ UNCHANGED task
                       /\ s \in Awaiting => worker.pc = "commit" /\ worker.after = "minutes"

LEMMA JobFlows == ASSUME CoreInv, WorkerStep PROVE JobFlow
<1>1. CASE TransWrite
  <2>1. worker.pc = "commit" /\ SetState(W, worker.to, T) /\ UNCHANGED task
    BY <1>1 DEF TransWrite, At
  <2>2. worker.to \in States /\ (worker.to \in Awaiting => worker.after = "minutes")
    BY <2>1 DEF CoreInv, Shape, Job, JobOK
  <2> QED BY <2>1, <2>2 DEF JobFlow
<1>2. CASE SyncWrite
  <2>1. worker.pc = "syncwrite" /\ SetState(W, worker.to, T) /\ UNCHANGED task
    BY <1>2 DEF SyncWrite, At, otherThanFlow
  <2>2. worker.to \in {"cancelled", "failed"}
    BY <2>1 DEF CoreInv, JobOK
  <2>3. worker.to \in States /\ worker.to \notin Awaiting
    BY <2>2 DEF States, Ended, Awaiting
  <2> QED BY <2>1, <2>3 DEF JobFlow
<1>3. CASE ResumeWrite
  <2>1. UNCHANGED task /\ \E s \in {"planning", "waiting_approval"} : SetState(W, s, T)
    BY <1>3 DEF ResumeWrite
  <2>2. \A s \in {"planning", "waiting_approval"} : s \in States /\ s \notin Awaiting
    BY DEF States, Underway, Awaiting
  <2> QED BY <2>1, <2>2 DEF JobFlow
<1>4. CASE ~ (TransWrite \/ SyncWrite \/ ResumeWrite)
  BY <1>4 DEF JobFlow, WorkerStep, Claim, Begin, RunnerRaises, TransRead, Meet, WriteLedgers,
     FinishMeeting, StartCollaboration, ResumeRead, Resumed, Plan, Park, CheckReceipt,
     Write, Generate, Send, Complete, Deliver, Return, SyncRead, Finish, otherThanWorker, otherThanRow
<1> QED BY <1>1, <1>2, <1>3, <1>4

\* The job's row before and after a step.
LEMMA JobKeeps ==
  ASSUME CoreInv, WorkerStep, ~ Claim
  PROVE  /\ T \in Tasks /\ task'[T] \in Row /\ task' = [task EXCEPT ![T] = task'[T]]
         /\ Later(task'[T], task[T]) /\ task'[T].phase = task[T].phase
         /\ task'[T].agreed = task[T].agreed
         /\ \/ task'[T].wrote = task[T].wrote
            \/ /\ task'[T].wrote /\ worker.pc = "work" /\ task[T].kind = "code"
               /\ task'[T].status = task[T].status /\ task'[T].sent = task[T].sent
               /\ worker'.pc = "trans" /\ worker'.after = "verified"
         /\ \/ task'[T].sent = task[T].sent
            \/ /\ worker.pc = "send" /\ task'[T].wrote = task[T].wrote
         /\ \/ task'[T].status = task[T].status /\ worker'.pc # "idle"
            \/ /\ worker.pc = "minutes" /\ task'[T].status = "succeeded"
               /\ worker'.pc = "return" /\ task'[T].wrote = task[T].wrote
            \/ /\ worker' = NoJob /\ task'[T].status \in Closed \union {"waiting_approval"}
               /\ task'[T].status = "waiting_approval" => worker.pc = "park"
               /\ task'[T].status = "succeeded" => worker.pc = "return"
               /\ task'[T].wrote = task[T].wrote
         /\ \A u \in Tasks : u # T => task'[u] = task[u]
         /\ Grows
<1>1. JobRow /\ UNCHANGED <<decided, confirmed>> /\ worker.pc # "idle" /\ worker \in Job
  BY JobSteps DEF CoreInv, Shape
<1>2. PICK t \in Tasks : /\ t = T /\ task[t] \in Row /\ ~ Absent(t)
  BY <1>1, JobTask DEF Belongs
<1>3. ASSUME NEW x \in Row, task' = [task EXCEPT ![t] = x]
      PROVE  /\ task'[t] = x /\ task' = [task EXCEPT ![t] = task'[t]]
             /\ \A u \in Tasks : u # t => task'[u] = task[u]
  BY <1>3 DEF CoreInv, Shape
<1> DEFINE Facts ==
             /\ task'[t] \in Row /\ task' = [task EXCEPT ![t] = task'[t]]
             /\ Later(task'[t], task[t]) /\ task'[t].phase = task[t].phase
             /\ task'[t].agreed = task[t].agreed
             /\ \/ task'[t].wrote = task[t].wrote
                \/ /\ task'[t].wrote /\ worker.pc = "work" /\ task[t].kind = "code"
                   /\ task'[t].status = task[t].status /\ task'[t].sent = task[t].sent
                   /\ worker'.pc = "trans" /\ worker'.after = "verified"
             /\ \/ task'[t].sent = task[t].sent
                \/ /\ worker.pc = "send" /\ task'[t].wrote = task[t].wrote
             /\ \/ task'[t].status = task[t].status /\ worker'.pc # "idle"
                \/ /\ worker.pc = "minutes" /\ task'[t].status = "succeeded"
                   /\ worker'.pc = "return" /\ task'[t].wrote = task[t].wrote
                \/ /\ worker' = NoJob /\ task'[t].status \in Closed \union {"waiting_approval"}
                   /\ task'[t].status = "waiting_approval" => worker.pc = "park"
                   /\ task'[t].status = "succeeded" => worker.pc = "return"
                   /\ task'[t].wrote = task[t].wrote
             /\ \A u \in Tasks : u # t => task'[u] = task[u]
<1>4. ASSUME UNCHANGED task, worker'.pc # "idle" PROVE Facts
  <2>1. task'[t] = task[t] /\ task' = [task EXCEPT ![t] = task'[t]]
    BY <1>4 DEF CoreInv, Shape
  <2> QED BY <1>2, <1>4, <2>1 DEF Later, Absent
<1>5. ASSUME NEW s \in Closed \union {"waiting_approval"}, Sets(s),
             \/ s = "succeeded" /\ worker.pc = "minutes" /\ worker'.pc = "return"
             \/ /\ worker' = NoJob /\ (s = "waiting_approval" => worker.pc = "park")
                /\ s = "succeeded" => worker.pc = "return"
      PROVE  Facts
  <2> DEFINE x == [task[t] EXCEPT !.status = s]
  <2>1. /\ x \in Row /\ Later(x, task[t]) /\ x.phase = task[t].phase /\ x.wrote = task[t].wrote
        /\ x.sent = task[t].sent /\ x.agreed = task[t].agreed /\ x.status = s
    BY <1>2 DEF Row, Later, Closed, Live
  <2>2. task' = [task EXCEPT ![t] = x]
    BY <1>2, <1>5 DEF Sets
  <2> HIDE DEF x
  <2>3. task'[t] = x /\ task' = [task EXCEPT ![t] = task'[t]]
        /\ \A u \in Tasks : u # t => task'[u] = task[u]
    BY <1>3, <2>1, <2>2
  <2> QED BY <1>5, <2>1, <2>3
<1>6. ASSUME NEW x, x \in {[task[t] EXCEPT !.wrote = TRUE], [task[t] EXCEPT !.sent = TRUE],
                           [task[t] EXCEPT !.delivered = TRUE]},
             task' = [task EXCEPT ![t] = x], worker'.pc # "idle",
             \/ /\ x = [task[t] EXCEPT !.wrote = TRUE] /\ worker.pc = "work"
                /\ task[t].kind = "code" /\ worker'.pc = "trans" /\ worker'.after = "verified"
             \/ x = [task[t] EXCEPT !.sent = TRUE] /\ worker.pc = "send"
             \/ x = [task[t] EXCEPT !.delivered = TRUE]
      PROVE  Facts
  <2>1. /\ x \in Row /\ Later(x, task[t]) /\ x.phase = task[t].phase
        /\ x.agreed = task[t].agreed /\ x.status = task[t].status
        /\ \/ x.wrote = task[t].wrote
           \/ /\ x.wrote /\ x.sent = task[t].sent /\ worker.pc = "work" /\ task[t].kind = "code"
              /\ worker'.pc = "trans" /\ worker'.after = "verified"
        /\ x.sent = task[t].sent \/ (worker.pc = "send" /\ x.wrote = task[t].wrote)
    BY <1>2, <1>6 DEF Row, Later, Absent
  <2>2. task'[t] = x /\ task' = [task EXCEPT ![t] = task'[t]]
        /\ \A u \in Tasks : u # t => task'[u] = task[u]
    BY <1>3, <1>6, <2>1
  <2> QED BY <1>6, <2>1, <2>2
<1>7. Facts
  <2>1. CASE Sets("succeeded") /\ worker.pc = "minutes" /\ worker'.pc = "return"
    BY <1>5, <2>1 DEF Closed
  <2>2. CASE \E s \in Closed \union {"waiting_approval"} :
               /\ Sets(s) /\ worker' = NoJob
               /\ s = "waiting_approval" => worker.pc = "park"
               /\ s = "succeeded" => worker.pc = "return"
    BY <1>5, <2>2
  <2> DEFINE next == [worker EXCEPT !.pc = "trans", !.to = "verifying", !.after = "verified"]
  <2>3. next.pc = "trans" /\ next.after = "verified"
    BY <1>1 DEF Job
  <2> HIDE DEF Facts, next
  <2>4. CASE /\ task' = [task EXCEPT ![T] = [@ EXCEPT !.wrote = TRUE]]
             /\ worker.pc = "work" /\ task[T].kind = "code" /\ worker' = next
    BY <1>2, <1>6, <2>3, <2>4
  <2>5. CASE /\ task' = [task EXCEPT ![T] = [@ EXCEPT !.sent = TRUE]]
             /\ worker.pc = "send" /\ worker' = next
    BY <1>2, <1>6, <2>3, <2>5
  <2>6. CASE /\ task' = [task EXCEPT ![T] = [@ EXCEPT !.delivered = TRUE]]
             /\ worker.pc = "deliver" /\ worker'.pc = "return"
    BY <1>2, <1>6, <2>6
  <2> QED BY <1>1, <1>4, <2>1, <2>2, <2>4, <2>5, <2>6 DEF JobRow, next
<1>8. \A w \in Workflows : wf[w].state # "absent" => wf'[w].state # "absent"
  <2>1. CASE UNCHANGED wf
    BY <2>1
  <2>2. CASE \E s \in States : SetState(W, s, T) /\ UNCHANGED task
    <3>1. PICK w \in Workflows, s \in States : SetState(w, s, t) /\ UNCHANGED task
      BY <1>1, <1>2, <2>2, JobTask
    <3> QED BY <1>1, <3>1, StateMoves DEF CoreInv
  <2> QED BY <2>1, <2>2, JobFlows DEF JobFlow
<1>9. Grows
  BY <1>1, <1>7, <1>8 DEF Grows, Later, Absent
<1> QED BY <1>2, <1>7, <1>9

\* A row that moves but keeps what was written under which approval.
Kept(q, r) ==
  /\ q \in Row /\ Later(q, r) /\ q.wrote = r.wrote /\ q.sent = r.sent /\ q.agreed = r.agreed
  /\ q.phase = r.phase

Opens(t, q) ==
  /\ Absent(t) /\ task' = [task EXCEPT ![t] = q]
  /\ q \in Row /\ q.status = "queued" /\ ~ q.wrote /\ ~ q.sent /\ ~ q.agreed
  /\ \/ q.origin = t
     \/ \E u \in Tasks : task[u].status \in Closed /\ q.origin = task[u].origin
  /\ \/ q.retry /\ UNCHANGED <<wf, handler>>
     \/ /\ q.kind = "roundtable" /\ handler.pc = "submit" /\ q.wf = handler.wf
        /\ handler' = [handler EXCEPT !.pc = "bind", !.task = t] /\ UNCHANGED wf
     \/ q.kind # "roundtable" /\ handler.pc = "handoff"

Agrees(t) ==
  /\ task[t].status = "waiting_approval"
  /\ task' = [task EXCEPT ![t] = [@ EXCEPT !.status = "queued", !.phase = "execute",
                                           !.approved = TRUE, !.agreed = TRUE]]

Stops(t, q) ==
  /\ task' = [task EXCEPT ![t] = q] /\ Kept(q, task[t])
  /\ \/ task[t].status = "running" /\ q.status = "running"
     \/ task[t].status \in {"queued", "waiting_approval"} /\ q.status = "cancelled"

\* A message opens a row, approves one, or stops one.
MessageRow ==
  \/ UNCHANGED task
  \/ \E t \in Tasks, q \in Row : Opens(t, q)
  \/ \E t \in Tasks : Agrees(t) /\ UNCHANGED <<wf, handler>>
  \/ \E t \in Tasks, q \in Row : Stops(t, q) /\ UNCHANGED <<wf, handler>>

LEMMA OpensMeeting == ASSUME CoreInv, SubmitMeeting PROVE \E t \in Tasks, q \in Row : Opens(t, q)
<1> DEFINE c == handler.meeting # NoTask
<1>1. PICK t \in Tasks :
        /\ up /\ handler.pc = "submit" /\ Absent(t)
        /\ task' = [task EXCEPT ![t] = NewRow(t, "roundtable", handler.wf, c, NoTask)]
        /\ handler' = [handler EXCEPT !.pc = "bind", !.task = t] /\ UNCHANGED wf
  BY DEF SubmitMeeting, HAt
<1>2. handler.wf \in Workflows /\ c \in BOOLEAN /\ "roundtable" \in Kinds
  BY <1>1 DEF CoreInv, MessageOK, Kinds
<1> HIDE DEF c
<1> DEFINE q == NewRow(t, "roundtable", handler.wf, c, NoTask)
<1>3. /\ q \in Row /\ q.status = "queued" /\ q.agreed = FALSE /\ q.wrote = FALSE /\ q.sent = FALSE
      /\ q.origin = t /\ q.kind = "roundtable" /\ q.wf = handler.wf
  BY <1>2 DEF NewRow, Row, Live, Kinds
<1>4. task' = [task EXCEPT ![t] = q]
  BY <1>1
<1> HIDE DEF q
<1>5. Opens(t, q)
  BY <1>1, <1>3, <1>4 DEF Opens
<1> QED BY <1>3, <1>5

LEMMA OpensCollaboration ==
  ASSUME CoreInv, SubmitCollaboration PROVE \E t \in Tasks, q \in Row : Opens(t, q)
<1>1. PICK t \in Tasks, k \in Modes :
        /\ up /\ handler.pc = "handoff" /\ Absent(t)
        /\ task' = [task EXCEPT ![t] = NewRow(t, k, handler.wf, FALSE, handler.meeting)]
  BY DEF SubmitCollaboration, HAt
<1>2. handler.wf \in Workflows /\ handler.meeting \in Tasks \union {NoTask}
      /\ k \in Kinds /\ k # "roundtable"
  BY <1>1, CollaborationAssumption DEF CoreInv, Shape, Letter, MessageOK, Kinds
<1> DEFINE q == NewRow(t, k, handler.wf, FALSE, handler.meeting)
<1>3. /\ q \in Row /\ q.status = "queued" /\ q.agreed = FALSE /\ q.wrote = FALSE /\ q.sent = FALSE
      /\ q.origin = t /\ q.kind = k
  BY <1>2 DEF NewRow, Row, Live, Kinds
<1>4. task' = [task EXCEPT ![t] = q]
  BY <1>1
<1> HIDE DEF q
<1>5. Opens(t, q)
  BY <1>1, <1>2, <1>3, <1>4 DEF Opens
<1> QED BY <1>3, <1>5

LEMMA OpensRetry ==
  ASSUME CoreInv, NEW u \in Tasks, Retry(u) PROVE \E t \in Tasks, q \in Row : Opens(t, q)
<1> DEFINE n(t) == NewRow(t, task[u].kind, task[u].wf, task[u].cont, task[u].meeting)
           p(reuse) == IF reuse \/ task[u].kind = "roundtable" THEN "execute" ELSE "planning"
<1>1. PICK t \in Tasks, reuse \in {task[u].approved, FALSE} :
        /\ task[u].status \in Closed /\ Absent(t) /\ UNCHANGED <<wf, handler>>
        /\ task' = [task EXCEPT ![t] = [n(t) EXCEPT !.retry = TRUE, !.origin = task[u].origin,
                                                    !.phase = p(reuse), !.approved = reuse]]
  BY DEF Retry
<1>2. task[u] \in Row /\ task[u].wf \in Workflows
  BY <1>1 DEF CoreInv, Shape, RowOK, Absent, Closed
<1>3. /\ reuse \in BOOLEAN /\ p(reuse) \in {"planning", "execute"} /\ task[u].origin \in Tasks
      /\ task[u].kind \in Kinds /\ task[u].cont \in BOOLEAN
      /\ task[u].meeting \in Tasks \union {NoTask}
  BY <1>1, <1>2 DEF Row
<1>4. /\ n(t) \in Row /\ n(t).status = "queued" /\ n(t).agreed = FALSE /\ n(t).wrote = FALSE
      /\ n(t).sent = FALSE
  BY <1>2, <1>3 DEF NewRow, Row, Live
<1> DEFINE q == [n(t) EXCEPT !.retry = TRUE, !.origin = task[u].origin, !.phase = p(reuse),
                             !.approved = reuse]
<1> HIDE DEF n, p
<1>5. /\ q \in Row /\ q.status = "queued" /\ q.agreed = FALSE /\ q.wrote = FALSE /\ q.sent = FALSE
      /\ q.origin = task[u].origin /\ q.retry = TRUE
  BY <1>3, <1>4 DEF Row
<1>6. task' = [task EXCEPT ![t] = q]
  BY <1>1
<1> HIDE DEF q
<1>7. Opens(t, q)
  BY <1>1, <1>5, <1>6 DEF Opens
<1> QED BY <1>5, <1>7

LEMMA MessageSteps ==
  ASSUME CoreInv, HandlerStep \/ Message
  PROVE  /\ up /\ UNCHANGED up /\ SameJob /\ MessageRow
         /\ ~ RecordDecision => UNCHANGED worker
<1>0. worker \in Job
  BY DEF CoreInv, Shape
<1>1. up /\ UNCHANGED up
  BY DEF HandlerStep, Message, Create, SubmitMeeting, BindTask, RecordDecision, SubmitCollaboration,
     HandlerTransRead, HandlerTransWrite, AskMeeting, AskCollaboration, Convene, Decide, HandOff,
     Expire, Approve, Cancel, Retry, HAt, otherThanHandler
<1>2. CASE RecordDecision
  <2>1. UNCHANGED task /\ worker' \in {worker, [worker EXCEPT !.stale = TRUE]}
    BY <1>2 DEF RecordDecision
  <2>2. SameJob
    BY <1>0, <2>1, <1>2 DEF RecordDecision, SameJob, Job, CoreInv, JobOK
  <2> QED BY <1>1, <1>2, <2>1, <2>2 DEF MessageRow
<1>3. CASE ~ RecordDecision
  <2>1. UNCHANGED worker
    BY <1>3 DEF HandlerStep, Message, Create, SubmitMeeting, BindTask, SubmitCollaboration,
       HandlerTransRead, HandlerTransWrite, AskMeeting, AskCollaboration, Convene, Decide, HandOff,
       Expire, Approve, Cancel, Retry, otherThanHandler
  <2>2. SameJob
    BY <2>1, SameJobStays DEF CoreInv
  <2>3. MessageRow
    <3>1. CASE Create \/ BindTask \/ HandlerTransRead \/ HandlerTransWrite \/ AskMeeting
               \/ AskCollaboration \/ Decide \/ HandOff
      BY <3>1 DEF MessageRow, Create, BindTask, HandlerTransRead, HandlerTransWrite, AskMeeting,
         AskCollaboration, Convene, Decide, HandOff, otherThanHandler
    <3>2. CASE SubmitMeeting \/ SubmitCollaboration \/ \E t \in Tasks : Retry(t)
      BY <3>2, OpensMeeting, OpensCollaboration, OpensRetry DEF MessageRow
    <3>3. CASE \E t \in Tasks : Approve(t)
      BY <3>3 DEF Approve, Agrees, MessageRow
    <3>4. ASSUME NEW t \in Tasks, Cancel(t) PROVE MessageRow
      <4> DEFINE q == [task[t] EXCEPT !.cancel = TRUE,
                         !.status = IF task[t].status = "running" THEN "running" ELSE "cancelled"]
      <4>1. /\ task[t].status \in Live /\ task' = [task EXCEPT ![t] = q] /\ UNCHANGED <<wf, handler>>
        BY <3>4 DEF Cancel
      <4>2. task[t] \in Row
        BY DEF CoreInv, Shape
      <4>3. /\ Kept(q, task[t])
            /\ q.status = IF task[t].status = "running" THEN "running" ELSE "cancelled"
        BY <4>1, <4>2 DEF Kept, Later, Row, Live, Closed
      <4> HIDE DEF q
      <4>4. q \in Row /\ Stops(t, q)
        BY <4>1, <4>3 DEF Stops, Live, Kept
      <4> QED BY <4>1, <4>4 DEF MessageRow
    <3>5. CASE Expire
      <4>1. PICK t \in Tasks :
              /\ task[t].status = "waiting_approval" /\ UNCHANGED <<wf, handler>>
              /\ task' = [task EXCEPT ![t] = [@ EXCEPT !.status = "cancelled"]]
        BY <3>5 DEF Expire
      <4> DEFINE q == [task[t] EXCEPT !.status = "cancelled"]
      <4>2. task[t] \in Row
        BY DEF CoreInv, Shape
      <4>3. Kept(q, task[t]) /\ q.status = "cancelled" /\ task' = [task EXCEPT ![t] = q]
        BY <4>1, <4>2 DEF Kept, Later, Row, Closed
      <4> HIDE DEF q
      <4>4. q \in Row /\ Stops(t, q)
        BY <4>1, <4>3 DEF Stops, Kept
      <4> QED BY <4>1, <4>4 DEF MessageRow
    <3> QED BY <1>3, <3>1, <3>2, <3>3, <3>4, <3>5 DEF HandlerStep, Message
  <2> QED BY <1>1, <2>1, <2>2, <2>3
<1> QED BY <1>2, <1>3

LEMMA MessageGrows ==
  ASSUME CoreInv, HandlerStep \/ Message
  PROVE  Grows /\ \A t \in Tasks : ~ Absent(t) => task'[t].wrote = task[t].wrote
                                                 /\ task'[t].sent = task[t].sent
<1>1. decided \subseteq decided' /\ confirmed \subseteq confirmed'
  BY DEF HandlerStep, Message, Create, SubmitMeeting, BindTask, RecordDecision, SubmitCollaboration,
     HandlerTransRead, HandlerTransWrite, AskMeeting, AskCollaboration, Convene, Decide, HandOff,
     Expire, Approve, Cancel, Retry, otherThanHandler
<1>2. \A t \in Tasks : ~ Absent(t) => /\ Later(task'[t], task[t]) /\ task'[t].wrote = task[t].wrote
                                      /\ task'[t].sent = task[t].sent
  <2>1. CASE UNCHANGED task
    BY <2>1 DEF Later, Absent
  <2>2. ASSUME NEW t \in Tasks, NEW q \in Row, Opens(t, q)
        PROVE  \A u \in Tasks : ~ Absent(u) => task'[u] = task[u]
    BY <2>2 DEF Opens, CoreInv, Shape
  <2>3. ASSUME NEW t \in Tasks, NEW q \in Row, task' = [task EXCEPT ![t] = q],
               Later(q, task[t]), q.wrote = task[t].wrote, q.sent = task[t].sent
        PROVE  \A u \in Tasks : ~ Absent(u) =>
                 /\ Later(task'[u], task[u]) /\ task'[u].wrote = task[u].wrote
                 /\ task'[u].sent = task[u].sent
    BY <2>3 DEF CoreInv, Shape, Later, Absent
  <2>4. ASSUME NEW t \in Tasks, Agrees(t)
        PROVE  \A u \in Tasks : ~ Absent(u) =>
                 /\ Later(task'[u], task[u]) /\ task'[u].wrote = task[u].wrote
                 /\ task'[u].sent = task[u].sent
    <3> DEFINE q == [task[t] EXCEPT !.status = "queued", !.phase = "execute", !.approved = TRUE,
                                    !.agreed = TRUE]
    <3>1. task[t] \in Row /\ task[t].status # "absent" /\ task' = [task EXCEPT ![t] = q]
      BY <2>4 DEF Agrees, CoreInv, Shape
    <3>2. q \in Row /\ Later(q, task[t]) /\ q.wrote = task[t].wrote /\ q.sent = task[t].sent
      BY <3>1 DEF Row, Live, Later
    <3> HIDE DEF q
    <3> QED BY <2>3, <3>1, <3>2
  <2>5. ASSUME NEW t \in Tasks, NEW q \in Row, Stops(t, q)
        PROVE  \A u \in Tasks : ~ Absent(u) =>
                 /\ Later(task'[u], task[u]) /\ task'[u].wrote = task[u].wrote
                 /\ task'[u].sent = task[u].sent
    BY <2>3, <2>5 DEF Stops, Kept
  <2>6. MessageRow
    BY MessageSteps
  <2>7. (\E t \in Tasks, q \in Row : Opens(t, q)) =>
          \A u \in Tasks : ~ Absent(u) => /\ Later(task'[u], task[u]) /\ task'[u].wrote = task[u].wrote
                                          /\ task'[u].sent = task[u].sent
    BY <2>2 DEF Later, Absent
  <2> QED BY <2>1, <2>4, <2>5, <2>6, <2>7 DEF MessageRow
<1>3. \A w \in Workflows : wf[w].state # "absent" => wf'[w].state # "absent"
  <2>1. CASE Create
    <3>1. PICK w \in Workflows : SetState(w, "meeting_discussion", NoTask)
                                 /\ UNCHANGED <<task, decided, confirmed>>
      BY <2>1 DEF Create
    <3>2. "meeting_discussion" \in States
      BY DEF States, Meeting
    <3> QED BY <3>1, <3>2, StateMoves DEF CoreInv, Grows
  <2>2. CASE HandlerTransWrite
    <3>1. handler.pc = "commit" /\ SetState(handler.wf, handler.to, handler.task)
          /\ UNCHANGED <<task, decided, confirmed>>
      BY <2>2 DEF HandlerTransWrite, HAt
    <3>2. PICK w \in Workflows, s \in States, t \in Tasks \union {NoTask} :
            SetState(w, s, t) /\ UNCHANGED <<task, decided, confirmed>>
      BY <3>1 DEF CoreInv, Shape, MessageOK, Letter, Asked, States, Meeting, Underway, Ended
    <3> QED BY <3>2, StateMoves DEF CoreInv, Grows
  <2>3. CASE BindTask
    <3>1. handler.pc = "bind"
          /\ wf' = [wf EXCEPT ![handler.wf] = [@ EXCEPT !.task = handler.task]]
      BY <2>3 DEF BindTask, HAt
    <3> QED BY <3>1 DEF CoreInv, Shape
  <2>4. CASE ~ (Create \/ HandlerTransWrite \/ BindTask)
    BY <2>4 DEF HandlerStep, Message, SubmitMeeting, RecordDecision, SubmitCollaboration,
       HandlerTransRead, AskMeeting, AskCollaboration, Convene, Decide, HandOff,
       Expire, Approve, Cancel, Retry, otherThanHandler
  <2> QED BY <2>1, <2>2, <2>3, <2>4
<1> QED BY <1>1, <1>2, <1>3 DEF Grows

-------------------------------------------------------------------------------
(* No change is merged without its meeting, its decision and its approval.    *)

Afterwards == {"verified", "return", "sync", "syncwrite", "finish"}

\* What a task has written under stays, whoever writes a row.
LEMMA WroteStays ==
  ASSUME CoreInv, Grows, NEW t \in Tasks, WroteOK(t),
         \A m \in Tasks : Settled(m) => task'[m].status = "succeeded" /\ worker'.task # m,
         task'[t].wrote = task[t].wrote, task'[t].sent = task[t].sent,
         task[t].wrote => /\ task'[t].phase = "execute"
                          /\ task'[t].status \in {"running"} \union Closed
                          /\ up' /\ task'[t].status = "running" => Place' \in Afterwards
  PROVE  WroteOK(t)'
<1>1. CASE ~ (task[t].wrote \/ task[t].sent)
  BY <1>1 DEF WroteOK
<1>2. CASE task[t].wrote \/ task[t].sent
  <2>1. Cleared(t) /\ RowOK(t)
    BY <1>2 DEF WroteOK, CoreInv
  <2>2. ~ Absent(t)
    BY <2>1 DEF Cleared, RowOK, NoRow, NewRow
  <2>3. Later(task'[t], task[t])
    BY <2>2 DEF Grows
  <2>4. PICK u \in Tasks : task[u].agreed /\ task[u].origin = task[t].origin
    BY <2>1 DEF Cleared
  <2>5. ~ Absent(u)
    <3>1. RowOK(u)
      BY DEF CoreInv
    <3> QED BY <2>4, <3>1 DEF RowOK, NoRow, NewRow
  <2>6. task'[u].agreed /\ task'[u].origin = task'[t].origin
    BY <2>3, <2>4, <2>5 DEF Grows, Later
  <2>7. task[t].meeting \in Tasks /\ Settled(task[t].meeting)
    BY <2>1 DEF Cleared, RowOK
  <2>8. task'[t].kind # "roundtable" /\ task'[t].kind = task[t].kind
        /\ task'[task'[t].meeting].status = "succeeded" /\ worker'.task # task'[t].meeting
    BY <2>1, <2>3, <2>7 DEF Cleared, Later
  <2>9. Cleared(t)'
    BY <2>6, <2>8 DEF Cleared, Settled
  <2>10. task[t].wrote => task[t].kind = "code"
    BY DEF WroteOK
  <2> QED BY <2>8, <2>9, <2>10 DEF WroteOK, Afterwards
<1> QED BY <1>1, <1>2

\* A job that is past its write phase stays past it.
LEMMA PlaceStays ==
  ASSUME CoreInv, WorkerStep, ~ Claim, Place \in Afterwards, task[T].kind = "code"
  PROVE  worker'.pc = "idle" \/ Place' \in Afterwards
<1>0. worker \in Job
  BY DEF CoreInv, Shape
<1>1. worker.pc \in Afterwards \union {"trans", "commit"}
      /\ (worker.pc \in {"trans", "commit"} => worker.after \in Afterwards /\ worker.after # "sync"
            /\ worker.after # "syncwrite" /\ worker.after # "finish")
  BY <1>0 DEF Place, Job, Afters, Afterwards
<1>2. CASE \/ Begin \/ Meet \/ WriteLedgers \/ FinishMeeting \/ StartCollaboration \/ ResumeRead
           \/ ResumeWrite \/ Resumed \/ Plan \/ Park \/ CheckReceipt \/ Write \/ Generate \/ Send
           \/ Deliver
  BY <1>1, <1>2 DEF Begin, Meet, WriteLedgers, FinishMeeting, StartCollaboration, ResumeRead,
     ResumeWrite, Resumed, Plan, Park,
     CheckReceipt, Write, Generate, Send, Deliver, At, Afterwards
<1>3. CASE RunnerRaises \/ TransRead
  <2>1. \/ worker' = [worker EXCEPT !.pc = "commit"] /\ worker.pc = "trans"
        \/ \E o \in {"failed", "blocked", "cancelled"} : Raise(o)
    BY <1>3 DEF RunnerRaises, TransRead, At, Goto
  <2>2. CASE worker' = [worker EXCEPT !.pc = "commit"] /\ worker.pc = "trans"
    BY <1>0, <1>1, <2>2 DEF Place, Job
  <2>3. CASE \E o \in {"failed", "blocked", "cancelled"} : Raise(o)
    <3>1. worker'.pc = "sync"
      BY <1>0, <2>3 DEF Raise, Job
    <3> QED BY <3>1 DEF Place, Afterwards
  <2> QED BY <2>1, <2>2, <2>3
<1>4. CASE TransWrite
  <2>1. worker.pc = "commit" /\ worker' = [worker EXCEPT !.pc = worker.after]
    BY <1>4 DEF TransWrite, At, Goto
  <2>2. worker'.pc = worker.after
    BY <1>0, <2>1 DEF Job
  <2> QED BY <1>1, <2>1, <2>2 DEF Place, Afterwards
<1>5. CASE Complete
  <2>1. worker.pc = "verified" /\ worker' = [worker EXCEPT !.pc = "trans", !.to = "completed",
           !.after = "return"]
    BY <1>5 DEF Complete, At, Transition
  <2>2. worker'.pc = "trans" /\ worker'.after = "return"
    BY <1>0, <2>1 DEF Job, Pcs, Afters
  <2> QED BY <2>2 DEF Place, Afterwards
<1>6. CASE Return \/ Finish
  BY <1>6 DEF Return, Finish, NoJob
<1>7. CASE SyncRead \/ SyncWrite
  <2>1. worker' \in {[worker EXCEPT !.pc = "syncwrite"], [worker EXCEPT !.pc = "finish"]}
    BY <1>7 DEF SyncRead, SyncWrite, Goto
  <2>2. worker'.pc \in {"syncwrite", "finish"}
    BY <1>0, <2>1 DEF Job
  <2> QED BY <2>2 DEF Place, Afterwards
<1> QED BY <1>2, <1>3, <1>4, <1>5, <1>6, <1>7 DEF WorkerStep

LEMMA ClaimWrote == ASSUME CoreInv, WroteInv, Claim PROVE WroteInv'
<1>1. PICK h \in Tasks :
        /\ task[h].status = "queued" /\ h = Head(queue) /\ worker.pc = "idle"
        /\ task' = [task EXCEPT ![h] = [@ EXCEPT !.status = "running"]]
        /\ worker' = [NoJob EXCEPT !.pc = "claimed", !.task = h]
        /\ UNCHANGED <<wf, decided, confirmed>>
  <2>1. Head(queue) = queue[1] /\ 1 \in 1 .. Len(queue) /\ queue # <<>> /\ worker.pc = "idle"
    BY HeadTailProperties, LenProperties DEF Claim, At, CoreInv, QueueOK
  <2>2. queue[1] \in Tasks /\ task[queue[1]].status = "queued"
    BY <2>1, ElementOfSeq DEF CoreInv, QueueOK, Queued
  <2> QED BY <2>1, <2>2 DEF Claim
<1> DEFINE q == [task[h] EXCEPT !.status = "running"]
<1>2. task[h] \in Row
  BY DEF CoreInv, Shape
<1>3. q \in Row /\ Later(q, task[h]) /\ q.wrote = task[h].wrote /\ q.sent = task[h].sent
  BY <1>1, <1>2 DEF Row, Live, Later
<1>4. task' = [task EXCEPT ![h] = q] /\ worker'.task = h
  BY <1>1 DEF NoJob
<1> HIDE DEF q
<1>5. task'[h] = q /\ (\A u \in Tasks : u # h => task'[u] = task[u]) /\ Grows
  BY <1>1, <1>3, <1>4, RowMoves DEF CoreInv
<1>6. \A m \in Tasks : Settled(m) => task'[m].status = "succeeded" /\ worker'.task # m
  BY <1>1, <1>4, <1>5 DEF Settled
<1>7. ~ task[h].wrote
  BY <1>1 DEF WroteInv, WroteOK, Closed
<1>8. \A u \in Tasks : task[u].status # "running"
  BY <1>1, CollaborationAssumption DEF Claim, At, CoreInv, RunningOK, JobOK, NoJob
<1>9. ASSUME NEW t \in Tasks PROVE WroteOK(t)'
  <2>1. WroteOK(t)
    BY DEF WroteInv
  <2>2. task'[t].wrote = task[t].wrote /\ task'[t].sent = task[t].sent
    BY <1>3, <1>5
  <2>3. task[t].wrote => task'[t] = task[t] /\ task[t].status # "running"
    BY <1>5, <1>7, <1>8
  <2> QED BY <1>5, <1>6, <2>1, <2>2, <2>3, WroteStays DEF WroteOK
<1> QED BY <1>9 DEF WroteInv

LEMMA JobWrote == ASSUME CoreInv, WroteInv, WorkerStep, ~ Claim PROVE WroteInv'
<1>1. /\ worker.pc # "idle" /\ up /\ worker'.task \in {T, NoTask}
      /\ worker'.pc = "idle" => worker' = NoJob
  BY JobSteps
<1>2. PICK t \in Tasks : /\ t = T /\ T = worker.task /\ t # NoTask
                         /\ ~ Absent(t) /\ RowOK(t) /\ WroteOK(t)
  BY <1>1, JobTask, CollaborationAssumption DEF T, Belongs, CoreInv, WroteInv
<1>3. /\ Grows /\ \A u \in Tasks : u # t => task'[u] = task[u]
      /\ Later(task'[t], task[t]) /\ task'[t].phase = task[t].phase
  BY <1>2, JobKeeps
<1>4. \A m \in Tasks : Settled(m) => task'[m].status = "succeeded" /\ worker'.task # m
  BY <1>1, <1>2, <1>3, CollaborationAssumption DEF Settled
<1>5. task[t].wrote => task[t].kind = "code" /\ task[t].status = "running" /\ Place \in Afterwards
  <2> SUFFICES ASSUME task[t].wrote
               PROVE  task[t].kind = "code" /\ task[t].status = "running" /\ Place \in Afterwards
    OBVIOUS
  <2>1. task[t].kind = "code"
    BY <1>2 DEF WroteOK
  <2>2. task[t].status = "running"
    BY <1>1, <1>2, <2>1 DEF CoreInv, JobOK, T
  <2> QED BY <1>1, <1>2, <2>1, <2>2 DEF WroteOK, Afterwards
<1>6. \A u \in Tasks : u # t => WroteOK(u)'
  <2> SUFFICES ASSUME NEW u \in Tasks, u # t PROVE WroteOK(u)'
    OBVIOUS
  <2>1. task'[u] = task[u] /\ WroteOK(u) /\ task[u].status # "running"
    BY <1>1, <1>2, <1>3 DEF WroteInv, CoreInv, RunningOK
  <2> QED BY <1>3, <1>4, <2>1, WroteStays DEF WroteOK
<1>7. ASSUME task'[t].wrote = task[t].wrote, task'[t].sent = task[t].sent PROVE WroteOK(t)'
  <2>1. task[t].wrote => /\ task'[t].status \in {"running"} \union Closed
                         /\ up' /\ task'[t].status = "running" => Place' \in Afterwards
    <3> SUFFICES ASSUME task[t].wrote
                 PROVE  /\ task'[t].status \in {"running"} \union Closed
                        /\ up' /\ task'[t].status = "running" => Place' \in Afterwards
      OBVIOUS
    <3>1. worker.pc # "park" /\ worker.pc # "minutes"
      BY <1>5 DEF Place, Afterwards
    <3>2. \/ task'[t].status = task[t].status /\ worker'.pc # "idle"
          \/ task'[t].status \in Closed
      BY <1>2, <3>1, JobKeeps
    <3>3. worker'.pc = "idle" \/ Place' \in Afterwards
      BY <1>2, <1>5, PlaceStays
    <3> QED BY <1>5, <3>2, <3>3 DEF Closed
  <2>2. task[t].wrote => task[t].phase = "execute"
    BY <1>2 DEF WroteOK
  <2> QED BY <1>2, <1>3, <1>4, <1>7, <2>1, <2>2, WroteStays
<1>8. ASSUME worker.pc \in {"work", "send"} PROVE WroteOK(t)'
  <2>1. Place \in Approved /\ Place \in Started
    BY <1>8 DEF Place, Approved, Started
  <2>2. /\ task[t].kind # "roundtable" /\ Settled(task[t].meeting) /\ task[t].phase = "execute"
        /\ task[t].approved
    BY <1>2, <2>1 DEF CoreInv, JobOK
  <2>3. PICK u \in Tasks : task[u].agreed /\ task[u].origin = task[t].origin
    BY <1>2, <2>2 DEF RowOK
  <2>4. ~ Absent(u)
    <3>1. RowOK(u)
      BY DEF CoreInv
    <3> QED BY <2>3, <3>1 DEF RowOK, NoRow, NewRow
  <2>5. task'[u].agreed /\ task'[u].origin = task'[t].origin
    BY <1>3, <2>3, <2>4 DEF Grows, Later
  <2>6. task[t].meeting \in Tasks /\ task'[t].meeting = task[t].meeting
        /\ task'[t].kind = task[t].kind
    BY <1>2, <1>3, <2>2 DEF RowOK, Later
  <2>7. Cleared(t)'
    BY <1>4, <2>2, <2>5, <2>6 DEF Cleared, Settled
  <2>8. ~ task[t].wrote
    BY <1>5, <1>8 DEF Place, Afterwards
  <2>9. task'[t].wrote => /\ task[t].kind = "code" /\ task'[t].status = task[t].status
                          /\ worker'.pc = "trans" /\ worker'.after = "verified"
    BY <1>2, <2>8, JobKeeps
  <2>10. task[t].status = "running"
    BY <1>2, <1>8 DEF CoreInv, JobOK, T
  <2>11. task'[t].wrote => Place' = "verified"
    BY <2>9 DEF Place
  <2> QED BY <1>3, <2>2, <2>6, <2>7, <2>9, <2>10, <2>11 DEF WroteOK
<1>9. \/ task'[t].wrote = task[t].wrote /\ task'[t].sent = task[t].sent
      \/ worker.pc \in {"work", "send"}
  BY <1>2, JobKeeps
<1> QED BY <1>6, <1>7, <1>8, <1>9 DEF WroteInv

LEMMA MessageWrote ==
  ASSUME CoreInv, WroteInv, HandlerStep \/ Message PROVE WroteInv'
<1>1. up /\ UNCHANGED up /\ SameJob /\ MessageRow /\ Grows
  BY MessageSteps, MessageGrows
<1>2. Place' = Place /\ worker'.task = worker.task
  BY <1>1 DEF SameJob, Place
<1>3. \A u \in Tasks : ~ Absent(u) => \/ task'[u] = task[u]
                                     \/ Agrees(u)
                                     \/ \E q \in Row : Stops(u, q)
  <2>1. \A t \in Tasks, q \in Row : task' = [task EXCEPT ![t] = q] =>
          \A u \in Tasks : u # t => task'[u] = task[u]
    OBVIOUS
  <2>2. \A t \in Tasks : Agrees(t) => \A u \in Tasks : u # t => task'[u] = task[u]
    BY DEF Agrees, CoreInv, Shape
  <2>3. \A t \in Tasks, q \in Row : Stops(t, q) => \A u \in Tasks : u # t => task'[u] = task[u]
    BY DEF Stops, CoreInv, Shape
  <2>4. \A t \in Tasks, q \in Row : Opens(t, q) => \A u \in Tasks : ~ Absent(u) => task'[u] = task[u]
    BY DEF Opens, CoreInv, Shape
  <2> QED BY <1>1, <2>2, <2>3, <2>4 DEF MessageRow
<1>4. \A m \in Tasks : Settled(m) => task'[m].status = "succeeded" /\ worker'.task # m
  BY <1>2, <1>3 DEF Settled, Absent, Agrees, Stops
<1>5. ASSUME NEW t \in Tasks, Absent(t) PROVE WroteOK(t)'
  <2>1. MessageRow
    BY <1>1
  <2>2. task[t] = NoRow(t) /\ ~ task[t].wrote /\ ~ task[t].sent
    <3>1. RowOK(t)
      BY DEF CoreInv
    <3> QED BY <1>5, <3>1 DEF RowOK, NoRow, NewRow
  <2>3. ~ task'[t].wrote /\ ~ task'[t].sent
    <3>1. CASE UNCHANGED task
      BY <2>2, <3>1
    <3>2. ASSUME NEW u \in Tasks, NEW q \in Row, Opens(u, q) PROVE ~ task'[t].wrote /\ ~ task'[t].sent
      BY <2>2, <3>2 DEF Opens, CoreInv, Shape
    <3>3. ASSUME NEW u \in Tasks, Agrees(u) PROVE ~ task'[t].wrote /\ ~ task'[t].sent
      BY <1>5, <2>2, <3>3 DEF Agrees, CoreInv, Shape, Absent
    <3>4. ASSUME NEW u \in Tasks, NEW q \in Row, Stops(u, q) PROVE ~ task'[t].wrote /\ ~ task'[t].sent
      BY <1>5, <2>2, <3>4 DEF Stops, CoreInv, Shape, Absent
    <3> QED BY <2>1, <3>1, <3>2, <3>3, <3>4 DEF MessageRow
  <2> QED BY <2>3 DEF WroteOK
<1>6. ASSUME NEW t \in Tasks, ~ Absent(t) PROVE WroteOK(t)'
  <2>1. WroteOK(t) /\ task'[t].wrote = task[t].wrote /\ task'[t].sent = task[t].sent
    BY <1>6, MessageGrows DEF WroteInv
  <2>2. ASSUME task[t].wrote
        PROVE  /\ task'[t].phase = "execute" /\ task'[t].status \in {"running"} \union Closed
               /\ up' /\ task'[t].status = "running" => Place' \in Afterwards
    <3>1. /\ task[t].phase = "execute" /\ task[t].status \in {"running"} \union Closed
          /\ task[t].status = "running" => Place \in Afterwards
      BY <1>1, <2>1, <2>2 DEF WroteOK, Afterwards
    <3>2. task'[t] = task[t] \/ \E q \in Row : task[t].status = "running" /\ Stops(t, q)
      BY <1>3, <1>6, <3>1 DEF Agrees, Stops, Closed
    <3>3. ASSUME NEW q \in Row, task[t].status = "running", Stops(t, q)
          PROVE  task'[t].phase = task[t].phase /\ task'[t].status = "running"
      BY <3>3 DEF Stops, Kept, CoreInv, Shape
    <3> QED BY <1>2, <3>1, <3>2, <3>3
  <2> QED BY <1>1, <1>4, <2>1, <2>2, WroteStays
<1> QED BY <1>5, <1>6 DEF WroteInv

LEMMA ProcessWrote == ASSUME CoreInv, WroteInv, Crash \/ Start PROVE WroteInv'
<1>1. CASE Crash
  <2>1. UNCHANGED <<task, wf, decided, confirmed>> /\ worker' = NoJob /\ ~ up'
    BY <1>1 DEF Crash
  <2>2. Grows
    BY <2>1 DEF Grows, Later, Absent
  <2>3. \A m \in Tasks : Settled(m) => task'[m].status = "succeeded" /\ worker'.task # m
    BY <2>1, CollaborationAssumption DEF Settled, NoJob
  <2> QED BY <2>1, <2>2, <2>3, WroteStays DEF WroteInv, WroteOK
<1>2. CASE Start
  <2>1. UNCHANGED <<wf, decided, confirmed, worker>> /\ \A t \in Tasks : task'[t] = Recovered(task[t])
    BY <1>2 DEF Start
  <2>2. Grows
    BY <2>1, RecoveredRow DEF Grows, Absent
  <2>3. \A m \in Tasks : Settled(m) => task'[m].status = "succeeded" /\ worker'.task # m
    BY <2>1, RecoveredRow DEF Settled
  <2>4. ASSUME NEW t \in Tasks PROVE WroteOK(t)'
    <3>1. WroteOK(t) /\ task'[t].wrote = task[t].wrote /\ task'[t].sent = task[t].sent
          /\ task'[t].phase = task[t].phase /\ task'[t].status # "running"
      BY <2>1, RecoveredRow DEF WroteInv
    <3>2. task[t].wrote => task'[t].status \in Closed /\ task'[t].phase = "execute"
      BY <2>1, RecoveredRow DEF WroteInv, WroteOK, Closed
    <3> QED BY <2>2, <2>3, <3>1, <3>2, WroteStays
  <2> QED BY <2>4 DEF WroteInv
<1> QED BY <1>1, <1>2

LEMMA StepWrote == CoreInv /\ WroteInv /\ [Next]_vars => WroteInv'
<1> SUFFICES ASSUME CoreInv, WroteInv, [Next]_vars PROVE WroteInv'
  OBVIOUS
<1>1. CASE UNCHANGED vars
  BY <1>1 DEF vars, WroteInv, WroteOK, Cleared, Settled, Place
<1> QED BY <1>1, ClaimWrote, JobWrote, MessageWrote, ProcessWrote DEF Next

LEMMA InitWrote == Init => WroteInv
BY DEF Init, WroteInv, WroteOK, NoRow, NewRow

\* Whatever is cancelled, retried or interrupted, a change is merged or a report
\* sent only after the meeting has succeeded, the owner has decided, asked to
\* start the collaboration and approved the task or the one it retries.
THEOREM ChainIsKept == Spec => []NoSkippedStep
<1>1. CoreInv /\ WroteInv => NoSkippedStep
  <2> SUFFICES ASSUME CoreInv, WroteInv, NEW t \in Tasks, task[t].wrote \/ task[t].sent
               PROVE  /\ task[t].wf \in decided \intersect confirmed
                      /\ task[task[t].meeting].status = "succeeded"
                      /\ task[task[t].meeting].wf = task[t].wf
                      /\ \E u \in Tasks : task[u].agreed /\ task[u].origin = task[t].origin
    BY DEF NoSkippedStep
  <2>1. Cleared(t) /\ RowOK(t)
    BY DEF WroteInv, WroteOK, CoreInv
  <2> QED BY <2>1 DEF Cleared, RowOK, Settled, Belongs
<1>2. Spec => [](CoreInv /\ WroteInv)
  BY InitCore, InitWrote, StepCore, StepWrote, PTL DEF Spec
<1> QED BY <1>1, <1>2, PTL

-------------------------------------------------------------------------------
(* A code change that is a success has completed its workflow.                *)

LEMMA JobReturn == ASSUME CoreInv, ReturnOK, WorkerStep, worker'.pc = "return" PROVE ReturnOK'
<1>0. worker \in Job
  BY DEF CoreInv, Shape
<1>1. ~ Claim /\ worker.pc # "idle" /\ worker'.task \in {T, NoTask}
  <2>1. ~ Claim
    BY DEF Claim, NoJob
  <2> QED BY <2>1, JobSteps
<1>2. worker'.task = T /\ T \in Tasks /\ W \in Workflows /\ T # NoTask
      /\ Later(task'[T], task[T])
  <2>1. worker'.task # NoTask
    BY <1>1, WorkerCore, CollaborationAssumption DEF CoreInv, JobOK
  <2> QED BY <1>1, <2>1, JobTask, JobKeeps, CollaborationAssumption
<1>3. T' = T /\ W' = W /\ task'[T].kind = task[T].kind
  BY <1>2 DEF T, W, Later
<1>4. CASE TransWrite
  <2>1. worker.pc = "commit" /\ worker' = [worker EXCEPT !.pc = worker.after]
        /\ SetState(W, worker.to, T) /\ UNCHANGED task
    BY <1>4 DEF TransWrite, At, Goto
  <2>2. worker.after = "return"
    BY <1>0, <2>1 DEF Job
  <2>3. worker.to = "completed"
    BY <2>1, <2>2 DEF CoreInv, JobOK
  <2>4. wf'[W].state = "completed"
    BY <1>2, <2>1, <2>3 DEF SetState, CoreInv, Shape
  <2> QED BY <1>3, <2>4 DEF ReturnOK
<1>5. CASE FinishMeeting
  <2>1. worker.pc = "minutes"
    BY <1>5 DEF FinishMeeting, At
  <2>2. task[T].kind = "roundtable"
    BY <2>1 DEF CoreInv, JobOK, Place, Held
  <2> QED BY <1>3, <2>2 DEF ReturnOK
<1>6. CASE Generate
  <2>1. task[T].kind = "report"
    BY <1>6 DEF Generate
  <2> QED BY <1>3, <2>1 DEF ReturnOK
<1>7. CASE Deliver
  <2>1. worker.pc = "deliver"
    BY <1>7 DEF Deliver, At
  <2>2. task[T].kind = "report"
    BY <2>1 DEF CoreInv, JobOK, Place
  <2> QED BY <1>3, <2>2 DEF ReturnOK
<1>8. CASE ~ (TransWrite \/ FinishMeeting \/ Generate \/ Deliver)
  <2>1. CASE RunnerRaises \/ TransRead
    <3>1. worker' = [worker EXCEPT !.pc = "commit"]
          \/ \E o \in {"failed", "blocked", "cancelled"} : Raise(o)
      BY <2>1 DEF RunnerRaises, TransRead, Goto
    <3> QED BY <1>0, <3>1 DEF Raise, Job
  <2>2. CASE StartCollaboration \/ ResumeRead \/ ResumeWrite \/ Resumed
    BY <1>0, <2>2 DEF StartCollaboration, ResumeRead, ResumeWrite, Resumed, Proceed, Raise, Goto,
       Transition, Job
  <2>3. CASE Begin \/ Park \/ Return \/ Finish
    BY <1>0, <2>3 DEF Begin, Park, Return, Finish, NoJob, Goto, Job
  <2>4. CASE Meet \/ Plan \/ CheckReceipt \/ Complete \/ SyncRead \/ SyncWrite
    BY <1>0, <2>4 DEF Meet, Plan, CheckReceipt, Complete, SyncRead, SyncWrite, Goto, Transition, Job
  <2>5. CASE WriteLedgers \/ Write \/ Send
    BY <1>0, <2>5 DEF WriteLedgers, Write, Send, Transition, Job
  <2> QED BY <1>1, <1>8, <2>1, <2>2, <2>3, <2>4, <2>5 DEF WorkerStep
<1> QED BY <1>4, <1>5, <1>6, <1>7, <1>8

\* What a message may write is no longer allowed once the workflow has ended.
LEMMA NothingAfterCompleted ==
  ASSUME NEW s \in Asked PROVE ~ Legal("completed", s)
<1>1. Allowed["completed"] = {}
  BY DEF Allowed, States, Ended
<1> QED BY <1>1 DEF Legal, Asked

LEMMA MessageReturn ==
  ASSUME CoreInv, ReturnOK, HandlerStep \/ Message PROVE ReturnOK'
<1> SUFFICES ASSUME (worker.pc = "return")', task'[T'].kind = "code"
             PROVE  wf'[W'].state = "completed" \/ W' \in overtaken'
  BY DEF ReturnOK
<1>1. worker.pc = "return" /\ worker'.task = T
  BY MessageSteps DEF SameJob, T
<1>2. /\ T \in Tasks /\ W \in Workflows /\ Later(task'[T], task[T])
  BY <1>1, JobTask, MessageGrows DEF Grows, Belongs
<1>3. T' = T /\ W' = W /\ task[T].kind = "code"
  BY <1>1, <1>2 DEF T, W, Later
<1>4. wf[W].state = "completed" \/ W \in overtaken
  BY <1>1, <1>3 DEF ReturnOK
<1>5. overtaken \subseteq overtaken'
  BY DEF HandlerStep, Message, Create, SubmitMeeting, BindTask, RecordDecision, SubmitCollaboration,
     HandlerTransRead, HandlerTransWrite, AskMeeting, AskCollaboration, Convene, Decide, HandOff,
     Expire, Approve, Cancel, Retry, otherThanHandler
<1>6. PICK w \in Workflows : w = W
  BY <1>2
<1>7. CASE HandlerTransWrite
  <2>1. /\ handler.pc = "commit" /\ SetState(handler.wf, handler.to, handler.task)
        /\ overtaken' = IF Legal(wf[handler.wf].state, handler.to) THEN overtaken
                        ELSE overtaken \union {handler.wf}
    BY <1>7 DEF HandlerTransWrite, HAt
  <2>2. handler.wf \in Workflows /\ handler.to \in Asked
    BY <2>1 DEF CoreInv, Shape, Letter, MessageOK
  <2>3. CASE handler.wf = w /\ wf[w].state = "completed"
    BY <1>3, <1>6, <2>1, <2>2, <2>3, NothingAfterCompleted
  <2>4. CASE handler.wf # w
    <3>1. wf'[w] = wf[w]
      BY <2>1, <2>4 DEF SetState, CoreInv, Shape
    <3> QED BY <1>3, <1>4, <1>5, <1>6, <3>1
  <2> QED BY <1>3, <1>4, <1>5, <1>6, <2>3, <2>4
<1>8. CASE Create
  <2>1. PICK v \in Workflows : wf[v].state = "absent" /\ SetState(v, "meeting_discussion", NoTask)
    BY <1>8 DEF Create
  <2>2. v # w => wf'[w] = wf[w]
    BY <2>1 DEF SetState, CoreInv, Shape
  <2> QED BY <1>3, <1>4, <1>5, <1>6, <2>1, <2>2
<1>9. CASE BindTask
  <2>1. handler.pc = "bind" /\ wf' = [wf EXCEPT ![handler.wf] = [@ EXCEPT !.task = handler.task]]
    BY <1>9 DEF BindTask, HAt
  <2>2. wf'[w].state = wf[w].state
    BY <2>1 DEF CoreInv, Shape
  <2> QED BY <1>3, <1>4, <1>5, <1>6, <2>2
<1>10. CASE ~ (HandlerTransWrite \/ Create \/ BindTask)
  <2>1. UNCHANGED wf
    BY <1>10 DEF HandlerStep, Message, SubmitMeeting, RecordDecision, SubmitCollaboration,
       HandlerTransRead, AskMeeting, AskCollaboration, Convene, Decide, HandOff,
       Expire, Approve, Cancel, Retry, otherThanHandler
  <2> QED BY <1>3, <1>4, <1>5, <2>1
<1> QED BY <1>7, <1>8, <1>9, <1>10

LEMMA StepReturn == CoreInv /\ ReturnOK /\ [Next]_vars => ReturnOK'
<1> SUFFICES ASSUME CoreInv, ReturnOK, [Next]_vars PROVE ReturnOK'
  OBVIOUS
<1>1. CASE UNCHANGED vars
  BY <1>1 DEF vars, ReturnOK, T, W
<1>2. CASE Crash \/ Start
  <2>1. worker'.pc = "idle"
    BY <1>2 DEF Crash, Start, CoreInv, RunningOK, NoJob
  <2> QED BY <2>1 DEF ReturnOK
<1>3. CASE WorkerStep
  BY <1>3, JobReturn DEF ReturnOK
<1> QED BY <1>1, <1>2, <1>3, MessageReturn DEF Next

\* When the row of a code change becomes a success, its workflow is completed or
\* was overwritten by a message that had read it before.
THEOREM SuccessOfCompleted == Spec => SuccessIsCompleted
<1> DEFINE Success ==
      \A t \in Tasks :
        /\ task[t].kind = "code"
        /\ task'[t].status = "succeeded" /\ task[t].status # "succeeded"
        => \/ wf[task[t].wf].state = "completed"
           \/ task[t].wf \in overtaken
<1>1. CoreInv /\ ReturnOK /\ [Next]_vars => [Success]_vars
  <2> SUFFICES ASSUME CoreInv, ReturnOK, Next, NEW t \in Tasks, task[t].kind = "code",
                      task'[t].status = "succeeded", task[t].status # "succeeded"
               PROVE  wf[task[t].wf].state = "completed" \/ task[t].wf \in overtaken
    OBVIOUS
  <2>1. CASE Claim
    <3>1. task' = [task EXCEPT ![Head(queue)] = [@ EXCEPT !.status = "running"]]
      BY <2>1 DEF Claim
    <3> QED BY <3>1 DEF CoreInv, Shape, Row
  <2>2. CASE WorkerStep /\ ~ Claim
    <3>1. t = T /\ T = worker.task
      BY <2>2, JobKeeps DEF T
    <3>2. worker.pc # "minutes"
      BY <3>1 DEF CoreInv, JobOK, Place, Held
    <3>3. worker.pc = "return"
      BY <2>2, <3>1, <3>2, JobKeeps
    <3> QED BY <3>1, <3>3 DEF ReturnOK, T, W
  <2>3. CASE HandlerStep \/ Message
    <3>1. MessageRow
      BY <2>3, MessageSteps
    <3>2. \A u \in Tasks, q \in Row : Opens(u, q) => task'[t].status # "succeeded"
      BY DEF Opens, CoreInv, Shape
    <3>3. \A u \in Tasks : Agrees(u) => task'[t].status # "succeeded"
      BY DEF Agrees, CoreInv, Shape, Row
    <3>4. \A u \in Tasks, q \in Row : Stops(u, q) => task'[t].status # "succeeded"
      BY DEF Stops, CoreInv, Shape
    <3> QED BY <3>1, <3>2, <3>3, <3>4 DEF MessageRow
  <2>4. CASE Crash \/ Start
    <3>1. CASE Crash
      BY <3>1 DEF Crash
    <3>2. CASE Start
      <4>1. task'[t] = Recovered(task[t])
        BY <3>2 DEF Start
      <4> QED BY <4>1, RecoveredRow
    <3> QED BY <2>4, <3>1, <3>2
  <2> QED BY <2>1, <2>2, <2>3, <2>4 DEF Next
<1>2. Init => ReturnOK
  BY DEF Init, ReturnOK, NoJob
<1>3. Spec => [](CoreInv /\ ReturnOK)
  BY <1>2, InitCore, StepCore, StepReturn, PTL DEF Spec
<1>4. Spec => [][Success]_vars
  BY <1>1, <1>3, PTL DEF Spec
<1> QED BY <1>4, PTL DEF SuccessIsCompleted

-------------------------------------------------------------------------------
(* The meetings of a workflow follow each other.                              *)

LEMMA RetriedStays == ASSUME CoreInv, Grows, NEW w, Retried(w) PROVE Retried(w)'
<1>1. PICK t \in Tasks : task[t].wf = w /\ task[t].retry
  BY DEF Retried
<1>2. ~ Absent(t)
  <2>1. RowOK(t)
    BY DEF CoreInv
  <2> QED BY <1>1, <2>1 DEF RowOK, NoRow, NewRow
<1>3. Later(task'[t], task[t])
  BY <1>2 DEF Grows
<1> QED BY <1>1, <1>3 DEF Retried, Later

LEMMA NoMeetingsYet ==
  ASSUME CoreInv, NEW w \in Workflows, wf[w].state = "absent"
  PROVE  \A t : ~ LiveMeeting(t, w)
<1> SUFFICES ASSUME NEW t, LiveMeeting(t, w) PROVE FALSE
  OBVIOUS
<1>1. t \in Tasks /\ ~ Absent(t) /\ task[t].wf = w
  BY DEF LiveMeeting, Live, Absent
<1>2. RowOK(t)
  BY <1>1 DEF CoreInv
<1> QED BY <1>1, <1>2 DEF RowOK

\* What is left of InTurn when the live meetings are no more than they were, the
\* message is the same or dropped, and nothing was concluded meanwhile.
LEMMA InTurnStays ==
  ASSUME NEW w, InTurn(w),
         \A t : LiveMeeting(t, w)' => LiveMeeting(t, w),
         handler' = handler \/ handler' = NoMessage,
         wf'[w].state \in Awaiting /\ Concluded(w)' =>
           \/ wf[w].state \in Awaiting /\ Concluded(w)
           \/ \A t \in Tasks : ~ LiveMeeting(t, w)',
         wf'[w].state \in Awaiting => wf[w].state \in Awaiting \/ \E t \in Tasks : LiveMeeting(t, w)
  PROVE  InTurn(w)'
BY DEF InTurn, NoMessage

\* Only a decision that is recorded while the job has the ledger makes it stale.
LEMMA StaleStays ==
  ASSUME CoreInv, WorkerStep, worker'.stale
  PROVE  worker.stale /\ worker'.task = T /\ worker.pc # "idle"
<1>0. worker \in Job /\ ~ NoJob.stale /\ (worker.pc = "idle" => worker = NoJob)
  BY DEF CoreInv, Shape, JobOK, NoJob
<1>1. CASE Claim
  BY <1>0, <1>1 DEF Claim, NoJob
<1>2. CASE \/ Begin \/ RunnerRaises \/ TransRead \/ TransWrite \/ Meet \/ FinishMeeting
  BY <1>0, <1>2 DEF Begin, RunnerRaises, TransRead, TransWrite, Meet, FinishMeeting,
     Raise, Goto, Job, At, T
<1>3. CASE WriteLedgers
  BY <1>0, <1>3 DEF WriteLedgers, Job
<1>4. CASE StartCollaboration \/ ResumeRead \/ ResumeWrite \/ Resumed
  BY <1>0, <1>4 DEF StartCollaboration, ResumeRead, ResumeWrite, Resumed, Proceed, Raise, Goto,
     Transition, Job, At, T
<1>5. CASE \/ Plan \/ Park \/ CheckReceipt \/ Write \/ Generate \/ Send
  BY <1>0, <1>5 DEF Plan, Park, CheckReceipt, Write, Generate, Send, Goto, Transition, Job, At, T
<1>6. CASE \/ Complete \/ Deliver \/ Return \/ SyncRead \/ SyncWrite \/ Finish
  BY <1>0, <1>6 DEF Complete, Deliver, Return, SyncRead, SyncWrite, Finish, Goto, Transition,
       Job, At, T
<1> QED BY <1>0, <1>1, <1>2, <1>3, <1>4, <1>5, <1>6 DEF WorkerStep

LEMMA JobInTurn ==
  ASSUME CoreInv, WorkerStep, ~ Claim, NEW w \in Workflows, InTurn(w) PROVE InTurn(w)'
<1>1. UNCHANGED handler /\ worker.pc # "idle" /\ worker \in Job
  BY JobSteps DEF CoreInv, Shape
<1>2. PICK t \in Tasks : /\ t = T /\ t = worker.task /\ t # NoTask /\ Belongs(t, W) /\ W \in Workflows
  BY <1>1, JobTask, CollaborationAssumption DEF T
<1>3. /\ \A u \in Tasks : u # t => task'[u] = task[u]
      /\ Later(task'[t], task[t])
      /\ \/ task'[t].status = task[t].status
         \/ worker.pc = "minutes" /\ task'[t].status = "succeeded"
         \/ /\ task'[t].status \in Closed \union {"waiting_approval"}
            /\ task'[t].status = "waiting_approval" => worker.pc = "park"
            /\ task'[t].status = "succeeded" => worker.pc = "return"
  BY <1>2, JobKeeps
<1>4. /\ worker.pc \in {"minutes", "park", "commit"} => task[t].status = "running"
      /\ worker.pc = "minutes" \/ (worker.pc = "commit" /\ worker.after = "minutes") =>
           task[t].kind = "roundtable"
      /\ worker.pc = "return" /\ task[t].kind = "roundtable" => task[t].status = "succeeded"
  BY <1>1, <1>2 DEF CoreInv, JobOK, Place, Held, T
<1>5. \A u : LiveMeeting(u, w)' => LiveMeeting(u, w)
  <2> SUFFICES ASSUME NEW u \in Tasks, LiveMeeting(u, w)' PROVE LiveMeeting(u, w)
    BY DEF LiveMeeting
  <2>1. CASE u = t
    BY <1>3, <1>4, <2>1 DEF LiveMeeting, Later, Live, Closed
  <2>2. CASE u # t
    BY <1>3, <2>2 DEF LiveMeeting
  <2> QED BY <2>1, <2>2
<1>6. CASE UNCHANGED wf
  <2>1. ASSUME wf[w].state \in Awaiting, Concluded(w)', ~ Concluded(w)
        PROVE  \A u \in Tasks : ~ LiveMeeting(u, w)'
    <3>1. wf[w].task \in Tasks /\ Belongs(wf[w].task, w)
          /\ task'[wf[w].task].kind = "roundtable" /\ task'[wf[w].task].status = "succeeded"
      BY <1>6, <2>1 DEF Concluded, CoreInv, Shape, WfOK
    <3>2. wf[w].task = t
      BY <1>3, <2>1, <3>1, CollaborationAssumption DEF Concluded
    <3>3. task[t].kind = "roundtable" /\ task[t].status # "succeeded"
      BY <1>2, <1>3, <2>1, <3>1, <3>2 DEF Concluded, Later
    <3>4. worker.pc = "minutes" /\ task'[t].status = "succeeded" /\ task[t].status = "running"
      BY <1>3, <1>4, <3>1, <3>2, <3>3
    <3>5. LiveMeeting(t, w)
      BY <3>1, <3>2, <3>3, <3>4 DEF LiveMeeting, Live, Belongs
    <3>6. \A u \in Tasks : LiveMeeting(u, w) => u = t
      BY <3>5 DEF InTurn
    <3> QED BY <1>5, <3>4, <3>6 DEF LiveMeeting, Live
  <2> QED BY <1>1, <1>5, <1>6, <2>1, InTurnStays
<1>7. CASE ~ UNCHANGED wf
  <2>1. PICK s \in States : /\ SetState(W, s, T) /\ UNCHANGED task
                            /\ s \in Awaiting => worker.pc = "commit" /\ worker.after = "minutes"
    BY <1>7, JobFlows DEF JobFlow
  <2>2. /\ wf'[W].state = s /\ wf'[W].task = t
        /\ w # W => wf'[w] = wf[w]
    BY <1>2, <2>1 DEF SetState, CoreInv, Shape
  <2>3. CASE w = W
    <3>1. s \in Awaiting => ~ Concluded(w)'
      BY <1>4, <2>1, <2>2, <2>3 DEF Concluded
    <3>2. s \in Awaiting => LiveMeeting(t, w)
      BY <1>2, <1>4, <2>1, <2>3 DEF LiveMeeting, Live, Belongs
    <3> QED BY <1>1, <1>5, <2>2, <2>3, <3>1, <3>2, InTurnStays
  <2>4. CASE w # W
    <3>1. Concluded(w)' => Concluded(w)
      BY <2>1, <2>2, <2>4 DEF Concluded
    <3> QED BY <1>1, <1>5, <2>2, <2>4, <3>1, InTurnStays
  <2> QED BY <2>3, <2>4
<1> QED BY <1>6, <1>7

LEMMA ClaimInTurn ==
  ASSUME CoreInv, Claim, NEW w \in Workflows, InTurn(w) PROVE InTurn(w)'
<1>1. PICK h \in Tasks :
        /\ task[h].status = "queued" /\ task' = [task EXCEPT ![h] = [@ EXCEPT !.status = "running"]]
        /\ UNCHANGED <<wf, handler>>
  <2>1. Head(queue) = queue[1] /\ 1 \in 1 .. Len(queue)
    BY HeadTailProperties, LenProperties DEF Claim, CoreInv, QueueOK
  <2>2. queue[1] \in Tasks /\ task[queue[1]].status = "queued"
    BY <2>1, ElementOfSeq DEF CoreInv, QueueOK, Queued
  <2> QED BY <2>1, <2>2 DEF Claim
<1>2. /\ \A u \in Tasks : u # h => task'[u] = task[u]
      /\ task'[h].status = "running" /\ task'[h].wf = task[h].wf /\ task'[h].kind = task[h].kind
  BY <1>1 DEF CoreInv, Shape, Row
<1>3. \A u : LiveMeeting(u, w)' => LiveMeeting(u, w)
  BY <1>1, <1>2 DEF LiveMeeting, Live
<1>4. Concluded(w)' => Concluded(w)
  <2>1. wf[w].task \in Tasks \union {NoTask}
    BY DEF CoreInv, Shape
  <2> QED BY <1>1, <1>2, <2>1 DEF Concluded
<1> QED BY <1>1, <1>3, <1>4, InTurnStays

LEMMA JobTurn == ASSUME CoreInv, TurnInv, WorkerStep PROVE TurnInv'
<1>1. Grows
  <2>1. CASE Claim
    <3>1. PICK h : task' = [task EXCEPT ![h] = [@ EXCEPT !.status = "running"]]
                   /\ UNCHANGED <<wf, decided, confirmed>>
      BY <2>1 DEF Claim
    <3>2. \A u \in Tasks : task'[u] = task[u] \/ task'[u] = [task[u] EXCEPT !.status = "running"]
      BY <3>1 DEF CoreInv, Shape
    <3>3. \A u \in Tasks : task[u] \in Row
      BY DEF CoreInv, Shape
    <3> QED BY <3>1, <3>2, <3>3 DEF Grows, Later, Absent, Row
  <2> QED BY <2>1, JobKeeps
<1>2. \A w \in Workflows : Retried(w)' \/ InTurn(w)'
  BY <1>1, RetriedStays, JobInTurn, ClaimInTurn DEF TurnInv
<1>3. (worker.stale => Retried(W))'
  <2> SUFFICES ASSUME worker'.stale PROVE Retried(W)'
    OBVIOUS
  <2>1. worker.stale /\ T' = T /\ T \in Tasks /\ Retried(W) /\ Belongs(T, W)
    BY StaleStays, JobTask DEF TurnInv, T
  <2>2. W' = W
    BY <1>1, <2>1 DEF W, Grows, Later, Belongs
  <2>3. PICK w : w = W
    OBVIOUS
  <2>4. Retried(w)
    BY <2>1, <2>3
  <2>5. Retried(w)'
    BY <1>1, <2>4, RetriedStays
  <2> QED BY <2>2, <2>3, <2>5 DEF Retried
<1>4. \A w \in forgotten' : Retried(w)'
  <2>1. \A w \in forgotten' : w \in forgotten \/ (worker.stale /\ w = W)
    BY DEF WorkerStep, Claim, Begin, RunnerRaises, TransRead, TransWrite, Meet, WriteLedgers,
       FinishMeeting, StartCollaboration, ResumeRead, ResumeWrite, Resumed, Plan, Park,
       CheckReceipt, Write, Generate, Send, Complete, Deliver, Return, SyncRead, SyncWrite, Finish,
       otherThanWorker, otherThanRow, otherThanFlow
  <2>2. \A w \in forgotten' : Retried(w)
    BY <2>1 DEF TurnInv
  <2> QED BY <1>1, <2>2, RetriedStays
<1> QED BY <1>2, <1>3, <1>4 DEF TurnInv

\* A message that leaves rows and workflows alone.
LEMMA QuietTurn ==
  ASSUME NEW w, InTurn(w), UNCHANGED <<task, wf>>, handler'.pc \notin {"submit", "bind"},
         handler'.wf = w /\ handler'.meeting # NoTask
           /\ handler'.pc \in {"record", "handoff", "trans", "commit"} =>
             \A t \in Tasks : ~ LiveMeeting(t, w)
  PROVE  InTurn(w)'
BY DEF InTurn, LiveMeeting, Concluded

LEMMA QuietSteps ==
  ASSUME CoreInv, NEW w \in Workflows, InTurn(w),
         \/ AskMeeting \/ AskCollaboration \/ Decide \/ HandOff \/ RecordDecision \/ HandlerTransRead
  PROVE  InTurn(w)'
<1>1. UNCHANGED <<task, wf>> /\ handler \in Letter
  BY DEF AskMeeting, AskCollaboration, Convene, Decide, HandOff, RecordDecision, HandlerTransRead,
     otherThanHandler, CoreInv, Shape
<1>2. CASE AskMeeting \/ AskCollaboration
  <2>1. handler'.meeting = NoTask /\ handler'.pc \in {"create", "trans"}
    BY <1>2 DEF AskMeeting, AskCollaboration, Convene, NoMessage
  <2> QED BY <1>1, <2>1, QuietTurn
<1>3. CASE Decide \/ HandOff
  <2>1. PICK v \in Workflows, p \in {"record", "handoff"} :
          /\ Concluded(v) /\ wf[v].state \in Awaiting
          /\ handler' = [NoMessage EXCEPT !.pc = p, !.wf = v, !.meeting = wf[v].task]
    BY <1>3 DEF Decide, HandOff, Awaiting
  <2>2. handler'.wf = v /\ handler'.pc \in {"record", "handoff"}
    BY <2>1 DEF NoMessage
  <2>3. v = w => \A t \in Tasks : ~ LiveMeeting(t, w)
    BY <2>1 DEF InTurn
  <2> QED BY <1>1, <2>2, <2>3, QuietTurn
<1>4. CASE RecordDecision
  <2>1. handler.pc = "record"
        /\ handler' \in {[handler EXCEPT !.pc = "trans", !.to = "awaiting_collaboration_confirmation",
                                         !.after = "idle", !.task = handler.meeting],
                         [handler EXCEPT !.pc = "trans", !.to = "meeting_continuation",
                                         !.after = "submit"]}
    BY <1>4 DEF RecordDecision, HAt
  <2>2. handler'.wf = handler.wf /\ handler'.meeting = handler.meeting /\ handler'.pc = "trans"
    BY <1>1, <2>1 DEF Letter
  <2> QED BY <1>1, <2>1, <2>2, QuietTurn DEF InTurn
<1>5. CASE HandlerTransRead
  <2>1. handler.pc = "trans" /\ handler' \in {[handler EXCEPT !.pc = "commit"], NoMessage}
    BY <1>5 DEF HandlerTransRead, HAt, HGoto
  <2>2. CASE handler' = NoMessage
    BY <1>1, <2>2, QuietTurn DEF NoMessage
  <2>3. CASE handler' = [handler EXCEPT !.pc = "commit"]
    <3>1. handler'.wf = handler.wf /\ handler'.meeting = handler.meeting /\ handler'.pc = "commit"
      BY <1>1, <2>3 DEF Letter
    <3> QED BY <1>1, <2>1, <3>1, QuietTurn DEF InTurn
  <2> QED BY <2>1, <2>2, <2>3
<1> QED BY <1>2, <1>3, <1>4, <1>5

LEMMA CommandInTurn ==
  ASSUME CoreInv, NEW w \in Workflows, InTurn(w), NEW t \in Tasks, UNCHANGED <<wf, handler>>,
         Agrees(t) \/ \E q \in Row : Stops(t, q)
  PROVE  InTurn(w)'
<1>1. PICK q \in Row :
        /\ task' = [task EXCEPT ![t] = q] /\ q.wf = task[t].wf /\ q.kind = task[t].kind
        /\ task[t].status \in Live /\ q.status # "succeeded"
  <2>1. CASE Agrees(t)
    <3> DEFINE q == [task[t] EXCEPT !.status = "queued", !.phase = "execute", !.approved = TRUE,
                                    !.agreed = TRUE]
    <3>1. task[t] \in Row /\ task' = [task EXCEPT ![t] = q] /\ task[t].status \in Live
      BY <2>1 DEF Agrees, CoreInv, Shape, Live
    <3>2. q \in Row /\ q.wf = task[t].wf /\ q.kind = task[t].kind /\ q.status = "queued"
      BY <3>1 DEF Row, Live
    <3> HIDE DEF q
    <3> QED BY <3>1, <3>2
  <2>2. CASE \E q \in Row : Stops(t, q)
    BY <2>2 DEF Stops, Kept, Later, Live
  <2> QED BY <2>1, <2>2
<1>2. task'[t] = q /\ \A u \in Tasks : u # t => task'[u] = task[u]
  BY <1>1 DEF CoreInv, Shape
<1>3. \A u : LiveMeeting(u, w)' => LiveMeeting(u, w)
  BY <1>1, <1>2 DEF LiveMeeting
<1>4. Concluded(w)' => Concluded(w)
  <2>1. wf[w].task \in Tasks \union {NoTask}
    BY DEF CoreInv, Shape
  <2> QED BY <1>1, <1>2, <2>1 DEF Concluded
<1> QED BY <1>3, <1>4, InTurnStays

LEMMA OpensInTurn ==
  ASSUME CoreInv, NEW w \in Workflows, InTurn(w), NEW t \in Tasks, NEW q \in Row, Opens(t, q),
         UNCHANGED wf, SubmitCollaboration \/ UNCHANGED handler \/ handler.pc = "submit"
  PROVE  Retried(w)' \/ InTurn(w)'
<1>1. /\ task'[t] = q /\ (\A u \in Tasks : u # t => task'[u] = task[u])
      /\ Absent(t) /\ q.status = "queued"
  BY DEF Opens, CoreInv, Shape
<1>2. Concluded(w)' => Concluded(w)
  <2>1. wf[w].task \in Tasks \union {NoTask}
    BY DEF CoreInv, Shape
  <2> QED BY <1>1, <2>1 DEF Concluded
<1>3. CASE q.kind # "roundtable" \/ q.wf # w
  <2>1. \A u : LiveMeeting(u, w)' => LiveMeeting(u, w)
    BY <1>1, <1>3 DEF LiveMeeting
  <2>2. CASE UNCHANGED handler
    BY <1>2, <2>1, <2>2, InTurnStays
  <2>3. CASE SubmitCollaboration
    <3>1. /\ handler.pc = "handoff"
          /\ handler'.pc = "trans" /\ handler'.wf = handler.wf /\ handler'.meeting = handler.meeting
      BY <2>3 DEF SubmitCollaboration, HAt, CoreInv, Shape, Letter
    <3> QED BY <1>2, <2>1, <3>1 DEF InTurn
  <2>4. CASE handler.pc = "submit" /\ ~ UNCHANGED handler
    <3>1. /\ handler' = [handler EXCEPT !.pc = "bind", !.task = t] /\ q.wf = handler.wf
          /\ q.kind = "roundtable"
      BY <2>4 DEF Opens
    <3>2. handler'.wf # w
      BY <1>3, <3>1 DEF CoreInv, Shape, Letter
    <3> QED BY <1>2, <2>1, <3>2 DEF InTurn
  <2> QED BY <2>2, <2>3, <2>4
<1>4. CASE q.kind = "roundtable" /\ q.wf = w /\ q.retry
  BY <1>1, <1>4 DEF Retried
<1>5. CASE q.kind = "roundtable" /\ q.wf = w /\ ~ q.retry
  <2>1. /\ handler.pc = "submit" /\ handler.wf = w
        /\ handler'.pc = "bind" /\ handler'.task = t /\ handler'.wf = w
    BY <1>5 DEF Opens, CoreInv, Shape, Letter
  <2>2. wf[w].state \notin Awaiting /\ \A u \in Tasks : ~ LiveMeeting(u, w)
    BY <2>1 DEF InTurn
  <2>3. \A u \in Tasks : LiveMeeting(u, w)' => u = t
    BY <1>1, <2>2 DEF LiveMeeting
  <2> QED BY <2>1, <2>2, <2>3 DEF InTurn
<1> QED BY <1>3, <1>4, <1>5

LEMMA CreateInTurn ==
  ASSUME CoreInv, NEW w \in Workflows, InTurn(w), Create PROVE InTurn(w)'
<1>1. PICK v \in Workflows :
        /\ wf[v].state = "absent" /\ SetState(v, "meeting_discussion", NoTask)
        /\ handler' = [handler EXCEPT !.pc = "submit", !.wf = v] /\ UNCHANGED task
  BY DEF Create
<1>2. /\ handler'.pc = "submit" /\ handler'.wf = v
      /\ wf'[v].state = "meeting_discussion" /\ (w # v => wf'[w] = wf[w])
  BY <1>1 DEF SetState, CoreInv, Shape, Letter
<1>3. CASE w = v
  <2>1. \A t : ~ LiveMeeting(t, w)'
    BY <1>1, <1>3, NoMeetingsYet DEF LiveMeeting
  <2>2. wf'[w].state \notin Awaiting
    BY <1>2, <1>3 DEF Awaiting
  <2> QED BY <1>2, <1>3, <2>1, <2>2, <1>1 DEF InTurn, LiveMeeting
<1>4. CASE w # v
  <2>1. Concluded(w)' => Concluded(w)
    BY <1>1, <1>2, <1>4 DEF Concluded
  <2>2. \A t : LiveMeeting(t, w)' => LiveMeeting(t, w)
    BY <1>1 DEF LiveMeeting
  <2> QED BY <1>2, <1>4, <2>1, <2>2 DEF InTurn
<1> QED BY <1>3, <1>4

LEMMA BindInTurn ==
  ASSUME CoreInv, NEW w \in Workflows, InTurn(w), BindTask PROVE InTurn(w)'
<1>1. /\ handler.pc = "bind" /\ handler' = NoMessage /\ UNCHANGED task
      /\ wf' = [wf EXCEPT ![handler.wf] = [@ EXCEPT !.task = handler.task]]
      /\ handler.wf \in Workflows
  BY DEF BindTask, HAt, CoreInv, MessageOK
<1>2. /\ wf'[w].state = wf[w].state
      /\ w # handler.wf => wf'[w].task = wf[w].task
      /\ w = handler.wf => wf'[w].task = handler.task
  BY <1>1 DEF CoreInv, Shape
<1>3. \A t : LiveMeeting(t, w)' => LiveMeeting(t, w)
  BY <1>1 DEF LiveMeeting
<1>4. CASE w # handler.wf
  <2>1. Concluded(w)' => Concluded(w)
    BY <1>1, <1>2, <1>4 DEF Concluded
  <2> QED BY <1>1, <1>2, <1>3, <2>1, InTurnStays
<1>5. CASE w = handler.wf
  <2>1. \A t \in Tasks : LiveMeeting(t, w) => t = handler.task
    BY <1>1, <1>5 DEF InTurn
  <2>2. Concluded(w)' => \A t \in Tasks : ~ LiveMeeting(t, w)'
    BY <1>1, <1>2, <1>3, <1>5, <2>1 DEF Concluded, LiveMeeting, Live
  <2> QED BY <1>1, <1>2, <1>3, <2>2, InTurnStays
<1> QED BY <1>4, <1>5

LEMMA WriteInTurn ==
  ASSUME CoreInv, NEW w \in Workflows, InTurn(w), HandlerTransWrite PROVE InTurn(w)'
<1>1. /\ handler.pc = "commit" /\ SetState(handler.wf, handler.to, handler.task) /\ UNCHANGED task
      /\ handler.wf \in Workflows /\ handler \in Letter
      /\ IF handler.after = "idle" THEN handler' = NoMessage
         ELSE handler' = [handler EXCEPT !.pc = handler.after]
  BY DEF HandlerTransWrite, HAt, HGoto, CoreInv, Shape, MessageOK
<1>2. /\ wf'[handler.wf].state = handler.to
      /\ w # handler.wf => wf'[w] = wf[w]
  BY <1>1 DEF SetState, CoreInv, Shape
<1>3. \/ handler' = NoMessage
      \/ /\ handler'.pc \in {"create", "submit"} /\ handler'.pc = handler.after
         /\ handler'.wf = handler.wf
  BY <1>1 DEF Letter
<1>4. \A t : LiveMeeting(t, w)' => LiveMeeting(t, w)
  BY <1>1 DEF LiveMeeting
<1>5. CASE w # handler.wf
  <2>1. Concluded(w)' => Concluded(w)
    BY <1>1, <1>2, <1>5 DEF Concluded
  <2>2. handler' = NoMessage \/ handler'.wf # w
    BY <1>3, <1>5
  <2> QED BY <1>2, <1>4, <1>5, <2>1, <2>2 DEF InTurn, NoMessage
<1>6. CASE w = handler.wf
  <2>1. handler.to \in Awaiting \/ handler.after = "submit" => handler.meeting # NoTask
    BY <1>1 DEF Letter, Asked, Awaiting, CoreInv, MessageOK
  <2>2. handler.after = "submit" => handler.to \notin Awaiting
    BY <1>1 DEF CoreInv, MessageOK, Awaiting
  <2>3. handler.meeting # NoTask => \A t \in Tasks : ~ LiveMeeting(t, w)
    BY <1>1, <1>6 DEF InTurn
  <2>4. wf'[w].state = handler.to
    BY <1>2, <1>6
  <2>5. /\ handler'.pc = "submit" => handler.after = "submit"
        /\ handler'.pc \in {"idle", "create", "submit"}
    BY <1>3 DEF NoMessage
  <2> QED BY <1>4, <2>1, <2>2, <2>3, <2>4, <2>5 DEF InTurn, LiveMeeting
<1> QED BY <1>5, <1>6

LEMMA MessageInTurn ==
  ASSUME CoreInv, HandlerStep \/ Message, NEW w \in Workflows, InTurn(w)
  PROVE  Retried(w)' \/ InTurn(w)'
<1>1. CASE \/ AskMeeting \/ AskCollaboration \/ Decide \/ HandOff \/ RecordDecision \/ HandlerTransRead
  BY <1>1, QuietSteps
<1>2. CASE Create \/ BindTask \/ HandlerTransWrite
  BY <1>2, CreateInTurn, BindInTurn, WriteInTurn
<1>3. CASE SubmitMeeting
  <2>1. handler.pc = "submit" /\ UNCHANGED wf
    BY <1>3 DEF SubmitMeeting, HAt
  <2> QED BY <1>3, <2>1, OpensMeeting, OpensInTurn
<1>4. CASE SubmitCollaboration
  <2>1. UNCHANGED wf
    BY <1>4 DEF SubmitCollaboration
  <2> QED BY <1>4, <2>1, OpensCollaboration, OpensInTurn
<1>5. CASE \E t \in Tasks : Retry(t)
  <2>1. UNCHANGED <<wf, handler>>
    BY <1>5 DEF Retry
  <2> QED BY <1>5, <2>1, OpensRetry, OpensInTurn
<1>6. CASE Expire \/ \E t \in Tasks : Approve(t) \/ Cancel(t)
  <2>1. UNCHANGED <<wf, handler>> /\ MessageRow
    BY <1>6, MessageSteps DEF Expire, Approve, Cancel, Message
  <2>2. CASE UNCHANGED task
    BY <2>1, <2>2, InTurnStays DEF LiveMeeting, Concluded
  <2>3. CASE \E t \in Tasks, q \in Row : Opens(t, q)
    BY <2>1, <2>3, OpensInTurn
  <2> QED BY <2>1, <2>2, <2>3, CommandInTurn DEF MessageRow
<1> QED BY <1>1, <1>2, <1>3, <1>4, <1>5, <1>6 DEF HandlerStep, Message

LEMMA MessageTurn == ASSUME CoreInv, TurnInv, HandlerStep \/ Message PROVE TurnInv'
<1>1. Grows /\ SameJob
  BY MessageGrows, MessageSteps
<1>2. \A w \in Workflows : Retried(w)' \/ InTurn(w)'
  BY <1>1, RetriedStays, MessageInTurn DEF TurnInv
<1>3. UNCHANGED forgotten
  BY DEF HandlerStep, Message, Create, SubmitMeeting, BindTask, RecordDecision, SubmitCollaboration,
     HandlerTransRead, HandlerTransWrite, AskMeeting, AskCollaboration, Convene, Decide, HandOff,
     Expire, Approve, Cancel, Retry, otherThanHandler
<1>4. (worker.stale => Retried(W))'
  <2> SUFFICES ASSUME worker'.stale PROVE Retried(W)'
    OBVIOUS
  <2>1. worker.pc # "idle"
    BY <1>1 DEF SameJob, NoJob, CoreInv, JobOK
  <2>2. T' = T /\ Belongs(T, W) /\ T \in Tasks /\ W \in Workflows
    BY <1>1, <2>1, JobTask DEF SameJob, T
  <2>3. W' = W
    BY <1>1, <2>2 DEF W, Grows, Later, Belongs
  <2>4. PICK w \in Workflows : w = W
    BY <2>2
  <2>5. Retried(w)
    <3>1. CASE worker.stale
      BY <2>4, <3>1 DEF TurnInv
    <3>2. CASE ~ worker.stale
      <4>1. RecordDecision /\ worker.pc \in {"ledger", "reopen"} /\ w = handler.wf
        <5>1. ~ UNCHANGED worker
          BY <3>2
        <5>2. RecordDecision
          BY <5>1, MessageSteps
        <5> QED BY <5>1, <5>2, <2>4 DEF RecordDecision
      <4>2. handler.pc = "record" /\ handler.meeting # NoTask
        BY <4>1 DEF RecordDecision, HAt, CoreInv, MessageOK
      <4>3. CASE worker.pc = "ledger"
        <5>1. LiveMeeting(T, w)
          BY <2>2, <2>4, <4>3 DEF LiveMeeting, Live, Belongs, CoreInv, JobOK, Place, Held
        <5>2. ~ InTurn(w)
          BY <2>2, <4>1, <4>2, <5>1 DEF InTurn
        <5> QED BY <5>2 DEF TurnInv
      <4>4. CASE worker.pc = "reopen"
        <5>1. task[T].retry
          BY <4>4 DEF CoreInv, JobOK, Reopens
        <5> QED BY <2>2, <2>4, <5>1 DEF Retried, Belongs
      <4> QED BY <4>1, <4>3, <4>4
    <3> QED BY <3>1, <3>2
  <2>6. Retried(w)'
    BY <1>1, <2>5, RetriedStays
  <2> QED BY <2>3, <2>4, <2>6 DEF Retried
<1>5. \A w \in forgotten' : Retried(w)'
  BY <1>1, <1>3, RetriedStays DEF TurnInv
<1> QED BY <1>2, <1>4, <1>5 DEF TurnInv

LEMMA ProcessTurn == ASSUME CoreInv, TurnInv, Crash \/ Start PROVE TurnInv'
<1>1. /\ UNCHANGED <<wf, decided, confirmed, forgotten>> /\ worker' = NoJob /\ handler' = NoMessage
      /\ \A t \in Tasks : task'[t] = task[t] \/ task'[t] = Recovered(task[t])
  BY DEF Crash, Start, CoreInv, RunningOK
<1>2. \A t \in Tasks : ~ Absent(t) => Later(task'[t], task[t])
  BY <1>1, RecoveredRow DEF Later, Absent
<1>3. Grows
  BY <1>1, <1>2 DEF Grows
<1>4. ASSUME NEW w \in Workflows, InTurn(w) PROVE InTurn(w)'
  <2>1. \A t \in Tasks : task'[t] = task[t] \/ (task[t].status = "running"
                                               /\ task'[t].wf = task[t].wf /\ task'[t].kind = task[t].kind
                                               /\ task'[t].status # "succeeded")
    <3> SUFFICES ASSUME NEW t \in Tasks, task'[t] # task[t]
                 PROVE  /\ task[t].status = "running" /\ task'[t].status # "succeeded"
                        /\ task'[t].wf = task[t].wf /\ task'[t].kind = task[t].kind
      OBVIOUS
    <3>1. task'[t] = Recovered(task[t])
      BY <1>1
    <3>2. task[t].status = "running"
      BY <3>1, RecoveredRow
    <3> QED BY <3>1, <3>2, RecoveredRow DEF Later
  <2>2. \A t : LiveMeeting(t, w)' => LiveMeeting(t, w)
    BY <2>1 DEF LiveMeeting, Live
  <2>3. Concluded(w)' => Concluded(w)
    <3>1. wf[w].task \in Tasks \union {NoTask}
      BY DEF CoreInv, Shape
    <3> QED BY <1>1, <2>1, <3>1 DEF Concluded
  <2> QED BY <1>1, <1>4, <2>2, <2>3, InTurnStays
<1>5. ~ worker'.stale
  BY <1>1 DEF NoJob
<1> QED BY <1>1, <1>3, <1>4, <1>5, RetriedStays DEF TurnInv

LEMMA StepTurn == CoreInv /\ TurnInv /\ [Next]_vars => TurnInv'
<1> SUFFICES ASSUME CoreInv, TurnInv, [Next]_vars PROVE TurnInv'
  OBVIOUS
<1>1. CASE UNCHANGED vars
  BY <1>1 DEF vars, TurnInv, InTurn, LiveMeeting, Retried, Concluded, T, W
<1> QED BY <1>1, JobTurn, MessageTurn, ProcessTurn DEF Next

LEMMA InitTurn == Init => TurnInv
BY CollaborationAssumption
   DEF Init, TurnInv, InTurn, LiveMeeting, Live, Concluded, NoJob, NoMessage, NoRow, NewRow,
        Awaiting

\* A ledger that is written back has lost a decision only in a workflow of which
\* a task was retried.
THEOREM DecisionsSurvive == Spec => []DecisionsAreKept
<1>1. TurnInv => DecisionsAreKept
  BY DEF TurnInv, Retried, DecisionsAreKept
<1>2. Spec => [](CoreInv /\ TurnInv)
  BY InitCore, InitTurn, StepCore, StepTurn, PTL DEF Spec
<1> QED BY <1>1, <1>2, PTL

-------------------------------------------------------------------------------
(* Tasks move as TaskLifecycle lets them.                                     *)

LEMMA Stages ==
  /\ StageOf("absent") = "new" /\ StageOf("queued") = "open"
  /\ StageOf("running") = "running" /\ StageOf("waiting_approval") = "waiting"
  /\ \A s \in Closed : StageOf(s) = "closed"
BY DEF StageOf, Closed

LEMMA StatusStages ==
  ASSUME NEW q \in Row
  PROVE  /\ StageOf(q.status) \in Lifecycle!Stages
         /\ StageOf(q.status) = "running" <=> q.status = "running"
         /\ StageOf(q.status) = "new" <=> q.status = "absent"
         /\ StageOf(q.status) = "closed" <=> q.status \in Closed
BY DEF Row, StageOf, Closed, Live, Lifecycle!Stages

\* One row moves within its chain of retries.
LEMMA OneRow ==
  ASSUME CoreInv, NEW t \in Tasks, NEW q \in Row, task' = [task EXCEPT ![t] = q],
         q.origin = task[t].origin
  PROVE  /\ Lifecycle!Move(t, StageOf(task[t].status), StageOf(q.status))
         /\ [u \in Tasks |-> StageOf(task[u].status)]' =
              [[u \in Tasks |-> StageOf(task[u].status)] EXCEPT ![t] = StageOf(q.status)]
         /\ UNCHANGED [u \in Tasks |-> "chat"]
         /\ UNCHANGED [u \in Tasks |-> task[u].origin]
         /\ q.agreed = task[t].agreed => UNCHANGED {u \in Tasks : task[u].agreed}
         /\ q.wrote = task[t].wrote => UNCHANGED {u \in Tasks : task[u].wrote}
         /\ \A u \in Tasks : task'[u] = IF u = t THEN q ELSE task[u]
<1>1. \A u \in Tasks : task'[u] = IF u = t THEN q ELSE task[u]
  BY DEF CoreInv, Shape
<1>2. [u \in Tasks |-> StageOf(task[u].status)]' =
        [[u \in Tasks |-> StageOf(task[u].status)] EXCEPT ![t] = StageOf(q.status)]
  <2>1. \A u \in Tasks : StageOf(task'[u].status) =
                           IF u = t THEN StageOf(q.status) ELSE StageOf(task[u].status)
    BY <1>1
  <2> QED BY <2>1
<1>3. UNCHANGED [u \in Tasks |-> task[u].origin] /\ UNCHANGED [u \in Tasks |-> "chat"]
  BY <1>1
<1>4. /\ q.agreed = task[t].agreed => UNCHANGED {u \in Tasks : task[u].agreed}
      /\ q.wrote = task[t].wrote => UNCHANGED {u \in Tasks : task[u].wrote}
  BY <1>1
<1> QED BY <1>1, <1>2, <1>3, <1>4 DEF Lifecycle!Move

LEMMA Stutters == ASSUME UNCHANGED task PROVE UNCHANGED Lifecycle!vars
BY DEF Lifecycle!vars

\* A row whose status stays.
LEMMA StuttersOne ==
  ASSUME CoreInv, NEW t \in Tasks, NEW q \in Row, task' = [task EXCEPT ![t] = q],
         q.origin = task[t].origin, q.agreed = task[t].agreed, q.wrote = task[t].wrote,
         q.status = task[t].status
  PROVE  UNCHANGED Lifecycle!vars
<1>1. \A u \in Tasks : task'[u].status = task[u].status
  BY OneRow
<1>2. UNCHANGED [u \in Tasks |-> StageOf(task[u].status)]
  BY <1>1
<1> QED BY <1>2, OneRow DEF Lifecycle!vars

LEMMA Closes ==
  ASSUME CoreInv, NEW t \in Tasks, NEW q \in Row, task' = [task EXCEPT ![t] = q],
         q.origin = task[t].origin, q.agreed = task[t].agreed, q.wrote = task[t].wrote,
         ~ Absent(t), q.status \in Closed
  PROVE  Lifecycle!Next
<1>1. StageOf(task[t].status) # "new" /\ StageOf(q.status) = "closed"
  BY Stages, StatusStages DEF Absent, CoreInv, Shape
<1>2. Lifecycle!Close(t)
  BY <1>1, OneRow DEF Lifecycle!Close
<1> QED BY <1>2 DEF Lifecycle!Next

LEMMA RefineClaim == ASSUME CoreInv, Claim PROVE Lifecycle!Next
<1>1. PICK h \in Tasks :
        /\ task[h].status = "queued" /\ task' = [task EXCEPT ![h] = [@ EXCEPT !.status = "running"]]
        /\ worker.pc = "idle" /\ up
  <2>1. Head(queue) = queue[1] /\ 1 \in 1 .. Len(queue)
    BY HeadTailProperties, LenProperties DEF Claim, CoreInv, QueueOK
  <2>2. queue[1] \in Tasks /\ task[queue[1]].status = "queued"
    BY <2>1, ElementOfSeq DEF CoreInv, QueueOK, Queued
  <2> QED BY <2>1, <2>2 DEF Claim, At
<1> DEFINE q == [task[h] EXCEPT !.status = "running"]
<1>2. \A u \in Tasks : task[u].status # "running"
  BY <1>1, CollaborationAssumption DEF CoreInv, RunningOK, JobOK, NoJob
<1>3. task[h] \in Row /\ \A u \in Tasks : StageOf(task[u].status) # "running"
  BY <1>2, StatusStages DEF CoreInv, Shape
<1>4. /\ q \in Row /\ q.status = "running" /\ q.origin = task[h].origin
      /\ q.agreed = task[h].agreed /\ q.wrote = task[h].wrote
      /\ task' = [task EXCEPT ![h] = q]
  BY <1>1, <1>3 DEF Row, Live
<1> HIDE DEF q
<1>5. /\ Lifecycle!Move(h, "open", "running") /\ UNCHANGED [u \in Tasks |-> "chat"]
      /\ UNCHANGED [u \in Tasks |-> task[u].origin] /\ UNCHANGED {u \in Tasks : task[u].agreed}
      /\ UNCHANGED {u \in Tasks : task[u].wrote}
  <2>1. StageOf(task[h].status) = "open" /\ StageOf(q.status) = "running"
    BY <1>1, <1>4, Stages
  <2>2. Lifecycle!Move(h, StageOf(task[h].status), StageOf(q.status))
    BY <1>4, OneRow
  <2>3. Lifecycle!Move(h, "open", "running")
    BY <2>1, <2>2
  <2> QED BY <1>4, <2>3, OneRow
<1>6. Lifecycle!Begin(h)
  BY <1>3, <1>5 DEF Lifecycle!Begin
<1> QED BY <1>6 DEF Lifecycle!Next

LEMMA RefineJob ==
  ASSUME CoreInv, WroteInv, WorkerStep, ~ Claim PROVE [Lifecycle!Next]_(Lifecycle!vars)
<1>1. PICK t \in Tasks : t = T /\ t = worker.task /\ ~ Absent(t) /\ RowOK(t)
                         /\ WroteOK(t) /\ task[t] \in Row
  BY JobSteps, JobTask DEF Belongs, T, CoreInv, WroteInv
<1> DEFINE q == task'[t]
<1>2. /\ q \in Row /\ task' = [task EXCEPT ![t] = q] /\ q.origin = task[t].origin
      /\ q.agreed = task[t].agreed
  BY <1>1, JobKeeps DEF Later
<1>3. /\ \/ q.wrote = task[t].wrote
         \/ /\ q.wrote /\ worker.pc = "work" /\ task[t].kind = "code"
            /\ q.status = task[t].status
      /\ \/ q.status = task[t].status
         \/ worker.pc = "minutes" /\ q.status = "succeeded" /\ q.wrote = task[t].wrote
         \/ /\ q.status \in Closed \union {"waiting_approval"}
            /\ q.status = "waiting_approval" => worker.pc = "park"
            /\ q.wrote = task[t].wrote
  BY <1>1, JobKeeps
<1> HIDE DEF q
<1>4. CASE q.wrote = task[t].wrote /\ q.status = task[t].status
  BY <1>2, <1>4, StuttersOne
<1>5. CASE q.wrote = task[t].wrote /\ q.status \in Closed
  BY <1>1, <1>2, <1>5, Closes
<1>6. CASE q.wrote = task[t].wrote /\ q.status = "waiting_approval" /\ worker.pc = "park"
  <2>1. task[t].status = "running"
    BY <1>1, <1>6 DEF CoreInv, JobOK, T
  <2>2. /\ Lifecycle!Move(t, "running", "waiting") /\ UNCHANGED [u \in Tasks |-> "chat"]
        /\ UNCHANGED [u \in Tasks |-> task[u].origin] /\ UNCHANGED {u \in Tasks : task[u].agreed}
        /\ UNCHANGED {u \in Tasks : task[u].wrote}
    <3>1. StageOf(task[t].status) = "running" /\ StageOf(q.status) = "waiting"
      BY <1>6, <2>1, Stages
    <3>2. Lifecycle!Move(t, StageOf(task[t].status), StageOf(q.status))
      BY <1>2, OneRow
    <3>3. Lifecycle!Move(t, "running", "waiting")
      BY <3>1, <3>2
    <3> QED BY <1>2, <1>6, <3>3, OneRow
  <2>3. Lifecycle!Ask(t)
    BY <2>2 DEF Lifecycle!Ask
  <2> QED BY <2>3 DEF Lifecycle!Next
<1>7. CASE q.wrote # task[t].wrote
  <2>1. /\ q.wrote /\ worker.pc = "work" /\ q.status = task[t].status
        /\ task[t].kind = "code"
    BY <1>3, <1>7
  <2>2. /\ task[t].status = "running" /\ task[t].approved /\ ~ task[t].wrote /\ up
        /\ task[t].wrote \in BOOLEAN
    BY <1>1, <1>7, <2>1, JobSteps DEF CoreInv, JobOK, T, Place, Approved, Row, WroteOK
  <2>3. PICK u \in Tasks : task[u].agreed /\ task[u].origin = task[t].origin
    BY <1>1, <2>2 DEF RowOK
  <2>4. /\ \A v \in Tasks : task'[v] = IF v = t THEN q ELSE task[v]
        /\ UNCHANGED [v \in Tasks |-> task[v].origin] /\ UNCHANGED {v \in Tasks : task[v].agreed}
    BY <1>2, OneRow
  <2>5. UNCHANGED [v \in Tasks |-> StageOf(task[v].status)]
    <3>1. \A v \in Tasks : task'[v].status = task[v].status
      BY <2>1, <2>4
    <3> QED BY <3>1
  <2>6. {v \in Tasks : task[v].wrote}' = {v \in Tasks : task[v].wrote} \union {t}
    BY <2>1, <2>4
  <2>7. StageOf(task[t].status) = "running"
    BY <2>2, Stages
  <2>8. Lifecycle!Write(t)
    BY <2>2, <2>3, <2>4, <2>5, <2>6, <2>7 DEF Lifecycle!Write
  <2> QED BY <2>8 DEF Lifecycle!Next
<1> QED BY <1>3, <1>4, <1>5, <1>6, <1>7 DEF Closed

LEMMA RefineOpens ==
  ASSUME CoreInv, NEW t \in Tasks, NEW q \in Row, Opens(t, q) PROVE Lifecycle!Next
<1>1. /\ task' = [task EXCEPT ![t] = q] /\ task[t].status = "absent" /\ q.status = "queued"
      /\ ~ q.wrote /\ ~ q.agreed /\ ~ task[t].wrote /\ ~ task[t].agreed
      /\ \A u \in Tasks : task'[u] = IF u = t THEN q ELSE task[u]
  <2>1. task[t] = NoRow(t)
    <3>1. RowOK(t)
      BY DEF CoreInv
    <3> QED BY <3>1 DEF RowOK, Opens
  <2> QED BY <2>1 DEF Opens, CoreInv, Shape, Absent, NoRow, NewRow
<1>2. Lifecycle!Move(t, "new", "open")
  <2>1. StageOf(task[t].status) = "new" /\ StageOf(q.status) = "open"
    BY <1>1, Stages
  <2>2. \A u \in Tasks : StageOf(task'[u].status) =
                           IF u = t THEN "open" ELSE StageOf(task[u].status)
    BY <1>1, <2>1
  <2> QED BY <2>1, <2>2 DEF Lifecycle!Move
<1>3. /\ UNCHANGED {u \in Tasks : task[u].agreed} /\ UNCHANGED {u \in Tasks : task[u].wrote}
  BY <1>1
<1>4. [u \in Tasks |-> "chat"]' = [[u \in Tasks |-> "chat"] EXCEPT ![t] = "chat"]
  OBVIOUS
<1>5. [u \in Tasks |-> task[u].origin]' = [[u \in Tasks |-> task[u].origin] EXCEPT ![t] = q.origin]
  <2>1. \A u \in Tasks : task'[u].origin = IF u = t THEN q.origin ELSE task[u].origin
    BY <1>1
  <2> QED BY <2>1
<1>6. \A u \in Tasks : task[u].status \in Closed => StageOf(task[u].status) = "closed"
  BY Stages
<1>7. q.origin = t \/ \E u \in Tasks : task[u].status \in Closed /\ q.origin = task[u].origin
  BY DEF Opens
<1>8. Lifecycle!Open(t)
  BY <1>2, <1>3, <1>4, <1>5, <1>6, <1>7 DEF Lifecycle!Open
<1> QED BY <1>8 DEF Lifecycle!Next

LEMMA RefineAgrees ==
  ASSUME CoreInv, NEW t \in Tasks, Agrees(t) PROVE Lifecycle!Next
<1> DEFINE q == [task[t] EXCEPT !.status = "queued", !.phase = "execute", !.approved = TRUE,
                                !.agreed = TRUE]
<1>1. task[t] \in Row /\ task[t].status = "waiting_approval" /\ task' = [task EXCEPT ![t] = q]
  BY DEF Agrees, CoreInv, Shape
<1>2. /\ q \in Row /\ q.status = "queued" /\ q.origin = task[t].origin /\ q.agreed
      /\ q.wrote = task[t].wrote
  BY <1>1 DEF Row, Live
<1> HIDE DEF q
<1>3. /\ Lifecycle!Move(t, "waiting", "open") /\ UNCHANGED [u \in Tasks |-> "chat"]
      /\ UNCHANGED [u \in Tasks |-> task[u].origin]
      /\ UNCHANGED {u \in Tasks : task[u].wrote}
      /\ \A u \in Tasks : task'[u] = IF u = t THEN q ELSE task[u]
  <2>1. StageOf(task[t].status) = "waiting" /\ StageOf(q.status) = "open"
    BY <1>1, <1>2, Stages
  <2>2. Lifecycle!Move(t, StageOf(task[t].status), StageOf(q.status))
    BY <1>1, <1>2, OneRow
  <2>3. Lifecycle!Move(t, "waiting", "open")
    BY <2>1, <2>2
  <2> QED BY <1>1, <1>2, <2>3, OneRow
<1>4. {u \in Tasks : task[u].agreed}' = {u \in Tasks : task[u].agreed} \union {t}
  BY <1>2, <1>3
<1>5. Lifecycle!Agree(t)
  BY <1>3, <1>4 DEF Lifecycle!Agree
<1> QED BY <1>5 DEF Lifecycle!Next

LEMMA RefineMessage ==
  ASSUME CoreInv, HandlerStep \/ Message PROVE [Lifecycle!Next]_(Lifecycle!vars)
<1>1. ASSUME NEW t \in Tasks, NEW q \in Row, Stops(t, q)
      PROVE  [Lifecycle!Next]_(Lifecycle!vars)
  <2>1. /\ task' = [task EXCEPT ![t] = q] /\ q.origin = task[t].origin
        /\ q.agreed = task[t].agreed /\ q.wrote = task[t].wrote
        /\ \/ q.status = task[t].status
           \/ ~ Absent(t) /\ q.status = "cancelled"
    BY <1>1 DEF Stops, Kept, Later, Absent
  <2>2. CASE q.status = task[t].status
    BY <2>1, <2>2, StuttersOne
  <2>3. CASE ~ Absent(t) /\ q.status = "cancelled"
    BY <2>1, <2>3, Closes DEF Closed
  <2> QED BY <2>1, <2>2, <2>3
<1> QED BY <1>1, MessageSteps, Stutters, RefineOpens, RefineAgrees DEF MessageRow

LEMMA RefineStart == ASSUME CoreInv, WroteInv, Start PROVE Lifecycle!Next
<1>1. task' = [t \in Tasks |-> Recovered(task[t])]
  BY DEF Start
<1>2. \A t \in Tasks : task'[t] = Recovered(task[t])
  BY <1>1
<1>3. \A t \in Tasks : /\ task'[t] \in Row /\ task'[t].origin = task[t].origin
                       /\ task'[t].agreed = task[t].agreed /\ task'[t].wrote = task[t].wrote
  BY <1>2, RecoveredRow
<1>4. /\ UNCHANGED [t \in Tasks |-> task[t].origin] /\ UNCHANGED [t \in Tasks |-> "chat"]
      /\ UNCHANGED {t \in Tasks : task[t].agreed} /\ UNCHANGED {t \in Tasks : task[t].wrote}
  BY <1>3
<1>5. [t \in Tasks |-> StageOf(task[t].status)]' \in [Tasks -> Lifecycle!Stages]
  BY <1>3, StatusStages
<1>6. ASSUME NEW t \in Tasks
      PROVE  [u \in Tasks |-> StageOf(task[u].status)]'[t] \in Lifecycle!AfterRestart(t)
  <2> DEFINE s == StageOf(task[t].status)
  <2>1. [u \in Tasks |-> StageOf(task[u].status)]'[t] = StageOf(task'[t].status)
    OBVIOUS
  <2>2. task[t] \in Row /\ WroteOK(t)
    BY DEF CoreInv, Shape, WroteInv
  <2>3. CASE task[t].status = "running"
    <3>1. task'[t].status \in {"queued", "cancelled", "blocked"}
          /\ (task[t].wrote => task'[t].status # "queued")
      BY <1>2, <2>2, <2>3, RecoveredRow DEF WroteOK
    <3>2. StageOf(task'[t].status) \in {"open", "closed"}
          /\ (task[t].wrote => StageOf(task'[t].status) = "closed") /\ s = "running"
      BY <2>3, <3>1, Stages DEF Closed
    <3> QED BY <2>1, <3>2 DEF Lifecycle!AfterRestart
  <2>4. CASE task[t].status # "running"
    <3>1. task'[t] = task[t]
      BY <1>2, <2>4, RecoveredRow
    <3>2. StageOf(task'[t].status) = s /\ s \in {"new", "open", "waiting", "closed"}
      BY <2>2, <2>4, <3>1, StatusStages DEF Lifecycle!Stages
    <3> HIDE DEF s
    <3>3. s \in Lifecycle!AfterRestart(t)
      BY <3>2 DEF Lifecycle!AfterRestart, s
    <3> QED BY <2>1, <3>2, <3>3
  <2> QED BY <2>3, <2>4
<1>7. Lifecycle!Restart
  BY <1>4, <1>5, <1>6 DEF Lifecycle!Restart
<1> QED BY <1>7 DEF Lifecycle!Next

LEMMA RefineStep ==
  CoreInv /\ WroteInv /\ [Next]_vars => [Lifecycle!Next]_(Lifecycle!vars)
<1> SUFFICES ASSUME CoreInv, WroteInv, [Next]_vars PROVE [Lifecycle!Next]_(Lifecycle!vars)
  OBVIOUS
<1>1. CASE UNCHANGED vars \/ Crash
  BY <1>1, Stutters DEF vars, Crash
<1> QED BY <1>1, RefineClaim, RefineJob, RefineMessage, RefineStart DEF Next

LEMMA RefineInit == Init => Lifecycle!Init
<1> SUFFICES ASSUME Init PROVE Lifecycle!Init
  OBVIOUS
<1>1. \A t \in Tasks : /\ task[t].status = "absent" /\ task[t].origin = t
                       /\ task[t].agreed = FALSE /\ task[t].wrote = FALSE
  BY DEF Init, NoRow, NewRow
<1>2. \A t \in Tasks : StageOf(task[t].status) = "new"
  BY <1>1, Stages
<1>3. /\ [t \in Tasks |-> StageOf(task[t].status)] \in
           [Tasks -> {"new", "open", "waiting", "closed"}]
      /\ [t \in Tasks |-> task[t].origin] = [t \in Tasks |-> t]
      /\ [t \in Tasks |-> "chat"] \in [Tasks -> {"chat"}]
      /\ {t \in Tasks : task[t].agreed} = {} /\ {t \in Tasks : task[t].wrote} = {}
  BY <1>1, <1>2
<1> QED BY <1>3 DEF Lifecycle!Init

\* Collaboration implements the abstract queue: one task of the chat at a time,
\* a write phase once per task and under an approval of its chain of retries.
THEOREM CollaborationRefinesLifecycle == Spec => TasksFollowLifecycle
<1>1. Spec => [](CoreInv /\ WroteInv)
  BY InitCore, InitWrote, StepCore, StepWrote, PTL DEF Spec
<1> QED BY <1>1, RefineInit, RefineStep, PTL DEF Spec, TasksFollowLifecycle, Lifecycle!Spec
===============================================================================
