----------------------------- MODULE Collaboration -----------------------------
(***************************************************************************)
(* A collaboration: the workflow instances of workflow_store.py, the       *)
(* commands of bot.handle_message that start, decide, continue and hand    *)
(* off one, and the runner's transitions (_run_roundtable_task,            *)
(* _run_swarm_task, execute_background_task), for the workflows of one     *)
(* chat and their owner.                                                   *)
(*                                                                         *)
(* Tasks move in the steps of TaskLifecycle, which TaskQueue implements;   *)
(* a workflow's row is read and written as the code does it: transition    *)
(* SELECTs the state, checks the table and UPDATEs in a second step        *)
(* ("commit"), and so does finish_from_task ("sync", "syncwrite").         *)
(* The ledgers are JSON columns no transition reads: what is followed of   *)
(* them is whether the runner writes back a ledger from before a decision. *)
(***************************************************************************)
EXTENDS Naturals, FiniteSets, Sequences, WorkflowStates

CONSTANTS
  Workflows,   \* identifiers WorkflowStore.create may draw
  Tasks,       \* identifiers TaskStore.create may draw
  Modes,       \* operation modes of a hand-off in this instance
  MaxCrashes,  \* bound on the number of process exits
  NoWorkflow,
  NoTask

ASSUME CollaborationAssumption ==
  /\ Modes \subseteq {"code", "report"}
  /\ MaxCrashes \in Nat
  /\ NoTask \notin Tasks
  /\ NoWorkflow \notin Workflows
  /\ IsFiniteSet(Workflows)

VARIABLES
  wf,         \* workflow_instances: workflow -> state and current task
  rank,       \* the order of updated_at: the active workflow has the greatest
  task,       \* the rows of tasks
  queue,      \* the queued ones by COALESCE(approved_at, created_at)
  worker,     \* the job of the chat
  handler,    \* the message being handled
  up, crashes,
  decided,    \* history: workflows with a recorded decision of the owner
  forgotten,  \* history: workflows whose ledger has lost a decision
  confirmed,  \* history: workflows whose owner asked to start the collaboration
  overtaken   \* history: workflows a message wrote a state to that had moved on
              \* since the message read it and did not allow that state any more,
              \* until a transition of the runner

vars == <<wf, rank, task, queue, worker, handler, up, crashes, decided, forgotten, confirmed,
          overtaken>>

Open(w) == wf[w].state \notin Ended \union {"absent"}

\* WorkflowStore.active.
Active(w) == Open(w) /\ \A v \in Workflows : Open(v) => rank[v] <= rank[w]

\* Every write of a workflow's row sets updated_at.
Touch(w) ==
  rank' = [v \in Workflows |-> IF v = w THEN Cardinality(Workflows)
                               ELSE IF rank[v] > rank[w] THEN rank[v] - 1 ELSE rank[v]]

\* UPDATE workflow_instances SET state, current_task_id = COALESCE(t, ...).
SetState(w, s, t) ==
  /\ wf' = [wf EXCEPT ![w] =
       [state |-> s, task |-> IF t = NoTask THEN wf[w].task ELSE t]]
  /\ Touch(w)

-------------------------------------------------------------------------------
(* Tasks, at the granularity of TaskLifecycle; needs_review is "blocked"    *)
(* here, the runner and the commands treat both alike.                      *)

Live   == {"queued", "running", "waiting_approval"}
Closed == {"succeeded", "failed", "blocked", "cancelled"}
Kinds  == {"roundtable", "code", "report"}

\* cont: continued_from is set; meeting: meeting_task_id; retry: retry_of is
\* set; origin: the first of a chain of retries; approved: approved_at;
\* delivered: the checkpoint report_delivered.  agreed, wrote and sent are
\* history: approved by the owner, write phase entered, files sent.
Row == [status : {"absent"} \union Live \union Closed, kind : Kinds,
        wf : Workflows \union {NoWorkflow}, cont : BOOLEAN, meeting : Tasks \union {NoTask},
        retry : BOOLEAN, origin : Tasks, phase : {"planning", "execute"},
        approved : BOOLEAN, cancel : BOOLEAN, delivered : BOOLEAN,
        agreed : BOOLEAN, wrote : BOOLEAN, sent : BOOLEAN]

NewRow(t, k, w, cont, m) ==
  [status |-> "queued", kind |-> k, wf |-> w, cont |-> cont, meeting |-> m,
   retry |-> FALSE, origin |-> t,
   phase |-> IF k = "roundtable" THEN "execute" ELSE "planning",
   approved |-> FALSE, cancel |-> FALSE, delivered |-> FALSE,
   agreed |-> FALSE, wrote |-> FALSE, sent |-> FALSE]

NoRow(t) == [NewRow(t, "roundtable", NoWorkflow, FALSE, NoTask) EXCEPT !.status = "absent"]

Absent(t) == task[t].status = "absent"

\* _workflow_current_meeting.
Concluded(w) ==
  LET t == wf[w].task
  IN  t # NoTask /\ task[t].kind = "roundtable" /\ task[t].status = "succeeded"

-------------------------------------------------------------------------------
(* The runner.                                                              *)

\* stale: a decision was recorded since the runner has read the ledgers.
NoJob == [pc |-> "idle", task |-> NoTask, to |-> "failed", after |-> "idle",
          out |-> "failed", stale |-> FALSE]

At(p)   == up /\ worker.pc = p
T       == worker.task
W       == task[T].wf
Goto(p) == worker' = [worker EXCEPT !.pc = p]

\* WORKFLOW_STORE.transition(w, to, task["id"]), continuing at p.
Transition(to, p) == worker' = [worker EXCEPT !.pc = "trans", !.to = to, !.after = p]

\* A synchronization that takes the task's status for a workflow state.
RaiseUnmapped(o) == worker' = [worker EXCEPT !.pc = "sync", !.out = o, !.to = o]

\* An exception: execute_background_task synchronizes the workflow with o.
Raise(o) == worker' = [worker EXCEPT !.pc = "sync", !.out = o,
                         !.to = IF o = "cancelled" THEN "cancelled" ELSE "failed"]

otherThanWorker == <<wf, rank, task, queue, handler, up, crashes,
                     decided, forgotten, confirmed, overtaken>>
otherThanRow    == <<wf, rank, queue, handler, up, crashes,
                     decided, forgotten, confirmed, overtaken>>
otherThanFlow   == <<task, queue, handler, up, crashes,
                     decided, forgotten, confirmed, overtaken>>

\* next_queued and claim.
Claim ==
  /\ At("idle") /\ queue # <<>>
  /\ task' = [task EXCEPT ![Head(queue)] = [@ EXCEPT !.status = "running"]]
  /\ worker' = [NoJob EXCEPT !.pc = "claimed", !.task = Head(queue)]
  /\ queue' = Tail(queue)
  /\ UNCHANGED <<wf, rank, handler, up, crashes, decided, forgotten, confirmed, overtaken>>

\* _run_task looks for a cancellation before it calls the runner; the workflow
\* is not told.
Begin ==
  /\ At("claimed")
  /\ IF task[T].cancel
     THEN /\ task' = [task EXCEPT ![T] = [@ EXCEPT !.status = "cancelled"]]
          /\ worker' = NoJob
     ELSE /\ Goto(IF task[T].kind = "roundtable" THEN "meet" ELSE "start")
          /\ UNCHANGED task
  /\ UNCHANGED otherThanRow

\* An error, a block or a cancellation seen by progress or checkpoint.
RunnerRaises ==
  /\ up /\ worker.pc \in {"meet", "ledger", "minutes", "plan", "park", "receipt", "work",
                          "send", "verified", "deliver"}
  /\ \E o \in {"failed", "blocked"} \union {c \in {"cancelled"} : task[T].cancel} :
       /\ o = "blocked" => /\ task[T].kind # "roundtable"
                           /\ worker.pc \in {"plan", "work", "verified"}
       /\ Raise(o)
  /\ UNCHANGED otherThanWorker

\* A transition that logs an illegal change and goes on.
TransReadLogged ==
  /\ At("trans")
  /\ Goto(IF Legal(wf[W].state, worker.to) THEN "commit" ELSE worker.after)
  /\ UNCHANGED otherThanWorker

\* The first SELECT of transition, and its check of the table.
TransRead ==
  /\ At("trans")
  /\ IF Legal(wf[W].state, worker.to) THEN Goto("commit") ELSE Raise("failed")
  /\ UNCHANGED otherThanWorker

TransWrite ==
  /\ At("commit")
  /\ SetState(W, worker.to, T)
  /\ Goto(worker.after)
  /\ overtaken' = overtaken \ {W}
  /\ UNCHANGED <<task, queue, handler, up, crashes, decided, forgotten, confirmed>>

\* The meeting runs; after each round, and at its end, update_ledgers reads the row
Meet ==
  /\ At("meet")
  /\ Goto("ledger")
  /\ UNCHANGED otherThanWorker

\* and writes both ledgers back, with what the meeting adds to them.
WriteLedgers ==
  /\ At("ledger")
  /\ Touch(W)
  /\ forgotten' = IF worker.stale THEN forgotten \union {W} ELSE forgotten
  /\ worker' \in {[worker EXCEPT !.pc = "meet", !.stale = FALSE],
                 [worker EXCEPT !.pc = "trans", !.after = "minutes", !.stale = FALSE,
                    !.to = IF task[T].cont THEN "awaiting_collaboration_confirmation"
                           ELSE "awaiting_boss_decision"]}
  /\ UNCHANGED <<wf, task, queue, handler, up, crashes, decided, confirmed, overtaken>>

\* Minutes are sent and the meeting finishes its own task.
FinishMeeting ==
  /\ At("minutes")
  /\ task' = [task EXCEPT ![T] = [@ EXCEPT !.status = "succeeded"]]
  /\ Goto("return")
  /\ UNCHANGED otherThanRow

\* What the phase asks for, in a workflow that is in state s.
Proceed(s) ==
  LET next == IF task[T].phase = "planning" THEN "plan" ELSE "receipt" IN
  IF s = "awaiting_collaboration_confirmation" /\ next = "plan"
  THEN Transition("planning", next) ELSE Goto(next)

\* The check of the receipt against meeting and workflow.
StartCollaboration ==
  /\ At("start")
  /\ LET s    == wf[W].state
         held == task[task[T].meeting].status = "succeeded"
     IN  \/ (~ held \/ (s \in Ended /\ ~ task[T].retry)) /\ Raise("blocked")
         \/ held /\ s \in Ended /\ task[T].retry /\ Goto("resume")
         \/ held /\ s \notin Ended /\ Proceed(s)
  /\ UNCHANGED otherThanWorker

\* resume_for_retry reads the row,
ResumeRead ==
  /\ At("resume")
  /\ IF wf[W].state \in Ended THEN Goto("reopen") ELSE Proceed(wf[W].state)
  /\ UNCHANGED otherThanWorker

\* writes the state and the whole task ledger, with the retry added,
ResumeWrite ==
  /\ At("reopen")
  /\ SetState(W, IF task[T].phase = "planning" THEN "planning" ELSE "waiting_approval", T)
  /\ forgotten' = IF worker.stale THEN forgotten \union {W} ELSE forgotten
  /\ worker' = [worker EXCEPT !.pc = "resumed", !.stale = FALSE]
  /\ UNCHANGED <<task, queue, handler, up, crashes, decided, confirmed, overtaken>>

\* and returns the row as it is then.
Resumed ==
  /\ At("resumed")
  /\ Proceed(wf[W].state)
  /\ UNCHANGED otherThanWorker

Plan ==
  /\ At("plan")
  /\ Transition("waiting_approval", "park")
  /\ UNCHANGED otherThanWorker

\* wait_for_approval parks the task and ends the job.
Park ==
  /\ At("park") /\ ~ task[T].cancel
  /\ task' = [task EXCEPT ![T] = [@ EXCEPT !.status = "waiting_approval"]]
  /\ worker' = NoJob
  /\ UNCHANGED otherThanRow

\* The approval receipt is valid; the workflow is executing if it was waiting.
CheckReceipt ==
  /\ At("receipt") /\ task[T].approved
  /\ IF wf[W].state = "waiting_approval" THEN Transition("executing", "work") ELSE Goto("work")
  /\ UNCHANGED otherThanWorker

\* execute_collaborative_project merges and accepts the change.
Write ==
  /\ At("work") /\ task[T].kind = "code"
  /\ task' = [task EXCEPT ![T] = [@ EXCEPT !.wrote = TRUE]]
  /\ Transition("verifying", "verified")
  /\ UNCHANGED otherThanRow

\* A report is generated (or found), unless a checkpoint says it was delivered.
Generate ==
  /\ At("work") /\ task[T].kind = "report"
  /\ Goto(IF task[T].delivered THEN "return" ELSE "send")
  /\ UNCHANGED otherThanWorker

Send ==
  /\ At("send")
  /\ task' = [task EXCEPT ![T] = [@ EXCEPT !.sent = TRUE]]
  /\ Transition("verifying", "verified")
  /\ UNCHANGED otherThanRow

Complete ==
  /\ At("verified")
  /\ Transition("completed", IF task[T].kind = "report" THEN "deliver" ELSE "return")
  /\ UNCHANGED otherThanWorker

\* The checkpoint report_delivered.
Deliver ==
  /\ At("deliver") /\ ~ task[T].cancel
  /\ task' = [task EXCEPT ![T] = [@ EXCEPT !.delivered = TRUE]]
  /\ Goto("return")
  /\ UNCHANGED otherThanRow

\* _run_task after the runner's return: the last check and finish.
Return ==
  /\ At("return")
  /\ task' = [task EXCEPT ![T] =
                [@ EXCEPT !.status = IF task[T].cancel THEN "cancelled" ELSE "succeeded"]]
  /\ worker' = NoJob
  /\ UNCHANGED otherThanRow

\* finish_from_task: a terminal workflow is left alone, and a transition the
\* table does not have is logged and dropped.
SyncRead ==
  /\ At("sync")
  /\ LET s == wf[W].state
     IN  Goto(IF s \notin Ended /\ Legal(s, worker.to) THEN "syncwrite" ELSE "finish")
  /\ UNCHANGED otherThanWorker

SyncWrite ==
  /\ At("syncwrite")
  /\ SetState(W, worker.to, T)
  /\ Goto("finish")
  /\ UNCHANGED otherThanFlow

Finish ==
  /\ At("finish")
  /\ task' = [task EXCEPT ![T] = [@ EXCEPT !.status = worker.out]]
  /\ worker' = NoJob
  /\ UNCHANGED otherThanRow

WorkerStep ==
  \/ Claim \/ Begin \/ RunnerRaises \/ TransRead \/ TransWrite
  \/ Meet \/ WriteLedgers \/ FinishMeeting
  \/ StartCollaboration \/ ResumeRead \/ ResumeWrite \/ Resumed \/ Plan \/ Park
  \/ CheckReceipt \/ Write \/ Generate \/ Send
  \/ Complete \/ Deliver \/ Return \/ SyncRead \/ SyncWrite \/ Finish

-------------------------------------------------------------------------------
(* The message handler, one message of the chat at a time (_chat_lock).     *)

NoMessage == [pc |-> "idle", wf |-> NoWorkflow, to |-> "cancelled", after |-> "idle",
              task |-> NoTask, meeting |-> NoTask]

HAt(p)   == up /\ handler.pc = p
HGoto(p) == handler' = [handler EXCEPT !.pc = p]

otherThanHandler == <<wf, rank, task, queue, worker, up, crashes,
                      decided, forgotten, confirmed, overtaken>>

\* Bound: a message that creates a row needs an unused identifier.
TaskLeft == \E t \in Tasks : Absent(t)
WorkflowLeft == \E w \in Workflows : wf[w].state = "absent"

\* A request that ends the meeting the chat has open and starts a new workflow;
\* it is refused if the active workflow is in one of the states in refused.
Convene(refused) ==
  /\ HAt("idle") /\ TaskLeft /\ WorkflowLeft
  /\ \A w \in Workflows : Active(w) => wf[w].state \notin refused
  /\ handler' =
       IF \E w \in Workflows : Active(w) /\ wf[w].state \in Meeting
       THEN [NoMessage EXCEPT !.pc = "trans", !.after = "create",
                              !.wf = CHOOSE w \in Workflows : Active(w)]
       ELSE [NoMessage EXCEPT !.pc = "create"]
  /\ UNCHANGED otherThanHandler

AskMeeting       == Convene({})
AskCollaboration == Convene(Underway)

Create ==
  /\ HAt("create")
  /\ \E w \in Workflows :
       /\ wf[w].state = "absent"
       /\ SetState(w, "meeting_discussion", NoTask)
       /\ handler' = [handler EXCEPT !.pc = "submit", !.wf = w]
  /\ UNCHANGED <<task, queue, worker, up, crashes, decided, forgotten, confirmed, overtaken>>

SubmitMeeting ==
  /\ HAt("submit")
  /\ \E t \in Tasks :
       /\ Absent(t)
       /\ task' = [task EXCEPT ![t] =
            NewRow(t, "roundtable", handler.wf, handler.meeting # NoTask, NoTask)]
       /\ queue' = Append(queue, t)
       /\ handler' = [handler EXCEPT !.pc = "bind", !.task = t]
  /\ UNCHANGED <<wf, rank, worker, up, crashes, decided, forgotten, confirmed, overtaken>>

BindTask ==
  /\ HAt("bind")
  /\ wf' = [wf EXCEPT ![handler.wf] = [@ EXCEPT !.task = handler.task]]
  /\ Touch(handler.wf)
  /\ handler' = NoMessage
  /\ UNCHANGED <<task, queue, worker, up, crashes, decided, forgotten, confirmed, overtaken>>

\* A text that is taken for a decision whatever the meeting is doing.
DecideEarly ==
  /\ HAt("idle") /\ TaskLeft
  /\ \E w \in Workflows :
       /\ Active(w) /\ wf[w].state \in Meeting
       /\ handler' = [NoMessage EXCEPT !.pc = "record", !.wf = w, !.meeting = wf[w].task]
  /\ UNCHANGED otherThanHandler

\* Any other text, while the active workflow waits for its owner.
Decide ==
  /\ HAt("idle") /\ TaskLeft
  /\ \E w \in Workflows :
       /\ Active(w) /\ Concluded(w)
       /\ wf[w].state \in {"awaiting_boss_decision", "awaiting_collaboration_confirmation"}
       /\ handler' = [NoMessage EXCEPT !.pc = "record", !.wf = w, !.meeting = wf[w].task]
  /\ UNCHANGED otherThanHandler

\* record_boss_decision, and what the state it returns and the text ask for.
RecordDecision ==
  /\ HAt("record")
  /\ Touch(handler.wf)
  /\ decided' = decided \union {handler.wf}
  /\ \/ /\ wf[handler.wf].state = "awaiting_boss_decision"
        /\ handler' = [handler EXCEPT !.pc = "trans",
                                      !.to = "awaiting_collaboration_confirmation",
                                      !.after = "idle", !.task = handler.meeting]
     \/ handler' = [handler EXCEPT !.pc = "trans", !.to = "meeting_continuation",
                                   !.after = "submit"]
  /\ worker' = IF worker.pc \in {"ledger", "reopen"} /\ W = handler.wf
               THEN [worker EXCEPT !.stale = TRUE] ELSE worker
  /\ UNCHANGED <<wf, task, queue, up, crashes, forgotten, confirmed, overtaken>>

\* The owner asks to start the collaboration.
HandOff ==
  /\ HAt("idle") /\ TaskLeft
  /\ \E w \in Workflows :
       /\ Active(w) /\ Concluded(w)
       /\ wf[w].state = "awaiting_collaboration_confirmation"
       /\ handler' = [NoMessage EXCEPT !.pc = "handoff", !.wf = w, !.meeting = wf[w].task]
  /\ UNCHANGED otherThanHandler

SubmitCollaboration ==
  /\ HAt("handoff")
  /\ \E t \in Tasks, k \in Modes :
       /\ Absent(t)
       /\ task' = [task EXCEPT ![t] = NewRow(t, k, handler.wf, FALSE, handler.meeting)]
       /\ queue' = Append(queue, t)
       /\ handler' = [handler EXCEPT !.pc = "trans", !.to = "planning",
                                     !.after = "idle", !.task = t]
  /\ confirmed' = confirmed \union {handler.wf}
  /\ UNCHANGED <<wf, rank, worker, up, crashes, decided, forgotten, overtaken>>

\* transition, called by the handler: an error drops the message.
HandlerTransRead ==
  /\ HAt("trans")
  /\ IF Legal(wf[handler.wf].state, handler.to) THEN HGoto("commit") ELSE handler' = NoMessage
  /\ UNCHANGED otherThanHandler

HandlerTransWrite ==
  /\ HAt("commit")
  /\ SetState(handler.wf, handler.to, handler.task)
  /\ overtaken' = IF Legal(wf[handler.wf].state, handler.to) THEN overtaken
                  ELSE overtaken \union {handler.wf}
  /\ IF handler.after = "idle" THEN handler' = NoMessage ELSE HGoto(handler.after)
  /\ UNCHANGED <<task, queue, worker, up, crashes, decided, forgotten, confirmed>>

\* The task commands, one step each: TaskQueue has their statements.
Approve(t) ==
  /\ HAt("idle") /\ task[t].status = "waiting_approval"
  /\ task' = [task EXCEPT ![t] = [@ EXCEPT !.status = "queued", !.phase = "execute",
                                           !.approved = TRUE, !.agreed = TRUE]]
  /\ queue' = Append(queue, t)
  /\ UNCHANGED <<wf, rank, worker, handler, up, crashes,
                 decided, forgotten, confirmed, overtaken>>

\* The queue without a task that is in it.
Without(t) ==
  LET i == CHOOSE i \in DOMAIN queue : queue[i] = t
  IN  [j \in 1 .. Len(queue) - 1 |-> IF j < i THEN queue[j] ELSE queue[j + 1]]

\* "取消任务", and "拒绝任务" of a waiting task.
Cancel(t) ==
  /\ HAt("idle") /\ task[t].status \in Live
  /\ task' = [task EXCEPT ![t] =
       [@ EXCEPT !.cancel = TRUE,
                 !.status = IF task[t].status = "running" THEN "running" ELSE "cancelled"]]
  /\ queue' = IF task[t].status = "queued" THEN Without(t) ELSE queue
  /\ UNCHANGED <<wf, rank, worker, handler, up, crashes,
                 decided, forgotten, confirmed, overtaken>>

\* A retry that goes on to the execution without plan and approval.
RetrySkipsApproval(u) ==
  /\ HAt("idle") /\ task[u].status \in Closed
  /\ \E t \in Tasks :
       /\ Absent(t)
       /\ queue' = Append(queue, t)
       /\ task' = [task EXCEPT ![t] =
            [NewRow(t, task[u].kind, task[u].wf, task[u].cont, task[u].meeting)
               EXCEPT !.retry = TRUE, !.origin = task[u].origin,
                      !.phase = "execute", !.approved = TRUE]]
  /\ UNCHANGED <<wf, rank, worker, handler, up, crashes,
                 decided, forgotten, confirmed, overtaken>>

\* A copy of a closed task; the approval of a collaboration is taken over if its
\* receipt still fits the workspace.
Retry(u) ==
  /\ HAt("idle") /\ task[u].status \in Closed
  /\ \E t \in Tasks, reuse \in {task[u].approved, FALSE} :
       /\ Absent(t)
       /\ queue' = Append(queue, t)
       /\ task' = [task EXCEPT ![t] =
            [NewRow(t, task[u].kind, task[u].wf, task[u].cont, task[u].meeting)
               EXCEPT !.retry = TRUE, !.origin = task[u].origin,
                      !.phase = IF reuse \/ task[u].kind = "roundtable"
                                THEN "execute" ELSE "planning",
                      !.approved = reuse]]
  /\ UNCHANGED <<wf, rank, worker, handler, up, crashes,
                 decided, forgotten, confirmed, overtaken>>

\* expire_approvals runs at every message, of this or another chat, and in recover.
Expire ==
  /\ up
  /\ \E t \in Tasks :
       /\ task[t].status = "waiting_approval"
       /\ task' = [task EXCEPT ![t] = [@ EXCEPT !.status = "cancelled"]]
  /\ UNCHANGED <<wf, rank, queue, worker, handler, up, crashes,
                 decided, forgotten, confirmed, overtaken>>

HandlerStep ==
  \/ Create \/ SubmitMeeting \/ BindTask \/ RecordDecision \/ SubmitCollaboration
  \/ HandlerTransRead \/ HandlerTransWrite

Message ==
  \/ AskMeeting \/ AskCollaboration \/ Decide \/ HandOff \/ Expire
  \/ \E t \in Tasks : Approve(t) \/ Cancel(t) \/ Retry(t)

-------------------------------------------------------------------------------
(* The process.                                                             *)

Crash ==
  /\ up /\ crashes < MaxCrashes
  /\ up' = FALSE /\ crashes' = crashes + 1
  /\ worker' = NoJob /\ handler' = NoMessage
  /\ UNCHANGED <<wf, rank, task, queue, decided, forgotten, confirmed, overtaken>>

\* A recovery that requeues whatever was running.
RecoveredReplayAll(r) ==
  IF r.status \in {"queued", "running"}
  THEN [r EXCEPT !.status = IF r.cancel THEN "cancelled" ELSE "queued"]
  ELSE r

\* recover looks at the rows of tasks only: workflows stay as they are.
Recovered(r) ==
  CASE r.status \in {"queued", "running"} /\ r.cancel -> [r EXCEPT !.status = "cancelled"]
    [] r.status = "running" /\ ~ r.cancel ->
         [r EXCEPT !.status =
            IF r.kind = "code" /\ r.phase = "execute" THEN "blocked" ELSE "queued"]
    [] OTHER -> r

\* The one task that was running is older than those that are queued.
Start ==
  /\ ~ up
  /\ up' = TRUE
  /\ task' = [t \in Tasks |-> Recovered(task[t])]
  /\ LET again == {t \in Tasks : task[t].status = "running" /\ task'[t].status = "queued"}
     IN  queue' = IF again = {} THEN queue ELSE <<CHOOSE t \in again : TRUE>> \o queue
  /\ UNCHANGED <<wf, rank, worker, handler, crashes, decided, forgotten, confirmed, overtaken>>

Init ==
  /\ wf = [w \in Workflows |-> [state |-> "absent", task |-> NoTask]]
  /\ rank = [w \in Workflows |-> 0]
  /\ task = [t \in Tasks |-> NoRow(t)]
  /\ queue = <<>>
  /\ worker = NoJob
  /\ handler = NoMessage
  /\ up = TRUE /\ crashes = 0
  /\ decided = {} /\ forgotten = {} /\ confirmed = {} /\ overtaken = {}

Next == WorkerStep \/ HandlerStep \/ Message \/ Crash \/ Start

Spec == Init /\ [][Next]_vars

-------------------------------------------------------------------------------
(* Properties.                                                              *)

TypeOK ==
  /\ wf \in [Workflows -> [state : States \union {"absent"}, task : Tasks \union {NoTask}]]
  /\ rank \in [Workflows -> 0 .. Cardinality(Workflows)]
  /\ task \in [Tasks -> Row]
  /\ {queue[i] : i \in DOMAIN queue} = {t \in Tasks : task[t].status = "queued"}
  /\ worker.task \in Tasks \union {NoTask} /\ worker.to \in States /\ worker.out \in Closed
  /\ worker.pc # "idle" => worker.task # NoTask
  /\ handler.wf \in Workflows \union {NoWorkflow} /\ handler.to \in States
  /\ handler.task \in Tasks \union {NoTask} /\ handler.meeting \in Tasks \union {NoTask}
  /\ up \in BOOLEAN /\ crashes \in 0 .. MaxCrashes
  /\ \A S \in {decided, forgotten, confirmed, overtaken} : S \subseteq Workflows

\* A change is merged, or a report sent, only in a workflow whose meeting has
\* succeeded, whose owner has decided and then asked to start the collaboration,
\* and with an approval of the task or of the one it retries: whatever is
\* cancelled, retried or interrupted on the way, the chain of README.md is kept.
NoSkippedStep ==
  \A t \in Tasks : task[t].wrote \/ task[t].sent =>
    /\ task[t].wf \in decided \intersect confirmed
    /\ task[task[t].meeting].status = "succeeded"
    /\ task[task[t].meeting].wf = task[t].wf
    /\ \E u \in Tasks : task[u].agreed /\ task[u].origin = task[t].origin

\* A code change is reported as a success only while its workflow is completed,
\* whatever older tasks and the handler do in between, unless a message that had
\* found the workflow in an earlier state has overwritten it.
SuccessIsCompleted ==
  [][\A t \in Tasks :
       /\ task[t].kind = "code"
       /\ task'[t].status = "succeeded" /\ task[t].status # "succeeded"
       => \/ wf[task[t].wf].state = "completed"
          \/ task[t].wf \in overtaken]_vars

\* No ledger the runner writes back loses a decision of the owner in a workflow
\* none of whose tasks was retried: only a meeting that is held again, or a
\* collaboration that reopens its workflow, has the ledger while the owner decides.
DecisionsAreKept ==
  \A w \in forgotten : \E t \in Tasks : task[t].wf = w /\ task[t].retry

\* The abstract queue's name for a status.
StageOf(s) ==
  CASE s = "absent" -> "new"
    [] s = "queued" -> "open"
    [] s = "running" -> "running"
    [] s = "waiting_approval" -> "waiting"
    [] OTHER -> "closed"

Lifecycle == INSTANCE TaskLifecycle WITH
  Chats  <- {"chat"},
  stage  <- [t \in Tasks |-> StageOf(task[t].status)],
  place  <- [t \in Tasks |-> "chat"],
  family <- [t \in Tasks |-> task[t].origin],
  agreed <- {t \in Tasks : task[t].agreed},
  wrote  <- {t \in Tasks : task[t].wrote}

\* Tasks move as the abstract queue lets them, whatever the workflow does.
TasksFollowLifecycle == Lifecycle!Spec

\* When nothing is running and no message is handled, a workflow that is underway
\* has a task that is queued or waits for approval.
UnderwayIsServed ==
  up /\ worker.pc = "idle" /\ handler.pc = "idle" =>
    \A w \in Workflows : wf[w].state \in Underway =>
      \E t \in Tasks : task[t].wf = w /\ task[t].status \in Live
===============================================================================
