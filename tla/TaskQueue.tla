------------------------------- MODULE TaskQueue -------------------------------
(***************************************************************************)
(* The persistent task queue of task_manager.py: the SQLite table `tasks`  *)
(* (TaskStore), the per-chat workers that drain it (TaskController) and    *)
(* the message handlers of bot.py that create, approve, cancel and retry   *)
(* tasks.                                                                  *)
(*                                                                         *)
(* Atomicity.  sqlite3 opens a transaction at the first UPDATE or INSERT,  *)
(* so one statement is one step and a method that SELECTs, decides and     *)
(* then UPDATEs is two steps.  A statement that only reads the row its     *)
(* next statement re-checks in its WHERE clause is joined to it.           *)
(*                                                                         *)
(* Processes.  For each chat one worker (a job of the thread pool, at most *)
(* one because of _scheduled_chats) and one handler (dispatch_message      *)
(* holds _chat_lock(chat_id), and every control command looks its task up  *)
(* with find(prefix, chat_id)).  The runner (bot.execute_background_task)  *)
(* is reduced to the points at which it reads or writes the store, checks  *)
(* the approval receipt or takes WORKSPACE_WRITE_LOCK.                     *)
(***************************************************************************)
EXTENDS Naturals, FiniteSets

CONSTANTS
  Tasks,        \* identifiers create() may draw
  Chats,        \* chat_id values
  SubmitKinds,  \* the task types the handlers submit in this instance
  Verdicts,     \* which of "blocked" and "needs_review" the runner may raise here
  InGit,        \* git lists the workspace
  Legacy,       \* rows written before the meeting-confirmation receipt existed
  MaxWorkers,   \* max_workers of the thread pool
  MaxCrashes,   \* bound on the number of process exits
  NoTask        \* "no task"

Kinds == {"chat", "roundtable", "swarm", "report"}

ASSUME QueueAssumption ==
  /\ SubmitKinds \subseteq Kinds
  /\ Verdicts \subseteq {"blocked", "needs_review"}
  /\ InGit \in BOOLEAN
  /\ Legacy \subseteq Tasks
  /\ MaxWorkers \in Nat \ {0}
  /\ MaxCrashes \in Nat
  /\ NoTask \notin Tasks

VARIABLES
  row,        \* the table: task id -> row
  scheduled,  \* _scheduled_chats
  worker,     \* chat -> its job: program counter, task, outcome, baseline read
  handler,    \* chat -> the message being handled
  clock,      \* time.time(): one tick per stamp taken
  ws,         \* the content of the workspace: a new value after every merge
  up,         \* the process is running
  crashes,
  writes,     \* history: how often a task entered the write phase
  granted     \* history: tasks whose owner's approval was recorded

vars == <<row, scheduled, worker, handler, clock, ws, up, crashes, writes, granted>>

Terminal == {"succeeded", "failed", "cancelled", "needs_review", "blocked"}
Active   == {"queued", "running", "waiting_approval"}
Status   == {"absent"} \union Active \union Terminal
Phases   == {"planning", "approval", "execute"}
Collab   == {"swarm", "report"}     \* task_type "swarm", by operation_mode

-------------------------------------------------------------------------------
(* Rows.  key is COALESCE(approved_at, created_at) and approved says which  *)
(* of the two it is; baseline = 0 stands for NULL plan, constraint and      *)
(* workspace hashes; origin is the first task of a retry_of chain.          *)

Row == [status : Status, kind : Kinds, chat : Chats, phase : Phases,
        cancel : BOOLEAN, key : Nat, approved : BOOLEAN, baseline : Nat,
        handoff : BOOLEAN, origin : Tasks]

NewRow(c, k, origin) ==
  [status |-> "queued", kind |-> k, chat |-> c,
   phase |-> IF k \in Collab THEN "planning" ELSE "execute",
   cancel |-> FALSE, key |-> clock, approved |-> FALSE, baseline |-> 0,
   handoff |-> TRUE, origin |-> origin]

Absent(t) == row[t].status = "absent"

\* workspace_fingerprint, None where git does not list the workspace.
Fingerprint == IF InGit THEN ws ELSE 0

\* approval_receipt_valid, for the baseline hash the caller holds.
ReceiptValid(r, base) == r.approved /\ base \in {0, Fingerprint}

Eligible(c) == {t \in Tasks : /\ row[t].chat = c
                              /\ row[t].status = "queued"
                              /\ ~ row[t].cancel}

\* A query without its ORDER BY.
NextQueuedUnordered(c) == Eligible(c)

NextQueued(c) == {t \in Eligible(c) :
                    \A u \in Eligible(c) : row[t].key <= row[u].key}

Waiting == {t \in Tasks : row[t].status = "waiting_approval"}

\* expire_approvals: E is the set of waiting tasks whose TTL has passed.
Expired(E) == [t \in Tasks |-> IF t \in E
                               THEN [row[t] EXCEPT !.status = "cancelled"]
                               ELSE row[t]]

IdleWorker  == [pc |-> "idle", task |-> NoTask, out |-> "succeeded", base |-> 0]
IdleHandler == [pc |-> "idle", task |-> NoTask, base |-> 0]

-------------------------------------------------------------------------------
(* The worker of a chat.                                                    *)

At(c, p)     == up /\ worker[c].pc = p
Current(c)   == worker[c].task
Goto(c, p)   == worker' = [worker EXCEPT ![c] = [@ EXCEPT !.pc = p]]
RaiseUnclassified(c, o) == worker' = [worker EXCEPT ![c] = [@ EXCEPT !.pc = "finish", !.out = "error"]]
Raise(c, o)  == worker' = [worker EXCEPT ![c] = [@ EXCEPT !.pc = "finish", !.out = o]]
NextLoop(c)  == worker' = [worker EXCEPT ![c] = [IdleWorker EXCEPT !.pc = "loop"]]
SetStatus(t, s) == row' = [row EXCEPT ![t] = [@ EXCEPT !.status = s]]

allButRowAndWorker == <<scheduled, handler, clock, ws, up, crashes, writes, granted>>
allButWorker == <<row, scheduled, handler, clock, ws, up, crashes, writes, granted>>

\* The pool starts the job when one of its threads is free.
StartJob(c) ==
  /\ At(c, "pool")
  /\ Cardinality({d \in Chats : worker[d].pc \notin {"idle", "pool"}}) < MaxWorkers
  /\ Goto(c, "loop")
  /\ UNCHANGED allButWorker

\* next_queued outside the lock.
PickNext(c) ==
  /\ At(c, "loop")
  /\ \/ \E t \in NextQueued(c) :
          worker' = [worker EXCEPT ![c] = [@ EXCEPT !.pc = "claim", !.task = t]]
     \/ Eligible(c) = {} /\ Goto(c, "drain")
  /\ UNCHANGED allButWorker

\* A retirement that trusts the first, unlocked read.
RetireUnchecked(c) ==
  /\ At(c, "drain")
  /\ worker' = [worker EXCEPT ![c] = IdleWorker]
  /\ scheduled' = scheduled \ {c}
  /\ UNCHANGED <<row, handler, clock, ws, up, crashes, writes, granted>>

\* next_queued again, holding the controller's lock; the chat is discarded
\* in the same critical section.
Retire(c) ==
  /\ At(c, "drain")
  /\ \/ \E t \in NextQueued(c) :
          /\ worker' = [worker EXCEPT ![c] = [@ EXCEPT !.pc = "claim", !.task = t]]
          /\ UNCHANGED scheduled
     \/ /\ Eligible(c) = {}
        /\ worker' = [worker EXCEPT ![c] = IdleWorker]
        /\ scheduled' = scheduled \ {c}
  /\ UNCHANGED <<row, handler, clock, ws, up, crashes, writes, granted>>

\* A claim that updates the row by id alone.
ClaimUnguarded(c) ==
  /\ At(c, "claim")
  /\ SetStatus(Current(c), "running")
  /\ worker' = [worker EXCEPT ![c] =
                        [@ EXCEPT !.pc = "run", !.base = row[Current(c)].baseline]]
  /\ UNCHANGED allButRowAndWorker

\* claim: UPDATE ... WHERE status='queued' AND cancel_requested=0, and the
\* store.get that gives the runner its copy of the row.
Claim(c) ==
  /\ At(c, "claim")
  /\ \/ /\ Current(c) \in Eligible(c)
        /\ SetStatus(Current(c), "running")
        /\ worker' = [worker EXCEPT ![c] =
                        [@ EXCEPT !.pc = "run", !.base = row[Current(c)].baseline]]
     \/ /\ Current(c) \notin Eligible(c)
        /\ NextLoop(c)
        /\ UNCHANGED row
  /\ UNCHANGED allButRowAndWorker

IsCollab(c) == row[Current(c)].kind \in Collab

\* What the runner may raise, and the controller before it: an error, the
\* TaskCancelled of check_cancelled, progress or checkpoint, or a verdict on the
\* collaboration, which is Blocked before any work without a confirmation receipt.
RunnerErrors(c) ==
  LET r == row[Current(c)]
      verdicts == CASE ~ r.handoff -> {"blocked"}
                    [] worker[c].pc = "write" -> Verdicts
                    [] worker[c].pc \in {"run", "checked"} -> Verdicts \ {"needs_review"}
                    [] OTHER -> {}
  IN  {"failed"} \union {o \in {"cancelled"} : r.cancel}
                 \union {o \in verdicts : r.kind \in Collab}

RunnerRaises(c) ==
  /\ up
  /\ worker[c].pc \in {"run", "checked", "write", "merged"}
  /\ \E o \in RunnerErrors(c) : Raise(c, o)
  /\ UNCHANGED allButWorker

\* Planning ends: TaskContext.wait_for_approval checks for cancellation first.
ParkCheck(c) ==
  /\ At(c, "run") /\ IsCollab(c)
  /\ row[Current(c)].handoff
  /\ row[Current(c)].phase = "planning"
  /\ ~ row[Current(c)].cancel
  /\ Goto(c, "park")
  /\ UNCHANGED allButWorker

\* TaskStore.wait_for_approval: WHERE status='running' AND phase='planning'.
Park(c) ==
  /\ At(c, "park")
  /\ \/ /\ row[Current(c)].status = "running"
        /\ row[Current(c)].phase = "planning"
        /\ row' = [row EXCEPT ![Current(c)] =
                      [@ EXCEPT !.status = "waiting_approval", !.phase = "approval"]]
        /\ NextLoop(c)
     \/ /\ ~ (row[Current(c)].status = "running" /\ row[Current(c)].phase = "planning")
        /\ Raise(c, "failed")
        /\ UNCHANGED row
  /\ UNCHANGED allButRowAndWorker

\* The execute phase starts with the approval receipt of the row Claim read.
CheckReceipt(c) ==
  /\ At(c, "run") /\ IsCollab(c)
  /\ row[Current(c)].handoff
  /\ row[Current(c)].phase # "planning"
  /\ \/ /\ ReceiptValid(row[Current(c)], worker[c].base)
        /\ worker' = [worker EXCEPT ![c] = [@ EXCEPT !.pc = "checked", !.base = 0]]
     \/ ~ ReceiptValid(row[Current(c)], worker[c].base) /\ Raise(c, "failed")
  /\ UNCHANGED allButWorker

\* execute_collaborative_project takes WORKSPACE_WRITE_LOCK.
EnterWrite(c) ==
  /\ At(c, "checked")
  /\ row[Current(c)].kind = "swarm"
  /\ \A d \in Chats : worker[d].pc # "write"
  /\ Goto(c, "write")
  /\ writes' = [writes EXCEPT ![Current(c)] = @ + 1]
  /\ UNCHANGED <<row, scheduled, handler, clock, ws, up, crashes, granted>>

\* The staged change is merged and kept; the lock is released.
Merge(c) ==
  /\ At(c, "write")
  /\ ws' = ws + 1
  /\ Goto(c, "merged")
  /\ UNCHANGED <<row, scheduled, handler, clock, up, crashes, writes, granted>>

\* _run_roundtable_task calls store.finish itself before it returns.
FinishMeeting(c) ==
  /\ At(c, "run")
  /\ row[Current(c)].kind = "roundtable"
  /\ SetStatus(Current(c), "succeeded")
  /\ Goto(c, "return")
  /\ UNCHANGED allButRowAndWorker

\* The runner has its result.
Returned(c) ==
  \/ At(c, "run") /\ row[Current(c)].kind = "chat"
  \/ At(c, "checked") /\ row[Current(c)].kind = "report"
  \/ At(c, "merged") \/ At(c, "return")

\* A controller that trusts the runner's return.
FinalCheckSkipped(c) ==
  /\ Returned(c)
  /\ Raise(c, "succeeded")
  /\ UNCHANGED allButWorker

\* The last check_cancelled of _run_task.
FinalCheck(c) ==
  /\ Returned(c)
  /\ Raise(c, IF row[Current(c)].cancel THEN "cancelled" ELSE "succeeded")
  /\ UNCHANGED allButWorker

\* finish: UPDATE ... WHERE id=?, whatever the row's status is.
Finish(c) ==
  /\ At(c, "finish")
  /\ SetStatus(Current(c), worker[c].out)
  /\ NextLoop(c)
  /\ UNCHANGED allButRowAndWorker

WorkerStep(c) ==
  \/ StartJob(c) \/ PickNext(c) \/ Retire(c) \/ Claim(c)
  \/ RunnerRaises(c) \/ ParkCheck(c) \/ Park(c) \/ CheckReceipt(c)
  \/ EnterWrite(c) \/ Merge(c) \/ FinishMeeting(c) \/ FinalCheck(c) \/ Finish(c)

-------------------------------------------------------------------------------
(* The message handler of a chat.                                           *)

Handling(c, p) == up /\ handler[c].pc = p
Reply(c)       == handler' = [handler EXCEPT ![c] = IdleHandler]
HGoto(c, p, t) == handler' = [handler EXCEPT ![c] = [IdleHandler EXCEPT !.pc = p, !.task = t]]
notHandled     == <<scheduled, worker, ws, up, crashes, writes>>

\* handle_message begins with expire_approvals, for every chat.  The TTL is not
\* modelled: any waiting approval may have expired when a message arrives, so a
\* message that expires some and then acts is Expire and the command's action,
\* and one that finds none expired is the command's action alone.
Expire(c) ==
  /\ Handling(c, "idle")
  /\ \E E \in SUBSET Waiting : E # {} /\ row' = Expired(E)
  /\ UNCHANGED <<notHandled, handler, clock, granted>>

\* TaskController.submit: create, then _schedule_chat.
Submit(c) ==
  /\ Handling(c, "idle")
  /\ \E k \in SubmitKinds, t \in Tasks :
       /\ Absent(t)
       /\ row' = [row EXCEPT ![t] = NewRow(c, k, t)]
       /\ HGoto(c, "schedule", t)
  /\ clock' = clock + 1
  /\ UNCHANGED <<notHandled, granted>>

\* A scheduler that starts a job without looking at _scheduled_chats.
ScheduleUnchecked(c) ==
  /\ Handling(c, "schedule")
  /\ scheduled' = scheduled \union {c}
  /\ worker' = [worker EXCEPT ![c] = [IdleWorker EXCEPT !.pc = "pool"]]
  /\ Reply(c)
  /\ UNCHANGED <<row, clock, ws, up, crashes, writes, granted>>

\* _schedule_chat: one critical section of the controller's lock.
Schedule(c) ==
  /\ Handling(c, "schedule")
  /\ \/ c \in scheduled /\ UNCHANGED <<scheduled, worker>>
     \/ /\ c \notin scheduled
        /\ scheduled' = scheduled \union {c}
        /\ worker' = [worker EXCEPT ![c] = [IdleWorker EXCEPT !.pc = "pool"]]
  /\ Reply(c)
  /\ UNCHANGED <<row, clock, ws, up, crashes, writes, granted>>

InChat(c) == {t \in Tasks : row[t].chat = c /\ ~ Absent(t)}

\* approve, up to the UPDATE: the row is read and the workspace fingerprint
\* taken (so is the time: no row of the chat is stamped between).  A refusal
\* changes nothing.
ApproveRead(c) ==
  /\ Handling(c, "idle")
  /\ \E t \in InChat(c) \intersect Waiting :
       /\ ~ row[t].approved
       /\ row[t].handoff
       /\ handler' = [handler EXCEPT ![c] =
            [pc |-> "approve", task |-> t, base |-> Fingerprint]]
  /\ UNCHANGED <<notHandled, row, clock, granted>>

\* approve's conditional UPDATE; _schedule_chat only when a row changed.
ApproveCommit(c) ==
  LET t == handler[c].task IN
  /\ Handling(c, "approve")
  /\ \/ /\ row[t].status = "waiting_approval" /\ ~ row[t].approved
        /\ row' = [row EXCEPT ![t] =
                      [@ EXCEPT !.status = "queued", !.phase = "execute",
                                !.approved = TRUE, !.key = clock,
                                !.baseline = handler[c].base]]
        /\ clock' = clock + 1
        /\ granted' = granted \union {t}
        /\ HGoto(c, "schedule", t)
     \/ /\ ~ (row[t].status = "waiting_approval" /\ ~ row[t].approved)
        /\ Reply(c)
        /\ UNCHANGED <<row, clock, granted>>
  /\ UNCHANGED notHandled

\* request_cancel, first statement (the commands cancel and reject).
CancelRead(c) ==
  /\ Handling(c, "idle")
  /\ \E t \in InChat(c) :
       /\ row[t].status \in Active
       /\ HGoto(c, IF row[t].status = "running" THEN "flag" ELSE "cancel", t)
  /\ UNCHANGED <<notHandled, row, clock, granted>>

\* request_cancel, second statement, chosen by the status read before.
CancelWrite(c) ==
  LET t == handler[c].task IN
  /\ \/ /\ Handling(c, "cancel")
        /\ row' = [row EXCEPT ![t] = [@ EXCEPT !.status = "cancelled", !.cancel = TRUE]]
     \/ /\ Handling(c, "flag")
        /\ row' = [row EXCEPT ![t] = [@ EXCEPT !.cancel = TRUE]]
  /\ Reply(c)
  /\ UNCHANGED <<notHandled, clock, granted>>

\* A retry that reuses the execute phase of any former collaboration.
ReusesAnyPlan(old) == row[old].kind \in Collab

\* retry: a valid receipt is carried over, otherwise the task is planned again.
ReusesApproval(old) ==
  row[old].kind \in Collab /\ ReceiptValid(row[old], row[old].baseline)

RetryCreate(c) ==
  /\ Handling(c, "idle")
  /\ \E old \in InChat(c), t \in Tasks :
       /\ row[old].status \in Terminal
       /\ row[old].kind \in Collab => row[old].handoff
       /\ Absent(t)
       /\ LET fresh == NewRow(c, row[old].kind, row[old].origin)
          IN  \/ /\ ReusesApproval(old)
                 /\ row' = [row EXCEPT ![t] = [fresh EXCEPT !.phase = "execute",
                                                            !.approved = TRUE]]
                 /\ handler' = [handler EXCEPT ![c] =
                      [pc |-> "receipt", task |-> t, base |-> row[old].baseline]]
              \/ /\ ~ ReusesApproval(old)
                 /\ row' = [row EXCEPT ![t] = fresh]
                 /\ HGoto(c, "schedule", t)
  /\ clock' = clock + 1
  /\ UNCHANGED <<notHandled, granted>>

\* retry, second transaction: the hashes of the old receipt.
RetryReceipt(c) ==
  /\ Handling(c, "receipt")
  /\ row' = [row EXCEPT ![handler[c].task] = [@ EXCEPT !.baseline = handler[c].base]]
  /\ HGoto(c, "schedule", handler[c].task)
  /\ UNCHANGED <<notHandled, clock, granted>>

HandlerStep(c) ==
  \/ Schedule(c) \/ ApproveCommit(c) \/ CancelWrite(c) \/ RetryReceipt(c)

Message(c) ==
  \/ Expire(c) \/ Submit(c) \/ ApproveRead(c) \/ CancelRead(c) \/ RetryCreate(c)

-------------------------------------------------------------------------------
(* Process exit and start.                                                  *)

Crash ==
  /\ up /\ crashes < MaxCrashes
  /\ up' = FALSE
  /\ crashes' = crashes + 1
  /\ scheduled' = {}
  /\ worker' = [c \in Chats |-> IdleWorker]
  /\ handler' = [c \in Chats |-> IdleHandler]
  /\ UNCHANGED <<row, clock, ws, writes, granted>>

\* A recovery that replays every interrupted task.
RecoveredReplayAll(r) ==
  IF r.status = "running" /\ ~ r.cancel THEN [r EXCEPT !.status = "queued"]
  ELSE IF r.status \in {"running", "queued"} /\ r.cancel
       THEN [r EXCEPT !.status = "cancelled"] ELSE r

\* recover: an interrupted code write is blocked, the rest is queued again.
Recovered(r) ==
  IF r.status = "running" /\ ~ r.cancel
  THEN [r EXCEPT !.status = IF r.kind = "swarm" /\ r.phase = "execute"
                            THEN "blocked" ELSE "queued"]
  ELSE IF r.status \in {"running", "queued"} /\ r.cancel
       THEN [r EXCEPT !.status = "cancelled"] ELSE r

\* TaskController.start: recover, then schedule every chat with a queued task.
Start ==
  /\ ~ up
  /\ up' = TRUE
  /\ \E E \in SUBSET Waiting : row' = [t \in Tasks |-> Recovered(Expired(E)[t])]
  /\ scheduled' = {c \in Chats : \E t \in Tasks : row'[t].chat = c /\ row'[t].status = "queued"}
  /\ worker' = [c \in Chats |-> IF c \in scheduled' THEN [IdleWorker EXCEPT !.pc = "pool"]
                                ELSE IdleWorker]
  /\ UNCHANGED <<handler, clock, ws, crashes, writes, granted>>

-------------------------------------------------------------------------------

\* The rows a database of the version without confirmation receipts may hold.
LegacyRow(c, s, t) ==
  [status |-> s, kind |-> "swarm", chat |-> c,
   phase |-> IF s = "waiting_approval" THEN "approval" ELSE "planning",
   cancel |-> FALSE, key |-> 0, approved |-> FALSE, baseline |-> 0,
   handoff |-> FALSE, origin |-> t]

Init ==
  /\ \E c \in Chats, s \in {"queued", "waiting_approval", "failed"} :
       row = [t \in Tasks |-> LegacyRow(c, IF t \in Legacy THEN s ELSE "absent", t)]
  /\ scheduled = {}
  /\ worker = [c \in Chats |-> IdleWorker]
  /\ handler = [c \in Chats |-> IdleHandler]
  /\ clock = 1 /\ ws = 1
  /\ up = FALSE /\ crashes = 0
  /\ writes = [t \in Tasks |-> 0]
  /\ granted = {}

Next ==
  \/ \E c \in Chats : WorkerStep(c) \/ HandlerStep(c) \/ Message(c)
  \/ Crash
  \/ Start

Spec == Init /\ [][Next]_vars

\* Threads that can run do run, a handler that began a command ends it, and
\* _guardian.ps1 starts the process again.  No message need ever arrive.
Fairness ==
  /\ \A c \in Chats : WF_vars(WorkerStep(c)) /\ WF_vars(HandlerStep(c))
  /\ WF_vars(Start)

FairSpec == Spec /\ Fairness

-------------------------------------------------------------------------------
(* Properties.                                                              *)

WorkerPcs == {"idle", "pool", "loop", "drain", "claim", "run", "park",
              "checked", "write", "merged", "return", "finish"}
HandlerPcs == {"idle", "schedule", "approve", "cancel", "flag", "receipt"}

Job     == [pc : WorkerPcs, task : Tasks \union {NoTask}, out : Terminal, base : Nat]
Command == [pc : HandlerPcs, task : Tasks \union {NoTask}, base : Nat]

\* The variables stay in their types.
TypeOK ==
  /\ row \in [Tasks -> Row]
  /\ scheduled \in SUBSET Chats
  /\ worker \in [Chats -> Job]
  /\ handler \in [Chats -> Command]
  /\ clock \in Nat \ {0} /\ ws \in Nat \ {0}
  /\ up \in BOOLEAN /\ crashes \in Nat
  /\ writes \in [Tasks -> Nat]
  /\ granted \in SUBSET Tasks

\* The unlocked next_queued, the locked one and _schedule_chat never lose a
\* wakeup: a task that can be claimed always has a job that will look for it, or
\* a handler about to schedule one.
NoLostWakeup ==
  up => \A c \in Chats : Eligible(c) # {} =>
          c \in scheduled \/ handler[c].pc \in {"schedule", "receipt"}

\* The job's program counters between claim and finish.
Busy == {"run", "park", "checked", "write", "merged", "return", "finish"}

\* No row stays 'running' without a thread that runs it: the per-chat job
\* (mutual exclusion) and recover (after an exit) leave no orphan.
RunningIsOwned ==
  up => \A t \in Tasks : row[t].status = "running" =>
          /\ worker[row[t].chat].task = t
          /\ worker[row[t].chat].pc \in Busy

\* An approved code write is never replayed: through crashes, requeues and
\* races with cancellation each task enters the write phase at most once.
NoWriteReplay == \A t \in Tasks : writes[t] <= 1

\* Approval of a task is approval of its retries.
Granted(t) == \E u \in granted : row[u].origin = row[t].origin

\* Write phases fail closed: whoever passed the receipt check holds a meeting
\* confirmation, and the owner approved this task or one it retries.
WriteIsGranted ==
  \A c \in Chats : worker[c].pc \in {"checked", "write", "merged"} =>
    (IsCollab(c) => row[Current(c)].handoff /\ Granted(Current(c)))

\* The inductive invariant, by the state it constrains.
Processes ==
  /\ \A c \in Chats : c \in scheduled <=> worker[c].pc # "idle"
  /\ ~ up => \A c \in Chats : worker[c] = IdleWorker /\ handler[c] = IdleHandler

\* A job past its claim works on a task of its chat that is not queued, and one
\* before its write phase works on a task that has had none.
JobOK(c, j) ==
  /\ j.pc \in Busy \union {"claim"} =>
       j.task \in Tasks /\ ~ Absent(j.task) /\ row[j.task].chat = c
  /\ j.pc \in Busy => row[j.task].status \in {"running"} \union Terminal
  /\ j.pc = "park" => row[j.task].kind \in Collab /\ row[j.task].phase = "planning"
  /\ j.pc \in {"checked", "write", "merged"} =>
       row[j.task].approved /\ row[j.task].phase = "execute"
  /\ j.pc \in {"run", "park", "checked"} => writes[j.task] = 0

Jobs == \A c \in Chats : JobOK(c, worker[c])

CommandOK(c, h) ==
  h.pc # "idle" =>
    /\ h.task \in Tasks /\ ~ Absent(h.task) /\ row[h.task].chat = c
    /\ h.pc = "approve" => row[h.task].handoff /\ row[h.task].kind \in Collab

Commands == \A c \in Chats : CommandOK(c, handler[c])

\* Approval, phase and status of one row, and what they say of its write phase.
RowOK(t) ==
  /\ row[t].status = "waiting_approval" =>
       row[t].kind \in Collab /\ row[t].phase = "approval"
  /\ row[t].approved => /\ ~ Absent(t) /\ row[t].handoff /\ row[t].phase = "execute"
                        /\ Granted(t)
  /\ writes[t] # 0 => /\ ~ Absent(t) /\ row[t].kind = "swarm" /\ row[t].approved
                      /\ row[t].status \in {"running"} \union Terminal

Rows == (\A u \in granted : ~ Absent(u)) /\ (\A t \in Tasks : RowOK(t))

QueueInv ==
  /\ TypeOK /\ Processes /\ Jobs /\ Commands /\ Rows
  /\ NoLostWakeup /\ RunningIsOwned /\ NoWriteReplay

\* What keeps a pick good until its claim: stamps never exceed the clock, so a
\* row that joins the queue after the pick joins it behind the picked one, and
\* a picked row that left the queue never comes back to it.
FifoInv ==
  /\ \A t \in Tasks : row[t].key <= clock
  /\ \A c \in Chats : worker[c].pc = "claim" =>
       /\ row[Current(c)].status \in {"queued"} \union Terminal
       /\ Current(c) \in Eligible(c) =>
            \A u \in Eligible(c) : row[Current(c)].key <= row[u].key

\* per-chat FIFO: at the moment a task is claimed (not merely when it was
\* picked) no task of its chat that could be claimed has a smaller key.
ClaimIsFifo ==
  [][\A t \in Tasks :
       row[t].status = "queued" /\ row'[t].status = "running" =>
         \A u \in Eligible(row[t].chat) : row[t].key <= row[u].key]_vars

\* No job about to finish the task has a success in hand.
Unjudged(t) == \A c \in Chats : worker[c].pc = "finish" /\ worker[c].task = t
                                => worker[c].out # "succeeded"

\* A task is cancelled before the runner's result is judged.  (A meeting
\* finishes itself.)
CancelPending(t) ==
  /\ row[t].cancel /\ row[t].kind # "roundtable"
  /\ row[t].status \notin {"absent", "succeeded"}
  /\ Unjudged(t)

\* Such a task never succeeds: not through the verdict of its runner, a late
\* approval, a restart or the worker's unconditional finish.
CancelBeatsSuccess ==
  [][\A t \in Tasks : CancelPending(t) => CancelPending(t)']_vars

StageOf(s) == CASE s = "absent" -> "new"
                [] s = "queued" -> "open"
                [] s = "running" -> "running"
                [] s = "waiting_approval" -> "waiting"
                [] OTHER -> "closed"

Lifecycle == INSTANCE TaskLifecycle WITH
  stage  <- [t \in Tasks |-> StageOf(row[t].status)],
  place  <- [t \in Tasks |-> row[t].chat],
  family <- [t \in Tasks |-> row[t].origin],
  agreed <- granted,
  wrote  <- {t \in Tasks : writes[t] > 0}

\* The queue implements the lifecycle it promises: closed tasks are never
\* reopened, a chat runs one task at a time, only a restart requeues.
ImplementsLifecycle == Lifecycle!Spec

\* Every task that can be claimed is eventually claimed or cancelled, though
\* chats share a bounded pool and approvals move tasks to the back.
QueuedIsServed ==
  \A t \in Tasks : (row[t].status = "queued" /\ ~ row[t].cancel)
                    ~> (row[t].status # "queued")

\* bot.py tells the owner of an approved task that its write phase "has joined
\* the end of this chat's queue": a queued row is one a worker can claim.
QueuedIsRunnable == \A t \in Tasks : up /\ row[t].status = "queued" => ~ row[t].cancel
===============================================================================
