# A TLA+ model of the Feishu multi-agent workstation

This directory models the concurrent and persistent core of the workstation in
`src/`: a Python process that takes messages from a Feishu chat, turns them into
rows of an SQLite task table, runs them on a thread pool, asks their owner for
approval, and lets agents change the main workspace under a lock, a lease and a
merge journal; the way of a message into that process, and the guardian that keeps
it running. It holds TLA+ modules, TLC instances of them, and proofs for TLAPS.

- `TaskQueue`: task table, per-chat workers, message handlers, approval, recovery
- `TaskLifecycle`: what the queue promises; `TaskQueue` implements it
- `TaskQueueProofs`, `TaskQueueRefinement`: theorems about the two
- `WritePhase`: the approved write: lock, lease, staging, journal, recovery
- `Collaboration`: workflows, the commands that move them, the runner's transitions
- `WorkflowStates`: the states of a workflow and the table of its transitions
- `Report`: the read-only report, from its preflight to its delivery
- `Roundtable`: the table of sessions, the rounds of a meeting, convergence, its ends
- `Ingress`: a message from Feishu through the Hermes adapter and the bridge to its handler
- `Guardian`: the loop that starts the bot, its restart limit, planned restarts
- `Service`: `Ingress` in the process that `Guardian` starts
- `WritePhaseProofs`, `CollaborationProofs`, `RoundtableProofs`, `ReportProofs`,
  `GuardianProofs`, `ServiceProofs` (with those about `Ingress`): theorems about these
- `MCTaskQueue`, `MCWritePhase`, `MCCollaboration`, `MCReport`, `MCRoundtable`,
  `MCService` and the `.cfg` files: the instances TLC checks

Run, inside this directory, `tlc -config MCTaskQueue.cfg MCTaskQueue` (and so on)
and `tlapm TaskQueueProofs.tla` (and the other proof modules).

How the modules belong together: `Collaboration` sees a task as `TaskLifecycle` does and
`TaskQueue` implements `TaskLifecycle`; `Report` and `WritePhase` are the two ways the
execute phase of a collaboration goes, which are a step or two in `Collaboration`;
`Roundtable` is its step `Meet`; `Service` is a composition proper, of `Ingress` and
`Guardian`, and stands for what the other modules call `Crash` and `Start`.

## Inventory of the system

| Part | State | Operations | Talks to |
|---|---|---|---|
| Task store and controller, `task_manager.py` | table `tasks`, `task_checkpoints`; `_scheduled_chats`, the thread pool | create, next_queued, claim, wait_for_approval, approve, expire_approvals, request_cancel, retry, finish, recover; submit, start, `_schedule_chat`, `_run_chat`, `_run_task` | called by the handlers; runs the background runner; frees leases at recovery |
| Message handlers, `bot.py` `dispatch_message`, `handle_message` | `_CHAT_LOCKS` | one command per message: start, decide, hand off, approve, reject, cancel, retry, list | task store, workflow store, ingress |
| Background runner, `bot.py` `execute_background_task` | none of its own | meeting, planning, report, write, chat, probe | every store; roundtable; orchestrator; Feishu |
| Workflow store, `workflow_store.py` | table `workflow_instances` with its ledgers | create, active, transition, finish_from_task, resume_for_retry, bind_task, update_ledgers, record_boss_decision | handlers and runner |
| Write phase, `swarm_orchestrator.py` | `WORKSPACE_WRITE_LOCK` | plan, execute: stage, agents, checks, merge, regression | isolated workspace, lease, agents |
| Isolated workspace, `isolated_workspace.py` | staging tree, merge journal, backups, the main workspace | prepare, merge, commit, rollback, cleanup, `SourceTreeGuard`, recover_abandoned_merges | file system |
| Workspace lease, `workspace_lease.py` | table `workspace_leases` | acquire, renew, release, release_workspace_leases | SQLite |
| Roundtable, `roundtable_engine.py` | table of sessions, cooldowns, a meeting's blackboard | session create, reclaim and reuse; rounds; convergence; consensus | agents, runner |
| Report workflow, `report_workflow.py` | generated report, checkpoints | plan, execute, recover_existing_report | runner, Feishu |
| Ingress, `ingress_bridge.py`, adapter, `gateway_guard.py`, `conversation_store.claim_event` | event identifiers, the gateway's lock file | delegate with a timeout and a fallback, claim of an event | gateway, handlers |
| Guardian, `_guardian.ps1`, `scripts/restart_bot.ps1` | restart history, the marker `planned_shutdown.json` | start the process again, tell planned restarts from crashes, give up after too many | the process |
| Stores and helpers (`memory_store`, `conversation_store`, `control_store`, `observability`, `service_health`, `settings`, `command_parser`, `constraint_envelope`, `antigravity_first_pass`, `agent_runtime`, `obsidian_bridge`) | rows, files or nothing | single-statement writes, parsing, child processes | most parts |

What makes the parts correct:

- *Queue.* A task that can be claimed is never forgotten; a chat runs one task at a
  time; a closed task stays closed; claims are first in, first out per chat; an
  approved write starts at most once and never without its owner's approval; a
  cancellation that precedes the verdict wins.
- *Write phase.* Whatever exits or fails, the workspace ends with exactly the
  accepted merges; no merge loses another; the lease does not outlive its holder.
- *Workflow.* A collaboration passes meeting, decision, confirmation and approval in
  this order; a workflow that is open is served by a task, and one that is closed is
  reopened by a retry only.
- *Roundtable.* Convergence and the weighted consensus agree with the nominal rule at
  the boundaries; a meeting ends although members fail.
- *Report.* A report describes one state of the project; the file is sent once, and a
  restart resumes where the last checkpoint is.
- *Ingress.* A message is handled at most once, and somebody answers it unless the process
  exits between accepting and handling it.
- *Guardian.* It gives up for crashes and not for planned restarts, and starts the bot in
  every other case.

Hard to test: the threads of the pool against the handlers (no test runs both),
two-statement methods of the stores (`request_cancel`, `approve`, `retry`,
`transition`, the ledgers), process exits between two transactions or two replaced
files, and the recovery that follows; calls that time out although they were accepted;
scripts and processes that race for a marker file. `PROJECT.json` lists each of them at its line.

## Task queue: `TaskQueue`

### State

| Variable | Code |
|---|---|
| `row[t]` | a row of `tasks`: status, task_type (with the operation mode of a collaboration), chat, phase, cancel_requested, `COALESCE(approved_at, created_at)` as `key`, approved_at present, the receipt hashes as `baseline`, a valid `collaboration_handoff_valid` as `handoff`, the head of the retry_of chain as `origin` |
| `scheduled` | `_scheduled_chats` |
| `worker[c]` | the job `_run_chat(c)`: where it is, its task, the outcome it will write, the row hash it read |
| `handler[c]` | the message of chat `c` under `_chat_lock(c)` |
| `clock`, `ws` | the order of time stamps; a value for `workspace_fingerprint()` that changes with each merge |
| `up`, `crashes` | the process |
| `writes`, `granted` | history: number of write phases of a task; tasks approved by their owner |

### Steps

A step is one SQL statement, or one critical section of the controller's lock. The
`sqlite3` module opens a transaction at the first UPDATE or INSERT, so a method that
SELECTs, decides and then UPDATEs is two steps: `ApproveRead` and `ApproveCommit`,
`CancelRead` and `CancelWrite`, `RetryCreate` and `RetryReceipt` (two transactions),
`ParkCheck` and `Park`. A SELECT whose condition the UPDATE repeats is joined to it
(`claim`, `expire_approvals`).

The worker goes `pool`, `loop` (`PickNext`), then `claim`, or `drain` (`Retire`, the
second look under the lock) and back to `idle`. A claimed task is `run`; a
collaboration goes to `park` when planning ends, or to `checked`, `write` (holding
`WORKSPACE_WRITE_LOCK`) and `merged`; every task reaches `finish` with an outcome,
through `FinalCheck` or `RunnerRaises`. `FinishMeeting` is the early
`store.finish` of `_run_roundtable_task`.

`Crash` drops everything that is not in the table, at any step; `Start` is
`TaskController.start` with `recover`.

### Abstractions

- *Expiry.* The TTL of an approval is not modelled: whenever a message or a start runs
  `expire_approvals`, any set of waiting tasks may have expired. A message that
  expires tasks and then acts is `Expire` followed by the command.
- *Time.* `clock` advances by one at each stamp. The code's `time.time()` could repeat a
  value within its resolution, and is assumed not to run backwards.
- *Fingerprint.* `ws` changes at every merge. The constant `InGit` says whether the bot's
  root is a git work tree: without one `workspace_fingerprint()` is NULL, the value 0 of
  `Fingerprint` and `baseline`, and a receipt fits any workspace.
- *Runner.* What the agents say is the choice of an outcome in `RunnerErrors`; a row
  without a valid hand-off is blocked, unless the store's errors or a cancellation come first. The
  constant `Verdicts` says which of "blocked" and "needs_review" an instance admits:
  they lead to the same steps as "failed".
- *Constraint hash and plan hash* are one value with the fingerprint: nothing in the
  modelled code changes them after the approval.
- *Ownership.* Commands of others than the owner change nothing and are left out.
- *Errors of SQLite* (a locked database) are left out; they are a listed hazard.

### Runs

| Run | Instance | Shows |
|---|---|---|
| `queue_safety` | 2 tasks of any type, 2 chats, 2 threads, 1 exit, a git work tree | type invariant, the inductive invariant, `NoLostWakeup`, `RunningIsOwned`, `NoWriteReplay`, `WriteIsGranted`, `CancelBeatsSuccess`, and `ImplementsLifecycle` |
| `queue_live` | 2 collaborations, 2 chats, 1 thread, 1 exit, a verdict "blocked", no git work tree | `QueuedIsServed` under fairness, `ClaimIsFifo` |
| `queue_cancel` | 1 collaboration | finding: a cancellation that loses a race makes an approved task unclaimable |

Why the bounds are enough: two chats are needed for the pool and the write lock, two
tasks for a retry of another and for two tasks of one chat; order is a matter of two
tasks at a time, and the theorem `ClaimsAreFifo` needs no bound. One exit reaches every recovery, since recovery
depends on the table only and the table a second exit finds is one that a first exit
could find. The theorems below hold without any bound.

Deadlock is not checked: when every id is used up and nothing is pending the bot waits
for messages, which need not come.

### Fairness

`FairSpec` assumes weak fairness of `WorkerStep(c)` (a pool thread that can go on does;
no agent call runs forever, because each has a timeout), of `HandlerStep(c)` (a handler
that began a command ends it), and of `Start` (`_guardian.ps1` starts the process
again). Weak fairness is enough: a step of a chat's worker is disabled by nobody but
the pool bound and the write lock, and both are released by fair steps. No message is
fair: nobody has to write one. The exits are finite by `MaxCrashes`.

### Abstract specification

`TaskLifecycle` has five stages and no threads: a task is new, open, running, waiting or
closed; a chat runs one at a time; a task closes once; an agreement precedes the only
write of a task or of its retries; only a restart takes running tasks back to open.
`Lifecycle` in `TaskQueue` maps `row` and the history to it, and
`ImplementsLifecycle` is its specification.

### Proofs

All theorems assume `QueueAssumption` (types of the constants; any numbers of tasks,
chats, threads and exits) and nothing else.

`QueueInv` is the inductive invariant. `NoLostWakeup`, `RunningIsOwned`,
`NoWriteReplay` and `WriteIsGranted` are not inductive: a claim keeps
`RunningIsOwned` only if a chat has one job, so `Processes` ties `scheduled` to
`worker`; `NoWriteReplay` needs that a job short of its write phase holds a task that
has had none and that a task with a write phase is running or closed (`JobOK`,
`RowOK`); `WriteIsGranted` needs that `approved` in a row comes from an approval of
its chain of retries (`RowOK`), and that a handler's pending command concerns a row
of its own chat (`CommandOK`). `QueueInv` is also an invariant of `queue_safety`.

- `TaskQueueProofs`: `QueueInvariant`, one lemma per action, grouped by what an action
  moves (`WorkerMoves`, `HandlerMoves`, `JobAndRowMove`, `HandlerAndRowMove`,
  `NewRowMove`); from it `TypeCorrect`, `NoWakeupIsLost`, `RunningHasOwner`,
  `WritesAreNotReplayed`, `WritesAreGranted`.
- `TaskQueueRefinement`: `QueueImplementsLifecycle`, each step of the queue mapped to a
  step or a stutter of the lifecycle; `CancelWins`, from two lemmas on what a step
  does to the flag and to the verdict in hand; `ClaimsAreFifo`, from a second
  invariant `FifoInv` (a stamp never exceeds the clock, so what joins the queue
  after a pick joins behind it).

Only model-checked: `QueuedIsServed` (liveness is beyond this prover) and the finding.

Seen while modelling, and not stated as a property: the receipt, with the fingerprint of
the workspace the owner approved, is verified at bot.py:848, before
`WORKSPACE_WRITE_LOCK` is taken (swarm_orchestrator.py:293); of two approved writes of
different chats the second starts on the workspace the first has merged into.
ARCHITECTURE_UPGRADE.md:10 promises a verification before the execution, which is what
happens; `MergesOverItsCopy` of `WritePhase` shows that nothing is overwritten by it.

## Write phase: `WritePhase`

`execute_collaborative_project` from the lock to its release, with the lease, the
staging copy, the agents' calls, the merge with its journal, the regression, and after
an exit `recover_abandoned_merges` and the lease part of `recover`.

| Variable | Code |
|---|---|
| `main` | the main workspace, path to content |
| `dir[t]` | the execution directory of the task: journal status, what each entry restores, backups on disk |
| `exec[t]` | the thread: where it is, what was copied (`prepare`), what the guard captured, the staged changes, the paths a loop has still to visit |
| `lock`, `lease` | `WORKSPACE_WRITE_LOCK`, the row in `workspace_leases` |
| `cancelled` | tasks with cancel_requested |
| `state`, `rec`, `crashes` | the process (down, recovering, releasing, up) and what a recovery has in memory: the directories and entries still to visit, the ids whose leases it will release |
| `accepted` | history: `main` as the last commit left it |
| `unreleased` | history: tasks whose row a recovery has moved on and whose lease it did not release, because it exited in between |
| `outdated` | history: a merge was accepted over a directory that recovery had removed in part |

Each path that `merge`, `rollback` or recovery replaces is a step, and so is each
version of the journal (`os.replace`), so an exit may fall between any two. An agent
leaves any staging tree and may write the main workspace too; `Guard` restores it and
rejects the run. `Cleanup` removes all of the directory or all but the journal and a
part of the backups. `Abort` stands for every other way out of the `with` blocks.

Recovery goes `Boot`, then for each directory with a journal `Discard` (committed) or
`Open`, `Restore` per entry and, once all are restored, the removal by `shutil.rmtree`:
`Unlink` per backup, in any order, and `Close`, which takes the journal. The journal's
status stays "merging" until then, so an exit after an `Unlink` leaves a directory that is
`Torn`: later starts open it, restore what they can and give up at the missing backup.
`TaskController.recover` follows in two transactions, `RecoverRows` and `Start` (the rows,
then `release_workspace_leases` for the ids in `rec.owners`), with room for an exit between.

`Faults` names the failures an instance admits besides exits. `write_atomic` admits
none of them, and its invariants fail with each: `io` is the finding of `write_io`;
`escape` (an exit while an agent's change outside of staging is still there) and
`rmtree` (recovery fails to remove a directory and goes on) are hazards in `PROJECT.json`.
An exception in the regression run after the merge is part of `io`: it leaves the `with`
block as an error of `os.replace` does.

| Run | Instance | Shows |
|---|---|---|
| `write_atomic` | 2 tasks, 2 files that may exist or not, 3 exits | `Recoverable` (write-ahead journal), `WholeAtRest` (all or nothing), `MergesOverItsCopy` (no lost update), `LeaseIsHeld` (a lease has an execution that holds it, or was left by the interruption of a cancelled write or by a recovery that exited before it released it) |
| `write_io` | the same with I/O errors, no exit | finding: a merge that fails half-way stays, and its journal is deleted (`AllOrNothing`) |

Two files are what a partial merge needs, two tasks what a lost update or a second
journal needs. The first exit interrupts a merge, the second its recovery, and the third
the write that follows or the recovery that opens a torn directory.

`Recoverable` and `WholeAtRest` are stated up to the moment when a merge is accepted while
a torn directory names one of its paths with another content (`outdated`), and say nothing
afterwards. From then on a start may overwrite accepted work: with `AllOrNothing`, which
makes no exception, in the place of `WholeAtRest`, TLC finds the start that does in the
instance of `write_atomic`, against ARCHITECTURE_UPGRADE.md:13, which promises that an
exit in the middle of a merge is undone by its journal. Until then every torn directory
restores what was accepted, also when a start restores a part of it only.

Abstractions: the content of a path is who wrote it; temporary files left by an exit
are ignored; expiry of a lease is a free choice in `Acquire`; one process (the mutex of
`_guardian.ps1`) is assumed, so the lease is only ever held by an execution of this
process or left by an earlier one; the two agent calls are any number of calls; the
checks on staging (patch validation, scope, tests, review) are the choice between
`Pass` and `Abort`; the `copy2` of a backup is one step, although it can be cut short: the
entry is open until all of them are restored, and the next start copies it again.

The exceptions in `LeaseIsHeld` are the code's, against ARCHITECTURE_UPGRADE.md:17, where
the lease of a write blocked by a restart is cleared. One, `unreleased`: `recover` commits the
rows first (task_manager.py:432-463) and releases the leases of the ids it has in memory in a
second transaction (464); after an exit between the two the row is blocked, no later
recovery selects it, and its lease stays. TLC finds it with `LeaseIsCleared` in the place of
`LeaseIsHeld`. The other: `recover` selects the interrupted rows with
cancel_requested=0 (task_manager.py:433) and frees the leases of these only. A write that
had a cancel request when the process exited is set to cancelled, and its lease stays for
the rest of its hour, while every approved write fails with `WorkspaceLeaseBusy`.
Line 17 speaks of the writes that are blocked after a restart, so that
`LeaseIsCleared` leaves the cancelled ones out.

### Proofs

`WritePhaseProofs`, for any tasks, paths, agents' changes and exits, from
`WriteAssumption`. There are two invariants, because the second is true of exits only.

`LockInv` holds with every fault: the holder of the lock is the one execution in its
section (`Locked`), what it copied is what the workspace still has, up to the paths it
has replaced or the guard will restore (`Copied`), and the entries of its journal are the
paths of its patch (`Tracked`). From it come `WriteTypes`, `NoUpdateIsLost`
(`MergesOverItsCopy`) and `LeasesAreHeld`, which follows a lease through the recovery: it
belongs to an interrupted task, then to one of `rec.owners`, then to nobody or to a task
in `unreleased`.

`JournalInv` is for `Faults = {}`, the hypothesis of its theorems, and for as long as
`outdated` is false: every open journal, torn or not, restores what was accepted
(`Agrees`); one with all its backups (`Live`) is the only such one, an execution or the
recovery is at it, and it names every path that differs (`Undoes`); without one the
workspace is what was accepted, or what the guard is about to restore (`NoneOpen`); of a
rollback or a recovery under way the paths that are done hold what was accepted
(`Executing`, `Recovering`). A directory is torn only after its entries are restored, so
that `NoneOpen` holds when the last live journal loses a backup. `WriteInv` joins the two
invariants. Neither `Recoverable` nor `WholeAtRest` is
inductive: that a second task's journal cannot be open needs the lock, and that a
recovery which is interrupted may start again needs that restoring a path keeps the
journal true. `MergesAreRecoverable` and `WorkspaceIsWhole` follow. With `io`, `escape` or
`rmtree` the hypothesis is gone and so are the theorems, and after an `outdated` merge
likewise: see `write_io` and the hazards.

## Collaboration: `Collaboration`

The workflows of one chat: rows of `workflow_instances`, the messages that start a
meeting or a collaboration, decide, continue and hand off, the runner's path through
`_run_roundtable_task` and `_run_swarm_task`, and `execute_background_task`'s
synchronization of the workflow after an error.

| Variable | Code |
|---|---|
| `wf[w]` | state and current_task_id of a workflow |
| `rank` | the order of updated_at, by which `active` chooses |
| `task[t]` | the row of a task: status, type and operation mode, workflow, continued_from, meeting_task_id, retry_of, phase, approved_at, cancel_requested, checkpoint report_delivered |
| `queue` | the queued tasks of the chat, oldest first |
| `worker`, `handler` | the chat's job and the message under `_chat_lock`; `stale` in the job: a decision was recorded since the job read the ledger it will write |
| `decided`, `confirmed` | history: what the owner has said |
| `overtaken` | history: workflows a message wrote a state to that had moved on since the message read it, and did not allow the state any more, until a transition of the runner |
| `forgotten` | history: workflows whose ledger was written back without a decision |

`WorkflowStore.transition` is two steps, `TransRead` (state and table) and `TransWrite`,
and so is `finish_from_task` (`SyncRead`, `SyncWrite`); `HandlerTransRead` and
`HandlerTransWrite` are the same method called by a message. `update_ledgers` is `Meet`
(read) and `WriteLedgers` (write), after each round of a meeting and at its end.
`resume_for_retry` is `ResumeRead` (state and ledger), `ResumeWrite` (state and whole
ledger) and `Resumed` (the row it returns), after `StartCollaboration` has found a
workflow that has ended and a task that is a retry. A message is a step per
statement that another thread or an exit can come after: read, record, move the old
workflow, create, submit, bind. The worker is one job, since the chat has one
(`RunningIsOwned` of `TaskQueue`), and takes the oldest queued task (`ClaimIsFifo`); a
requeued task is the oldest, because it was when it was claimed. Task commands are
single steps here, `TaskQueue` has their statements.

`TasksFollowLifecycle` ties the two modules: the tasks of `Collaboration` move as
`TaskLifecycle` allows, and `TaskQueue` implements the same module.

| Run | Instance | Shows |
|---|---|---|
| `collab_chain` | 2 workflows, 3 tasks, both modes, 1 exit | `NoSkippedStep` (README.md:29: no step of the chain is skipped), `SuccessIsCompleted`, `TasksFollowLifecycle`, `DecisionsAreKept` |
| `collab_served` | 1 workflow, 2 tasks | finding: a cancelled collaboration keeps the chat's workflow underway |

Three tasks are a meeting with its collaboration and a retry of either, or a meeting, its
continuation and the collaboration; two workflows let a second meeting supersede the
first while its tasks still run.

`SuccessIsCompleted` is about code changes: when the task becomes a success its workflow
is completed. It depends on the claim order: with claims in any order, an approved task
may run while the hand-off of a later one is between its read and its write. First in,
first out is not enough either, and the attempt to prove it found why: with five tasks
and two exits the process can exit twice between the submission of a collaboration and
the transition of its workflow, with a second meeting in between. The tasks of these
hand-offs are requeued and planned while the workflow waits for the owner's confirmation;
the owner approves one and hands off anew; the approved task completes the workflow while
that message is between its read and its write, and the late write takes the workflow
back to planning before the task is recorded as a success. The
property therefore excepts the workflows that `overtaken` names, where a message wrote
over a state it had not read and the runner has made no transition since. In the instance of `collab_chain` there is no such write
before a success.

`DecisionsAreKept`: `record_boss_decision`, the meeting's `update_ledgers` and the
`resume_for_retry` of a collaboration all read a ledger, change it and write it back whole,
in separate transactions of two threads. In a workflow without retries the decision is
safe, because a message records it only for a workflow that waits for it, whose meeting has
written its ledgers, and no collaboration reopens it. With a retry it is not. A meeting
that is held again may be between its read and its write when the owner decides, which TLC
finds with one workflow, three tasks and no exit. And a message that has found the workflow waiting may record its
decision after a collaboration of the workflow has failed and its retry has read the ledger
to reopen it; this takes five tasks, and TLC finds it with them. The property therefore
speaks of the workflows none of whose tasks was retried. In the others the code does not
keep what workflow_store.py:177 calls an immutable record.

### Proofs

`CollaborationProofs`, for any number of workflows, tasks and exits and any modes, from
`CollaborationAssumption`. The invariant has a core and three parts on top of it.

`CoreInv` says that rows, queue, job and message fit together: the queue holds each queued
row once (`QueueOK`); a collaboration belongs to a meeting of its own workflow, which was
decided and confirmed, and a row that is approved has an approval in its chain of retries
(`RowOK`); one task runs, the job's (`RunningOK`); the job and the message are where their
task, their workflow and the transition they are in the middle of allow (`JobOK`,
`MessageOK`). A job is described by where it goes on (`Place`), so that the two steps of a
transition need no cases of their own.

- `CollaborationTypes` is a part of it.
- `ChainIsKept` (`NoSkippedStep`) needs `WroteInv`: what has been written or sent belongs
  to a meeting that succeeded and that its job has left (`Settled`; a meeting is a success
  before its job ends, and the job could still fail it), to an approved task, and to a task
  that is closed or past its write.
- `SuccessOfCompleted` needs `ReturnOK`: a code task about to be a success is in a completed
  workflow or in one of `overtaken`. Only a message can write in between.
- `DecisionsSurvive` (`DecisionsAreKept`) needs `TurnInv`: unless a task of the workflow
  was retried, its meetings follow each other (`InTurn`). One at most is live, and none
  while a message has a decision to record or to act on, so none is between reading and
  writing the ledger; and only a retried task reaches `resume_for_retry` (`JobOK`).
- `CollaborationRefinesLifecycle` (`TasksFollowLifecycle`) from `CoreInv` and `WroteInv`:
  every step moves one row as `TaskLifecycle` allows, or none, or is the recovery.

`JobRow`, `JobFlow` and `MessageRow` say what the steps of the worker and of the handler do
to rows and workflows, once, and the parts are proved from them.

Abstractions: of the ledgers only whether a decision was lost is kept, any other update
is the updated_at it leaves, and `record_boss_decision` is one step: what a meeting adds
to the ledger between its read and its write is not kept either; a message of the owner only, and a chat with one project (`active` without a project);
chat and probe tasks, which touch no workflow, are left out; whether a receipt still
fits the workspace is a choice in `Retry` and in the errors of `RunnerRaises`.

## Read-only report: `Report`

One collaboration in report mode with its retries: `plan_read_only_report`,
`recover_existing_report`, `execute_read_only_report` and the report branch of
`_run_swarm_task`, in the middle of edits of the analysed project, cancellations, a
connection that may lose an answer, and exits.

| Variable | Code |
|---|---|
| `wf` | state of the workflow |
| `task[t]` | the row: status, phase, approved_at, cancel_requested, retry_of, the checkpoint report_delivered |
| `cancels[t]` | a `request_cancel` that has read the row and not yet written: what it had read |
| `output[t]` | the DOCX at the task's output path, and whether what it says of the project was ever true at one moment |
| `job` | the worker and where the runner is |
| `reading` | the project (file to version), its past states, and the two snapshots and the evidence as far as they were read |
| `up`, `crashes` | the process |
| `sends`, `lost`, `late` | history: times a task's file has reached the chat; exits after a sending not yet recorded; tasks cancelled when the sending had begun |

`SnapshotBefore`, `GatherEvidence` and `SnapshotAfter` read one file per step, and `Edit`
may change, create or remove one between any two. `Send` may raise although the file has
arrived. A cancellation is two statements, `ReadCancel` and `WriteCancel`, and the second
writes what the first has found whatever the row has become; it is seen where the code
looks: at the claim, which passes over a row with the flag, in progress, checkpoint and
`cancel_check`, and when the runner returns. The messages of a chat are handled under its
lock, so no approval and no retry comes between the two (`NoCommand`). `Expire` closes a
report that waits, and may come in between: messages of other chats run it too.

| Run | Instance | Shows |
|---|---|---|
| `report` | a task and a retry, 2 files, 2 edits while one is read, 1 exit | `OutputIsSound`, `SentAgain`, `SuccessIsSent`, `CancelStops`, and `ReportEnds` under fairness |

Two files and two edits are what a mixture of two states needs, one file read before its
edit and one after; an edit gives a file a version it never had, as size, mtime and mode
do. A second task is a retry that finds the state its predecessor left. The exit may
come anywhere in the two, and what a second one finds is a state a first one could find.

`ReportEnds` says that an approved report is closed at some time, and has the exception of
the finding `queue_cancel`: a cancellation that read "running" and writes after the row was
parked leaves a row with the flag, which is queued when the owner approves it (`Flagged`)
and which no worker claims until a restart cancels it.

`SentAgain` counts: a task's file is sent once, and once more for each exit between a
sending and its record. So nothing else repeats it, not a requeue, a retry or the
recovery of a report found on disk; and nothing is promised for the exit itself, since
the code sends before it records.

Fairness: weak, of the worker's step (agent calls and requests have time limits) and of
`Start` (the guardian, while its limit is not reached). Neither approval nor retry is
fair, and exits are finite.

Abstractions: this module keeps the state of one workflow, without its ledger, and its
runner as the only writer, so a transition is one step here, and so is `resume_for_retry`;
`Collaboration` has each as a read and a write, with the messages that come between;
the project is edited only while it is read, since nothing of it is kept at other
times; versions are chosen when reading begins, a file existing or not; the pages of
the PDF, the prompts and the layout of the DOCX are left out, and any of their failures
is `ReportFails`; temporary files of an exit are left out, because no code looks for
them. A retry has an output path of its own, as its task identifier is new.

### Proofs

`ReportProofs` proves `TypeOK`, `OutputIsSound`, `SentAgain`, `SuccessIsSent` and
`CancelStops` for any number of files, tasks, edits and exits, from `ReportAssumption`.
The invariant `ReportInv` has two parts that none of them shows.

What was read (`ReadingOK`): the project has a past state p, the one at the end of the
first snapshot, such that a file the last snapshot found as the first did was so in p
and in the evidence (`Witness`). It holds because versions are new: `Bounded` says that
no edit brings back what was read, so a file that differs from the first snapshot once
differs for good. `Compare` lets pass only what is equal in both, which makes p the
state that `Sound` asks for (`ReportsAreSound`). If an edit could restore size, mtime
and mode, the theorem would fail, and the code with it.

What was sent (`Sent`, `JobSent`): a task with one sending more than exits explain is
checkpointed, closed, or its job is past the sending and cannot come back to it;
a job before the sending has no checkpoint; and a cancelled one that is about to send
was cancelled there. `lost` moves the account at an exit, and only there.

Only model-checked: `ReportEnds` (liveness).

Seen while modelling, and not stated as properties: the workflow is completed before the
checkpoint that makes the task resumable, so that after an exit between the two, or between
the checkpoint and the end of the task, the delivered report ends as blocked, although
task_manager.py:456 says "read-only report will resume idempotently"; a file created and removed between
the two snapshots enters the evidence and no comparison sees it (`Sound` speaks of the
files of the baseline); the PDF is in neither snapshot, and a recovered report gets its
number of pages from the PDF of that moment; a report accepted at 200 characters or more
may be refused after a restart, when the text of its paragraphs has less than 200; a send
that failed after the file had arrived leads a retry to send a second file; the branch
for report_delivered (bot.py:863) is reached by no requeued task, as only a
task that is itself a retry passes bot.py:740.

## Roundtable: `Roundtable`

`RoundTableV2.run` and what it calls: the session store, the rounds, `_execute_speech`
with its cooldowns, the rules of convergence, the minutes, and the ways a meeting ends.
A meeting is a task of type roundtable in a chat of its own, so that meetings run side by
side and share the table of sessions, as two chats do.

| Variable | Code |
|---|---|
| `task[m]`, `flag[m]` | status and cancel_requested of the meeting's task |
| `run[m]` | the locals of `run`: where it is, session, round_no, active_order, unavailable_agents, the last of stances_history; `fit` counts the calls of the round that ended the rounds that succeeded, `by` the members that carried its consensus |
| `sessions`, `recent` | the rows of `sessions` in the order of created_at; those in the window of duplicates |
| `result[m]` | the session the succeeded task reports |
| `restarts` | retries and exits so far |

A meeting is `Find` (`reclaim_stale`, `find_recent_session`), `Open`, `Announce`,
`HoldRound` until `Consensus`, `FixedPoint` or `Ceiling`, `Summarize`, `Close` (the report
card and the UPDATE to done), `LoadState` (`load_session_state`, still inside the `try`),
`Return`; `Abort` (cancel) and `Raise` (any exception) may take it out of each stage, and
mark the session only in the stages `Guarded` by the `try`, or at `LoadState`, where nothing
looks for a cancellation. `Mark` is an UPDATE that ends a session, done, cancelled or
failed: its own exception is logged and dropped, and the session is left running. A round
is one step: its threads share nothing, and `run` goes on when all are done.

A member says one of its `SpeechesOf`, or is `Unavailable` (its engine cools down, or the call
raises, and `run` takes it off the table), or delivers one of its `ErrorTexts`: a call that
fails returns a result whose text `_execute_speech` hands on (roundtable_engine.py:633-639),
and `is_engine_error` does not recognise it. agent_runtime.py:207-222 appends to it what the
engine had written to stdout or stderr, so `extract_stance` and `extract_stance_confidence`
may find in it the stance the member had stated; otherwise it is read as neutral.

| Run | Instance | Shows |
|---|---|---|
| `roundtable_sessions` | 2 meetings of 2 members on two topics, 2 rounds, 2 workers, 1 retry or exit | `SessionIsHeld`, `EndedStaysEnded`, `DoneHasMinutes`, `ResultIsOfTopic` |
| `roundtable_rounds` | 1 meeting of 3 members, 3 rounds, 1 retry or exit | `TypeOK`, `NobodyIsLost`, `ConsensusHasMajority` |
| `roundtable_quorum` | 2 meetings, 1 worker, no exit | finding: a meeting in which every call failed converges |

Two meetings are what a duplicate, a reclaim of another's session and a second topic
need, and what is said in them matters only for their ends; three members let one leave
and two remain; two rounds are the first in which a meeting may converge, and a third is
the ceiling of a meeting that did not. Two members agree, with confidence 0.9 or 0.4, and
one supplements or opposes, so that two of three meet the ratio of 0.6 exactly and one of
two, after a failure, does not. The two that agree are symmetric.

`EndedStaysEnded` has one exception, the code's: after the UPDATE to done an exception of
`load_session_state` goes to the handler that sets failed (roundtable_engine.py:912-921),
and the task fails with it. Another meeting may have reported the session meanwhile.

Abstractions: time passes only in `Find`, the one step that reads the clock, and any
session that no meeting holds may then be stale (3600 s since its last update) or out of the
window (600 s). That a session held by a meeting is never stale is an assumption, in
`Abandoned`: the code compares updated_at only (roundtable_engine.py:241-246), every round
updates it, and a round takes two engine calls of 300 s at most; a machine that sleeps for
an hour in the middle of a meeting is outside of the model. What the properties check of
the reclaim is that it goes by the last update and the status. Sessions have distinct seconds of creation. A retry takes the
place of the task it repeats. The tables turns, cache and events are left out: a meeting
does not read them (the cache is keyed by the session, and each run draws a new one).
A failed read of the stale sessions or of the duplicates is `Raise` at the start.
That a meeting ends is not stated: the rounds are bounded by `Ceiling`, each step by an
engine timeout.

### Proofs

`RoundtableProofs` proves all the properties of the two passing runs for any meetings,
topics, finite teams, numbers of rounds and restarts and any confidences from 0 to 100 per
cent, from `RoundtableAssumption`. The invariant is `RoundInv`: a meeting at work holds a
session that runs on its topic, one that reports, or reads the last state, holds one with
minutes (`Held`); no two own one, at work or at the last read (`Own`, `Apart`); its team is split into those at the table and those that left, two stay once a
round was held, and a stated consensus has its share of the table (`Seated`). `SessionsAreHeld`
needs all of it together with what `Find` may reclaim. `EndedSessionsStay` is a property of
steps: each step writes one session at most, and that one is held or stale, hence running,
or it is the one its meeting has just marked done and cannot read (`LoadStateStep`, `Unread`).

`ConsensusIsOfAMajority` is about a sum. `Weighted` adds up confidences with a recursive
function over the subsets of the table, and the theorem needs that the sum over a set is at
most 100 for each of its members (`TotalIsBounded`): then a share of 0.6 of the weight takes
three fifths of the members. The library's induction on finite sets cannot be instantiated
with this prover, so the lemma takes a smallest set that would break the bound (`SmallestSet`,
from the theorem that strict inclusion among the subsets of a finite set is well-founded),
and so does the existence of the function (`SumsExist`).

The proof changed one property: `NobodyIsLost` said that two members are at the table at
all times, which a team of one (FEISHU_ROUNDTABLE_ORDER may name one agent) refutes before
its first round; it now speaks of the rounds held, after which `run` has counted.

Seen while modelling, and not stated as properties: `find_recent_session` compares the
topic after `LIMIT 1`, so a meeting on another topic hides a duplicate; an exit, a
cancellation or an error while the meeting is announced, before the `try`, leaves the
session running, and the requeued or retried task finds it, returns it and succeeds
without minutes; `rounds_used` is one more than the rounds held when the ceiling ends a
meeting; confidences that are all the default skip the ratio of `weighted_consensus`; a
fixed point ends a meeting in spite of opposition.

## Ingress: `Ingress`

When Hermes owns the connection to Feishu, the default (`FEISHU_INGRESS_MODE`
hermes_delegate): the adapter posts each message to the bridge with a timeout of ten
seconds and lets Hermes answer if the call fails; the bridge's thread submits the message
to `MESSAGE_POOL` and answers 202; a pool thread claims the identifier and handles the
message under the lock of its chat.

| Variable | Code |
|---|---|
| `proc` | `bot.main`: down, starting (recovery, no bridge yet), up, closing (interrupted: the bridge is closed, the pool drains) |
| `call[c]` | the adapter's `_delegate` for one delivery of a message |
| `request[c]` | the thread of the bridge that serves the call |
| `pool`, `thread[w]` | the queue and the threads of `MESSAGE_POOL`, each at the claim, at the chat lock or in `handle_message` |
| `processed` | the table processed_events |
| `begun`, `answered`, `hermes`, `broken`, `dropped` | history: handlers entered, messages done, messages Hermes answered, calls that failed after the bridge had them, messages lost to an exit or an exception |

Feishu delivers a message several times, at any moment. `TimeOut` ends the call and not
the bridge's thread; `Kill` (a crash, or restart_bot.ps1) resets every connection and
empties the pool, and `Drained` ends a process that was interrupted.

## Guardian: `Guardian`

| Variable | Code |
|---|---|
| `bot` | bot.py runs |
| `guardian`, `planned` | where the loop of `_guardian.ps1` is; `$planned` |
| `marker` | planned_shutdown.json: none, at most five minutes old at the exit (fresh), older (stale), or younger than the exit the guardian looks at (ahead), which does not count |
| `exits`, `recent` | history: the cause of each exit; the exits of the last hour |
| `counted` | `$restartHistory` |
| `script`, `requests` | restart_bot.ps1 between its marker and its `Stop-Process`; times it was run |

The guardian's look at the marker, its removal and its count are three steps, the
script's marker and its stop two, and a crash may come before or after each. Time is
nondeterministic: `HourPasses` and `MarkerAges` may come at any moment while the bot runs.
What is assumed of it: between an exit and the next start no exit leaves the hour and no
marker ages (seconds against minutes), and a script ends within the five seconds the
guardian sleeps. One script runs at a time.

`HaltIsEarned` (ARCHITECTURE_UPGRADE.md:25: planned restarts are not counted) has one
exception, which the model found: a second request that comes between the exit of the
first and the guardian's look at the marker replaces it by one from after the exit, and
the planned restart is counted. `Spare` bounds how often. `CrashLoopEnds` is the other
side: a crash may be excused by the marker of a request, one for each.

### Proofs

`GuardianProofs` proves both for every limit and every number of exits and requests, from
`GuardianAssumption`. Neither is inductive. The invariant `GuardianInv` is an account: `Restarts`
charges each planned restart that was counted, or will be, to a request that stopped no
bot, and a script at work to itself; `Excuses` charges each uncounted crash to a request,
whose marker is still there or was taken by `planned`. `LastExit` and `Marked` give what
the steps need: an exit the guardian has not counted is recent and not in its history,
and the script's marker is fresh as long as it may find a bot. `Covered` and
`OneMoreElement` are the facts on finite sets that turn the accounts into the limits.

## The service: `Service`

A step of `Service` is a step of one part, or one of both where the process starts or
ends: starting the bot is `Launch` and `Start`, an exit is `Kill` or `Drained` with
`Crash`, and the script's `Stop` is a `Kill`. `proc` and `bot` are the two accounts of one
process, and `TypeOK` says that they agree.

| Run | Instance | Shows |
|---|---|---|
| `service` | 2 messages of a chat, one delivered twice, 2 threads, limit 1, 2 exits, 1 planned restart | `TypeOK`, `HandledOnce`, `AnsweredTwice`, `HaltIsEarned`, `CrashLoopEnds`, `IsAnswered`, `ComesBack` |

Two messages of one chat contend for its lock, two deliveries of one for its claim; the
planned restart gives a process that is started again, and the second exit may be its
crash, after which a limit of 1 halts the guardian. The larger limits are the business of
the theorems.

Fairness is weak, of what the threads, processes and scripts do once they can: the
bridge's steps, the pool's claims, locks and returns, the start of the process and of the
bridge, the end of a drained process, the script's stop, the guardian's own steps. The
code's time limits justify it. Not fair: deliveries, time-outs, exceptions, interrupts,
crashes and requests.

`IsAnswered` states what the comment at adapter.py:39 is after, and its limit: Hermes
answers whatever the bridge refuses or loses before its 202, in any phase of the process;
after the 202 only the bot can, and an exit or an exception then takes the message for
good, since the queue is in memory, the identifier may be claimed, and the future that
holds the exception is not read.

### Proofs

`ServiceProofs` first proves `HandledOnce` and `AnsweredTwice` of `IngressSpec`, for any
messages, chats, threads and numbers of deliveries, from `IngressAssumption`.
`HandledOnce` needs `Claimed`: a thread's message is recorded in processed_events, it is
no other thread's, and it has not entered the handler while the thread waits for the
lock. `AnsweredTwice` needs `Calm`: as long as a message came once and its call was not
lost, the bridge's thread for the call tells which side has it (`Single`); `StaysCalm` is
the lemma that what came once now came once before.

It then shows that `Service` implements both parts
(`ServiceImplementsItsParts`: every joint step is a step of each or leaves it alone), so
that the theorems about the parts are theorems about the service, and that the service is
type-correct (`ServiceTypes`). `IsAnswered` and `ComesBack` are liveness properties and
stay with TLC.

Abstractions: the week after which processed_events is pruned is longer than any
redelivery; a call the bridge answers with 400 or 401 is one that fails at once; messages
that are not text, which are accepted and ignored (bot.py:1033), count as handled; threads
of the pool are alike, so the first free one takes a message. `direct` mode, in which
bot.py holds the connection and `gateway_guard` its lock file, is not modelled. In
delegate mode there is no such lock: a second bot.py by hand would run the recovery of
the first one's work.

## Findings

1. `queue_cancel`: `request_cancel` reads the status and writes in a second statement.
   If the worker parks the task in between, the task waits for approval with its
   cancel flag set; the owner approves it, is told that it has been queued, and no
   worker ever claims it.
2. `write_io`: an I/O error in `merge` leaves the `with` block, whose exit deletes the
   journal and the backups: a part of an unaccepted merge remains.
3. `collab_served`: cancelling, rejecting or expiring a collaboration's waiting task
   leaves its workflow in waiting_approval; the chat then refuses every new
   collaboration and asks to cancel the old one, which is no longer possible.
4. `roundtable_quorum`: a failed engine call comes back as text and counts as a healthy
   speech, so a meeting of nothing but failures passes the quorum, reaches a fixed point
   and succeeds.

Five more are exceptions that properties of passing runs make, each described with its
module: the journal of a directory removed in part (`WholeAtRest`), the lease of a recovery
that exited between rows and leases (`LeaseIsHeld`), the decision recorded while a retried
task has the ledger (`DecisionsAreKept`), the session that fails after it was done
(`EndedStaysEnded`), and the planned restart that is counted (`HaltIsEarned`).

## Not modelled, and the plan

Not modelled for good: agent processes and their output, prompts, cards and wording,
parsing and validation of texts and patches, settings, memory, notes, traces and
health probes. They are sequential, or their effect on the modelled state is a choice
the models already make. The direct mode of the ingress differs from the modelled one
only in who holds the connection.

What is only model-checked, and why: the liveness properties `QueuedIsServed`, `ReportEnds`,
`IsAnswered` and `ComesBack`, because the prover knows neither ENABLED nor fairness; and the
four findings, which are counterexamples. Every invariant and every action property of a
passing run is a theorem, and so are the refinements. The theorems take the histories
(`decided`, `overtaken`, `accepted` and the like) as the modules define them.

Next, in this order:

1. The inductive invariants of the proof modules as properties that TLC checks where the
   instances are small enough, as `QueueInv` is.
2. `Collaboration` and `TaskQueue` side by side: that a task of the first is a task of the
   second, which now holds only through `TaskLifecycle`.
3. Errors of SQLite in `TaskQueue`: a job that ends with its chat still scheduled.
