--------------------------------- MODULE Report ---------------------------------
(***************************************************************************)
(* The read-only report: report_workflow.py and the report branch of       *)
(* bot._run_swarm_task, from the preflight of a plan to the checkpoint     *)
(* report_delivered, while files of the analysed project are edited by     *)
(* others, the owner cancels and retries, the file is sent over a          *)
(* connection that may lose the answer, and the process exits and          *)
(* requeues what it was doing.                                             *)
(*                                                                         *)
(* One collaboration, handed off in report mode, and its retries.  While a *)
(* collaboration is underway only the runner writes its workflow (see      *)
(* Collaboration), so a transition is one step here.                       *)
(***************************************************************************)
EXTENDS Naturals, Sequences, WorkflowStates

CONSTANTS
  MaxFiles,    \* names of files the project may have
  MaxTasks,    \* bound on the task and its retries
  MaxEdits,    \* bound on the edits of the project
  MaxCrashes,  \* bound on the process exits
  NoReport

ASSUME ReportAssumption ==
  /\ MaxFiles \in Nat \ {0} /\ MaxTasks \in Nat \ {0}
  /\ MaxEdits \in Nat /\ MaxCrashes \in Nat
  /\ NoReport \notin {"sound", "mixed"}

Files == 1 .. MaxFiles    \* in the order in which they are read
Tasks == 1 .. MaxTasks    \* in the order in which they are created

VARIABLES
  wf,          \* the state of the workflow
  task,        \* the rows of tasks
  output,      \* task -> the DOCX at its output path: NoReport, or "sound" or
               \* "mixed" for what it says of the project
  job,         \* the job of the chat
  reading,     \* the project while it is read, and what was read of it
  up, crashes,
  cancels,     \* task -> what a cancellation under way has read of it
  sends,       \* history: task -> times its file has reached the chat
  lost,        \* history: task -> exits between a sending and its checkpoint or end
  late         \* history: tasks cancelled when the file was about to be sent

hist == <<sends, lost, late>>
vars == <<wf, task, output, job, reading, up, crashes, cancels, hist>>

Closed == {"succeeded", "failed", "blocked", "cancelled"}

\* retry: retry_of is set; approved: approved_at; delivered: the checkpoint
\* report_delivered.
Row == [status : {"absent", "queued", "running", "waiting_approval"} \union Closed,
        phase : {"planning", "execute"}, approved : BOOLEAN, cancel : BOOLEAN,
        retry : BOOLEAN, delivered : BOOLEAN]

NewRow == [status |-> "queued", phase |-> "planning", approved |-> FALSE,
           cancel |-> FALSE, retry |-> FALSE, delivered |-> FALSE]

-------------------------------------------------------------------------------
(* The worker and its runner.                                               *)

NoJob == [pc |-> "idle", task |-> 0, out |-> "failed"]

\* project: file -> its version (size, mtime and mode), 0 if there is none; before,
\* evidence, after: what was read so far; past: the states of the project since.
\* Between two readings nothing is kept of the project.
NoReading == [project |-> <<>>, edits |-> 0, past |-> {},
              before |-> <<>>, evidence |-> <<>>, after |-> <<>>]

At(p)   == up /\ job.pc = p
T       == job.task
Goto(p) == job' = [job EXCEPT !.pc = p] /\ UNCHANGED reading
Heard   == task[T].cancel
End(o)  == /\ task' = [task EXCEPT ![T] = [@ EXCEPT !.status = o]]
           /\ job' = NoJob /\ UNCHANGED reading

\* An exception: execute_background_task synchronizes the workflow, then the
\* task is finished with o.
Raise(o) == /\ job' = [job EXCEPT !.pc = "sync", !.out = o]
            /\ reading' = NoReading

otherThanJob  == <<wf, task, output, up, crashes, cancels, hist>>
otherThanTask == <<wf, output, up, crashes, cancels, hist>>
otherThanFlow == <<task, output, up, crashes, cancels, hist>>

\* WORKFLOW_STORE.transition(wf, to): an illegal one is an exception.
Transition(to, p) ==
  IF Legal(wf, to) THEN wf' = to /\ Goto(p) ELSE UNCHANGED wf /\ Raise("failed")

\* next_queued and claim pass over a row with the flag.
Claim(t) ==
  /\ At("idle") /\ task[t].status = "queued" /\ ~ task[t].cancel
  /\ task' = [task EXCEPT ![t] = [@ EXCEPT !.status = "running"]]
  /\ job' = [NoJob EXCEPT !.pc = "claimed", !.task = t]
  /\ UNCHANGED <<reading, otherThanTask>>

\* The check of _run_task, and what phase and workflow ask for.
Begin ==
  /\ At("claimed")
  /\ LET next == IF task[T].phase = "planning" THEN "plan" ELSE "receipt" IN
     IF Heard THEN End("cancelled") /\ UNCHANGED wf
     ELSE /\ UNCHANGED task
          /\ IF wf \notin Ended THEN Goto(next) /\ UNCHANGED wf
             ELSE IF ~ task[T].retry THEN Raise("blocked") /\ UNCHANGED wf
             ELSE /\ wf' = IF next = "plan" THEN "planning" ELSE "waiting_approval"
                  /\ Goto(next)
  /\ UNCHANGED <<output, up, crashes, cancels, hist>>

\* An exception of the store, the disk or Feishu, or a cancellation seen by
\* progress, checkpoint or cancel_check.
RunnerRaises ==
  /\ up /\ job.pc \notin {"idle", "claimed", "sync", "finish"}
  /\ \E o \in {"failed"} \union {c \in {"cancelled"} : Heard} : Raise(o)
  /\ UNCHANGED otherThanJob

\* ReportWorkflowError: a path, the PDF, the project, Codex or the DOCX is not
\* as it has to be.
ReportFails ==
  /\ up /\ job.pc \in {"plan", "recover", "before", "evidence", "analyse", "after"}
  /\ Raise("blocked")
  /\ UNCHANGED otherThanJob

\* plan_read_only_report is a preflight; what it has counted is not used later.
Plan ==
  /\ At("plan") /\ ~ Heard
  /\ Transition("waiting_approval", "park")
  /\ UNCHANGED otherThanFlow

\* A runner that goes on when the task is parked.
ParkAndGoOn ==
  /\ At("park") /\ task[T].status = "running"
  /\ task' = [task EXCEPT ![T] = [@ EXCEPT !.status = "waiting_approval"]]
  /\ Goto("receipt")
  /\ UNCHANGED otherThanTask

\* wait_for_approval looks at the cancellation, then parks a row that runs and ends
\* the job; with the flag in between the row is parked all the same, and one that
\* was closed in between is an exception.
Park ==
  /\ At("park")
  /\ IF task[T].status = "running" /\ task[T].phase = "planning"
     THEN End("waiting_approval") ELSE Raise("failed") /\ UNCHANGED task
  /\ UNCHANGED otherThanTask

\* The receipt is valid: report_execution_started.
CheckReceipt ==
  /\ At("receipt") /\ ~ Heard /\ task[T].approved
  /\ IF wf = "waiting_approval" THEN Transition("executing", "look")
     ELSE Goto("look") /\ UNCHANGED wf
  /\ UNCHANGED otherThanFlow

\* A runner that does not look at the checkpoints.
LookAway ==
  /\ At("look")
  /\ Goto("recover")
  /\ UNCHANGED otherThanJob

\* A runner that takes a report on the disk for one that was sent.
LookOnDisk ==
  /\ At("look")
  /\ Goto(IF output[T] # NoReport THEN "return" ELSE "recover")
  /\ UNCHANGED otherThanJob

LookForDelivery ==
  /\ At("look")
  /\ Goto(IF task[T].delivered THEN "return" ELSE "recover")
  /\ UNCHANGED otherThanJob

\* recover_existing_report: a report at the output path is taken as it is.
Recover ==
  /\ At("recover") /\ ~ Heard
  /\ IF output[T] # NoReport THEN Goto("generated")
     ELSE \E p \in [Files -> {0, 1}] :
            /\ reading' = [NoReading EXCEPT !.project = p, !.past = {p}]
            /\ job' = [job EXCEPT !.pc = "before"]
  /\ UNCHANGED otherThanJob

-------------------------------------------------------------------------------
(* execute_read_only_report.                                                *)

\* The next file of a pass over the project, and a pass that is complete.
OneMore(s) == Append(s, reading.project[Len(s) + 1])
Whole(s) == Len(s) = MaxFiles

\* The baseline, one lstat after the other; then the pages of the PDF.
SnapshotBefore ==
  /\ At("before")
  /\ IF Whole(reading.before) THEN ~ Heard /\ Goto("evidence")
     ELSE reading' = [reading EXCEPT !.before = OneMore(@)] /\ UNCHANGED job
  /\ UNCHANGED otherThanJob

\* build_project_evidence, one file after the other; without any it fails.
GatherEvidence ==
  /\ At("evidence")
  /\ IF Whole(reading.evidence)
     THEN (\E f \in Files : reading.evidence[f] # 0) /\ ~ Heard /\ Goto("analyse")
     ELSE reading' = [reading EXCEPT !.evidence = OneMore(@)] /\ UNCHANGED job
  /\ UNCHANGED otherThanJob

\* Codex reads pages and evidence, by parts if the text is long.
Analyse ==
  /\ At("analyse") /\ ~ Heard
  /\ Goto("after")
  /\ UNCHANGED otherThanJob

SnapshotAfter ==
  /\ At("after")
  /\ IF Whole(reading.after) THEN Goto("compare")
     ELSE reading' = [reading EXCEPT !.after = OneMore(@)] /\ UNCHANGED job
  /\ UNCHANGED otherThanJob

\* Comparing the names of the files only.
Renamed == {f \in Files : (reading.before[f] = 0) # (reading.after[f] = 0)}

Changed == {f \in Files : reading.before[f] # reading.after[f]}

Compare ==
  /\ At("compare")
  /\ IF Changed # {} THEN Raise("blocked") ELSE Goto("write")
  /\ UNCHANGED otherThanJob

\* write_docx refuses to overwrite, and fills a temporary file,
WriteTemporary ==
  /\ At("write")
  /\ IF output[T] # NoReport THEN Raise("blocked") ELSE Goto("replace")
  /\ UNCHANGED otherThanJob

\* The project once was, at one moment, what the evidence says of it, as far as
\* the files of the baseline go.
Sound ==
  \E p \in reading.past : \A f \in Files :
    reading.before[f] # 0 => reading.evidence[f] = p[f]

\* which os.replace moves to the output path.
Replace ==
  /\ At("replace")
  /\ output' = [output EXCEPT ![T] = IF Sound THEN "sound" ELSE "mixed"]
  /\ job' = [job EXCEPT !.pc = "generated"]
  /\ reading' = NoReading
  /\ UNCHANGED <<wf, task, up, crashes, cancels, hist>>

-------------------------------------------------------------------------------
(* Delivery.                                                                *)

\* A checkpoint that is written without a look at the cancellation.
AnnounceUnheard ==
  /\ At("generated")
  /\ Goto("send")
  /\ UNCHANGED otherThanJob

\* The checkpoint report_generated and the progress line: the last look at a
\* cancellation before the file is sent.
Announce ==
  /\ At("generated") /\ ~ Heard
  /\ Goto("send")
  /\ UNCHANGED otherThanJob

\* send_feishu_file: upload and message; the answer may be an error although the
\* file has arrived.
Send ==
  /\ At("send")
  /\ \/ Goto("verify")
     \/ Raise("failed")
  /\ sends' = [sends EXCEPT ![T] = @ + 1]
  /\ UNCHANGED <<wf, task, output, up, crashes, cancels, lost, late>>

Verify ==
  /\ At("verify")
  /\ Transition("verifying", "complete")
  /\ UNCHANGED otherThanFlow

Complete ==
  /\ At("complete")
  /\ Transition("completed", "deliver")
  /\ UNCHANGED otherThanFlow

\* The checkpoint report_delivered.
Deliver ==
  /\ At("deliver") /\ ~ Heard
  /\ task' = [task EXCEPT ![T] = [@ EXCEPT !.delivered = TRUE]]
  /\ Goto("return")
  /\ UNCHANGED otherThanTask

\* The runner returns, and _run_task looks once more.
Return ==
  /\ At("return")
  /\ End(IF Heard THEN "cancelled" ELSE "succeeded")
  /\ UNCHANGED otherThanTask

\* finish_from_task.
Synchronize ==
  /\ At("sync")
  /\ LET to == IF job.out = "cancelled" THEN "cancelled" ELSE "failed" IN
     wf' = IF wf \notin Ended /\ Legal(wf, to) THEN to ELSE wf
  /\ Goto("finish")
  /\ UNCHANGED otherThanFlow

Finish ==
  /\ At("finish")
  /\ End(job.out)
  /\ UNCHANGED otherThanTask

WorkerStep ==
  \/ \E t \in Tasks : Claim(t)
  \/ Begin \/ RunnerRaises \/ ReportFails \/ Plan \/ Park \/ CheckReceipt
  \/ LookForDelivery \/ Recover \/ SnapshotBefore \/ GatherEvidence \/ Analyse
  \/ SnapshotAfter \/ Compare \/ WriteTemporary \/ Replace \/ Announce \/ Send
  \/ Verify \/ Complete \/ Deliver \/ Return \/ Synchronize \/ Finish

-------------------------------------------------------------------------------
(* The owner, the project and the process.                                  *)

SetRow(t, r) ==
  /\ task' = [task EXCEPT ![t] = r]
  /\ UNCHANGED <<wf, output, job, reading, up, crashes, sends, lost>>

\* The messages of the chat are handled one at a time: no cancellation is under way.
NoCommand == \A t \in Tasks : cancels[t] = "none"

Approve(t) ==
  /\ up /\ NoCommand /\ task[t].status = "waiting_approval"
  /\ SetRow(t, [task[t] EXCEPT !.status = "queued", !.phase = "execute", !.approved = TRUE])
  /\ UNCHANGED <<cancels, late>>

\* request_cancel ("取消任务", or a refusal) reads the status; another one of a task
\* that runs with the flag would change nothing,
ReadCancel(t) ==
  /\ up /\ NoCommand
  /\ \/ task[t].status \in {"queued", "waiting_approval"}
     \/ task[t].status = "running" /\ ~ task[t].cancel
  /\ cancels' = [cancels EXCEPT ![t] = IF task[t].status = "running" THEN "runs" ELSE "waits"]
  /\ UNCHANGED <<wf, task, output, job, reading, up, crashes, hist>>

\* and writes what it calls for, whatever the row has become.
WriteCancel(t) ==
  /\ up /\ cancels[t] # "none"
  /\ SetRow(t, [task[t] EXCEPT !.cancel = TRUE,
                               !.status = IF cancels[t] = "runs" THEN @ ELSE "cancelled"])
  /\ cancels' = [cancels EXCEPT ![t] = "none"]
  /\ late' = IF t = T /\ job.pc = "send" THEN late \union {t} ELSE late

\* expire_approvals, after 30 minutes; the messages of other chats run it too.
Expire(t) ==
  /\ up /\ task[t].status = "waiting_approval"
  /\ SetRow(t, [task[t] EXCEPT !.status = "cancelled"])
  /\ UNCHANGED <<cancels, late>>

Retry(u) ==
  /\ up /\ NoCommand /\ task[u].status \in Closed
  /\ \E t \in Tasks, reuse \in {task[u].approved, FALSE} :
       /\ task[t].status = "absent" /\ \A v \in 1 .. t - 1 : task[v].status # "absent"
       /\ SetRow(t, [NewRow EXCEPT !.retry = TRUE, !.approved = reuse,
                                   !.phase = IF reuse THEN "execute" ELSE @])
  /\ UNCHANGED <<cancels, late>>

\* Someone writes, creates or removes a file of the project.
Edit(f) ==
  /\ job.pc \in {"before", "evidence", "analyse", "after"} /\ reading.edits < MaxEdits
  /\ \E v \in {0, reading.edits + 2} \ {reading.project[f]} :
       LET p == [reading.project EXCEPT ![f] = v] IN
       reading' = [reading EXCEPT !.project = p, !.past = @ \union {p}, !.edits = @ + 1]
  /\ UNCHANGED <<otherThanJob, job>>

Crash ==
  /\ up /\ crashes < MaxCrashes
  /\ up' = FALSE /\ crashes' = crashes + 1
  /\ lost' = IF job.pc # "idle" /\ sends[T] > lost[T] /\ ~ task[T].delivered
             THEN [lost EXCEPT ![T] = @ + 1] ELSE lost
  /\ job' = NoJob /\ reading' = NoReading /\ cancels' = [t \in Tasks |-> "none"]
  /\ UNCHANGED <<wf, task, output, sends, late>>

\* A recovery that overlooks approved reports.
RecoveredPlans(r) ==
  CASE r.status \in {"running", "queued"} /\ r.cancel -> [r EXCEPT !.status = "cancelled"]
    [] r.status = "running" /\ r.phase = "planning" -> [r EXCEPT !.status = "queued"]
    [] OTHER -> r

\* recover: what was running, a report in its execution included, is queued; a row
\* with the flag is cancelled, a queued one too.
Recovered(r) ==
  IF r.status \in {"running", "queued"}
  THEN [r EXCEPT !.status = IF r.cancel THEN "cancelled" ELSE "queued"] ELSE r

Start ==
  /\ ~ up
  /\ up' = TRUE
  /\ task' = [t \in Tasks |-> Recovered(task[t])]
  /\ UNCHANGED <<wf, output, job, reading, crashes, cancels, hist>>

Init ==
  /\ wf = "planning"
  /\ task = [t \in Tasks |-> [NewRow EXCEPT !.status = IF t = 1 THEN @ ELSE "absent"]]
  /\ output = [t \in Tasks |-> NoReport]
  /\ job = NoJob /\ reading = NoReading
  /\ up = TRUE /\ crashes = 0 /\ cancels = [t \in Tasks |-> "none"]
  /\ sends = [t \in Tasks |-> 0] /\ lost = sends /\ late = {}

Next ==
  \/ WorkerStep
  \/ \E t \in Tasks : Approve(t) \/ ReadCancel(t) \/ WriteCancel(t) \/ Expire(t) \/ Retry(t)
  \/ \E f \in Files : Edit(f)
  \/ Crash \/ Start

\* Agent calls and requests have time limits, so the worker goes on, and the
\* guardian starts the process again.
Spec == Init /\ [][Next]_vars /\ WF_vars(WorkerStep) /\ WF_vars(Start)

-------------------------------------------------------------------------------
(* Properties.                                                              *)

\* A row whose job goes on runs, or was cancelled by one that had read it as waiting.
Working(r) == r.status = "running" \/ (r.status \in Closed /\ r.cancel)

Partial(s) == s \in Seq(0 .. MaxEdits + 1) /\ Len(s) <= MaxFiles

TypeOK ==
  /\ wf \in Underway \union Ended
  /\ task \in [Tasks -> Row]
  /\ output \in [Tasks -> {NoReport, "sound", "mixed"}]
  /\ Partial(reading.before) /\ Partial(reading.evidence) /\ Partial(reading.after)
  /\ reading.past # {} => reading.project \in reading.past
  /\ job.out \in Closed
  /\ cancels \in [Tasks -> {"none", "waits", "runs"}]
  /\ job.pc # "idle" => up /\ Working(task[T])
  /\ up => \A t \in Tasks : task[t].status = "running" => t = T
  /\ crashes \in 0 .. MaxCrashes /\ late \subseteq Tasks

\* report_workflow.py:237: every report that is on the disk, and so every one
\* that is sent, now or after a restart, describes one state of the project,
\* although its files are read one after the other while others edit.
OutputIsSound == \A t \in Tasks : output[t] # "mixed"

\* A task sends its file once, and once more for each exit that comes before the
\* sending is checkpointed or its failure recorded; whatever is requeued, retried
\* or resumed after that does not send it again.
SentAgain == \A t \in Tasks : sends[t] <= 1 + lost[t]

\* A cancellation stops the file unless it comes when the sending has begun.
CancelStops ==
  [][\A t \in Tasks : sends'[t] # sends[t] /\ task[t].cancel => t \in late]_vars

\* A report task is a success only if its file has reached the chat.
SuccessIsSent == \A t \in Tasks : task[t].status = "succeeded" => sends[t] > 0

\* A queued row that no worker claims and no cancellation has closed: the flag was
\* written when it had been parked, and then it was approved.
Flagged(t) == task[t].status = "queued" /\ task[t].cancel

\* An approved report that has not come to an end.
Unfinished(t) ==
  /\ task[t].status \in {"queued", "running"} /\ task[t].phase = "execute"
  /\ ~ Flagged(t)

\* An approved report comes to an end, restarts included, unless a cancellation that
\* read its row as running writes its flag after the row was parked.  Tasks are
\* finitely many and their ends final: each one ends if, again and again, none is
\* unfinished.
ReportEnds == []<>(\A t \in Tasks : ~ Unfinished(t))
===============================================================================
