------------------------------ MODULE WritePhase -------------------------------
(***************************************************************************)
(* The approved write phase: execute_collaborative_project of              *)
(* swarm_orchestrator.py under WORKSPACE_WRITE_LOCK and the workspace      *)
(* lease, with the staging copy, the merge journal and the recovery of     *)
(* isolated_workspace.py.                                                  *)
(*                                                                         *)
(* A path of the main workspace is replaced by os.replace, and the journal *)
(* likewise: each is one step, and the process may exit between any two.   *)
(* TaskQueue shows that a task enters its write phase at most once, so an  *)
(* execution directory belongs to one execution.                           *)
(***************************************************************************)
EXTENDS Naturals, FiniteSets

CONSTANTS
  Tasks,       \* tasks whose write phase was approved
  Files,       \* paths of the workspace
  Faults,      \* failures admitted besides the process exit, see FaultKinds
  MaxCrashes,  \* bound on the number of process exits
  Original,    \* content of a file before any of the tasks
  NoFile,      \* the path does not exist
  Same,        \* the path is as it was when it was copied
  NoTask       \* nobody

\* io:     an error between two replaced files, in the regression run after the
\*         merge, or in rollback or commit
\* escape: the process exits while changes an agent made outside of its
\*         staging directory are still in the main workspace
\* rmtree: recovery fails to remove an execution directory, or a part of it
FaultKinds == {"io", "escape", "rmtree"}

ASSUME WriteAssumption ==
  /\ Faults \subseteq FaultKinds
  /\ MaxCrashes \in Nat
  /\ NoTask \notin Tasks
  /\ Original \notin Tasks \union {NoFile, Same}
  /\ NoFile \notin Tasks \union {Same}
  /\ Same \notin Tasks

VARIABLES
  main,       \* the main workspace: path -> content
  dir,        \* task -> its execution directory
  exec,       \* task -> its execution
  lock,       \* holder of WORKSPACE_WRITE_LOCK
  lease,      \* owner_task_id of the row in workspace_leases
  cancelled,  \* tasks with cancel_requested
  state,      \* the process: one of States
  rec,        \* what a recovery keeps in memory, see NoRecovery
  crashes,
  accepted,   \* history: main as the last commit left it
  unreleased, \* history: tasks whose rows a recovery has moved on and whose
              \* leases it has not released, because it exited in between
  outdated    \* history: a merge was accepted over a directory whose removal was
              \* interrupted, see Torn

vars == <<main, dir, exec, lock, lease, cancelled, state, rec, crashes,
          accepted, outdated, unreleased>>

\* A file holds what it held originally or what some task wrote.
Content == Tasks \union {Original, NoFile}
Tree    == [Files -> Content]

\* journal is the status in merge-journal.json; old[f] is what the entry of f
\* restores (NoFile: "existed" is false) and saved are the backups on disk.
Dir == [journal : {"none", "merging", "committed"},
        old : [Files -> Content \union {Same}], saved : SUBSET Files]

EmptyDir == [journal |-> "none", old |-> [f \in Files |-> Same], saved |-> {}]

Entries(d) == {f \in Files : d.old[f] # Same}

\* Every entry that restores a content has its backup.
Intact(d) == {f \in Entries(d) : d.old[f] # NoFile} \subseteq d.saved

\* What rmtree may leave behind: it gives up at the first path it cannot remove.
Remains(d) == {EmptyDir} \union {[d EXCEPT !.saved = s] : s \in SUBSET d.saved}

Pcs == {"new", "lease", "prepare", "agent", "guard", "test", "backup", "journal",
        "replace", "regress", "rollback", "commit", "exit", "release", "done", "dead"}

\* copy: main as prepare copied it; seen: main as SourceTreeGuard captured it;
\* patch: the staging tree against copy; todo: paths a loop has still to visit.
Execution == [pc : Pcs, copy : Tree, seen : Tree,
              patch : [Files -> Content \union {Same}], todo : SUBSET Files]

Idle == [pc |-> "new", copy |-> [f \in Files |-> Original],
         seen |-> [f \in Files |-> Original], patch |-> [f \in Files |-> Same], todo |-> {}]

\* recovering: recover_abandoned_merges; releasing: TaskController.recover has
\* moved the rows on and has still to release the leases.
States == {"down", "recovering", "releasing", "up"}

\* The directories to visit, the one being visited and its entries to restore;
\* owners are the interrupted tasks whose leases are to be released.
Memory == [dirs : SUBSET Tasks, cur : Tasks \union {NoTask}, todo : SUBSET Files,
           owners : SUBSET Tasks]

NoRecovery == [dirs |-> {}, cur |-> NoTask, todo |-> {}, owners |-> {}]

history == <<accepted, outdated>>

-------------------------------------------------------------------------------
(* The write phase of a task.                                               *)

At(t, p)   == state = "up" /\ exec[t].pc = p
Goto(t, p) == exec' = [exec EXCEPT ![t] = [@ EXCEPT !.pc = p]]
Changed(t) == {f \in Files : exec[t].patch[f] # Same}

process == <<cancelled, state, rec, crashes, unreleased>>

\* A directory whose removal was interrupted: its journal is still open and a
\* backup is gone, so that every later recovery stops at that entry.
Torn(t) == dir[t].journal = "merging" /\ ~Intact(dir[t])

\* Staging without the thread lock.
EnterUnlocked(t) ==
  /\ At(t, "new")
  /\ lock' = t
  /\ Goto(t, "lease")
  /\ UNCHANGED <<main, dir, lease, process, history>>

Enter(t) ==
  /\ At(t, "new") /\ lock = NoTask
  /\ lock' = t
  /\ Goto(t, "lease")
  /\ UNCHANGED <<main, dir, lease, process, history>>

\* WorkspaceLease.acquire.  A row that another execution left may have expired.
Acquire(t) ==
  /\ At(t, "lease")
  /\ \/ lease' = t /\ Goto(t, "prepare")
     \/ lease # NoTask /\ Goto(t, "release") /\ UNCHANGED lease
  /\ UNCHANGED <<main, dir, lock, process, history>>

Prepare(t) ==
  /\ At(t, "prepare")
  /\ exec' = [exec EXCEPT ![t] = [@ EXCEPT !.pc = "agent", !.copy = main]]
  /\ UNCHANGED <<main, dir, lock, lease, process, history>>

\* SourceTreeGuard.capture and the call of an agent, which leaves some staging
\* tree and may have changed the main workspace as well.
CallAgent(t) ==
  /\ At(t, "agent")
  /\ \E patch \in [Files -> {t, NoFile, Same}], E \in SUBSET Files :
       /\ \A f \in Files : patch[f] = NoFile => exec[t].copy[f] # NoFile
       /\ exec' = [exec EXCEPT ![t] =
                      [@ EXCEPT !.pc = "guard", !.seen = main, !.patch = patch]]
       /\ main' = [f \in Files |-> IF f \in E THEN t ELSE main[f]]
  /\ UNCHANGED <<dir, lock, lease, process, history>>

\* restore_if_changed, and renew before the next call or the tests.  (The code
\* calls two agents; here any number of calls may follow one another.)
Guard(t) ==
  /\ At(t, "guard")
  /\ main' = exec[t].seen
  /\ \/ main # exec[t].seen /\ Goto(t, "exit")
     \/ /\ main = exec[t].seen
        /\ \E p \in IF lease = t THEN {"agent", "test"} ELSE {"exit"} : Goto(t, p)
  /\ UNCHANGED <<dir, lock, lease, process, history>>

\* Scope, tests and review of the staging tree passed.
Pass(t) ==
  /\ At(t, "test")
  /\ Goto(t, "backup")
  /\ UNCHANGED <<main, dir, lock, lease, process, history>>

\* A cancellation, a failed check or an error: the with blocks are left.
Abort(t) ==
  /\ \E p \in {"prepare", "agent", "test", "backup", "journal"}
              \union IF "io" \in Faults THEN {"replace", "regress", "rollback", "commit"}
              ELSE {} :
       At(t, p)
  /\ Goto(t, "exit")
  /\ UNCHANGED <<main, dir, lock, lease, process, history>>

\* merge replacing files as soon as they are backed up.
BackupUnjournaled(t) ==
  /\ At(t, "backup")
  /\ dir' = [dir EXCEPT ![t] = [@ EXCEPT
       !.old = [f \in Files |-> IF f \in Changed(t) THEN main[f] ELSE Same],
       !.saved = {f \in Changed(t) : main[f] # NoFile}]]
  /\ exec' = [exec EXCEPT ![t] = [@ EXCEPT !.pc = "replace", !.todo = Changed(t)]]
  /\ UNCHANGED <<main, lock, lease, process, history>>

\* merge, first loop: the backups of every changed path.
Backup(t) ==
  /\ At(t, "backup")
  /\ dir' = [dir EXCEPT ![t] = [@ EXCEPT
       !.old = [f \in Files |-> IF f \in Changed(t) THEN main[f] ELSE Same],
       !.saved = {f \in Changed(t) : main[f] # NoFile}]]
  /\ Goto(t, "journal")
  /\ UNCHANGED <<main, lock, lease, process, history>>

WriteJournal(t) ==
  /\ At(t, "journal")
  /\ dir' = [dir EXCEPT ![t] = [@ EXCEPT !.journal = "merging"]]
  /\ exec' = [exec EXCEPT ![t] = [@ EXCEPT !.pc = "replace", !.todo = Changed(t)]]
  /\ UNCHANGED <<main, lock, lease, process, history>>

\* merge, second loop: one path is replaced or removed.
Replace(t) ==
  /\ At(t, "replace")
  /\ \/ \E f \in exec[t].todo :
          /\ main' = [main EXCEPT ![f] = exec[t].patch[f]]
          /\ exec' = [exec EXCEPT ![t] = [@ EXCEPT !.todo = exec[t].todo \ {f}]]
     \/ exec[t].todo = {} /\ Goto(t, "regress") /\ UNCHANGED main
  /\ UNCHANGED <<dir, lock, lease, process, history>>

\* A rollback that visits every path instead of the merged ones.
RegressionUndoesAll(t) ==
  /\ At(t, "regress")
  /\ \/ Goto(t, "commit")
     \/ exec' = [exec EXCEPT ![t] = [@ EXCEPT !.pc = "rollback", !.todo = Files]]
  /\ UNCHANGED <<main, dir, lock, lease, process, history>>

\* A failed regression reported without undoing the merge.
RegressionIgnored(t) ==
  /\ At(t, "regress")
  /\ \/ Goto(t, "commit")
     \/ Goto(t, "exit")
  /\ UNCHANGED <<main, dir, lock, lease, process, history>>

\* _run_standard_tests on the main workspace.
Regression(t) ==
  /\ At(t, "regress")
  /\ \/ Goto(t, "commit")
     \/ exec' = [exec EXCEPT ![t] = [@ EXCEPT !.pc = "rollback", !.todo = Changed(t)]]
  /\ UNCHANGED <<main, dir, lock, lease, process, history>>

\* rollback restores the paths and then removes the journal.
Rollback(t) ==
  /\ At(t, "rollback")
  /\ \/ \E f \in exec[t].todo :
          /\ main' = [main EXCEPT ![f] = dir[t].old[f]]
          /\ exec' = [exec EXCEPT ![t] = [@ EXCEPT !.todo = exec[t].todo \ {f}]]
          /\ UNCHANGED dir
     \/ /\ exec[t].todo = {}
        /\ dir' = [dir EXCEPT ![t] = [@ EXCEPT !.journal = "none"]]
        /\ Goto(t, "exit")
        /\ UNCHANGED main
  /\ UNCHANGED <<lock, lease, process, history>>

Commit(t) ==
  /\ At(t, "commit")
  /\ dir' = [dir EXCEPT ![t] = [@ EXCEPT !.journal = "committed"]]
  /\ accepted' = main
  /\ outdated' = \/ outdated
                  \/ \E u \in Tasks : /\ Torn(u)
                                      /\ \E f \in Entries(dir[u]) : dir[u].old[f] # main[f]
  /\ Goto(t, "exit")
  /\ UNCHANGED <<main, lock, lease, process>>

\* IsolatedWorkspace.__exit__: cleanup may leave a part of the directory.
Cleanup(t) ==
  /\ At(t, "exit")
  /\ \E left \in Remains(dir[t]) : dir' = [dir EXCEPT ![t] = left]
  /\ Goto(t, "release")
  /\ UNCHANGED <<main, lock, lease, process, history>>

\* The lease, deleted by its token, and then the lock.
Release(t) ==
  /\ At(t, "release")
  /\ lease' = IF lease = t THEN NoTask ELSE lease
  /\ lock' = NoTask
  /\ exec' = [exec EXCEPT ![t] = [Idle EXCEPT !.pc = "done"]]
  /\ UNCHANGED <<main, dir, process, history>>

Section == {"lease", "prepare", "agent", "guard", "test", "backup", "journal",
            "replace", "regress", "rollback", "commit", "exit", "release"}

\* A cancel request while the task runs: Abort is how the execution sees it.
RequestCancel(t) ==
  /\ state = "up" /\ exec[t].pc \in Section
  /\ cancelled' = cancelled \union {t}
  /\ UNCHANGED <<main, dir, exec, lock, lease, state, rec, crashes, unreleased, history>>

Step(t) ==
  \/ Enter(t) \/ Acquire(t) \/ Prepare(t) \/ CallAgent(t) \/ Guard(t) \/ Pass(t)
  \/ Abort(t) \/ Backup(t) \/ WriteJournal(t) \/ Replace(t) \/ Regression(t)
  \/ Rollback(t) \/ Commit(t) \/ Cleanup(t) \/ Release(t) \/ RequestCancel(t)

-------------------------------------------------------------------------------
(* Process exit, recover_abandoned_merges and TaskController.start.         *)

Escaped == \E t \in Tasks : exec[t].pc = "guard" /\ main # exec[t].seen

Crash ==
  /\ state # "down" /\ crashes < MaxCrashes
  /\ Escaped => "escape" \in Faults
  /\ state' = "down"
  /\ crashes' = crashes + 1
  /\ exec' = [t \in Tasks |-> IF exec[t].pc \in Section
                              THEN [Idle EXCEPT !.pc = "dead"] ELSE exec[t]]
  /\ lock' = NoTask
  /\ rec' = NoRecovery
  /\ unreleased' = unreleased \union rec.owners
  /\ UNCHANGED <<main, dir, lease, cancelled, history>>

\* The directories that hold a journal are visited in turn.
Boot ==
  /\ state = "down"
  /\ state' = "recovering"
  /\ rec' = [NoRecovery EXCEPT !.dirs = {t \in Tasks : dir[t].journal # "none"}]
  /\ UNCHANGED <<main, dir, exec, lock, lease, cancelled, crashes, unreleased, history>>

recovering == <<exec, lock, lease, cancelled, state, crashes, unreleased, history>>

\* A committed merge only lost the race with its cleanup.
Discard(t) ==
  /\ state = "recovering" /\ rec.cur = NoTask /\ t \in rec.dirs
  /\ dir[t].journal = "committed"
  /\ \E left \in Remains(dir[t]) : dir' = [dir EXCEPT ![t] = left]
  /\ rec' = [rec EXCEPT !.dirs = @ \ {t}]
  /\ UNCHANGED <<main, recovering>>

Open(t) ==
  /\ state = "recovering" /\ rec.cur = NoTask /\ t \in rec.dirs
  /\ dir[t].journal = "merging"
  /\ rec' = [rec EXCEPT !.cur = t, !.todo = Entries(dir[t])]
  /\ UNCHANGED <<main, dir, recovering>>

\* One entry; a missing backup ends the visit of the directory.
Restore(f) ==
  LET d == dir[rec.cur] IN
  /\ state = "recovering" /\ rec.cur # NoTask /\ f \in rec.todo
  /\ main' = IF d.old[f] = NoFile \/ f \in d.saved
             THEN [main EXCEPT ![f] = d.old[f]] ELSE main
  /\ rec' = IF d.old[f] = NoFile \/ f \in d.saved
            THEN [rec EXCEPT !.todo = @ \ {f}]
            ELSE [rec EXCEPT !.cur = NoTask, !.todo = {}, !.dirs = @ \ {rec.cur}]
  /\ UNCHANGED <<dir, recovering>>

\* rmtree of a directory whose entries are restored: the backups and the journal
\* go one by one, in the order in which the directory lists them.
Restored == state = "recovering" /\ rec.cur # NoTask /\ rec.todo = {}

Unlink(f) ==
  /\ Restored /\ f \in dir[rec.cur].saved
  /\ dir' = [dir EXCEPT ![rec.cur].saved = @ \ {f}]
  /\ UNCHANGED <<main, rec, recovering>>

\* Without its journal a directory is not visited again.
Close ==
  /\ Restored
  /\ \/ dir' = [dir EXCEPT ![rec.cur] = EmptyDir]
     \/ "rmtree" \in Faults /\ UNCHANGED dir
  /\ rec' = [rec EXCEPT !.cur = NoTask, !.dirs = @ \ {rec.cur}]
  /\ UNCHANGED <<main, recovering>>

Interrupted == {t \in Tasks : exec[t].pc = "dead"}

\* TaskController.recover, first transaction: the rows of the interrupted tasks
\* are blocked or requeued, those of the cancelled ones cancelled.
RecoverRows ==
  /\ state = "recovering" /\ rec.cur = NoTask /\ rec.dirs = {}
  /\ state' = "releasing"
  /\ rec' = [rec EXCEPT !.owners = Interrupted \ cancelled]
  /\ exec' = [t \in Tasks |-> IF t \in Interrupted THEN [Idle EXCEPT !.pc = "done"]
                              ELSE exec[t]]
  /\ UNCHANGED <<main, dir, lock, lease, cancelled, crashes, unreleased, history>>

started == <<main, dir, exec, lock, cancelled, crashes, unreleased, history>>

\* A recovery that leaves the leases alone.
StartLeased ==
  /\ state = "releasing"
  /\ state' = "up" /\ rec' = NoRecovery
  /\ UNCHANGED <<lease, started>>

\* release_workspace_leases, a transaction of its own; then the process is up.
Start ==
  /\ state = "releasing"
  /\ state' = "up" /\ rec' = NoRecovery
  /\ lease' = IF lease \in rec.owners THEN NoTask ELSE lease
  /\ UNCHANGED started

Recovery ==
  \/ Boot \/ Close \/ RecoverRows \/ Start
  \/ \E t \in Tasks : Discard(t) \/ Open(t)
  \/ \E f \in Files : Restore(f) \/ Unlink(f)

-------------------------------------------------------------------------------

\* Any of the files may be missing from the workspace the bot starts on.
Init ==
  /\ main \in [Files -> {Original, NoFile}]
  /\ accepted = main
  /\ dir = [t \in Tasks |-> EmptyDir]
  /\ exec = [t \in Tasks |-> Idle]
  /\ lock = NoTask /\ lease = NoTask
  /\ cancelled = {} /\ unreleased = {} /\ outdated = FALSE
  /\ state = "down" /\ rec = NoRecovery /\ crashes = 0

Next == (\E t \in Tasks : Step(t)) \/ Crash \/ Recovery

Spec == Init /\ [][Next]_vars

-------------------------------------------------------------------------------
(* Properties.                                                              *)

\* The variables stay in their types.
TypeOK ==
  /\ main \in Tree /\ accepted \in Tree
  /\ dir \in [Tasks -> Dir]
  /\ exec \in [Tasks -> Execution]
  /\ lock \in Tasks \union {NoTask} /\ lease \in Tasks \union {NoTask}
  /\ cancelled \in SUBSET Tasks /\ unreleased \in SUBSET Tasks
  /\ state \in States
  /\ rec \in Memory /\ outdated \in BOOLEAN
  /\ crashes \in Nat

Journaled(f) == {t \in Tasks : dir[t].journal = "merging" /\ f \in Entries(dir[t])}

\* Write-ahead journal: whenever the process exits, a merge that was not
\* accepted can be undone exactly.  A path is as the last accepted merge left it
\* (or the guard will restore it), or an open journal with all its backups names
\* it; and every open journal restores what was accepted.  This ends when a
\* merge is accepted over a directory whose removal was interrupted.
Recoverable ==
  ~outdated => \A f \in Files :
    /\ \A t \in Journaled(f) : dir[t].old[f] = accepted[f]
    /\ \/ main[f] = accepted[f]
       \/ \E t \in Journaled(f) : ~Torn(t)
       \/ \E t \in Tasks : exec[t].pc = "guard" /\ exec[t].seen[f] = accepted[f]

\* All or nothing: with no write phase under way, a started process has exactly
\* the accepted merges in its workspace, whatever failed or exited before.
AllOrNothing == state = "up" /\ lock = NoTask => main = accepted

\* As far as exits go this is so until a merge is accepted over a directory whose
\* removal was interrupted.
WholeAtRest == ~outdated => AllOrNothing

\* No lost update: a path is merged only over the content that was staged.
MergesOverItsCopy ==
  \A t \in Tasks : exec[t].pc \in {"backup", "journal", "replace"} =>
    \A f \in Files : f \in exec[t].todo \/ exec[t].pc # "replace" =>
      main[f] = exec[t].copy[f]

\* A restart releases what the exits have left: the lease of a started process
\* belongs to an execution that is under way, or to a task that was cancelled.
LeaseIsCleared ==
  state = "up" /\ lease # NoTask => exec[lease].pc \in Section \/ lease \in cancelled

\* It is so unless the recovery of that task exited between the rows and the
\* leases: then, too, the lease stays until it expires.
LeaseIsHeld == LeaseIsCleared \/ lease \in unreleased
===============================================================================
