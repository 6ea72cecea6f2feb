---------------------------- MODULE WritePhaseProofs ----------------------------
(***************************************************************************)
(* The approved write for any number of tasks, paths and process exits: no *)
(* merge loses another, a lease outlives its execution only where recovery *)
(* leaves it, and, when only the process fails, what was not accepted can  *)
(* be undone from the journal and is undone by the time the process is up, *)
(* until a merge goes over a directory whose removal was interrupted.      *)
(***************************************************************************)
EXTENDS WritePhase, TLAPS

Merging == {"replace", "regress", "rollback", "commit"}

-------------------------------------------------------------------------------
(* Whatever fails.                                                          *)

\* One execution is in its section, under the lock of a process that is up; the
\* dead ones are those of a process whose recovery has still to move their rows
\* on; it visits directories before that.
Locked ==
  /\ \A t \in Tasks : exec[t].pc \in Section => lock = t /\ state = "up"
  /\ lock # NoTask => exec[lock].pc \in Section
  /\ \A t \in Tasks : exec[t].pc = "dead" => state \in {"down", "recovering"}
  /\ rec.cur # NoTask => state = "recovering"

\* The workspace is what the execution has copied, up to what it replaced or the
\* guard will restore.
Copied(t) ==
  /\ exec[t].pc \in {"agent", "test", "backup", "journal"} => main = exec[t].copy
  /\ exec[t].pc = "guard" => exec[t].seen = exec[t].copy
  /\ exec[t].pc = "replace" => \A f \in exec[t].todo : main[f] = exec[t].copy[f]

\* The paths a loop has still to visit are in the patch, and so in the journal.
Tracked(t) ==
  /\ exec[t].pc \in Merging \union {"journal"} => Entries(dir[t]) = Changed(t)
  /\ exec[t].pc \in {"replace", "rollback"} => exec[t].todo \subseteq Changed(t)

Traced == rec.cur # NoTask => rec.todo \subseteq Entries(dir[rec.cur])

\* Leases to release are known from the rows until the process is up or exits.
Unowned == state # "releasing" => rec.owners = {}

\* The lease is one of the execution under way, of an interrupted one whose row has
\* still to be moved on or whose lease has still to be released, of one that was
\* being cancelled, or of one whose recovery exited before the release.
Leased ==
  lease # NoTask => \/ exec[lease].pc \in Section \union {"dead"}
                    \/ lease \in cancelled \union rec.owners \union unreleased

LockInv ==
  /\ TypeOK /\ Locked /\ Unowned /\ Leased
  /\ \A t \in Tasks : Copied(t) /\ Tracked(t)
  /\ Traced

-------------------------------------------------------------------------------
(* When only the process exits.                                             *)

\* An open journal that names the backups it has.
Live(t) == dir[t].journal = "merging" /\ Intact(dir[t])

\* An open journal, live or torn, restores what was accepted.
Agrees(t) == \A f \in Entries(dir[t]) : dir[t].old[f] = accepted[f]

\* A live one is enough to undo its merge.
Undoable(t) == Agrees(t) /\ \A f \in Files \ Entries(dir[t]) : main[f] = accepted[f]

\* There is one at most, and an execution or the recovery is at it.
Undoes(t) ==
  /\ Undoable(t)
  /\ \A u \in Tasks : Live(u) => u = t
  /\ state = "up" => exec[t].pc \in Merging
  /\ state = "recovering" => t \in rec.dirs
  /\ state # "releasing"

\* Without one the workspace is what was accepted, or what the guard restores is.
NoneOpen ==
  (\A t \in Tasks : ~Live(t)) =>
    main = accepted \/ \E t \in Tasks : exec[t].pc = "guard"

Executing(t) ==
  /\ exec[t].pc = "guard" => exec[t].seen = accepted
  /\ exec[t].pc = "journal" =>
       /\ dir[t].old = [f \in Files |-> IF f \in Changed(t) THEN accepted[f] ELSE Same]
       /\ dir[t].saved = {f \in Changed(t) : accepted[f] # NoFile}
  /\ exec[t].pc \in {"new"} \union (Section \ Merging) => dir[t].journal # "merging"
  /\ exec[t].pc \in Merging => Live(t)
  /\ exec[t].pc = "rollback" => \A f \in Changed(t) \ exec[t].todo : main[f] = accepted[f]

Recovering ==
  rec.cur # NoTask =>
    /\ dir[rec.cur].journal = "merging"
    /\ \A f \in Entries(dir[rec.cur]) \ rec.todo : main[f] = accepted[f]

JournalInv ==
  /\ \A t \in Tasks : dir[t].journal = "merging" => Agrees(t)
  /\ \A t \in Tasks : Live(t) => Undoes(t)
  /\ NoneOpen
  /\ \A t \in Tasks : Executing(t)
  /\ Recovering

\* It lasts until a merge is accepted over a torn directory.
WriteInv == LockInv /\ (~outdated => JournalInv)

-------------------------------------------------------------------------------
(* What the steps do to an execution and to a directory.                    *)

USE WriteAssumption

LEMMA SectionSteps == Section \subseteq Pcs /\ Merging \subseteq Section /\ "dead" \notin Section
BY DEF Section, Pcs, Merging

\* The paths of a tree hold contents.
LEMMA Trees ==
  ASSUME NEW x \in Tree
  PROVE  /\ \A f \in Files : x[f] \in Content /\ x[f] # Same
         /\ \A f \in Files, c \in Content :
              /\ [x EXCEPT ![f] = c] \in Tree /\ [x EXCEPT ![f] = c][f] = c
              /\ \A g \in Files : g # f => [x EXCEPT ![f] = c][g] = x[g]
BY DEF Tree, Content

Others(t) == exec' \in [Tasks -> Execution] /\ \A u \in Tasks : u # t => exec'[u] = exec[u]

LEMMA OneMoves ==
  ASSUME TypeOK, NEW t \in Tasks, NEW x \in Execution, exec' = [exec EXCEPT ![t] = x]
  PROVE  Others(t) /\ exec'[t] = x
BY DEF TypeOK, Others

LEMMA PcMoves ==
  ASSUME TypeOK, NEW t \in Tasks, NEW p \in Pcs, Goto(t, p)
  PROVE  /\ Others(t) /\ exec'[t].pc = p
         /\ exec'[t].copy = exec[t].copy /\ exec'[t].seen = exec[t].seen
         /\ exec'[t].patch = exec[t].patch /\ exec'[t].todo = exec[t].todo
<1> DEFINE x == [exec[t] EXCEPT !.pc = p]
<1>1. exec[t] \in Execution
  BY DEF TypeOK
<1>2. /\ x \in Execution /\ x.pc = p /\ x.copy = exec[t].copy /\ x.seen = exec[t].seen
      /\ x.patch = exec[t].patch /\ x.todo = exec[t].todo
  BY <1>1 DEF Execution
<1>3. exec' = [exec EXCEPT ![t] = x]
  BY DEF Goto
<1> HIDE DEF x
<1> QED BY <1>2, <1>3, OneMoves

\* A loop that begins.
Turns(t, p, s) == exec' = [exec EXCEPT ![t] = [exec[t] EXCEPT !.pc = p, !.todo = s]]

LEMMA TodoMoves ==
  ASSUME TypeOK, NEW t \in Tasks, NEW p \in Pcs, NEW s \in SUBSET Files, Turns(t, p, s)
  PROVE  /\ Others(t) /\ exec'[t].pc = p /\ exec'[t].todo = s
         /\ exec'[t].copy = exec[t].copy /\ exec'[t].seen = exec[t].seen
         /\ exec'[t].patch = exec[t].patch
<1> DEFINE x == [exec[t] EXCEPT !.pc = p, !.todo = s]
<1>1. exec[t] \in Execution
  BY DEF TypeOK
<1>2. /\ x \in Execution /\ x.pc = p /\ x.copy = exec[t].copy /\ x.seen = exec[t].seen
      /\ x.patch = exec[t].patch /\ x.todo = s
  BY <1>1 DEF Execution
<1>3. exec' = [exec EXCEPT ![t] = x]
  BY DEF Turns
<1> HIDE DEF x
<1> QED BY <1>2, <1>3, OneMoves

\* A loop that has visited a path.
LEMMA TodoShrinks ==
  ASSUME TypeOK, NEW t \in Tasks, NEW f \in Files,
         exec' = [exec EXCEPT ![t] = [exec[t] EXCEPT !.todo = exec[t].todo \ {f}]]
  PROVE  /\ Others(t) /\ exec'[t].pc = exec[t].pc /\ exec'[t].todo = exec[t].todo \ {f}
         /\ exec'[t].copy = exec[t].copy /\ exec'[t].seen = exec[t].seen
         /\ exec'[t].patch = exec[t].patch
<1> DEFINE x == [exec[t] EXCEPT !.todo = exec[t].todo \ {f}]
<1>1. exec[t] \in Execution
  BY DEF TypeOK
<1>2. /\ x \in Execution /\ x.pc = exec[t].pc /\ x.copy = exec[t].copy /\ x.seen = exec[t].seen
      /\ x.patch = exec[t].patch /\ x.todo = exec[t].todo \ {f}
  BY <1>1 DEF Execution
<1>3. exec' = [exec EXCEPT ![t] = x]
  OBVIOUS
<1> HIDE DEF x
<1> QED BY <1>2, <1>3, OneMoves

LEMMA CopyMoves ==
  ASSUME TypeOK, NEW t \in Tasks, Prepare(t)
  PROVE  Others(t) /\ exec'[t].pc = "agent" /\ exec'[t].copy = main
<1> DEFINE x == [exec[t] EXCEPT !.pc = "agent", !.copy = main]
<1>1. exec[t] \in Execution /\ main \in Tree
  BY DEF TypeOK
<1>2. x \in Execution /\ x.pc = "agent" /\ x.copy = main
  BY <1>1 DEF Execution, Pcs
<1>3. exec' = [exec EXCEPT ![t] = x]
  BY DEF Prepare
<1> HIDE DEF x
<1> QED BY <1>2, <1>3, OneMoves

LEMMA AgentMoves ==
  ASSUME TypeOK, NEW t \in Tasks, CallAgent(t)
  PROVE  /\ Others(t) /\ exec'[t].pc = "guard" /\ exec'[t].seen = main
         /\ exec'[t].copy = exec[t].copy /\ main' \in Tree
<1>1. PICK patch \in [Files -> {t, NoFile, Same}], E \in SUBSET Files :
        /\ exec' = [exec EXCEPT ![t] =
                      [exec[t] EXCEPT !.pc = "guard", !.seen = main, !.patch = patch]]
        /\ main' = [f \in Files |-> IF f \in E THEN t ELSE main[f]]
  BY DEF CallAgent
<1> DEFINE x == [exec[t] EXCEPT !.pc = "guard", !.seen = main, !.patch = patch]
<1>2. exec[t] \in Execution /\ main \in Tree
  BY DEF TypeOK
<1>3. patch \in [Files -> Content \union {Same}]
  BY DEF Content
<1>4. x \in Execution /\ x.pc = "guard" /\ x.seen = main /\ x.copy = exec[t].copy
  BY <1>2, <1>3 DEF Execution, Pcs
<1>5. main' \in Tree
  BY <1>1, <1>2 DEF Tree, Content
<1>6. exec' = [exec EXCEPT ![t] = x]
  BY <1>1
<1> HIDE DEF x
<1> QED BY <1>4, <1>5, <1>6, OneMoves

LEMMA EndMoves ==
  ASSUME TypeOK, NEW t \in Tasks, Release(t)
  PROVE  Others(t) /\ exec'[t].pc = "done"
<1> DEFINE x == [Idle EXCEPT !.pc = "done"]
<1>1. x \in Execution /\ x.pc = "done"
  BY DEF Idle, Execution, Pcs, Tree, Content
<1>2. exec' = [exec EXCEPT ![t] = x]
  BY DEF Release
<1> HIDE DEF x
<1> QED BY <1>1, <1>2, OneMoves

\* The directory of one task changes.
OtherDirs(t) == dir' \in [Tasks -> Dir] /\ \A u \in Tasks : u # t => dir'[u] = dir[u]

LEMMA JournalMoves ==
  ASSUME TypeOK, NEW t \in Tasks, NEW j \in {"none", "merging", "committed"},
         dir' = [dir EXCEPT ![t] = [dir[t] EXCEPT !.journal = j]]
  PROVE  /\ OtherDirs(t) /\ dir'[t].journal = j
         /\ dir'[t].old = dir[t].old /\ dir'[t].saved = dir[t].saved
<1> DEFINE x == [dir[t] EXCEPT !.journal = j]
<1>1. dir[t] \in Dir
  BY DEF TypeOK
<1>2. x \in Dir /\ x.journal = j /\ x.old = dir[t].old /\ x.saved = dir[t].saved
  BY <1>1 DEF Dir
<1>3. dir' = [dir EXCEPT ![t] = x]
  OBVIOUS
<1> HIDE DEF x
<1> QED BY <1>2, <1>3 DEF TypeOK, OtherDirs

LEMMA BackupMoves ==
  ASSUME TypeOK, NEW t \in Tasks, Backup(t)
  PROVE  /\ OtherDirs(t) /\ dir'[t].journal = dir[t].journal
         /\ dir'[t].old = [f \in Files |-> IF f \in Changed(t) THEN main[f] ELSE Same]
         /\ dir'[t].saved = {f \in Changed(t) : main[f] # NoFile}
         /\ Entries(dir'[t]) = Changed(t)
<1> DEFINE old == [f \in Files |-> IF f \in Changed(t) THEN main[f] ELSE Same]
           saved == {f \in Changed(t) : main[f] # NoFile}
           x == [dir[t] EXCEPT !.old = old, !.saved = saved]
<1>1. dir[t] \in Dir /\ main \in Tree /\ Changed(t) \subseteq Files
  BY DEF TypeOK, Changed
<1>2. old \in [Files -> Content \union {Same}] /\ saved \in SUBSET Files
      /\ \A f \in Files : old[f] # Same <=> f \in Changed(t)
  BY <1>1, Trees
<1>3. dir' = [dir EXCEPT ![t] = x]
  BY DEF Backup
<1> HIDE DEF old, saved
<1>4. x \in Dir /\ x.journal = dir[t].journal /\ x.old = old /\ x.saved = saved
  BY <1>1, <1>2 DEF Dir
<1> HIDE DEF x
<1>5. OtherDirs(t) /\ dir'[t] = x
  BY <1>3, <1>4 DEF TypeOK, OtherDirs
<1>6. Entries(dir'[t]) = Changed(t)
  BY <1>1, <1>2, <1>4, <1>5 DEF Entries
<1> QED BY <1>4, <1>5, <1>6 DEF old, saved

\* Removing a directory leaves it without a journal, or with fewer backups.
LEMMA RemovalMoves ==
  ASSUME TypeOK, NEW t \in Tasks, NEW left \in Remains(dir[t]),
         dir' = [dir EXCEPT ![t] = left]
  PROVE  OtherDirs(t) /\ dir'[t].journal \in {"none", dir[t].journal}
<1>1. dir[t] \in Dir
  BY DEF TypeOK
<1>2. EmptyDir \in Dir /\ EmptyDir.journal = "none"
  BY DEF EmptyDir, Dir
<1>3. ASSUME NEW s \in SUBSET dir[t].saved
      PROVE  /\ [dir[t] EXCEPT !.saved = s] \in Dir
             /\ [dir[t] EXCEPT !.saved = s].journal = dir[t].journal
  BY <1>1 DEF Dir
<1>4. left \in Dir /\ left.journal \in {"none", dir[t].journal}
  BY <1>2, <1>3 DEF Remains
<1> QED BY <1>4 DEF TypeOK, OtherDirs

\* Removing a backup.
LEMMA UnlinkMoves ==
  ASSUME TypeOK, NEW t \in Tasks, NEW f,
         dir' = [dir EXCEPT ![t].saved = dir[t].saved \ {f}]
  PROVE  /\ OtherDirs(t) /\ dir'[t].journal = dir[t].journal
         /\ dir'[t].old = dir[t].old
<1> DEFINE x == [dir[t] EXCEPT !.saved = dir[t].saved \ {f}]
<1>1. dir[t] \in Dir
  BY DEF TypeOK
<1>2. x \in Dir /\ x.journal = dir[t].journal /\ x.old = dir[t].old
  BY <1>1 DEF Dir
<1>3. dir' = [dir EXCEPT ![t] = x]
  BY DEF TypeOK
<1> HIDE DEF x
<1> QED BY <1>2, <1>3 DEF TypeOK, OtherDirs

-------------------------------------------------------------------------------
(* LockInv.                                                                 *)

\* A step of the execution that holds the lock, or takes it.
LEMMA HolderMoves ==
  ASSUME LockInv, NEW t \in Tasks, state = "up", exec[t].pc \in Section \/ lock = NoTask,
         Others(t), dir' \in [Tasks -> Dir], main' \in Tree, accepted' \in Tree,
         UNCHANGED <<state, rec, crashes, unreleased>>, outdated' \in BOOLEAN,
         cancelled \subseteq cancelled',
         cancelled' \subseteq Tasks,
         \/ exec'[t].pc \in Section /\ lock' = t /\ lease' \in {lease, t}
         \/ /\ exec'[t].pc = "done" /\ lock' = NoTask
            /\ lease' = IF lease = t THEN NoTask ELSE lease,
         Copied(t)', Tracked(t)'
  PROVE  LockInv'
<1>1. /\ exec \in [Tasks -> Execution] /\ exec' \in [Tasks -> Execution]
      /\ \A u \in Tasks : u # t => exec'[u] = exec[u] /\ exec[u].pc \notin Section
  BY DEF LockInv, TypeOK, Locked, Others
<1>2. "done" \notin Section /\ "dead" \notin Section
  BY DEF Section
<1>3. TypeOK'
  BY <1>1 DEF LockInv, TypeOK
<1>4. Locked'
  BY <1>1, <1>2 DEF LockInv, Locked
<1>b. Unowned'
  BY DEF LockInv, Unowned
<1>5. Leased'
  BY <1>1 DEF LockInv, Leased, TypeOK
<1>6. rec'.cur = NoTask
  BY DEF LockInv, Locked
<1>7. \A u \in Tasks : u # t => exec'[u].pc \notin Section
  BY <1>1
<1>8. \A u \in Tasks : u # t => Copied(u)' /\ Tracked(u)'
  BY <1>7 DEF Copied, Tracked, Merging, Section
<1> QED BY <1>3, <1>4, <1>5, <1>b, <1>6, <1>8 DEF LockInv, Traced

LEMMA SectionKeepsLock == ASSUME LockInv, NEW t \in Tasks, Step(t) PROVE LockInv'
<1>1. /\ exec \in [Tasks -> Execution] /\ dir \in [Tasks -> Dir] /\ main \in Tree
      /\ accepted \in Tree /\ cancelled \subseteq Tasks /\ TypeOK
      /\ exec[t].seen \in Tree /\ exec[t].copy \in Tree
      /\ Copied(t) /\ Tracked(t) /\ (exec[t].pc \in Section => lock = t)
  BY DEF LockInv, TypeOK, Locked, Execution
<1> USE DEF At, process
<1>a. outdated' \in BOOLEAN
  <2>1. outdated \in BOOLEAN
    BY DEF LockInv, TypeOK
  <2>2. CASE Commit(t)
    BY <2>2 DEF Commit
  <2>3. CASE UNCHANGED outdated
    BY <2>1, <2>3
  <2> QED BY <2>2, <2>3 DEF Step, Enter, Acquire, Prepare, CallAgent, Guard, Pass, Abort, Backup,
          WriteJournal, Replace, Regression, Rollback, Cleanup, Release, RequestCancel, history
<1> USE <1>a DEF history
<1>2. ASSUME NEW p \in Section, Goto(t, p), state = "up", exec[t].pc \in Section \/ lock = NoTask,
             dir' \in [Tasks -> Dir], main' \in Tree, accepted' \in Tree,
             UNCHANGED process, lock' = t, lease' \in {lease, t},
             \/ p \in {"lease", "prepare", "exit", "release"}
             \/ p \in {"agent", "test", "backup"} /\ main' = exec[t].copy
             \/ p \in {"regress", "commit"} /\ exec[t].pc \in Merging /\ UNCHANGED dir
      PROVE  LockInv'
  <2>1. Others(t) /\ exec'[t].pc = p /\ exec'[t].copy = exec[t].copy
        /\ exec'[t].patch = exec[t].patch
    BY <1>1, <1>2, PcMoves, SectionSteps
  <2>2. Copied(t)'
    BY <1>2, <2>1 DEF Copied
  <2>3. Tracked(t)'
    BY <1>1, <1>2, <2>1 DEF Tracked, Changed, Merging
  <2> QED BY <1>1, <1>2, <2>1, <2>2, <2>3, HolderMoves
<1>3. CASE Enter(t) \/ Acquire(t)
  BY <1>1, <1>2, <1>3 DEF Enter, Acquire, Section
<1>4. CASE Abort(t) \/ Pass(t)
  BY <1>1, <1>2, <1>4 DEF Abort, Pass, Section, Copied
<1>5. CASE Prepare(t)
  <2>1. Others(t) /\ exec'[t].pc = "agent" /\ exec'[t].copy = main
    BY <1>1, <1>5, CopyMoves
  <2>2. Copied(t)' /\ Tracked(t)'
    BY <1>5, <2>1 DEF Prepare, Copied, Tracked, Merging
  <2> QED BY <1>1, <1>5, <2>1, <2>2, HolderMoves DEF Prepare, Section
<1>6. CASE CallAgent(t)
  <2>1. /\ Others(t) /\ exec'[t].pc = "guard" /\ exec'[t].seen = main
        /\ exec'[t].copy = exec[t].copy /\ main' \in Tree
    BY <1>1, <1>6, AgentMoves
  <2>2. Copied(t)' /\ Tracked(t)'
    BY <1>1, <1>6, <2>1 DEF CallAgent, Copied, Tracked, Merging
  <2> QED BY <1>1, <1>6, <2>1, <2>2, HolderMoves DEF CallAgent, Section
<1>7. CASE Guard(t)
  BY <1>1, <1>2, <1>7 DEF Guard, Section, Copied
<1>8. CASE Backup(t)
  <2>1. /\ Others(t) /\ exec'[t].pc = "journal" /\ exec'[t].copy = exec[t].copy
        /\ exec'[t].patch = exec[t].patch
    BY <1>1, <1>8, PcMoves DEF Backup, Pcs
  <2>2. OtherDirs(t) /\ Entries(dir'[t]) = Changed(t)
    BY <1>1, <1>8, BackupMoves
  <2>3. Copied(t)' /\ Tracked(t)'
    BY <1>1, <1>8, <2>1, <2>2 DEF Backup, Copied, Tracked, Changed
  <2> QED BY <1>1, <1>8, <2>1, <2>2, <2>3, HolderMoves DEF Backup, Section, OtherDirs
<1>9. CASE WriteJournal(t)
  <2>1. Changed(t) \in SUBSET Files
    BY DEF Changed
  <2>2. /\ Others(t) /\ exec'[t].pc = "replace" /\ exec'[t].copy = exec[t].copy
        /\ exec'[t].patch = exec[t].patch /\ exec'[t].todo = Changed(t)
    <3>1. PICK s \in SUBSET Files : s = Changed(t)
      BY <2>1
    <3>2. Turns(t, "replace", s)
      BY <1>9, <3>1 DEF WriteJournal, Turns
    <3>3. "replace" \in Pcs
      BY DEF Pcs
    <3> QED BY <1>1, <3>1, <3>2, <3>3, TodoMoves
  <2>3. OtherDirs(t) /\ dir'[t].old = dir[t].old
    BY <1>1, <1>9, JournalMoves DEF WriteJournal
  <2>4. Copied(t)'
    BY <1>1, <1>9, <2>1, <2>2 DEF WriteJournal, Copied
  <2>5. Tracked(t)'
    BY <1>1, <1>9, <2>2, <2>3 DEF WriteJournal, Tracked, Changed, Entries
  <2> QED BY <1>1, <1>9, <2>2, <2>3, <2>4, <2>5, HolderMoves
          DEF WriteJournal, Section, OtherDirs
<1>10. CASE Replace(t)
  <2>1. CASE Goto(t, "regress") /\ UNCHANGED main
    BY <1>1, <1>2, <1>10, <2>1 DEF Replace, Section, Merging
  <2>2. ASSUME NEW f \in exec[t].todo, main' = [main EXCEPT ![f] = exec[t].patch[f]],
               exec' = [exec EXCEPT ![t] = [exec[t] EXCEPT !.todo = exec[t].todo \ {f}]]
        PROVE  LockInv'
    <3>1. f \in Files /\ exec[t].pc = "replace" /\ exec[t].todo \subseteq Changed(t)
          /\ exec[t].patch[f] \in Content
      BY <1>1, <1>10, <2>2 DEF Replace, Tracked, Changed, TypeOK, Execution
    <3>2. main' \in Tree /\ \A g \in Files : g # f => main'[g] = main[g]
      BY <1>1, <2>2, <3>1 DEF Tree
    <3>3. /\ Others(t) /\ exec'[t].pc = "replace" /\ exec'[t].todo = exec[t].todo \ {f}
          /\ exec'[t].copy = exec[t].copy /\ exec'[t].patch = exec[t].patch
      BY <1>1, <2>2, <3>1, TodoShrinks
    <3>4. Copied(t)'
      BY <1>1, <3>1, <3>2, <3>3 DEF Copied, Changed
    <3>5. Tracked(t)'
      BY <1>1, <1>10, <3>1, <3>3 DEF Replace, Tracked, Changed, Merging
    <3> QED BY <1>1, <1>10, <3>1, <3>2, <3>3, <3>4, <3>5, HolderMoves DEF Replace, Section
  <2>3. (\E f \in exec[t].todo :
           /\ main' = [main EXCEPT ![f] = exec[t].patch[f]]
           /\ exec' = [exec EXCEPT ![t] = [exec[t] EXCEPT !.todo = exec[t].todo \ {f}]])
        \/ (Goto(t, "regress") /\ UNCHANGED main)
    BY <1>10 DEF Replace
  <2> QED BY <2>1, <2>2, <2>3
<1>11. CASE Regression(t)
  <2>1. CASE Goto(t, "commit")
    BY <1>1, <1>2, <1>11, <2>1 DEF Regression, Section, Merging
  <2>2. CASE exec' = [exec EXCEPT ![t] = [exec[t] EXCEPT !.pc = "rollback", !.todo = Changed(t)]]
    <3>1. Changed(t) \in SUBSET Files
      BY DEF Changed
    <3>2. /\ Others(t) /\ exec'[t].pc = "rollback" /\ exec'[t].patch = exec[t].patch
          /\ exec'[t].todo = Changed(t)
      <4>1. PICK s \in SUBSET Files : s = Changed(t)
        BY <3>1
      <4>2. Turns(t, "rollback", s)
        BY <2>2, <4>1 DEF Turns
      <4>3. "rollback" \in Pcs
        BY DEF Pcs
      <4> QED BY <1>1, <4>1, <4>2, <4>3, TodoMoves
    <3>3. Copied(t)' /\ Tracked(t)'
      BY <1>1, <1>11, <3>2 DEF Regression, Copied, Tracked, Changed, Merging
    <3> QED BY <1>1, <1>11, <3>2, <3>3, HolderMoves DEF Regression, Section
  <2> QED BY <1>11, <2>1, <2>2 DEF Regression
<1>12. CASE Rollback(t)
  <2>1. ASSUME NEW f \in exec[t].todo, main' = [main EXCEPT ![f] = dir[t].old[f]], UNCHANGED dir,
               exec' = [exec EXCEPT ![t] = [exec[t] EXCEPT !.todo = exec[t].todo \ {f}]]
        PROVE  LockInv'
    <3>1. exec[t].pc = "rollback" /\ exec[t].todo \subseteq Entries(dir[t])
      BY <1>1, <1>12 DEF Rollback, Tracked, Merging
    <3>2. f \in Files /\ dir[t].old[f] \in Content
      BY <1>1, <2>1, <3>1 DEF Entries, Dir
    <3>3. main' \in Tree
      BY <1>1, <2>1, <3>2, Trees
    <3>4. /\ Others(t) /\ exec'[t].pc = "rollback" /\ exec'[t].todo = exec[t].todo \ {f}
          /\ exec'[t].patch = exec[t].patch
      BY <1>1, <2>1, <3>1, <3>2, TodoShrinks
    <3>5. Copied(t)' /\ Tracked(t)'
      BY <1>1, <2>1, <3>1, <3>4 DEF Copied, Tracked, Changed, Merging
    <3> QED BY <1>1, <1>12, <3>1, <3>3, <3>4, <3>5, HolderMoves DEF Rollback, Section
  <2>2. CASE dir' = [dir EXCEPT ![t] = [dir[t] EXCEPT !.journal = "none"]]
             /\ Goto(t, "exit") /\ UNCHANGED main
    <3>1. OtherDirs(t)
      BY <1>1, <2>2, JournalMoves
    <3> QED BY <1>1, <1>2, <1>12, <2>2, <3>1 DEF Rollback, Section, OtherDirs
  <2>3. (\E f \in exec[t].todo :
           /\ main' = [main EXCEPT ![f] = dir[t].old[f]] /\ UNCHANGED dir
           /\ exec' = [exec EXCEPT ![t] = [exec[t] EXCEPT !.todo = exec[t].todo \ {f}]])
        \/ /\ dir' = [dir EXCEPT ![t] = [dir[t] EXCEPT !.journal = "none"]]
           /\ Goto(t, "exit") /\ UNCHANGED main
    BY <1>12 DEF Rollback
  <2> QED BY <2>1, <2>2, <2>3
<1>13. CASE Commit(t)
  <2>1. OtherDirs(t)
    BY <1>1, <1>13, JournalMoves DEF Commit
  <2> QED BY <1>1, <1>2, <1>13, <2>1 DEF Commit, Section, OtherDirs
<1>14. CASE Cleanup(t)
  <2>1. OtherDirs(t)
    BY <1>1, <1>14, RemovalMoves DEF Cleanup
  <2> QED BY <1>1, <1>2, <1>14, <2>1 DEF Cleanup, Section, OtherDirs
<1>15. CASE Release(t)
  <2>1. Others(t) /\ exec'[t].pc = "done"
    BY <1>1, <1>15, EndMoves
  <2>2. Copied(t)' /\ Tracked(t)'
    BY <2>1 DEF Copied, Tracked, Merging
  <2> QED BY <1>1, <1>15, <2>1, <2>2, HolderMoves DEF Release, Section
<1>16. CASE RequestCancel(t)
  <2>1. Others(t) /\ exec'[t] = exec[t] /\ lock' = t /\ lease' = lease /\ UNCHANGED <<main, dir>>
    BY <1>1, <1>16 DEF RequestCancel, Others
  <2>2. Copied(t)' /\ Tracked(t)'
    BY <1>1, <2>1 DEF Copied, Tracked, Changed
  <2> QED BY <1>1, <1>16, <2>1, <2>2, HolderMoves DEF RequestCancel
<1> QED BY <1>3, <1>4, <1>5, <1>6, <1>7, <1>8, <1>9, <1>10, <1>11, <1>12, <1>13, <1>14, <1>15,
           <1>16 DEF Step

\* The process: nobody is in the section while it is down or recovers.
LEMMA ProcessKeepsLock == LockInv /\ (Crash \/ Recovery) => LockInv'
<1> SUFFICES ASSUME LockInv, Crash \/ Recovery PROVE LockInv'
  OBVIOUS
<1>1. /\ exec \in [Tasks -> Execution] /\ dir \in [Tasks -> Dir] /\ main \in Tree /\ TypeOK
      /\ Traced /\ Leased
      /\ rec \in Memory
      /\ \A t \in Tasks : exec[t].pc \in Section => lock = t /\ state = "up"
      /\ (lock # NoTask => exec[lock].pc \in Section)
      /\ \A t \in Tasks : exec[t].pc = "dead" => state \in {"down", "recovering"}
      /\ outdated \in BOOLEAN /\ unreleased \subseteq Tasks
  BY DEF LockInv, TypeOK, Locked
\* Nobody is in the section after the step.
<1>2. ASSUME exec' \in [Tasks -> Execution], \A t \in Tasks : exec'[t].pc \notin Section,
             lock' = NoTask, TypeOK', Unowned', Leased', Traced',
             \A t \in Tasks : exec'[t].pc = "dead" => state' \in {"down", "recovering"},
             rec'.cur # NoTask => state' = "recovering"
      PROVE  LockInv'
  <2>1. \A t \in Tasks : Copied(t)' /\ Tracked(t)'
    BY <1>2 DEF Copied, Tracked, Section, Merging
  <2> QED BY <1>2, <2>1 DEF LockInv, Locked
<1>3. CASE Crash
  <2> DEFINE dead == [Idle EXCEPT !.pc = "dead"]
  <2>1. dead \in Execution /\ dead.pc = "dead"
    BY DEF Idle, Execution, Pcs, Tree, Content
  <2>2. exec' = [t \in Tasks |-> IF exec[t].pc \in Section THEN dead ELSE exec[t]]
    BY <1>3 DEF Crash
  <2> HIDE DEF dead
  <2>3. /\ exec' \in [Tasks -> Execution]
        /\ \A t \in Tasks : /\ exec'[t].pc \notin Section
                            /\ exec'[t].pc = IF exec[t].pc \in Section THEN "dead" ELSE exec[t].pc
    BY <1>1, <2>1, <2>2, SectionSteps
  <2>4. /\ rec' = NoRecovery /\ lock' = NoTask /\ state' = "down" /\ crashes' \in Nat
        /\ UNCHANGED <<main, dir, lease, cancelled, history>>
        /\ unreleased' = unreleased \union rec.owners
    BY <1>1, <1>3 DEF Crash, TypeOK
  <2>5. TypeOK'
    BY <1>1, <2>3, <2>4 DEF TypeOK, NoRecovery, Memory, States, history
  <2>6. Leased' /\ Traced' /\ Unowned'
    BY <1>1, <2>3, <2>4 DEF Leased, Traced, NoRecovery, TypeOK, Memory, Unowned
  <2> QED BY <1>2, <2>3, <2>4, <2>5, <2>6 DEF NoRecovery
<1>4. CASE Recovery
  <2>1. \A t \in Tasks : exec[t].pc \notin Section
    BY <1>1, <1>4 DEF Recovery, Boot, RecoverRows, Start, Close, Discard, Open, Restore, Unlink,
                      Restored
  <2>2. lock = NoTask
    BY <1>1, <2>1 DEF TypeOK
  \* A step of recover_abandoned_merges.
  <2>3. ASSUME UNCHANGED <<exec, lock, lease, cancelled, crashes, unreleased, history>>,
               state' = "recovering", main' \in Tree, dir' \in [Tasks -> Dir],
               rec' \in Memory, rec'.owners = {},
               state = "recovering" \/ state = "down",
               rec'.cur # NoTask => rec'.todo \subseteq Entries(dir'[rec'.cur])
        PROVE  LockInv'
    <3>1. TypeOK'
      BY <1>1, <2>3 DEF TypeOK, States, history
    <3>2. Leased' /\ Traced' /\ Unowned'
      BY <1>1, <2>3 DEF Leased, Traced, LockInv, Unowned
    <3> QED BY <1>1, <1>2, <2>1, <2>2, <2>3, <3>1, <3>2
  <2>4. CASE Boot
    <3>1. rec' = [NoRecovery EXCEPT !.dirs = {t \in Tasks : dir[t].journal # "none"}]
      BY <2>4 DEF Boot
    <3>2. /\ rec' \in Memory
          /\ rec'.cur = NoTask /\ rec'.owners = {}
      BY <3>1 DEF NoRecovery, Memory
    <3> QED BY <1>1, <2>3, <2>4, <3>2 DEF Boot
  <2>5. ASSUME NEW t \in Tasks, Discard(t) PROVE LockInv'
    <3>1. dir' \in [Tasks -> Dir]
      BY <1>1, <2>5, RemovalMoves DEF Discard, OtherDirs
    <3>2. /\ rec' \in Memory
          /\ rec'.cur = NoTask /\ rec'.owners = {}
      BY <1>1, <2>5 DEF Discard, Memory, LockInv, Unowned
    <3> QED BY <1>1, <2>3, <2>5, <3>1, <3>2 DEF Discard, recovering
  <2>6. ASSUME NEW t \in Tasks, Open(t) PROVE LockInv'
    <3>1. /\ rec' \in Memory
          /\ rec'.cur = t /\ rec'.todo = Entries(dir[t]) /\ rec'.owners = {}
      BY <1>1, <2>6 DEF Open, Entries, Memory, LockInv, Unowned
    <3> QED BY <1>1, <2>3, <2>6, <3>1 DEF Open, recovering
  <2>7. ASSUME NEW f \in Files, Restore(f) PROVE LockInv'
    <3>1. /\ rec.cur \in Tasks /\ dir[rec.cur].old[f] \in Content
      BY <1>1, <2>7 DEF Restore, Traced, Entries, Dir, Memory
    <3>2. main' \in Tree
      BY <1>1, <2>7, <3>1, Trees DEF Restore
    <3>3. /\ rec' \in Memory
          /\ rec'.cur \in {NoTask, rec.cur} /\ rec'.todo \subseteq rec.todo
          /\ rec'.owners = {}
      BY <1>1, <2>7 DEF Restore, Memory, LockInv, Unowned
    <3> QED BY <1>1, <2>3, <2>7, <3>2, <3>3 DEF Restore, recovering, Traced
  <2>8. CASE Close
    <3>1. rec.cur \in Tasks
      BY <1>1, <2>8 DEF Close, Restored, Memory
    <3>2. EmptyDir \in Dir
      BY DEF Dir, EmptyDir
    <3>3. dir' \in [Tasks -> Dir]
      BY <1>1, <2>8, <3>1, <3>2 DEF Close
    <3>4. /\ rec' \in Memory
          /\ rec'.cur = NoTask /\ rec'.owners = {}
      BY <1>1, <2>8 DEF Close, Restored, Memory, LockInv, Unowned
    <3> QED BY <1>1, <2>3, <2>8, <3>3, <3>4 DEF Close, Restored, recovering
  <2>9. ASSUME NEW f \in Files, Unlink(f) PROVE LockInv'
    <3>1. rec.cur \in Tasks /\ rec.todo = {}
      BY <1>1, <2>9 DEF Unlink, Restored, Memory
    <3>2. OtherDirs(rec.cur)
      BY <1>1, <2>9, <3>1, UnlinkMoves DEF Unlink
    <3> QED BY <1>1, <2>3, <2>9, <3>1, <3>2
            DEF Unlink, Restored, recovering, OtherDirs, LockInv, Unowned
  <2> DEFINE done == [Idle EXCEPT !.pc = "done"]
  <2>10. CASE RecoverRows
    <3>1. done \in Execution /\ done.pc = "done" /\ "done" \notin Section
      BY DEF Idle, Execution, Pcs, Tree, Content, Section
    <3>2. exec' = [t \in Tasks |-> IF t \in Interrupted THEN done ELSE exec[t]]
      BY <2>10 DEF RecoverRows
    <3> HIDE DEF done
    <3>3. /\ exec' \in [Tasks -> Execution]
          /\ \A t \in Tasks : exec'[t].pc \notin Section /\ exec'[t].pc # "dead"
      BY <1>1, <2>1, <3>1, <3>2 DEF Interrupted
    <3>4. /\ state' = "releasing" /\ rec.cur = NoTask
          /\ UNCHANGED <<main, dir, lock, lease, cancelled, crashes, unreleased, history>>
          /\ rec' = [rec EXCEPT !.owners = Interrupted \ cancelled]
      BY <2>10 DEF RecoverRows
    <3>5. /\ rec' \in Memory /\ rec'.cur = NoTask
          /\ rec'.owners = Interrupted \ cancelled
      BY <1>1, <3>4 DEF Memory, Interrupted
    <3>6. TypeOK'
      BY <1>1, <3>3, <3>4, <3>5 DEF TypeOK, States, history
    <3>7. rec.owners = {}
      BY <2>10 DEF RecoverRows, LockInv, Unowned
    <3>8. Leased' /\ Traced' /\ Unowned'
      BY <1>1, <2>1, <3>4, <3>5, <3>7 DEF Leased, Traced, TypeOK, Interrupted, Unowned
    <3> QED BY <1>2, <2>2, <3>3, <3>4, <3>5, <3>6, <3>8
  <2>11. CASE Start
    <3>1. /\ state = "releasing" /\ state' = "up" /\ rec' = NoRecovery
          /\ UNCHANGED <<main, dir, exec, lock, cancelled, crashes, unreleased, history>>
          /\ lease' = IF lease \in rec.owners THEN NoTask ELSE lease
      BY <2>11 DEF Start, started
    <3>2. NoRecovery \in Memory /\ NoRecovery.cur = NoTask /\ NoRecovery.owners = {}
      BY DEF NoRecovery, Memory
    <3>3. TypeOK'
      BY <1>1, <3>1, <3>2 DEF TypeOK, States, history
    <3>4. Leased' /\ Traced' /\ Unowned'
      BY <1>1, <2>1, <3>1, <3>2 DEF Leased, Traced, TypeOK, Unowned
    <3>5. \A t \in Tasks : exec[t].pc # "dead"
      BY <1>1, <3>1
    <3> QED BY <1>1, <1>2, <2>1, <2>2, <3>1, <3>2, <3>3, <3>4, <3>5
  <2> QED BY <1>4, <2>4, <2>5, <2>6, <2>7, <2>8, <2>9, <2>10, <2>11 DEF Recovery
<1> QED BY <1>3, <1>4

LEMMA InitLock == Init => LockInv
<1> SUFFICES ASSUME Init PROVE LockInv
  OBVIOUS
<1>1. Idle \in Execution /\ Idle.pc = "new" /\ EmptyDir \in Dir
  BY DEF Idle, Execution, Pcs, Tree, Content, EmptyDir, Dir
<1>2. /\ exec \in [Tasks -> Execution] /\ dir \in [Tasks -> Dir]
      /\ \A t \in Tasks : exec[t].pc = "new"
  BY <1>1 DEF Init
<1>3. main \in Tree /\ accepted \in Tree /\ rec.cur = NoTask
      /\ rec \in Memory /\ rec.owners = {}
  BY DEF Init, Tree, Content, NoRecovery, Memory
<1>4. TypeOK
  BY <1>2, <1>3 DEF Init, TypeOK, States
<1> QED BY <1>2, <1>3, <1>4
        DEF Init, LockInv, Locked, Unowned, Leased, Copied, Tracked, Traced, Section, Merging

LEMMA StepLock == LockInv /\ [Next]_vars => LockInv'
<1>1. LockInv /\ UNCHANGED vars => LockInv'
  BY DEF vars, LockInv, TypeOK, Locked, Unowned, Leased, Copied, Tracked, Traced, Changed,
         history
<1> QED BY <1>1, SectionKeepsLock, ProcessKeepsLock DEF Next

\* The invariant of the write lock and the lease, whatever fails.
THEOREM LockInvariant == Spec => []LockInv
BY InitLock, StepLock, PTL DEF Spec

\* Execution directories, locks and journals stay in their types, so that no loop
\* of merge, rollback or recovery visits a path its patch or journal lacks.
THEOREM WriteTypes == Spec => []TypeOK
BY LockInvariant, PTL DEF LockInv

\* isolated_workspace.py: merge replaces a path only while it is as prepare copied it,
\* whatever fails and however many tasks write, since the copy is made, used and merged
\* under WORKSPACE_WRITE_LOCK and SourceTreeGuard undoes what agents do outside of it.
THEOREM NoUpdateIsLost == Spec => []MergesOverItsCopy
<1>1. LockInv => MergesOverItsCopy
  BY DEF LockInv, Copied, MergesOverItsCopy, Merging
<1> QED BY <1>1, LockInvariant, PTL

\* workspace_lease.py: a process that is up finds no lease of an execution that is
\* gone, but of one that was being cancelled, or whose recovery exited between the
\* rows and the leases, whatever fails.
THEOREM LeasesAreHeld == Spec => []LeaseIsHeld
<1>1. LockInv => LeaseIsHeld
  BY DEF LockInv, Locked, Unowned, Leased, LeaseIsHeld, LeaseIsCleared, TypeOK
<1> QED BY <1>1, LockInvariant, PTL

-------------------------------------------------------------------------------
(* JournalInv.                                                              *)

\* What JournalInv says of the execution that holds the lock.
Holds(t) ==
  /\ dir[t].journal = "merging" => Agrees(t)
  /\ Live(t) => Undoable(t) /\ exec[t].pc \in Merging
  /\ ~Live(t) => main = accepted \/ exec[t].pc = "guard"
  /\ Executing(t)

LEMMA HolderHolds ==
  ASSUME LockInv, JournalInv, NEW t \in Tasks, state = "up",
         exec[t].pc \in Section \/ lock = NoTask
  PROVE  /\ Holds(t)
         /\ \A u \in Tasks : u # t => exec[u].pc \notin Section /\ ~Live(u)
<1>1. \A u \in Tasks : u # t => exec[u].pc \notin Section
  BY DEF LockInv, Locked
<1>2. \A u \in Tasks : Live(u) => /\ Undoable(u) /\ exec[u].pc \in Section
                                  /\ exec[u].pc \in Merging
  BY SectionSteps DEF JournalInv, Undoes
<1>3. "guard" \in Section
  BY DEF Section
<1>4. \A u \in Tasks : u # t => ~Live(u) /\ exec[u].pc # "guard"
  BY <1>1, <1>2, <1>3
<1>5. ~Live(t) => main = accepted \/ exec[t].pc = "guard"
  BY <1>4 DEF JournalInv, NoneOpen
<1> QED BY <1>1, <1>2, <1>4, <1>5 DEF JournalInv, Holds

LEMMA HolderJournals ==
  ASSUME LockInv, JournalInv, NEW t \in Tasks, state = "up",
         exec[t].pc \in Section \/ lock = NoTask,
         Others(t), \A u \in Tasks : u # t => dir'[u] = dir[u],
         \A u \in Tasks : u # t /\ dir[u].journal = "merging" => Agrees(u)',
         UNCHANGED <<state, rec>>, Holds(t)'
  PROVE  JournalInv'
<1>1. \A u \in Tasks : u # t => exec'[u].pc \notin Section /\ ~Live(u)'
  BY HolderHolds DEF Others, Live
<1>2. \A u \in Tasks : u # t => Executing(u)'
  <2>1. \A u \in Tasks : exec[u].pc = "new" => dir[u].journal # "merging"
    BY DEF JournalInv, Executing
  <2> QED BY <1>1, <2>1 DEF Executing, Section, Merging, Others
<1>3. Executing(t)' /\ NoneOpen'
  BY DEF Holds, NoneOpen
<1>4. \A u \in Tasks : Live(u)' => Undoes(u)'
  BY <1>1 DEF Holds, Undoes
<1>5. rec'.cur = NoTask
  BY DEF LockInv, Locked
<1>6. \A u \in Tasks : dir'[u].journal = "merging" => Agrees(u)'
  BY DEF Holds
<1> QED BY <1>2, <1>3, <1>4, <1>5, <1>6 DEF JournalInv, Recovering

LEMMA SectionJournals ==
  ASSUME Faults = {}, LockInv, JournalInv, NEW t \in Tasks, Step(t), ~outdated'
  PROVE  JournalInv'
<1> USE DEF At, process, history
<1>1. state = "up" /\ (exec[t].pc \in Section \/ lock = NoTask) /\ UNCHANGED <<state, rec>>
      /\ (exec[t].pc \in Section \/ Enter(t))
  BY DEF Step, Enter, Acquire, Prepare, CallAgent, Guard, Pass, Abort, Backup, WriteJournal,
         Replace, Regression, Rollback, Commit, Cleanup, Release, RequestCancel, Section
<1>2. /\ TypeOK /\ Copied(t) /\ Tracked(t) /\ Holds(t) /\ Executing(t)
      /\ main \in Tree /\ accepted \in Tree /\ exec[t] \in Execution /\ dir[t] \in Dir
  BY <1>1, HolderHolds DEF LockInv, TypeOK, Holds
<1>b. exec[t].pc \in {"new"} \union Section
  BY <1>1 DEF Enter
\* Without a journal the workspace is what was accepted.
<1>3. exec[t].pc \notin Merging /\ exec[t].pc # "guard" =>
        main = accepted /\ dir[t].journal # "merging"
  BY <1>2, <1>b DEF Holds, Executing
<1>4. exec[t].pc \in Merging => Live(t) /\ Undoable(t) /\ Entries(dir[t]) = Changed(t)
  BY <1>2 DEF Holds, Executing, Tracked
\* The other open journals are torn, and agree with what is accepted next.
<1>c. ASSUME \A u \in Tasks : u # t => dir'[u] = dir[u]
      PROVE  \A u \in Tasks : u # t /\ dir[u].journal = "merging" => Agrees(u)'
  <2>1. CASE Commit(t)
    <3>1. \A u \in Tasks : u # t => ~Live(u)
      BY <1>1, HolderHolds
    <3>2. accepted' = main
      BY <2>1 DEF Commit
    <3>3. \A u \in Tasks : Torn(u) => \A f \in Entries(dir[u]) : dir[u].old[f] = main[f]
      BY <2>1 DEF Commit
    <3> QED BY <1>c, <3>1, <3>2, <3>3 DEF Live, Torn, Agrees
  <2>2. CASE UNCHANGED accepted
    BY <1>c, <2>2 DEF JournalInv, Agrees
  <2> QED BY <2>1, <2>2 DEF Step, Enter, Acquire, Prepare, CallAgent, Guard, Pass, Abort, Backup,
          WriteJournal, Replace, Regression, Rollback, Cleanup, Release, RequestCancel
<1>h. ASSUME Others(t), OtherDirs(t) \/ UNCHANGED dir, Holds(t)'
      PROVE  JournalInv'
  BY <1>1, <1>c, <1>h, HolderJournals DEF OtherDirs
\* Steps that leave the execution without a journal.
<1>5. ASSUME Others(t), OtherDirs(t) \/ UNCHANGED dir, main' = accepted',
             dir'[t].journal # "merging",
             exec'[t].pc \notin Merging, exec'[t].pc \notin {"guard", "journal"}
      PROVE  JournalInv'
  <2>1. Holds(t)'
    BY <1>5 DEF Holds, Executing, Merging, Live
  <2> QED BY <1>5, <1>h, <2>1
<1>6. CASE Enter(t) \/ Acquire(t) \/ Pass(t)
  <2>1. \E p \in {"lease", "prepare", "release", "backup"} : Goto(t, p)
    BY <1>6 DEF Enter, Acquire, Pass
  <2>2. Others(t) /\ exec'[t].pc \in {"lease", "prepare", "release", "backup"}
    BY <1>2, <2>1, PcMoves DEF Pcs
  <2>3. exec[t].pc \notin Merging /\ exec[t].pc # "guard" /\ UNCHANGED <<main, dir, accepted>>
    BY <1>6 DEF Enter, Acquire, Pass, Merging
  <2> QED BY <1>3, <1>5, <2>2, <2>3 DEF Merging
<1>7. CASE Abort(t)
  <2>1. Others(t) /\ exec'[t].pc = "exit"
    BY <1>2, <1>7, PcMoves DEF Abort, Pcs
  <2>2. exec[t].pc \notin Merging /\ exec[t].pc # "guard" /\ UNCHANGED <<main, dir, accepted>>
    BY <1>7 DEF Abort, Merging
  <2> QED BY <1>3, <1>5, <2>1, <2>2 DEF Merging
<1>8. CASE Prepare(t)
  <2>1. Others(t) /\ exec'[t].pc = "agent"
    BY <1>2, <1>8, CopyMoves
  <2> QED BY <1>3, <1>5, <1>8, <2>1 DEF Prepare, Merging
<1>9. CASE CallAgent(t)
  <2>1. Others(t) /\ exec'[t].pc = "guard" /\ exec'[t].seen = main
    BY <1>2, <1>9, AgentMoves
  <2>2. main = accepted /\ dir[t].journal # "merging" /\ UNCHANGED <<dir, accepted>>
    BY <1>3, <1>9 DEF CallAgent, Merging
  <2>3. Holds(t)'
    BY <2>1, <2>2 DEF Holds, Executing, Merging, Live
  <2> QED BY <1>h, <2>1, <2>2, <2>3
<1>10. CASE Guard(t)
  <2>1. Others(t) /\ exec'[t].pc \in {"exit", "agent", "test"}
    BY <1>2, <1>10, PcMoves DEF Guard, Pcs
  <2>2. dir[t].journal # "merging" /\ main' = accepted' /\ UNCHANGED dir
    BY <1>2, <1>b, <1>10 DEF Guard, Holds, Executing, Merging, Section
  <2> QED BY <1>5, <2>1, <2>2 DEF Merging
<1>11. CASE Backup(t)
  <2>1. /\ Others(t) /\ exec'[t].pc = "journal" /\ exec'[t].patch = exec[t].patch
    BY <1>2, <1>11, PcMoves DEF Backup, Pcs
  <2>2. main = accepted /\ dir[t].journal # "merging" /\ UNCHANGED <<main, accepted>>
    BY <1>3, <1>11 DEF Backup, Merging
  <2>3. /\ OtherDirs(t) /\ dir'[t].journal = dir[t].journal
        /\ dir'[t].old = [f \in Files |-> IF f \in Changed(t) THEN main[f] ELSE Same]
        /\ dir'[t].saved = {f \in Changed(t) : main[f] # NoFile}
    BY <1>2, <1>11, BackupMoves
  <2>4. Changed(t)' = Changed(t)
    BY <2>1 DEF Changed
  <2>5. Executing(t)'
    BY <2>1, <2>2, <2>3, <2>4 DEF Executing, Merging
  <2>6. Holds(t)'
    BY <2>1, <2>2, <2>3, <2>5 DEF Holds, Live
  <2> QED BY <1>h, <2>1, <2>3, <2>6
<1>12. CASE WriteJournal(t)
  <2>1. Changed(t) \in SUBSET Files
    BY DEF Changed
  <2>2. /\ Others(t) /\ exec'[t].pc = "replace" /\ exec'[t].patch = exec[t].patch
    <3>1. PICK s \in SUBSET Files : s = Changed(t)
      BY <2>1
    <3>2. Turns(t, "replace", s)
      BY <1>12, <3>1 DEF WriteJournal, Turns
    <3>3. "replace" \in Pcs
      BY DEF Pcs
    <3> QED BY <1>2, <3>1, <3>2, <3>3, TodoMoves
  <2>3. /\ OtherDirs(t) /\ dir'[t].journal = "merging"
        /\ dir'[t].old = dir[t].old /\ dir'[t].saved = dir[t].saved
    BY <1>2, <1>12, JournalMoves DEF WriteJournal
  <2>4. /\ main = accepted /\ UNCHANGED <<main, accepted>> /\ Entries(dir[t]) = Changed(t)
        /\ dir[t].old = [f \in Files |-> IF f \in Changed(t) THEN accepted[f] ELSE Same]
        /\ dir[t].saved = {f \in Changed(t) : accepted[f] # NoFile}
    BY <1>2, <1>3, <1>12 DEF WriteJournal, Merging, Executing, Tracked
  <2>5. Entries(dir'[t]) = Changed(t)
    BY <2>3, <2>4 DEF Entries
  <2>6. Undoable(t)' /\ Intact(dir'[t])
    BY <2>1, <2>3, <2>4, <2>5 DEF Undoable, Agrees, Intact
  <2>7. Holds(t)'
    BY <2>2, <2>3, <2>6 DEF Holds, Executing, Merging, Live, Undoable
  <2> QED BY <1>h, <2>2, <2>3, <2>7
<1>13. CASE Replace(t)
  <2>1. /\ exec[t].pc = "replace" /\ UNCHANGED <<dir, accepted>>
        /\ Live(t) /\ Undoable(t) /\ Entries(dir[t]) = Changed(t)
    BY <1>4, <1>13 DEF Replace, Merging
  <2>2. CASE Goto(t, "regress") /\ UNCHANGED main
    <3>1. Others(t) /\ exec'[t].pc = "regress"
      BY <1>2, <2>2, PcMoves DEF Pcs
    <3>2. Holds(t)'
      BY <2>1, <2>2, <3>1 DEF Holds, Executing, Merging, Undoable, Agrees, Live
    <3> QED BY <1>h, <2>1, <3>1, <3>2
  <2>3. ASSUME NEW f \in exec[t].todo, main' = [main EXCEPT ![f] = exec[t].patch[f]],
               exec' = [exec EXCEPT ![t] = [exec[t] EXCEPT !.todo = exec[t].todo \ {f}]]
        PROVE  JournalInv'
    <3>1. f \in Files /\ f \in Entries(dir[t])
      BY <1>2, <2>1, <2>3 DEF Tracked, Changed
    <3>2. /\ Others(t) /\ exec'[t].pc = "replace"
      BY <1>2, <2>1, <2>3, <3>1, TodoShrinks
    <3>3. \A g \in Files : g # f => main'[g] = main[g]
      BY <1>2, <2>3 DEF Tree
    <3>4. Undoable(t)'
      BY <2>1, <3>1, <3>3 DEF Undoable, Agrees
    <3>5. Holds(t)'
      BY <2>1, <3>2, <3>4 DEF Holds, Executing, Merging, Live, Undoable
    <3> QED BY <1>h, <2>1, <3>2, <3>5
  <2>4. (\E f \in exec[t].todo :
           /\ main' = [main EXCEPT ![f] = exec[t].patch[f]]
           /\ exec' = [exec EXCEPT ![t] = [exec[t] EXCEPT !.todo = exec[t].todo \ {f}]])
        \/ (Goto(t, "regress") /\ UNCHANGED main)
    BY <1>13 DEF Replace
  <2> QED BY <2>2, <2>3, <2>4
<1>14. CASE Regression(t)
  <2>1. /\ exec[t].pc = "regress" /\ UNCHANGED <<main, dir, accepted>>
        /\ Live(t) /\ Undoable(t)
    BY <1>4, <1>14 DEF Regression, Merging
  <2>2. CASE Goto(t, "commit")
    <3>1. Others(t) /\ exec'[t].pc = "commit"
      BY <1>2, <2>2, PcMoves DEF Pcs
    <3>2. Holds(t)'
      BY <2>1, <3>1 DEF Holds, Executing, Merging, Undoable, Agrees, Live
    <3> QED BY <1>h, <2>1, <3>1, <3>2
  <2>3. CASE exec' = [exec EXCEPT ![t] = [exec[t] EXCEPT !.pc = "rollback", !.todo = Changed(t)]]
    <3>1. PICK s \in SUBSET Files : s = Changed(t)
      BY DEF Changed
    <3>2. Turns(t, "rollback", s) /\ "rollback" \in Pcs
      BY <2>3, <3>1 DEF Turns, Pcs
    <3>3. /\ Others(t) /\ exec'[t].pc = "rollback" /\ exec'[t].patch = exec[t].patch
          /\ exec'[t].todo = Changed(t)
      BY <1>2, <3>1, <3>2, TodoMoves
    <3>4. Holds(t)'
      BY <2>1, <3>3 DEF Holds, Executing, Merging, Undoable, Agrees, Live, Changed
    <3> QED BY <1>h, <2>1, <3>3, <3>4
  <2> QED BY <1>14, <2>2, <2>3 DEF Regression
<1>15. CASE Rollback(t)
  <2>1. /\ exec[t].pc = "rollback" /\ UNCHANGED accepted /\ exec[t].todo \subseteq Changed(t)
        /\ Live(t) /\ Undoable(t) /\ Entries(dir[t]) = Changed(t)
        /\ \A f \in Changed(t) \ exec[t].todo : main[f] = accepted[f]
    BY <1>2, <1>4, <1>15 DEF Rollback, Merging, Tracked, Executing
  <2>2. ASSUME NEW f \in exec[t].todo, main' = [main EXCEPT ![f] = dir[t].old[f]], UNCHANGED dir,
               exec' = [exec EXCEPT ![t] = [exec[t] EXCEPT !.todo = exec[t].todo \ {f}]]
        PROVE  JournalInv'
    <3>1. f \in Files /\ f \in Entries(dir[t]) /\ dir[t].old[f] = accepted[f]
      BY <2>1, <2>2 DEF Changed, Undoable, Agrees
    <3>2. /\ Others(t) /\ exec'[t].pc = "rollback" /\ exec'[t].todo = exec[t].todo \ {f}
          /\ exec'[t].patch = exec[t].patch
      BY <1>2, <2>1, <2>2, <3>1, TodoShrinks
    <3>3. main'[f] = accepted[f] /\ \A g \in Files : g # f => main'[g] = main[g]
      BY <1>2, <2>2, <3>1 DEF Tree
    <3>4. Undoable(t)'
      BY <2>1, <2>2, <3>1, <3>3 DEF Undoable, Agrees
    <3>5. \A g \in Changed(t)' \ exec'[t].todo : main'[g] = accepted'[g]
      BY <2>1, <3>2, <3>3 DEF Changed
    <3>6. Holds(t)'
      BY <2>1, <2>2, <3>2, <3>4, <3>5 DEF Holds, Executing, Merging, Live, Undoable
    <3> QED BY <1>h, <2>2, <3>2, <3>6
  <2>3. CASE dir' = [dir EXCEPT ![t] = [dir[t] EXCEPT !.journal = "none"]]
             /\ Goto(t, "exit") /\ UNCHANGED main /\ exec[t].todo = {}
    <3>1. Others(t) /\ exec'[t].pc = "exit"
      BY <1>2, <2>3, PcMoves DEF Pcs
    <3>2. OtherDirs(t) /\ dir'[t].journal = "none"
      BY <1>2, <2>3, JournalMoves
    <3>3. \A f \in Files : main[f] = accepted[f]
      BY <2>1, <2>3 DEF Undoable
    <3>4. main' = accepted'
      BY <1>2, <2>1, <2>3, <3>3 DEF Tree
    <3> QED BY <1>5, <3>1, <3>2, <3>4 DEF Merging
  <2>4. (\E f \in exec[t].todo :
           /\ main' = [main EXCEPT ![f] = dir[t].old[f]] /\ UNCHANGED dir
           /\ exec' = [exec EXCEPT ![t] = [exec[t] EXCEPT !.todo = exec[t].todo \ {f}]])
        \/ /\ dir' = [dir EXCEPT ![t] = [dir[t] EXCEPT !.journal = "none"]]
           /\ Goto(t, "exit") /\ UNCHANGED main /\ exec[t].todo = {}
    BY <1>15 DEF Rollback
  <2> QED BY <2>2, <2>3, <2>4
<1>16. CASE Commit(t)
  <2>1. Others(t) /\ exec'[t].pc = "exit"
    BY <1>2, <1>16, PcMoves DEF Commit, Pcs
  <2>2. OtherDirs(t) /\ dir'[t].journal = "committed"
    BY <1>2, <1>16, JournalMoves DEF Commit
  <2> QED BY <1>5, <1>16, <2>1, <2>2 DEF Commit, Merging
<1>17. CASE Cleanup(t)
  <2>1. Others(t) /\ exec'[t].pc = "release"
    BY <1>2, <1>17, PcMoves DEF Cleanup, Pcs
  <2>2. OtherDirs(t) /\ dir'[t].journal \in {"none", dir[t].journal}
    BY <1>2, <1>17, RemovalMoves DEF Cleanup
  <2>3. main = accepted /\ dir[t].journal # "merging" /\ UNCHANGED <<main, accepted>>
    BY <1>3, <1>17 DEF Cleanup, Merging
  <2> QED BY <1>5, <2>1, <2>2, <2>3 DEF Merging
<1>18. CASE Release(t)
  <2>1. Others(t) /\ exec'[t].pc = "done"
    BY <1>2, <1>18, EndMoves
  <2> QED BY <1>3, <1>5, <1>18, <2>1 DEF Release, Merging
<1>19. CASE RequestCancel(t)
  <2>1. Others(t) /\ UNCHANGED <<exec, main, dir, accepted>>
    BY <1>2, <1>19 DEF RequestCancel, Others, TypeOK
  <2>2. Holds(t)'
    BY <1>2, <2>1 DEF Holds, Executing, Undoable, Agrees, Live, Changed
  <2> QED BY <1>h, <2>1, <2>2
<1> QED BY <1>6, <1>7, <1>8, <1>9, <1>10, <1>11, <1>12, <1>13, <1>14, <1>15, <1>16, <1>17, <1>18,
           <1>19 DEF Step

\* The process: nobody is in the section, and recovery visits the open journals.
LEMMA ProcessJournals ==
  ASSUME Faults = {}, LockInv, JournalInv, Crash \/ Recovery
  PROVE  JournalInv'
<1> USE DEF history, recovering
<1>1. /\ main \in Tree /\ accepted \in Tree /\ dir \in [Tasks -> Dir] /\ TypeOK /\ LockInv'
      /\ \A t \in Tasks : Live(t) => Undoes(t)
      /\ \A t \in Tasks : dir[t].journal = "merging" => Agrees(t)
      /\ NoneOpen /\ Recovering /\ Traced /\ rec \in Memory
  BY ProcessKeepsLock DEF LockInv, JournalInv, TypeOK
<1>2. state' # "up" => \A t \in Tasks : exec'[t].pc \notin Section
  BY <1>1 DEF LockInv, Locked
<1>n. \A t \in Tasks : exec[t].pc = "new" => dir[t].journal # "merging"
  BY DEF JournalInv, Executing
<1>3. CASE Crash
  <2>1. /\ state' = "down" /\ rec'.cur = NoTask /\ UNCHANGED <<main, dir, accepted>>
        /\ \A t \in Tasks : exec[t].pc = "guard" => main = exec[t].seen
    BY <1>3 DEF Crash, Escaped, NoRecovery
  <2>2. \A t \in Tasks : exec[t].pc = "guard" => main = accepted
    BY <2>1 DEF JournalInv, Executing
  <2>3. \A t \in Tasks : Live(t)' => Undoes(t)'
    BY <1>1, <2>1 DEF Undoes, Undoable, Agrees, Live
  <2>4. NoneOpen' /\ Recovering'
    BY <1>1, <2>1, <2>2 DEF NoneOpen, Recovering, Live
  <2>5. \A t \in Tasks : exec'[t].pc = "new" => exec[t].pc = "new"
    BY <1>1, <1>3 DEF Crash, TypeOK, Idle
  <2>6. \A t \in Tasks : Executing(t)'
    BY <1>2, <1>n, <2>1, <2>5 DEF Executing, Section, Merging
  <2>7. \A t \in Tasks : dir'[t].journal = "merging" => Agrees(t)'
    BY <1>1, <2>1 DEF Agrees
  <2> QED BY <2>3, <2>4, <2>6, <2>7 DEF JournalInv
<1>4. CASE Recovery
  <2>1. \A t \in Tasks : exec[t].pc \notin Section /\ exec[t].pc # "guard"
    BY <1>4 DEF LockInv, Locked, Section, Recovery, Boot, RecoverRows, Start, Close, Discard, Open,
                Restore, Unlink, Restored
  <2>2. (\A t \in Tasks : ~Live(t)) => main = accepted
    BY <1>1, <2>1 DEF NoneOpen
  <2>3. \A t \in Tasks : exec'[t].pc \notin Section
    <3>1. lock = NoTask /\ UNCHANGED lock
      BY <1>1, <1>4, <2>1 DEF Recovery, Boot, RecoverRows, Start, Close, Discard, Open, Restore,
                              Unlink, started, LockInv, Locked, TypeOK
    <3> QED BY <1>1, <3>1 DEF LockInv, Locked
  <2>4. UNCHANGED accepted
    BY <1>4 DEF Recovery, Boot, RecoverRows, Start, Close, Discard, Open, Restore, Unlink, started
  <2>5. \A t \in Tasks : exec'[t].pc = "new" => exec[t].pc = "new"
    <3>1. CASE RecoverRows
      BY <1>1, <3>1 DEF RecoverRows, TypeOK, Idle
    <3> QED BY <1>4, <3>1 DEF Recovery, Boot, Start, Close, Discard, Open, Restore, Unlink, started
  \* What a step of the recovery has to show.
  <2>6. ASSUME \A t \in Tasks : dir'[t].journal = "merging" =>
                 dir[t].journal = "merging" /\ Agrees(t)',
               \A t \in Tasks : Live(t)' =>
                 /\ Undoable(t)' /\ Live(t) /\ state' = "recovering" /\ t \in rec'.dirs,
               (\A t \in Tasks : ~Live(t)') => main' = accepted', Recovering'
        PROVE  JournalInv'
    <3>1. \A t \in Tasks : Executing(t)'
      BY <1>n, <2>3, <2>5, <2>6 DEF Executing, Section, Merging
    <3> QED BY <1>1, <2>6, <3>1 DEF JournalInv, Undoes, NoneOpen
  <2>7. CASE Boot
    <3>1. /\ state' = "recovering" /\ UNCHANGED <<main, dir>> /\ rec'.cur = NoTask
          /\ rec'.dirs = {t \in Tasks : dir[t].journal # "none"}
      BY <2>7 DEF Boot, NoRecovery
    <3> QED BY <1>1, <2>2, <2>4, <2>6, <3>1 DEF Undoes, Undoable, Agrees, Live, Recovering
  <2>8. ASSUME NEW t \in Tasks, Discard(t) PROVE JournalInv'
    <3>1. OtherDirs(t) /\ dir'[t].journal # "merging" /\ dir[t].journal # "merging"
      BY <1>1, <2>8, RemovalMoves DEF Discard
    <3>2. /\ state = "recovering" /\ state' = "recovering" /\ rec'.cur = NoTask /\ UNCHANGED main
          /\ rec'.dirs = rec.dirs \ {t}
      BY <1>1, <2>8 DEF Discard, Memory
    <3>3. \A u \in Tasks : /\ dir'[u].journal = "merging" => u # t /\ dir'[u] = dir[u]
                           /\ Live(u) => u # t
                           /\ Live(u)' <=> Live(u)
      BY <3>1 DEF OtherDirs, Live
    <3> QED BY <1>1, <2>2, <2>4, <2>6, <3>2, <3>3 DEF Undoes, Undoable, Agrees, Live, Recovering
  <2>9. ASSUME NEW t \in Tasks, Open(t) PROVE JournalInv'
    <3>1. /\ state = "recovering" /\ state' = "recovering" /\ UNCHANGED <<main, dir>>
          /\ rec'.cur = t /\ rec'.todo = Entries(dir[t]) /\ rec'.dirs = rec.dirs
          /\ dir[t].journal = "merging"
      BY <1>1, <2>9 DEF Open, Memory
    <3> QED BY <1>1, <2>2, <2>4, <2>6, <3>1 DEF Undoes, Undoable, Agrees, Live, Recovering
  <2>10. ASSUME NEW f \in Files, Restore(f) PROVE JournalInv'
    <3>1. PICK c \in Tasks : c = rec.cur
      BY <1>1, <2>10 DEF Restore, Memory
    <3>2. /\ state = "recovering" /\ state' = "recovering" /\ UNCHANGED dir
          /\ f \in Entries(dir[c]) /\ f \in rec.todo
          /\ dir[c].journal = "merging" /\ Agrees(c) /\ dir[c].old[f] = accepted[f]
      BY <1>1, <2>10, <3>1 DEF Restore, Traced, Recovering, Agrees
    \* An entry that is restored is as accepted; the others stay.
    <3>3. \A g \in Files : main'[g] = main[g] \/ (g = f /\ main'[g] = accepted[g])
      BY <1>1, <2>10, <3>1, <3>2 DEF Restore, Tree
    <3>4. \A t \in Tasks : /\ dir'[t].journal = "merging" =>
                                dir[t].journal = "merging" /\ Agrees(t)'
                           /\ Live(t)' => Live(t) /\ Undoable(t)'
      BY <1>1, <2>4, <3>2, <3>3 DEF Undoes, Undoable, Agrees, Live
    <3>5. (\A t \in Tasks : ~Live(t)') => main' = accepted'
      <4>1. SUFFICES ASSUME \A t \in Tasks : ~Live(t)' PROVE main' = accepted'
        OBVIOUS
      <4>2. main = accepted
        BY <2>2, <3>2, <4>1 DEF Live
      <4>3. main' \in Tree
        BY <1>1 DEF LockInv, TypeOK
      <4> QED BY <1>1, <2>4, <3>3, <4>2, <4>3 DEF Tree
    <3>6. CASE dir[c].old[f] = NoFile \/ f \in dir[c].saved
      <4>1. /\ main' = [main EXCEPT ![f] = dir[c].old[f]]
            /\ rec'.todo = rec.todo \ {f} /\ rec'.dirs = rec.dirs /\ rec'.cur = c
        BY <1>1, <2>10, <3>1, <3>6 DEF Restore, Memory
      <4>2. main'[f] = accepted[f]
        BY <1>1, <3>2, <4>1 DEF Tree
      <4>3. Recovering'
        BY <1>1, <2>4, <3>1, <3>2, <3>3, <4>1, <4>2 DEF Recovering, Entries
      <4> QED BY <1>1, <2>6, <3>2, <3>4, <3>5, <4>1, <4>3 DEF Undoes
    \* A missing backup: the journal is torn, and no live one is left unvisited.
    <3>7. CASE ~(dir[c].old[f] = NoFile \/ f \in dir[c].saved)
      <4>1. rec'.cur = NoTask /\ rec'.dirs = rec.dirs \ {c}
        BY <1>1, <2>10, <3>1, <3>7 DEF Restore, Memory
      <4>2. ~Live(c)
        BY <3>2, <3>7 DEF Live, Intact
      <4> QED BY <1>1, <2>6, <3>2, <3>4, <3>5, <4>1, <4>2 DEF Undoes, Recovering
    <3> QED BY <3>6, <3>7
  <2>11. ASSUME Restored
         PROVE  /\ rec.cur \in Tasks /\ rec.todo = {} /\ state = "recovering"
                /\ dir[rec.cur].journal = "merging"
                /\ (\A t \in Tasks : Live(t) => t = rec.cur) => main = accepted
    <3>1. PICK c \in Tasks : c = rec.cur
      BY <1>1, <2>11 DEF Restored, Memory
    <3>2. rec.todo = {} /\ state = "recovering" /\ dir[c].journal = "merging"
      BY <1>1, <2>11, <3>1 DEF Restored, Recovering
    <3>3. ASSUME \A t \in Tasks : Live(t) => t = c
          PROVE  main = accepted
      <4>1. CASE Live(c)
        <5>1. \A g \in Files : main[g] = accepted[g]
          BY <1>1, <2>11, <3>1, <3>2, <4>1 DEF Recovering, Undoes, Undoable, Restored
        <5> QED BY <1>1, <5>1 DEF Tree
      <4> QED BY <2>2, <3>3, <4>1
    <3> QED BY <3>1, <3>2, <3>3
  <2>12. CASE Close
    <3>1. PICK c \in Tasks : c = rec.cur
      BY <2>11, <2>12 DEF Close
    <3>2. /\ dir' = [dir EXCEPT ![c] = EmptyDir] /\ state = "recovering" /\ state' = "recovering"
          /\ rec'.cur = NoTask /\ UNCHANGED main /\ rec'.dirs = rec.dirs \ {c}
          /\ ((\A t \in Tasks : Live(t) => t = c) => main = accepted)
      BY <1>1, <2>11, <2>12, <3>1 DEF Close, Restored, Memory
    <3>3. \A t \in Tasks : IF t = c THEN dir'[t].journal # "merging" ELSE dir'[t] = dir[t]
      BY <1>1, <3>2 DEF EmptyDir
    <3>4. \A t \in Tasks : /\ dir'[t].journal = "merging" =>
                                dir[t].journal = "merging" /\ Agrees(t)'
                           /\ Live(t)' => Live(t) /\ Undoable(t)' /\ t # c
                           /\ ~Live(t)' => ~Live(t) \/ t = c
      BY <1>1, <2>4, <3>2, <3>3 DEF Undoes, Undoable, Agrees, Live
    <3> QED BY <1>1, <2>4, <2>6, <3>2, <3>4 DEF Recovering, Undoes
  <2>13. ASSUME NEW f \in Files, Unlink(f) PROVE JournalInv'
    <3>1. PICK c \in Tasks : c = rec.cur
      BY <2>11, <2>13 DEF Unlink
    <3>2. /\ state = "recovering" /\ state' = "recovering" /\ UNCHANGED <<main, rec>>
          /\ rec.todo = {} /\ ((\A t \in Tasks : Live(t) => t = c) => main = accepted)
      BY <2>11, <2>13, <3>1 DEF Unlink
    <3>3. /\ OtherDirs(c) /\ dir'[c].journal = dir[c].journal /\ dir'[c].old = dir[c].old
          /\ dir'[c].saved \subseteq dir[c].saved
      <4>1. dir' = [dir EXCEPT ![c].saved = dir[c].saved \ {f}]
        BY <2>13, <3>1 DEF Unlink
      <4>2. dir'[c].saved = dir[c].saved \ {f}
        BY <1>1, <4>1 DEF Dir
      <4> QED BY <1>1, <4>1, <4>2, UnlinkMoves
    <3>4. \A t \in Tasks : Entries(dir'[t]) = Entries(dir[t]) /\ dir'[t].old = dir[t].old
                           /\ dir'[t].journal = dir[t].journal
                           /\ (t # c => dir'[t] = dir[t])
      BY <3>3 DEF Entries, OtherDirs
    <3>5. \A t \in Tasks : /\ dir'[t].journal = "merging" =>
                                dir[t].journal = "merging" /\ Agrees(t)'
                           /\ Live(t)' => Live(t) /\ Undoable(t)'
                           /\ ~Live(t)' => ~Live(t) \/ t = c
      BY <1>1, <2>4, <3>2, <3>3, <3>4 DEF Undoes, Undoable, Agrees, Live, Intact
    <3>6. Recovering'
      BY <1>1, <2>4, <3>1, <3>2, <3>4 DEF Recovering
    <3> QED BY <1>1, <2>4, <2>6, <3>2, <3>5, <3>6 DEF Undoes
  <2>14. CASE RecoverRows
    <3>1. /\ UNCHANGED <<main, dir>> /\ state = "recovering" /\ rec.dirs = {}
          /\ rec'.cur = NoTask
      BY <1>1, <2>14 DEF RecoverRows, Memory
    <3>2. \A t \in Tasks : ~Live(t)
      BY <1>1, <3>1 DEF Undoes
    <3> QED BY <1>1, <2>2, <2>4, <2>6, <3>1, <3>2 DEF Recovering, Agrees, Live
  <2>15. CASE Start
    <3>1. /\ UNCHANGED <<main, dir>> /\ state = "releasing" /\ rec'.cur = NoTask
      BY <2>15 DEF Start, started, NoRecovery
    <3>2. \A t \in Tasks : ~Live(t)
      BY <1>1, <3>1 DEF Undoes
    <3> QED BY <1>1, <2>2, <2>4, <2>6, <3>1, <3>2 DEF Recovering, Agrees, Live
  <2> QED BY <1>4, <2>7, <2>8, <2>9, <2>10, <2>12, <2>13, <2>14, <2>15 DEF Recovery
<1> QED BY <1>3, <1>4

LEMMA InitJournal == Init => JournalInv
<1> SUFFICES ASSUME Init PROVE JournalInv
  OBVIOUS
<1>1. \A t \in Tasks : exec[t].pc = "new" /\ dir[t].journal = "none"
  BY DEF Init, Idle, EmptyDir
<1>2. main = accepted /\ rec.cur = NoTask
  BY DEF Init, NoRecovery
<1> QED BY <1>1, <1>2 DEF JournalInv, NoneOpen, Executing, Recovering, Merging, Live

LEMMA StepJournal == Faults = {} /\ WriteInv /\ [Next]_vars => WriteInv'
<1> SUFFICES ASSUME Faults = {}, WriteInv, [Next]_vars PROVE WriteInv'
  OBVIOUS
<1>1. LockInv /\ LockInv'
  BY StepLock DEF WriteInv
<1> SUFFICES ASSUME ~outdated' PROVE JournalInv'
  BY <1>1 DEF WriteInv
\* Nothing resets outdated.
<1>2. ~outdated
  <2>1. outdated => outdated'
    BY DEF Next, Step, Enter, Acquire, Prepare, CallAgent, Guard, Pass, Abort, Backup,
           WriteJournal, Replace, Regression, Rollback, Commit, Cleanup, Release, RequestCancel,
           Crash, Recovery, Boot, RecoverRows, Start, Close, Discard, Open, Restore, Unlink,
           history, recovering, started, vars
  <2> QED BY <2>1
<1>3. JournalInv
  BY <1>2 DEF WriteInv
<1>4. CASE UNCHANGED vars
  BY <1>3, <1>4 DEF vars, Changed, JournalInv, Undoes, Undoable, Agrees, Live, NoneOpen, Executing,
                    Recovering
<1> QED BY <1>1, <1>3, <1>4, SectionJournals, ProcessJournals DEF Next

\* The invariant of the merge journal.  It is about exits of the process: with an
\* error after the first replaced path, or in rollback or commit, or a recovery that
\* fails to remove a directory, or an exit before the guard restored what an agent
\* changed, it is false (the run write_io shows it of the first).  An exit while
\* recovery removes a directory leaves it torn, and it ends when a merge is accepted
\* over that.
THEOREM JournalInvariant ==
  ASSUME Faults = {}
  PROVE  Spec => []WriteInv
<1>1. Init => WriteInv
  BY InitLock, InitJournal DEF WriteInv
<1>2. WriteInv /\ [Next]_vars => WriteInv'
  BY StepJournal
<1> QED BY <1>1, <1>2, PTL DEF Spec

\* isolated_workspace.py: the journal of merge is written before the first path is
\* replaced and removed after the last is restored or accepted, so that wherever the
\* process exits, and exits again in the recovery, the merge can be undone exactly,
\* until a merge is accepted over a directory whose removal an exit interrupted.
THEOREM MergesAreRecoverable ==
  ASSUME Faults = {}
  PROVE  Spec => []Recoverable
<1>1. ASSUME WriteInv PROVE Recoverable
  <2> SUFFICES ASSUME ~outdated, NEW f \in Files
               PROVE  /\ \A t \in Journaled(f) : dir[t].old[f] = accepted[f]
                      /\ \/ main[f] = accepted[f]
                         \/ \E t \in Journaled(f) : ~Torn(t)
                         \/ \E t \in Tasks : /\ exec[t].pc = "guard"
                                             /\ exec[t].seen[f] = accepted[f]
    BY DEF Recoverable
  <2>1. /\ \A t \in Tasks : dir[t].journal = "merging" => Agrees(t)
        /\ \A t \in Tasks : Live(t) => Undoable(t)
        /\ \A t \in Tasks : exec[t].pc = "guard" => exec[t].seen = accepted
    BY <1>1 DEF WriteInv, JournalInv, Executing, Undoes
  <2>2. (\A t \in Tasks : ~Live(t)) => main = accepted \/ \E t \in Tasks : exec[t].pc = "guard"
    BY <1>1 DEF WriteInv, JournalInv, NoneOpen
  <2> QED BY <2>1, <2>2 DEF Journaled, Undoable, Agrees, Live, Torn
<1> QED BY <1>1, JournalInvariant, PTL

\* swarm_orchestrator.py and task_manager.py: between the write phases of a started
\* process the workspace is what the accepted merges made of it, however often the
\* process exited in the middle of one, until a merge is accepted over a directory
\* whose removal an exit interrupted.
THEOREM WorkspaceIsWhole ==
  ASSUME Faults = {}
  PROVE  Spec => []WholeAtRest
<1>1. ASSUME WriteInv PROVE WholeAtRest
  <2> SUFFICES ASSUME ~outdated, state = "up", lock = NoTask PROVE main = accepted
    BY DEF WholeAtRest, AllOrNothing
  <2>1. \A t \in Tasks : exec[t].pc \notin Section
    BY <1>1 DEF WriteInv, LockInv, Locked
  <2>2. \A t \in Tasks : ~Live(t)
    BY <1>1, <2>1 DEF WriteInv, JournalInv, Undoes, Merging, Section
  <2> QED BY <1>1, <2>1, <2>2 DEF WriteInv, JournalInv, NoneOpen, Section
<1> QED BY <1>1, JournalInvariant, PTL
===============================================================================
