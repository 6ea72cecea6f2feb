------------------------------ MODULE ReportProofs ------------------------------
(***************************************************************************)
(* The report keeps its promises for any number of files, tasks, edits and *)
(* exits: what it says was true of the project at one moment, and its file *)
(* is sent as often as the exits explain and not after a cancellation.     *)
(***************************************************************************)
EXTENDS Report, TLAPS

\* The steps between the preflight's end and the sending, and those that read.
Reads == {"before", "evidence", "analyse", "after", "compare", "write", "replace"}
Unsent == {"recover", "generated", "send"} \union Reads
Steps == {"idle", "claimed", "plan", "park", "receipt", "look", "verify", "complete", "deliver",
          "return", "sync", "finish"} \union Unsent

Errors == Closed \ {"succeeded"}

\* The job of the chat is for a task, and no job is NoJob.
JobOK ==
  /\ job \in [pc : Steps, task : 0 .. MaxTasks, out : Errors]
  /\ job.pc = "idle" => job = NoJob
  /\ job.pc # "idle" => T \in Tasks

HistOK == sends \in [Tasks -> Nat] /\ lost \in [Tasks -> Nat]

Types == TypeOK /\ JobOK /\ HistOK

-------------------------------------------------------------------------------
(* What was read of the project.                                            *)

Version == 0 .. MaxEdits + 1
Project == [Files -> Version]

Reading == [project : Project \union {<<>>}, edits : 0 .. MaxEdits, past : SUBSET Project,
            before : Seq(Version), evidence : Seq(Version), after : Seq(Version)]

\* The version of an edit is new: none that was read so far is as high.
Bounded ==
  /\ \A f \in Files : reading.project[f] <= reading.edits + 1
  /\ \A i \in DOMAIN reading.before : reading.before[i] <= reading.edits + 1

\* How far the passes over the project are.
Passes ==
  /\ Len(reading.before) <= MaxFiles /\ Len(reading.evidence) <= MaxFiles
  /\ Len(reading.after) <= MaxFiles
  /\ job.pc = "before" => reading.evidence = <<>>
  /\ job.pc # "before" => Len(reading.before) = MaxFiles
  /\ job.pc \in {"before", "evidence"} => reading.after = <<>>
  /\ job.pc \notin {"before", "evidence"} => Len(reading.evidence) = MaxFiles
  /\ job.pc \in {"compare", "write", "replace"} => Len(reading.after) = MaxFiles
  /\ job.pc \in {"write", "replace"} => Changed = {}

\* p is the project at the end of the first pass: a file that still is, or at the
\* last pass was, as in the first pass was so in p and in the evidence.
Witness(p) ==
  \A f \in Files :
    f \in DOMAIN reading.before /\ reading.before[f] # 0 =>
      /\ reading.project[f] = reading.before[f] =>
           /\ p[f] = reading.before[f]
           /\ f \in DOMAIN reading.evidence => reading.evidence[f] = reading.before[f]
      /\ f \in DOMAIN reading.after /\ reading.after[f] = reading.before[f] =>
           p[f] = reading.before[f] /\ reading.evidence[f] = reading.before[f]

ReadingOK ==
  /\ reading \in Reading
  /\ job.pc \notin Reads => reading = NoReading
  /\ job.pc \in Reads =>
       /\ reading.project \in Project /\ reading.project \in reading.past
       /\ Bounded /\ Passes
       /\ \E p \in reading.past : Witness(p)

-------------------------------------------------------------------------------
(* What was sent.                                                           *)

\* A task whose file was sent, and for which no exit can explain another sending,
\* is checkpointed, or closed and its job has ended, or its job is beyond the sending.
Sent ==
  \A t \in Tasks :
    /\ sends[t] > lost[t] =>
         \/ task[t].delivered
         \/ t # T /\ task[t].status \in Closed
         \/ t = T /\ job.pc \in {"verify", "complete", "deliver", "sync", "finish"}
    /\ task[t].delivered => sends[t] > 0
    /\ task[t].status = "absent" => sends[t] = 0

JobSent ==
  /\ job.pc \in Unsent => ~ task[T].delivered
  /\ job.pc \in {"verify", "complete", "deliver", "return"} => sends[T] > 0
  /\ job.pc = "send" /\ task[T].cancel => T \in late

ReportInv ==
  /\ Types /\ ReadingOK /\ OutputIsSound
  /\ Sent /\ JobSent /\ SentAgain /\ SuccessIsSent

-------------------------------------------------------------------------------
(* Types.                                                                   *)

\* The actions of the worker but for Claim and the two ends of a task only move
\* the job on.
Moves == RunnerRaises \/ ReportFails \/ Plan \/ CheckReceipt \/ LookForDelivery \/ Recover
         \/ SnapshotBefore \/ GatherEvidence \/ Analyse \/ SnapshotAfter \/ Compare
         \/ WriteTemporary \/ Replace \/ Announce \/ Send \/ Verify \/ Complete \/ Synchronize

LEMMA MovesOn ==
  ASSUME Types, Moves
  PROVE  /\ job' \in [pc : Steps \ {"idle", "claimed"}, task : 0 .. MaxTasks, out : Errors]
         /\ job'.task = T /\ job.pc # "idle" /\ T \in Tasks
         /\ UNCHANGED <<task, up, crashes, cancels, lost, late>>
<1> DEFINE Job == [pc : Steps \ {"idle", "claimed"}, task : 0 .. MaxTasks, out : Errors]
<1>1. ASSUME job.pc # "idle", NEW p \in Steps \ {"idle", "claimed"}, job' = [job EXCEPT !.pc = p]
      PROVE  job' \in Job /\ job'.task = T /\ T \in Tasks
  BY <1>1 DEF Types, JobOK, T
<1>2. ASSUME job.pc # "idle", NEW o \in Errors, Raise(o)
      PROVE  job' \in Job /\ job'.task = T /\ T \in Tasks
  BY <1>2 DEF Types, JobOK, T, Raise, Steps
<1>3. {"failed", "blocked", "cancelled"} \subseteq Errors
  BY DEF Errors, Closed
<1> USE DEF At, Goto, Transition, otherThanJob, otherThanFlow, hist
<1>4. CASE RunnerRaises \/ ReportFails
  BY <1>2, <1>3, <1>4 DEF RunnerRaises, ReportFails
<1>5. CASE Plan \/ CheckReceipt \/ LookForDelivery
  BY <1>1, <1>2, <1>3, <1>5 DEF Plan, CheckReceipt, LookForDelivery, Steps, Unsent
<1>6. CASE Recover \/ SnapshotBefore \/ GatherEvidence
  BY <1>1, <1>2, <1>3, <1>6
     DEF Recover, SnapshotBefore, GatherEvidence, Steps, Unsent, Reads, Types, JobOK, T
<1>7. CASE Analyse \/ SnapshotAfter
  BY <1>1, <1>2, <1>3, <1>7 DEF Analyse, SnapshotAfter, Steps, Unsent, Reads, Types, JobOK, T
<1>8. CASE Compare \/ WriteTemporary \/ Replace \/ Announce
  BY <1>1, <1>2, <1>3, <1>8
     DEF Compare, WriteTemporary, Replace, Announce, Steps, Unsent, Reads
<1>9. CASE Send \/ Verify \/ Complete \/ Synchronize
  BY <1>1, <1>2, <1>3, <1>9 DEF Send, Verify, Complete, Synchronize, Steps, Unsent
<1> QED BY <1>4, <1>5, <1>6, <1>7, <1>8, <1>9 DEF Moves

LEMMA BeginGoes ==
  ASSUME Begin
  PROVE  /\ up /\ job.pc = "claimed" /\ UNCHANGED <<output, up, crashes, cancels, hist>>
         /\ \/ End("cancelled") /\ wf' = wf
            \/ /\ task' = task /\ wf' \in {wf, "planning", "waiting_approval"}
               /\ \E p \in {"plan", "receipt"} : Goto(p)
            \/ task' = task /\ wf' = wf /\ Raise("blocked")
<1>1. CASE Heard
  BY <1>1 DEF Begin, At
<1>2. CASE ~ Heard /\ (wf \in Ended => task[T].retry)
  <2>1. CASE task[T].phase = "planning"
    BY <1>2, <2>1 DEF Begin, At
  <2>2. CASE task[T].phase # "planning"
    BY <1>2, <2>2 DEF Begin, At
  <2> QED BY <2>1, <2>2
<1>3. CASE ~ Heard /\ wf \in Ended /\ ~ task[T].retry
  BY <1>3 DEF Begin, At
<1> QED BY <1>1, <1>2, <1>3

LEMMA ParkGoes ==
  ASSUME Park
  PROVE  /\ job.pc = "park" /\ UNCHANGED <<wf, output, up, crashes, cancels, hist>>
         /\ End("waiting_approval") \/ (Raise("failed") /\ task' = task)
<1>1. CASE task[T].status = "running" /\ task[T].phase = "planning"
  BY <1>1 DEF Park, At, otherThanTask
<1>2. CASE ~ (task[T].status = "running" /\ task[T].phase = "planning")
  BY <1>2 DEF Park, At, otherThanTask
<1> QED BY <1>1, <1>2

-------------------------------------------------------------------------------
(* The passes over the project.                                             *)

LEMMA NothingRead ==
  ASSUME reading' = NoReading, job'.pc \notin Reads
  PROVE  ReadingOK'
BY ReportAssumption DEF ReadingOK, NoReading, Reading

\* Steps that read, or wait for the next reading, keep what the passes say.
LEMMA ReadingGoesOn ==
  ASSUME Types, ReadingOK, job.pc \in Reads, job'.pc \in Reads,
         reading' \in Reading, reading'.project = reading.project, reading'.edits = reading.edits,
         reading'.past = reading.past, Bounded', Passes',
         \E p \in reading.past : Witness(p)'
  PROVE  ReadingOK'
BY DEF ReadingOK

LEMMA StartReading == Types /\ ReadingOK /\ Recover => ReadingOK'
<1> SUFFICES ASSUME Types, ReadingOK, Recover PROVE ReadingOK'
  OBVIOUS
<1>1. job.pc = "recover" /\ job.pc \notin Reads /\ reading = NoReading
  BY DEF Recover, At, ReadingOK, Reads
<1>2. CASE output[T] # NoReport
  <2>1. reading' = NoReading /\ job'.pc = "generated"
    BY <1>1, <1>2 DEF Recover, Goto, Types, JobOK
  <2> QED BY <2>1, NothingRead DEF Reads
<1>3. CASE output[T] = NoReport
  <2>1. PICK p \in [Files -> {0, 1}] :
          /\ reading' = [NoReading EXCEPT !.project = p, !.past = {p}]
          /\ job'.pc = "before"
    BY <1>3 DEF Recover, Types, JobOK
  <2>2. p \in Project /\ 0 \in 0 .. MaxEdits
    BY ReportAssumption DEF Project, Version
  <2>3. /\ reading'.project = p /\ reading'.past = {p} /\ reading'.edits = 0
        /\ reading'.before = <<>> /\ reading'.evidence = <<>> /\ reading'.after = <<>>
        /\ reading' \in Reading
    <3>1. reading' = [project |-> p, edits |-> 0, past |-> {p},
                      before |-> <<>>, evidence |-> <<>>, after |-> <<>>]
      BY <2>1 DEF NoReading
    <3>2. {p} \in SUBSET Project /\ <<>> \in Seq(Version)
      BY <2>2
    <3> QED BY <2>2, <3>1, <3>2 DEF Reading
  <2>4. Bounded'
    BY <2>1, <2>3 DEF Bounded
  <2>5. Passes'
    BY <2>1, <2>3, ReportAssumption DEF Passes
  <2>6. Witness(p)'
    BY <2>3 DEF Witness
  <2> QED BY <2>1, <2>2, <2>3, <2>4, <2>5, <2>6 DEF ReadingOK, Reads
<1> QED BY <1>2, <1>3

LEMMA AppendTo ==
  ASSUME NEW S, NEW s \in Seq(S), NEW x \in S
  PROVE  /\ Append(s, x) \in Seq(S) /\ Len(Append(s, x)) = Len(s) + 1 /\ Len(s) \in Nat
         /\ DOMAIN Append(s, x) = 1 .. Len(s) + 1 /\ DOMAIN s = 1 .. Len(s)
         /\ \A i \in DOMAIN s : Append(s, x)[i] = s[i]
         /\ Append(s, x)[Len(s) + 1] = x
OBVIOUS

\* A pass that has come further; the other passes are as they were.
LEMMA OnePass ==
  ASSUME reading \in Reading, NEW s \in Seq(Version)
  PROVE  /\ reading' = [reading EXCEPT !.before = s] =>
              /\ reading' \in Reading /\ reading'.project = reading.project
              /\ reading'.edits = reading.edits /\ reading'.past = reading.past
              /\ reading'.before = s /\ reading'.evidence = reading.evidence
              /\ reading'.after = reading.after
         /\ reading' = [reading EXCEPT !.evidence = s] =>
              /\ reading' \in Reading /\ reading'.project = reading.project
              /\ reading'.edits = reading.edits /\ reading'.past = reading.past
              /\ reading'.before = reading.before /\ reading'.evidence = s
              /\ reading'.after = reading.after
         /\ reading' = [reading EXCEPT !.after = s] =>
              /\ reading' \in Reading /\ reading'.project = reading.project
              /\ reading'.edits = reading.edits /\ reading'.past = reading.past
              /\ reading'.before = reading.before /\ reading'.evidence = reading.evidence
              /\ reading'.after = s
BY DEF Reading

\* The next file of a pass that is not complete.
LEMMA NextFile ==
  ASSUME Types, ReadingOK, job.pc \in Reads, NEW s \in Seq(Version), Len(s) <= MaxFiles, ~ Whole(s)
  PROVE  /\ Len(s) + 1 \in Files /\ OneMore(s) = Append(s, reading.project[Len(s) + 1])
         /\ reading.project[Len(s) + 1] \in Version
         /\ reading.project[Len(s) + 1] <= reading.edits + 1
BY ReportAssumption DEF ReadingOK, Whole, OneMore, Files, Bounded, Project

LEMMA SnapshotBeforeKeeps == Types /\ ReadingOK /\ SnapshotBefore => ReadingOK'
<1> SUFFICES ASSUME Types, ReadingOK, SnapshotBefore PROVE ReadingOK'
  OBVIOUS
<1>1. /\ job.pc = "before" /\ job.pc \in Reads /\ reading \in Reading /\ Bounded /\ Passes
      /\ reading.project \in Project /\ reading.project \in reading.past
      /\ reading.evidence = <<>> /\ reading.after = <<>>
  BY DEF SnapshotBefore, At, ReadingOK, Reads, Passes
\* While the first pass goes on, what the project is now will do for a witness.
<1>2. ASSUME reading'.evidence = <<>>, reading'.after = <<>>, reading'.project = reading.project,
             \A f \in Files : f \in DOMAIN reading'.before => f \in DOMAIN reading'.before
      PROVE  Witness(reading.project)'
  BY <1>2 DEF Witness
<1>3. CASE Whole(reading.before)
  <2>1. reading' = reading /\ job'.pc = "evidence"
    BY <1>3 DEF SnapshotBefore, Goto, Types, JobOK
  <2>2. Bounded' /\ Passes'
    BY <1>1, <1>3, <2>1, ReportAssumption DEF Bounded, Passes, Whole
  <2> QED BY <1>1, <1>2, <2>1, <2>2, ReadingGoesOn DEF Reads
<1>4. CASE ~ Whole(reading.before)
  <2>1. reading' = [reading EXCEPT !.before = OneMore(reading.before)] /\ job' = job
    BY <1>4 DEF SnapshotBefore
  <2> DEFINE x == reading.project[Len(reading.before) + 1]
  <2>2. /\ Len(reading.before) + 1 \in Files /\ OneMore(reading.before) = Append(reading.before, x)
        /\ x \in Version /\ x <= reading.edits + 1
    BY <1>1, <1>4, NextFile DEF Passes, Reading
  <2>3. reading.before \in Seq(Version)
    BY <1>1 DEF Reading
  <2>4. /\ reading' \in Reading /\ reading'.before = Append(reading.before, x)
        /\ reading'.project = reading.project /\ reading'.edits = reading.edits
        /\ reading'.past = reading.past /\ reading'.evidence = <<>> /\ reading'.after = <<>>
    <3>1. Append(reading.before, x) \in Seq(Version)
      BY <2>2, <2>3, AppendTo
    <3> QED BY <1>1, <2>1, <2>2, <3>1, OnePass
  <2>5. Bounded'
    BY <1>1, <2>2, <2>3, <2>4, AppendTo DEF Bounded
  <2>6. Passes'
    BY <1>1, <2>1, <2>2, <2>3, <2>4, AppendTo, ReportAssumption DEF Passes, Files
  <2> QED BY <1>1, <1>2, <2>1, <2>4, <2>5, <2>6, ReadingGoesOn
<1> QED BY <1>3, <1>4

\* What is read is what the project is: the witness agrees with it where the first
\* pass does.
LEMMA GatherEvidenceKeeps == Types /\ ReadingOK /\ GatherEvidence => ReadingOK'
<1> SUFFICES ASSUME Types, ReadingOK, GatherEvidence PROVE ReadingOK'
  OBVIOUS
<1>1. /\ job.pc = "evidence" /\ job.pc \in Reads /\ reading \in Reading /\ Bounded /\ Passes
      /\ reading.project \in Project /\ reading.after = <<>>
      /\ Len(reading.before) = MaxFiles
  BY DEF GatherEvidence, At, ReadingOK, Reads, Passes
<1>2. PICK p \in reading.past : Witness(p)
  BY <1>1 DEF ReadingOK
<1>3. CASE Whole(reading.evidence)
  <2>1. reading' = reading /\ job'.pc = "analyse"
    BY <1>3 DEF GatherEvidence, Goto, Types, JobOK
  <2>2. Bounded' /\ Passes' /\ Witness(p)'
    BY <1>1, <1>2, <1>3, <2>1, ReportAssumption DEF Bounded, Passes, Whole, Witness
  <2> QED BY <1>1, <1>2, <2>1, <2>2, ReadingGoesOn DEF Reads
<1>4. CASE ~ Whole(reading.evidence)
  <2>1. reading' = [reading EXCEPT !.evidence = OneMore(reading.evidence)] /\ job' = job
    BY <1>4 DEF GatherEvidence
  <2> DEFINE n == Len(reading.evidence) + 1
             x == reading.project[n]
  <2>2. /\ n \in Files /\ OneMore(reading.evidence) = Append(reading.evidence, x)
        /\ x \in Version /\ reading.evidence \in Seq(Version)
    BY <1>1, <1>4, NextFile DEF Passes, Reading
  <2>3. /\ Append(reading.evidence, x) \in Seq(Version)
        /\ Len(Append(reading.evidence, x)) = n /\ n - 1 = Len(reading.evidence)
        /\ DOMAIN Append(reading.evidence, x) = DOMAIN reading.evidence \union {n}
        /\ \A i \in DOMAIN reading.evidence : Append(reading.evidence, x)[i] = reading.evidence[i]
        /\ Append(reading.evidence, x)[n] = x
    BY <2>2, AppendTo
  <2>4. /\ reading' \in Reading /\ reading'.evidence = Append(reading.evidence, x)
        /\ reading'.project = reading.project /\ reading'.edits = reading.edits
        /\ reading'.past = reading.past /\ reading'.before = reading.before
        /\ reading'.after = <<>>
    BY <1>1, <2>1, <2>2, <2>3, OnePass
  <2>5. Bounded'
    BY <1>1, <2>4 DEF Bounded
  <2>6. Passes'
    BY <1>1, <2>1, <2>2, <2>3, <2>4, ReportAssumption DEF Passes, Files
  <2>7. Witness(p)'
    BY <1>2, <2>3, <2>4 DEF Witness
  <2> QED BY <1>1, <1>2, <2>1, <2>4, <2>5, <2>6, <2>7, ReadingGoesOn
<1> QED BY <1>3, <1>4

LEMMA SnapshotAfterKeeps == Types /\ ReadingOK /\ SnapshotAfter => ReadingOK'
<1> SUFFICES ASSUME Types, ReadingOK, SnapshotAfter PROVE ReadingOK'
  OBVIOUS
<1>1. /\ job.pc = "after" /\ job.pc \in Reads /\ reading \in Reading /\ Bounded /\ Passes
      /\ reading.project \in Project
      /\ Len(reading.before) = MaxFiles /\ Len(reading.evidence) = MaxFiles
  BY DEF SnapshotAfter, At, ReadingOK, Reads, Passes
<1>2. PICK p \in reading.past : Witness(p)
  BY <1>1 DEF ReadingOK
<1>3. CASE Whole(reading.after)
  <2>1. reading' = reading /\ job'.pc = "compare"
    BY <1>3 DEF SnapshotAfter, Goto, Types, JobOK
  <2>2. Bounded' /\ Passes' /\ Witness(p)'
    BY <1>1, <1>2, <1>3, <2>1, ReportAssumption DEF Bounded, Passes, Whole, Witness
  <2> QED BY <1>1, <1>2, <2>1, <2>2, ReadingGoesOn DEF Reads
<1>4. CASE ~ Whole(reading.after)
  <2>1. reading' = [reading EXCEPT !.after = OneMore(reading.after)] /\ job' = job
    BY <1>4 DEF SnapshotAfter
  <2> DEFINE n == Len(reading.after) + 1
             x == reading.project[n]
  <2>2. /\ n \in Files /\ OneMore(reading.after) = Append(reading.after, x)
        /\ x \in Version /\ reading.after \in Seq(Version)
    BY <1>1, <1>4, NextFile DEF Passes, Reading
  <2>3. /\ Append(reading.after, x) \in Seq(Version)
        /\ Len(Append(reading.after, x)) = n /\ n - 1 = Len(reading.after)
        /\ DOMAIN Append(reading.after, x) = DOMAIN reading.after \union {n}
        /\ \A i \in DOMAIN reading.after : Append(reading.after, x)[i] = reading.after[i]
        /\ Append(reading.after, x)[n] = x
    BY <2>2, AppendTo
  <2>4. /\ reading' \in Reading /\ reading'.after = Append(reading.after, x)
        /\ reading'.project = reading.project /\ reading'.edits = reading.edits
        /\ reading'.past = reading.past /\ reading'.before = reading.before
        /\ reading'.evidence = reading.evidence
    BY <1>1, <2>1, <2>2, <2>3, OnePass
  <2>5. Bounded'
    BY <1>1, <2>4 DEF Bounded
  <2>6. Passes'
    BY <1>1, <2>1, <2>2, <2>3, <2>4, ReportAssumption DEF Passes, Files
  <2>7. DOMAIN reading.evidence = Files
    BY <1>1 DEF Reading, Files
  <2>8. Witness(p)'
    BY <1>2, <2>2, <2>3, <2>4, <2>7 DEF Witness
  <2> QED BY <1>1, <1>2, <2>1, <2>4, <2>5, <2>6, <2>8, ReadingGoesOn
<1> QED BY <1>3, <1>4

\* Steps between the passes and after them.
LEMMA CompareKeeps == Types /\ ReadingOK /\ (Analyse \/ Compare \/ WriteTemporary) => ReadingOK'
<1> SUFFICES ASSUME Types, ReadingOK, Analyse \/ Compare \/ WriteTemporary PROVE ReadingOK'
  OBVIOUS
<1>1. /\ job.pc \in {"analyse", "compare", "write"} /\ job.pc \in Reads /\ reading \in Reading
      /\ Bounded /\ Passes
  BY DEF Analyse, Compare, WriteTemporary, At, ReadingOK, Reads
<1>2. PICK p \in reading.past : Witness(p)
  BY <1>1 DEF ReadingOK
<1>3. CASE reading' = reading
  <2>1. \/ job.pc = "analyse" /\ job'.pc = "after"
        \/ job.pc = "compare" /\ job'.pc = "write" /\ Changed = {}
        \/ job.pc = "write" /\ job'.pc \in {"replace", "sync"}
    <3>1. ~ (job.pc = "compare" /\ Changed # {} /\ Compare)
      BY <1>1, <1>3, ReportAssumption DEF Compare, Raise, NoReading, Passes
    <3> QED BY <1>3, <3>1
            DEF Analyse, Compare, WriteTemporary, At, Goto, Raise, Types, JobOK
  <2>2. CASE job'.pc # "sync"
    <3>1. Bounded' /\ Changed' = Changed
      BY <1>1, <1>3 DEF Bounded, Changed
    <3>3. Witness(p)'
      BY <1>2, <1>3 DEF Witness
    <3>2. Passes'
      BY <1>1, <1>3, <2>1, <2>2, <3>1 DEF Passes
    <3> QED BY <1>1, <1>2, <1>3, <2>1, <2>2, <3>1, <3>2, <3>3, ReadingGoesOn DEF Reads
  <2>3. CASE job'.pc = "sync"
    <3>1. reading' = NoReading
      BY <2>1, <2>3 DEF Analyse, Compare, WriteTemporary, At, Goto, Raise, Types, JobOK
    <3> QED BY <2>3, <3>1, NothingRead DEF Reads
  <2> QED BY <2>2, <2>3
<1>4. CASE reading' # reading
  <2>1. reading' = NoReading /\ job'.pc = "sync"
    BY <1>4 DEF Analyse, Compare, WriteTemporary, At, Goto, Raise, Types, JobOK
  <2> QED BY <2>1, NothingRead DEF Reads
<1> QED BY <1>3, <1>4

\* An edit: the new version is not the one the first pass has seen, and a file that
\* is removed has none.
LEMMA EditKeeps == ASSUME Types, ReadingOK, NEW f \in Files, Edit(f) PROVE ReadingOK'
<1>1. /\ job.pc \in {"before", "evidence", "analyse", "after"} /\ job.pc \in Reads
      /\ reading \in Reading /\ Bounded /\ Passes /\ reading.edits < MaxEdits
      /\ reading.project \in Project /\ reading.project \in reading.past /\ job' = job
  BY DEF Edit, ReadingOK, Reads
<1>2. PICK v \in {0, reading.edits + 2} \ {reading.project[f]} :
        LET p == [reading.project EXCEPT ![f] = v] IN
        reading' = [reading EXCEPT !.project = p, !.past = @ \union {p}, !.edits = @ + 1]
  BY DEF Edit
<1>4. PICK q : q = [reading.project EXCEPT ![f] = v]
  OBVIOUS
<1>3. reading.edits \in 0 .. MaxEdits /\ reading.edits + 1 \in 0 .. MaxEdits /\ v \in Version
      /\ reading.past \in SUBSET Project
  BY <1>1, <1>2, ReportAssumption DEF Reading, Version
<1>5. q \in Project /\ q[f] = v /\ \A g \in Files : g # f => q[g] = reading.project[g]
  BY <1>1, <1>3, <1>4 DEF Project
<1>6. /\ reading' = [reading EXCEPT !.project = q, !.past = reading.past \union {q},
                                    !.edits = reading.edits + 1]
  BY <1>2, <1>4
<1>7. /\ reading'.project = q /\ reading'.past = reading.past \union {q}
      /\ reading'.edits = reading.edits + 1 /\ reading'.before = reading.before
      /\ reading'.evidence = reading.evidence /\ reading'.after = reading.after
      /\ reading' \in Reading
  BY <1>1, <1>3, <1>5, <1>6 DEF Reading
<1>8. reading.before \in Seq(Version) /\ DOMAIN reading.before \subseteq Files
  BY <1>1, ReportAssumption DEF Reading, Passes, Files
<1>9. \A i \in DOMAIN reading.before : /\ reading.before[i] \in Nat
                                       /\ reading.before[i] <= reading.edits + 1
  BY <1>1, <1>8, ReportAssumption DEF Bounded, Version
<1>10. Bounded'
  <2>1. \A g \in Files : reading.project[g] <= reading.edits + 1 /\ reading.project[g] \in Nat
    BY <1>1, ReportAssumption DEF Bounded, Project, Version
  <2> QED BY <1>3, <1>5, <1>7, <1>9, <2>1 DEF Bounded
<1>11. Passes'
  BY <1>1, <1>7 DEF Passes
<1>12. \E p \in reading'.past : Witness(p)'
  <2>1. CASE job.pc = "before"
    <3>1. reading'.evidence = <<>> /\ reading'.after = <<>> /\ q \in reading'.past
      BY <1>1, <1>7, <2>1 DEF Passes
    <3>2. Witness(q)'
      BY <1>7, <3>1 DEF Witness
    <3> QED BY <3>1, <3>2
  <2>2. PICK p \in reading.past : Witness(p)
    BY <1>1 DEF ReadingOK
  <2>3. ASSUME NEW g \in Files, g \in DOMAIN reading.before, reading.before[g] # 0,
               q[g] = reading.before[g]
        PROVE  reading.project[g] = reading.before[g]
    <3>1. g # f
      BY <1>2, <1>3, <1>5, <1>9, <2>3
    <3> QED BY <1>5, <2>3, <3>1
  <2>4. Witness(p)'
    BY <1>7, <2>2, <2>3 DEF Witness
  <2> QED BY <1>7, <2>2, <2>4
<1> QED BY <1>1, <1>7, <1>5, <1>10, <1>11, <1>12 DEF ReadingOK

\* The steps of a job that reads nothing.
LEMMA NotReading ==
  ASSUME Types, ReadingOK, job.pc \notin Reads, job'.pc \notin Reads,
         reading' = reading \/ reading' = NoReading
  PROVE  ReadingOK'
BY NothingRead DEF ReadingOK

LEMMA StepReading == Types /\ ReadingOK /\ [Next]_vars => ReadingOK'
<1> SUFFICES ASSUME Types, ReadingOK, [Next]_vars PROVE ReadingOK'
  OBVIOUS
<1> USE DEF At, Goto, Raise, Transition, End
<1>1. ASSUME UNCHANGED <<job, reading>> PROVE ReadingOK'
  <2>1. \A p : Witness(p)' = Witness(p)
    BY <1>1 DEF Witness
  <2>2. Bounded' = Bounded /\ Passes' = Passes
    BY <1>1 DEF Bounded, Passes, Changed
  <2> QED BY <1>1, <2>1, <2>2 DEF ReadingOK
<1>2. CASE \/ UNCHANGED vars \/ Start
           \/ \E t \in Tasks : Approve(t) \/ ReadCancel(t) \/ WriteCancel(t) \/ Expire(t) \/ Retry(t)
  BY <1>1, <1>2 DEF vars, Start, Approve, ReadCancel, WriteCancel, Expire, Retry, SetRow
<1>3. CASE Crash
  <2>1. reading' = NoReading /\ job'.pc = "idle"
    BY <1>3 DEF Crash, NoJob
  <2> QED BY <2>1, NothingRead DEF Reads
<1>4. ASSUME NEW t \in Tasks, Claim(t) PROVE ReadingOK'
  <2>1. job.pc = "idle" /\ job'.pc = "claimed" /\ reading' = reading
    BY <1>4 DEF Claim, NoJob
  <2> QED BY <2>1, NotReading DEF Reads
<1>5. CASE Begin
  <2>1. /\ job.pc = "claimed" /\ job'.pc \in {"idle", "sync", "plan", "receipt"}
        /\ (reading' = reading \/ reading' = NoReading)
    <3>1. job.pc = "claimed"
      BY <1>5 DEF Begin
    <3>2. CASE End("cancelled")
      BY <3>1, <3>2 DEF NoJob
    <3>3. ASSUME NEW p \in {"plan", "receipt"}, Goto(p) PROVE job'.pc = p /\ reading' = reading
      BY <3>3 DEF Types, JobOK
    <3>4. CASE Raise("blocked")
      BY <3>1, <3>4 DEF Types, JobOK
    <3> QED BY <1>5, <3>1, <3>2, <3>3, <3>4, BeginGoes
  <2> QED BY <2>1, NotReading DEF Reads
<1>6. CASE RunnerRaises \/ ReportFails
  <2>1. job'.pc = "sync" /\ reading' = NoReading
    BY <1>6 DEF RunnerRaises, ReportFails, Types, JobOK
  <2> QED BY <2>1, NothingRead DEF Reads
<1>7. CASE Plan \/ CheckReceipt \/ LookForDelivery
  <2>1. /\ job.pc \in {"plan", "receipt", "look"}
        /\ job'.pc \in {"park", "sync", "look", "return", "recover"}
        /\ (reading' = reading \/ reading' = NoReading)
    BY <1>7 DEF Plan, CheckReceipt, LookForDelivery, Types, JobOK
  <2> QED BY <2>1, NotReading DEF Reads
<1>8. CASE Park \/ Return \/ Finish
  <2>1. /\ job.pc \in {"park", "return", "finish"} /\ job'.pc \in {"idle", "sync"}
        /\ (reading' = reading \/ reading' = NoReading)
    <3>1. CASE Park
      <4>1. CASE End("waiting_approval")
        BY <3>1, <4>1, ParkGoes DEF NoJob
      <4>2. CASE Raise("failed")
        BY <3>1, <4>2, ParkGoes DEF Types, JobOK
      <4> QED BY <3>1, <4>1, <4>2, ParkGoes
    <3>2. CASE Return \/ Finish
      BY <3>2 DEF Return, Finish, NoJob
    <3> QED BY <1>8, <3>1, <3>2
  <2> QED BY <2>1, NotReading DEF Reads
<1>9. CASE Replace
  <2>1. job'.pc = "generated" /\ reading' = NoReading
    BY <1>9 DEF Replace, Types, JobOK
  <2> QED BY <2>1, NothingRead DEF Reads
<1>10. CASE Announce \/ Send \/ Verify \/ Complete \/ Deliver \/ Synchronize
  <2>1. /\ job.pc \in {"generated", "send", "verify", "complete", "deliver", "sync"}
        /\ job'.pc \in {"send", "verify", "complete", "deliver", "return", "sync", "finish"}
        /\ (reading' = reading \/ reading' = NoReading)
    BY <1>10 DEF Announce, Send, Verify, Complete, Deliver, Synchronize, Types, JobOK
  <2> QED BY <2>1, NotReading DEF Reads
<1> QED BY <1>2, <1>3, <1>4, <1>5, <1>6, <1>7, <1>8, <1>9, <1>10, StartReading,
           SnapshotBeforeKeeps, GatherEvidenceKeeps, SnapshotAfterKeeps, CompareKeeps, EditKeeps
        DEF Next, WorkerStep

LEMMA ReportTypes == Types /\ ReadingOK /\ [Next]_vars => Types'
<1> SUFFICES ASSUME Types, ReadingOK, [Next]_vars PROVE Types'
  OBVIOUS
<1>1. ReadingOK'
  BY StepReading
\* What TypeOK says of a reading.
<1>2. /\ Partial(reading.before)' /\ Partial(reading.evidence)' /\ Partial(reading.after)'
      /\ reading'.past # {} => reading'.project \in reading'.past
  <2>1. CASE job'.pc \in Reads
    BY <1>1, <2>1 DEF ReadingOK, Reading, Passes, Partial, Version
  <2>2. CASE job'.pc \notin Reads
    <3>1. /\ reading'.before = <<>> /\ reading'.evidence = <<>> /\ reading'.after = <<>>
          /\ reading'.past = {}
      BY <1>1, <2>2 DEF ReadingOK, NoReading
    <3>2. Partial(<<>>)
      BY ReportAssumption DEF Partial
    <3> QED BY <3>1, <3>2 DEF Partial
  <2> QED BY <2>1, <2>2
<1> DEFINE Outputs == [Tasks -> {NoReport, "sound", "mixed"}]
           Flow == Underway \union Ended
           Cancels == [Tasks -> {"none", "waits", "runs"}]
<1>3. /\ wf \in Flow /\ output \in Outputs /\ task \in [Tasks -> Row] /\ late \subseteq Tasks
      /\ crashes \in 0 .. MaxCrashes /\ HistOK /\ JobOK /\ job.out \in Closed
      /\ (job.pc # "idle" => up /\ Working(task[T]))
      /\ (up => \A t \in Tasks : task[t].status = "running" => t = T)
      /\ cancels \in Cancels
  BY DEF Types, TypeOK, JobOK
<1>4. ASSUME wf' \in Flow, output' \in Outputs, task' \in [Tasks -> Row], late' \subseteq Tasks,
             crashes' \in 0 .. MaxCrashes, HistOK', JobOK', cancels' \in Cancels,
             job'.pc # "idle" => up' /\ Working(task'[job'.task]),
             up' => \A t \in Tasks : task'[t].status = "running" => t = job'.task
      PROVE  Types'
  BY <1>2, <1>4 DEF Types, TypeOK, JobOK, T, Errors
<1>5. {"planning", "waiting_approval", "executing", "verifying", "completed", "failed",
       "cancelled"} \subseteq Flow
  BY DEF Underway, Ended
\* A job that goes on with its task's row as it is.
<1>6. ASSUME job.pc # "idle", job'.task = T,
             job' \in [pc : Steps \ {"idle"}, task : 0 .. MaxTasks, out : Errors],
             UNCHANGED <<up, crashes, cancels, late>>, wf' \in Flow, output' \in Outputs, HistOK',
             task' \in [Tasks -> Row],
             \A t \in Tasks : task'[t].status = task[t].status /\ task'[t].cancel = task[t].cancel
      PROVE  Types'
  <2>1. JobOK' /\ job'.pc # "idle" /\ T \in Tasks
    BY <1>3, <1>6 DEF JobOK, T
  <2>2. Working(task'[T])
    BY <1>3, <1>6, <2>1 DEF Working
  <2> QED BY <1>3, <1>4, <1>6, <2>1, <2>2
<1>21. ASSUME job' = NoJob PROVE JobOK'
  <2>1. NoJob \in [pc : Steps, task : 0 .. MaxTasks, out : Errors] /\ NoJob.pc = "idle"
    BY ReportAssumption DEF NoJob, Steps, Errors, Closed
  <2> QED BY <1>21, <2>1 DEF JobOK
\* A job that ends.
<1>7. ASSUME NEW o \in Closed \union {"waiting_approval"}, job.pc # "idle", End(o), wf' = wf,
             UNCHANGED <<output, up, crashes, cancels, hist>>
      PROVE  Types'
  <2>1. T \in Tasks /\ task' = [task EXCEPT ![T] = [task[T] EXCEPT !.status = o]] /\ job' = NoJob
    BY <1>3, <1>7 DEF End, JobOK
  <2>2. [task[T] EXCEPT !.status = o] \in Row /\ [task[T] EXCEPT !.status = o].status = o
    BY <1>3, <2>1 DEF Row, Closed
  <2>3. task' \in [Tasks -> Row] /\ \A t \in Tasks : task'[t].status # "running"
    BY <1>3, <1>7, <2>1, <2>2 DEF Closed
  <2>4. JobOK'
    BY <2>1, <1>21
  <2> QED BY <1>3, <1>4, <1>7, <2>1, <2>3, <2>4 DEF NoJob, hist, HistOK
<1>8. CASE UNCHANGED vars
  <2>1. JobOK' /\ HistOK'
    BY <1>3, <1>8 DEF vars, hist, JobOK, HistOK, T
  <2> QED BY <1>3, <1>4, <1>8, <2>1 DEF vars, hist, T
<1>9. CASE Moves
  <2>1. /\ job' \in [pc : Steps \ {"idle", "claimed"}, task : 0 .. MaxTasks, out : Errors]
        /\ job'.task = T /\ job.pc # "idle" /\ T \in Tasks
        /\ UNCHANGED <<task, up, crashes, cancels, lost, late>>
    BY <1>9, MovesOn
  <2>2. wf' \in Flow
    BY <1>3, <1>5, <1>9 DEF Moves, RunnerRaises, ReportFails, Plan, CheckReceipt, LookForDelivery,
       Recover, SnapshotBefore, GatherEvidence, Analyse, SnapshotAfter, Compare, WriteTemporary,
       Replace, Announce, Send, Verify, Complete, Synchronize, Transition, otherThanJob
  <2>3. output' \in Outputs
    BY <1>3, <1>9 DEF Moves, RunnerRaises, ReportFails, Plan, CheckReceipt, LookForDelivery,
       Recover, SnapshotBefore, GatherEvidence, Analyse, SnapshotAfter, Compare, WriteTemporary,
       Replace, Announce, Send, Verify, Complete, Synchronize, otherThanJob, otherThanFlow
  <2>4. sends' \in [Tasks -> Nat]
    <3>1. CASE Send
      <4>1. sends' = [sends EXCEPT ![T] = sends[T] + 1]
        BY <3>1 DEF Send
      <4> QED BY <1>3, <2>1, <4>1 DEF HistOK
    <3>2. CASE ~ Send
      <4>1. sends' = sends
        BY <1>9, <3>2 DEF Moves, RunnerRaises, ReportFails, Plan, CheckReceipt, LookForDelivery,
           Recover, SnapshotBefore, GatherEvidence, Analyse, SnapshotAfter, Compare,
           WriteTemporary, Replace, Announce, Verify, Complete, Synchronize, otherThanJob,
           otherThanFlow, hist
      <4> QED BY <1>3, <4>1 DEF HistOK
    <3> QED BY <3>1, <3>2
  <2> QED BY <1>3, <1>6, <2>1, <2>2, <2>3, <2>4 DEF HistOK
<1>10. ASSUME NEW t \in Tasks, Claim(t) PROVE Types'
  <2>1. /\ up /\ job.pc = "idle" /\ job' = [NoJob EXCEPT !.pc = "claimed", !.task = t]
        /\ task' = [task EXCEPT ![t] = [task[t] EXCEPT !.status = "running"]]
        /\ UNCHANGED <<wf, output, up, crashes, cancels, hist>>
    BY <1>10 DEF Claim, At, otherThanTask
  <2>2. [task[t] EXCEPT !.status = "running"] \in Row
    BY <1>3 DEF Row
  <2>3. T \notin Tasks
    BY <1>3, <2>1, ReportAssumption DEF JobOK, NoJob, T, Tasks
  <2>4. /\ task' \in [Tasks -> Row] /\ task'[t].status = "running"
        /\ \A u \in Tasks : task'[u].status = "running" => u = t
    BY <1>3, <2>1, <2>2, <2>3
  <2>6. Working(task'[t])
    BY <2>4 DEF Working
  <2>5. JobOK' /\ job'.task = t
    <3>1. t \in 0 .. MaxTasks /\ "claimed" \in Steps /\ "failed" \in Errors
      BY ReportAssumption DEF Tasks, Steps, Errors, Closed
    <3>2. job' = [pc |-> "claimed", task |-> t, out |-> "failed"]
      BY <2>1 DEF NoJob
    <3> QED BY <3>1, <3>2 DEF JobOK, T
  <2> QED BY <1>3, <1>4, <2>1, <2>4, <2>5, <2>6 DEF hist, HistOK
<1>11. CASE Begin
  <2>1. CASE End("cancelled") /\ wf' = wf
    BY <1>7, <1>11, <2>1, BeginGoes DEF Closed
  <2>2. CASE task' = task /\ wf' \in {wf, "planning", "waiting_approval"}
             /\ \E p \in {"plan", "receipt"} : Goto(p)
    <3>1. /\ job' \in [pc : Steps \ {"idle"}, task : 0 .. MaxTasks, out : Errors]
          /\ job'.task = T
      BY <1>3, <2>2 DEF Goto, JobOK, Steps, T
    <3> QED BY <1>3, <1>5, <1>6, <1>11, <2>2, <3>1, BeginGoes DEF hist, HistOK
  <2>3. CASE task' = task /\ wf' = wf /\ Raise("blocked")
    <3>1. /\ job' \in [pc : Steps \ {"idle"}, task : 0 .. MaxTasks, out : Errors]
          /\ job'.task = T
      BY <1>3, <2>3 DEF Raise, JobOK, Steps, T, Errors, Closed
    <3> QED BY <1>3, <1>6, <1>11, <2>3, <3>1, BeginGoes DEF hist, HistOK
  <2> QED BY <1>11, <2>1, <2>2, <2>3, BeginGoes
<1>12. CASE Park \/ Return \/ Finish
  <2>1. job.out \in Closed /\ {"cancelled", "succeeded"} \subseteq Closed
    BY <1>3 DEF Closed
  <2>2. CASE Return \/ Finish
    BY <1>7, <2>1, <2>2 DEF Return, Finish, At, otherThanTask
  <2>3. CASE Park /\ End("waiting_approval")
    BY <1>7, <2>3, ParkGoes
  <2>4. CASE Park /\ Raise("failed") /\ task' = task
    <3>1. /\ job' \in [pc : Steps \ {"idle"}, task : 0 .. MaxTasks, out : Errors]
          /\ job'.task = T
      BY <1>3, <2>4 DEF Raise, JobOK, Steps, T, Errors, Closed
    <3> QED BY <1>3, <1>6, <2>4, <3>1, ParkGoes DEF hist, HistOK
  <2> QED BY <1>12, <2>2, <2>3, <2>4, ParkGoes
<1>13. CASE Deliver
  <2>1. T \in Tasks
    BY <1>3, <1>13 DEF Deliver, At, JobOK
  <2>2. [task[T] EXCEPT !.delivered = TRUE] \in Row
        /\ [task[T] EXCEPT !.delivered = TRUE].status = task[T].status
        /\ [task[T] EXCEPT !.delivered = TRUE].cancel = task[T].cancel
    BY <1>3, <2>1 DEF Row
  <2>3. /\ job' \in [pc : Steps \ {"idle"}, task : 0 .. MaxTasks, out : Errors]
        /\ job'.task = T /\ job.pc # "idle"
    BY <1>3, <1>13 DEF Deliver, At, Goto, JobOK, Steps, T
  <2>4. /\ task' \in [Tasks -> Row]
        /\ \A t \in Tasks : task'[t].status = task[t].status /\ task'[t].cancel = task[t].cancel
    BY <1>3, <1>13, <2>1, <2>2 DEF Deliver
  <2> QED BY <1>3, <1>6, <1>13, <2>3, <2>4 DEF Deliver, otherThanTask, hist, HistOK
\* Commands close a row whose job goes on only with the cancel flag.
<1>14. ASSUME NEW t \in Tasks, NEW r \in Row, SetRow(t, r), up, late' \subseteq Tasks,
              cancels' \in Cancels, r.status = "running" => task[t].status = "running",
              Working(task[t]) => Working(r)
       PROVE  Types'
  <2>1. task' = [task EXCEPT ![t] = r] /\ UNCHANGED <<wf, output, job, up, crashes, sends, lost>>
    BY <1>14 DEF SetRow
  <2>2. /\ task' \in [Tasks -> Row]
        /\ \A u \in Tasks : (task'[u].status = "running" => task[u].status = "running")
             /\ (Working(task[u]) => Working(task'[u]))
    BY <1>3, <1>14, <2>1
  <2>3. JobOK' /\ HistOK' /\ job'.task = T
    BY <1>3, <2>1 DEF JobOK, HistOK, T
  <2>4. job'.pc # "idle" => T \in Tasks
    BY <1>3, <2>1 DEF JobOK
  <2> QED BY <1>3, <1>4, <1>14, <2>1, <2>2, <2>3, <2>4
<1>15. ASSUME NEW t \in Tasks, Approve(t) PROVE Types'
  <2> DEFINE r == [task[t] EXCEPT !.status = "queued", !.phase = "execute", !.approved = TRUE]
  <2>1. r \in Row /\ r.status = "queued" /\ r.cancel = task[t].cancel
    BY <1>3 DEF Row
  <2>2. /\ SetRow(t, r) /\ up /\ late' = late /\ cancels' = cancels
        /\ task[t].status = "waiting_approval"
    BY <1>15 DEF Approve
  <2>3. task[t].status # "running" /\ (Working(task[t]) => Working(r))
    BY <2>1, <2>2 DEF Working, Closed
  <2> HIDE DEF r
  <2> QED BY <1>3, <1>14, <2>1, <2>2, <2>3
<1>16. ASSUME NEW t \in Tasks, WriteCancel(t) PROVE Types'
  <2> DEFINE r == [task[t] EXCEPT !.cancel = TRUE,
                                  !.status = IF cancels[t] = "runs" THEN task[t].status
                                             ELSE "cancelled"]
  <2>1. /\ r \in Row /\ r.cancel /\ (r.status = "running" => task[t].status = "running")
        /\ r.status \in {task[t].status, "cancelled"}
    <3> DEFINE s == IF cancels[t] = "runs" THEN task[t].status ELSE "cancelled"
    <3>1. task[t] \in Row
      BY <1>3
    <3>2. s \in {task[t].status, "cancelled"}
      OBVIOUS
    <3>3. r = [task[t] EXCEPT !.cancel = TRUE, !.status = s]
      OBVIOUS
    <3> HIDE DEF r, s
    <3> QED BY <3>1, <3>2, <3>3 DEF Row, Closed
  <2>2. /\ SetRow(t, r) /\ up /\ late' \subseteq late \union {t}
        /\ cancels' = [cancels EXCEPT ![t] = "none"]
    BY <1>16 DEF WriteCancel
  <2> HIDE DEF r
  <2>3. cancels' \in Cancels
    BY <1>3, <2>2
  <2>4. Working(task[t]) => Working(r)
    BY <2>1 DEF Working, Closed
  <2> QED BY <1>3, <1>14, <2>1, <2>2, <2>3, <2>4
<1>22. ASSUME NEW t \in Tasks, ReadCancel(t) PROVE Types'
  <2>1. /\ UNCHANGED <<wf, output, task, job, up, crashes, hist>>
        /\ \E c \in {"waits", "runs"} : cancels' = [cancels EXCEPT ![t] = c]
    BY <1>22 DEF ReadCancel
  <2>2. cancels' \in Cancels
    BY <1>3, <2>1
  <2>3. JobOK' /\ HistOK' /\ job'.task = T
    BY <1>3, <2>1 DEF JobOK, HistOK, T, hist
  <2> QED BY <1>3, <1>4, <2>1, <2>2, <2>3 DEF hist, T
<1>23. ASSUME NEW t \in Tasks, Expire(t) PROVE Types'
  <2> DEFINE r == [task[t] EXCEPT !.status = "cancelled"]
  <2>1. r \in Row /\ r.status = "cancelled" /\ r.cancel = task[t].cancel
    BY <1>3 DEF Row, Closed
  <2>2. /\ SetRow(t, r) /\ up /\ late' = late /\ cancels' = cancels
        /\ task[t].status = "waiting_approval"
    BY <1>23 DEF Expire
  <2>3. ~ Working(task[t]) /\ r.status # "running"
    BY <2>1, <2>2 DEF Working, Closed
  <2> HIDE DEF r
  <2> QED BY <1>3, <1>14, <2>1, <2>2, <2>3
<1>17. ASSUME NEW u \in Tasks, Retry(u) PROVE Types'
  <2>1. PICK t \in Tasks, reuse \in {task[u].approved, FALSE} :
          /\ task[t].status = "absent"
          /\ SetRow(t, [NewRow EXCEPT !.retry = TRUE, !.approved = reuse,
                                      !.phase = IF reuse THEN "execute" ELSE "planning"])
    BY <1>17 DEF Retry, NewRow
  <2> DEFINE r == [NewRow EXCEPT !.retry = TRUE, !.approved = reuse,
                                 !.phase = IF reuse THEN "execute" ELSE "planning"]
  <2>2. reuse \in BOOLEAN
    BY <1>3 DEF Row
  <2>3. r \in Row /\ r.status = "queued"
    BY <2>2 DEF Row, NewRow
  <2>4. SetRow(t, r) /\ up /\ late' = late /\ cancels' = cancels
    BY <1>17, <2>1 DEF Retry
  <2>5. ~ Working(task[t])
    BY <2>1 DEF Working, Closed
  <2> HIDE DEF r
  <2> QED BY <1>3, <1>14, <2>1, <2>3, <2>4, <2>5
<1>18. ASSUME NEW f \in Files, Edit(f) PROVE Types'
  <2>1. UNCHANGED <<wf, output, task, job, up, crashes, cancels, sends, lost, late>>
    BY <1>18 DEF Edit, otherThanJob, hist
  <2>2. JobOK' /\ HistOK' /\ job'.task = T
    BY <1>3, <2>1 DEF JobOK, HistOK, T
  <2> QED BY <1>3, <1>4, <2>1, <2>2
<1>19. CASE Crash
  <2>1. /\ up' = FALSE /\ crashes' \in 0 .. MaxCrashes /\ job' = NoJob
        /\ UNCHANGED <<wf, task, output, sends, late>> /\ cancels' \in Cancels
    BY <1>3, <1>19, ReportAssumption DEF Crash
  <2>2. HistOK'
    BY <1>3, <1>19 DEF Crash, HistOK, JobOK
  <2>3. JobOK'
    BY <2>1, <1>21
  <2> QED BY <1>3, <1>4, <2>1, <2>2, <2>3 DEF NoJob
<1>20. CASE Start
  <2>1. /\ ~ up /\ task' = [t \in Tasks |-> Recovered(task[t])]
        /\ UNCHANGED <<wf, output, job, crashes, cancels, hist>>
    BY <1>20 DEF Start
  <2>2. \A t \in Tasks : Recovered(task[t]) \in Row /\ Recovered(task[t]).status # "running"
    BY <1>3 DEF Recovered, Row, Closed
  <2>3. JobOK' /\ HistOK' /\ job'.pc = "idle"
    BY <1>3, <2>1 DEF JobOK, HistOK, T, hist
  <2> QED BY <1>3, <1>4, <2>1, <2>2, <2>3 DEF hist
<1> QED BY <1>8, <1>9, <1>10, <1>11, <1>12, <1>13, <1>15, <1>16, <1>17, <1>18, <1>19, <1>20,
           <1>22, <1>23 DEF Next, WorkerStep, Moves

-------------------------------------------------------------------------------
(* What a report says.                                                      *)

\* At the end of the passes the witness is a state of the project that the evidence
\* describes.
LEMMA ReportsAreSound ==
  ASSUME Types, ReadingOK, job.pc = "replace"
  PROVE  Sound
<1>1. reading \in Reading /\ Passes
  BY DEF ReadingOK, Reads
<1>2. PICK p \in reading.past : Witness(p)
  BY DEF ReadingOK, Reads
<1>3. DOMAIN reading.before = Files /\ DOMAIN reading.after = Files
  BY <1>1 DEF Reading, Passes, Files
<1>4. \A f \in Files : reading.after[f] = reading.before[f]
  BY <1>1 DEF Passes, Changed
<1> QED BY <1>2, <1>3, <1>4 DEF Witness, Sound

LEMMA StepOutput == Types /\ ReadingOK /\ OutputIsSound /\ [Next]_vars => OutputIsSound'
<1> SUFFICES ASSUME Types, ReadingOK, OutputIsSound, [Next]_vars PROVE OutputIsSound'
  OBVIOUS
<1>1. CASE Replace
  <2>1. Sound
    BY <1>1, ReportsAreSound DEF Replace, At
  <2>2. output' = [output EXCEPT ![T] = "sound"]
    BY <1>1, <2>1 DEF Replace
  <2> QED BY <2>2 DEF OutputIsSound, Types, TypeOK
<1>2. CASE output' = output
  BY <1>2 DEF OutputIsSound
<1> QED BY <1>1, <1>2, BeginGoes
        DEF Next, WorkerStep, vars, Claim, RunnerRaises, ReportFails, Plan, Park, CheckReceipt,
            LookForDelivery, Recover, SnapshotBefore, GatherEvidence, Analyse, SnapshotAfter,
            Compare, WriteTemporary, Announce, Send, Verify, Complete, Deliver, Return,
            Synchronize, Finish, Approve, ReadCancel, WriteCancel, Expire,
            Retry, SetRow, Edit, Crash, Start,
            otherThanJob, otherThanTask, otherThanFlow

-------------------------------------------------------------------------------
(* How often a file is sent.                                                *)

Delivery == Sent /\ JobSent /\ SentAgain /\ SuccessIsSent

Beyond == {"verify", "complete", "deliver", "sync", "finish"}

LEMMA StepDelivery == Types /\ Types' /\ Delivery /\ [Next]_vars => Delivery'
<1> SUFFICES ASSUME Types, Types', Delivery, [Next]_vars PROVE Delivery'
  OBVIOUS
<1>1. /\ task \in [Tasks -> Row] /\ sends \in [Tasks -> Nat] /\ lost \in [Tasks -> Nat]
      /\ job \in [pc : Steps, task : 0 .. MaxTasks, out : Errors]
      /\ (job.pc # "idle" => up /\ T \in Tasks /\ Working(task[T]))
      /\ (up => \A t \in Tasks : task[t].status = "running" => t = T)
      /\ Sent /\ JobSent /\ SentAgain /\ SuccessIsSent
  BY DEF Types, TypeOK, JobOK, HistOK, Delivery
<1>23. job.pc = "idle" => T \notin Tasks
  BY DEF Types, JobOK, NoJob, T, Tasks
<1>2. "running" \notin Closed /\ "queued" \notin Closed /\ "waiting_approval" \notin Closed
      /\ "absent" \notin Closed /\ "succeeded" \notin Errors /\ Errors \subseteq Closed
  BY DEF Closed, Errors
\* A job that goes on without another sending.
<1>3. ASSUME UNCHANGED <<task, sends, lost, late>>, job'.task = T, JobSent',
             job.pc \in Beyond => job'.pc \in Beyond \/ task[T].delivered
      PROVE  Delivery'
  BY <1>1, <1>3 DEF Delivery, Sent, SentAgain, SuccessIsSent, Beyond, T
<1>4. CASE UNCHANGED vars \/ \E f \in Files : Edit(f)
  <2>1. UNCHANGED <<task, sends, lost, late, job>>
    BY <1>4 DEF vars, hist, Edit, otherThanJob
  <2> QED BY <1>1, <1>3, <2>1 DEF JobSent, T
<1>5. CASE Moves /\ ~ Send
  <2>1. job'.task = T /\ T \in Tasks /\ UNCHANGED <<task, lost, late>>
    BY <1>5, MovesOn
  <2>2. sends' = sends
    BY <1>5 DEF Moves, RunnerRaises, ReportFails, Plan, CheckReceipt, LookForDelivery,
       Recover, SnapshotBefore, GatherEvidence, Analyse, SnapshotAfter, Compare,
       WriteTemporary, Replace, Announce, Verify, Complete, Synchronize, otherThanJob,
       otherThanFlow, hist
  <2> USE DEF At, Goto, Raise, Transition
  <2>3. ASSUME job'.pc \in {"sync", "finish", "park", "look", "receipt"},
               job.pc \in Beyond => job'.pc \in Beyond
        PROVE  Delivery'
    BY <1>3, <2>1, <2>2, <2>3 DEF JobSent, Unsent, Reads
  <2>4. CASE RunnerRaises \/ ReportFails \/ Synchronize
    <3>1. job'.pc \in {"sync", "finish"}
      BY <1>1, <2>4 DEF RunnerRaises, ReportFails, Synchronize
    <3> QED BY <2>3, <3>1 DEF Beyond
  <2>5. CASE Plan \/ CheckReceipt
    <3>1. job.pc \in {"plan", "receipt"} /\ job'.pc \in {"park", "look", "sync"}
      BY <1>1, <2>5 DEF Plan, CheckReceipt
    <3> QED BY <2>3, <3>1 DEF Beyond
  <2>6. CASE LookForDelivery
    <3>1. job.pc = "look" /\ job'.pc = IF task[T].delivered THEN "return" ELSE "recover"
      BY <1>1, <2>6 DEF LookForDelivery
    <3>2. JobSent'
      BY <1>1, <2>1, <2>2, <3>1 DEF JobSent, Sent, Unsent, Reads, T
    <3> QED BY <1>3, <2>1, <2>2, <3>1, <3>2 DEF Beyond
  <2>7. CASE Recover \/ SnapshotBefore \/ GatherEvidence \/ Analyse \/ SnapshotAfter \/ Compare
             \/ WriteTemporary \/ Replace
    <3>1. job.pc \in Unsent /\ job.pc \notin Beyond
      BY <2>7 DEF Recover, SnapshotBefore, GatherEvidence, Analyse, SnapshotAfter, Compare,
                  WriteTemporary, Replace, Unsent, Reads, Beyond
    <3>2. job'.pc \in Reads \union {"generated", "sync"}
      BY <1>1, <2>7 DEF Recover, SnapshotBefore, GatherEvidence, Analyse, SnapshotAfter, Compare,
                  WriteTemporary, Replace, Reads
    <3>3. JobSent'
      BY <1>1, <2>1, <2>2, <3>1, <3>2 DEF JobSent, Unsent, Reads, T
    <3> QED BY <1>3, <2>1, <2>2, <3>1, <3>3
  <2>8. CASE Announce
    <3>1. job.pc = "generated" /\ job'.pc = "send" /\ ~ task[T].cancel
      BY <1>1, <2>8 DEF Announce, Heard
    <3>2. JobSent'
      BY <1>1, <2>1, <2>2, <3>1 DEF JobSent, Unsent, Reads, T
    <3> QED BY <1>3, <2>1, <2>2, <3>1, <3>2 DEF Beyond
  <2>9. CASE Verify \/ Complete
    <3>1. job.pc \in {"verify", "complete"} /\ job'.pc \in {"complete", "deliver", "sync"}
      BY <1>1, <2>9 DEF Verify, Complete
    <3>2. JobSent'
      BY <1>1, <2>1, <2>2, <3>1 DEF JobSent, Unsent, Reads, T
    <3> QED BY <1>3, <2>1, <2>2, <3>1, <3>2 DEF Beyond
  <2> QED BY <1>5, <2>4, <2>5, <2>6, <2>7, <2>8, <2>9 DEF Moves
<1>6. CASE Send
  <2>1. /\ job.pc = "send" /\ job'.pc \in {"verify", "sync"} /\ job'.task = T
        /\ sends' = [sends EXCEPT ![T] = sends[T] + 1] /\ UNCHANGED <<task, lost, late>>
    BY <1>1, <1>6 DEF Send, At, Goto, Raise, T
  <2>2. T \in Tasks /\ ~ task[T].delivered /\ Working(task[T])
    BY <1>1, <2>1 DEF JobSent, Unsent
  <2>3. ~ (sends[T] > lost[T])
    BY <1>1, <1>2, <2>1, <2>2 DEF Sent
  <2>4. /\ \A t \in Tasks : /\ sends'[t] \in Nat /\ sends'[t] >= sends[t]
                            /\ (t # T => sends'[t] = sends[t])
        /\ sends'[T] = sends[T] + 1
    BY <1>1, <2>1, <2>2
  <2>5. JobSent'
    BY <1>1, <2>1, <2>2, <2>4 DEF JobSent, Unsent, Reads, T
  <2>6. Sent'
    BY <1>1, <2>1, <2>2, <2>4 DEF Sent, T, Working, Closed
  <2>7. SentAgain' /\ SuccessIsSent'
    BY <1>1, <2>1, <2>2, <2>3, <2>4 DEF SentAgain, SuccessIsSent
  <2> QED BY <2>5, <2>6, <2>7 DEF Delivery
\* A row that changes while the file is not sent.
<1>7. ASSUME NEW t \in Tasks, NEW r \in Row,
             \A u \in Tasks : task'[u] = IF u = t THEN r ELSE task[u],
             UNCHANGED <<sends, lost>>, JobSent',
             r.delivered => sends[t] > 0, r.status = "absent" => sends[t] = 0,
             r.status = "succeeded" => sends[t] > 0,
             sends[t] > lost[t] => r.delivered \/ (t # job'.task /\ r.status \in Closed)
                                   \/ (t = job'.task /\ job'.pc \in Beyond),
             job' = job \/ t = T \/ T \notin Tasks,
             job' = job \/ job'.task = t \/ job'.task \notin Tasks
      PROVE  Delivery'
  BY <1>1, <1>7 DEF Delivery, Sent, SentAgain, SuccessIsSent, Beyond, T
<1>8. ASSUME NEW o \in Closed \union {"waiting_approval"}, End(o), UNCHANGED hist,
             job.pc \in {"claimed", "park", "return", "finish"},
             o = "waiting_approval" => job.pc = "park", o = "succeeded" => job.pc = "return"
      PROVE  Delivery'
  <2> DEFINE r == [task[T] EXCEPT !.status = o]
  <2>1. T \in Tasks /\ task' = [task EXCEPT ![T] = r] /\ job' = NoJob
    BY <1>1, <1>8 DEF End
  <2>2. r \in Row /\ r.status = o /\ r.delivered = task[T].delivered
    BY <1>1, <2>1 DEF Row, Closed
  <2>3. JobSent'
    BY <2>1 DEF JobSent, NoJob, Unsent, Reads
  <2>4. /\ r.delivered => sends[T] > 0
        /\ o = "succeeded" => sends[T] > 0
        /\ sends[T] > lost[T] => r.delivered \/ o \in Closed
    BY <1>1, <1>2, <1>8, <2>1, <2>2 DEF Sent, JobSent
  <2>5. \A u \in Tasks : task'[u] = IF u = T THEN r ELSE task[u]
    BY <1>1, <2>1
  <2> HIDE DEF r
  <2>7. r.status # "absent" /\ (r.status = "succeeded" => sends[T] > 0)
    BY <1>2, <1>8, <2>2, <2>4
  <2>8. /\ sends[T] > lost[T] => r.delivered \/ r.status \in Closed
        /\ job'.task \notin Tasks
    BY <2>1, <2>2, <2>4 DEF NoJob, Tasks
  <2>9. UNCHANGED <<sends, lost>>
    BY <1>8 DEF hist
  <2>10. PICK t \in Tasks, x \in Row : t = T /\ x = r
    BY <2>1, <2>2
  <2> QED BY <1>7, <2>3, <2>4, <2>5, <2>7, <2>8, <2>9, <2>10
<1>9. ASSUME NEW t \in Tasks, Claim(t) PROVE Delivery'
  <2> DEFINE r == [task[t] EXCEPT !.status = "running"]
  <2>1. /\ job.pc = "idle" /\ job'.pc = "claimed" /\ job'.task = t /\ task' = [task EXCEPT ![t] = r]
        /\ task[t].status = "queued" /\ UNCHANGED <<sends, lost>>
    BY <1>9 DEF Claim, At, NoJob, otherThanTask, hist
  <2>2. r \in Row /\ r.status = "running" /\ r.delivered = task[t].delivered
    BY <1>1 DEF Row
  <2>3. JobSent'
    BY <2>1 DEF JobSent, Unsent, Reads
  <2>4. /\ r.delivered => sends[t] > 0
        /\ sends[t] > lost[t] => r.delivered
    BY <1>1, <1>2, <2>1, <2>2 DEF Sent
  <2>5. \A u \in Tasks : task'[u] = IF u = t THEN r ELSE task[u]
    BY <1>1, <2>1
  <2> HIDE DEF r
  <2>7. PICK x \in Row : x = r
    BY <2>2
  <2> QED BY <1>2, <1>7, <1>23, <2>1, <2>2, <2>3, <2>4, <2>5, <2>7
<1>10. CASE Begin
  <2>1. job.pc = "claimed" /\ UNCHANGED hist
    BY <1>10, BeginGoes
  <2>2. CASE End("cancelled")
    BY <1>8, <2>1, <2>2 DEF Closed
  <2>3. CASE task' = task /\ \E p \in {"plan", "receipt"} : Goto(p)
    <3>1. job'.pc \in {"plan", "receipt"} /\ job'.task = T
      BY <1>1, <2>3 DEF Goto, T
    <3> QED BY <1>3, <2>1, <2>3, <3>1 DEF hist, Beyond, JobSent, Unsent, Reads
  <2>4. CASE task' = task /\ Raise("blocked")
    <3>1. job'.pc = "sync" /\ job'.task = T
      BY <1>1, <2>4 DEF Raise, T
    <3> QED BY <1>3, <2>1, <2>4, <3>1 DEF hist, Beyond, JobSent, Unsent, Reads
  <2> QED BY <1>10, <2>2, <2>3, <2>4, BeginGoes
<1>11. CASE Park
  <2>1. CASE End("waiting_approval")
    BY <1>8, <1>11, <2>1, ParkGoes
  <2>2. CASE Raise("failed") /\ task' = task
    <3>1. job'.pc = "sync" /\ job'.task = T
      BY <1>1, <2>2 DEF Raise, T
    <3> QED BY <1>3, <1>11, <2>2, <3>1, ParkGoes DEF hist, Beyond, JobSent, Unsent, Reads
  <2> QED BY <1>11, <2>1, <2>2, ParkGoes
<1>12. CASE Return
  BY <1>8, <1>12 DEF Return, At, otherThanTask, Closed
<1>13. CASE Finish
  BY <1>1, <1>2, <1>8, <1>13 DEF Finish, At, otherThanTask
<1>14. CASE Deliver
  <2> DEFINE r == [task[T] EXCEPT !.delivered = TRUE]
  <2>1. /\ job.pc = "deliver" /\ job'.pc = "return" /\ job'.task = T /\ T \in Tasks
        /\ task' = [task EXCEPT ![T] = r] /\ UNCHANGED <<sends, lost>> /\ sends[T] > 0
        /\ task[T].status = "running"
    BY <1>1, <1>14 DEF Deliver, At, Goto, otherThanTask, hist, JobSent, T, Heard, Working
  <2>2. r \in Row /\ r.status = "running" /\ r.delivered
    BY <1>1, <2>1 DEF Row
  <2>3. JobSent'
    BY <2>1 DEF JobSent, Unsent, Reads, T
  <2>4. \A u \in Tasks : task'[u] = IF u = T THEN r ELSE task[u]
    BY <1>1, <2>1
  <2> HIDE DEF r
  <2>5. PICK t \in Tasks, x \in Row : t = T /\ x = r
    BY <2>1, <2>2
  <2> QED BY <1>7, <2>1, <2>2, <2>3, <2>4, <2>5
\* Commands: the job goes on.
<1>15. ASSUME NEW t \in Tasks, NEW r \in Row, SetRow(t, r), late \subseteq late',
              t = T => r.delivered = task[t].delivered \/ job.pc = "idle",
              t = T /\ job.pc = "send" /\ r.cancel => t \in late',
              r.delivered => sends[t] > 0, r.status = "absent" => sends[t] = 0,
              r.status = "succeeded" => sends[t] > 0,
              sends[t] > lost[t] => r.delivered \/ (t # T /\ r.status \in Closed)
                                    \/ (t = T /\ job.pc \in Beyond)
       PROVE  Delivery'
  <2>1. task' = [task EXCEPT ![t] = r] /\ UNCHANGED <<job, sends, lost>>
    BY <1>15 DEF SetRow
  <2>2. \A u \in Tasks : task'[u] = IF u = t THEN r ELSE task[u]
    BY <1>1, <2>1
  <2>3. JobSent'
    BY <1>1, <1>15, <2>1, <2>2 DEF JobSent, Unsent, Reads, T
  <2> QED BY <1>7, <1>15, <2>1, <2>2, <2>3 DEF T
\* What <1>15 asks for, when a row is closed or stays as it is.
<1>24. ASSUME NEW t \in Tasks, NEW r \in Row, r.delivered = task[t].delivered,
              r.status \in {task[t].status, "cancelled"}
       PROVE  /\ r.delivered => sends[t] > 0
              /\ r.status = "absent" => sends[t] = 0
              /\ r.status = "succeeded" => sends[t] > 0
              /\ sends[t] > lost[t] => r.delivered \/ (t # T /\ r.status \in Closed)
                                       \/ (t = T /\ job.pc \in Beyond)
  BY <1>1, <1>2, <1>24 DEF Sent, SuccessIsSent, Beyond, Closed
<1>16. ASSUME NEW t \in Tasks, Approve(t) PROVE Delivery'
  <2> DEFINE r == [task[t] EXCEPT !.status = "queued", !.phase = "execute", !.approved = TRUE]
  <2>1. /\ SetRow(t, r) /\ up /\ late' = late /\ task[t].status = "waiting_approval"
    BY <1>16 DEF Approve
  <2>2. /\ r \in Row /\ r.status = "queued" /\ r.delivered = task[t].delivered
        /\ r.cancel = task[t].cancel
    BY <1>1 DEF Row
  <2> HIDE DEF r
  <2>3. sends[t] > lost[t] => r.delivered \/ (t = T /\ job.pc \in Beyond)
    BY <1>1, <1>2, <2>1, <2>2 DEF Sent, Beyond
  <2>4. r.delivered => sends[t] > 0
    BY <1>1, <2>2 DEF Sent
  <2>5. t = T /\ job.pc = "send" /\ r.cancel => t \in late'
    BY <1>1, <2>1, <2>2 DEF JobSent
  <2>6. PICK x \in Row : x = r
    BY <2>2
  <2> QED BY <1>15, <2>1, <2>2, <2>3, <2>4, <2>5, <2>6
<1>17. ASSUME NEW t \in Tasks, WriteCancel(t) PROVE Delivery'
  <2> DEFINE r == [task[t] EXCEPT !.cancel = TRUE,
                                  !.status = IF cancels[t] = "runs" THEN task[t].status
                                             ELSE "cancelled"]
  <2>1. /\ SetRow(t, r) /\ late' = IF t = T /\ job.pc = "send" THEN late \union {t} ELSE late
    BY <1>17 DEF WriteCancel
  <2>2. /\ r \in Row /\ r.status \in {task[t].status, "cancelled"} /\ r.delivered = task[t].delivered
    BY <1>1 DEF Row, Closed
  <2> HIDE DEF r
  <2>3. PICK x \in Row : x = r
    BY <2>2
  <2> QED BY <1>15, <1>24, <2>1, <2>2, <2>3
<1>21. ASSUME NEW t \in Tasks, Expire(t) PROVE Delivery'
  <2> DEFINE r == [task[t] EXCEPT !.status = "cancelled"]
  <2>1. /\ SetRow(t, r) /\ late' = late
    BY <1>21 DEF Expire
  <2>2. /\ r \in Row /\ r.status = "cancelled" /\ r.delivered = task[t].delivered
        /\ r.cancel = task[t].cancel
    BY <1>1 DEF Row, Closed
  <2> HIDE DEF r
  <2>3. t = T /\ job.pc = "send" /\ r.cancel => t \in late'
    BY <1>1, <2>1, <2>2 DEF JobSent
  <2>4. PICK x \in Row : x = r
    BY <2>2
  <2> QED BY <1>15, <1>24, <2>1, <2>2, <2>3, <2>4
<1>22. ASSUME NEW t \in Tasks, ReadCancel(t) PROVE Delivery'
  <2>1. UNCHANGED <<task, sends, lost, late, job>>
    BY <1>22 DEF ReadCancel, hist
  <2> QED BY <1>1, <1>3, <2>1 DEF JobSent, T
<1>18. ASSUME NEW u \in Tasks, Retry(u) PROVE Delivery'
  <2>1. PICK t \in Tasks, reuse \in {task[u].approved, FALSE} :
          /\ task[t].status = "absent"
          /\ SetRow(t, [NewRow EXCEPT !.retry = TRUE, !.approved = reuse,
                                      !.phase = IF reuse THEN "execute" ELSE "planning"])
    BY <1>18 DEF Retry, NewRow
  <2> DEFINE r == [NewRow EXCEPT !.retry = TRUE, !.approved = reuse,
                                 !.phase = IF reuse THEN "execute" ELSE "planning"]
  <2>2. reuse \in BOOLEAN
    BY <1>1 DEF Row
  <2>3. r \in Row /\ r.status = "queued" /\ ~ r.delivered /\ ~ r.cancel
    BY <2>2 DEF Row, NewRow
  <2>4. SetRow(t, r) /\ late' = late
    BY <1>18, <2>1 DEF Retry
  <2> HIDE DEF r
  <2>5. t = T => job.pc = "idle"
    BY <1>1, <2>1 DEF Working, Closed
  <2>6. sends[t] = 0 /\ lost[t] \in Nat
    BY <1>1, <2>1 DEF Sent
  <2>7. PICK x \in Row : x = r
    BY <2>3
  <2> QED BY <1>15, <2>3, <2>4, <2>5, <2>6, <2>7
<1>19. CASE Crash
  <2>1. job' = NoJob /\ UNCHANGED <<task, sends>>
    BY <1>19 DEF Crash
  <2>2. \A t \in Tasks : /\ lost'[t] \in Nat /\ lost'[t] >= lost[t]
                         /\ (t = T /\ job.pc # "idle" /\ sends[t] > lost[t]
                              /\ ~ task[t].delivered => lost'[t] = lost[t] + 1)
    BY <1>1, <1>19 DEF Crash
  <2>3. JobSent'
    BY <2>1 DEF JobSent, NoJob, Unsent, Reads
  <2>4. \A t \in Tasks : sends[t] <= 1 + lost[t] /\ sends[t] \in Nat /\ lost[t] \in Nat
    BY <1>1 DEF SentAgain
  <2>5. SentAgain' /\ SuccessIsSent'
    BY <1>1, <2>1, <2>2, <2>4 DEF SentAgain, SuccessIsSent
  <2>6. ASSUME NEW t \in Tasks, sends[t] > lost'[t]
        PROVE  task[t].delivered \/ task[t].status \in Closed
    <3>1. sends[t] > lost[t]
      BY <2>2, <2>4, <2>6
    <3>2. CASE t = T /\ job.pc # "idle" /\ ~ task[t].delivered
      BY <2>2, <2>4, <2>6, <3>1, <3>2
    <3> QED BY <1>1, <3>1, <3>2 DEF Sent
  <2>7. Sent'
    BY <1>1, <2>1, <2>6 DEF Sent, NoJob, T, Tasks
  <2> QED BY <2>3, <2>5, <2>7 DEF Delivery
<1>20. CASE Start
  <2>1. /\ ~ up /\ task' = [t \in Tasks |-> Recovered(task[t])]
        /\ UNCHANGED <<job, sends, lost, late>>
    BY <1>20 DEF Start, hist
  <2>2. job.pc = "idle" /\ job'.pc = "idle"
    BY <1>1, <2>1
  <2>3. \A t \in Tasks :
          /\ task'[t].delivered = task[t].delivered
          /\ (task[t].status \in Closed => task'[t].status \in Closed)
          /\ (task'[t].status \in {"absent", "succeeded"} => task'[t].status = task[t].status)
    BY <1>1, <1>2, <2>1 DEF Recovered, Row
  <2>4. JobSent'
    BY <2>2 DEF JobSent, Unsent, Reads
  <2>5. Sent'
    BY <1>1, <1>23, <2>1, <2>2, <2>3 DEF Sent, T
  <2>6. SentAgain' /\ SuccessIsSent'
    BY <1>1, <2>1, <2>3 DEF SentAgain, SuccessIsSent
  <2> QED BY <2>4, <2>5, <2>6 DEF Delivery
<1> QED BY <1>4, <1>5, <1>6, <1>9, <1>10, <1>11, <1>12, <1>13, <1>14, <1>16, <1>17, <1>18, <1>19,
           <1>20, <1>21, <1>22 DEF Next, WorkerStep, Moves

-------------------------------------------------------------------------------
(* The invariant and what follows from it.                                  *)

LEMMA ReportInit == Init => ReportInv
<1> SUFFICES ASSUME Init PROVE ReportInv
  OBVIOUS
<1>1. /\ task \in [Tasks -> Row] /\ 1 \in Tasks
      /\ \A t \in Tasks : task[t].status \in {"queued", "absent"} /\ ~ task[t].delivered
  <2> DEFINE absent == [NewRow EXCEPT !.status = "absent"]
  <2>1. NewRow \in Row /\ NewRow.status = "queued" /\ ~ NewRow.delivered
    BY DEF NewRow, Row
  <2>2. absent \in Row /\ absent.status = "absent" /\ ~ absent.delivered
    BY DEF NewRow, Row
  <2>3. [NewRow EXCEPT !.status = "queued"] = NewRow
    BY DEF NewRow
  <2>4. task = [t \in Tasks |-> IF t = 1 THEN NewRow ELSE absent]
    BY <2>3 DEF Init
  <2> HIDE DEF absent
  <2>5. 1 \in Tasks
    BY ReportAssumption DEF Tasks
  <2> QED BY <2>1, <2>2, <2>4, <2>5
<1>2. /\ sends = [t \in Tasks |-> 0] /\ lost = [t \in Tasks |-> 0] /\ late = {}
      /\ output = [t \in Tasks |-> NoReport] /\ job = NoJob /\ reading = NoReading
      /\ up /\ crashes = 0 /\ wf = "planning" /\ cancels = [t \in Tasks |-> "none"]
  BY DEF Init
<1>3. /\ reading.before = <<>> /\ reading.evidence = <<>> /\ reading.after = <<>>
      /\ reading.past = {}
  BY <1>2 DEF NoReading
<1>4. <<>> \in Seq(0 .. MaxEdits + 1) /\ Len(<<>>) = 0
  OBVIOUS
<1>5. TypeOK
  <2>1. wf \in Underway \union Ended
    BY <1>2 DEF Underway
  <2>2. Partial(reading.before) /\ Partial(reading.evidence) /\ Partial(reading.after)
    BY <1>3, <1>4, ReportAssumption DEF Partial
  <2>3. job.out \in Closed /\ job.pc = "idle"
    BY <1>2 DEF NoJob, Closed
  <2>4. output \in [Tasks -> {NoReport, "sound", "mixed"}] /\ crashes \in 0 .. MaxCrashes
    BY <1>2, ReportAssumption
  <2>5. \A t \in Tasks : task[t].status # "running"
    BY <1>1
  <2> QED BY <1>1, <1>2, <1>3, <2>1, <2>2, <2>3, <2>4, <2>5 DEF TypeOK
<1>6. JobOK /\ HistOK
  BY <1>2, ReportAssumption DEF JobOK, HistOK, NoJob, Steps, Errors, Closed
<1>7. ReadingOK
  <2>1. reading \in Reading
    BY <1>2, <1>4, ReportAssumption DEF NoReading, Reading, Version
  <2> QED BY <1>2, <2>1 DEF ReadingOK, NoJob, Reads
<1>8. OutputIsSound
  BY <1>2, ReportAssumption DEF OutputIsSound
<1>9. Sent /\ JobSent /\ SentAgain /\ SuccessIsSent
  <2>1. \A t \in Tasks : sends[t] = 0 /\ lost[t] = 0
    BY <1>2
  <2>2. Sent /\ SentAgain /\ SuccessIsSent
    BY <1>1, <2>1 DEF Sent, SentAgain, SuccessIsSent
  <2>3. JobSent
    BY <1>2 DEF JobSent, NoJob, Unsent, Reads
  <2> QED BY <2>2, <2>3
<1> QED BY <1>5, <1>6, <1>7, <1>8, <1>9 DEF ReportInv, Types

LEMMA ReportStep == ReportInv /\ [Next]_vars => ReportInv'
BY ReportTypes, StepReading, StepOutput, StepDelivery DEF ReportInv, Delivery

\* The inductive invariant of execute_read_only_report and its delivery in
\* bot._run_swarm_task.
THEOREM ReportInvariant == Spec => []ReportInv
BY ReportInit, ReportStep, PTL DEF Spec

\* The rows, the job and what was read of the project have their types; one job
\* runs at a time and its task is the one that is running (task_manager.claim).
THEOREM ReportTypeCorrect == Spec => []TypeOK
BY ReportInvariant, PTL DEF ReportInv, Types

\* report_workflow.py:237: with any number of files and edits, a report on the disk
\* describes a state the project was in, because a file that is equal in both
\* snapshots did not change between them: no version comes back.
THEOREM ReportsDescribeOneState == Spec => []OutputIsSound
BY ReportInvariant, PTL DEF ReportInv

\* bot.py:895: with any number of tasks, retries and exits, a file is sent once and
\* once more for each exit that came before its checkpoint or the record of its
\* failure.
THEOREM FilesAreSentOnce == Spec => []SentAgain
BY ReportInvariant, PTL DEF ReportInv

\* bot._run_swarm_task: a report task ends as a success only after its file was
\* sent, on whichever of its runs that was.
THEOREM SuccessesAreSent == Spec => []SuccessIsSent
BY ReportInvariant, PTL DEF ReportInv

LEMMA OnlySendSends ==
  ASSUME Types, [Next]_vars, ~ Send
  PROVE  sends' = sends
BY BeginGoes
   DEF Next, WorkerStep, vars, hist, Claim, RunnerRaises, ReportFails, Plan, Park, CheckReceipt,
       LookForDelivery, Recover, SnapshotBefore, GatherEvidence, Analyse, SnapshotAfter,
       Compare, WriteTemporary, Replace, Announce, Verify, Complete, Deliver, Return,
       Synchronize, Finish, Approve, ReadCancel, WriteCancel, Expire,
            Retry, SetRow, Edit, Crash, Start,
       otherThanJob, otherThanTask, otherThanFlow

\* task_manager.checkpoint: a file is sent after a cancellation only if that came
\* when the progress line before the sending had been written.
THEOREM CancellationStops == Spec => CancelStops
<1>1. ASSUME ReportInv, [Next]_vars, NEW t \in Tasks, sends'[t] # sends[t], task[t].cancel
      PROVE  t \in late
  <2>1. Send
    BY <1>1, OnlySendSends DEF ReportInv
  <2>2. job.pc = "send" /\ t = T
    BY <1>1, <2>1 DEF Send, At, ReportInv, Types, HistOK
  <2> QED BY <1>1, <2>2 DEF ReportInv, JobSent
<1>2. ReportInv /\ [Next]_vars =>
        [\A t \in Tasks : sends'[t] # sends[t] /\ task[t].cancel => t \in late]_vars
  BY <1>1
<1> QED BY <1>2, ReportInvariant, PTL DEF Spec, CancelStops
===============================================================================
