------------------------------ MODULE Roundtable ------------------------------
(***************************************************************************)
(* The round-table meetings of roundtable_engine.py: the table of          *)
(* sessions with its window of duplicates and the cleaning of stale rows,  *)
(* the rounds of RoundTableV2.run with speeches in parallel, engines that  *)
(* fail and cool down, the two rules of convergence, and the ways a        *)
(* meeting ends, with exits of the process and retries of the task.        *)
(*                                                                         *)
(* A meeting is a task of a chat of its own, so that meetings run side by  *)
(* side.  Of a speech the model keeps the stance, the confidence in per    *)
(* cent and whether the engine's call succeeded.  The tables turns, cache  *)
(* and events are written and never read by a meeting: a cached speech is  *)
(* keyed by the session, and every run of a meeting draws a new one.       *)
(***************************************************************************)
EXTENDS Naturals, Sequences, FiniteSetsExt, Functions, TLC

CONSTANTS
  Meetings,    \* tasks of type roundtable
  Topics,      \* normalized topics
  TopicOf,     \* the topic of each meeting
  Agents,      \* members, each with an engine of its own
  TeamOf,      \* meeting_budget: the members a topic is given ...
  RoundsOf,    \* ... and its ceiling of rounds
  SpeechesOf,  \* <<stance, confidence>> the answers of a member may carry
  MaxWorkers,  \* workers of the task pool
  MaxRestarts  \* bound on retried tasks and exits of the process together

Stances == {"agree", "supplement", "oppose", "abstain", "neutral"}
Dissent == {"oppose", "neutral"}

ASSUME RoundtableAssumption ==
  /\ TopicOf \in [Meetings -> Topics]
  /\ TeamOf \in [Topics -> SUBSET Agents]
  /\ \A t \in Topics : IsFiniteSet(TeamOf[t])
  /\ RoundsOf \in [Topics -> Nat \ {0}]
  /\ SpeechesOf \in [Agents -> SUBSET (Stances \X (0 .. 100))]
  /\ MaxWorkers \in Nat \ {0}
  /\ MaxRestarts \in Nat

VARIABLES
  task,      \* status of the meeting's task
  flag,      \* its cancel_requested
  run,       \* the locals of RoundTableV2.run
  sessions,  \* the rows of sessions in the order of created_at
  recent,    \* those that run or are done and were last seen in the window
  result,    \* the session a succeeded task reports, 0 for none
  restarts

vars == <<task, flag, run, sessions, recent, result, restarts>>

Closed == {"done", "cancelled", "failed"}
TaskEnded == {"succeeded", "failed", "cancelled"}

DefaultConf == 50       \* DEFAULT_STANCE_CONFIDENCE
OpposeBlock == 70       \* CONF_OPPOSE_BLOCK_THRESHOLD
ConsensusRatio == 60    \* CONF_CONSENSUS_RATIO

(* ----------------------------- Convergence ----------------------------- *)
(* now maps the members heard in a round to what they said, prev those of  *)
(* the round before to their stances.                                      *)

StancesOf(now) == [k \in DOMAIN now |-> now[k].stance]

Opposed(now) == \E k \in DOMAIN now : now[k].stance \in Dissent

Agreeing(now) == {k \in DOMAIN now : now[k].stance = "agree"}

\* The number of members whose stance is new.
Divergence(now, prev) ==
  IF DOMAIN prev = {} THEN Cardinality(DOMAIN now)
  ELSE Cardinality({k \in DOMAIN now :
                      k \notin DOMAIN prev \/ prev[k] # now[k].stance})

Nominal(round, now) == round >= 2 /\ ~Opposed(now) /\ Agreeing(now) # {}

FixedPoint(round, now, prev) ==
  /\ round >= 2
  /\ ~Nominal(round, now)
  /\ DOMAIN prev # {} /\ Divergence(now, prev) = 0

\* Mutant: the score is taken over the agreeing members only.
WeightedAmongAgreeing(round, now) ==
  /\ round >= 2
  /\ Cardinality(DOMAIN now) >= 2
  /\ ~Opposed(now)
  /\ MapThenSumSet(LAMBDA k : now[k].conf, Agreeing(now))
       >= ConsensusRatio * Cardinality(Agreeing(now))

\* Two decimals of confidence make the comparison of the rounded score exact.
Weighted(round, now) ==
  /\ round >= 2
  /\ Cardinality(DOMAIN now) >= 2
  /\ ~ \E k \in DOMAIN now : now[k].stance = "oppose" /\ now[k].conf >= OpposeBlock
  /\ ~Opposed(now)
  /\ MapThenSumSet(LAMBDA k : now[k].conf, Agreeing(now))
       >= ConsensusRatio * Cardinality(DOMAIN now)

Explicit(now) == \E k \in DOMAIN now : now[k].conf # DefaultConf

Consensus(round, now) == Nominal(round, now) /\ (Weighted(round, now) \/ ~Explicit(now))

(* ------------------------------- The table ------------------------------ *)

\* A member whose failure is seen: its engine still cools down from an earlier
\* one, in this meeting or another, or the call raised an exception.
Unavailable == [stance |-> "unavailable", conf |-> 0, ok |-> FALSE]
Answer(sp) == [stance |-> sp[1], conf |-> sp[2], ok |-> TRUE]

\* The text of a failed call ("process error: ...") holds none of the prefixes
\* is_engine_error looks for, so it is read as a speech.  It quotes what the engine
\* wrote before it failed: a stance is found in it where the member had stated one.
ErrorTexts(k) ==
  {[stance |-> sp[1], conf |-> sp[2], ok |-> FALSE] :
     sp \in SpeechesOf[k] \union {<<"neutral", DefaultConf>>}}

\* meeting_budget: two members for a small question, all for the others.
Team(m) == TeamOf[TopicOf[m]]

Said(k) == {Answer(sp) : sp \in SpeechesOf[k]} \union ErrorTexts(k) \union {Unavailable}

\* prev is the last of stances_history, order and out are active_order and
\* unavailable_agents.  Of the round that ended the rounds, fit counts the calls
\* that succeeded; by are the members whose agreement made a weighed consensus.
Idle == [pc |-> "idle", sid |-> 0, round |-> 0, order |-> {}, out |-> {},
         prev |-> <<>>, fit |-> 0, by |-> {}]

Goto(m, pc) == run' = [run EXCEPT ![m].pc = pc]

\* A session that failed or was cancelled is no duplicate of a later one.
SetStatus(s, status) ==
  /\ sessions' = [sessions EXCEPT ![s].status = status]
  /\ recent' = IF status = "done" THEN recent ELSE recent \ {s}

\* The UPDATE that ends a session; its exception is logged and goes no further.
Mark(s, status) == SetStatus(s, status) \/ UNCHANGED <<sessions, recent>>

\* The task ends and the locals of the run are gone.
EndTask(m, status) ==
  /\ task' = [task EXCEPT ![m] = status]
  /\ run' = [run EXCEPT ![m] = Idle]

\* Every meeting has been asked for; the pool takes them in any order.
Init ==
  /\ task = [m \in Meetings |-> "queued"]
  /\ flag = [m \in Meetings |-> FALSE]
  /\ run = [m \in Meetings |-> Idle]
  /\ sessions = <<>>
  /\ recent = {}
  /\ result = [m \in Meetings |-> 0]
  /\ restarts = 0

(* ------------------------------- The task ------------------------------- *)

Claim(m) ==
  /\ task[m] = "queued"
  /\ Quantify(Meetings, LAMBDA n : task[n] = "running") < MaxWorkers
  /\ task' = [task EXCEPT ![m] = "running"]
  /\ Goto(m, "start")
  /\ UNCHANGED <<flag, sessions, recent, result, restarts>>

Cancel(m) ==
  /\ \/ task[m] = "queued" /\ task' = [task EXCEPT ![m] = "cancelled"]
     \/ task[m] = "running" /\ ~flag[m] /\ UNCHANGED task
  /\ flag' = [flag EXCEPT ![m] = TRUE]
  /\ UNCHANGED <<run, sessions, recent, result, restarts>>

\* A retry is a new task with the payload of the old one, whose place it takes.
Retry(m) ==
  /\ task[m] \in {"failed", "cancelled"}
  /\ restarts < MaxRestarts
  /\ restarts' = restarts + 1
  /\ task' = [task EXCEPT ![m] = "queued"]
  /\ flag' = [flag EXCEPT ![m] = FALSE]
  /\ UNCHANGED <<run, sessions, recent, result>>

\* The process exits and starts again: recover requeues the meetings, or
\* cancels those with a request; what was in memory is gone, the rows stay.
Crash ==
  /\ restarts < MaxRestarts
  /\ \E m \in Meetings : task[m] = "running"
  /\ restarts' = restarts + 1
  /\ task' = [m \in Meetings |-> IF task[m] # "running" THEN task[m]
                                 ELSE IF flag[m] THEN "cancelled" ELSE "queued"]
  /\ run' = [m \in Meetings |-> Idle]
  /\ UNCHANGED <<flag, sessions, recent, result>>

(* ---------------------------- Opening a meeting -------------------------- *)

\* Sessions that run for no meeting, created before the window: an hour may have
\* passed since their last update.  A meeting at work updates its session at the
\* end of every round, and an engine's call ends by its timeout of 300 s, twice at
\* most: it has none that old while the machine does not sleep.
\* The mutants leave out the hour since the last update, and the status.
AbandonedByCreation(window) ==
  {s \in DOMAIN sessions : sessions[s].status = "running" /\ s \notin window}

AbandonedAny(window) ==
  {s \in DOMAIN sessions : s \notin window /\ \A m \in Meetings : run[m].sid # s}

Abandoned(window) ==
  {s \in DOMAIN sessions : sessions[s].status = "running" /\ s \notin window
                           /\ \A m \in Meetings : run[m].sid # s}

\* reclaim_stale, in the constructor and in run.
Reclaim(stale) ==
  sessions' = [s \in DOMAIN sessions |->
                 IF s \in stale THEN [sessions[s] EXCEPT !.status = "cancelled"]
                 ELSE sessions[s]]

\* find_recent_session: LIMIT 1 comes before the topics are compared.
\* The mutant does not compare them.
DuplicateOfAny(m, window) == {s \in window : s = Max(window)}

Duplicate(m, window) ==
  {s \in window : s = Max(window) /\ sessions[s].topic = TopicOf[m]}

\* Time passes between any two steps, and only this one looks at the clock: the
\* sessions up to some older one have left the window, some are stale.
Find(m) ==
  /\ run[m].pc = "start" /\ ~flag[m]
  /\ \E older \in 0 .. Len(sessions) : recent' = {s \in recent : s > older}
  /\ \E stale \in SUBSET Abandoned(recent') : Reclaim(stale)
  /\ \/ Duplicate(m, recent') = {} /\ Goto(m, "open")
     \/ \E s \in Duplicate(m, recent') : run' = [run EXCEPT ![m].pc = "return", ![m].sid = s]
  /\ UNCHANGED <<task, flag, result, restarts>>

\* create_session; the announcements that follow it come before the try.
Open(m) ==
  /\ run[m].pc = "open"
  /\ sessions' = Append(sessions, [topic |-> TopicOf[m], status |-> "running",
                                   minutes |-> FALSE])
  /\ recent' = recent \union {Len(sessions) + 1}
  /\ run' = [run EXCEPT ![m].pc = "announce", ![m].sid = Len(sessions) + 1]
  /\ UNCHANGED <<task, flag, result, restarts>>

Announce(m) ==
  /\ run[m].pc = "announce" /\ ~flag[m]
  /\ run' = [run EXCEPT ![m].pc = "round", ![m].round = 1,
                        ![m].order = Team(m)]
  /\ UNCHANGED <<task, flag, sessions, recent, result, restarts>>

(* ------------------------------- The rounds ------------------------------ *)

\* The members not heard in a round leave the table.  The mutant reports only
\* those of the last round.
SeatForgetful(r, heard) == [r EXCEPT !.order = heard, !.out = r.order \ heard]

Seat(r, heard) == [r EXCEPT !.order = heard, !.out = @ \union (r.order \ heard)]

\* The loop runs while round_no <= max_rounds.  The mutant holds one more.
CeilingLate(m, round) == round > RoundsOf[TopicOf[m]]

Ceiling(m, round) == round = RoundsOf[TopicOf[m]]

\* A round: every member at the table speaks in a thread of its own
\* (_execute_speech), which shares nothing with the others.  When all threads
\* are done the members whose failure was seen leave the table.
Round(m, said) ==
  LET r == run[m]
      heard == {k \in r.order : said[k] # Unavailable}
      now == Restrict(said, heard)
      seated == Seat(r, heard)
      over == [seated EXCEPT !.pc = "summary", !.prev = <<>>,
                 !.fit = Quantify(heard, LAMBDA k : said[k].ok),
                 !.by = IF Consensus(r.round, now) /\ Explicit(now)
                        THEN Agreeing(now) ELSE {}]
  IN /\ \/ \* RoundTableQuorumError
           /\ Cardinality(heard) < 2
           /\ Mark(r.sid, "failed")
           /\ EndTask(m, "failed")
        \/ \* The stances end the rounds, or are the next round's previous ones.
           /\ Cardinality(heard) >= 2
           /\ run' = [run EXCEPT ![m] =
                IF Consensus(r.round, now) \/ FixedPoint(r.round, now, r.prev) THEN over
                ELSE IF Ceiling(m, r.round)
                THEN [over EXCEPT !.round = r.round + 1]
                ELSE [seated EXCEPT !.round = r.round + 1, !.prev = StancesOf(now)]]
           /\ UNCHANGED <<task, sessions, recent>>

HoldRound(m) ==
  /\ run[m].pc = "round" /\ ~flag[m]
  /\ \E said \in [run[m].order -> UNION {Said(k) : k \in run[m].order}] :
       /\ \A k \in run[m].order : said[k] \in Said(k)
       /\ Round(m, said)
  /\ UNCHANGED <<flag, result, restarts>>

\* _summarize archives the minutes, whether or not the model gave a summary.
Summarize(m) ==
  /\ run[m].pc = "summary" /\ ~flag[m]
  /\ sessions' = [sessions EXCEPT ![run[m].sid].minutes = TRUE]
  /\ run' = [run EXCEPT ![m] = [Idle EXCEPT !.pc = "report", !.sid = run[m].sid]]
  /\ UNCHANGED <<task, flag, recent, result, restarts>>

\* The report card is sent, the session is done;
Close(m) ==
  /\ run[m].pc = "report" /\ ~flag[m]
  /\ Mark(run[m].sid, "done")
  /\ Goto(m, "state")
  /\ UNCHANGED <<task, flag, result, restarts>>

\* its last state is read for the result, and nobody looks for a cancellation.
LoadState(m) ==
  /\ run[m].pc = "state"
  /\ Goto(m, "return")
  /\ UNCHANGED <<task, flag, sessions, recent, result, restarts>>

(* ------------------------------ Ends of a run ---------------------------- *)

\* The runner goes on with the result: the meeting's own or one it found.
Return(m) ==
  /\ run[m].pc = "return" /\ ~flag[m]
  /\ result' = [result EXCEPT ![m] = run[m].sid]
  /\ EndTask(m, "succeeded")
  /\ UNCHANGED <<flag, sessions, recent, restarts>>

\* Inside the try of run, where it looks for a cancellation.
Guarded(m) == run[m].pc \in {"round", "summary", "report"}

\* Before the session exists, while it is announced, and after run has returned.
Unguarded(m) == run[m].pc \in {"start", "announce", "return"}

\* cancel_check, or the check every event of the meeting begins with.
Abort(m) ==
  /\ flag[m]
  /\ \/ Guarded(m) /\ Mark(run[m].sid, "cancelled")
     \/ Unguarded(m) /\ UNCHANGED <<sessions, recent>>
  /\ EndTask(m, "cancelled")
  /\ UNCHANGED <<flag, result, restarts>>

\* An exception: a message that cannot be sent, a file that cannot be written, a
\* session that is done and whose state cannot be read.
\* The mutant marks the session in a finally.
RaiseDone(m) ==
  /\ Guarded(m) /\ Mark(run[m].sid, "done")
  /\ EndTask(m, "failed")
  /\ UNCHANGED <<flag, result, restarts>>

Raise(m) ==
  /\ \/ (Guarded(m) \/ run[m].pc = "state") /\ Mark(run[m].sid, "failed")
     \/ Unguarded(m) /\ UNCHANGED <<sessions, recent>>
  /\ EndTask(m, "failed")
  /\ UNCHANGED <<flag, result, restarts>>

(* ------------------------------ Specification ---------------------------- *)

Work(m) ==
  \/ Find(m) \/ Open(m) \/ Announce(m)
  \/ HoldRound(m) \/ Summarize(m) \/ Close(m) \/ LoadState(m)
  \/ Return(m) \/ Abort(m) \/ Raise(m)

Next ==
  \/ \E m \in Meetings : Claim(m) \/ Cancel(m) \/ Retry(m) \/ Work(m)
  \/ Crash

Spec == Init /\ [][Next]_vars

(* ------------------------------- Properties ------------------------------ *)

Working == {"announce", "round", "summary", "report"}

\* Types of the variables.
TypeOK ==
  /\ task \in [Meetings -> {"queued", "running"} \union TaskEnded]
  /\ flag \in [Meetings -> BOOLEAN]
  /\ sessions \in Seq([topic : Topics, status : Closed \union {"running"},
                       minutes : BOOLEAN])
  /\ recent \subseteq DOMAIN sessions
  /\ \A m \in Meetings :
       /\ run[m].pc \in {"idle", "start", "open", "state", "return"} \union Working
       /\ (run[m].pc # "idle") <=> (task[m] = "running")
       /\ run[m].sid \in {0} \union DOMAIN sessions
       /\ run[m].round \in 0 .. RoundsOf[TopicOf[m]] + 1
       /\ run[m].order \subseteq Agents /\ run[m].out \subseteq Agents
       /\ DOMAIN run[m].prev \subseteq run[m].order
       /\ run[m].by \subseteq run[m].order
       /\ run[m].fit \in 0 .. Cardinality(run[m].order)
       /\ result[m] \in {0} \union DOMAIN sessions
  /\ restarts \in 0 .. MaxRestarts

\* A meeting at work holds a session that runs and that no other meeting holds:
\* neither the cleaning of stale rows by another meeting nor a restart takes it
\* away (reclaim_stale runs at the start of every meeting).
SessionIsHeld ==
  \A m \in Meetings : run[m].pc \in Working =>
    /\ sessions[run[m].sid].status = "running"
    /\ \A n \in Meetings \ {m} : run[n].pc \in Working => run[n].sid # run[m].sid

\* A session that ended keeps its status and its minutes, whatever is cancelled,
\* cleaned, retried or restarted later.  One exception: a meeting that has marked its
\* session done and fails before it returns its result marks it failed, and fails.
EndedStaysEnded ==
  [][\A s \in DOMAIN sessions :
       sessions[s].status \in Closed =>
         \/ sessions'[s] = sessions[s]
         \/ /\ sessions[s].status = "done"
            /\ sessions'[s] = [sessions[s] EXCEPT !.status = "failed"]
            /\ \E m \in Meetings : /\ run[m].pc = "state" /\ run[m].sid = s
                                   /\ task'[m] = "failed"]_vars

\* A session that is done has its minutes on disk, also after an exit at any
\* point: later meetings on the topic report them instead of meeting again.
DoneHasMinutes ==
  \A s \in DOMAIN sessions : sessions[s].status = "done" => sessions[s].minutes

\* The session a succeeded meeting reports is one on its own topic, whether it
\* held it or found it in the window, with meetings on other topics next to it.
ResultIsOfTopic ==
  \A m \in Meetings : task[m] = "succeeded" =>
    result[m] # 0 /\ sessions[result[m]].topic = TopicOf[m]

\* Every member a meeting was given is at the table or reported unavailable,
\* never both, in every round and in the summary, and two remain once a round
\* was held, also of a team of one (FEISHU_ROUNDTABLE_ORDER).
NobodyIsLost ==
  \A m \in Meetings : run[m].pc \in {"round", "summary"} =>
    /\ run[m].order \union run[m].out = Team(m)
    /\ run[m].order \cap run[m].out = {}
    /\ run[m].round > 1 \/ run[m].pc = "summary" => Cardinality(run[m].order) >= 2

\* Where confidences are stated, a consensus that ends the rounds is carried by
\* three fifths of the members at the table: no agreement, however confident,
\* stands in for the members that only add to it.
ConsensusHasMajority ==
  \A m \in Meetings : run[m].by # {} =>
    5 * Cardinality(run[m].by) >= 3 * Cardinality(run[m].order)

\* RoundTableQuorumError "is raised when fewer than two healthy agents remain":
\* the last round of a meeting that goes on to its minutes had two answers.
QuorumIsHealthy == \A m \in Meetings : run[m].pc = "summary" => run[m].fit >= 2

===============================================================================
