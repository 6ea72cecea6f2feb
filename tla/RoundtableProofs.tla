--------------------------- MODULE RoundtableProofs ---------------------------
(***************************************************************************)
(* The round table for any number of meetings, topics, members, rounds and *)
(* restarts: sessions that are held and stay as they ended, members that   *)
(* are accounted for, and consensus that has its majority.                 *)
(***************************************************************************)
EXTENDS Roundtable, FiniteSetTheorems, SequenceTheorems, WellFoundedInduction, TLAPS

Session == [topic : Topics, status : Closed \union {"running"}, minutes : BOOLEAN]

\* The stances of a round, <<>> before the first.
Heard == {<<>>} \union UNION {[S -> Stances] : S \in SUBSET Agents}

Pcs == {"idle", "start", "open", "state", "return"} \union Working

\* At work, or done and not yet read: the session is the meeting's own.
Own == Working \union {"state"}

Run == [pc : Pcs, sid : Nat, round : Nat, order : SUBSET Agents, out : SUBSET Agents,
        prev : Heard, fit : Nat, by : SUBSET Agents]

Shape ==
  /\ task \in [Meetings -> {"queued", "running"} \union TaskEnded]
  /\ flag \in [Meetings -> BOOLEAN]
  /\ run \in [Meetings -> Run]
  /\ sessions \in Seq(Session)
  /\ recent \subseteq DOMAIN sessions
  /\ result \in [Meetings -> Nat]
  /\ restarts \in 0 .. MaxRestarts

\* A session on the meeting's topic.
IsOn(m, s) == s \in DOMAIN sessions /\ sessions[s].topic = TopicOf[m]

\* A meeting's session, in memory and in the result of its task.
Held(m) ==
  /\ (run[m].pc # "idle") <=> (task[m] = "running")
  /\ run[m].sid \in {0} \union DOMAIN sessions
  /\ run[m].pc \in Own \union {"return"} => IsOn(m, run[m].sid)
  /\ run[m].pc \in Working => sessions[run[m].sid].status = "running"
  /\ run[m].pc = "state" => sessions[run[m].sid].status \in {"running", "done"}
  /\ run[m].pc \in {"report", "state"} => sessions[run[m].sid].minutes
  /\ result[m] \in {0} \union DOMAIN sessions
  /\ task[m] = "succeeded" => IsOn(m, result[m])

\* A meeting's table.
Blank(m) == run[m].order = {} /\ run[m].out = {} /\ run[m].by = {} /\ run[m].prev = <<>>
            /\ run[m].fit = 0

Seated(m) ==
  /\ run[m].round \in 0 .. RoundsOf[TopicOf[m]] + 1
  /\ run[m].order \union run[m].out \subseteq Team(m)
  /\ run[m].pc \notin {"round", "summary"} => Blank(m)
  /\ run[m].pc \in {"round", "summary"} =>
       /\ run[m].order \union run[m].out = Team(m) /\ run[m].order \cap run[m].out = {}
       /\ run[m].round > 1 => Cardinality(run[m].order) >= 2
  /\ run[m].pc = "round" => /\ run[m].round \in 1 .. RoundsOf[TopicOf[m]]
                            /\ run[m].by = {} /\ run[m].fit = 0
  /\ run[m].pc = "summary" => run[m].round > 1
  /\ DOMAIN run[m].prev \subseteq run[m].order /\ run[m].by \subseteq run[m].order
  /\ run[m].fit <= Cardinality(run[m].order)
  /\ run[m].by # {} => 5 * Cardinality(run[m].by) >= 3 * Cardinality(run[m].order)

\* No two meetings own one session.
Apart ==
  \A m, n \in Meetings :
    m # n /\ run[m].pc \in Own /\ run[n].pc \in Own => run[m].sid # run[n].sid

RoundInv ==
  /\ Shape /\ Apart /\ DoneHasMinutes
  /\ \A m \in Meetings : Held(m) /\ Seated(m)

-------------------------------------------------------------------------------
(* The sum of confidences, by which Weighted decides.  Induction over the   *)
(* subsets of a finite set: a smallest one that lacks the property is none. *)

LEMMA SmallestSet ==
  ASSUME NEW S, IsFiniteSet(S), NEW T \in SUBSET (SUBSET S), T # {}
  PROVE  \E x \in T : \A y \in T : ~ (y \subseteq x /\ y # x)
<1>1. IsWellFoundedOn(StrictSubsetOrdering(S), SUBSET S)
  BY FS_StrictSubsetOrderingWellFounded, FS_FiniteSubsetsOfFinite
<1>2. PICK x \in T : \A y \in T : ~ (<<y, x>> \in StrictSubsetOrdering(S))
  BY <1>1, WFMin
<1> QED BY <1>2 DEF StrictSubsetOrdering

Some(s) == CHOOSE x \in s : TRUE
Less(s) == s \ {Some(s)}

\* h sums the confidences of now over each subset of S.
Sums(h, now, S) ==
  h = [s \in SUBSET S |-> IF s = {} THEN 0 ELSE now[Some(s)].conf + h[Less(s)]]

LEMMA SomeIsIn == \A s : s # {} => Some(s) \in s /\ Less(s) \subseteq s /\ Less(s) # s
BY DEF Some, Less

LEMMA SumsAgree ==
  ASSUME NEW S, IsFiniteSet(S), NEW T \in SUBSET S, NEW now, NEW h, NEW k,
         Sums(h, now, S), Sums(k, now, T)
  PROVE  \A s \in SUBSET T : h[s] = k[s]
<1> DEFINE bad == {s \in SUBSET T : h[s] # k[s]}
<1> SUFFICES ASSUME bad # {} PROVE FALSE
  OBVIOUS
<1>1. bad \in SUBSET (SUBSET S) /\ bad # {}
  OBVIOUS
<1>2. PICK s \in bad : \A y \in bad : ~ (y \subseteq s /\ y # s)
  <2> HIDE DEF bad
  <2> QED BY <1>1, SmallestSet
<1>3. CASE s = {}
  BY <1>3 DEF Sums
<1>4. CASE s # {}
  <2>1. Less(s) \in SUBSET T /\ Less(s) \notin bad
    BY <1>2, <1>4, SomeIsIn
  <2>2. /\ h[s] = now[Some(s)].conf + h[Less(s)]
        /\ k[s] = now[Some(s)].conf + k[Less(s)]
    BY <1>4 DEF Sums
  <2> QED BY <2>1, <2>2
<1> QED BY <1>3, <1>4

LEMMA SumsExist ==
  ASSUME NEW S, IsFiniteSet(S), NEW now
  PROVE  \E h : Sums(h, now, S)
<1> DEFINE bad == {T \in SUBSET S : ~ \E h : Sums(h, now, T)}
           F(T) == CHOOSE h : Sums(h, now, T)
<1> SUFFICES ASSUME bad # {} PROVE FALSE
  OBVIOUS
<1>1. PICK T \in bad : \A y \in bad : ~ (y \subseteq T /\ y # T)
  <2>1. bad \in SUBSET (SUBSET S) /\ bad # {}
    OBVIOUS
  <2> HIDE DEF bad
  <2> QED BY <2>1, SmallestSet
<1>2. \A U \in SUBSET T : U # T => Sums(F(U), now, U)
  BY <1>1
<1> DEFINE h == [s \in SUBSET T |->
                   IF s = {} THEN 0 ELSE now[Some(s)].conf + F(Less(s))[Less(s)]]
<1>3. ASSUME NEW s \in SUBSET T, s # {} PROVE F(Less(s))[Less(s)] = h[Less(s)]
  <2> DEFINE u == Less(s)
  <2>1. u \in SUBSET T /\ u # T /\ Sums(F(u), now, u)
    <3>1. u \in SUBSET T /\ u # T
      BY <1>3, SomeIsIn
    <3> QED BY <1>2, <3>1
  <2>2. CASE u = {}
    BY <2>1, <2>2 DEF Sums
  <2>3. CASE u # {}
    <3>1. Less(u) \in SUBSET u /\ Less(u) # T /\ Less(u) \in SUBSET T
      BY <2>1, <2>3, SomeIsIn
    <3>2. Sums(F(Less(u)), now, Less(u))
      BY <1>2, <3>1
    <3>3. F(u)[u] = now[Some(u)].conf + F(u)[Less(u)]
      BY <2>1, <2>3 DEF Sums
    <3>4. IsFiniteSet(u)
      BY <2>1, <1>1, FS_Subset
    <3>5. F(u)[Less(u)] = F(Less(u))[Less(u)]
      <4> HIDE DEF F, u
      <4> QED BY <2>1, <3>1, <3>2, <3>4, SumsAgree
    <3> QED BY <2>1, <2>3, <3>3, <3>5
  <2> QED BY <2>2, <2>3
<1>4. Sums(h, now, T)
  <2>1. \A s \in SUBSET T : h[s] = IF s = {} THEN 0 ELSE now[Some(s)].conf + h[Less(s)]
    <3>1. \A s \in SUBSET T :
            h[s] = IF s = {} THEN 0 ELSE now[Some(s)].conf + F(Less(s))[Less(s)]
      OBVIOUS
    <3> HIDE DEF h, F
    <3> QED BY <1>3, <3>1
  <2>2. h = [s \in SUBSET T |-> h[s]]
    OBVIOUS
  <2> HIDE DEF h
  <2> QED BY <2>1, <2>2 DEF Sums
<1> QED BY <1>1, <1>4

Total(now, S) == MapThenSumSet(LAMBDA k : now[k].conf, S)

LEMMA TotalIsBounded ==
  ASSUME NEW S, IsFiniteSet(S), NEW now, \A x \in S : now[x].conf \in 0 .. 100
  PROVE  Total(now, S) \in Nat /\ Total(now, S) <= 100 * Cardinality(S)
<1> DEFINE h == CHOOSE h : Sums(h, now, S)
           bad == {s \in SUBSET S : ~ (h[s] \in Nat /\ h[s] <= 100 * Cardinality(s))}
<1>1. Sums(h, now, S)
  BY SumsExist
<1>2. Total(now, S) = h[S]
  BY DEF Total, MapThenSumSet, MapThenFoldSet, Sums, Some, Less
<1> HIDE DEF h
<1>3. ASSUME bad # {} PROVE FALSE
  <2>1. PICK s \in bad : \A y \in bad : ~ (y \subseteq s /\ y # s)
    <3>1. bad \in SUBSET (SUBSET S) /\ bad # {}
      BY <1>3
    <3> HIDE DEF bad
    <3> QED BY <3>1, SmallestSet
  <2>2. CASE s = {}
    <3>1. h[s] = 0
      BY <1>1, <2>2 DEF Sums
    <3> QED BY <2>1, <2>2, <3>1, FS_EmptySet
  <2>3. CASE s # {}
    <3>1. Less(s) \in SUBSET S /\ Some(s) \in S /\ Less(s) \notin bad /\ Some(s) \in s
      BY <2>1, <2>3, SomeIsIn
    <3>2. h[s] = now[Some(s)].conf + h[Less(s)]
      BY <1>1, <2>3 DEF Sums
    <3>3. Cardinality(Less(s)) = Cardinality(s) - 1 /\ Cardinality(s) \in Nat
      BY <3>1, FS_Subset, FS_RemoveElement, FS_CardinalityType DEF Less
    <3> QED BY <2>1, <3>1, <3>2, <3>3
  <2> QED BY <2>2, <2>3
<1> QED BY <1>2, <1>3

-------------------------------------------------------------------------------
(* The rows of sessions and the locals of a meeting.                        *)

USE RoundtableAssumption

LEMMA Names ==
  /\ Own \subseteq Pcs /\ {"idle", "start", "open", "return"} \subseteq Pcs
  /\ "idle" \notin Own /\ "start" \notin Own /\ "open" \notin Own /\ "return" \notin Own
  /\ {"announce", "round", "summary", "report"} \subseteq Working
  /\ "state" \in Own /\ "state" \notin Working /\ Working \subseteq Own
BY DEF Pcs, Own, Working

\* The row of a session changes.
LEMMA RowChanges ==
  ASSUME Shape, NEW s \in DOMAIN sessions, NEW x \in Session,
         sessions' = [sessions EXCEPT ![s] = x]
  PROVE  /\ sessions' \in Seq(Session) /\ DOMAIN sessions' = DOMAIN sessions
         /\ sessions'[s] = x /\ \A q \in DOMAIN sessions : q # s => sessions'[q] = sessions[q]
BY ExceptSeq, LenProperties DEF Shape

LEMMA RowTypes ==
  ASSUME Shape, NEW s \in DOMAIN sessions
  PROVE  sessions[s] \in Session /\ s \in Nat \ {0}
BY LenProperties DEF Shape

\* The end of a session leaves its topic and its minutes.
LEMMA StatusChanges ==
  ASSUME Shape, NEW s \in DOMAIN sessions, NEW st \in Closed, SetStatus(s, st)
  PROVE  /\ sessions' \in Seq(Session) /\ DOMAIN sessions' = DOMAIN sessions
         /\ recent' \subseteq DOMAIN sessions'
         /\ sessions'[s].status = st /\ sessions'[s].topic = sessions[s].topic
         /\ sessions'[s].minutes = sessions[s].minutes
         /\ \A q \in DOMAIN sessions : q # s => sessions'[q] = sessions[q]
<1> DEFINE x == [sessions[s] EXCEPT !.status = st]
<1>1. sessions[s] \in Session
  BY RowTypes
<1>2. /\ x \in Session /\ x.status = st /\ x.topic = sessions[s].topic
      /\ x.minutes = sessions[s].minutes
  BY <1>1 DEF Session
<1>3. sessions' = [sessions EXCEPT ![s] = x] /\ recent' \subseteq recent
  BY DEF SetStatus
<1> HIDE DEF x
<1> QED BY <1>2, <1>3, RowChanges DEF Shape

LEMMA MinutesChange ==
  ASSUME Shape, NEW s \in DOMAIN sessions, sessions' = [sessions EXCEPT ![s].minutes = TRUE]
  PROVE  /\ sessions' \in Seq(Session) /\ DOMAIN sessions' = DOMAIN sessions
         /\ sessions'[s].status = sessions[s].status /\ sessions'[s].topic = sessions[s].topic
         /\ sessions'[s].minutes = TRUE
         /\ \A q \in DOMAIN sessions : q # s => sessions'[q] = sessions[q]
<1> DEFINE x == [sessions[s] EXCEPT !.minutes = TRUE]
<1>1. sessions[s] \in Session
  BY RowTypes
<1>2. /\ x \in Session /\ x.status = sessions[s].status /\ x.topic = sessions[s].topic
      /\ x.minutes = TRUE
  BY <1>1 DEF Session
<1>3. sessions' = [sessions EXCEPT ![s] = x]
  OBVIOUS
<1> HIDE DEF x
<1> QED BY <1>2, <1>3, RowChanges

\* The cleaning of stale rows.
LEMMA ReclaimChanges ==
  ASSUME Shape, NEW stale \in SUBSET DOMAIN sessions, Reclaim(stale)
  PROVE  /\ sessions' \in Seq(Session) /\ DOMAIN sessions' = DOMAIN sessions
         /\ \A q \in DOMAIN sessions :
              /\ sessions'[q].topic = sessions[q].topic
              /\ q \in stale => sessions'[q].status = "cancelled"
              /\ q \notin stale => sessions'[q] = sessions[q]
<1> DEFINE x(s) == IF s \in stale THEN [sessions[s] EXCEPT !.status = "cancelled"]
                   ELSE sessions[s]
<1>1. \A s \in DOMAIN sessions :
        /\ x(s) \in Session /\ x(s).topic = sessions[s].topic
        /\ s \in stale => x(s).status = "cancelled"
        /\ s \notin stale => x(s) = sessions[s]
  BY RowTypes DEF Session, Closed
<1>2. /\ Len(sessions) \in Nat /\ DOMAIN sessions = 1 .. Len(sessions)
      /\ sessions' = [s \in 1 .. Len(sessions) |-> x(s)]
  BY LenProperties DEF Shape, Reclaim
<1> HIDE DEF x
<1>3. sessions' \in [1 .. Len(sessions) -> Session]
  BY <1>1, <1>2
<1>4. sessions' \in Seq(Session)
  BY <1>2, <1>3, SeqDef
<1> QED BY <1>1, <1>2, <1>4

LEMMA SessionOpens ==
  ASSUME Shape, NEW m \in Meetings, Open(m)
  PROVE  /\ sessions' \in Seq(Session)
         /\ DOMAIN sessions' = DOMAIN sessions \union {Len(sessions) + 1}
         /\ Len(sessions) + 1 \in Nat /\ Len(sessions) + 1 \notin DOMAIN sessions \union {0}
         /\ sessions'[Len(sessions) + 1].topic = TopicOf[m]
         /\ sessions'[Len(sessions) + 1].status = "running"
         /\ \A q \in DOMAIN sessions : sessions'[q] = sessions[q]
<1> DEFINE x == [topic |-> TopicOf[m], status |-> "running", minutes |-> FALSE]
<1>1. x \in Session /\ x.topic = TopicOf[m] /\ x.status = "running"
  BY DEF Session
<1>2. sessions' = Append(sessions, x)
  BY DEF Open
<1> HIDE DEF x
<1>3. sessions' \in Seq(Session) /\ Len(sessions') = Len(sessions) + 1
      /\ Len(sessions) \in Nat /\ sessions'[Len(sessions) + 1] = x
      /\ \A q \in 1 .. Len(sessions) : sessions'[q] = sessions[q]
  BY <1>1, <1>2, AppendProperties, LenProperties DEF Shape
<1>4. DOMAIN sessions = 1 .. Len(sessions) /\ DOMAIN sessions' = 1 .. Len(sessions')
  BY <1>3, LenProperties DEF Shape
<1> QED BY <1>1, <1>3, <1>4


OtherRuns(m) ==
  run' \in [Meetings -> Run] /\ \A n \in Meetings : n # m => run'[n] = run[n]

LEMMA OneRuns ==
  ASSUME Shape, NEW m \in Meetings, NEW x \in Run, run' = [run EXCEPT ![m] = x]
  PROVE  OtherRuns(m) /\ run'[m] = x
BY DEF Shape, OtherRuns

\* Another place in run, and maybe another session, at the same table.
LEMMA PcMoves ==
  ASSUME Shape, NEW m \in Meetings, NEW p \in Pcs, NEW s \in Nat,
         \/ Goto(m, p) /\ s = run[m].sid
         \/ run' = [run EXCEPT ![m].pc = p, ![m].sid = s]
  PROVE  /\ OtherRuns(m) /\ run'[m].pc = p /\ run'[m].sid = s
         /\ run'[m].round = run[m].round /\ run'[m].order = run[m].order
         /\ run'[m].out = run[m].out /\ run'[m].prev = run[m].prev
         /\ run'[m].fit = run[m].fit /\ run'[m].by = run[m].by
<1> DEFINE x == [run[m] EXCEPT !.pc = p, !.sid = s]
<1>1. run[m] \in Run
  BY DEF Shape
<1>2. /\ x \in Run /\ x.pc = p /\ x.sid = s /\ x.round = run[m].round
      /\ x.order = run[m].order /\ x.out = run[m].out /\ x.prev = run[m].prev
      /\ x.fit = run[m].fit /\ x.by = run[m].by
  BY <1>1 DEF Run
<1>3. CASE Goto(m, p) /\ s = run[m].sid
  <2>1. [run[m] EXCEPT !.pc = p] = x
    BY <1>1, <1>3 DEF Run
  <2>2. run' = [run EXCEPT ![m] = [run[m] EXCEPT !.pc = p]]
    BY <1>3 DEF Goto
  <2> HIDE DEF x
  <2>3. run' = [run EXCEPT ![m] = x]
    BY <2>1, <2>2
  <2> QED BY <1>2, <2>3, OneRuns
<1>4. CASE run' = [run EXCEPT ![m].pc = p, ![m].sid = s]
  <2>1. run' = [run EXCEPT ![m] = x]
    BY <1>4 DEF Shape
  <2> HIDE DEF x
  <2> QED BY <1>2, <2>1, OneRuns
<1> QED BY <1>3, <1>4

LEMMA IdleIsRun ==
  /\ Idle \in Run /\ Idle.pc = "idle" /\ Idle.sid = 0 /\ Idle.round = 0
  /\ Idle.order = {} /\ Idle.out = {} /\ Idle.prev = <<>> /\ Idle.fit = 0 /\ Idle.by = {}
BY DEF Idle, Run, Pcs, Heard

\* The meeting is over, or only its report is left to do.
LEMMA TableClears ==
  ASSUME Shape, NEW m \in Meetings,
         \/ run' = [run EXCEPT ![m] = Idle]
         \/ run' = [run EXCEPT ![m] = [Idle EXCEPT !.pc = "report", !.sid = run[m].sid]]
  PROVE  OtherRuns(m) /\ Blank(m)' /\ run'[m].round = 0
         /\ \/ run'[m] = Idle
            \/ run'[m].pc = "report" /\ run'[m].sid = run[m].sid
<1>1. CASE run' = [run EXCEPT ![m] = Idle]
  BY <1>1, IdleIsRun, OneRuns DEF Blank
<1>2. CASE run' = [run EXCEPT ![m] = [Idle EXCEPT !.pc = "report", !.sid = run[m].sid]]
  <2> DEFINE x == [Idle EXCEPT !.pc = "report", !.sid = run[m].sid]
  <2>1. run[m].sid \in Nat
    BY DEF Shape, Run
  <2>2. /\ x \in Run /\ x.pc = "report" /\ x.sid = run[m].sid /\ x.round = 0
        /\ x.order = {} /\ x.out = {} /\ x.prev = <<>> /\ x.fit = 0 /\ x.by = {}
    BY <2>1, Names DEF Idle, Run, Heard
  <2> HIDE DEF x
  <2>3. OtherRuns(m) /\ run'[m] = x
    BY <1>2, <2>2, OneRuns DEF x
  <2> QED BY <2>2, <2>3 DEF Blank
<1> QED BY <1>1, <1>2

LEMMA TableIsSet ==
  ASSUME Shape, NEW m \in Meetings, Announce(m)
  PROVE  /\ OtherRuns(m) /\ run'[m].pc = "round" /\ run'[m].round = 1
         /\ run'[m].order = Team(m) /\ run'[m].sid = run[m].sid /\ run'[m].out = run[m].out
         /\ run'[m].prev = run[m].prev /\ run'[m].fit = run[m].fit /\ run'[m].by = run[m].by
<1> DEFINE x == [run[m] EXCEPT !.pc = "round", !.round = 1, !.order = Team(m)]
<1>1. run[m] \in Run /\ Team(m) \in SUBSET Agents
  BY DEF Shape, Team
<1>2. /\ x \in Run /\ x.pc = "round" /\ x.round = 1 /\ x.order = Team(m)
      /\ x.sid = run[m].sid /\ x.out = run[m].out /\ x.prev = run[m].prev
      /\ x.fit = run[m].fit /\ x.by = run[m].by
  BY <1>1, Names DEF Run
<1>3. run' = [run EXCEPT ![m] = x]
  BY DEF Announce, Shape
<1> HIDE DEF x
<1> QED BY <1>2, <1>3, OneRuns

-------------------------------------------------------------------------------
(* The invariant.                                                           *)

\* A step of one meeting: it may end its own session, clean those of nobody, or
\* open one.
LEMMA MeetingMoves ==
  ASSUME RoundInv, NEW m \in Meetings, Shape', DoneHasMinutes', OtherRuns(m),
         \A n \in Meetings : n # m => task'[n] = task[n] /\ result'[n] = result[n],
         \A s \in DOMAIN sessions :
           /\ s \in DOMAIN sessions' /\ sessions'[s].topic = sessions[s].topic
           /\ \/ sessions'[s] = sessions[s]
              \/ run[m].pc \in Own /\ run[m].sid = s
              \/ \A n \in Meetings : run[n].sid # s,
         run'[m].pc \in Own =>
           \/ run[m].pc \in Own /\ run'[m].sid = run[m].sid
           \/ run'[m].sid \notin DOMAIN sessions,
         Held(m)', Seated(m)'
  PROVE  RoundInv'
<1>1. /\ \A n \in Meetings : Held(n) /\ Seated(n)
      /\ Apart /\ Shape
  BY DEF RoundInv
<1>2. ASSUME NEW n \in Meetings, n # m PROVE Held(n)' /\ Seated(n)'
  <2>1. /\ run'[n] = run[n] /\ task'[n] = task[n] /\ result'[n] = result[n]
        /\ Held(n) /\ Seated(n)
    BY <1>1, <1>2 DEF OtherRuns
  <2>2. Seated(n)'
    BY <2>1 DEF Seated, Blank
  <2>3. \A s : IsOn(n, s) => IsOn(n, s)'
    BY DEF IsOn
  <2>4. run[n].pc \in Own => sessions'[run[n].sid] = sessions[run[n].sid]
    BY <1>1, <1>2, <2>1 DEF Held, IsOn, Apart
  <2>5. {"report", "state"} \subseteq Own /\ Working \subseteq Own
    BY Names
  <2>6. Held(n)'
    BY <2>1, <2>3, <2>4, <2>5 DEF Held
  <2> QED BY <2>2, <2>6
<1>3. \A n \in Meetings : Held(n)' /\ Seated(n)'
  BY <1>2
<1>4. \A n \in Meetings : n # m /\ run[n].pc \in Own /\ run'[m].pc \in Own
                          => run'[m].sid # run[n].sid
  BY <1>1 DEF Apart, Held, IsOn
<1>5. Apart'
  BY <1>4, <1>1 DEF OtherRuns, Apart
<1> QED BY <1>3, <1>5 DEF RoundInv

\* Most steps leave the sessions alone.
LEMMA MeetingGoesOn ==
  ASSUME RoundInv, NEW m \in Meetings, Shape', OtherRuns(m), UNCHANGED sessions,
         \A n \in Meetings : n # m => task'[n] = task[n] /\ result'[n] = result[n],
         run'[m].pc \in Own => run[m].pc \in Own /\ run'[m].sid = run[m].sid,
         Held(m)', Seated(m)'
  PROVE  RoundInv'
<1>1. DoneHasMinutes'
  BY DEF RoundInv, DoneHasMinutes
<1> QED BY <1>1, MeetingMoves

\* Claim, Cancel, Retry.
LEMMA TaskSteps ==
  ASSUME RoundInv, NEW m \in Meetings, Claim(m) \/ Cancel(m) \/ Retry(m)
  PROVE  RoundInv'
<1>1. Shape /\ Held(m) /\ Seated(m) /\ DoneHasMinutes /\ Apart
  BY DEF RoundInv
<1>2. CASE Claim(m)
  <2>1. /\ OtherRuns(m) /\ run'[m].pc = "start" /\ run'[m].sid = run[m].sid
        /\ run'[m].round = run[m].round /\ run'[m].order = run[m].order
        /\ run'[m].out = run[m].out /\ run'[m].prev = run[m].prev
        /\ run'[m].fit = run[m].fit /\ run'[m].by = run[m].by
    BY <1>1, <1>2, PcMoves, Names DEF Claim, Shape, Run
  <2>2. /\ task[m] = "queued" /\ task' = [task EXCEPT ![m] = "running"] /\ run[m].pc = "idle"
        /\ UNCHANGED <<flag, sessions, recent, result, restarts>>
    BY <1>1, <1>2 DEF Claim, Held, Shape, Run, Pcs
  <2>3. Shape'
    BY <1>1, <2>1, <2>2 DEF Shape, OtherRuns
  <2>4. Held(m)' /\ Seated(m)'
    BY <1>1, <2>1, <2>2, Names DEF Held, Seated, Blank, IsOn, Shape
  <2> QED BY <1>1, <2>1, <2>2, <2>3, <2>4, MeetingGoesOn, Names DEF Shape
<1>3. CASE Cancel(m)
  <2>1. /\ UNCHANGED <<run, sessions, recent, result, restarts>>
        /\ \/ task[m] = "queued" /\ task' = [task EXCEPT ![m] = "cancelled"]
           \/ UNCHANGED task
        /\ flag' = [flag EXCEPT ![m] = TRUE]
    BY <1>3 DEF Cancel
  <2>2. Shape' /\ OtherRuns(m)
    BY <1>1, <2>1 DEF Shape, TaskEnded, OtherRuns
  <2>3. Held(m)' /\ Seated(m)'
    BY <1>1, <2>1 DEF Held, Seated, Blank, IsOn, Shape
  <2> QED BY <1>1, <2>1, <2>2, <2>3, MeetingGoesOn DEF Shape
<1>4. CASE Retry(m)
  <2>1. /\ task[m] \in {"failed", "cancelled"} /\ task' = [task EXCEPT ![m] = "queued"]
        /\ flag' = [flag EXCEPT ![m] = FALSE] /\ restarts < MaxRestarts
        /\ restarts' = restarts + 1
        /\ UNCHANGED <<run, sessions, recent, result>>
    BY <1>4 DEF Retry
  <2>2. Shape' /\ OtherRuns(m)
    BY <1>1, <2>1 DEF Shape, OtherRuns
  <2>3. Held(m)' /\ Seated(m)'
    BY <1>1, <2>1 DEF Held, Seated, Blank, IsOn, Shape
  <2> QED BY <1>1, <2>1, <2>2, <2>3, MeetingGoesOn DEF Shape
<1> QED BY <1>2, <1>3, <1>4

\* An exit: nobody is at work, so nothing is held.
LEMMA CrashStep == RoundInv /\ Crash => RoundInv'
<1> SUFFICES ASSUME RoundInv, Crash PROVE RoundInv'
  OBVIOUS
<1>1. Shape /\ DoneHasMinutes /\ \A m \in Meetings : Held(m) /\ Seated(m)
  BY DEF RoundInv
<1>2. /\ \A m \in Meetings : run'[m] = Idle
      /\ \A m \in Meetings : /\ task'[m] # "running"
                             /\ task'[m] = "succeeded" => task[m] = "succeeded"
      /\ UNCHANGED <<sessions, recent, result, flag>>
  BY <1>1 DEF Crash, Shape
<1>3. Shape'
  BY <1>1, IdleIsRun DEF Crash, Shape, TaskEnded
<1>4. Apart' /\ DoneHasMinutes'
  BY <1>1, <1>2, IdleIsRun, Names DEF Apart, DoneHasMinutes
<1>5. ASSUME NEW m \in Meetings PROVE Held(m)' /\ Seated(m)'
  <2>1. Held(m)'
    BY <1>1, <1>2, IdleIsRun, Names DEF Held, IsOn, Shape
  <2>2. Cardinality(run'[m].order) = 0
    BY <1>2, IdleIsRun, FS_EmptySet
  <2>3. Seated(m)'
    BY <1>2, <2>2, IdleIsRun DEF Seated, Blank
  <2> QED BY <2>1, <2>3
<1> QED BY <1>3, <1>4, <1>5 DEF RoundInv

LEMMA FindStep == ASSUME RoundInv, NEW m \in Meetings, Find(m) PROVE RoundInv'
<1>1. Shape /\ Held(m) /\ Seated(m) /\ DoneHasMinutes /\ run[m].pc = "start"
      /\ \A n \in Meetings : Held(n)
  BY DEF RoundInv, Find
<1>2. /\ recent' \subseteq recent /\ UNCHANGED <<task, flag, result, restarts>>
      /\ \E stale \in SUBSET Abandoned(recent') : Reclaim(stale)
  BY DEF Find
<1>3. PICK stale \in SUBSET DOMAIN sessions : stale \subseteq Abandoned(recent') /\ Reclaim(stale)
  BY <1>2 DEF Abandoned
<1>4. /\ sessions' \in Seq(Session) /\ DOMAIN sessions' = DOMAIN sessions
      /\ \A q \in DOMAIN sessions :
           /\ sessions'[q].topic = sessions[q].topic
           /\ q \in stale => sessions'[q].status = "cancelled"
           /\ q \notin stale => sessions'[q] = sessions[q]
  BY <1>1, <1>3, ReclaimChanges
<1>5. \A q \in stale : \A n \in Meetings : run[n].sid # q
  BY <1>3 DEF Abandoned
<1>6. PICK p \in {"open", "return"}, s \in {0} \union DOMAIN sessions :
        /\ \/ Goto(m, p) /\ s = run[m].sid
           \/ run' = [run EXCEPT ![m].pc = p, ![m].sid = s]
        /\ p = "return" => s \in DOMAIN sessions /\ sessions[s].topic = TopicOf[m]
  <2>1. CASE Goto(m, "open")
    BY <1>1, <2>1 DEF Held
  <2>2. CASE \E s \in Duplicate(m, recent') :
               run' = [run EXCEPT ![m].pc = "return", ![m].sid = s]
    <3>1. PICK s \in Duplicate(m, recent') : run' = [run EXCEPT ![m].pc = "return", ![m].sid = s]
      BY <2>2
    <3>2. s \in DOMAIN sessions /\ sessions[s].topic = TopicOf[m]
      BY <1>1, <1>2, <3>1 DEF Duplicate, Shape
    <3> QED BY <3>1, <3>2
  <2> QED BY <2>1, <2>2 DEF Find
<1>7. p \in Pcs /\ s \in Nat
  BY <1>1, <1>6, Names, RowTypes
<1>8. /\ OtherRuns(m) /\ run'[m].pc = p /\ run'[m].sid = s
      /\ run'[m].round = run[m].round /\ run'[m].order = run[m].order
      /\ run'[m].out = run[m].out /\ run'[m].prev = run[m].prev
      /\ run'[m].fit = run[m].fit /\ run'[m].by = run[m].by
  BY <1>1, <1>6, <1>7, PcMoves
<1>9. Shape'
  BY <1>1, <1>2, <1>4, <1>8 DEF Shape, OtherRuns
<1>10. /\ p \notin Own /\ p \notin Working /\ p # "idle" /\ p # "report" /\ p # "state"
       /\ p # "round" /\ p # "summary"
  BY <1>6, Names
<1>11. Held(m)'
  BY <1>1, <1>2, <1>4, <1>6, <1>8, <1>10 DEF Held, IsOn
<1>12. Seated(m)'
  BY <1>1, <1>8, <1>10 DEF Seated, Blank
<1>13. DoneHasMinutes'
  BY <1>1, <1>4 DEF DoneHasMinutes
<1> QED BY <1>1, <1>2, <1>4, <1>5, <1>8, <1>9, <1>10, <1>11, <1>12, <1>13, MeetingMoves

LEMMA OpenStep == ASSUME RoundInv, NEW m \in Meetings, Open(m) PROVE RoundInv'
<1> DEFINE new == Len(sessions) + 1
<1>1. Shape /\ Held(m) /\ Seated(m) /\ DoneHasMinutes /\ run[m].pc = "open"
  BY DEF RoundInv, Open
<1>2. /\ sessions' \in Seq(Session) /\ DOMAIN sessions' = DOMAIN sessions \union {new}
      /\ new \in Nat /\ new \notin DOMAIN sessions \union {0}
      /\ sessions'[new].topic = TopicOf[m] /\ sessions'[new].status = "running"
      /\ \A q \in DOMAIN sessions : sessions'[q] = sessions[q]
  BY <1>1, SessionOpens
<1>3. /\ recent' = recent \union {new} /\ UNCHANGED <<task, flag, result, restarts>>
      /\ run' = [run EXCEPT ![m].pc = "announce", ![m].sid = new]
  BY DEF Open
<1> HIDE DEF new
<1>4. "announce" \in Pcs /\ "announce" \in Working /\ "announce" \in Own
  BY Names
<1>5. /\ OtherRuns(m) /\ run'[m].pc = "announce" /\ run'[m].sid = new
      /\ run'[m].round = run[m].round /\ run'[m].order = run[m].order
      /\ run'[m].out = run[m].out /\ run'[m].prev = run[m].prev
      /\ run'[m].fit = run[m].fit /\ run'[m].by = run[m].by
  BY <1>1, <1>2, <1>3, <1>4, PcMoves
<1>6. Shape'
  BY <1>1, <1>2, <1>3, <1>5 DEF Shape, OtherRuns
<1>7. Held(m)'
  BY <1>1, <1>2, <1>3, <1>4, <1>5 DEF Held, IsOn
<1>8. Seated(m)'
  BY <1>1, <1>5 DEF Seated, Blank
<1>9. DoneHasMinutes'
  BY <1>1, <1>2 DEF DoneHasMinutes
<1> QED BY <1>1, <1>2, <1>3, <1>5, <1>6, <1>7, <1>8, <1>9, MeetingMoves

LEMMA AnnounceStep == ASSUME RoundInv, NEW m \in Meetings, Announce(m) PROVE RoundInv'
<1>1. Shape /\ Held(m) /\ Seated(m) /\ run[m].pc = "announce"
      /\ UNCHANGED <<task, flag, sessions, recent, result, restarts>>
  BY DEF RoundInv, Announce
<1>2. /\ OtherRuns(m) /\ run'[m].pc = "round" /\ run'[m].round = 1
      /\ run'[m].order = Team(m) /\ run'[m].sid = run[m].sid /\ run'[m].out = run[m].out
      /\ run'[m].prev = run[m].prev /\ run'[m].fit = run[m].fit /\ run'[m].by = run[m].by
  BY <1>1, TableIsSet
<1>3. Shape'
  BY <1>1, <1>2 DEF Shape, OtherRuns
<1>4. "announce" \in Working /\ "announce" \in Own
  BY Names
<1>5. Held(m)'
  BY <1>1, <1>2, <1>4, Names DEF Held, IsOn
<1>6. Blank(m) /\ RoundsOf[TopicOf[m]] \in Nat \ {0} /\ Cardinality(Team(m)) \in Nat
  BY <1>1, FS_CardinalityType DEF Seated, Team
<1>7. Seated(m)'
  BY <1>2, <1>6 DEF Seated, Blank, Team
<1> QED BY <1>1, <1>2, <1>3, <1>4, <1>5, <1>7, MeetingGoesOn

\* A round: what the members heard have said, in answers and in failed calls.
LEMMA SpeechTypes ==
  ASSUME NEW k \in Agents, NEW v \in Said(k), v # Unavailable
  PROVE  v.stance \in Stances /\ v.conf \in 0 .. 100 /\ v.ok \in BOOLEAN
<1>1. \A sp \in SpeechesOf[k] \union {<<"neutral", DefaultConf>>} :
        sp[1] \in Stances /\ sp[2] \in 0 .. 100
  BY DEF DefaultConf, Stances
<1>2. PICK sp \in SpeechesOf[k] \union {<<"neutral", DefaultConf>>}, b \in BOOLEAN :
        v = [stance |-> sp[1], conf |-> sp[2], ok |-> b]
  BY DEF Said, Answer, ErrorTexts
<1> QED BY <1>1, <1>2

LEMMA ConsensusIsCarried ==
  ASSUME NEW heard, IsFiniteSet(heard), NEW now, DOMAIN now = heard,
         \A k \in heard : now[k].conf \in 0 .. 100,
         NEW round, Consensus(round, now), Explicit(now)
  PROVE  /\ Agreeing(now) \subseteq heard
         /\ 5 * Cardinality(Agreeing(now)) >= 3 * Cardinality(heard)
<1>1. Nominal(round, now) /\ Weighted(round, now)
  BY DEF Consensus
<1>2. Total(now, Agreeing(now)) >= 60 * Cardinality(heard)
  BY <1>1 DEF Weighted, Total, MapThenSumSet, MapThenFoldSet, ConsensusRatio
<1>3. Agreeing(now) \subseteq heard /\ IsFiniteSet(Agreeing(now))
      /\ Cardinality(Agreeing(now)) \in Nat /\ Cardinality(heard) \in Nat
  BY FS_Subset, FS_CardinalityType DEF Agreeing
<1>4. Total(now, Agreeing(now)) \in Nat
      /\ Total(now, Agreeing(now)) <= 100 * Cardinality(Agreeing(now))
  BY <1>3, TotalIsBounded
<1> QED BY <1>2, <1>3, <1>4

\* The task of a meeting at work ends without a result.
LEMMA MeetingFails ==
  ASSUME RoundInv, NEW m \in Meetings, NEW st \in {"failed", "cancelled"},
         run[m].pc # "idle", EndTask(m, st), UNCHANGED <<flag, result, restarts>>,
         \/ (Guarded(m) \/ run[m].pc = "state") /\ SetStatus(run[m].sid, st)
         \/ UNCHANGED <<sessions, recent>>
  PROVE  RoundInv'
<1>1. Shape /\ Held(m) /\ Seated(m) /\ DoneHasMinutes
  BY DEF RoundInv
<1>2. /\ OtherRuns(m) /\ Blank(m)' /\ run'[m] = Idle
      /\ task' = [task EXCEPT ![m] = st]
      /\ task' \in [Meetings -> {"queued", "running"} \union TaskEnded]
      /\ task'[m] = st
  BY <1>1, IdleIsRun, OneRuns DEF EndTask, Blank, Shape, TaskEnded
<1>3. /\ sessions' \in Seq(Session) /\ recent' \subseteq DOMAIN sessions'
      /\ DOMAIN sessions' = DOMAIN sessions
      /\ \A s \in DOMAIN sessions :
           /\ sessions'[s].topic = sessions[s].topic
           /\ \/ sessions'[s] = sessions[s]
              \/ run[m].pc \in Own /\ run[m].sid = s /\ sessions'[s].status = st
  <2>1. CASE UNCHANGED <<sessions, recent>>
    BY <1>1, <2>1 DEF Shape
  <2>2. CASE (Guarded(m) \/ run[m].pc = "state") /\ SetStatus(run[m].sid, st)
    <3>1. run[m].pc \in Own /\ run[m].sid \in DOMAIN sessions /\ st \in Closed
      BY <1>1, <2>2, Names DEF Guarded, Held, IsOn, Closed
    <3>2. PICK q \in DOMAIN sessions : q = run[m].sid
      BY <3>1
    <3> QED BY <1>1, <2>2, <3>1, <3>2, StatusChanges
  <2> QED BY <2>1, <2>2
<1>4. Shape'
  BY <1>1, <1>2, <1>3 DEF Shape, OtherRuns
<1>5. DoneHasMinutes'
  BY <1>1, <1>3 DEF DoneHasMinutes
<1>6. Held(m)'
  BY <1>1, <1>2, <1>3, IdleIsRun, Names DEF Held, IsOn
<1>7. Seated(m)'
  BY <1>2, IdleIsRun, FS_EmptySet DEF Seated, Blank
<1>8. /\ \A n \in Meetings : n # m => task'[n] = task[n] /\ result'[n] = result[n]
      /\ run'[m].pc \notin Own
  BY <1>1, <1>2, IdleIsRun, Names DEF Shape
<1>9. \A s \in DOMAIN sessions :
        /\ s \in DOMAIN sessions' /\ sessions'[s].topic = sessions[s].topic
        /\ \/ sessions'[s] = sessions[s]
           \/ run[m].pc \in Own /\ run[m].sid = s
           \/ \A n \in Meetings : run[n].sid # s
  BY <1>3
<1> QED BY <1>2, <1>4, <1>5, <1>6, <1>7, <1>8, <1>9, MeetingMoves

LEMMA HoldRoundStep == ASSUME RoundInv, NEW m \in Meetings, HoldRound(m) PROVE RoundInv'
<1> DEFINE r == run[m]
<1>1. Shape /\ Held(m) /\ Seated(m) /\ DoneHasMinutes /\ r.pc = "round"
      /\ UNCHANGED <<flag, result, restarts>>
  BY DEF RoundInv, HoldRound
<1>2. PICK said \in [r.order -> UNION {Said(k) : k \in r.order}] :
        (\A k \in r.order : said[k] \in Said(k)) /\ Round(m, said)
  BY DEF HoldRound
<1> DEFINE heard == {k \in r.order : said[k] # Unavailable}
           now == Restrict(said, heard)
           fit == {k \in heard : said[k].ok}
           by == IF Consensus(r.round, now) /\ Explicit(now) THEN Agreeing(now) ELSE {}
<1>3. r \in Run /\ r.order \subseteq Agents /\ r.order \subseteq Team(m) /\ r.round \in Nat
      /\ r.round >= 1 /\ r.round <= RoundsOf[TopicOf[m]] /\ RoundsOf[TopicOf[m]] \in Nat
      /\ heard \subseteq r.order /\ r.order \union r.out = Team(m) /\ r.order \cap r.out = {}
      /\ r.sid \in DOMAIN sessions /\ sessions[r.sid].topic = TopicOf[m]
      /\ sessions[r.sid].status = "running" /\ task[m] = "running"
  BY <1>1, Names DEF Shape, Run, Seated, Held, IsOn
<1>4. /\ IsFiniteSet(heard) /\ Cardinality(heard) \in Nat
      /\ fit \subseteq heard /\ Cardinality(fit) \in Nat /\ Cardinality(fit) <= Cardinality(heard)
  <2>1. IsFiniteSet(Team(m)) /\ heard \in SUBSET Team(m)
    BY <1>3 DEF Team
  <2>2. IsFiniteSet(heard)
    BY <2>1, FS_Subset
  <2> QED BY <2>2, FS_Subset, FS_CardinalityType
<1>5. DOMAIN now = heard /\ \A k \in heard :
        now[k] = said[k] /\ now[k].stance \in Stances /\ now[k].conf \in 0 .. 100
  <2>1. \A k \in heard : said[k].stance \in Stances /\ said[k].conf \in 0 .. 100
    BY <1>2, <1>3, SpeechTypes
  <2> QED BY <2>1 DEF Restrict
<1>6. StancesOf(now) \in Heard /\ DOMAIN StancesOf(now) = heard
  <2>1. StancesOf(now) \in [heard -> Stances]
    BY <1>5 DEF StancesOf
  <2> QED BY <1>3, <2>1 DEF Heard
<1>7. /\ by \subseteq heard
      /\ by # {} => 5 * Cardinality(by) >= 3 * Cardinality(heard)
  <2>1. CASE Consensus(r.round, now) /\ Explicit(now)
    <3>1. /\ Agreeing(now) \subseteq heard
          /\ 5 * Cardinality(Agreeing(now)) >= 3 * Cardinality(heard)
      <4> HIDE DEF heard, now
      <4> QED BY <1>4, <1>5, <2>1, ConsensusIsCarried
    <3> QED BY <2>1, <3>1
  <2>2. CASE ~ (Consensus(r.round, now) /\ Explicit(now))
    BY <2>2
  <2> QED BY <2>1, <2>2
<1>8. Consensus(r.round, now) \/ FixedPoint(r.round, now, r.prev) => r.round >= 2
  BY DEF Consensus, Nominal, FixedPoint
\* Too few are left.
<1>9. CASE Cardinality(heard) < 2 /\ Mark(r.sid, "failed") /\ EndTask(m, "failed")
  BY <1>1, <1>9, MeetingFails DEF Guarded, Mark
\* The rounds go on or end.
<1>10. ASSUME NEW p \in {"round", "summary"}, NEW n \in Nat, NEW prev \in Heard, NEW f \in Nat,
              NEW b \in SUBSET Agents, Cardinality(heard) >= 2,
              run' = [run EXCEPT ![m] = [r EXCEPT
                        !.pc = p, !.round = n, !.order = heard,
                        !.out = r.out \union (r.order \ heard), !.prev = prev,
                        !.fit = f, !.by = b]],
              UNCHANGED <<task, sessions, recent>>,
              1 < n, n <= RoundsOf[TopicOf[m]] + 1,
              p = "round" => n <= RoundsOf[TopicOf[m]] /\ b = {} /\ f = 0,
              DOMAIN prev \subseteq heard, b \subseteq heard, f <= Cardinality(heard),
              b # {} => 5 * Cardinality(b) >= 3 * Cardinality(heard)
       PROVE  RoundInv'
  <2> DEFINE x == [r EXCEPT !.pc = p, !.round = n, !.order = heard,
                     !.out = r.out \union (r.order \ heard), !.prev = prev,
                     !.fit = f, !.by = b]
  <2>1. /\ x \in Run /\ x.pc = p /\ x.sid = r.sid /\ x.round = n /\ x.order = heard
        /\ x.out = r.out \union (r.order \ heard) /\ x.prev = prev /\ x.fit = f /\ x.by = b
    <3>1. heard \in SUBSET Agents /\ r.out \union (r.order \ heard) \in SUBSET Agents /\ p \in Pcs
      BY <1>3, Names DEF Run
    <3> HIDE DEF heard
    <3> QED BY <1>3, <3>1 DEF Run
  <2> HIDE DEF x, heard
  <2>2. OtherRuns(m) /\ run'[m] = x
    BY <1>1, <1>10, <2>1, OneRuns DEF x
  <2>3. Shape'
    BY <1>1, <1>10, <2>2 DEF Shape, OtherRuns
  <2>4. Held(m)'
    BY <1>1, <1>3, <1>10, <2>1, <2>2, Names DEF Held, IsOn
  <2>5. heard \subseteq r.order
    BY <1>3
  <2>6. Seated(m)'
    BY <1>3, <1>10, <2>1, <2>2, <2>5 DEF Seated, Team
  <2> QED BY <1>1, <1>10, <2>1, <2>2, <2>3, <2>4, <2>6, Names, MeetingGoesOn
\* The three ways in which they go on, with the locals written out.
<1> DEFINE Goes(p, n, prev, f, b) ==
             run' = [run EXCEPT ![m] = [r EXCEPT
                       !.pc = p, !.round = n, !.order = heard,
                       !.out = r.out \union (r.order \ heard), !.prev = prev,
                       !.fit = f, !.by = b]]
           seated == Seat(r, heard)
           over == [seated EXCEPT !.pc = "summary", !.prev = <<>>, !.fit = Cardinality(fit),
                                  !.by = by]
<1>11. \/ Cardinality(heard) < 2 /\ Mark(r.sid, "failed") /\ EndTask(m, "failed")
       \/ /\ Cardinality(heard) >= 2 /\ UNCHANGED <<task, sessions, recent>>
          /\ run' = [run EXCEPT ![m] =
               IF Consensus(r.round, now) \/ FixedPoint(r.round, now, r.prev) THEN over
               ELSE IF Ceiling(m, r.round) THEN [over EXCEPT !.round = r.round + 1]
               ELSE [seated EXCEPT !.round = r.round + 1, !.prev = StancesOf(now)]]
  BY <1>2 DEF Round, Quantify
<1>12. /\ over = [r EXCEPT !.pc = "summary", !.round = r.round, !.order = heard,
                    !.out = r.out \union (r.order \ heard), !.prev = <<>>,
                    !.fit = Cardinality(fit), !.by = by]
       /\ [over EXCEPT !.round = r.round + 1] =
            [r EXCEPT !.pc = "summary", !.round = r.round + 1, !.order = heard,
                    !.out = r.out \union (r.order \ heard), !.prev = <<>>,
                    !.fit = Cardinality(fit), !.by = by]
       /\ [seated EXCEPT !.round = r.round + 1, !.prev = StancesOf(now)] =
            [r EXCEPT !.pc = "round", !.round = r.round + 1, !.order = heard,
                    !.out = r.out \union (r.order \ heard), !.prev = StancesOf(now),
                    !.fit = r.fit, !.by = r.by]
  <2> HIDE DEF heard, now, fit, by
  <2> QED BY <1>1, <1>3 DEF Seat, Run
<1>13. r.fit = 0 /\ r.by = {}
  BY <1>1 DEF Seated
<1> HIDE DEF heard, now, fit, by, seated, over
<1>14. CASE Cardinality(heard) >= 2 /\ UNCHANGED <<task, sessions, recent>>
            /\ (Consensus(r.round, now) \/ FixedPoint(r.round, now, r.prev))
            /\ Goes("summary", r.round, <<>>, Cardinality(fit), by)
  <2>1. /\ r.round \in Nat /\ 1 < r.round /\ r.round <= RoundsOf[TopicOf[m]] + 1
        /\ <<>> \in Heard /\ DOMAIN <<>> = {} /\ by \in SUBSET Agents /\ Cardinality(fit) \in Nat
    BY <1>3, <1>4, <1>7, <1>8, <1>14 DEF Heard
  <2> QED BY <1>4, <1>7, <1>10, <1>14, <2>1
<1>15. CASE Cardinality(heard) >= 2 /\ UNCHANGED <<task, sessions, recent>>
            /\ Goes("summary", r.round + 1, <<>>, Cardinality(fit), by)
  <2>1. /\ r.round + 1 \in Nat /\ 1 < r.round + 1 /\ r.round + 1 <= RoundsOf[TopicOf[m]] + 1
        /\ <<>> \in Heard /\ DOMAIN <<>> = {} /\ by \in SUBSET Agents /\ Cardinality(fit) \in Nat
    BY <1>3, <1>4, <1>7 DEF Heard
  <2> QED BY <1>4, <1>7, <1>10, <1>15, <2>1
<1>16. CASE Cardinality(heard) >= 2 /\ UNCHANGED <<task, sessions, recent>>
            /\ ~ Ceiling(m, r.round)
            /\ Goes("round", r.round + 1, StancesOf(now), r.fit, r.by)
  <2>1. /\ r.round + 1 \in Nat /\ 1 < r.round + 1 /\ r.round + 1 <= RoundsOf[TopicOf[m]]
        /\ r.round + 1 <= RoundsOf[TopicOf[m]] + 1
        /\ r.by \in SUBSET Agents /\ r.fit \in Nat /\ r.fit <= Cardinality(heard)
    BY <1>3, <1>4, <1>13, <1>16 DEF Ceiling
  <2> QED BY <1>6, <1>10, <1>13, <1>16, <2>1
<1> QED BY <1>9, <1>11, <1>12, <1>14, <1>15, <1>16

LEMMA SummarizeStep == ASSUME RoundInv, NEW m \in Meetings, Summarize(m) PROVE RoundInv'
<1>1. Shape /\ Held(m) /\ Seated(m) /\ DoneHasMinutes /\ run[m].pc = "summary"
      /\ UNCHANGED <<task, flag, recent, result, restarts>>
  BY DEF RoundInv, Summarize
<1>2. PICK s \in DOMAIN sessions : s = run[m].sid
  BY <1>1, Names DEF Held, IsOn
<1>3. /\ sessions' \in Seq(Session) /\ DOMAIN sessions' = DOMAIN sessions
      /\ sessions'[s].status = sessions[s].status /\ sessions'[s].topic = sessions[s].topic
      /\ sessions'[s].minutes = TRUE
      /\ \A q \in DOMAIN sessions : q # s => sessions'[q] = sessions[q]
  BY <1>1, <1>2, MinutesChange DEF Summarize
<1>4. run' = [run EXCEPT ![m] = [Idle EXCEPT !.pc = "report", !.sid = run[m].sid]]
  BY DEF Summarize
<1>5. /\ OtherRuns(m) /\ Blank(m)' /\ run'[m].round = 0
      /\ run'[m] = Idle \/ (run'[m].pc = "report" /\ run'[m].sid = s)
  BY <1>1, <1>2, <1>4, TableClears
<1>6. Shape'
  BY <1>1, <1>3, <1>5 DEF Shape, OtherRuns
<1>7. run'[m].pc = "report" /\ run'[m].sid = s
  BY <1>1, <1>4, <1>2 DEF Shape, Idle
<1>8. Held(m)'
  BY <1>1, <1>2, <1>3, <1>7, Names DEF Held, IsOn
<1>9. Seated(m)'
  BY <1>5, <1>7, FS_EmptySet DEF Seated, Blank
<1>10. DoneHasMinutes'
  BY <1>1, <1>2, <1>3, Names DEF DoneHasMinutes, Held
<1> QED BY <1>1, <1>2, <1>3, <1>5, <1>6, <1>7, <1>8, <1>9, <1>10, Names, MeetingMoves

LEMMA CloseStep == ASSUME RoundInv, NEW m \in Meetings, Close(m) PROVE RoundInv'
<1>1. Shape /\ Held(m) /\ Seated(m) /\ DoneHasMinutes /\ run[m].pc = "report"
      /\ UNCHANGED <<task, flag, result, restarts>>
  BY DEF RoundInv, Close
<1>2. PICK s \in DOMAIN sessions : s = run[m].sid
  BY <1>1, Names DEF Held, IsOn
<1>3. /\ sessions' \in Seq(Session) /\ DOMAIN sessions' = DOMAIN sessions
      /\ recent' \subseteq DOMAIN sessions'
      /\ sessions'[s].status \in {"running", "done"}
      /\ sessions'[s].topic = sessions[s].topic
      /\ sessions'[s].minutes = sessions[s].minutes
      /\ \A q \in DOMAIN sessions : q # s => sessions'[q] = sessions[q]
  <2>1. CASE SetStatus(s, "done")
    <3>1. "done" \in Closed
      BY DEF Closed
    <3> QED BY <1>1, <2>1, <3>1, StatusChanges
  <2>2. CASE UNCHANGED <<sessions, recent>>
    BY <1>1, <1>2, <2>2, Names DEF Shape, Held
  <2> QED BY <1>2, <2>1, <2>2 DEF Close, Mark
<1>4. s \in Nat
  BY <1>1, RowTypes
<1>5. /\ OtherRuns(m) /\ run'[m].pc = "state" /\ run'[m].sid = s
      /\ run'[m].round = run[m].round /\ run'[m].order = run[m].order
      /\ run'[m].out = run[m].out /\ run'[m].prev = run[m].prev
      /\ run'[m].fit = run[m].fit /\ run'[m].by = run[m].by
  <2>1. Goto(m, "state") /\ "state" \in Pcs
    BY Names DEF Close
  <2>2. \/ Goto(m, "state") /\ s = run[m].sid
        \/ run' = [run EXCEPT ![m].pc = "state", ![m].sid = s]
    BY <1>2, <2>1
  <2>3. Shape
    BY <1>1
  <2> QED BY <1>4, <2>1, <2>2, <2>3, PcMoves
<1>6. Shape'
  BY <1>1, <1>3, <1>5 DEF Shape, OtherRuns
<1>7. Held(m)'
  BY <1>1, <1>2, <1>3, <1>5, Names DEF Held, IsOn
<1>8. Seated(m)'
  BY <1>1, <1>5 DEF Seated, Blank
<1>9. DoneHasMinutes'
  BY <1>1, <1>2, <1>3 DEF DoneHasMinutes, Held
<1> QED BY <1>1, <1>2, <1>3, <1>5, <1>6, <1>7, <1>8, <1>9, Names, MeetingMoves

LEMMA LoadStateStep == ASSUME RoundInv, NEW m \in Meetings, LoadState(m) PROVE RoundInv'
<1>1. /\ Shape /\ Held(m) /\ Seated(m) /\ run[m].pc = "state" /\ Goto(m, "return")
      /\ UNCHANGED <<task, flag, sessions, recent, result, restarts>>
  BY DEF RoundInv, LoadState
<1>2. "return" \in Pcs /\ run[m].sid \in Nat
  BY <1>1, Names DEF Shape, Run
<1>3. /\ OtherRuns(m) /\ run'[m].pc = "return" /\ run'[m].sid = run[m].sid
      /\ run'[m].round = run[m].round /\ run'[m].order = run[m].order
      /\ run'[m].out = run[m].out /\ run'[m].prev = run[m].prev
      /\ run'[m].fit = run[m].fit /\ run'[m].by = run[m].by
  BY <1>1, <1>2, PcMoves
<1>4. Shape'
  BY <1>1, <1>3 DEF Shape, OtherRuns
<1>5. Held(m)'
  BY <1>1, <1>3, Names DEF Held, IsOn
<1>6. Seated(m)'
  BY <1>1, <1>3 DEF Seated, Blank
<1> QED BY <1>1, <1>3, <1>4, <1>5, <1>6, Names, MeetingGoesOn

LEMMA EndSteps ==
  ASSUME RoundInv, NEW m \in Meetings, Return(m) \/ Abort(m) \/ Raise(m)
  PROVE  RoundInv'
<1>1. Shape /\ Held(m) /\ Seated(m)
  BY DEF RoundInv
<1>2. CASE Return(m)
  <2>1. /\ run[m].pc = "return" /\ run' = [run EXCEPT ![m] = Idle]
        /\ task' = [task EXCEPT ![m] = "succeeded"]
        /\ result' = [result EXCEPT ![m] = run[m].sid]
        /\ UNCHANGED <<flag, sessions, recent, restarts>>
    BY <1>2 DEF Return, EndTask
  <2>2. OtherRuns(m) /\ Blank(m)' /\ run'[m] = Idle
    BY <1>1, <2>1, IdleIsRun, OneRuns DEF Blank
  <2>3. Shape'
    BY <1>1, <2>1, <2>2 DEF Shape, OtherRuns, TaskEnded, Run
  <2>4. Held(m)'
    BY <1>1, <2>1, <2>2, IdleIsRun, Names DEF Held, IsOn, Shape
  <2>5. Seated(m)'
    BY <2>2, IdleIsRun, FS_EmptySet DEF Seated, Blank
  <2> QED BY <1>1, <2>1, <2>2, <2>3, <2>4, <2>5, IdleIsRun, Names, MeetingGoesOn DEF Shape
<1>3. CASE Abort(m)
  <2>1. run[m].pc # "idle"
    BY <1>3 DEF Abort, Guarded, Unguarded
  <2> QED BY <1>3, <2>1, MeetingFails DEF Abort, Mark
<1>4. CASE Raise(m)
  <2>1. run[m].pc # "idle"
    BY <1>4 DEF Raise, Guarded, Unguarded
  <2> QED BY <1>4, <2>1, MeetingFails DEF Raise, Mark
<1> QED BY <1>2, <1>3, <1>4

LEMMA InitRound == Init => RoundInv
<1> SUFFICES ASSUME Init PROVE RoundInv
  OBVIOUS
<1>1. \A m \in Meetings : run[m] = Idle /\ task[m] = "queued" /\ result[m] = 0
  BY DEF Init
<1>2. sessions \in Seq(Session) /\ DOMAIN sessions = {}
  BY EmptySeq, LenProperties DEF Init
<1>3. Shape
  BY <1>2, IdleIsRun DEF Init, Shape
<1>4. ASSUME NEW m \in Meetings PROVE Held(m) /\ Seated(m)
  <2>1. Held(m)
    BY <1>1, IdleIsRun, Names DEF Held
  <2>2. 0 \in 0 .. RoundsOf[TopicOf[m]] + 1 /\ Cardinality({}) = 0
    <3>1. RoundsOf[TopicOf[m]] \in Nat
      OBVIOUS
    <3> QED BY <3>1, FS_EmptySet
  <2>3. Seated(m)
    <3>1. Blank(m) /\ run[m].pc = "idle" /\ run[m].round = 0
      BY <1>1, IdleIsRun DEF Blank
    <3>2. DOMAIN run[m].prev = {} /\ Cardinality(run[m].order) = 0
      BY <2>2, <3>1 DEF Blank
    <3> QED BY <2>2, <3>1, <3>2 DEF Seated, Blank
  <2> QED BY <2>1, <2>3
<1>5. Apart /\ DoneHasMinutes
  BY <1>1, <1>2, IdleIsRun, Names DEF Apart, DoneHasMinutes
<1> QED BY <1>3, <1>4, <1>5 DEF RoundInv

LEMMA StepRound == RoundInv /\ [Next]_vars => RoundInv'
<1> SUFFICES ASSUME RoundInv, [Next]_vars PROVE RoundInv'
  OBVIOUS
<1>1. CASE UNCHANGED vars
  BY <1>1 DEF vars, RoundInv, Shape, Apart, DoneHasMinutes, Held, Seated, Blank, IsOn
<1>2. CASE \E m \in Meetings : Claim(m) \/ Cancel(m) \/ Retry(m) \/ Work(m)
  BY <1>2, TaskSteps, FindStep, OpenStep, AnnounceStep, HoldRoundStep, SummarizeStep, CloseStep,
     LoadStateStep, EndSteps DEF Work
<1> QED BY <1>1, <1>2, CrashStep DEF Next

-------------------------------------------------------------------------------
(* The theorems.                                                            *)

\* The invariant of the round table.
THEOREM RoundInvariant == Spec => []RoundInv
BY InitRound, StepRound, PTL DEF Spec

\* roundtable_engine.py: a meeting's task runs as long as the meeting, its rounds end
\* at their ceiling, and its session and result are rows of the table.
THEOREM RoundTypes == Spec => []TypeOK
<1>1. ASSUME RoundInv PROVE TypeOK
  <2>1. ASSUME NEW m \in Meetings
        PROVE  /\ run[m].pc \in {"idle", "start", "open", "state", "return"} \union Working
               /\ run[m].order \subseteq Agents /\ run[m].out \subseteq Agents
               /\ run[m].fit \in 0 .. Cardinality(run[m].order)
    <3>1. run[m] \in Run /\ Seated(m)
      BY <1>1 DEF RoundInv, Shape
    <3>2. IsFiniteSet(run[m].order)
      BY <3>1, FS_Subset DEF Seated, Team
    <3> QED BY <3>1, <3>2, FS_CardinalityType DEF Run, Pcs, Seated
  <2> QED BY <1>1, <2>1 DEF RoundInv, Shape, Session, Held, Seated, TypeOK
<1> QED BY <1>1, RoundInvariant, PTL

\* reclaim_stale, create_session: a meeting at work has a session that runs and is its
\* own, whatever other meetings clean, find or open.
THEOREM SessionsAreHeld == Spec => []SessionIsHeld
<1>1. RoundInv => SessionIsHeld
  BY Names DEF RoundInv, SessionIsHeld, Held, Apart
<1> QED BY <1>1, RoundInvariant, PTL

\* RoundTableV2.run, _summarize: a session is done only when its minutes are archived.
THEOREM DoneSessionsHaveMinutes == Spec => []DoneHasMinutes
<1>1. RoundInv => DoneHasMinutes
  BY DEF RoundInv
<1> QED BY <1>1, RoundInvariant, PTL

\* find_recent_session, _dedup_result: what a meeting reports is about its own topic.
THEOREM ResultsAreOfTheTopic == Spec => []ResultIsOfTopic
<1>1. RoundInv => ResultIsOfTopic
  BY RowTypes DEF RoundInv, ResultIsOfTopic, Held, IsOn
<1> QED BY <1>1, RoundInvariant, PTL

\* RoundTableV2.run: whoever leaves the table is among the unavailable, through all
\* rounds and in the minutes, and no round follows one that left fewer than two.
THEOREM EveryoneIsAccountedFor == Spec => []NobodyIsLost
<1>1. RoundInv => NobodyIsLost
  BY DEF RoundInv, NobodyIsLost, Seated
<1> QED BY <1>1, RoundInvariant, PTL

\* weighted_consensus: with stated confidences no rounds end in a consensus of fewer
\* than three fifths of those at the table, for any team and any answers.
THEOREM ConsensusIsOfAMajority == Spec => []ConsensusHasMajority
<1>1. RoundInv => ConsensusHasMajority
  BY DEF RoundInv, ConsensusHasMajority, Seated
<1> QED BY <1>1, RoundInvariant, PTL

\* A session that was done and could not be read, whose meeting fails in this step.
Unread(s) ==
  /\ sessions[s].status = "done"
  /\ sessions'[s] = [sessions[s] EXCEPT !.status = "failed"]
  /\ \E m \in Meetings : run[m].pc = "state" /\ run[m].sid = s /\ task'[m] = "failed"

\* A step ends no session but its meeting's own or one that runs for nobody.
LEMMA EndedStays ==
  ASSUME RoundInv, [Next]_vars, NEW s \in DOMAIN sessions, sessions[s].status \in Closed
  PROVE  sessions'[s] = sessions[s] \/ Unread(s)
<1>1. Shape /\ "running" \notin Closed
      /\ \A m \in Meetings : run[m].pc \in Working =>
           run[m].sid \in DOMAIN sessions /\ run[m].sid # s
  BY Names DEF RoundInv, Held, IsOn, Closed
<1>2. ASSUME NEW m \in Meetings, NEW st \in Closed, Guarded(m), Mark(run[m].sid, st)
      PROVE  sessions'[s] = sessions[s]
  <2>1. PICK q \in DOMAIN sessions : q = run[m].sid /\ q # s
    BY <1>1, <1>2, Names DEF Guarded
  <2>2. CASE SetStatus(run[m].sid, st)
    BY <1>1, <1>2, <2>1, <2>2, StatusChanges
  <2> QED BY <1>2, <2>2 DEF Mark
<1>3. {"failed", "cancelled", "done"} \subseteq Closed
  BY DEF Closed
<1>4. ASSUME NEW m \in Meetings, Find(m) PROVE sessions'[s] = sessions[s]
  <2>1. PICK stale \in SUBSET DOMAIN sessions : stale \subseteq Abandoned(recent') /\ Reclaim(stale)
    BY <1>4 DEF Find, Abandoned
  <2>2. s \notin stale
    BY <1>1, <2>1 DEF Abandoned
  <2> QED BY <1>1, <2>1, <2>2, ReclaimChanges
<1>5. ASSUME NEW m \in Meetings, Open(m) PROVE sessions'[s] = sessions[s]
  BY <1>1, <1>5, SessionOpens
<1>6. ASSUME NEW m \in Meetings, HoldRound(m) PROVE sessions'[s] = sessions[s]
  <2>1. Guarded(m) /\ (Mark(run[m].sid, "failed") \/ UNCHANGED sessions)
    BY <1>6 DEF HoldRound, Round, Guarded
  <2> QED BY <1>2, <1>3, <2>1
<1>7. ASSUME NEW m \in Meetings, Summarize(m) PROVE sessions'[s] = sessions[s]
  <2>1. PICK q \in DOMAIN sessions : q = run[m].sid /\ q # s
    BY <1>1, <1>7, Names DEF Summarize
  <2> QED BY <1>1, <1>7, <2>1, MinutesChange DEF Summarize
<1>8. ASSUME NEW m \in Meetings, Close(m) \/ Abort(m) PROVE sessions'[s] = sessions[s]
  BY <1>2, <1>3, <1>8 DEF Close, Abort, Guarded
<1>9. ASSUME NEW m \in Meetings, Raise(m) PROVE sessions'[s] = sessions[s] \/ Unread(s)
  <2>1. CASE run[m].pc = "state" /\ SetStatus(run[m].sid, "failed") /\ run[m].sid = s
    <3>1. sessions[s].status = "done"
      BY <1>1, <2>1 DEF RoundInv, Held, Closed
    <3>2. sessions'[s] = [sessions[s] EXCEPT !.status = "failed"]
      BY <2>1 DEF SetStatus
    <3>3. task'[m] = "failed"
      BY <1>1, <1>9 DEF Raise, EndTask, Shape
    <3> QED BY <2>1, <3>1, <3>2, <3>3 DEF Unread
  <2>2. CASE run[m].pc = "state" /\ SetStatus(run[m].sid, "failed") /\ run[m].sid # s
    <3>1. PICK q \in DOMAIN sessions : q = run[m].sid /\ q # s
      BY <2>2, Names DEF RoundInv, Held, IsOn
    <3> QED BY <1>1, <1>3, <2>2, <3>1, StatusChanges
  <2>3. CASE Guarded(m) /\ Mark(run[m].sid, "failed")
    BY <1>2, <1>3, <2>3
  <2> QED BY <1>9, <2>1, <2>2, <2>3 DEF Raise, Mark
<1>10. ASSUME NEW m \in Meetings,
              \/ Claim(m) \/ Cancel(m) \/ Retry(m)
              \/ Announce(m) \/ LoadState(m) \/ Return(m)
       PROVE  sessions'[s] = sessions[s]
  BY <1>10 DEF Claim, Cancel, Retry, Announce, LoadState, Return
<1> QED BY <1>4, <1>5, <1>6, <1>7, <1>8, <1>9, <1>10 DEF Next, Work, Crash, vars

\* sessions, RoundTableV2.run: minutes that were reported stay as they are, whatever is
\* cancelled, cleaned, retried or restarted; only a meeting that fails before it has
\* read its own session again takes back that it was done.
THEOREM EndedSessionsStay == Spec => EndedStaysEnded
<1>1. RoundInv /\ [Next]_vars =>
        [\A s \in DOMAIN sessions :
           sessions[s].status \in Closed =>
             \/ sessions'[s] = sessions[s]
             \/ /\ sessions[s].status = "done"
                /\ sessions'[s] = [sessions[s] EXCEPT !.status = "failed"]
                /\ \E m \in Meetings : /\ run[m].pc = "state" /\ run[m].sid = s
                                       /\ task'[m] = "failed"]_vars
  BY EndedStays DEF Unread
<1> QED BY <1>1, RoundInvariant, PTL DEF Spec, EndedStaysEnded
===============================================================================
