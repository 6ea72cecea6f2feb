----------------------------- MODULE GuardianProofs -----------------------------
(***************************************************************************)
(* Guardian keeps its promises for any limit and any number of exits and   *)
(* requests.  Both rest on an account of two kinds of mistakes: a planned  *)
(* restart that is counted costs a request that found no bot, and a crash  *)
(* that is not counted takes the marker of a request.                      *)
(***************************************************************************)
EXTENDS Guardian, FiniteSetTheorems, TLAPS

One(P) == IF P THEN 1 ELSE 0

Requested(S) == {i \in S : exits[i] = "request"}

\* The bot has ended and the guardian has not yet counted the exit.
Uncounted == ~ bot /\ guardian \in {"watching", "marked", "counting"}

\* A planned restart that will be counted.
Mistaken == /\ Uncounted /\ exits[Len(exits)] = "request"
            /\ IF guardian = "watching" THEN marker # "fresh" ELSE ~ planned

\* A script that may still stop a bot.
Stopping == script = "stopping" /\ (bot \/ guardian = "launch")

\* Crashes of the last hour that were taken for planned restarts.
Excused == Crashes(recent) \ (counted \union (IF Uncounted THEN {Len(exits)} ELSE {}))

LastExit == Uncounted => Len(exits) \in recent \ counted

Marked == Stopping => marker = "fresh"

Restarts == Cardinality(Requested(counted)) + One(Mistaken) + One(Stopping) <= Spare

Excuses == Cardinality(Excused) + One(marker # "none" /\ guardian # "marked")
             + One(guardian \in {"marked", "counting"} /\ planned) <= requests

GuardianInv == GuardianOK /\ LastExit /\ Marked /\ Restarts /\ Excuses

-------------------------------------------------------------------------------
(* Finite sets.                                                             *)

\* What is within a finite set and one more element has at most one element more.
LEMMA OneMoreElement ==
  ASSUME NEW S, NEW x, NEW T, IsFiniteSet(S), T \subseteq S \union {x}
  PROVE  IsFiniteSet(T) /\ Cardinality(T) <= Cardinality(S) + 1
<1>1. IsFiniteSet(S \union {x}) /\ Cardinality(S \union {x}) \in Nat
      /\ Cardinality(S) \in Nat /\ Cardinality(S \union {x}) <= Cardinality(S) + 1
  BY FS_AddElement, FS_CardinalityType
<1>2. IsFiniteSet(T) /\ Cardinality(T) \in Nat /\ Cardinality(T) <= Cardinality(S \union {x})
  BY <1>1, FS_Subset, FS_CardinalityType
<1> QED BY <1>1, <1>2

\* A set covered by two finite sets has at most as many elements as both.
LEMMA Covered ==
  ASSUME NEW S, NEW T, NEW U, IsFiniteSet(S), IsFiniteSet(T), U \subseteq S \union T
  PROVE  Cardinality(U) <= Cardinality(S) + Cardinality(T)
<1>1. IsFiniteSet(S \union T) /\ Cardinality(S \union T) \in Nat
  BY FS_Union, FS_CardinalityType
<1>2. Cardinality(S \union T) = Cardinality(S) + Cardinality(T) - Cardinality(S \intersect T)
  BY FS_Union
<1>3. Cardinality(S) \in Nat /\ Cardinality(T) \in Nat /\ Cardinality(S \intersect T) \in Nat
  BY FS_Intersection, FS_CardinalityType
<1>4. IsFiniteSet(U) /\ Cardinality(U) \in Nat /\ Cardinality(U) <= Cardinality(S \union T)
  BY <1>1, FS_Subset, FS_CardinalityType
<1> QED BY <1>1, <1>2, <1>3, <1>4

\* Sets of exits are finite.
LEMMA ExitsAreFinite ==
  ASSUME GuardianOK, NEW S, S \subseteq DOMAIN exits
  PROVE  IsFiniteSet(S) /\ Cardinality(S) \in Nat
<1>1. DOMAIN exits = 1 .. Len(exits) /\ Len(exits) \in Nat
  BY DEF GuardianOK
<1>2. IsFiniteSet(DOMAIN exits)
  BY <1>1, FS_Interval
<1> QED BY <1>2, FS_Subset, FS_CardinalityType

-------------------------------------------------------------------------------
(* Types, and what an exit adds to the history.                             *)

LEMMA AfterAnExit ==
  ASSUME GuardianOK, NEW cause \in {"crash", "request"}, Ended(cause)
  PROVE  /\ Len(exits') = Len(exits) + 1 /\ Len(exits) \in Nat
         /\ DOMAIN exits = 1 .. Len(exits)
         /\ DOMAIN exits' = DOMAIN exits \union {Len(exits) + 1}
         /\ Len(exits) + 1 \notin DOMAIN exits
         /\ exits'[Len(exits) + 1] = cause
         /\ \A i \in DOMAIN exits : exits'[i] = exits[i]
         /\ exits' \in Seq({"crash", "request"})
<1>1. exits \in Seq({"crash", "request"}) /\ exits' = Append(exits, cause)
  BY DEF GuardianOK, Ended
<1>2. exits' \in Seq({"crash", "request"}) /\ Len(exits') = Len(exits) + 1
  BY <1>1
<1>3. /\ DOMAIN exits = 1 .. Len(exits) /\ DOMAIN exits' = 1 .. Len(exits')
      /\ Len(exits) \in Nat
  BY <1>1, <1>2
<1>4. \A i \in 1 .. Len(exits) : exits'[i] = exits[i]
  BY <1>1
<1>5. exits'[Len(exits) + 1] = cause
  BY <1>1
<1> QED BY <1>2, <1>3, <1>4, <1>5

LEMMA GuardianInitTypes == GuardianInit => GuardianOK
<1> SUFFICES ASSUME GuardianInit PROVE GuardianOK
  OBVIOUS
<1>1. exits \in Seq({"crash", "request"}) /\ Len(exits) = 0
  BY DEF GuardianInit
<1>2. recent \subseteq DOMAIN exits /\ counted \subseteq DOMAIN exits
  BY DEF GuardianInit
<1>3. bot \in BOOLEAN /\ planned \in BOOLEAN /\ ~ bot
  BY Zenon DEF GuardianInit
<1>4. requests \in 0 .. MaxRequests /\ Len(exits) <= MaxExits
  BY <1>1, GuardianAssumption DEF GuardianInit
<1> QED BY <1>1, <1>2, <1>3, <1>4, Zenon DEF GuardianInit, GuardianOK, Loop

LEMMA GuardianStepTypes == GuardianOK /\ [GuardianNext]_guardianVars => GuardianOK'
<1> SUFFICES ASSUME GuardianOK, [GuardianNext]_guardianVars PROVE GuardianOK'
  OBVIOUS
<1>1. exits \in Seq({"crash", "request"}) /\ DOMAIN exits = 1 .. Len(exits) /\ Len(exits) \in Nat
  BY DEF GuardianOK
<1>2. CASE UNCHANGED guardianVars
  BY <1>2 DEF GuardianOK, guardianVars
<1>3. CASE Start
  BY <1>3 DEF GuardianOK, Start, Loop
<1>4. ASSUME NEW cause \in {"crash", "request"}, Ended(cause), Len(exits) < MaxExits
      PROVE  /\ exits' \in Seq({"crash", "request"}) /\ Len(exits') <= MaxExits
             /\ bot' = FALSE /\ recent' \subseteq DOMAIN exits' /\ counted \subseteq DOMAIN exits'
  <2>1. /\ DOMAIN exits' = DOMAIN exits \union {Len(exits) + 1}
        /\ Len(exits') = Len(exits) + 1 /\ exits' \in Seq({"crash", "request"})
    BY <1>4, AfterAnExit
  <2> QED BY <1>4, <2>1, <1>1, GuardianAssumption DEF Ended, GuardianOK
<1>5. CASE Crash
  <2>1. Ended("crash") /\ Len(exits) < MaxExits
    BY <1>5 DEF Crash
  <2>2. UNCHANGED <<guardian, planned, marker, counted, script, requests>>
    BY <1>5 DEF Crash
  <2> QED BY <1>4, <2>1, <2>2 DEF GuardianOK
<1>6. CASE GuardianStep
  <2>1. planned' \in BOOLEAN
    BY <1>6, Zenon DEF GuardianOK, GuardianStep, ReadMarker, RemoveMarker, Count, Wake
  <2>2. UNCHANGED <<bot, exits, recent, script, requests>>
    BY <1>6 DEF GuardianStep, ReadMarker, RemoveMarker, Count, Wake
  <2>3. guardian' \in Loop /\ ~ bot' /\ marker' \in {"none", "fresh", "stale", "ahead"}
    BY <1>6, <2>2 DEF GuardianOK, GuardianStep, ReadMarker, RemoveMarker, Count, Wake, Loop
  <2>4. counted' \subseteq DOMAIN exits
    BY <1>6 DEF GuardianOK, GuardianStep, ReadMarker, RemoveMarker, Count, Wake
  <2> QED BY <2>1, <2>2, <2>3, <2>4 DEF GuardianOK
<1>7. CASE Request
  BY <1>7, GuardianAssumption DEF GuardianOK, Request
<1>8. CASE Stop
  <2>1. CASE bot
    <3>1. Ended("request") /\ Len(exits) < MaxExits
      BY <1>8, <2>1 DEF Stop
    <3>2. UNCHANGED <<guardian, planned, marker, counted, requests>> /\ script' = "idle"
      BY <1>8 DEF Stop
    <3> QED BY <1>4, <3>1, <3>2 DEF GuardianOK
  <2>2. CASE ~ bot
    BY <1>8, <2>2 DEF GuardianOK, Stop
  <2> QED BY <2>1, <2>2
<1>9. CASE Time
  BY <1>9 DEF GuardianOK, Time, HourPasses, MarkerAges
<1> QED BY <1>2, <1>3, <1>5, <1>6, <1>7, <1>8, <1>9 DEF GuardianNext

-------------------------------------------------------------------------------
(* Where the last exit is, and the marker of a script at work.              *)

LEMMA StepLastExit == GuardianOK /\ LastExit /\ [GuardianNext]_guardianVars => LastExit'
<1> SUFFICES ASSUME GuardianOK, LastExit, [GuardianNext]_guardianVars PROVE LastExit'
  OBVIOUS
<1>1. CASE UNCHANGED guardianVars
  BY <1>1 DEF LastExit, Uncounted, guardianVars
<1>2. CASE Start
  BY <1>2 DEF LastExit, Uncounted, Start
<1>3. ASSUME NEW cause \in {"crash", "request"}, Ended(cause), counted' = counted
      PROVE  LastExit'
  <2>1. Len(exits') = Len(exits) + 1 /\ Len(exits) + 1 \notin DOMAIN exits
    BY <1>3, AfterAnExit
  <2>2. Len(exits) + 1 \in recent' /\ Len(exits) + 1 \notin counted'
    BY <1>3, <2>1 DEF Ended, GuardianOK
  <2> QED BY <2>1, <2>2 DEF LastExit
<1>4. CASE Crash
  BY <1>3, <1>4 DEF Crash
<1>5. CASE GuardianStep
  BY <1>5 DEF LastExit, Uncounted, GuardianStep, ReadMarker, RemoveMarker, Count, Wake
<1>6. CASE Request
  BY <1>6 DEF LastExit, Uncounted, Request
<1>7. CASE Stop
  <2>1. CASE bot
    BY <1>3, <1>7, <2>1 DEF Stop
  <2>2. CASE ~ bot
    BY <1>7, <2>2 DEF LastExit, Uncounted, Stop
  <2> QED BY <2>1, <2>2
<1>8. CASE Time
  BY <1>8 DEF LastExit, Uncounted, Time, HourPasses, MarkerAges
<1> QED BY <1>1, <1>2, <1>4, <1>5, <1>6, <1>7, <1>8 DEF GuardianNext

LEMMA StepMarked == GuardianOK /\ Marked /\ [GuardianNext]_guardianVars => Marked'
BY DEF GuardianOK, Marked, Stopping, GuardianNext, guardianVars, Start, Crash, Ended,
       GuardianStep, ReadMarker,
       RemoveMarker, Count, Wake, Request, Stop, Time, HourPasses, MarkerAges

-------------------------------------------------------------------------------
(* The account of planned restarts.                                         *)

LEMMA StepRestarts ==
  /\ GuardianOK /\ GuardianOK' /\ LastExit /\ Marked /\ Restarts
  /\ [GuardianNext]_guardianVars
  => Restarts'
<1> SUFFICES ASSUME GuardianOK, GuardianOK', LastExit, Marked, Restarts,
                    [GuardianNext]_guardianVars
             PROVE  Restarts'
  OBVIOUS
<1> DEFINE All == Requested(DOMAIN exits)
<1>1. /\ IsFiniteSet(Requested(counted)) /\ Cardinality(Requested(counted)) \in Nat
      /\ IsFiniteSet(All) /\ Cardinality(All) \in Nat /\ requests \in Nat
  BY ExitsAreFinite DEF Requested, GuardianOK
<1>2. ASSUME UNCHANGED exits PROVE Cardinality(Requested(counted')) \in Nat
  <2>1. Requested(counted') \subseteq DOMAIN exits
    BY <1>2 DEF Requested, GuardianOK
  <2> QED BY <2>1, ExitsAreFinite
<1>3. Spare = requests - Cardinality(All) /\ Spare' = requests' - Cardinality(All')
  BY DEF Spare, Requested
<1>4. ASSUME UNCHANGED <<exits, counted>>
      PROVE  Cardinality(Requested(counted))' = Cardinality(Requested(counted)) /\ All' = All
  BY <1>4 DEF Requested
<1>5. ASSUME UNCHANGED <<exits, counted, requests>>, Mistaken' => Mistaken, Stopping' => Stopping
      PROVE  Restarts'
  BY <1>1, <1>3, <1>4, <1>5 DEF Restarts, One
<1>6. ASSUME NEW cause \in {"crash", "request"}, Ended(cause), UNCHANGED <<counted, guardian>>
      PROVE  /\ Requested(counted)' = Requested(counted)
             /\ All' = IF cause = "crash" THEN All ELSE All \union {Len(exits) + 1}
             /\ Mistaken' => cause = "request" /\ (guardian = "watching" => marker' # "fresh")
  <2>1. /\ DOMAIN exits' = DOMAIN exits \union {Len(exits) + 1} /\ Len(exits') = Len(exits) + 1
        /\ \A i \in DOMAIN exits : exits'[i] = exits[i]
        /\ exits'[Len(exits) + 1] = cause /\ Len(exits) + 1 \notin DOMAIN exits
    BY <1>6, AfterAnExit
  <2>2. counted \subseteq DOMAIN exits
    BY DEF GuardianOK
  <2> QED BY <1>6, <2>1, <2>2 DEF Requested, Mistaken
<1>7. CASE UNCHANGED guardianVars
  BY <1>5, <1>7 DEF guardianVars, Mistaken, Uncounted, Stopping
<1>8. CASE Start
  BY <1>5, <1>8 DEF Start, Mistaken, Uncounted, Stopping
<1>9. CASE Crash
  <2>1. /\ Ended("crash") /\ UNCHANGED <<counted, guardian, requests, script>>
        /\ bot /\ guardian = "watching" /\ ~ bot'
    BY <1>9 DEF Crash, Ended, GuardianOK
  <2>2. ~ Mistaken' /\ ~ Stopping'
    BY <1>6, <2>1 DEF Stopping
  <2>3. Requested(counted)' = Requested(counted) /\ All' = All
    BY <1>6, <2>1
  <2> QED BY <1>1, <1>3, <2>1, <2>2, <2>3 DEF Restarts, One
<1>10. CASE ReadMarker \/ RemoveMarker \/ Wake
  BY <1>5, <1>10 DEF ReadMarker, RemoveMarker, Wake, Mistaken, Uncounted, Stopping, GuardianOK
<1>11. CASE Count
  <2>1. UNCHANGED <<exits, requests>> /\ All' = All /\ ~ Mistaken' /\ ~ Stopping'
    BY <1>11 DEF Count, Requested, Mistaken, Uncounted, Stopping, GuardianOK
  <2>2. CASE planned \/ exits[Len(exits)] # "request"
    <3>1. Requested(counted') \subseteq Requested(counted)
      BY <1>11, <2>2 DEF Count, Requested
    <3>2. Cardinality(Requested(counted')) <= Cardinality(Requested(counted))
      BY <1>1, <3>1, FS_Subset
    <3>3. Requested(counted)' = Requested(counted')
      BY <2>1 DEF Requested
    <3> QED BY <1>1, <1>2, <1>3, <2>1, <3>2, <3>3 DEF Restarts, One
  <2>3. CASE ~ planned /\ exits[Len(exits)] = "request"
    <3>1. Mistaken
      BY <1>11, <2>3 DEF Count, Mistaken, Uncounted, GuardianOK
    <3>2. Requested(counted') \subseteq Requested(counted) \union {Len(exits)}
      BY <1>11 DEF Count, Requested
    <3>3. Cardinality(Requested(counted')) <= Cardinality(Requested(counted)) + 1
      BY <1>1, <3>2, OneMoreElement
    <3>4. Requested(counted)' = Requested(counted')
      BY <2>1 DEF Requested
    <3> QED BY <1>1, <1>2, <1>3, <2>1, <3>1, <3>3, <3>4 DEF Restarts, One
  <2> QED BY <2>2, <2>3
<1>12. CASE Request
  <2>1. UNCHANGED <<exits, counted, bot, guardian, planned>> /\ requests' = requests + 1
    BY <1>12 DEF Request
  <2>2. (Mistaken' => Mistaken) \/ ~ Stopping'
    BY <1>12, <2>1 DEF Request, Mistaken, Uncounted, Stopping
  <2>3. ~ Stopping
    BY <1>12 DEF Request, Stopping
  <2> QED BY <1>1, <1>3, <1>4, <2>1, <2>2, <2>3 DEF Restarts, One
<1>13. CASE Stop /\ bot
  <2>1. /\ Ended("request") /\ UNCHANGED <<counted, guardian, requests, marker>>
        /\ guardian = "watching" /\ script' = "idle"
    BY <1>13 DEF Stop, GuardianOK
  <2>2. Stopping /\ marker = "fresh"
    BY <1>13 DEF Stop, Stopping, Marked
  <2>3. ~ Mistaken' /\ ~ Stopping'
    BY <1>6, <2>1, <2>2 DEF Stopping
  <2>4. Requested(counted)' = Requested(counted) /\ All' = All \union {Len(exits) + 1}
    BY <1>6, <2>1
  <2>5. Cardinality(All') <= Cardinality(All) + 1 /\ Cardinality(All') \in Nat
    BY <1>1, <2>4, OneMoreElement, FS_CardinalityType
  <2> QED BY <1>1, <1>3, <2>1, <2>2, <2>3, <2>4, <2>5 DEF Restarts, One
<1>14. CASE Stop /\ ~ bot
  BY <1>5, <1>14 DEF Stop, Mistaken, Uncounted, Stopping
<1>15. CASE Time
  BY <1>5, <1>15 DEF Time, HourPasses, MarkerAges, Mistaken, Uncounted, Stopping
<1> QED BY <1>7, <1>8, <1>9, <1>10, <1>11, <1>12, <1>13, <1>14, <1>15 DEF GuardianNext, GuardianStep

-------------------------------------------------------------------------------
(* The account of crashes.                                                  *)

LEMMA StepExcuses ==
  GuardianOK /\ GuardianOK' /\ LastExit /\ Excuses /\ [GuardianNext]_guardianVars => Excuses'
<1> SUFFICES ASSUME GuardianOK, GuardianOK', LastExit, Excuses, [GuardianNext]_guardianVars PROVE Excuses'
  OBVIOUS
<1> DEFINE Waiting == marker # "none" /\ guardian # "marked"
           Taken   == guardian \in {"marked", "counting"} /\ planned
<1>1. IsFiniteSet(Excused) /\ Cardinality(Excused) \in Nat /\ requests \in Nat
  BY ExitsAreFinite DEF Excused, Crashes, GuardianOK
<1>2. Excuses <=> Cardinality(Excused) + One(Waiting) + One(Taken) <= requests
  BY DEF Excuses
<1>3. Excuses' <=> Cardinality(Excused') + One(Waiting') + One(Taken') <= requests'
  BY DEF Excuses, One
<1>4. ASSUME Excused' \subseteq Excused PROVE
        Cardinality(Excused') \in Nat /\ Cardinality(Excused') <= Cardinality(Excused)
  BY <1>1, <1>4, FS_Subset, FS_CardinalityType
<1>5. ASSUME Excused' \subseteq Excused, Waiting' => Waiting, Taken' => Taken,
             requests' = requests
      PROVE  Excuses'
  BY <1>1, <1>2, <1>3, <1>4, <1>5 DEF One
<1>6. ASSUME NEW cause \in {"crash", "request"}, Ended(cause), bot,
             UNCHANGED <<counted, guardian, marker, planned, requests>>
      PROVE  Excuses'
  <2>1. /\ DOMAIN exits' = DOMAIN exits \union {Len(exits) + 1} /\ Len(exits') = Len(exits) + 1
        /\ \A i \in DOMAIN exits : exits'[i] = exits[i]
    BY <1>6, AfterAnExit
  <2>2. Excused' \subseteq Excused
    BY <1>6, <2>1 DEF Excused, Crashes, Uncounted, Ended, GuardianOK
  <2> QED BY <1>5, <1>6, <2>2
<1>7. CASE UNCHANGED guardianVars
  BY <1>5, <1>7 DEF guardianVars, Excused, Crashes, Uncounted
<1>8. CASE Start
  BY <1>5, <1>8 DEF Start, Excused, Crashes, Uncounted, GuardianOK
<1>9. CASE Crash
  BY <1>6, <1>9 DEF Crash
<1>10. CASE ReadMarker
  <2>1. Excused' = Excused /\ requests' = requests /\ ~ Taken /\ ~ Waiting'
    BY <1>10 DEF ReadMarker, Excused, Crashes, Uncounted
  <2>2. Taken' => Waiting
    BY <1>10 DEF ReadMarker
  <2> QED BY <1>1, <1>2, <1>3, <2>1, <2>2 DEF One
<1>11. CASE RemoveMarker
  BY <1>5, <1>11 DEF RemoveMarker, Excused, Crashes, Uncounted, GuardianOK
<1>12. CASE Count
  <2>1. /\ UNCHANGED <<exits, recent, marker, requests>> /\ ~ Taken'
        /\ Waiting' => Waiting
        /\ Uncounted /\ ~ Uncounted'
    BY <1>12 DEF Count, Uncounted, GuardianOK
  <2>2. CASE planned
    <3>1. Excused' \subseteq Excused \union {Len(exits)}
      BY <1>12, <2>1, <2>2 DEF Count, Excused, Crashes
    <3>2. Cardinality(Excused') <= Cardinality(Excused) + 1 /\ Cardinality(Excused') \in Nat
      BY <1>1, <3>1, OneMoreElement, FS_CardinalityType
    <3>3. Taken
      BY <1>12, <2>2 DEF Count
    <3> QED BY <1>1, <1>2, <1>3, <2>1, <3>2, <3>3 DEF One
  <2>3. CASE ~ planned
    <3>1. Excused' \subseteq Excused
      BY <1>12, <2>1, <2>3 DEF Count, Excused, Crashes
    <3> QED BY <1>5, <2>1, <3>1
  <2> QED BY <2>2, <2>3
<1>13. CASE Wake
  BY <1>5, <1>13 DEF Wake, Excused, Crashes, Uncounted
<1>14. CASE Request
  <2>1. Excused' = Excused /\ requests' = requests + 1 /\ (Taken' <=> Taken)
    BY <1>14 DEF Request, Excused, Crashes, Uncounted
  <2> QED BY <1>1, <1>2, <1>3, <2>1 DEF One
<1>15. CASE Stop /\ bot
  BY <1>6, <1>15 DEF Stop
<1>16. CASE Stop /\ ~ bot
  BY <1>5, <1>16 DEF Stop, Excused, Crashes, Uncounted
<1>17. CASE Time
  BY <1>5, <1>17 DEF Time, HourPasses, MarkerAges, Excused, Crashes, Uncounted
<1> QED BY <1>7, <1>8, <1>9, <1>10, <1>11, <1>12, <1>13, <1>14, <1>15, <1>16, <1>17
        DEF GuardianNext, GuardianStep

-------------------------------------------------------------------------------

LEMMA GuardianInitInv == GuardianInit => GuardianInv
<1> SUFFICES ASSUME GuardianInit PROVE GuardianInv
  OBVIOUS
<1>1. GuardianOK
  BY GuardianInitTypes
<1>2. LastExit /\ Marked /\ ~ Mistaken /\ ~ Stopping
  BY DEF GuardianInit, LastExit, Marked, Mistaken, Uncounted, Stopping
<1>3. Requested(counted) = {} /\ Excused = {} /\ {i \in DOMAIN exits : exits[i] = "request"} = {}
  BY DEF GuardianInit, Requested, Excused, Crashes
<1>4. Restarts /\ Excuses
  <2>1. Spare = 0 /\ Cardinality(Requested(counted)) = 0 /\ Cardinality(Excused) = 0
    BY <1>3, FS_EmptySet DEF GuardianInit, Spare
  <2>2. requests = 0 /\ marker = "none" /\ guardian = "launch"
    BY DEF GuardianInit
  <2>3. Restarts
    BY <1>2, <2>1 DEF Restarts, One
  <2>4. Excuses
    BY <2>1, <2>2 DEF Excuses, One
  <2> QED BY <2>3, <2>4
<1> QED BY <1>1, <1>2, <1>4 DEF GuardianInv

LEMMA GuardianStepInv == GuardianInv /\ [GuardianNext]_guardianVars => GuardianInv'
BY GuardianStepTypes, StepLastExit, StepMarked, StepRestarts, StepExcuses DEF GuardianInv

\* The account holds in every state the guardian reaches.
THEOREM GuardianInvariant == GuardianSpec => []GuardianInv
BY GuardianInitInv, GuardianStepInv, PTL DEF GuardianSpec

\* The guardian gives up only after as many crashes within an hour as its limit,
\* planned restarts not counted (_guardian.ps1:88), but for those whose marker a
\* request that found no bot has replaced.
THEOREM HaltsAreEarned == GuardianSpec => HaltIsEarned
<1>1. ASSUME GuardianInv, [GuardianNext]_guardianVars, guardian' = "halted", guardian # "halted"
      PROVE  Cardinality(Crashes(recent)) + Spare >= maxRestartsPerHour
  <2>1. GuardianOK /\ Restarts' /\ GuardianOK'
    BY <1>1, GuardianStepInv DEF GuardianInv
  <2>2. Count
    BY <1>1 DEF GuardianNext, guardianVars, GuardianStep, Start, Crash, ReadMarker, RemoveMarker, Wake,
                Request, Stop, Time, HourPasses, MarkerAges
  <2>3. /\ UNCHANGED <<exits, requests, recent>> /\ counted' \subseteq recent
        /\ Cardinality(counted') >= maxRestartsPerHour
    BY <1>1, <2>2 DEF Count
  <2>4. Spare' = Spare /\ Requested(counted)' = Requested(counted')
    BY <2>3 DEF Spare, Requested
  <2>5. recent \subseteq DOMAIN exits /\ exits \in Seq({"crash", "request"})
    BY <2>1 DEF GuardianOK
  <2>6. /\ IsFiniteSet(Crashes(recent)) /\ IsFiniteSet(Requested(counted'))
        /\ Cardinality(Crashes(recent)) \in Nat /\ Cardinality(Requested(counted')) \in Nat
        /\ Cardinality(counted') \in Nat
    BY <2>1, <2>3, <2>5, ExitsAreFinite DEF Crashes, Requested
  <2>7. counted' \subseteq Crashes(recent) \union Requested(counted')
    BY <2>3, <2>5 DEF Crashes, Requested
  <2>8. Cardinality(counted') <= Cardinality(Crashes(recent)) + Cardinality(Requested(counted'))
    BY <2>6, <2>7, Covered
  <2>9. Cardinality(Requested(counted')) <= Spare /\ Spare \in Int
    <3>1. Cardinality({i \in DOMAIN exits : exits[i] = "request"}) \in Nat /\ requests \in Nat
      BY <2>1, ExitsAreFinite DEF GuardianOK
    <3> QED BY <2>1, <2>4, <2>6, <3>1 DEF Restarts, One, Spare
  <2> QED BY <2>3, <2>6, <2>8, <2>9, GuardianAssumption
<1>2. GuardianInv /\ [GuardianNext]_guardianVars =>
        [guardian' = "halted" /\ guardian # "halted" =>
           Cardinality(Crashes(recent)) + Spare >= maxRestartsPerHour]_guardianVars
  BY <1>1
<1> QED BY <1>2, GuardianInvariant, PTL DEF GuardianSpec, HaltIsEarned

\* The guardian goes on only while the crashes of the last hour are fewer than its
\* limit (_guardian.ps1:92) and one more for each planned restart.
THEOREM CrashLoopsEnd == GuardianSpec => CrashLoopEnds
<1>1. ASSUME GuardianInv, [GuardianNext]_guardianVars, guardian' = "sleeping", guardian # "sleeping"
      PROVE  Cardinality(Crashes(recent)) < maxRestartsPerHour + requests
  <2>1. GuardianOK /\ GuardianOK' /\ Excuses'
    BY <1>1, GuardianStepInv DEF GuardianInv
  <2>2. Count
    BY <1>1 DEF GuardianNext, guardianVars, GuardianStep, Start, Crash, ReadMarker, RemoveMarker, Wake,
                Request, Stop, Time, HourPasses, MarkerAges
  <2>3. /\ UNCHANGED <<exits, requests, recent>> /\ counted' \subseteq recent
        /\ ~ (Cardinality(counted') >= maxRestartsPerHour)
    BY <1>1, <2>2 DEF Count
  <2>4. Excused' = Crashes(recent) \ counted'
    BY <1>1, <2>3 DEF Excused, Crashes, Uncounted
  <2>5. recent \subseteq DOMAIN exits /\ requests \in Nat
    BY <2>1 DEF GuardianOK
  <2>6. /\ IsFiniteSet(counted') /\ IsFiniteSet(Excused') /\ Cardinality(counted') \in Nat
        /\ Cardinality(Excused') \in Nat /\ Cardinality(Crashes(recent)) \in Nat
    BY <2>1, <2>3, <2>4, <2>5, ExitsAreFinite DEF Crashes
  <2>7. Cardinality(Crashes(recent)) <= Cardinality(counted') + Cardinality(Excused')
    BY <2>4, <2>6, Covered
  <2>8. Cardinality(Excused') <= requests
    BY <2>1, <2>3, <2>5, <2>6 DEF Excuses, One
  <2> QED BY <2>3, <2>5, <2>6, <2>7, <2>8, GuardianAssumption
<1>2. GuardianInv /\ [GuardianNext]_guardianVars =>
        [guardian' = "sleeping" /\ guardian # "sleeping" =>
           Cardinality(Crashes(recent)) < maxRestartsPerHour + requests]_guardianVars
  BY <1>1
<1> QED BY <1>2, GuardianInvariant, PTL DEF GuardianSpec, CrashLoopEnds
===============================================================================
