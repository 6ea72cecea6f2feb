------------------------------- MODULE Guardian -------------------------------
(***************************************************************************)
(* The loop of _guardian.ps1, which starts bot.py, counts its exits and    *)
(* gives up when too many came within an hour, and scripts/restart_bot.ps1 *)
(* which marks a planned restart and stops the bot.                        *)
(*                                                                         *)
(* Time is what the code compares it with: an exit is within the last hour *)
(* or not, a marker is at most five minutes old or not.  Both change at    *)
(* any moment while the bot runs: what the guardian and the script do      *)
(* between an exit and the next start takes seconds, and the script less   *)
(* than the five seconds the guardian sleeps.                              *)
(***************************************************************************)
EXTENDS Naturals, FiniteSets, Sequences

CONSTANTS
  maxRestartsPerHour,
  MaxExits,             \* bound on the exits of the bot
  MaxRequests           \* bound on the planned restarts

ASSUME GuardianAssumption ==
  /\ maxRestartsPerHour \in Nat \ {0}
  /\ MaxExits \in Nat
  /\ MaxRequests \in Nat

VARIABLES
  bot,       \* bot.py runs
  guardian,  \* where the loop is
  planned,   \* $planned
  marker,    \* planned_shutdown.json: "none", "fresh" or "stale", or "ahead" if
             \* it is younger than the exit that the guardian looks at
  exits,     \* history: the cause of every exit, "crash" or "request"
  recent,    \* history: the exits of the last hour
  counted,   \* $restartHistory
  script,    \* restart_bot.ps1: "idle" or "stopping"
  requests   \* times it was run

guardianVars == <<bot, guardian, planned, marker, exits, recent, counted, script, requests>>

Loop == {"launch", "watching", "marked", "counting", "sleeping", "halted"}

-------------------------------------------------------------------------------
(* _guardian.ps1                                                            *)

\* Starting the bot without waiting for its end.
StartDetached ==
  /\ guardian = "launch"
  /\ bot' = TRUE
  /\ UNCHANGED <<guardian, planned, marker, exits, recent, counted, script, requests>>

\* & $pythonExe bot.py, which returns when the bot ends.
Start ==
  /\ guardian = "launch"
  /\ bot' = TRUE
  /\ guardian' = "watching"
  /\ UNCHANGED <<planned, marker, exits, recent, counted, script, requests>>

\* The bot ends; an exit is a crash unless the script has stopped the bot.
Ended(cause) ==
  /\ bot' = FALSE
  /\ exits' = Append(exits, cause)
  /\ recent' = recent \union {Len(exits) + 1}

Crash ==
  /\ bot /\ Len(exits) < MaxExits
  /\ Ended("crash")
  /\ UNCHANGED <<guardian, planned, marker, counted, script, requests>>

\* Test-Path and the age of the marker at the exit, if there is one: a marker
\* from after the exit does not count.
ReadMarker ==
  /\ guardian = "watching" /\ ~ bot
  /\ planned' = (marker = "fresh")
  /\ guardian' = IF marker = "none" THEN "counting" ELSE "marked"
  /\ UNCHANGED <<bot, marker, exits, recent, counted, script, requests>>

RemoveMarker ==
  /\ guardian = "marked"
  /\ marker' = "none"
  /\ guardian' = "counting"
  /\ UNCHANGED <<bot, planned, exits, recent, counted, script, requests>>

\* A guardian that never looks whether the bot was stopped on purpose.
CountAll ==
  /\ guardian = "counting"
  /\ counted' = (counted \union {Len(exits)}) \intersect recent
  /\ guardian' = IF Cardinality(counted') >= maxRestartsPerHour THEN "halted" ELSE "sleeping"
  /\ UNCHANGED <<bot, planned, marker, exits, recent, script, requests>>

\* A guardian that counts an exit after it has decided.
CountLate ==
  /\ guardian = "counting"
  /\ counted' = (IF planned THEN counted ELSE counted \union {Len(exits)}) \intersect recent
  /\ guardian' = IF Cardinality(counted \intersect recent) >= maxRestartsPerHour
                 THEN "halted" ELSE "sleeping"
  /\ UNCHANGED <<bot, planned, marker, exits, recent, script, requests>>

\* The exit joins the history unless it was planned, and what is older than an
\* hour leaves it.
Count ==
  /\ guardian = "counting"
  /\ counted' = (IF planned THEN counted ELSE counted \union {Len(exits)}) \intersect recent
  /\ guardian' = IF Cardinality(counted') >= maxRestartsPerHour THEN "halted" ELSE "sleeping"
  /\ UNCHANGED <<bot, planned, marker, exits, recent, script, requests>>

\* Start-Sleep: a script that was at work meanwhile has come to its end.
Wake ==
  /\ guardian = "sleeping" /\ script = "idle"
  /\ guardian' = "launch"
  /\ UNCHANGED <<bot, planned, marker, exits, recent, counted, script, requests>>

-------------------------------------------------------------------------------
(* restart_bot.ps1                                                          *)

\* The marker of a request between an exit and the guardian's look at it is older
\* or younger than the time the guardian notes for the exit.
Request ==
  /\ script = "idle" /\ requests < MaxRequests
  /\ marker' \in IF guardian = "watching" /\ ~ bot THEN {"fresh", "ahead"} ELSE {"fresh"}
  /\ script' = "stopping"
  /\ requests' = requests + 1
  /\ UNCHANGED <<bot, guardian, planned, exits, recent, counted>>

\* The bot processes that are found are stopped; there may be none.
Stop ==
  /\ script = "stopping" /\ (bot => Len(exits) < MaxExits)
  /\ IF bot THEN Ended("request") ELSE UNCHANGED <<bot, exits, recent>>
  /\ script' = "idle"
  /\ UNCHANGED <<guardian, planned, marker, counted, requests>>

-------------------------------------------------------------------------------
(* Time.                                                                    *)

\* The oldest exit of the last hour becomes older than that.
HourPasses ==
  /\ bot /\ recent # {}
  /\ recent' = {i \in recent : \E j \in recent : j < i}
  /\ UNCHANGED <<bot, guardian, planned, marker, exits, counted, script, requests>>

\* Five minutes after the request.
MarkerAges ==
  /\ bot /\ marker = "fresh" /\ script = "idle"
  /\ marker' = "stale"
  /\ UNCHANGED <<bot, guardian, planned, exits, recent, counted, script, requests>>

Time == HourPasses \/ MarkerAges

-------------------------------------------------------------------------------

GuardianInit ==
  /\ bot = FALSE
  /\ guardian = "launch"
  /\ planned = FALSE
  /\ marker = "none"
  /\ exits = <<>> /\ recent = {} /\ counted = {}
  /\ script = "idle" /\ requests = 0

\* The guardian's steps between an exit and the next start.
GuardianStep == ReadMarker \/ RemoveMarker \/ Count \/ Wake

GuardianNext == Start \/ Crash \/ GuardianStep \/ Request \/ Stop \/ Time

GuardianSpec == GuardianInit /\ [][GuardianNext]_guardianVars

-------------------------------------------------------------------------------
(* Properties.                                                              *)

Crashes(S) == {i \in S : exits[i] = "crash"}

GuardianOK ==
  /\ bot \in BOOLEAN /\ planned \in BOOLEAN
  /\ guardian \in Loop
  /\ bot => guardian = "watching"
  /\ marker \in {"none", "fresh", "stale", "ahead"}
  /\ exits \in Seq({"crash", "request"}) /\ Len(exits) <= MaxExits
  /\ recent \subseteq DOMAIN exits /\ counted \subseteq DOMAIN exits
  /\ script \in {"idle", "stopping"} /\ requests \in 0 .. MaxRequests

\* Requests that have stopped no bot, or not yet.
Spare == requests - Cardinality({i \in DOMAIN exits : exits[i] = "request"})

\* ARCHITECTURE_UPGRADE.md:25, planned restarts are not counted: the guardian
\* gives up only after as many crashes within an hour as its limit says, however
\* the script and the exits interleave.  A planned restart is taken for a crash
\* only if another request, one that finds no bot to stop, replaces its marker.
HaltIsEarned ==
  [][guardian' = "halted" /\ guardian # "halted" =>
       Cardinality(Crashes(recent)) + Spare >= maxRestartsPerHour]_guardianVars

\* A crash loop ends: the guardian does not go on once the limit is reached, but
\* for one crash per planned restart, which takes the marker of the restart.
CrashLoopEnds ==
  [][guardian' = "sleeping" /\ guardian # "sleeping" =>
       Cardinality(Crashes(recent)) < maxRestartsPerHour + requests]_guardianVars
===============================================================================
