-------------------------------- MODULE Service --------------------------------
(***************************************************************************)
(* The service: the message path of Ingress in the bot process that        *)
(* Guardian starts and whose exits it counts.  The process is one for both *)
(* modules: for the guardian it runs unless proc is "down".                *)
(***************************************************************************)
EXTENDS Ingress, Guardian

vars == <<ingressVars, guardianVars>>

-------------------------------------------------------------------------------

Init == IngressInit /\ GuardianInit

\* A message moves while the guardian waits.
MessageStep == Step /\ UNCHANGED guardianVars

\* python bot.py
StartBot == Launch /\ Start

InterruptBot == Interrupt /\ Len(exits) < MaxExits /\ UNCHANGED guardianVars

\* The bot fails, or ends after an interrupt; the guardian sees one exit.
ExitBot == Exit /\ Crash

\* restart_bot.ps1 kills the bot, if there is one.
StopBot == (IF proc = "down" THEN UNCHANGED ingressVars ELSE Kill) /\ Stop

GuardianAlone == UNCHANGED ingressVars /\ (GuardianStep \/ Request \/ Time)

Next == MessageStep \/ StartBot \/ InterruptBot \/ ExitBot \/ StopBot \/ GuardianAlone

\* Threads, calls and scripts that can go on do; Feishu owes no delivery, and no
\* call has to time out or handler to fail.
Fairness ==
  /\ WF_vars((\E c \in Calls : BridgeStep(c)) /\ UNCHANGED guardianVars)
  /\ WF_vars((\E w \in Workers : Claim(w) \/ Enter(w) \/ Done(w)) /\ UNCHANGED guardianVars)
  /\ WF_vars(Serve /\ UNCHANGED guardianVars)
  /\ WF_vars(Drained /\ Crash)
  /\ WF_vars(StartBot)
  /\ WF_vars(StopBot)
  /\ WF_vars(UNCHANGED ingressVars /\ GuardianStep)

Spec == Init /\ [][Next]_vars /\ Fairness

-------------------------------------------------------------------------------
(* Properties.                                                              *)

\* Message path and guardian have values of their types and agree on whether the
\* process runs, each by its own account of what started and ended it.
TypeOK == IngressOK /\ GuardianOK /\ (bot <=> proc # "down")

\* The comment at adapter.py:39: whether the bot is up, going down, starting or
\* given up by the guardian, a message Feishu delivers is answered by somebody;
\* an exit or an exception that takes an accepted message is the only way out.
IsAnswered ==
  \A m \in Messages : Delivered(m) # {} ~> m \in answered \union hermes \union dropped

\* Once the exits end the bot is up, unless the guardian has given up.
ComesBack == <>[](proc = "up" \/ guardian = "halted")
===============================================================================
