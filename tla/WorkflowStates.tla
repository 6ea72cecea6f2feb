----------------------------- MODULE WorkflowStates -----------------------------
(***************************************************************************)
(* The states of a workflow instance and the table of the transitions      *)
(* that WorkflowStore.transition allows (workflow_store.py).               *)
(***************************************************************************)

Meeting == {"meeting_discussion", "awaiting_boss_decision", "meeting_continuation",
            "awaiting_collaboration_confirmation"}
Underway == {"planning", "waiting_approval", "executing", "verifying"}
Ended == {"completed", "cancelled", "failed"}
States == Meeting \union Underway \union Ended

Allowed ==
  [s \in States |->
     CASE s = "meeting_discussion" -> {"awaiting_boss_decision", "failed", "cancelled"}
       [] s = "awaiting_boss_decision" ->
            {"meeting_continuation", "awaiting_collaboration_confirmation", "cancelled"}
       [] s = "meeting_continuation" ->
            {"awaiting_boss_decision", "awaiting_collaboration_confirmation",
             "failed", "cancelled"}
       [] s = "awaiting_collaboration_confirmation" ->
            {"meeting_continuation", "planning", "cancelled"}
       [] s = "planning" -> {"waiting_approval", "failed", "cancelled"}
       [] s = "waiting_approval" -> {"executing", "cancelled"}
       [] s = "executing" -> {"verifying", "failed", "cancelled"}
       [] s = "verifying" -> {"completed", "failed"}
       [] OTHER -> {}]

Legal(from, to) == from # "absent" /\ (to = from \/ to \in Allowed[from])
===============================================================================
