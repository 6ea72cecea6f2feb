----------------------------- MODULE TaskLifecycle -----------------------------
(***************************************************************************)
(* What the task queue promises, without threads, statements or polling:   *)
(* the stages of a task, one running task per chat, and write phases that  *)
(* begin at most once per task and only with an owner's approval of the    *)
(* task or of the task it retries.  TaskQueue implements it.               *)
(***************************************************************************)
EXTENDS Naturals

CONSTANTS Tasks, Chats

VARIABLES
  stage,   \* task -> "new", "open", "running", "waiting" or "closed"
  place,   \* task -> the chat it belongs to
  family,  \* task -> the first task of its chain of retries
  agreed,  \* tasks whose owner approved the write phase
  wrote    \* tasks that have begun their write phase

vars == <<stage, place, family, agreed, wrote>>

Stages == {"new", "open", "running", "waiting", "closed"}

Init ==
  /\ stage \in [Tasks -> {"new", "open", "waiting", "closed"}]
  /\ place \in [Tasks -> Chats]
  /\ family = [t \in Tasks |-> t]
  /\ agreed = {}
  /\ wrote = {}

Move(t, from, to) == stage[t] = from /\ stage' = [stage EXCEPT ![t] = to]

\* A new task, or a retry of a closed one.
Open(t) ==
  /\ Move(t, "new", "open")
  /\ \E c \in Chats : place' = [place EXCEPT ![t] = c]
  /\ \/ family' = [family EXCEPT ![t] = t]
     \/ \E u \in Tasks : stage[u] = "closed" /\ family' = [family EXCEPT ![t] = family[u]]
  /\ UNCHANGED <<agreed, wrote>>

\* Tasks of one chat run one at a time.
Begin(t) ==
  /\ \A u \in Tasks : stage[u] = "running" => place[u] # place[t]
  /\ Move(t, "open", "running")
  /\ UNCHANGED <<place, family, agreed, wrote>>

Ask(t) ==
  /\ Move(t, "running", "waiting")
  /\ UNCHANGED <<place, family, agreed, wrote>>

Agree(t) ==
  /\ Move(t, "waiting", "open")
  /\ agreed' = agreed \union {t}
  /\ UNCHANGED <<place, family, wrote>>

Close(t) ==
  /\ stage[t] # "new"
  /\ stage' = [stage EXCEPT ![t] = "closed"]
  /\ UNCHANGED <<place, family, agreed, wrote>>

\* The approvals in E expire together.
Expire(E) ==
  /\ \A t \in E : stage[t] = "waiting"
  /\ stage' = [t \in Tasks |-> IF t \in E THEN "closed" ELSE stage[t]]
  /\ UNCHANGED <<place, family, agreed, wrote>>

Write(t) ==
  /\ stage[t] \in {"running", "closed"}
  /\ t \notin wrote
  /\ \E u \in agreed : family[u] = family[t]
  /\ wrote' = wrote \union {t}
  /\ UNCHANGED <<stage, place, family, agreed>>

\* What a restart may make of a task: nothing keeps running, nothing closed
\* is opened, and a task that began to write is not begun again.
AfterRestart(t) ==
  CASE stage[t] = "running" -> IF t \in wrote THEN {"closed"} ELSE {"open", "closed"}
    [] stage[t] = "open"    -> {"open", "closed"}
    [] stage[t] = "waiting" -> {"waiting", "closed"}
    [] OTHER                -> {stage[t]}

Restart ==
  /\ stage' \in [Tasks -> Stages]
  /\ \A t \in Tasks : stage'[t] \in AfterRestart(t)
  /\ UNCHANGED <<place, family, agreed, wrote>>

Next ==
  \/ \E t \in Tasks : Open(t) \/ Begin(t) \/ Ask(t) \/ Agree(t) \/ Close(t) \/ Write(t)
  \/ \E E \in SUBSET Tasks : Expire(E)
  \/ Restart

Spec == Init /\ [][Next]_vars
===============================================================================
