-------------------------------- MODULE Ingress --------------------------------
(***************************************************************************)
(* The way of a Feishu message into the orchestrator when Hermes owns the  *)
(* connection: the adapter of the Hermes plugin delegates it with an HTTP  *)
(* call (hermes_plugin/orchestration_feishu/adapter.py), the bridge hands  *)
(* it to MESSAGE_POOL and answers 202 (ingress_bridge.py), a pool thread   *)
(* claims its identifier (conversation_store.claim_event) and handles it   *)
(* under the lock of its chat (bot.dispatch_message).  A call that fails   *)
(* is answered by Hermes itself.                                           *)
(*                                                                         *)
(* The module is the message path of one bot process; Service adds the     *)
(* guardian that starts it.                                                *)
(***************************************************************************)
EXTENDS Naturals, FiniteSets, Sequences

CONSTANTS
  Messages,       \* message_ids
  Chats,
  ChatOf,         \* message -> its chat
  Workers,        \* threads of MESSAGE_POOL
  Deliveries,     \* message -> bound on the times Feishu delivers it
  NoMessage

ASSUME IngressAssumption ==
  /\ ChatOf \in [Messages -> Chats]
  /\ Deliveries \in [Messages -> Nat]
  /\ NoMessage \notin Messages

VARIABLES
  proc,       \* bot.py: "down", "starting" (main before the bridge), "up", "closing"
  call,       \* the adapter's call for each delivery
  request,    \* the bridge's thread for each call
  pool,       \* the queue of MESSAGE_POOL
  thread,     \* worker -> the run of dispatch_message
  processed,  \* processed_events, in the database
  begun,      \* history: message -> times handle_message was entered
  answered,   \* history: messages the bot has handled to the end
  hermes,     \* history: messages Hermes answered itself
  broken,     \* history: messages with a call that failed after the bridge had it
  dropped     \* history: messages taken by an exit or an exception

ingressVars == <<proc, call, request, pool, thread, processed, begun, answered, hermes,
          broken, dropped>>

outside == <<call, hermes, broken>>
inside  == <<pool, thread, processed, begun, answered, dropped>>

\* The deliveries of a message, in their order.
Calls == UNION {{m} \X (1 .. Deliveries[m]) : m \in Messages}

Idle == [pc |-> "idle", msg |-> NoMessage]

Free(w)   == thread[w].pc = "idle"
At(w, p)  == proc \in {"up", "closing"} /\ thread[w].pc = p
Run(w, p) == thread' = [thread EXCEPT ![w] = [@ EXCEPT !.pc = p]]

\* Threads are alike: which of the free ones takes a message makes no difference.
Takes(w) == w = CHOOSE v \in Workers : Free(v)

\* A lock that the thread that waits for it holds already.
LockedTwice(c) == \E w \in Workers : thread[w].pc # "idle" /\ ChatOf[thread[w].msg] = c

\* _chat_lock: a thread that handles a message holds the lock of its chat.
Locked(c) == \E w \in Workers : thread[w].pc = "handle" /\ ChatOf[thread[w].msg] = c

\* Accepted and not yet done with.
Pending(m) == (\E i \in DOMAIN pool : pool[i] = m) \/ \E w \in Workers : thread[w].msg = m

Delivered(m) == {i \in 1 .. Deliveries[m] : call[<<m, i>>] # "none"}

-------------------------------------------------------------------------------
(* Hermes: _handle_message_event_data and _delegate.                        *)

\* Fail open: Hermes answers the message itself.
FallBack(c) ==
  /\ call' = [call EXCEPT ![c] = "done"]
  /\ hermes' = hermes \union {c[1]}

\* Feishu delivers a message, or delivers it again.  The bridge has the call, or it
\* fails at once: no token, no listener, 401, or 400 for a field that is missing.
Deliver(c) ==
  /\ call[c] = "none" /\ \A i \in 1 .. c[2] - 1 : call[<<c[1], i>>] # "none"
  /\ \/ /\ proc = "up"
        /\ call' = [call EXCEPT ![c] = "waiting"]
        /\ request' = [request EXCEPT ![c] = "received"]
        /\ UNCHANGED hermes
     \/ FallBack(c) /\ UNCHANGED request
  /\ dropped' = IF c[1] \in processed THEN dropped ELSE dropped \ {c[1]}
  /\ UNCHANGED <<proc, pool, thread, processed, begun, answered, broken>>

\* No answer within ten seconds; the bridge's thread goes on.
TimeOut(c) ==
  /\ call[c] = "waiting"
  /\ FallBack(c)
  /\ broken' = broken \union {c[1]}
  /\ UNCHANGED <<proc, request, inside>>

-------------------------------------------------------------------------------
(* The bridge: do_POST.                                                     *)

\* The bridge's thread for c ends without a 202.
Fail(c) ==
  /\ request' = [request EXCEPT ![c] = "none"]
  /\ IF call[c] = "waiting" THEN FallBack(c) ELSE UNCHANGED <<call, hermes>>

\* Once the interpreter is shutting down submit raises, and the connection is
\* closed without an answer.
Refuse(c) ==
  /\ request[c] = "received" /\ proc = "closing"
  /\ Fail(c)
  /\ UNCHANGED <<proc, inside, broken>>

\* callback: MESSAGE_POOL.submit(dispatch_message, client, data).
Enqueue(c) ==
  /\ request[c] = "received"
  /\ request' = [request EXCEPT ![c] = "submitted"]
  /\ pool' = Append(pool, c[1])
  /\ UNCHANGED <<proc, outside, thread, processed, begun, answered, dropped>>

\* A bridge that reports an accepted message as an error.
AcceptRefused(c) ==
  /\ request[c] = "submitted"
  /\ Fail(c)
  /\ UNCHANGED <<proc, inside, broken>>

\* 202, which a call that has timed out does not see.
Accept(c) ==
  /\ request[c] = "submitted"
  /\ request' = [request EXCEPT ![c] = "none"]
  /\ call' = [call EXCEPT ![c] = "done"]
  /\ UNCHANGED <<proc, inside, hermes, broken>>

BridgeStep(c) == Refuse(c) \/ Enqueue(c) \/ Accept(c)

-------------------------------------------------------------------------------
(* MESSAGE_POOL: dispatch_message.                                          *)

\* claim_event that looks for the identifier and leaves recording it for later.
ClaimLate(w) ==
  /\ At(w, "idle") /\ Takes(w) /\ pool # <<>>
  /\ pool' = Tail(pool)
  /\ processed' = processed \union {Head(pool)}
  /\ thread' = IF Head(pool) \in answered THEN thread
               ELSE [thread EXCEPT ![w] = [pc |-> "lock", msg |-> Head(pool)]]
  /\ UNCHANGED <<proc, outside, request, begun, answered, dropped>>

\* A thread takes the next message and runs claim_event, one INSERT; a duplicate
\* ends the call.  (The identifiers it prunes are a week old, which no delivery
\* is.)
Claim(w) ==
  /\ At(w, "idle") /\ Takes(w) /\ pool # <<>>
  /\ pool' = Tail(pool)
  /\ processed' = processed \union {Head(pool)}
  /\ thread' = IF Head(pool) \in processed THEN thread
               ELSE [thread EXCEPT ![w] = [pc |-> "lock", msg |-> Head(pool)]]
  /\ UNCHANGED <<proc, outside, request, begun, answered, dropped>>

\* The store fails before the message is claimed.
ClaimRaises(w) ==
  /\ At(w, "idle") /\ Takes(w) /\ pool # <<>>
  /\ pool' = Tail(pool)
  /\ dropped' = dropped \union {Head(pool)}
  /\ UNCHANGED <<proc, outside, request, thread, processed, begun, answered>>

\* with _chat_lock(chat_id): any of the threads that wait for it may get it.
Enter(w) ==
  /\ At(w, "lock") /\ ~ Locked(ChatOf[thread[w].msg])
  /\ Run(w, "handle")
  /\ begun' = [begun EXCEPT ![thread[w].msg] = @ + 1]
  /\ UNCHANGED <<proc, outside, request, pool, processed, answered, dropped>>

\* handle_message returns.
Done(w) ==
  /\ At(w, "handle")
  /\ answered' = answered \union {thread[w].msg}
  /\ thread' = [thread EXCEPT ![w] = Idle]
  /\ UNCHANGED <<proc, outside, request, pool, processed, begun, dropped>>

\* An exception of the handler: like that of the store it stays in the future that
\* submit returned, which nobody reads.
Raise(w) ==
  /\ At(w, "handle")
  /\ dropped' = dropped \union {thread[w].msg}
  /\ thread' = [thread EXCEPT ![w] = Idle]
  /\ UNCHANGED <<proc, outside, request, pool, processed, begun, answered>>

WorkerStep(w) == Claim(w) \/ Enter(w) \/ Done(w) \/ ClaimRaises(w) \/ Raise(w)

-------------------------------------------------------------------------------
(* The process: main.  Guardian counts its exits.                           *)

Launch ==
  /\ proc = "down"
  /\ proc' = "starting"
  /\ UNCHANGED <<request, outside, inside>>

\* Merge recovery, schemas and TASK_CONTROLLER.start are behind.
Serve ==
  /\ proc = "starting"
  /\ proc' = "up"
  /\ UNCHANGED <<request, outside, inside>>

\* KeyboardInterrupt: bridge.close() stops listening, and the interpreter waits
\* for the pool.
Interrupt ==
  /\ proc = "up"
  /\ proc' = "closing"
  /\ UNCHANGED <<request, outside, inside>>

\* The connections of a process that ends are reset.
Disconnect ==
  LET cut == {c \in Calls : request[c] # "none" /\ call[c] = "waiting"} IN
  /\ call' = [c \in Calls |-> IF c \in cut THEN "done" ELSE call[c]]
  /\ hermes' = hermes \union {c[1] : c \in cut}
  /\ broken' = broken \union {c[1] : c \in cut}
  /\ request' = [c \in Calls |-> "none"]

Drained ==
  /\ proc = "closing" /\ pool = <<>> /\ \A w \in Workers : Free(w)
  /\ proc' = "down"
  /\ Disconnect
  /\ UNCHANGED inside

\* The process is killed, or main fails: what was accepted is in memory only.
Kill ==
  /\ proc # "down"
  /\ proc' = "down"
  /\ Disconnect
  /\ dropped' = dropped \union {m \in Messages : Pending(m)}
  /\ pool' = <<>>
  /\ thread' = [w \in Workers |-> Idle]
  /\ UNCHANGED <<processed, begun, answered>>

-------------------------------------------------------------------------------

IngressInit ==
  /\ proc = "down"
  /\ call = [c \in Calls |-> "none"]
  /\ request = [c \in Calls |-> "none"]
  /\ pool = <<>>
  /\ thread = [w \in Workers |-> Idle]
  /\ processed = {}
  /\ begun = [m \in Messages |-> 0]
  /\ answered = {} /\ hermes = {} /\ broken = {} /\ dropped = {}

\* The steps that neither start nor end the process.
Step ==
  \/ \E c \in Calls : Deliver(c) \/ TimeOut(c) \/ BridgeStep(c)
  \/ \E w \in Workers : WorkerStep(w)
  \/ Serve

Exit == Kill \/ Drained

IngressNext == Step \/ Interrupt \/ Exit \/ Launch

IngressSpec == IngressInit /\ [][IngressNext]_ingressVars

-------------------------------------------------------------------------------
(* Properties.                                                              *)

IngressOK ==
  /\ proc \in {"down", "starting", "up", "closing"}
  /\ call \in [Calls -> {"none", "waiting", "done"}]
  /\ request \in [Calls -> {"none", "received", "submitted"}]
  /\ pool \in Seq(Messages)
  /\ thread \in [Workers -> [pc : {"idle", "lock", "handle"},
                             msg : Messages \union {NoMessage}]]
  /\ \A w \in Workers : Free(w) <=> thread[w].msg = NoMessage
  /\ begun \in [Messages -> Nat]
  /\ \A S \in {processed, answered, hermes, broken, dropped} : S \subseteq Messages

\* handle_message sees a message once at most, however often Feishu delivers it,
\* calls time out and the process exits and starts again: a command is not
\* carried out twice.
HandledOnce == \A m \in Messages : begun[m] <= 1

\* The bot and Hermes both answer a message only if it was delivered again or
\* the adapter lost a call that the bridge had received.
AnsweredTwice ==
  \A m \in answered \intersect hermes :
    m \in broken \/ Cardinality(Delivered(m)) > 1
===============================================================================
