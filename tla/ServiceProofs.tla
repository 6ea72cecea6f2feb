----------------------------- MODULE ServiceProofs -----------------------------
(***************************************************************************)
(* The message path keeps its promises for any messages, chats, pool size  *)
(* and numbers of deliveries: no message is handled twice, and the bot and *)
(* Hermes do not both answer a message unless Feishu or a lost answer      *)
(* makes them. The service does what its two parts, the message path and   *)
(* the guardian, specify, each seen alone, and so keeps what is proved of  *)
(* both.                                                                   *)
(***************************************************************************)
EXTENDS Service, GuardianProofs, FiniteSetTheorems, TLAPS

\* The bot has m from one of its calls, or had it.
Taken(m) == Pending(m) \/ m \in answered

\* A thread has a message only if its claim is recorded, one thread at most has
\* it, and one that waits for the lock has not entered the handler.
Claimed ==
  /\ \A m \in Messages : m \notin processed => begun[m] = 0
  /\ \A w \in Workers : ~ Free(w) => thread[w].msg \in processed
  /\ \A w, v \in Workers : ~ Free(w) /\ thread[w].msg = thread[v].msg => w = v
  /\ \A w \in Workers : thread[w].pc = "lock" => begun[thread[w].msg] = 0

\* At most one delivery of m has come.
Alone(m) == \A i, j \in Delivered(m) : i = j

\* A message that came once, with a call that was not lost: the bridge's thread
\* still waits for the bridge or the call has ended, and either Hermes or the bot
\* has the message.
Single(m) ==
  /\ Delivered(m) = {} => ~ Taken(m) /\ m \notin hermes
  /\ \A i \in Delivered(m) :
       /\ request[<<m, i>>] # "none" => call[<<m, i>>] = "waiting"
       /\ request[<<m, i>>] = "received" => ~ Taken(m)
       /\ m \in hermes => call[<<m, i>>] = "done" /\ ~ Taken(m)

Calm == \A m \in Messages : Alone(m) /\ m \notin broken => Single(m)

\* The bridge has no thread for a delivery that has not come.
Received == \A c \in Calls : call[c] = "none" => request[c] = "none"

IngressInv == IngressOK /\ Claimed /\ HandledOnce /\ Received /\ Calm

-------------------------------------------------------------------------------
(* Types.                                                                   *)

LEMMA ACallIsOfAMessage ==
  ASSUME NEW c \in Calls
  PROVE  /\ c[1] \in Messages /\ c[2] \in 1 .. Deliveries[c[1]]
         /\ c = <<c[1], c[2]>>
BY DEF Calls

LEMMA IsACall ==
  ASSUME NEW m \in Messages, NEW i \in 1 .. Deliveries[m]
  PROVE  <<m, i>> \in Calls
BY DEF Calls

LEMMA IngressInitTypes == IngressInit => IngressOK
BY IngressAssumption DEF IngressInit, IngressOK, Idle, Free

LEMMA IngressStepTypes == IngressOK /\ [IngressNext]_ingressVars => IngressOK'
<1> SUFFICES ASSUME IngressOK, [IngressNext]_ingressVars PROVE IngressOK'
  OBVIOUS
<1> USE DEF IngressOK, Free
<1>1. CASE UNCHANGED ingressVars
  BY <1>1 DEF ingressVars
<1>2. ASSUME NEW c \in Calls, Deliver(c) PROVE IngressOK'
  <2>1. c[1] \in Messages
    BY ACallIsOfAMessage
  <2>2. dropped' \subseteq Messages
    BY <1>2, <2>1 DEF Deliver
  <2>3. /\ call' \in [Calls -> {"none", "waiting", "done"}]
        /\ request' \in [Calls -> {"none", "received", "submitted"}]
        /\ hermes' \subseteq Messages
    BY <1>2, <2>1 DEF Deliver, FallBack
  <2> QED BY <1>2, <2>2, <2>3 DEF Deliver
<1>3. ASSUME NEW c \in Calls, TimeOut(c) PROVE IngressOK'
  BY <1>3, ACallIsOfAMessage DEF TimeOut, FallBack, inside
<1>4. ASSUME NEW c \in Calls, Refuse(c) PROVE IngressOK'
  BY <1>4, ACallIsOfAMessage DEF Refuse, Fail, FallBack, inside
<1>5. ASSUME NEW c \in Calls, Enqueue(c) PROVE IngressOK'
  BY <1>5, ACallIsOfAMessage DEF Enqueue, outside
<1>6. ASSUME NEW c \in Calls, Accept(c) PROVE IngressOK'
  BY <1>6 DEF Accept, inside
<1>7. ASSUME NEW w \in Workers, pool # <<>>
      PROVE  Head(pool) \in Messages /\ Tail(pool) \in Seq(Messages) /\ Head(pool) # NoMessage
  BY <1>7, IngressAssumption
<1>8. ASSUME NEW w \in Workers, Claim(w) PROVE IngressOK'
  BY <1>7, <1>8 DEF Claim, outside
<1>9. ASSUME NEW w \in Workers, ClaimRaises(w) PROVE IngressOK'
  BY <1>7, <1>9 DEF ClaimRaises, outside
<1>10. ASSUME NEW w \in Workers, At(w, "lock") \/ At(w, "handle") PROVE thread[w].msg \in Messages
  BY <1>10 DEF At
<1>11. ASSUME NEW w \in Workers, Enter(w) PROVE IngressOK'
  <2>1. thread' = [thread EXCEPT ![w] = [thread[w] EXCEPT !.pc = "handle"]]
    BY <1>11 DEF Enter, Run
  <2>2. thread[w].pc = "lock" /\ [thread[w] EXCEPT !.pc = "handle"].pc = "handle"
        /\ [thread[w] EXCEPT !.pc = "handle"].msg = thread[w].msg
        /\ [thread[w] EXCEPT !.pc = "handle"] \in [pc : {"idle", "lock", "handle"},
                                                  msg : Messages \union {NoMessage}]
    BY <1>11 DEF Enter, At
  <2>3. begun' \in [Messages -> Nat]
    BY <1>10, <1>11 DEF Enter
  <2> QED BY <1>11, <2>1, <2>2, <2>3 DEF Enter, outside
<1>12. ASSUME NEW w \in Workers, Done(w) \/ Raise(w) PROVE IngressOK'
  <2>1. thread[w].msg \in Messages
    BY <1>10, <1>12 DEF Done, Raise
  <2>2. thread' = [thread EXCEPT ![w] = [pc |-> "idle", msg |-> NoMessage]]
    BY <1>12 DEF Done, Raise, Idle
  <2>3. answered' \subseteq Messages /\ dropped' \subseteq Messages
    BY <1>12, <2>1 DEF Done, Raise
  <2> QED BY <1>12, <2>2, <2>3 DEF Done, Raise, outside
<1>13. CASE Serve \/ Interrupt \/ Launch
  BY <1>13 DEF Serve, Interrupt, Launch, outside, inside
<1>14. ASSUME Disconnect
       PROVE  /\ call' \in [Calls -> {"none", "waiting", "done"}]
              /\ request' \in [Calls -> {"none", "received", "submitted"}]
              /\ hermes' \subseteq Messages /\ broken' \subseteq Messages
  BY <1>14, ACallIsOfAMessage DEF Disconnect
<1>15. CASE Kill
  BY <1>14, <1>15 DEF Kill, Idle
<1>16. CASE Drained
  BY <1>14, <1>16 DEF Drained, inside
<1> QED BY <1>1, <1>2, <1>3, <1>4, <1>5, <1>6, <1>8, <1>9, <1>11, <1>12, <1>13, <1>15, <1>16
        DEF IngressNext, Step, BridgeStep, WorkerStep, Exit

-------------------------------------------------------------------------------
(* A message is handled once.                                               *)

LEMMA StepClaimed ==
  IngressOK /\ Claimed /\ HandledOnce /\ [IngressNext]_ingressVars => Claimed' /\ HandledOnce'
<1> SUFFICES ASSUME IngressOK, Claimed, HandledOnce, [IngressNext]_ingressVars
             PROVE  Claimed' /\ HandledOnce'
  OBVIOUS
<1> USE DEF IngressOK, Claimed, HandledOnce, Free
<1>1. CASE UNCHANGED <<thread, processed, begun>>
  BY <1>1
<1>2. ASSUME NEW w \in Workers, Claim(w) PROVE Claimed' /\ HandledOnce'
  <2>1. Head(pool) \in Messages /\ thread[w].pc = "idle" /\ begun' = begun
        /\ processed' = processed \union {Head(pool)}
    BY <1>2 DEF Claim, At, outside
  <2>2. CASE Head(pool) \in processed
    BY <1>2, <2>1, <2>2 DEF Claim
  <2>3. CASE Head(pool) \notin processed
    <3>1. thread' = [thread EXCEPT ![w] = [pc |-> "lock", msg |-> Head(pool)]]
      BY <1>2, <2>3 DEF Claim
    <3>2. begun[Head(pool)] = 0 /\ \A v \in Workers : ~ Free(v) => thread[v].msg # Head(pool)
      BY <2>1, <2>3
    <3>3. /\ \A v \in Workers : v # w => thread'[v] = thread[v]
          /\ thread'[w].pc = "lock" /\ thread'[w].msg = Head(pool)
      BY <3>1
    <3>4. Head(pool) # NoMessage /\ \A v \in Workers : Free(v) => thread[v].msg # Head(pool)
      BY <2>1, IngressAssumption
    <3>5. \A v, u \in Workers : v # w /\ u # w /\ ~ Free(v)' /\ thread'[v].msg = thread'[u].msg
            => v = u
      BY <3>3
    <3>6. \A v \in Workers : ~ Free(v)' /\ thread'[v].msg = Head(pool) => v = w
      BY <3>2, <3>3
    <3>7. \A v \in Workers : thread'[v].msg = Head(pool) => v = w
      BY <3>2, <3>3, <3>4
    <3>8. \A v, u \in Workers : ~ Free(v)' /\ thread'[v].msg = thread'[u].msg => v = u
      BY <3>3, <3>5, <3>7
    <3>9. \A v \in Workers : thread'[v].pc = "lock" => begun[thread'[v].msg] = 0
      BY <3>2, <3>3
    <3>10. \A v \in Workers : ~ Free(v)' => thread'[v].msg \in processed'
      BY <2>1, <3>3
    <3> QED BY <2>1, <3>8, <3>9, <3>10
  <2> QED BY <2>2, <2>3
<1>3. ASSUME NEW w \in Workers, Enter(w) PROVE Claimed' /\ HandledOnce'
  <2>7. thread[w].pc = "lock" /\ thread[w].msg \in Messages /\ begun[thread[w].msg] = 0
    BY <1>3 DEF Enter, At
  <2>1. /\ thread[w].pc = "lock" /\ thread[w].msg \in Messages
        /\ begun' = [begun EXCEPT ![thread[w].msg] = 1] /\ processed' = processed
        /\ thread' = [thread EXCEPT ![w] = [thread[w] EXCEPT !.pc = "handle"]]
    BY <1>3, <2>7 DEF Enter, Run
  <2>2. \A v \in Workers : v # w => thread'[v] = thread[v]
    BY <2>1
  <2>3. thread'[w].pc = "handle" /\ thread'[w].msg = thread[w].msg
    BY <2>1
  <2>4. \A v \in Workers : thread'[v].msg = thread[v].msg /\ (~ Free(v)' <=> ~ Free(v))
    BY <2>1, <2>2, <2>3
  <2>5. \A v \in Workers : thread'[v].pc = "lock" => v # w /\ begun'[thread'[v].msg] = 0
    <3> SUFFICES ASSUME NEW v \in Workers, thread'[v].pc = "lock"
                 PROVE  v # w /\ begun'[thread'[v].msg] = 0
      OBVIOUS
    <3>1. v # w /\ thread[v].pc = "lock" /\ thread'[v] = thread[v]
      BY <2>2, <2>3
    <3>2. thread[v].msg # thread[w].msg /\ thread[v].msg \in Messages
      BY <2>1, <3>1
    <3> QED BY <2>1, <3>1, <3>2
  <2>6. \A m \in Messages : begun'[m] <= 1 /\ (m \notin processed => begun'[m] = 0)
    BY <2>1
  <2> QED BY <2>1, <2>4, <2>5, <2>6
<1>4. ASSUME NEW w \in Workers, Done(w) \/ Raise(w) PROVE Claimed' /\ HandledOnce'
  <2>1. /\ thread' = [thread EXCEPT ![w] = [pc |-> "idle", msg |-> NoMessage]]
        /\ processed' = processed /\ begun' = begun
    BY <1>4 DEF Done, Raise, Idle
  <2>2. /\ \A v \in Workers : v # w => thread'[v] = thread[v]
        /\ thread'[w].pc = "idle"
    BY <2>1
  <2> QED BY <2>1, <2>2
<1>5. CASE Kill
  BY <1>5 DEF Kill, Idle
<1> QED BY <1>1, <1>2, <1>3, <1>4, <1>5
        DEF IngressNext, Step, BridgeStep, WorkerStep, Exit, ingressVars, Deliver, TimeOut, Refuse,
            Enqueue, Accept, ClaimRaises, Serve, Interrupt, Launch, Drained, outside, inside

-------------------------------------------------------------------------------
(* A message is answered by one side.                                       *)

LEMMA StepReceived == IngressOK /\ Received /\ [IngressNext]_ingressVars => Received'
<1> SUFFICES ASSUME IngressOK, Received, [IngressNext]_ingressVars PROVE Received'
  OBVIOUS
<1> USE DEF IngressOK, Received
<1>1. CASE UNCHANGED <<call, request>>
  BY <1>1
<1>2. ASSUME NEW c \in Calls, Deliver(c) PROVE Received'
  BY <1>2 DEF Deliver, FallBack
<1>3. ASSUME NEW c \in Calls, TimeOut(c) \/ BridgeStep(c) PROVE Received'
  BY <1>3 DEF TimeOut, FallBack, BridgeStep, Refuse, Fail, Enqueue, Accept, inside, outside
<1>4. CASE Disconnect
  BY <1>4 DEF Disconnect
<1> QED BY <1>1, <1>2, <1>3, <1>4
        DEF IngressNext, Step, WorkerStep, Exit, ingressVars, Claim, ClaimRaises, Enter, Done,
            Raise, Serve, Interrupt, Launch, Kill, Drained, outside, inside

\* Delivered and broken only grow: a message that came once, with a call that was
\* not lost, did before.
LEMMA StaysCalm ==
  ASSUME IngressOK, [IngressNext]_ingressVars, NEW m \in Messages, Alone(m)', m \notin broken'
  PROVE  Alone(m) /\ m \notin broken /\ Delivered(m) \subseteq Delivered(m)'
<1> USE DEF IngressOK
<1>1. \A c \in Calls : call[c] # "none" => call'[c] # "none"
  <2>1. ASSUME NEW c \in Calls, Deliver(c) \/ TimeOut(c) \/ BridgeStep(c)
        PROVE  \A d \in Calls : call[d] # "none" => call'[d] # "none"
    BY <2>1 DEF Deliver, TimeOut, FallBack, BridgeStep, Refuse, Fail, Enqueue, Accept, outside
  <2>2. CASE Disconnect
    BY <2>2 DEF Disconnect
  <2>3. CASE UNCHANGED call
    BY <2>3
  <2> QED BY <2>1, <2>2, <2>3
          DEF IngressNext, Step, WorkerStep, Exit, ingressVars, Claim, ClaimRaises, Enter, Done,
              Raise, Serve, Interrupt, Launch, Kill, Drained, outside, inside
<1>2. broken \subseteq broken'
  BY DEF IngressNext, Step, WorkerStep, BridgeStep, Exit, ingressVars, Deliver, TimeOut, Refuse,
         Fail, Enqueue, Accept, Claim, ClaimRaises, Enter, Done, Raise, Serve, Interrupt, Launch,
         Kill, Drained, Disconnect, outside, inside
<1>3. Delivered(m) \subseteq Delivered(m)'
  BY <1>1, IsACall DEF Delivered
<1> QED BY <1>2, <1>3 DEF Alone

LEMMA StepCalm == IngressInv /\ [IngressNext]_ingressVars => Calm'
<1> SUFFICES ASSUME IngressInv, [IngressNext]_ingressVars,
                    NEW m \in Messages, Alone(m)', m \notin broken'
             PROVE  Single(m)'
  BY DEF Calm
<1>1. IngressOK /\ Received /\ Single(m) /\ m \notin broken /\ Delivered(m) \subseteq Delivered(m)'
  BY StaysCalm DEF IngressInv, Calm
\* Nothing happens to m.
<1>2. ASSUME Delivered(m)' = Delivered(m), m \in hermes' => m \in hermes, Taken(m)' => Taken(m),
             \A i \in Delivered(m) : /\ call'[<<m, i>>] = call[<<m, i>>]
                                     /\ request'[<<m, i>>] = request[<<m, i>>]
      PROVE  Single(m)'
  BY <1>1, <1>2 DEF Single
<1>3. ASSUME NEW c \in Calls, c[1] # m, NEW a, NEW r,
             call' = [call EXCEPT ![c] = a], request' = [request EXCEPT ![c] = r],
             m \in hermes' => m \in hermes, Taken(m)' => Taken(m)
      PROVE  Single(m)'
  <2>1. \A i \in 1 .. Deliveries[m] : <<m, i>> \in Calls /\ <<m, i>> # c
    BY <1>3, IsACall
  <2>2. \A i \in 1 .. Deliveries[m] : /\ call'[<<m, i>>] = call[<<m, i>>]
                                      /\ request'[<<m, i>>] = request[<<m, i>>]
    BY <1>1, <1>3, <2>1 DEF IngressOK
  <2> QED BY <1>2, <1>3, <2>2 DEF Delivered
<1>4. ASSUME UNCHANGED <<pool, thread, answered>> PROVE Taken(m)' = Taken(m)
  BY <1>4 DEF Taken, Pending
<1>5. ASSUME UNCHANGED <<call, request, hermes>>, Taken(m)' => Taken(m) PROVE Single(m)'
  BY <1>2, <1>5 DEF Delivered
\* What happens to the only delivery of m.
<1>6. ASSUME NEW c \in Calls, c[1] = m, NEW a, a # "none", NEW r,
             call' = [call EXCEPT ![c] = a], request' = [request EXCEPT ![c] = r]
      PROVE  /\ c[2] \in Delivered(m)' /\ Delivered(m)' = {c[2]} /\ c = <<m, c[2]>>
             /\ call'[c] = a /\ request'[c] = r
  <2>1. c = <<m, c[2]>> /\ c[2] \in 1 .. Deliveries[m]
    BY <1>6, ACallIsOfAMessage
  <2>2. call'[c] = a /\ request'[c] = r
    BY <1>1, <1>6 DEF IngressOK
  <2>3. c[2] \in Delivered(m)'
    BY <1>6, <2>1, <2>2 DEF Delivered
  <2> QED BY <2>1, <2>2, <2>3 DEF Alone
<1>7. ASSUME NEW c \in Calls, Deliver(c) PROVE Single(m)'
  <2>1. UNCHANGED <<pool, thread, answered>> /\ call[c] = "none" /\ request[c] = "none"
    BY <1>1, <1>7 DEF Deliver, Received
  <2>2. PICK a \in {"waiting", "done"}, r \in {"none", "received"} :
          /\ call' = [call EXCEPT ![c] = a] /\ request' = [request EXCEPT ![c] = r]
          /\ a = "waiting" => hermes' = hermes
          /\ a = "done" => r = "none" /\ hermes' = hermes \union {c[1]}
    <3>1. request = [request EXCEPT ![c] = "none"]
      BY <1>1, <2>1 DEF IngressOK
    <3> QED BY <1>7, <3>1 DEF Deliver, FallBack
  <2>3. CASE c[1] # m
    BY <1>3, <1>4, <2>1, <2>2, <2>3
  <2>4. CASE c[1] = m
    <3>1. /\ Delivered(m)' = {c[2]} /\ c = <<m, c[2]>> /\ call'[c] = a /\ request'[c] = r
      BY <1>6, <2>2, <2>4
    <3>2. Delivered(m) = {}
      BY <1>1, <2>1, <3>1 DEF Delivered
    <3>3. ~ Taken(m) /\ m \notin hermes /\ ~ Taken(m)'
      BY <1>1, <1>4, <2>1, <3>2 DEF Single
    <3> QED BY <2>2, <3>1, <3>3 DEF Single
  <2> QED BY <2>3, <2>4
<1>8. ASSUME NEW c \in Calls, TimeOut(c) PROVE Single(m)'
  <2>1. c[1] # m
    BY <1>8 DEF TimeOut
  <2>2. /\ call' = [call EXCEPT ![c] = "done"] /\ request' = [request EXCEPT ![c] = request[c]]
        /\ UNCHANGED <<pool, thread, answered>> /\ hermes' = hermes \union {c[1]}
    BY <1>1, <1>8 DEF TimeOut, FallBack, inside, IngressOK
  <2> QED BY <1>3, <1>4, <2>1, <2>2
\* The only delivery of m, while the bridge has a thread for it.
<1>9. ASSUME NEW c \in Calls, c[1] = m, request[c] # "none"
      PROVE  call[c] = "waiting" /\ m \notin hermes /\ (request[c] = "received" => ~ Taken(m))
  <2>1. c = <<m, c[2]>> /\ c[2] \in Delivered(m)
    BY <1>1, <1>9, ACallIsOfAMessage DEF Received, Delivered
  <2> QED BY <1>1, <1>9, <2>1 DEF Single
<1>10. ASSUME NEW c \in Calls, Refuse(c) PROVE Single(m)'
  <2>1. UNCHANGED <<pool, thread, answered>> /\ request[c] = "received"
        /\ request' = [request EXCEPT ![c] = "none"]
    BY <1>10 DEF Refuse, Fail, inside
  <2>2. CASE c[1] # m
    <3>1. PICK a : call' = [call EXCEPT ![c] = a] /\ hermes' \subseteq hermes \union {c[1]}
      <4>1. call = [call EXCEPT ![c] = call[c]]
        BY <1>1 DEF IngressOK
      <4> QED BY <1>10, <4>1 DEF Refuse, Fail, FallBack
    <3> QED BY <1>3, <1>4, <2>1, <2>2, <3>1
  <2>3. CASE c[1] = m
    <3>1. call' = [call EXCEPT ![c] = "done"]
      BY <1>9, <1>10, <2>1, <2>3 DEF Refuse, Fail, FallBack
    <3>2. Delivered(m)' = {c[2]} /\ c = <<m, c[2]>> /\ call'[c] = "done" /\ request'[c] = "none"
      BY <1>6, <2>1, <2>3, <3>1
    <3>3. ~ Taken(m)'
      BY <1>4, <1>9, <2>1, <2>3
    <3> QED BY <3>2, <3>3 DEF Single
  <2> QED BY <2>2, <2>3
<1>11. ASSUME NEW c \in Calls, Enqueue(c) PROVE Single(m)'
  <2>1. /\ request[c] = "received" /\ request' = [request EXCEPT ![c] = "submitted"]
        /\ pool' = Append(pool, c[1]) /\ UNCHANGED <<call, hermes, thread, answered>>
    BY <1>11 DEF Enqueue, outside
  <2>2. call' = [call EXCEPT ![c] = call[c]]
    BY <1>1, <2>1 DEF IngressOK
  <2>3. CASE c[1] # m
    <3>1. Taken(m)' => Taken(m)
      <4>1. \A i \in DOMAIN pool' : pool'[i] = m => i \in DOMAIN pool /\ pool[i] = m
        BY <1>1, <2>1, <2>3, ACallIsOfAMessage DEF IngressOK
      <4> QED BY <2>1, <4>1 DEF Taken, Pending
    <3> QED BY <1>3, <2>1, <2>2, <2>3, <3>1
  <2>4. CASE c[1] = m
    <3>1. call[c] = "waiting" /\ m \notin hermes
      BY <1>9, <2>1, <2>4
    <3>2. /\ Delivered(m)' = {c[2]} /\ c = <<m, c[2]>>
          /\ call'[c] = "waiting" /\ request'[c] = "submitted"
      BY <1>6, <2>1, <2>2, <2>4, <3>1
    <3> QED BY <2>1, <3>1, <3>2 DEF Single
  <2> QED BY <2>3, <2>4
<1>12. ASSUME NEW c \in Calls, Accept(c) PROVE Single(m)'
  <2>1. /\ request[c] = "submitted" /\ request' = [request EXCEPT ![c] = "none"]
        /\ call' = [call EXCEPT ![c] = "done"] /\ UNCHANGED <<hermes, pool, thread, answered>>
    BY <1>12 DEF Accept, inside
  <2>2. CASE c[1] # m
    BY <1>3, <1>4, <2>1, <2>2
  <2>3. CASE c[1] = m
    <3>1. Delivered(m)' = {c[2]} /\ c = <<m, c[2]>> /\ call'[c] = "done" /\ request'[c] = "none"
      BY <1>6, <2>1, <2>3
    <3> QED BY <1>9, <2>1, <2>3, <3>1 DEF Single
  <2> QED BY <2>2, <2>3
<1>13. ASSUME NEW w \in Workers, WorkerStep(w) PROVE Single(m)'
  <2>1. UNCHANGED <<call, request, hermes>>
    BY <1>13 DEF WorkerStep, Claim, ClaimRaises, Enter, Done, Raise, outside
  <2>2. CASE Claim(w) \/ ClaimRaises(w)
    <3>1. /\ pool # <<>> /\ pool' = Tail(pool) /\ answered' = answered
          /\ thread' = thread
             \/ thread' = [thread EXCEPT ![w] = [pc |-> "lock", msg |-> Head(pool)]]
      BY <2>2 DEF Claim, ClaimRaises
    <3>2. \A i \in DOMAIN pool' : i + 1 \in DOMAIN pool /\ pool'[i] = pool[i + 1]
      BY <1>1, <3>1 DEF IngressOK
    <3>3. 1 \in DOMAIN pool /\ Head(pool) = pool[1]
      BY <1>1, <3>1 DEF IngressOK
    <3>4. \A v \in Workers : thread'[v].msg = thread[v].msg \/ thread'[v].msg = Head(pool)
      BY <1>1, <3>1 DEF IngressOK
    <3>5. Taken(m)' => Taken(m)
      BY <3>1, <3>2, <3>3, <3>4 DEF Taken, Pending
    <3> QED BY <1>5, <2>1, <3>5
  <2>3. CASE Enter(w)
    <3>1. pool' = pool /\ answered' = answered /\ thread' = [thread EXCEPT ![w].pc = "handle"]
      BY <2>3 DEF Enter, Run
    <3>2. \A v \in Workers : thread'[v].msg = thread[v].msg
      BY <1>1, <3>1 DEF IngressOK
    <3> QED BY <1>5, <2>1, <3>1, <3>2 DEF Taken, Pending
  <2>4. CASE Done(w) \/ Raise(w)
    <3>1. /\ pool' = pool /\ answered' \subseteq answered \union {thread[w].msg}
          /\ thread' = [thread EXCEPT ![w] = Idle]
      BY <2>4 DEF Done, Raise
    <3>2. \A v \in Workers : thread'[v].msg = thread[v].msg \/ thread'[v].msg = NoMessage
      BY <1>1, <3>1 DEF IngressOK, Idle
    <3> QED BY <1>5, <2>1, <3>1, <3>2, IngressAssumption DEF Taken, Pending
  <2> QED BY <1>13, <2>2, <2>3, <2>4 DEF WorkerStep
<1>14. CASE UNCHANGED ingressVars \/ Serve \/ Interrupt \/ Launch
  BY <1>4, <1>5, <1>14 DEF ingressVars, Serve, Interrupt, Launch, outside, inside
<1>15. CASE Exit
  <2> DEFINE cut == {c \in Calls : request[c] # "none" /\ call[c] = "waiting"}
             taken == {c[1] : c \in cut}
  <2>1. Disconnect /\ (Taken(m)' => Taken(m))
    <3>1. CASE Drained
      BY <1>4, <3>1 DEF Drained, inside
    <3>2. CASE Kill
      BY <3>2, IngressAssumption DEF Kill, Idle, Taken, Pending
    <3> QED BY <1>15, <3>1, <3>2 DEF Exit
  <2>2. /\ call' = [c \in Calls |-> IF c \in cut THEN "done" ELSE call[c]]
        /\ request' = [c \in Calls |-> "none"]
        /\ hermes' = hermes \union taken /\ broken' = broken \union taken
    BY <2>1 DEF Disconnect
  <2>3. \A c \in cut : c[1] \in taken
    OBVIOUS
  <2> HIDE DEF cut, taken
  <2>4. m \notin taken /\ (m \in hermes' => m \in hermes)
    BY <2>2
  <2>5. \A i \in 1 .. Deliveries[m] : <<m, i>> \in Calls /\ <<m, i>> \notin cut
    <3>1. \A i \in 1 .. Deliveries[m] : <<m, i>> \in Calls /\ <<m, i>>[1] = m
      BY IsACall
    <3> QED BY <2>3, <2>4, <3>1
  <2>6. \A i \in 1 .. Deliveries[m] : /\ request'[<<m, i>>] = "none"
                                      /\ call'[<<m, i>>] = call[<<m, i>>]
    BY <2>2, <2>5
  <2>7. Delivered(m)' = Delivered(m) /\ Delivered(m) \subseteq 1 .. Deliveries[m]
    BY <2>6 DEF Delivered
  <2>8. Delivered(m)' = {} => ~ Taken(m)' /\ m \notin hermes'
    BY <1>1, <2>1, <2>4, <2>7 DEF Single
  <2>9. ASSUME NEW i \in Delivered(m)'
        PROVE  request'[<<m, i>>] = "none"
               /\ (m \in hermes' => call'[<<m, i>>] = "done" /\ ~ Taken(m)')
    BY <1>1, <2>1, <2>4, <2>6, <2>7 DEF Single
  <2> QED BY <2>8, <2>9 DEF Single
<1> QED BY <1>7, <1>8, <1>10, <1>11, <1>12, <1>13, <1>14, <1>15
        DEF IngressNext, Step, BridgeStep

-------------------------------------------------------------------------------
(* The theorems.                                                            *)

LEMMA IngressInitInv == IngressInit => IngressInv
<1> SUFFICES ASSUME IngressInit PROVE IngressInv
  OBVIOUS
<1>1. IngressOK
  BY IngressInitTypes
<1>2. Claimed /\ HandledOnce /\ Received
  BY DEF IngressInit, Claimed, HandledOnce, Received, Free, Idle
<1>3. ASSUME NEW m \in Messages PROVE Single(m)
  <2>1. Delivered(m) = {}
    BY IsACall DEF IngressInit, Delivered
  <2>2. ~ Taken(m) /\ m \notin hermes
    BY IngressAssumption DEF IngressInit, Taken, Pending, Idle
  <2> QED BY <2>1, <2>2 DEF Single
<1> QED BY <1>1, <1>2, <1>3 DEF IngressInv, Calm

LEMMA IngressStepInv == IngressInv /\ [IngressNext]_ingressVars => IngressInv'
BY IngressStepTypes, StepClaimed, StepReceived, StepCalm DEF IngressInv

\* The invariant that HandledOnce and AnsweredTwice rest on: the claims of the
\* threads (conversation_store.claim_event), and which side has a message.
THEOREM IngressInvariant == IngressSpec => []IngressInv
BY IngressInitInv, IngressStepInv, PTL DEF IngressSpec

\* handle_message sees each message once at most (bot.dispatch_message), for any
\* number of threads, messages and deliveries, across exits and restarts.
THEOREM MessagesAreHandledOnce == IngressSpec => []HandledOnce
BY IngressInvariant, PTL DEF IngressInv

LEMMA TwoElements ==
  ASSUME NEW S, IsFiniteSet(S), NEW x \in S, NEW y \in S, x # y
  PROVE  Cardinality(S) > 1
<1>1. IsFiniteSet({x}) /\ Cardinality({x}) = 1
  BY FS_Singleton
<1>2. IsFiniteSet({x} \union {y}) /\ Cardinality({x} \union {y}) = 2
  <2>1. y \notin {x}
    OBVIOUS
  <2> QED BY <1>1, <2>1, FS_AddElement
<1>3. Cardinality({x} \union {y}) <= Cardinality(S) /\ Cardinality(S) \in Nat
  BY FS_Subset, FS_CardinalityType
<1> QED BY <1>2, <1>3

\* The bot and Hermes both answer a message (adapter.py:38, fail open) only if
\* Feishu delivered it again or its call was lost after the bridge had it.
THEOREM OneSideAnswers == IngressSpec => []AnsweredTwice
<1>1. ASSUME IngressInv, NEW m \in answered \intersect hermes, m \notin broken
      PROVE  Cardinality(Delivered(m)) > 1
  <2>1. m \in Messages /\ Deliveries[m] \in Nat /\ Taken(m)
    BY <1>1, IngressAssumption DEF IngressInv, IngressOK, Taken
  <2>2. IsFiniteSet(Delivered(m))
    <3>1. IsFiniteSet(1 .. Deliveries[m]) /\ Delivered(m) \subseteq 1 .. Deliveries[m]
      BY <2>1, FS_Interval DEF Delivered
    <3> QED BY <3>1, FS_Subset
  <2>3. ~ Alone(m)
    <3>1. ~ Single(m)
      BY <1>1, <2>1 DEF Single
    <3> QED BY <1>1, <2>1, <3>1 DEF IngressInv, Calm
  <2> QED BY <2>2, <2>3, TwoElements DEF Alone
<1>2. IngressInv => AnsweredTwice
  BY <1>1 DEF IngressInv, IngressOK, AnsweredTwice
<1> QED BY <1>2, IngressInvariant, PTL

--------------------------------------------------------------------------------

\* Every step of the service is one of the message path, or leaves it alone, and
\* one of the guardian, or leaves that alone.
LEMMA StepsOfTheParts ==
  [Next]_vars => [IngressNext]_ingressVars /\ [GuardianNext]_guardianVars
<1> SUFFICES ASSUME [Next]_vars
             PROVE  [IngressNext]_ingressVars /\ [GuardianNext]_guardianVars
  OBVIOUS
<1>1. CASE UNCHANGED vars
  BY <1>1 DEF vars
<1>2. CASE MessageStep \/ InterruptBot
  BY <1>2 DEF MessageStep, InterruptBot, IngressNext
<1>3. CASE StartBot
  BY <1>3 DEF StartBot, IngressNext, GuardianNext
<1>4. CASE ExitBot
  BY <1>4 DEF ExitBot, IngressNext, GuardianNext
<1>5. CASE StopBot
  BY <1>5 DEF StopBot, IngressNext, GuardianNext, Exit
<1>6. CASE GuardianAlone
  BY <1>6 DEF GuardianAlone, GuardianNext
<1> QED BY <1>1, <1>2, <1>3, <1>4, <1>5, <1>6 DEF Next

\* The process of the service is a bot.py with its bridge, and what starts it and
\* counts its exits is _guardian.ps1.
THEOREM ServiceImplementsItsParts == Spec => IngressSpec /\ GuardianSpec
<1>1. Init => IngressInit /\ GuardianInit
  BY DEF Init
<1> QED BY <1>1, StepsOfTheParts, PTL DEF Spec, IngressSpec, GuardianSpec

LEMMA StepAgrees ==
  ASSUME bot <=> proc # "down", [Next]_vars
  PROVE  (bot <=> proc # "down")'
<1>1. CASE UNCHANGED vars
  BY <1>1 DEF vars, ingressVars, guardianVars
<1>2. CASE MessageStep
  <2>1. bot' = bot
    BY <1>2 DEF MessageStep, guardianVars
  <2>2. proc' # "down" <=> proc # "down"
    BY <1>2 DEF MessageStep, Step, BridgeStep, WorkerStep, Deliver, TimeOut, Refuse, Enqueue,
                Accept, Claim, ClaimRaises, Enter, Done, Raise, Serve
  <2> QED BY <2>1, <2>2
<1>3. CASE StartBot
  BY <1>3 DEF StartBot, Launch, Start
<1>4. CASE InterruptBot
  BY <1>4 DEF InterruptBot, Interrupt, guardianVars
<1>5. CASE ExitBot
  BY <1>5 DEF ExitBot, Exit, Kill, Drained, Crash, Ended
<1>6. CASE StopBot
  BY <1>6 DEF StopBot, Kill, Stop, Ended, ingressVars
<1>7. CASE GuardianAlone
  BY <1>7 DEF GuardianAlone, ingressVars, GuardianStep, ReadMarker, RemoveMarker, Count, Wake,
              Request, Time, HourPasses, MarkerAges
<1> QED BY <1>1, <1>2, <1>3, <1>4, <1>5, <1>6, <1>7 DEF Next

\* The service is type-correct, and its two accounts of the process agree: the
\* guardian waits for bot.py exactly while it runs.
THEOREM ServiceTypes == Spec => []TypeOK
<1>1. Init => (bot <=> proc # "down")
  BY DEF Init, IngressInit, GuardianInit
<1>2. Spec => [](bot <=> proc # "down")
  BY <1>1, StepAgrees, PTL DEF Spec
<1>3. IngressInv /\ GuardianInv /\ (bot <=> proc # "down") => TypeOK
  BY DEF IngressInv, GuardianInv, TypeOK
<1> QED BY <1>2, <1>3, ServiceImplementsItsParts, IngressInvariant, GuardianInvariant, PTL

\* claim_event and the restarts: no message is handled twice by the service.
THEOREM ServiceHandlesOnce == Spec => []HandledOnce
BY ServiceImplementsItsParts, MessagesAreHandledOnce, PTL

\* The bot, however often it is restarted, and Hermes answer a message both only
\* when it was delivered again or its call was lost (adapter.py:38).
THEOREM ServiceAnswersOnce == Spec => []AnsweredTwice
BY ServiceImplementsItsParts, OneSideAnswers, PTL

\* _guardian.ps1 gives up only for crashes of the bot whose messages these are.
THEOREM ServiceHaltsAreEarned == Spec => HaltIsEarned
BY ServiceImplementsItsParts, HaltsAreEarned, PTL

\* A crash loop of the service ends.
THEOREM ServiceCrashLoopsEnd == Spec => CrashLoopEnds
BY ServiceImplementsItsParts, CrashLoopsEnd, PTL
===============================================================================
