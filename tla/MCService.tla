------------------------------- MODULE MCService -------------------------------
EXTENDS Service, TLC
CONSTANTS m1, m2, v1, v2, c1
MCChatOf == [m \in Messages |-> c1]
MCDeliveries == (m1 :> 2) @@ (m2 :> 1)
===============================================================================
