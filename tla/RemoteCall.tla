----------------------------- MODULE RemoteCall -----------------------------
(***************************************************************************)
(* What a user of bootstrap::SRpc (srpc.hh) relies on: a call is invoked,  *)
(* the server may execute its handler, and the call returns once, with the *)
(* answer of that execution or without one.                                *)
(***************************************************************************)
EXTENDS Naturals

CONSTANTS Clients, MaxCalls

VARIABLES
    pending,   \* the number of each client's open call, 0 if there is none
    executed,  \* the calls <<client, number>> whose handler has run
    answered   \* the calls that returned the answer of their handler

vars == <<pending, executed, answered>>

Calls == Clients \X (1 .. MaxCalls)

Init == /\ pending = [c \in Clients |-> 0]
        /\ executed = {} /\ answered = {}

Invoke(c, n) ==
    /\ pending[c] = 0
    /\ <<c, n>> \notin executed \cup answered
    /\ pending' = [pending EXCEPT ![c] = n]
    /\ UNCHANGED <<executed, answered>>

(* The handler may run before or after the caller gave up, and more than   *)
(* once: only the first run changes anything here.                         *)
ExecuteCall(call) ==
    /\ executed' = executed \cup {call}
    /\ UNCHANGED <<pending, answered>>

(* A call returns an answer only if its own handler ran.                   *)
Answer(c) ==
    /\ pending[c] # 0
    /\ <<c, pending[c]>> \in executed
    /\ answered' = answered \cup {<<c, pending[c]>>}
    /\ pending' = [pending EXCEPT ![c] = 0]
    /\ UNCHANGED executed

GiveUp(c) ==
    /\ pending[c] # 0
    /\ pending' = [pending EXCEPT ![c] = 0]
    /\ UNCHANGED <<executed, answered>>

Next ==
    \/ \E c \in Clients, n \in 1 .. MaxCalls : Invoke(c, n)
    \/ \E call \in Calls : ExecuteCall(call)
    \/ \E c \in Clients : Answer(c) \/ GiveUp(c)

Spec == Init /\ [][Next]_vars
=============================================================================
