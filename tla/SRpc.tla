-------------------------------- MODULE SRpc --------------------------------
(***************************************************************************)
(* The bootstrap RPC: SRpc clients, the UDP channels (channel.hh) and the  *)
(* SRpcHandler event loop of the server (srpc.hh).                         *)
(*                                                                         *)
(* UDP is external: a datagram may be lost, overtaken or duplicated, and a *)
(* timeout may fire while the call is still on its way.  The constants say *)
(* for which calls it does so.  The payload of a message is abstracted to  *)
(* the call it belongs to.                                                 *)
(***************************************************************************)
EXTENDS Naturals, FiniteSets

CONSTANTS
    Clients,    \* SRpc objects, one thread each
    Strangers,  \* senders whose datagrams are not RPC requests
    MaxCalls,   \* bound: calls per client
    MayLose,    \* TRUE: datagrams may be lost
    LateIds,    \* the ids of calls that may time out while still in flight
    DupIds      \* the ids of calls whose datagrams may be duplicated

Ids == {"HeartBeat", "User"}  \* the heartbeat and every other rpc id

ASSUME BoundAssumption == MaxCalls \in Nat /\ MayLose \in BOOLEAN
ASSUME IdAssumption == LateIds \subseteq Ids /\ DupIds \subseteq Ids
ASSUME StrangerAssumption == Clients \cap Strangers = {}

invalid_checksum == 0

VARIABLES
    checksum,  \* SRpc::checksum of each client
    calls,     \* the number of calls each client has made
    waiting,   \* the id of the call a client is in receive_reply for, or "idle"
    requests,  \* datagrams towards the server
    replies,   \* datagrams towards the clients
    cur,       \* RecvChannel::cur_msg while cur_msg_client is set; a set of
               \* at most one request
    executed,  \* history: the calls whose handler ran
    lost,      \* history: the calls of which a datagram was lost or not sent
    results    \* history: what each call returned and whose reply it took

vars == <<checksum, calls, waiting, requests, replies, cur, executed, lost, results>>
clientVars == <<checksum, calls, waiting, results>>
serverVars == <<cur, executed>>
netVars == <<requests, replies, lost>>

Request == [from : Clients \cup Strangers, n : Nat, id : Ids \cup {"garbage"},
            checksum : Nat]
Reply == [to : Clients \cup Strangers, n : Nat, id : Ids \cup {"garbage"},
          callstatus : {"Ok", "Nop", "FatalErr"}, checksum : Nat, dummy : BOOLEAN]
CallResult == [client : Clients, n : Nat, id : Ids,
               code : {"Ok", "Err", "Fatal checksum", "Timeout"},
               of : Nat, ofId : Ids \cup {"none"}]

TypeOK ==
    /\ checksum \in [Clients -> Nat \ {0}]
    /\ calls \in [Clients -> Nat]
    /\ waiting \in [Clients -> Ids \cup {"idle"}]
    /\ requests \subseteq Request
    /\ replies \subseteq Reply
    /\ cur \subseteq Request
    /\ executed \subseteq Clients \X Nat
    /\ lost \subseteq (Clients \cup Strangers) \X Nat
    /\ results \subseteq CallResult

Init ==
    /\ checksum = [c \in Clients |-> invalid_checksum + 1]
    /\ calls = [c \in Clients |-> 0]
    /\ waiting = [c \in Clients |-> "idle"]
    /\ requests = {} /\ replies = {} /\ cur = {}
    /\ executed = {} /\ lost = {} /\ results = {}

-----------------------------------------------------------------------------
(* Clients.                                                                *)

Return(c, id, n, code, of, ofId) ==
    results' = results \cup {[client |-> c, n |-> n, id |-> id, code |-> code,
                              of |-> of, ofId |-> ofId]}

(* The message is too large, or sendto fails.  Most callers return; but    *)
(* fetch_remote_mr does not look at the result and waits for a reply.      *)
SendFails(c, id) ==
    \/ /\ Return(c, id, calls[c] + 1, "Err", 0, "none")
       /\ UNCHANGED <<requests, waiting, lost>>
    \/ /\ id = "User"
       /\ waiting' = [waiting EXCEPT ![c] = id]
       /\ lost' = lost \cup {<<c, calls[c] + 1>>}
       /\ UNCHANGED <<requests, results>>

(* SRpc::call: the request carries the checksum of the reply to come.      *)
Call(c, id) ==
    /\ waiting[c] = "idle"
    /\ calls[c] < MaxCalls
    /\ calls' = [calls EXCEPT ![c] = @ + 1]
    /\ \/ /\ requests' = requests \cup
                 {[from |-> c, n |-> calls[c] + 1, id |-> id, checksum |-> checksum[c]]}
          /\ waiting' = [waiting EXCEPT ![c] = id]
          /\ UNCHANGED <<results, lost>>
       \/ SendFails(c, id)
    /\ UNCHANGED <<checksum, replies, serverVars>>

(* A datagram that leaves the network; a duplicated one stays behind.      *)
Taken(net, m) == \/ net' = net \ {m}
                 \/ m.id \in DupIds /\ net' = net

Finish(c, code, r) ==
    /\ Return(c, waiting[c], calls[c], code, r.n, r.id)
    /\ waiting' = [waiting EXCEPT ![c] = "idle"]

(* A heartbeat's reply ends only a heartbeat; the others retry.            *)
HeartbeatReply_EndsAnyCall(c, r) == r.dummy /\ Finish(c, "Ok", r) /\ UNCHANGED checksum
HeartbeatReply(c, r) ==
    /\ r.dummy
    /\ UNCHANGED checksum
    /\ \/ waiting[c] # "HeartBeat" /\ UNCHANGED <<waiting, results>>
       \/ waiting[c] = "HeartBeat" /\ Finish(c, "Ok", r)

(* A normal reply must carry the checksum of the client, which then grows. *)
NormalReply_KeepsChecksum(c, r) ==
    /\ ~r.dummy
    /\ UNCHANGED checksum
    /\ Finish(c, IF r.checksum # checksum[c] THEN "Fatal checksum"
                 ELSE IF r.callstatus = "Ok" THEN "Ok" ELSE "Err", r)
NormalReply(c, r) ==
    /\ ~r.dummy
    /\ \/ /\ r.checksum = checksum[c]
          /\ checksum' = [checksum EXCEPT ![c] = @ + 1]
          /\ Finish(c, IF r.callstatus = "Ok" THEN "Ok" ELSE "Err", r)
       \/ /\ r.checksum # checksum[c]
          /\ Finish(c, "Fatal checksum", r)
          /\ UNCHANGED checksum

(* SRpc::receive_reply; wait_ready alone passes heartbeat = true.          *)
ReceiveReply(c, r) ==
    /\ waiting[c] # "idle"
    /\ r.to = c
    /\ Taken(replies, r)
    /\ HeartbeatReply(c, r) \/ NormalReply(c, r)
    /\ UNCHANGED <<calls, requests, lost, serverVars>>

InFlight(c, n) ==
    \/ \E m \in requests \cup cur : m.from = c /\ m.n = n
    \/ \E m \in replies : m.to = c /\ m.n = n

(* receive_reply returns the Timeout of the channel and keeps the checksum.*)
Timeout(c) ==
    /\ waiting[c] # "idle"
    /\ waiting[c] \in LateIds \/ ~InFlight(c, calls[c])
    /\ Return(c, waiting[c], calls[c], "Timeout", 0, "none")
    /\ waiting' = [waiting EXCEPT ![c] = "idle"]
    /\ UNCHANGED <<checksum, calls, netVars, serverVars>>

-----------------------------------------------------------------------------
(* The server: SRpcHandler::run_one_event_loop over a RecvChannel.         *)

(* RecvChannel::start.                                                     *)
ServerReceive(m) ==
    /\ cur = {}
    /\ Taken(requests, m)
    /\ cur' = {m}
    /\ UNCHANGED <<clientVars, replies, lost, executed>>

(* The reply to the current message, then RecvChannel::next drops it.      *)
reply_cur_NoNext(m, status, sum, dummy) ==
    /\ replies' = replies \cup
           {[to |-> m.from, n |-> m.n, id |-> m.id, callstatus |-> status,
             checksum |-> sum, dummy |-> dummy]}
    /\ UNCHANGED cur
reply_cur(m, status, sum, dummy) ==
    /\ replies' = replies \cup
           {[to |-> m.from, n |-> m.n, id |-> m.id, callstatus |-> status,
             checksum |-> sum, dummy |-> dummy]}
    /\ cur' = {}

(* The handler answers.  The ids are those that have a handler: for others *)
(* call_one would use the end() of its map.                                *)
ServerReply_NoDummy(m) ==
    /\ m.id # "garbage"
    /\ reply_cur(m, "Ok", m.checksum, FALSE)
    /\ executed' = executed \cup {<<m.from, m.n>>}
    /\ UNCHANGED <<clientVars, requests, lost>>
ServerReply(m) ==
    /\ m.id # "garbage"
    /\ reply_cur(m, "Ok", m.checksum, m.id = "HeartBeat")
    /\ executed' = executed \cup {<<m.from, m.n>>}
    /\ UNCHANGED <<clientVars, requests, lost>>

(* The handler, or building its reply, throws.                             *)
ServerThrows(m) ==
    /\ m.id = "User"
    /\ reply_cur(m, "Nop", m.checksum, FALSE)
    /\ executed' = executed \cup {<<m.from, m.n>>}
    /\ UNCHANGED <<clientVars, requests, lost>>

(* The header of the message cannot be decoded.                            *)
ServerCannotDecode(m) ==
    /\ m.id = "garbage"
    /\ reply_cur(m, "FatalErr", invalid_checksum, FALSE)
    /\ UNCHANGED <<clientVars, requests, lost, executed>>

-----------------------------------------------------------------------------
(* The network.                                                            *)

Lose ==
    /\ MayLose
    /\ \/ \E m \in requests : /\ requests' = requests \ {m} /\ UNCHANGED replies
                              /\ lost' = lost \cup {<<m.from, m.n>>}
       \/ \E m \in replies : /\ replies' = replies \ {m} /\ UNCHANGED requests
                             /\ lost' = lost \cup {<<m.to, m.n>>}
    /\ UNCHANGED <<clientVars, serverVars>>

(* A stranger's datagram reaches the server's port.                        *)
StrangerSends(s) ==
    /\ requests' = requests \cup
           {[from |-> s, n |-> 0, id |-> "garbage", checksum |-> invalid_checksum]}
    /\ UNCHANGED <<clientVars, serverVars, replies, lost>>

-----------------------------------------------------------------------------
ClientStep(c) ==
    \/ \E id \in Ids : Call(c, id)
    \/ \E r \in replies : ReceiveReply(c, r)
    \/ Timeout(c)

ServerStep ==
    \/ \E m \in requests : ServerReceive(m)
    \/ \E m \in cur : ServerReply(m) \/ ServerThrows(m) \/ ServerCannotDecode(m)

(* Every client has made its calls: the only way the system may stop.      *)
AllDone ==
    /\ \A c \in Clients : waiting[c] = "idle" /\ calls[c] = MaxCalls
    /\ UNCHANGED vars

Next ==
    \/ \E c \in Clients : ClientStep(c)
    \/ ServerStep
    \/ Lose
    \/ \E s \in Strangers : StrangerSends(s)
    \/ AllDone

Spec == Init /\ [][Next]_vars

(* The server thread runs its event loop again and again.  A socket is a   *)
(* queue, so a request that stays in it is served however many others      *)
(* arrive: strong fairness.  A client in receive_reply takes what stays in *)
(* its own socket, or times out.                                           *)
FairSpec ==
    /\ Spec
    /\ WF_vars(\E m \in cur : ServerReply(m) \/ ServerThrows(m) \/ ServerCannotDecode(m))
    /\ \A c \in Clients :
          /\ WF_vars(Timeout(c))
          /\ \A n \in 1 .. MaxCalls :
                /\ SF_vars(\E m \in requests : m.from = c /\ m.n = n /\ ServerReceive(m))
                /\ WF_vars(\E r \in replies : r.n = n /\ ReceiveReply(c, r))

-----------------------------------------------------------------------------
(* Properties.                                                             *)

(* A reply that a call accepts is its own: the answer or the error the     *)
(* server produced for that very call.  A heartbeat may take the reply of  *)
(* any heartbeat; the second copy of an older reply is not accepted.       *)
ReplyAnswersCall ==
    \A res \in results : res.code \in {"Ok", "Err"} /\ res.of # 0 =>
        IF res.id = "HeartBeat" THEN res.ofId = "HeartBeat" ELSE res.of = res.n

(* However often a reply to a user call is duplicated, it is accepted at   *)
(* most once: no two calls of a client return the same reply.              *)
AcceptedOnce ==
    \A r1, r2 \in results :
        /\ r1.client = r2.client /\ r1.of = r2.of /\ r1.of # 0
        /\ r1.ofId = "User"
        /\ {r1.code, r2.code} \subseteq {"Ok", "Err"}
        => r1 = r2

(* Where a user call does take the reply of another call, that one is an   *)
(* earlier call of the same client that was given up, by a timeout or a    *)
(* checksum error: a call that got its own answer is safe from duplicates, *)
(* and no reply crosses from one client to another.                        *)
StaleOnlyAfterGivingUp ==
    \A res \in results :
        res.id = "User" /\ res.code \in {"Ok", "Err"} /\ res.of \notin {0, res.n} =>
            \E old \in results :
                /\ old.client = res.client
                /\ old.n = res.of /\ old.n < res.n
                /\ old.code \in {"Timeout", "Fatal checksum"}

(* However late a heartbeat is answered, a user call never ends on its     *)
(* reply (the dummy flag of SReplyHeader), and a heartbeat's late reply    *)
(* never moves the checksum: the checksum counts the accepted user replies.*)
HeartbeatsAreIgnored ==
    /\ \A res \in results : res.id = "User" => res.ofId # "HeartBeat"
    /\ \A c \in Clients :
          checksum[c] = 1 + Cardinality({res \in results :
              res.client = c /\ res.ofId = "User" /\ res.code \in {"Ok", "Err"}})

(* A call that found an answer had its handler run first, on this server,  *)
(* and the calls implement the atomic remote call of RemoteCall.           *)
Abs == INSTANCE RemoteCall WITH
    pending <- [c \in Clients |-> IF waiting[c] = "User" THEN calls[c] ELSE 0],
    executed <- executed,
    answered <- {<<res.client, res.n>> :
                    res \in {q \in results : q.id = "User" /\ q.code = "Ok"}}

ImplementsRemoteCall == Abs!Spec

(* receive_reply returns: every call that was sent ends.                   *)
CallsReturn == \A c \in Clients : waiting[c] # "idle" ~> waiting[c] = "idle"

(* A user call ends in a timeout only when one of its datagrams was lost   *)
(* or never sent: a handler that throws, a message that cannot be decoded  *)
(* and the heartbeats around it are all answered or skipped.               *)
NoSpuriousTimeout ==
    \A res \in results :
        res.id = "User" /\ res.code = "Timeout" => <<res.client, res.n>> \in lost

(* Where only heartbeats are late or duplicated, calls are sound: they end *)
(* with their own reply, or with a timeout that a loss explains.           *)
CallsAreSound == TypeOK /\ ReplyAnswersCall /\ NoSpuriousTimeout
=============================================================================
