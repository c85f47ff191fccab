----------------------------- MODULE Bootstrap ------------------------------
(***************************************************************************)
(* Connection management: ConnectManager at the clients (lib.hh), RCtrl    *)
(* (rctrl.hh) and RecvManager (rc_recv_manager.hh) at the server, with the *)
(* Factory stores (abs_factory.hh) they keep.                              *)
(*                                                                         *)
(* The RPC is used as RemoteCall promises it: the daemon thread runs the   *)
(* handler of a call at most once, and a client whose request or reply was *)
(* lost, or whose server has aborted, times out.  SRpc shows under which   *)
(* network that holds.  A request that outlives its timeout is not modelled*)
(* here.  A client may crash and come back; the server knows nothing of it.*)
(***************************************************************************)
EXTENDS Naturals, FiniteSets

CONSTANTS
    Clients,    \* one ConnectManager and one thread each
    Names,      \* names of QPs
    Channels,   \* receive channels registered in reg_recv_cqs
    Requested,  \* channels the clients ask for
    Ops,        \* what each client calls
    Attrs,      \* the stores, "mr" and "dc", main registers an entry in
    Rcs,        \* bound: local RC objects per client
    MaxCreates, \* bound: QPs the server creates
    Faults      \* what may fail

ASSUME BoundAssumption == Rcs \in Nat \ {0} /\ MaxCreates \in Nat
ASSUME ClientsAssumption == IsFiniteSet(Clients)
Procedures == {"CreateRC", "CreateRCM", "QueryRC", "DeleteRC", "FetchQPAttr",
               "FetchMr", "FetchDCAttr"}
ASSUME OpsAssumption == \A c \in Clients : Ops[c] \subseteq Procedures
ASSUME AttrsAssumption == Attrs \subseteq {"mr", "dc"}
ASSUME FaultsAssumption ==
    Faults \subseteq {"loss",     \* a request or a reply is lost
                      "nic",      \* the requested NIC is not in opened_nics
                      "create",   \* qp::RC::create fails at the server
                      "connect",  \* RC::connect fails at the server
                      "alloc",    \* the receive allocator is exhausted
                      "short",    \* a client asks for fewer receives than R
                      "local",    \* RC::connect fails at the client
                      "crash"}    \* a client process ends and is started again
ASSUME ChannelAssumption == "none" \notin Channels \cup Requested

VARIABLES
    registered_qps,   \* RCtrl::registered_qps
    reg_recv_entries, \* RecvManager::reg_recv_entries: its names
    cqAlive,          \* the channels of reg_recv_cqs whose ibv_cq exists
    server,           \* "up", or "aborted" by a failed RDMA_ASSERT
    created,          \* the number of QPs created; their ids and keys
    store,            \* registered_mrs and registered_dcs, one entry each
    phase, req, rep,  \* the open call of each client
    peer,             \* the server QP each local RC is connected to, 0 if none
    known,            \* what cc_rc returned Ok for
    owned,            \* the same, while its client has not asked to delete it
    deleted,          \* history: the keys delete_remote_rc returned Ok for,
                      \* of QPs that are still registered then
    abandoned,        \* history: how the key of a registered QP got lost
    leftover          \* history: the names of the message QPs deleted

serverVars == <<registered_qps, reg_recv_entries, cqAlive, server, created, store>>
callVars == <<phase, req, rep>>
clientVars == <<peer, known, owned, deleted>>
histVars == <<abandoned, leftover>>
vars == <<serverVars, callVars, clientVars, histVars>>

NoQP == [id |-> 0]
QP == [id : Nat, key : Nat, peer : Clients \X (1 .. Rcs),
       channel : Channels \cup {"none"}, msg : BOOLEAN, short : BOOLEAN]
Req == [op : Procedures, name : Names, channel : Requested \cup {"none"},
        rc : 1 .. Rcs, key : Nat, short : BOOLEAN]
Rep == [status : {"Ok", "NotFound", "WrongArg", "Nop"}, qp : Nat, key : Nat]
Owned == [client : Clients, rc : 1 .. Rcs, name : Names, qp : Nat, key : Nat,
          fresh : BOOLEAN]
Causes == {"lost reply", "local connect", "throw", "lost delete", "crash"}

TypeOK ==
    /\ registered_qps \in [Names -> QP \cup {NoQP}]
    /\ reg_recv_entries \subseteq Names
    /\ cqAlive \subseteq Channels
    /\ server \in {"up", "aborted"}
    /\ created \in 0 .. MaxCreates
    /\ phase \in [Clients -> {"idle", "sent", "replied", "lost"}]
    /\ \A c \in Clients : phase[c] # "idle" => req[c] \in Req
    /\ \A c \in Clients : phase[c] = "replied" => rep[c] \in Rep
    /\ peer \in [Clients -> [1 .. Rcs -> Nat]]
    /\ known \subseteq Owned /\ owned \subseteq known
    /\ deleted \subseteq Nat
    /\ store \in [{"mr", "dc"} -> {"absent", "registered", "removed"}]
    /\ abandoned \in [Names -> Causes \cup {"none"}]
    /\ leftover \subseteq Names

Init ==
    /\ registered_qps = [n \in Names |-> NoQP]
    /\ reg_recv_entries = {}
    /\ cqAlive = Channels
    /\ server = "up"
    /\ created = 0
    /\ phase = [c \in Clients |-> "idle"]
    /\ req = [c \in Clients |-> <<>>]
    /\ rep = [c \in Clients |-> <<>>]
    /\ peer = [c \in Clients |-> [k \in 1 .. Rcs |-> 0]]
    /\ known = {} /\ owned = {}
    /\ deleted = {}
    /\ store = [s \in {"mr", "dc"} |-> "absent"]
    /\ abandoned = [n \in Names |-> "none"] /\ leftover = {}

-----------------------------------------------------------------------------
(* ConnectManager: the calls.                                              *)

Send(c, m) ==
    /\ phase[c] = "idle"
    /\ phase' = [phase EXCEPT ![c] = "sent"]
    /\ req' = [req EXCEPT ![c] = m]
    /\ UNCHANGED <<serverVars, rep, histVars>>

Creating == {c \in Clients : phase[c] = "sent" /\ req[c].op \in {"CreateRC", "CreateRCM"}}

(* The request of cc_rc and cc_rc_msg, with the attribute of the local RC  *)
(* and the client's QPConfig.  It is short if its max_recv_size is below   *)
(* the R of the server's RecvManager, which matters to CreateRCM alone.    *)
CallCreate(c, op, name, channel, k, short) ==
    /\ op \in Ops[c]
    /\ created + Cardinality(Creating) < MaxCreates
    /\ Send(c, [op |-> op, name |-> name, channel |-> channel, rc |-> k,
                key |-> 0, short |-> short])
    /\ UNCHANGED clientVars

cc_rc(c, name, k) == CallCreate(c, "CreateRC", name, "none", k, FALSE)
cc_rc_msg(c, name, channel, k) ==
    \/ CallCreate(c, "CreateRCM", name, channel, k, FALSE)
    \/ "short" \in Faults /\ CallCreate(c, "CreateRCM", name, channel, k, TRUE)

(* delete_remote_rc with a key cc_rc returned: the client no longer uses   *)
(* that QP.  It may ask again when the first answer was lost.              *)
CallDelete(c, o) ==
    /\ "DeleteRC" \in Ops[c]
    /\ o.client = c
    /\ Send(c, [op |-> "DeleteRC", name |-> o.name, channel |-> "none",
                rc |-> o.rc, key |-> o.key, short |-> FALSE])
    /\ owned' = owned \ {o}
    /\ UNCHANGED <<peer, known, deleted>>

(* fetch_qp_attr, fetch_remote_mr and fetch_dc_attr, and an RCReq with     *)
(* whether_create = 0: an id or a name, and nothing that is kept.          *)
CallQuery(c, op, name) ==
    /\ op \in Ops[c]
    /\ Send(c, [op |-> op, name |-> name, channel |-> "none", rc |-> 1, key |-> 0,
                short |-> FALSE])
    /\ UNCHANGED clientVars

-----------------------------------------------------------------------------
(* The Factory of the QPs.                                                 *)

registered(name) == registered_qps[name] # NoQP

reg(name, qp) == [registered_qps EXCEPT ![name] = qp]

erase_Forgets(name) == registered_qps
erase(name) == [registered_qps EXCEPT ![name] = NoQP]

(* An entry is deregistered only with the key reg() returned for it.       *)
dereg_allowed_AnyKey(name, key) == registered(name)
dereg_allowed(name, key) == registered(name) /\ registered_qps[name].key = key

(* ~Dummy of the last reference to a QP: the QP goes first, then its       *)
(* recv_cq, which the verbs refuse to destroy while another QP uses it.    *)
DestroyQP(channel, qps) ==
    cqAlive' = IF \E n \in Names : qps[n] # NoQP /\ qps[n].channel = channel
               THEN cqAlive ELSE cqAlive \ {channel}

-----------------------------------------------------------------------------
(* RCtrl and RecvManager: the handlers.                                    *)

Reply(c, status, qp, key) ==
    /\ phase' = [phase EXCEPT ![c] = "replied"]
    /\ rep' = [rep EXCEPT ![c] = [status |-> status, qp |-> qp, key |-> key]]
    /\ UNCHANGED <<req, clientVars>>

(* reg_recv_cqs.query; without the channel recv_cq is nullptr.             *)
RecvCq(m) == IF m.channel \in Channels THEN m.channel ELSE "none"

(* RC::RC, and the key reg() draws for it with rand(): keys may repeat in  *)
(* the code, and are taken to be distinct here.                            *)
NewQP(c, m) == [id |-> created + 1, key |-> created + 1, peer |-> <<c, m.rc>>,
                channel |-> RecvCq(m), msg |-> m.op = "CreateRCM", short |-> m.short]

(* The new QP is registered, cannot be connected and is dereg()ed again.   *)
ConnectFails_KeepsEntry(c, m) ==
    /\ ~registered(m.name)
    /\ "connect" \in Faults
    /\ created' = created + 1
    /\ registered_qps' = reg(m.name, NewQP(c, m))
    /\ Reply(c, "WrongArg", 0, 0)
    /\ UNCHANGED <<reg_recv_entries, cqAlive, server>>
ConnectFails(c, m) ==
    /\ ~registered(m.name)
    /\ "connect" \in Faults
    /\ created' = created + 1
    /\ DestroyQP(RecvCq(m), registered_qps)
    /\ Reply(c, "WrongArg", 0, 0)
    /\ UNCHANGED <<registered_qps, reg_recv_entries, server>>

(* rc_handler and msg_rc_handler up to the point where they part: the NIC  *)
(* is looked up, the QP created, registered and connected.                 *)
CreateFails(c, m) ==
    \/ /\ "nic" \in Faults
       /\ Reply(c, "WrongArg", 0, 0)
       /\ UNCHANGED serverVars
    \/ /\ "create" \in Faults            \* .value() of an empty Option throws
       /\ \/ UNCHANGED cqAlive           \* no cq: recv_cq is not set yet
          \/ DestroyQP(RecvCq(m), registered_qps)
       /\ Reply(c, "Nop", 0, 0)
       /\ UNCHANGED <<registered_qps, reg_recv_entries, server, created>>
    \/ /\ registered(m.name)
       /\ created' = created + 1
       /\ DestroyQP(RecvCq(m), registered_qps)
       /\ Reply(c, "WrongArg", 0, 0)
       /\ UNCHANGED <<registered_qps, reg_recv_entries, server>>
    \/ ConnectFails(c, m)

(* The QP is registered and connected, and its attribute is the reply.     *)
CreateSucceeds(c, m) ==
    LET qp == NewQP(c, m)
    IN  /\ ~registered(m.name)
        /\ created' = created + 1
        /\ registered_qps' = reg(m.name, qp)
        /\ Reply(c, "Ok", qp.id, qp.key)
        /\ UNCHANGED <<cqAlive, server>>

RegEntries_Forgets(name) == UNCHANGED reg_recv_entries
RegEntries(name) == reg_recv_entries' = reg_recv_entries \cup {name}

rc_handler(c, m) ==
    /\ m.op = "CreateRC"
    /\ \/ CreateFails(c, m)
       \/ CreateSucceeds(c, m) /\ UNCHANGED reg_recv_entries

(* The receive entries come after the QP is registered: when the channel   *)
(* is unknown or its allocator empty the handler throws and the QP stays;  *)
(* when the name already has entries the server asserts.  It asserts too   *)
(* when post_recvs(R) fails because the receive queue, which the client's  *)
(* max_recv_size sizes, is too short; the driver may have rounded it up.   *)
msg_rc_handler(c, m) ==
    /\ m.op = "CreateRCM"
    /\ \/ CreateFails(c, m)
       \/ /\ m.channel \in Channels
          /\ m.name \notin reg_recv_entries
          /\ CreateSucceeds(c, m)
          /\ RegEntries(m.name)
       \/ /\ ~registered(m.name)
          /\ m.channel \notin Channels \/ "alloc" \in Faults
          /\ created' = created + 1
          /\ registered_qps' = reg(m.name, NewQP(c, m))
          /\ Reply(c, "Nop", 0, 0)
          /\ UNCHANGED <<reg_recv_entries, cqAlive, server>>
       \/ /\ ~registered(m.name)
          /\ m.channel \in Channels
          /\ m.name \in reg_recv_entries
          /\ server' = "aborted"
          /\ created' = created + 1
          /\ registered_qps' = reg(m.name, NewQP(c, m))
          /\ UNCHANGED <<reg_recv_entries, cqAlive, callVars, clientVars>>
       \/ /\ ~registered(m.name)
          /\ m.channel \in Channels
          /\ m.name \notin reg_recv_entries
          /\ m.short
          /\ server' = "aborted"
          /\ created' = created + 1
          /\ registered_qps' = reg(m.name, NewQP(c, m))
          /\ RegEntries(m.name)
          /\ UNCHANGED <<cqAlive, callVars, clientVars>>

(* The sanity check of both handlers refuses whether_create = 0.           *)
query_handler(c, m) ==
    /\ m.op = "QueryRC"
    /\ Reply(c, "WrongArg", 0, 0)
    /\ UNCHANGED serverVars

fetch_qp_attr(c, m) ==
    /\ m.op = "FetchQPAttr"
    /\ \/ registered(m.name) /\ Reply(c, "Ok", registered_qps[m.name].id, 0)
       \/ ~registered(m.name) /\ Reply(c, "NotFound", 0, 0)
    /\ UNCHANGED serverVars

(* fetch_mr_handler and fetch_dc_attr.                                     *)
FetchAttr(c, s) ==
    /\ \/ store[s] = "registered" /\ Reply(c, "Ok", 1, 0)
       \/ store[s] # "registered" /\ Reply(c, "NotFound", 0, 0)
    /\ UNCHANGED serverVars
fetch_mr_handler(c, m) == m.op = "FetchMr" /\ FetchAttr(c, "mr")
fetch_dc_handler(c, m) == m.op = "FetchDCAttr" /\ FetchAttr(c, "dc")

delete_rc(c, m) ==
    /\ m.op = "DeleteRC"
    /\ \/ /\ dereg_allowed(m.name, m.key)
          /\ registered_qps' = erase(m.name)
          /\ DestroyQP(registered_qps[m.name].channel, registered_qps')
          /\ Reply(c, "Ok", 0, 0)
          /\ UNCHANGED <<reg_recv_entries, server, created>>
       \/ /\ ~dereg_allowed(m.name, m.key)
          /\ Reply(c, "WrongArg", 0, 0)
          /\ UNCHANGED serverVars

Handle(c) ==
    /\ phase[c] = "sent"
    /\ server = "up"
    /\ LET m == req[c]
       IN  \/ rc_handler(c, m) \/ msg_rc_handler(c, m) \/ query_handler(c, m)
           \/ fetch_qp_attr(c, m) \/ delete_rc(c, m)
           \/ fetch_mr_handler(c, m) \/ fetch_dc_handler(c, m)
    /\ UNCHANGED store
    \* the key of a QP is lost when the handler throws after reg()
    /\ abandoned' = [n \in Names |->
           IF registered_qps'[n] = registered_qps[n] THEN abandoned[n]
           ELSE IF phase'[c] = "replied" /\ rep'[c].status = "Nop" THEN "throw" ELSE "none"]
    /\ leftover' = leftover \cup {n \in Names :
           registered(n) /\ registered_qps[n].msg /\ registered_qps'[n] = NoQP}

(* The main thread of the server registers its memory and its DC target,   *)
(* and may take them back while the daemon runs.                           *)
reg_attr(s) ==
    /\ store[s] = "absent"
    /\ store' = [store EXCEPT ![s] = "registered"]
    /\ UNCHANGED <<registered_qps, reg_recv_entries, cqAlive, server, created,
                   callVars, clientVars, histVars>>
dereg_attr(s) ==
    /\ store[s] = "registered"
    /\ store' = [store EXCEPT ![s] = "removed"]
    /\ UNCHANGED <<registered_qps, reg_recv_entries, cqAlive, server, created,
                   callVars, clientVars, histVars>>

Abandon(keys, cause) ==
    /\ abandoned' = [n \in Names |->
           IF registered(n) /\ registered_qps[n].key \in keys /\ abandoned[n] = "none"
           THEN cause ELSE abandoned[n]]
    /\ UNCHANGED leftover

ReportDeleted(key) ==
    deleted' = deleted \cup
        ({key} \cap {registered_qps[n].key : n \in {x \in Names : registered(x)}})

(* The request or the reply is lost.                                       *)
Lose(c) ==
    /\ "loss" \in Faults
    /\ phase[c] \in {"sent", "replied"}
    /\ phase' = [phase EXCEPT ![c] = "lost"]
    /\ rep' = [rep EXCEPT ![c] = <<>>]
    /\ Abandon(IF phase[c] = "replied" THEN {rep[c].key} ELSE {}, "lost reply")
    /\ UNCHANGED <<serverVars, req, clientVars>>

(* The client's process ends, and a new one takes its place.  Nobody tells *)
(* the server.                                                             *)
Crash(c) ==
    /\ "crash" \in Faults
    /\ phase[c] # "sent"
    /\ Abandon({o.key : o \in {q \in owned : q.client = c}}
               \cup (IF phase[c] = "replied" THEN {rep[c].key} ELSE {})
               \cup (IF phase[c] = "lost" THEN {req[c].key} ELSE {}), "crash")
    /\ phase' = [phase EXCEPT ![c] = "idle"]
    /\ req' = [req EXCEPT ![c] = <<>>]
    /\ rep' = [rep EXCEPT ![c] = <<>>]
    /\ peer' = [peer EXCEPT ![c] = [k \in 1 .. Rcs |-> 0]]
    /\ known' = {o \in known : o.client # c}
    /\ owned' = {o \in owned : o.client # c}
    /\ UNCHANGED <<serverVars, deleted>>

-----------------------------------------------------------------------------
(* ConnectManager: the returns.                                            *)

Idle(c) == /\ phase' = [phase EXCEPT ![c] = "idle"]
           /\ req' = [req EXCEPT ![c] = <<>>]
           /\ rep' = [rep EXCEPT ![c] = <<>>]
           /\ UNCHANGED serverVars

(* cc_rc connects the local RC to the QP of the reply.  A connected RC     *)
(* answers "already connected" and is taken for connected.                 *)
ReturnCreate(c) ==
    LET k == req[c].rc
        o == [client |-> c, rc |-> k, name |-> req[c].name,
              qp |-> rep[c].qp, key |-> rep[c].key, fresh |-> peer[c][k] = 0]
    IN  /\ phase[c] = "replied"
        /\ req[c].op \in {"CreateRC", "CreateRCM"}
        /\ Idle(c)
        /\ \/ /\ rep[c].status = "Ok" /\ peer[c][k] = 0
              /\ peer' = [peer EXCEPT ![c][k] = rep[c].qp]
              /\ owned' = owned \cup {o} /\ known' = known \cup {o}
              /\ UNCHANGED histVars
           \/ /\ rep[c].status = "Ok" /\ peer[c][k] # 0
              /\ owned' = owned \cup {o} /\ known' = known \cup {o}
              /\ UNCHANGED <<peer, histVars>>
           \/ /\ rep[c].status # "Ok" \/ (peer[c][k] = 0 /\ "local" \in Faults)
              /\ Abandon({rep[c].key}, "local connect")
              /\ UNCHANGED <<peer, known, owned>>
        /\ UNCHANGED deleted

ReturnDelete(c) ==
    /\ phase[c] = "replied"
    /\ req[c].op = "DeleteRC"
    /\ Idle(c)
    /\ IF rep[c].status = "Ok" THEN ReportDeleted(req[c].key) ELSE UNCHANGED deleted
    /\ UNCHANGED <<peer, known, owned, histVars>>

ReturnQuery(c) ==
    /\ phase[c] = "replied"
    /\ req[c].op \in {"QueryRC", "FetchQPAttr", "FetchMr", "FetchDCAttr"}
    /\ Idle(c)
    /\ UNCHANGED <<clientVars, histVars>>

NoAnswer(c) == phase[c] = "lost" \/ (phase[c] = "sent" /\ server = "aborted")

(* receive_reply times out.  delete_remote_rc then runs off its end without*)
(* a return statement: what its caller sees is undefined.                  *)
Timeout_NotForDelete(c) ==
    /\ NoAnswer(c)
    /\ req[c].op # "DeleteRC"
    /\ Idle(c)
    /\ UNCHANGED <<clientVars, histVars>>
Timeout(c) ==
    /\ NoAnswer(c)
    /\ Idle(c)
    /\ \/ UNCHANGED deleted
       \/ req[c].op = "DeleteRC" /\ ReportDeleted(req[c].key)
    /\ Abandon({req[c].key}, "lost delete")
    /\ UNCHANGED <<peer, known, owned>>

-----------------------------------------------------------------------------
Calls(c) ==
    \/ \E name \in Names, k \in 1 .. Rcs :
          \/ cc_rc(c, name, k)
          \/ \E channel \in Requested : cc_rc_msg(c, name, channel, k)
    \/ \E o \in known : CallDelete(c, o)
    \/ \E name \in Names :
          \E op \in {"QueryRC", "FetchQPAttr", "FetchMr", "FetchDCAttr"} :
              CallQuery(c, op, name)

Returns(c) == ReturnCreate(c) \/ ReturnDelete(c) \/ ReturnQuery(c) \/ Timeout(c)

Next ==
    \/ \E c \in Clients : Calls(c) \/ Handle(c) \/ Lose(c) \/ Returns(c) \/ Crash(c)
    \/ \E s \in Attrs : reg_attr(s) \/ dereg_attr(s)

Spec == Init /\ [][Next]_vars

(* The daemon thread keeps running its event loop while it is up, and      *)
(* receive_reply returns with a reply or a timeout.                        *)
FairSpec ==
    /\ Spec
    /\ \A c \in Clients : WF_vars(Handle(c)) /\ WF_vars(Returns(c))

-----------------------------------------------------------------------------
(* Properties.                                                             *)

(* cc_rc returned Ok: until its own client deletes it, the named QP of the *)
(* server is registered under the returned key and connected to the RC of  *)
(* that client, whatever the other clients do, lose and crash.  The RC is  *)
(* connected to it too, unless it was connected to another QP before.      *)
OwnedIsPaired ==
    \A o \in owned :
        /\ registered(o.name)
        /\ registered_qps[o.name].id = o.qp
        /\ registered_qps[o.name].key = o.key
        /\ registered_qps[o.name].peer = <<o.client, o.rc>>
        /\ o.fresh => peer[o.client][o.rc] = o.qp

(* The key of every registered QP is with a client, on its way to one or   *)
(* on its way back to delete the QP, except where a reply was lost, the    *)
(* local connect failed, the handler threw after reg(), a deletion timed   *)
(* out or the client crashed: nothing else blocks a name for ever.         *)
KeyIsSomewhere(key) ==
    \/ \E o \in owned : o.key = key
    \/ \E c \in Clients :
          \/ phase[c] = "replied" /\ rep[c].key = key
          \/ phase[c] \in {"sent", "lost"} /\ req[c].key = key
NoOrphan ==
    server = "up" => \A n \in Names : registered(n) =>
        \/ KeyIsSomewhere(registered_qps[n].key)
        \/ abandoned[n] # "none"

(* rc_recv_manager.hh: a QP created for messages has receive entries,      *)
(* unless the handler threw before it could register them.                 *)
MsgQpHasEntries ==
    \A n \in Names : registered(n) /\ registered_qps[n].msg =>
        n \in reg_recv_entries \/ abandoned[n] = "throw"

(* A QP whose deletion was reported Ok is not registered any more, unless  *)
(* the deletion timed out and the undefined result of delete_remote_rc     *)
(* reads as Ok.                                                            *)
DeleteOkMeansGone ==
    server = "up" => \A n \in Names : registered(n) =>
        \/ registered_qps[n].key \notin deleted
        \/ abandoned[n] = "lost delete"

(* The assertions of rc_recv_manager.hh abort the server in two cases only:*)
(* a message QP is created again under the name of one that was deleted,   *)
(* whose receive entries nobody removes, or its client asked for a receive *)
(* queue with no room for the entries.  That QP is the one registered last.*)
AbortsExplained ==
    server = "aborted" => \E n \in Names :
        /\ registered(n) /\ registered_qps[n].msg
        /\ registered_qps[n].id = created
        /\ n \in leftover \/ registered_qps[n].short

(* Every call ends, even when the server has aborted.                      *)
CallsEnd == \A c \in Clients : phase[c] # "idle" ~> phase[c] = "idle"

(* The stores of the server: message QPs have their receive entries, and   *)
(* the server aborts over entries that were left behind or do not fit only.*)
ServerInv == TypeOK /\ MsgQpHasEntries /\ AbortsExplained
=============================================================================
