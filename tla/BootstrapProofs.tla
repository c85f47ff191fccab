-------------------------- MODULE BootstrapProofs ---------------------------
(* Proofs about Bootstrap for any number of clients, names and channels,   *)
(* and whatever may fail.                                                  *)
EXTENDS Bootstrap, FiniteSetTheorems, TLAPS

Stores == /\ req \in [Clients -> Req \cup {<<>>}]
          /\ rep \in [Clients -> Rep \cup {<<>>}]

(* The bound on creations counts the requests the server has yet to see.   *)
CreatesBound ==
    created + (IF server = "up" THEN Cardinality(Creating) ELSE 0) <= MaxCreates

(* A registered QP is numbered by its creation, and so is its key.         *)
KeysOK ==
    /\ \A n \in Names : registered(n) =>
          /\ registered_qps[n].id = registered_qps[n].key
          /\ registered_qps[n].key \in 1 .. created
    /\ \A n1, n2 \in Names :
          registered(n1) /\ registered(n2) /\ registered_qps[n1].key = registered_qps[n2].key
            => n1 = n2

Create == {"CreateRC", "CreateRCM"}

(* What a reply says.  That of a creation names a QP that is registered    *)
(* for its client, and whose key nobody else knows.                        *)
Given(c) == phase[c] = "replied" /\ req[c].op \in Create /\ rep[c].status = "Ok"
RepliesOK ==
    \A c \in Clients :
        /\ phase[c] = "replied" /\ ~Given(c) => rep[c].key = 0
        /\ Given(c) =>
              /\ registered(req[c].name)
              /\ registered_qps[req[c].name].id = rep[c].qp
              /\ registered_qps[req[c].name].key = rep[c].key
              /\ registered_qps[req[c].name].peer = <<c, req[c].rc>>
              /\ abandoned[req[c].name] = "none"
              /\ \A o \in known : o.key # rep[c].key

(* A key is known once, and its QP, if it still exists, has the known name *)
(* and was not abandoned but by a deletion that timed out.                 *)
KnownOK ==
    /\ \A o \in known : o.key \in 1 .. created
    /\ \A o1, o2 \in known : o1.key = o2.key => o1 = o2
    /\ \A o \in known, n \in Names :
          registered(n) /\ registered_qps[n].key = o.key =>
              n = o.name /\ abandoned[n] \in {"none", "lost delete"}

(* Only deletions carry a key, one that their client knows and no longer   *)
(* uses; after an Ok the QP is gone.                                       *)
RequestsOK ==
    \A c \in Clients : phase[c] # "idle" =>
        /\ req[c].op # "DeleteRC" => req[c].key = 0
        /\ req[c].op = "DeleteRC" =>
              /\ \E o \in known :
                    o \notin owned /\ o.client = c /\ o.key = req[c].key /\ o.name = req[c].name
              /\ phase[c] = "replied" /\ rep[c].status = "Ok" =>
                    \A n \in Names : registered(n) => registered_qps[n].key # req[c].key

DeletedOK == deleted \subseteq 1 .. created

(* Receive entries belong to a message QP or are left over from one.       *)
EntriesOK ==
    \A n \in reg_recv_entries : n \in leftover \/ (registered(n) /\ registered_qps[n].msg)

(* The invariant: the types and bounds, what is known of the QPs, and the  *)
(* other stores.                                                           *)
BaseInv == TypeOK /\ Stores /\ CreatesBound
QPInv == /\ KeysOK /\ RepliesOK /\ KnownOK /\ RequestsOK /\ DeletedOK
         /\ OwnedIsPaired /\ NoOrphan /\ DeleteOkMeansGone
StoreInv == EntriesOK /\ MsgQpHasEntries /\ AbortsExplained
IndInv == BaseInv /\ QPInv /\ StoreInv

-----------------------------------------------------------------------------
(* The fields of the records.                                              *)
LEMMA RecordTypes ==
    /\ \A m \in Req : /\ m.op \in Procedures /\ m.name \in Names /\ m.rc \in 1 .. Rcs
                      /\ m.key \in Nat /\ m.short \in BOOLEAN
                      /\ m.channel \in Requested \cup {"none"}
    /\ \A r \in Rep : /\ r.status \in {"Ok", "NotFound", "WrongArg", "Nop"}
                      /\ r.qp \in Nat /\ r.key \in Nat
    /\ \A o \in Owned : /\ o.client \in Clients /\ o.rc \in 1 .. Rcs /\ o.name \in Names
                        /\ o.qp \in Nat /\ o.key \in Nat /\ o.fresh \in BOOLEAN
    /\ \A qp \in QP : /\ qp.id \in Nat /\ qp.key \in Nat
                      /\ qp.channel \in Channels \cup {"none"}
                      /\ qp.msg \in BOOLEAN /\ qp.short \in BOOLEAN
  BY DEF Req, Rep, Owned, QP

(* Fewer open creations keep the bound.                                    *)
LEMMA CreatingFinite == IsFiniteSet(Creating) /\ Cardinality(Creating) \in Nat
  <1>1. Creating \subseteq Clients
    BY DEF Creating
  <1> QED BY <1>1, ClientsAssumption, FS_Subset, FS_CardinalityType

(* A step that sends no new creation keeps the bound on the creations in  *)
(* flight.                                                                *)
LEMMA FewerCreating ==
    ASSUME BaseInv, Creating' \subseteq Creating, created' = created,
           server' = server \/ server' = "aborted"
    PROVE  CreatesBound'
  <1>1. /\ IsFiniteSet(Creating) /\ Cardinality(Creating) \in Nat
        /\ Cardinality(Creating') \in Nat /\ Cardinality(Creating') <= Cardinality(Creating)
    BY CreatingFinite, FS_Subset, FS_CardinalityType
  <1> QED BY <1>1, BoundAssumption DEF BaseInv, TypeOK, CreatesBound

(* No call, QP or MR exists at the start.                                 *)
LEMMA InitBase == Init => BaseInv
  <1> SUFFICES ASSUME Init PROVE BaseInv
    OBVIOUS
  <1>1. Creating = {}
    BY DEF Init, Creating
  <1>2. CreatesBound
    BY <1>1, FS_EmptySet, BoundAssumption DEF Init, CreatesBound
  <1>3. TypeOK
    BY BoundAssumption DEF Init, TypeOK
  <1> QED BY <1>2, <1>3 DEF Init, BaseInv, Stores

(* A request leaves a client: only its own call changes.                   *)
LEMMA SendBase ==
    ASSUME BaseInv, NEW c \in Clients, NEW m \in Req, Send(c, m),
           UNCHANGED <<peer, known, deleted>>, owned' \subseteq owned,
           m.op \in Create => created + Cardinality(Creating) < MaxCreates
    PROVE  BaseInv'
  <1>1. /\ phase[c] = "idle" /\ phase' = [phase EXCEPT ![c] = "sent"]
        /\ req' = [req EXCEPT ![c] = m]
        /\ UNCHANGED <<registered_qps, reg_recv_entries, cqAlive, server, created, store,
                       rep, abandoned, leftover>>
    BY DEF Send, serverVars, histVars
  <1>2. Stores'
    BY <1>1 DEF BaseInv, Stores
  <1>3. TypeOK'
    BY <1>1 DEF BaseInv, TypeOK, Stores
  <1>4. CreatesBound'
    <2>1. CASE m.op \in Create
      <3>1. Creating' = Creating \cup {c} /\ c \notin Creating
        BY <1>1, <2>1 DEF Creating, Create, BaseInv, TypeOK, Stores
      <3>2. Cardinality(Creating') = Cardinality(Creating) + 1 /\ Cardinality(Creating) \in Nat
        BY <3>1, CreatingFinite, FS_AddElement
      <3> QED BY <1>1, <2>1, <3>2, BoundAssumption DEF CreatesBound, BaseInv, TypeOK
    <2>2. CASE m.op \notin Create
      <3>1. Creating' \subseteq Creating
        BY <1>1, <2>2 DEF Creating, Create, BaseInv, TypeOK, Stores
      <3> QED BY <1>1, <3>1, FewerCreating
    <2> QED BY <2>1, <2>2
  <1> QED BY <1>2, <1>3, <1>4 DEF BaseInv

(* The shape of every call.                                                *)
LEMMA CallsAreSends ==
    ASSUME BaseInv, NEW c \in Clients, Calls(c)
    PROVE  \E m \in Req :
              /\ Send(c, m) /\ UNCHANGED <<peer, known, deleted>>
              /\ m.op \in Create => created + Cardinality(Creating) < MaxCreates
              /\ \/ m.op # "DeleteRC" /\ m.key = 0 /\ owned' = owned
                 \/ /\ m.op = "DeleteRC"
                    /\ \E o \in known : /\ o.client = c /\ o.key = m.key /\ o.name = m.name
                                        /\ owned' = owned \ {o}
  <1> DEFINE M(op, name, channel, k, key, short) ==
               [op |-> op, name |-> name, channel |-> channel, rc |-> k, key |-> key,
                short |-> short]
  <1>1. ASSUME NEW op \in Create, NEW name \in Names, NEW channel \in Requested \cup {"none"},
               NEW k \in 1 .. Rcs, NEW short \in BOOLEAN,
               CallCreate(c, op, name, channel, k, short)
        PROVE  \E m \in Req :
                  /\ Send(c, m) /\ UNCHANGED <<peer, known, deleted>>
                  /\ m.op \in Create => created + Cardinality(Creating) < MaxCreates
                  /\ m.op # "DeleteRC" /\ m.key = 0 /\ owned' = owned
    <2>1. M(op, name, channel, k, 0, short) \in Req
      BY <1>1 DEF Req, Create, Procedures
    <2> WITNESS M(op, name, channel, k, 0, short) \in Req
    <2> QED BY <1>1 DEF CallCreate, clientVars, Create
  <1>2. ASSUME NEW o \in known, CallDelete(c, o)
        PROVE  \E m \in Req :
                  /\ Send(c, m) /\ UNCHANGED <<peer, known, deleted>>
                  /\ m.op = "DeleteRC"
                  /\ o.client = c /\ o.key = m.key /\ o.name = m.name
                  /\ owned' = owned \ {o}
    <2>1. o.name \in Names /\ o.rc \in 1 .. Rcs /\ o.key \in Nat
      BY RecordTypes DEF BaseInv, TypeOK
    <2>2. M("DeleteRC", o.name, "none", o.rc, o.key, FALSE) \in Req
      BY <2>1 DEF Req, Procedures
    <2> WITNESS M("DeleteRC", o.name, "none", o.rc, o.key, FALSE) \in Req
    <2> QED BY <1>2 DEF CallDelete
  <1>3. ASSUME NEW op \in {"QueryRC", "FetchQPAttr", "FetchMr", "FetchDCAttr"},
               NEW name \in Names, CallQuery(c, op, name)
        PROVE  \E m \in Req :
                  /\ Send(c, m) /\ UNCHANGED <<peer, known, deleted>>
                  /\ m.op \notin Create
                  /\ m.op # "DeleteRC" /\ m.key = 0 /\ owned' = owned
    <2>1. M(op, name, "none", 1, 0, FALSE) \in Req
      BY <1>3, BoundAssumption DEF Req, Procedures
    <2> WITNESS M(op, name, "none", 1, 0, FALSE) \in Req
    <2> QED BY <1>3 DEF CallQuery, clientVars, Create
  <1>4. CASE \E o \in known : CallDelete(c, o)
    <2>1. PICK o \in known : CallDelete(c, o)
      BY <1>4
    <2>2. PICK m \in Req : /\ Send(c, m) /\ UNCHANGED <<peer, known, deleted>>
                           /\ m.op = "DeleteRC"
                           /\ o.client = c /\ o.key = m.key /\ o.name = m.name
                           /\ owned' = owned \ {o}
      BY <1>2, <2>1
    <2>3. m.op \notin Create
      BY <2>2 DEF Create
    <2> WITNESS m \in Req
    <2> QED BY <2>2, <2>3
  <1>5. CASE \E name \in Names, k \in 1 .. Rcs :
               cc_rc(c, name, k) \/ \E channel \in Requested : cc_rc_msg(c, name, channel, k)
    BY <1>1, <1>5 DEF cc_rc, cc_rc_msg, Create
  <1>6. CASE \E name \in Names, op \in {"QueryRC", "FetchQPAttr", "FetchMr", "FetchDCAttr"} :
               CallQuery(c, op, name)
    BY <1>3, <1>6
  <1> QED BY <1>4, <1>5, <1>6 DEF Calls

-----------------------------------------------------------------------------
(* What a handler does, by its effect on the registered QPs.               *)
HandlerFrame(c) ==
    /\ phase[c] = "sent" /\ server = "up" /\ UNCHANGED store
    /\ cqAlive' \subseteq cqAlive

(* Nothing is registered or removed, and the reply carries no key.         *)
HandlerAnswers(c) ==
    /\ UNCHANGED <<registered_qps, reg_recv_entries, server, abandoned, leftover>>
    /\ created' = created \/ (created' = created + 1 /\ req[c].op \in Create)
    /\ \E status \in {"Ok", "NotFound", "WrongArg", "Nop"}, qp \in Nat :
          /\ Reply(c, status, qp, 0)
          /\ status = "Ok" => req[c].op \notin Create \cup {"DeleteRC"}
    /\ req[c].op = "DeleteRC" => ~dereg_allowed(req[c].name, req[c].key)

(* A QP is registered under a name that had none.                          *)
HandlerRegisters(c, cause) ==
    /\ req[c].op \in Create
    /\ ~registered(req[c].name)
    /\ created' = created + 1
    /\ registered_qps' = [registered_qps EXCEPT ![req[c].name] = NewQP(c, req[c])]
    /\ abandoned' = [abandoned EXCEPT ![req[c].name] = cause]
    /\ UNCHANGED leftover

HandlerCreates(c) ==
    /\ HandlerRegisters(c, "none")
    /\ Reply(c, "Ok", created + 1, created + 1)
    /\ UNCHANGED server
    /\ reg_recv_entries' = IF req[c].op = "CreateRCM"
                           THEN reg_recv_entries \cup {req[c].name} ELSE reg_recv_entries

HandlerThrows(c) ==
    /\ HandlerRegisters(c, "throw")
    /\ Reply(c, "Nop", 0, 0)
    /\ UNCHANGED <<server, reg_recv_entries>>

HandlerAborts(c) ==
    /\ HandlerRegisters(c, "none")
    /\ req[c].op = "CreateRCM"
    /\ req[c].name \in reg_recv_entries \/ req[c].short
    /\ reg_recv_entries' = reg_recv_entries \cup {req[c].name}
    /\ server' = "aborted"
    /\ UNCHANGED <<phase, req, rep, peer, known, owned, deleted>>

HandlerDeletes(c) ==
    /\ req[c].op = "DeleteRC"
    /\ dereg_allowed(req[c].name, req[c].key)
    /\ registered_qps' = [registered_qps EXCEPT ![req[c].name] = NoQP]
    /\ abandoned' = [abandoned EXCEPT ![req[c].name] = "none"]
    /\ leftover' = leftover \cup (IF registered_qps[req[c].name].msg
                                  THEN {req[c].name} ELSE {})
    /\ Reply(c, "Ok", 0, 0)
    /\ UNCHANGED <<server, created, reg_recv_entries>>

(* The QP that rc_handler or msg_rc_handler builds has the next id and    *)
(* key, and remembers for whom and with which recv_cq.                    *)
LEMMA NewQPType ==
    ASSUME BaseInv, NEW c \in Clients, phase[c] # "idle"
    PROVE  /\ NewQP(c, req[c]) \in QP /\ NewQP(c, req[c]) # NoQP
           /\ NewQP(c, req[c]).id = created + 1 /\ NewQP(c, req[c]).key = created + 1
           /\ NewQP(c, req[c]).peer = <<c, req[c].rc>>
           /\ NewQP(c, req[c]).msg <=> req[c].op = "CreateRCM"
           /\ NewQP(c, req[c]).short = req[c].short
  <1>1. /\ created \in Nat /\ req[c].rc \in 1 .. Rcs /\ RecvCq(req[c]) \in Channels \cup {"none"}
        /\ req[c].short \in BOOLEAN
    BY RecordTypes, BoundAssumption DEF BaseInv, TypeOK, RecvCq
  <1>2. /\ NewQP(c, req[c]).id = created + 1 /\ NewQP(c, req[c]).key = created + 1
        /\ NewQP(c, req[c]).peer = <<c, req[c].rc>>
        /\ NewQP(c, req[c]).msg <=> req[c].op = "CreateRCM"
        /\ NewQP(c, req[c]).short = req[c].short
    BY DEF NewQP
  <1>3. NewQP(c, req[c]) \in QP
    BY <1>1 DEF NewQP, QP
  <1>4. NewQP(c, req[c]).id # NoQP.id
    BY <1>1, <1>2 DEF NoQP
  <1> QED BY <1>2, <1>3, <1>4

(* The histories follow from what happens to the registered QPs.           *)
LEMMA HandleHistories ==
    ASSUME BaseInv, NEW c \in Clients, Handle(c)
    PROVE  /\ registered_qps' = registered_qps => UNCHANGED <<abandoned, leftover>>
           /\ \A name \in Names, qp \in QP :
                 /\ ~registered(name) /\ qp # NoQP
                 /\ registered_qps' = [registered_qps EXCEPT ![name] = qp]
                 => /\ UNCHANGED leftover
                    /\ abandoned' = [abandoned EXCEPT ![name] =
                            IF phase'[c] = "replied" /\ rep'[c].status = "Nop"
                            THEN "throw" ELSE "none"]
           /\ \A name \in Names :
                 /\ registered(name)
                 /\ registered_qps' = [registered_qps EXCEPT ![name] = NoQP]
                 => /\ leftover' = leftover \cup (IF registered_qps[name].msg
                                                   THEN {name} ELSE {})
                    /\ abandoned' = [abandoned EXCEPT ![name] =
                            IF phase'[c] = "replied" /\ rep'[c].status = "Nop"
                            THEN "throw" ELSE "none"]
  <1>1. /\ registered_qps \in [Names -> QP \cup {NoQP}]
        /\ abandoned \in [Names -> Causes \cup {"none"}]
    BY DEF BaseInv, TypeOK
  <1>2. /\ abandoned' = [n \in Names |->
              IF registered_qps'[n] = registered_qps[n] THEN abandoned[n]
              ELSE IF phase'[c] = "replied" /\ rep'[c].status = "Nop" THEN "throw" ELSE "none"]
        /\ leftover' = leftover \cup {n \in Names :
              registered(n) /\ registered_qps[n].msg /\ registered_qps'[n] = NoQP}
    BY DEF Handle
  <1>3. ASSUME registered_qps' = registered_qps PROVE UNCHANGED <<abandoned, leftover>>
    <2>1. abandoned' = abandoned
      BY <1>1, <1>2, <1>3
    <2>2. leftover' = leftover
      BY <1>2, <1>3 DEF registered
    <2> QED BY <2>1, <2>2
  <1>4. ASSUME NEW name \in Names, ~registered(name), NEW qp \in QP, qp # NoQP,
               registered_qps' = [registered_qps EXCEPT ![name] = qp]
        PROVE  /\ UNCHANGED leftover
               /\ abandoned' = [abandoned EXCEPT ![name] =
                      IF phase'[c] = "replied" /\ rep'[c].status = "Nop"
                      THEN "throw" ELSE "none"]
    <2>1. \A n \in Names : registered_qps'[n] = IF n = name THEN qp ELSE registered_qps[n]
      BY <1>1, <1>4
    <2>2. abandoned' = [abandoned EXCEPT ![name] =
              IF phase'[c] = "replied" /\ rep'[c].status = "Nop" THEN "throw" ELSE "none"]
      BY <1>1, <1>2, <1>4, <2>1 DEF registered
    <2>3. leftover' = leftover
      BY <1>2, <1>4, <2>1 DEF registered
    <2> QED BY <2>2, <2>3
  <1>5. ASSUME NEW name \in Names, registered(name),
               registered_qps' = [registered_qps EXCEPT ![name] = NoQP]
        PROVE  /\ leftover' = leftover \cup (IF registered_qps[name].msg
                                             THEN {name} ELSE {})
               /\ abandoned' = [abandoned EXCEPT ![name] =
                      IF phase'[c] = "replied" /\ rep'[c].status = "Nop"
                      THEN "throw" ELSE "none"]
    <2>1. \A n \in Names : registered_qps'[n] = IF n = name THEN NoQP ELSE registered_qps[n]
      BY <1>1, <1>5
    <2>2. abandoned' = [abandoned EXCEPT ![name] =
              IF phase'[c] = "replied" /\ rep'[c].status = "Nop" THEN "throw" ELSE "none"]
      BY <1>1, <1>2, <1>5, <2>1 DEF registered
    <2>3. leftover' = leftover \cup (IF registered_qps[name].msg THEN {name} ELSE {})
      BY <1>2, <1>5, <2>1 DEF registered
    <2> QED BY <2>2, <2>3
  <1> QED BY <1>3, <1>4, <1>5

(* What a handler does is one of five things: answer, create, throw,      *)
(* abort or delete.                                                       *)
LEMMA HandleCases ==
    ASSUME BaseInv, NEW c \in Clients, Handle(c)
    PROVE  /\ HandlerFrame(c)
           /\ \/ HandlerAnswers(c) \/ HandlerCreates(c) \/ HandlerThrows(c)
              \/ HandlerAborts(c) \/ HandlerDeletes(c)
  <1> DEFINE m == req[c]
  <1>1. /\ phase[c] = "sent" /\ server = "up" /\ store' = store
        /\ \/ rc_handler(c, m) \/ msg_rc_handler(c, m) \/ query_handler(c, m)
           \/ fetch_qp_attr(c, m) \/ delete_rc(c, m)
           \/ fetch_mr_handler(c, m) \/ fetch_dc_handler(c, m)
    BY DEF Handle
  <1>2. /\ m.op \in Procedures /\ m.name \in Names /\ phase[c] # "idle"
        /\ registered_qps[m.name] \in QP \cup {NoQP}
        /\ phase \in [Clients -> {"idle", "sent", "replied", "lost"}]
        /\ rep \in [Clients -> Rep \cup {<<>>}]
    BY <1>1, RecordTypes DEF BaseInv, TypeOK, Stores
  <1>3. \A ch, qps : DestroyQP(ch, qps) => cqAlive' \subseteq cqAlive
    BY DEF DestroyQP
  <1>4. \A status, qp, key : Reply(c, status, qp, key) =>
            phase'[c] = "replied" /\ rep'[c].status = status
    BY <1>2 DEF Reply
  <1>5. ASSUME NEW status \in {"Ok", "NotFound", "WrongArg", "Nop"}, NEW qp \in Nat,
               Reply(c, status, qp, 0),
               UNCHANGED <<registered_qps, reg_recv_entries, server>>,
               created' = created \/ (created' = created + 1 /\ m.op \in Create),
               cqAlive' \subseteq cqAlive,
               status = "Ok" => m.op \notin Create \cup {"DeleteRC"},
               m.op = "DeleteRC" => ~dereg_allowed(m.name, m.key)
        PROVE  HandlerFrame(c) /\ HandlerAnswers(c)
    BY <1>1, <1>5, HandleHistories DEF HandlerFrame, HandlerAnswers
  <1>6. ASSUME m.op \in Create, ~registered(m.name), created' = created + 1,
               registered_qps' = reg(m.name, NewQP(c, m))
        PROVE  HandlerRegisters(c, IF phase'[c] = "replied" /\ rep'[c].status = "Nop"
                                   THEN "throw" ELSE "none")
    BY <1>2, <1>6, HandleHistories, NewQPType DEF HandlerRegisters, reg
  <1>7. ASSUME m.op \in Create, CreateFails(c, m)
        PROVE  HandlerFrame(c) /\ HandlerAnswers(c)
    <2>1. \E status \in {"WrongArg", "Nop"} :
            /\ Reply(c, status, 0, 0)
            /\ UNCHANGED <<registered_qps, reg_recv_entries, server>>
            /\ created' = created \/ created' = created + 1
            /\ cqAlive' \subseteq cqAlive
      BY <1>3, <1>7 DEF CreateFails, ConnectFails, serverVars
    <2>2. m.op # "DeleteRC"
      BY <1>7 DEF Create
    <2> QED BY <1>5, <1>7, <2>1, <2>2
  <1>8. ASSUME m.op \in Create, CreateSucceeds(c, m),
               reg_recv_entries' = IF m.op = "CreateRCM"
                                   THEN reg_recv_entries \cup {m.name} ELSE reg_recv_entries
        PROVE  HandlerFrame(c) /\ HandlerCreates(c)
    <2>1. /\ ~registered(m.name) /\ created' = created + 1
          /\ registered_qps' = reg(m.name, NewQP(c, m))
          /\ Reply(c, "Ok", created + 1, created + 1) /\ UNCHANGED <<cqAlive, server>>
      BY <1>2, <1>8, NewQPType DEF CreateSucceeds
    <2>2. HandlerRegisters(c, "none")
      BY <1>4, <1>6, <1>8, <2>1
    <2> QED BY <1>1, <1>8, <2>1, <2>2 DEF HandlerFrame, HandlerCreates
  <1>9. CASE rc_handler(c, m)
    <2>1. m.op = "CreateRC" /\ m.op \in Create
      BY <1>9 DEF rc_handler, Create
    <2> QED BY <1>7, <1>8, <1>9, <2>1 DEF rc_handler
  <1>10. CASE msg_rc_handler(c, m)
    <2>1. m.op = "CreateRCM" /\ m.op \in Create
      BY <1>10 DEF msg_rc_handler, Create
    <2>2. CASE CreateSucceeds(c, m) /\ RegEntries(m.name)
      BY <1>8, <2>1, <2>2 DEF RegEntries
    <2>3. CASE /\ ~registered(m.name) /\ created' = created + 1
               /\ registered_qps' = reg(m.name, NewQP(c, m))
               /\ Reply(c, "Nop", 0, 0)
               /\ UNCHANGED <<reg_recv_entries, cqAlive, server>>
      <3>1. HandlerRegisters(c, "throw")
        BY <1>4, <1>6, <2>1, <2>3
      <3> QED BY <1>1, <2>3, <3>1 DEF HandlerFrame, HandlerThrows
    <2>4. CASE /\ ~registered(m.name)
               /\ m.name \in reg_recv_entries \/ m.short
               /\ server' = "aborted" /\ created' = created + 1
               /\ registered_qps' = reg(m.name, NewQP(c, m))
               /\ reg_recv_entries' = reg_recv_entries \cup {m.name}
               /\ UNCHANGED <<cqAlive, callVars, clientVars>>
      <3>1. UNCHANGED <<phase, req, rep, peer, known, owned, deleted>>
        BY <2>4 DEF callVars, clientVars
      <3>2. HandlerRegisters(c, "none")
        BY <1>1, <1>6, <2>1, <2>4, <3>1
      <3> QED BY <1>1, <2>1, <2>4, <3>1, <3>2 DEF HandlerFrame, HandlerAborts
    <2>5. CASE /\ ~registered(m.name) /\ m.name \in reg_recv_entries
               /\ server' = "aborted" /\ created' = created + 1
               /\ registered_qps' = reg(m.name, NewQP(c, m))
               /\ UNCHANGED <<reg_recv_entries, cqAlive, callVars, clientVars>>
      <3>1. reg_recv_entries' = reg_recv_entries \cup {m.name}
        BY <2>5
      <3> QED BY <2>4, <2>5, <3>1
    <2>6. CASE /\ ~registered(m.name) /\ m.short
               /\ server' = "aborted" /\ created' = created + 1
               /\ registered_qps' = reg(m.name, NewQP(c, m))
               /\ RegEntries(m.name)
               /\ UNCHANGED <<cqAlive, callVars, clientVars>>
      BY <2>4, <2>6 DEF RegEntries
    <2> QED BY <1>7, <1>10, <2>1, <2>2, <2>3, <2>5, <2>6 DEF msg_rc_handler
  <1>11. CASE query_handler(c, m)
    BY <1>5, <1>11 DEF query_handler, serverVars
  <1>12. CASE fetch_qp_attr(c, m)
    <2>1. /\ m.op = "FetchQPAttr" /\ m.op \notin Create
          /\ UNCHANGED <<registered_qps, reg_recv_entries, server, created, cqAlive>>
      BY <1>12 DEF fetch_qp_attr, serverVars, Create
    <2>2. registered(m.name) => registered_qps[m.name].id \in Nat
      BY <1>2, RecordTypes DEF registered
    <2> QED BY <1>5, <1>12, <2>1, <2>2 DEF fetch_qp_attr
  <1>13. CASE fetch_mr_handler(c, m) \/ fetch_dc_handler(c, m)
    <2>1. /\ UNCHANGED <<registered_qps, reg_recv_entries, server, created, cqAlive>>
          /\ m.op \notin Create \cup {"DeleteRC"}
      BY <1>13 DEF fetch_mr_handler, fetch_dc_handler, FetchAttr, serverVars, Create
    <2>2. Reply(c, "NotFound", 0, 0) \/ Reply(c, "Ok", 1, 0)
      BY <1>13 DEF fetch_mr_handler, fetch_dc_handler, FetchAttr
    <2> QED BY <1>5, <2>1, <2>2
  <1>14. CASE delete_rc(c, m)
    <2>1. m.op = "DeleteRC" /\ m.op \notin Create
      BY <1>14 DEF delete_rc, Create
    <2>2. CASE ~dereg_allowed(m.name, m.key) /\ Reply(c, "WrongArg", 0, 0) /\ UNCHANGED serverVars
      BY <1>5, <2>1, <2>2 DEF serverVars
    <2>3. CASE /\ dereg_allowed(m.name, m.key) /\ registered_qps' = erase(m.name)
               /\ cqAlive' \subseteq cqAlive /\ Reply(c, "Ok", 0, 0)
               /\ UNCHANGED <<reg_recv_entries, server, created>>
      <3>1. registered(m.name) /\ registered_qps' = [registered_qps EXCEPT ![m.name] = NoQP]
        BY <2>3 DEF dereg_allowed, erase
      <3>2. ~(phase'[c] = "replied" /\ rep'[c].status = "Nop")
        BY <1>4, <2>3
      <3>3. /\ leftover' = leftover \cup (IF registered_qps[m.name].msg THEN {m.name} ELSE {})
            /\ abandoned' = [abandoned EXCEPT ![m.name] = "none"]
        BY <1>2, <3>1, <3>2, HandleHistories
      <3> QED BY <1>1, <2>1, <2>3, <3>1, <3>3 DEF HandlerFrame, HandlerDeletes
    <2> QED BY <1>3, <1>14, <2>2, <2>3 DEF delete_rc
  <1> QED BY <1>1, <1>9, <1>10, <1>11, <1>12, <1>13, <1>14

(* The five kinds of handler keep types, phases and the bound on          *)
(* creations.                                                             *)
LEMMA HandleBase ==
    ASSUME BaseInv, NEW c \in Clients, Handle(c)
    PROVE  BaseInv'
  <1>1. HandlerFrame(c)
    BY HandleCases
  <1>2. /\ req[c].op \in Procedures /\ req[c].name \in Names /\ phase[c] = "sent"
        /\ server = "up" /\ store' = store /\ cqAlive' \subseteq cqAlive
        /\ NewQP(c, req[c]) \in QP
    BY <1>1, RecordTypes, NewQPType DEF HandlerFrame, BaseInv, TypeOK
  <1>3. ASSUME NEW status \in {"Ok", "NotFound", "WrongArg", "Nop"}, NEW qp \in Nat,
               NEW key \in Nat, Reply(c, status, qp, key)
        PROVE  /\ Stores' /\ Creating' \subseteq Creating \ {c}
               /\ phase' \in [Clients -> {"idle", "sent", "replied", "lost"}]
               /\ \A d \in Clients : phase'[d] # "idle" => req'[d] \in Req
               /\ \A d \in Clients : phase'[d] = "replied" => rep'[d] \in Rep
               /\ UNCHANGED <<peer, known, owned, deleted>>
    <2>1. [status |-> status, qp |-> qp, key |-> key] \in Rep
      BY DEF Rep
    <2>2. /\ phase' = [phase EXCEPT ![c] = "replied"] /\ req' = req
          /\ rep' = [rep EXCEPT ![c] = [status |-> status, qp |-> qp, key |-> key]]
          /\ UNCHANGED <<peer, known, owned, deleted>>
      BY <1>3 DEF Reply, clientVars
    <2>3. Stores'
      BY <2>1, <2>2 DEF BaseInv, Stores
    <2>4. Creating' \subseteq Creating \ {c}
      BY <2>2 DEF Creating, BaseInv, TypeOK
    <2> QED BY <1>2, <2>1, <2>2, <2>3, <2>4 DEF BaseInv, TypeOK, Stores
  \* the bound: c was creating, if a QP was created
  <1>4. c \in Creating => /\ created + Cardinality(Creating) <= MaxCreates
                          /\ Cardinality(Creating) \in Nat /\ Cardinality(Creating) > 0
                          /\ Cardinality(Creating \ {c}) = Cardinality(Creating) - 1
    BY <1>2, CreatingFinite, FS_RemoveElement, FS_EmptySet DEF BaseInv, CreatesBound
  <1>5. req[c].op \in Create => c \in Creating
    BY <1>2 DEF Creating, Create
  <1>6. created \in Nat /\ created <= MaxCreates
    BY BoundAssumption DEF BaseInv, TypeOK
  <1>7. ASSUME Creating' \subseteq Creating \ {c}, server' = server,
               created' = created \/ (created' = created + 1 /\ c \in Creating)
        PROVE  CreatesBound' /\ created' \in 0 .. MaxCreates
    <2>1. CASE created' = created
      BY <1>6, <1>7, <2>1, FewerCreating, BoundAssumption
    <2>2. CASE created' = created + 1 /\ c \in Creating
      <3>1. IsFiniteSet(Creating \ {c})
        BY CreatingFinite, FS_Subset
      <3>2. /\ Cardinality(Creating') \in Nat
            /\ Cardinality(Creating') <= Cardinality(Creating) - 1
        BY <1>4, <1>7, <2>2, <3>1, FS_Subset, FS_CardinalityType
      <3> QED BY <1>4, <1>6, <2>2, <3>2, BoundAssumption DEF CreatesBound
    <2> QED BY <1>7, <2>1, <2>2
  <1>8. ASSUME NEW cause \in {"none", "throw"}, HandlerRegisters(c, cause)
        PROVE  /\ registered_qps' \in [Names -> QP \cup {NoQP}]
               /\ abandoned' \in [Names -> Causes \cup {"none"}]
               /\ leftover' \subseteq Names
               /\ created' = created + 1 /\ c \in Creating
    BY <1>2, <1>5, <1>8 DEF HandlerRegisters, BaseInv, TypeOK, Causes
  <1>9. CASE HandlerAnswers(c)
    <2>1. PICK status \in {"Ok", "NotFound", "WrongArg", "Nop"}, qp \in Nat :
            Reply(c, status, qp, 0)
      BY <1>9 DEF HandlerAnswers
    <2>2. /\ UNCHANGED <<registered_qps, reg_recv_entries, server, abandoned, leftover>>
          /\ created' = created \/ (created' = created + 1 /\ c \in Creating)
      BY <1>5, <1>9 DEF HandlerAnswers
    <2>3. Stores' /\ CreatesBound' /\ created' \in 0 .. MaxCreates
      BY <1>3, <1>7, <2>1, <2>2
    <2>4. TypeOK'
      BY <1>2, <1>3, <2>1, <2>2, <2>3 DEF BaseInv, TypeOK
    <2> QED BY <2>3, <2>4 DEF BaseInv
  <1>10. CASE HandlerCreates(c)
    <2>1. /\ Reply(c, "Ok", created + 1, created + 1) /\ HandlerRegisters(c, "none")
          /\ UNCHANGED server /\ reg_recv_entries' \subseteq Names
      BY <1>2, <1>10 DEF HandlerCreates, BaseInv, TypeOK
    <2>2. created + 1 \in Nat
      BY <1>6
    <2>3. Stores' /\ CreatesBound' /\ created' \in 0 .. MaxCreates
      BY <1>3, <1>7, <1>8, <2>1, <2>2
    <2>4. TypeOK'
      BY <1>2, <1>3, <1>8, <2>1, <2>2, <2>3 DEF BaseInv, TypeOK
    <2> QED BY <2>3, <2>4 DEF BaseInv
  <1>11. CASE HandlerThrows(c)
    <2>1. /\ Reply(c, "Nop", 0, 0) /\ HandlerRegisters(c, "throw")
          /\ UNCHANGED <<server, reg_recv_entries>>
      BY <1>11 DEF HandlerThrows
    <2>2. Stores' /\ CreatesBound' /\ created' \in 0 .. MaxCreates
      BY <1>3, <1>7, <1>8, <2>1
    <2>3. TypeOK'
      BY <1>2, <1>3, <1>8, <2>1, <2>2 DEF BaseInv, TypeOK
    <2> QED BY <2>2, <2>3 DEF BaseInv
  <1>12. CASE HandlerAborts(c)
    <2>1. /\ HandlerRegisters(c, "none") /\ server' = "aborted"
          /\ reg_recv_entries' = reg_recv_entries \cup {req[c].name}
          /\ UNCHANGED <<phase, req, rep, peer, known, owned, deleted>>
      BY <1>12 DEF HandlerAborts
    <2>2. CreatesBound' /\ created' \in 0 .. MaxCreates
      BY <1>4, <1>6, <1>8, <2>1, BoundAssumption DEF CreatesBound
    <2>3. TypeOK' /\ Stores'
      BY <1>2, <1>8, <2>1, <2>2 DEF BaseInv, TypeOK, Stores
    <2> QED BY <2>2, <2>3 DEF BaseInv
  <1>13. CASE HandlerDeletes(c)
    <2>1. /\ Reply(c, "Ok", 0, 0) /\ UNCHANGED <<server, created, reg_recv_entries>>
          /\ registered_qps' = [registered_qps EXCEPT ![req[c].name] = NoQP]
          /\ abandoned' = [abandoned EXCEPT ![req[c].name] = "none"]
          /\ leftover' \subseteq leftover \cup {req[c].name}
      BY <1>13 DEF HandlerDeletes
    <2>2. Stores' /\ CreatesBound' /\ created' \in 0 .. MaxCreates
      BY <1>3, <1>7, <2>1
    <2>3. TypeOK'
      BY <1>2, <1>3, <2>1, <2>2 DEF BaseInv, TypeOK
    <2> QED BY <2>2, <2>3 DEF BaseInv
  <1> QED BY <1>9, <1>10, <1>11, <1>12, <1>13, HandleCases

(* The steps that leave the server alone.                                  *)
LEMMA ClientBase ==
    ASSUME BaseInv, NEW c \in Clients, UNCHANGED <<serverVars, leftover>>,
           NEW p \in {"idle", "lost"}, phase' = [phase EXCEPT ![c] = p],
           req' = [req EXCEPT ![c] = <<>>] \/ req' = req,
           p # "idle" => phase[c] # "idle" /\ req' = req,
           rep' = [rep EXCEPT ![c] = <<>>],
           peer' \in [Clients -> [1 .. Rcs -> Nat]],
           known' \subseteq Owned, owned' \subseteq known', deleted' \subseteq Nat,
           abandoned' \in [Names -> Causes \cup {"none"}]
    PROVE  BaseInv'
  <1>1. UNCHANGED <<registered_qps, reg_recv_entries, cqAlive, server, created, store>>
    BY DEF serverVars
  <1>2. Stores'
    BY DEF BaseInv, Stores
  <1>3. Creating' \subseteq Creating
    BY DEF Creating, BaseInv, TypeOK, Stores
  <1>4. CreatesBound'
    BY <1>1, <1>3, FewerCreating
  <1>5. TypeOK'
    BY <1>1 DEF BaseInv, TypeOK, Stores
  <1> QED BY <1>2, <1>4, <1>5 DEF BaseInv

(* Giving up keys records a cause for names, and leaves nothing over by   *)
(* itself.                                                                *)
LEMMA AbandonType ==
    ASSUME BaseInv, NEW keys, NEW cause \in Causes, Abandon(keys, cause)
    PROVE  abandoned' \in [Names -> Causes \cup {"none"}] /\ leftover' = leftover
  BY DEF BaseInv, TypeOK, Abandon

(* Every action keeps types, phases and the bound on creations.           *)
LEMMA NextBase == BaseInv /\ [Next]_vars => BaseInv'
  <1> SUFFICES ASSUME BaseInv, [Next]_vars PROVE BaseInv'
    OBVIOUS
  <1> /\ peer \in [Clients -> [1 .. Rcs -> Nat]] /\ deleted \subseteq Nat
      /\ known \subseteq Owned /\ owned \subseteq known
      /\ abandoned \in [Names -> Causes \cup {"none"}]
    BY DEF BaseInv, TypeOK
  <1>1. ASSUME NEW c \in Clients, Calls(c) PROVE BaseInv'
    <2>1. PICK m \in Req :
            /\ Send(c, m) /\ UNCHANGED <<peer, known, deleted>>
            /\ m.op \in Create => created + Cardinality(Creating) < MaxCreates
            /\ owned' \subseteq owned
      BY <1>1, CallsAreSends
    <2> QED BY <2>1, SendBase
  <1>2. ASSUME NEW c \in Clients, Lose(c) PROVE BaseInv'
    <2>1. /\ UNCHANGED <<serverVars, req, peer, known, owned, deleted>>
          /\ phase[c] # "idle" /\ phase' = [phase EXCEPT ![c] = "lost"]
          /\ rep' = [rep EXCEPT ![c] = <<>>]
          /\ \E keys : Abandon(keys, "lost reply")
      BY <1>2 DEF Lose, clientVars
    <2>2. abandoned' \in [Names -> Causes \cup {"none"}] /\ leftover' = leftover
      BY <2>1, AbandonType DEF Causes
    <2> QED BY <2>1, <2>2, ClientBase
  <1>3. ASSUME NEW c \in Clients, Crash(c) PROVE BaseInv'
    <2>1. /\ UNCHANGED <<serverVars, deleted>> /\ phase' = [phase EXCEPT ![c] = "idle"]
          /\ req' = [req EXCEPT ![c] = <<>>] /\ rep' = [rep EXCEPT ![c] = <<>>]
          /\ peer' = [peer EXCEPT ![c] = [k \in 1 .. Rcs |-> 0]]
          /\ known' = {o \in known : o.client # c} /\ owned' = {o \in owned : o.client # c}
          /\ \E keys : Abandon(keys, "crash")
      BY <1>3 DEF Crash
    <2>2. abandoned' \in [Names -> Causes \cup {"none"}] /\ leftover' = leftover
      BY <2>1, AbandonType DEF Causes
    <2>3. peer' \in [Clients -> [1 .. Rcs -> Nat]]
      BY <2>1
    <2> QED BY <2>1, <2>2, <2>3, ClientBase
  <1>4. ASSUME NEW c \in Clients, ReturnCreate(c) PROVE BaseInv'
    <2> DEFINE k == req[c].rc
               o == [client |-> c, rc |-> k, name |-> req[c].name,
                     qp |-> rep[c].qp, key |-> rep[c].key, fresh |-> peer[c][k] = 0]
    <2>1. phase[c] = "replied" /\ Idle(c) /\ deleted' = deleted
      BY <1>4 DEF ReturnCreate
    <2>2. k \in 1 .. Rcs /\ req[c].name \in Names /\ rep[c].qp \in Nat /\ rep[c].key \in Nat
      BY <2>1, RecordTypes DEF BaseInv, TypeOK
    <2>3. o \in Owned
      BY <2>2 DEF Owned
    <2>4. \/ owned' = owned \cup {o} /\ known' = known \cup {o}
          \/ UNCHANGED <<known, owned>>
      BY <1>4 DEF ReturnCreate
    <2>5. \/ peer' = [peer EXCEPT ![c][k] = rep[c].qp] \/ peer' = peer
      BY <1>4 DEF ReturnCreate
    <2>6. peer' \in [Clients -> [1 .. Rcs -> Nat]]
      <3>1. CASE peer' = peer
        BY <3>1
      <3>2. CASE peer' = [peer EXCEPT ![c][k] = rep[c].qp]
        <4>1. [peer[c] EXCEPT ![k] = rep[c].qp] \in [1 .. Rcs -> Nat]
          BY <2>2
        <4> QED BY <3>2, <4>1
      <3> QED BY <2>5, <3>1, <3>2
    <2>7. UNCHANGED histVars \/ \E keys : Abandon(keys, "local connect")
      BY <1>4 DEF ReturnCreate
    <2>8. abandoned' \in [Names -> Causes \cup {"none"}] /\ leftover' = leftover
      BY <2>7, AbandonType DEF Causes, histVars
    <2>9. known' \subseteq Owned /\ owned' \subseteq known'
      BY <2>3, <2>4
    <2> QED BY <2>1, <2>6, <2>8, <2>9, ClientBase DEF Idle
  <1>5. \A key \in Nat : ReportDeleted(key) => deleted' \subseteq Nat
    BY DEF ReportDeleted
  <1>6. ASSUME NEW c \in Clients, phase[c] # "idle" PROVE req[c].key \in Nat
    BY <1>6, RecordTypes DEF BaseInv, TypeOK
  <1>7. ASSUME NEW c \in Clients, ReturnDelete(c) PROVE BaseInv'
    <2>1. /\ phase[c] = "replied" /\ Idle(c) /\ UNCHANGED <<peer, known, owned, histVars>>
          /\ ReportDeleted(req[c].key) \/ UNCHANGED deleted
      BY <1>7 DEF ReturnDelete
    <2>2. deleted' \subseteq Nat
      BY <1>5, <1>6, <2>1
    <2> QED BY <2>1, <2>2, ClientBase DEF Idle, histVars
  <1>8. ASSUME NEW c \in Clients, ReturnQuery(c) PROVE BaseInv'
    <2>1. Idle(c) /\ UNCHANGED <<clientVars, histVars>>
      BY <1>8 DEF ReturnQuery
    <2> QED BY <2>1, ClientBase DEF Idle, histVars, clientVars
  <1>9. ASSUME NEW c \in Clients, Timeout(c) PROVE BaseInv'
    <2>1. /\ phase[c] # "idle" /\ Idle(c) /\ UNCHANGED <<peer, known, owned>>
          /\ ReportDeleted(req[c].key) \/ UNCHANGED deleted
          /\ Abandon({req[c].key}, "lost delete")
      BY <1>9 DEF Timeout, NoAnswer
    <2>2. deleted' \subseteq Nat
      BY <1>5, <1>6, <2>1
    <2>3. abandoned' \in [Names -> Causes \cup {"none"}] /\ leftover' = leftover
      BY <2>1, AbandonType DEF Causes
    <2> QED BY <2>1, <2>2, <2>3, ClientBase DEF Idle
  <1>10. ASSUME NEW s \in Attrs, reg_attr(s) \/ dereg_attr(s) PROVE BaseInv'
    <2>1. /\ store' = [store EXCEPT ![s] = "registered"] \/ store' = [store EXCEPT ![s] = "removed"]
          /\ UNCHANGED <<registered_qps, reg_recv_entries, cqAlive, server, created,
                         phase, req, rep, peer, known, owned, deleted, abandoned, leftover>>
      BY <1>10 DEF reg_attr, dereg_attr, callVars, clientVars, histVars
    <2> QED BY <2>1 DEF BaseInv, TypeOK, Stores, CreatesBound, Creating
  <1>11. CASE UNCHANGED vars
    BY <1>11 DEF vars, serverVars, callVars, clientVars, histVars,
                 BaseInv, TypeOK, Stores, CreatesBound, Creating
  <1> QED
    BY <1>1, <1>2, <1>3, <1>4, <1>7, <1>8, <1>9, <1>10, <1>11, HandleBase
       DEF Next, Returns

-----------------------------------------------------------------------------
(* No key is 0, which stands for none.                                     *)
LEMMA NotZero == \A k : \A m \in Nat : k \in 1 .. m => k # 0
  OBVIOUS

(* A new key is no older one.                                              *)
LEMMA NewKey ==
    \A m \in Nat : /\ m + 1 \notin 1 .. m /\ m + 1 \in 1 .. (m + 1)
                   /\ \A k \in 1 .. m : k # m + 1 /\ k \in 1 .. (m + 1)
  OBVIOUS

(* Whose key is whose: a reply's key is nobody else's, and the key of a    *)
(* request is one its client knows.                                        *)
LEMMA KeyFacts ==
    ASSUME BaseInv, QPInv
    PROVE  /\ \A c, d \in Clients : c # d /\ phase[c] = "replied" /\ Given(d) =>
                  rep[c].key # rep[d].key
           /\ \A c \in Clients, o \in known : phase[c] = "replied" => rep[c].key # o.key
           /\ \A c \in Clients : phase[c] # "idle" =>
                  \/ req[c].key = 0
                  \/ \E o \in known : /\ o \notin owned /\ o.client = c
                                      /\ o.key = req[c].key /\ o.name = req[c].name
           /\ \A o \in known : o.key \in 1 .. created
           /\ \A d \in Clients : Given(d) => rep[d].key \in 1 .. created
           /\ created \in Nat
  <1> KeysOK /\ RepliesOK /\ KnownOK /\ RequestsOK
    BY DEF QPInv
  <1>1. created \in Nat
    BY BoundAssumption DEF BaseInv, TypeOK
  <1>2. \A d \in Clients : Given(d) => req[d].name \in Names /\ req[d] \in Req
    BY RecordTypes DEF Given, BaseInv, TypeOK
  <1>3. \A d \in Clients : Given(d) => rep[d].key \in 1 .. created
    BY <1>2 DEF RepliesOK, KeysOK
  <1>4. \A c, d \in Clients : c # d /\ Given(c) /\ Given(d) => rep[c].key # rep[d].key
    BY <1>2 DEF RepliesOK, KeysOK
  <1>5. \A c, d \in Clients : c # d /\ phase[c] = "replied" /\ Given(d) =>
            rep[c].key # rep[d].key
    BY <1>1, <1>3, <1>4 DEF RepliesOK
  <1>6. \A c \in Clients, o \in known : phase[c] = "replied" => rep[c].key # o.key
    <2> SUFFICES ASSUME NEW c \in Clients, NEW o \in known, phase[c] = "replied"
                 PROVE  rep[c].key # o.key
      OBVIOUS
    <2>1. CASE Given(c)
      BY <2>1 DEF RepliesOK
    <2>2. CASE ~Given(c)
      <3>1. rep[c].key = 0
        BY <2>2 DEF RepliesOK
      <3>2. o.key \in 1 .. created
        BY DEF KnownOK
      <3> QED BY <1>1, <3>1, <3>2
    <2> QED BY <2>1, <2>2
  <1> QED BY <1>1, <1>3, <1>5, <1>6 DEF KnownOK, RequestsOK

(* A step of client c that leaves the server alone and abandons the QPs    *)
(* with these keys.                                                        *)
Abandons(keys, cause) ==
    \A n \in Names :
        abandoned'[n] = IF registered(n) /\ registered_qps[n].key \in keys /\ abandoned[n] = "none"
                        THEN cause ELSE abandoned[n]

(* A client that gives up, loses its reply or crashes leaves the server   *)
(* alone: what it abandons is what it held, so both invariants stay.      *)
LEMMA ClientInv ==
    ASSUME BaseInv, QPInv, StoreInv, NEW c \in Clients, NEW keys, NEW cause \in Causes,
           UNCHANGED <<serverVars, leftover>>, Abandons(keys, cause),
           phase'[c] \in {"idle", "lost"},
           phase'[c] = "lost" => phase[c] # "idle" /\ UNCHANGED <<req, known, owned>>,
           \A d \in Clients \ {c} : phase'[d] = phase[d] /\ req'[d] = req[d] /\ rep'[d] = rep[d],
           known' \subseteq known, owned' \subseteq owned,
           \A o \in known : o.client # c => o \in known',
           \A o \in owned' : peer'[o.client][o.rc] = peer[o.client][o.rc],
           deleted' \subseteq 1 .. created,
           \A n \in Names : registered(n) /\ registered_qps[n].key \in deleted' =>
               registered_qps[n].key \in deleted \/ abandoned'[n] = "lost delete",
           \A d \in Clients \ {c} : Given(d) => rep[d].key \notin keys,
           \A o \in known' : o.key \in keys => cause = "lost delete",
           \A key : KeyIsSomewhere(key) => KeyIsSomewhere(key)' \/ key \in keys
    PROVE  QPInv' /\ StoreInv'
  <1> /\ KeysOK /\ RepliesOK /\ KnownOK /\ RequestsOK /\ DeletedOK
      /\ OwnedIsPaired /\ NoOrphan /\ DeleteOkMeansGone
      /\ EntriesOK /\ MsgQpHasEntries /\ AbortsExplained
    BY DEF QPInv, StoreInv
  <1>1. /\ UNCHANGED <<registered_qps, reg_recv_entries, server, created, store, leftover>>
        /\ \A n : registered(n)' <=> registered(n)
    BY DEF serverVars, registered
  <1>2. cause # "none" /\ cause \in Causes
    BY DEF Causes
  <1>3. KeysOK' /\ EntriesOK' /\ AbortsExplained'
    BY <1>1 DEF KeysOK, EntriesOK, AbortsExplained
  <1>4. \A n \in Names : abandoned[n] # "none" => abandoned'[n] = abandoned[n]
    BY DEF Abandons
  <1>5. MsgQpHasEntries'
    BY <1>1, <1>4 DEF MsgQpHasEntries
  <1>6. RepliesOK'
    <2> SUFFICES ASSUME NEW d \in Clients, phase'[d] = "replied"
                 PROVE  /\ ~Given(d)' => rep'[d].key = 0
                        /\ Given(d)' =>
                              /\ registered(req[d].name)'
                              /\ registered_qps'[req'[d].name].id = rep'[d].qp
                              /\ registered_qps'[req'[d].name].key = rep'[d].key
                              /\ registered_qps'[req'[d].name].peer = <<d, req'[d].rc>>
                              /\ abandoned'[req'[d].name] = "none"
                              /\ \A o \in known' : o.key # rep'[d].key
      BY DEF RepliesOK, Given
    <2>1. d # c /\ phase[d] = "replied" /\ req'[d] = req[d] /\ rep'[d] = rep[d]
      OBVIOUS
    <2>2. (Given(d)' <=> Given(d)) /\ req[d].name \in Names
      BY <2>1, RecordTypes DEF Given, BaseInv, TypeOK
    <2>3. /\ ~Given(d) => rep[d].key = 0
          /\ Given(d) =>
                /\ registered(req[d].name)
                /\ registered_qps[req[d].name].id = rep[d].qp
                /\ registered_qps[req[d].name].key = rep[d].key
                /\ registered_qps[req[d].name].peer = <<d, req[d].rc>>
                /\ abandoned[req[d].name] = "none"
                /\ \A o \in known : o.key # rep[d].key
      BY <2>1 DEF RepliesOK
    <2>4. Given(d) => abandoned'[req[d].name] = "none"
      BY <2>1, <2>2, <2>3 DEF Abandons
    <2>5. registered(req[d].name)' <=> registered(req[d].name)
      BY <1>1, <2>1 DEF registered
    <2> QED BY <1>1, <2>1, <2>2, <2>3, <2>4, <2>5
  <1>7. KnownOK'
    BY <1>1, <1>4 DEF KnownOK, Abandons
  <1>8. RequestsOK'
    <2> SUFFICES ASSUME NEW d \in Clients, phase'[d] # "idle"
                 PROVE  /\ req'[d].op # "DeleteRC" => req'[d].key = 0
                        /\ req'[d].op = "DeleteRC" =>
                              /\ \E o \in known' : /\ o \notin owned' /\ o.client = d
                                                    /\ o.key = req'[d].key
                                                    /\ o.name = req'[d].name
                              /\ phase'[d] = "replied" /\ rep'[d].status = "Ok" =>
                                    \A n \in Names : registered(n)' =>
                                        registered_qps'[n].key # req'[d].key
      BY DEF RequestsOK
    <2>0. phase[d] # "idle" /\ req'[d] = req[d]
      <3>1. CASE d = c
        <4>1. phase'[c] = "lost"
          BY <3>1
        <4> QED BY <3>1, <4>1
      <3>2. CASE d # c
        BY <3>2
      <3> QED BY <3>1, <3>2
    <2>1. /\ req[d].op # "DeleteRC" => req[d].key = 0
          /\ req[d].op = "DeleteRC" =>
                \E o \in known :
                    o \notin owned /\ o.client = d /\ o.key = req[d].key /\ o.name = req[d].name
      BY <2>0 DEF RequestsOK
    <2>2. req[d].op = "DeleteRC" =>
                \E o \in known' : /\ o \notin owned' /\ o.client = d
                                  /\ o.key = req[d].key /\ o.name = req[d].name
      <3> SUFFICES ASSUME req[d].op = "DeleteRC"
                   PROVE  \E o \in known' : /\ o \notin owned' /\ o.client = d
                                            /\ o.key = req[d].key /\ o.name = req[d].name
        OBVIOUS
      <3>1. PICK o \in known :
              o \notin owned /\ o.client = d /\ o.key = req[d].key /\ o.name = req[d].name
        BY <2>1
      <3>2. o \in known' /\ o \notin owned'
        BY <3>1
      <3> QED BY <3>1, <3>2
    <2>3. /\ req[d].op = "DeleteRC" /\ phase'[d] = "replied" /\ rep'[d].status = "Ok" =>
             \A n \in Names : registered(n) => registered_qps[n].key # req[d].key
      <3> SUFFICES ASSUME req[d].op = "DeleteRC", phase'[d] = "replied", rep'[d].status = "Ok"
                   PROVE  \A n \in Names : registered(n) => registered_qps[n].key # req[d].key
        OBVIOUS
      <3>1. phase[d] = "replied" /\ rep[d].status = "Ok"
        OBVIOUS
      <3> QED BY <2>0, <3>1 DEF RequestsOK
    <2> QED BY <1>1, <2>0, <2>1, <2>2, <2>3
  <1>9. DeletedOK' /\ OwnedIsPaired'
    BY <1>1 DEF DeletedOK, OwnedIsPaired
  <1>10. NoOrphan'
    <2> SUFFICES ASSUME server = "up", NEW n \in Names, registered(n)
                 PROVE  KeyIsSomewhere(registered_qps[n].key)' \/ abandoned'[n] # "none"
      BY <1>1 DEF NoOrphan
    <2>1. KeyIsSomewhere(registered_qps[n].key) \/ abandoned[n] # "none"
      BY DEF NoOrphan
    <2>2. CASE abandoned[n] # "none"
      BY <1>4, <2>2
    <2>3. CASE abandoned[n] = "none"
      <3> PICK key : key = registered_qps[n].key
        OBVIOUS
      <3>1. KeyIsSomewhere(key)' \/ key \in keys
        BY <2>1, <2>3
      <3>2. key \in keys => abandoned'[n] = cause
        BY <2>3 DEF Abandons
      <3>3. KeyIsSomewhere(key)' => KeyIsSomewhere(registered_qps[n].key)'
        BY <1>1
      <3> QED BY <1>2, <3>1, <3>2, <3>3
    <2> QED BY <2>2, <2>3
  <1>11. DeleteOkMeansGone'
    BY <1>1, <1>4 DEF DeleteOkMeansGone
  <1> QED
    BY <1>3, <1>5, <1>6, <1>7, <1>8, <1>9, <1>10, <1>11 DEF QPInv, StoreInv

(* No key abandoned.                                                       *)
LEMMA AbandonsNothing ==
    ASSUME UNCHANGED abandoned
    PROVE  Abandons({}, "crash")
  BY DEF Abandons

(* Abandon, as the actions use it, is the Abandons of the lemmas.         *)
LEMMA AbandonAbandons ==
    ASSUME NEW keys, NEW cause, Abandon(keys, cause)
    PROVE  Abandons(keys, cause)
  BY DEF Abandon, Abandons

(* A lost request or reply: only the key in a reply can be lost with it.  *)
LEMMA LoseInv ==
    ASSUME BaseInv, QPInv, StoreInv, NEW c \in Clients, Lose(c)
    PROVE  QPInv' /\ StoreInv'
  <1> DEFINE keys == IF phase[c] = "replied" THEN {rep[c].key} ELSE {}
  <1>1. /\ UNCHANGED <<serverVars, req, peer, known, owned, deleted>>
        /\ phase[c] \in {"sent", "replied"} /\ phase' = [phase EXCEPT ![c] = "lost"]
        /\ rep' = [rep EXCEPT ![c] = <<>>]
        /\ Abandon(keys, "lost reply") /\ UNCHANGED leftover
    BY DEF Lose, clientVars, Abandon
  <1>2. /\ phase'[c] = "lost" /\ phase[c] # "idle"
        /\ \A d \in Clients \ {c} : phase'[d] = phase[d] /\ req'[d] = req[d] /\ rep'[d] = rep[d]
    BY <1>1 DEF BaseInv, TypeOK, Stores
  <1>3. Abandons(keys, "lost reply") /\ "lost reply" \in Causes
    BY <1>1, AbandonAbandons DEF Causes
  <1>4. /\ \A d \in Clients \ {c} : Given(d) => rep[d].key \notin keys
        /\ \A o \in known' : o.key \notin keys
    BY <1>1, KeyFacts
  <1>5. \A key : KeyIsSomewhere(key) => KeyIsSomewhere(key)' \/ key \in keys
    BY <1>1, <1>2 DEF KeyIsSomewhere
  <1>6. deleted \subseteq 1 .. created
    BY DEF QPInv, DeletedOK
  <1> HIDE DEF keys
  <1> QED BY <1>1, <1>2, <1>3, <1>4, <1>5, <1>6, ClientInv

(* A crash of the client abandons exactly the connections it owns.        *)
LEMMA CrashInv ==
    ASSUME BaseInv, QPInv, StoreInv, NEW c \in Clients, Crash(c)
    PROVE  QPInv' /\ StoreInv'
  <1> DEFINE keys == {o.key : o \in {q \in owned : q.client = c}}
               \cup (IF phase[c] = "replied" THEN {rep[c].key} ELSE {})
               \cup (IF phase[c] = "lost" THEN {req[c].key} ELSE {})
  <1>1. /\ UNCHANGED <<serverVars, deleted>> /\ phase' = [phase EXCEPT ![c] = "idle"]
        /\ phase[c] # "sent"
        /\ req' = [req EXCEPT ![c] = <<>>] /\ rep' = [rep EXCEPT ![c] = <<>>]
        /\ peer' = [peer EXCEPT ![c] = [k \in 1 .. Rcs |-> 0]]
        /\ known' = {o \in known : o.client # c} /\ owned' = {o \in owned : o.client # c}
        /\ Abandon(keys, "crash") /\ UNCHANGED leftover
    BY DEF Crash, Abandon
  <1>2. /\ phase'[c] = "idle"
        /\ \A d \in Clients \ {c} : phase'[d] = phase[d] /\ req'[d] = req[d] /\ rep'[d] = rep[d]
    BY <1>1 DEF BaseInv, TypeOK, Stores
  <1>3. Abandons(keys, "crash") /\ "crash" \in Causes
    BY <1>1, AbandonAbandons DEF Causes
  <1>4. owned \subseteq known /\ \A o \in known : o.client \in Clients
    BY RecordTypes DEF BaseInv, TypeOK
  \* the keys are those of c alone
  <1>5. \A key \in keys : \/ key = 0
                          \/ phase[c] = "replied" /\ key = rep[c].key
                          \/ \E o \in known : o.client = c /\ key = o.key
    BY <1>4, KeyFacts
  <1> HIDE DEF keys
  <1>6. \A d \in Clients \ {c} : Given(d) => rep[d].key \notin keys
    <2> SUFFICES ASSUME NEW d \in Clients \ {c}, Given(d), rep[d].key \in keys PROVE FALSE
      OBVIOUS
    <2>1. phase[d] = "replied" /\ rep[d].key \in 1 .. created /\ created \in Nat
      BY KeyFacts DEF Given
    <2>2. \A o \in known : rep[d].key # o.key
      BY <2>1, KeyFacts
    <2>3. phase[c] = "replied" => rep[c].key # rep[d].key
      BY KeyFacts
    <2> QED BY <1>5, <2>1, <2>2, <2>3
  <1>7. \A o \in known' : o.key \notin keys
    <2> SUFFICES ASSUME NEW o \in known, o.client # c, o.key \in keys PROVE FALSE
      BY <1>1
    <2>1. o.key \in 1 .. created /\ created \in Nat
      BY KeyFacts
    <2>2. phase[c] = "replied" => rep[c].key # o.key
      BY KeyFacts
    <2>3. \A q \in known : q.key = o.key => q = o
      BY DEF QPInv, KnownOK
    <2> QED BY <1>5, <2>1, <2>2, <2>3
  <1>8. \A key : KeyIsSomewhere(key) => KeyIsSomewhere(key)' \/ key \in keys
    <2> SUFFICES ASSUME NEW key, KeyIsSomewhere(key)
                 PROVE  KeyIsSomewhere(key)' \/ key \in keys
      OBVIOUS
    <2>1. CASE \E o \in owned : o.key = key
      BY <1>1, <2>1 DEF KeyIsSomewhere, keys
    <2>2. ASSUME NEW d \in Clients,
                 \/ phase[d] = "replied" /\ rep[d].key = key
                 \/ phase[d] \in {"sent", "lost"} /\ req[d].key = key
          PROVE  KeyIsSomewhere(key)' \/ key \in keys
      <3>1. CASE d = c
        BY <1>1, <2>2, <3>1 DEF keys
      <3>2. CASE d # c
        BY <1>2, <2>2, <3>2 DEF KeyIsSomewhere
      <3> QED BY <3>1, <3>2
    <2> QED BY <2>1, <2>2 DEF KeyIsSomewhere
  <1>9. \A o \in owned' : peer'[o.client][o.rc] = peer[o.client][o.rc]
    BY <1>1, <1>4 DEF BaseInv, TypeOK
  <1>10. deleted \subseteq 1 .. created
    BY DEF QPInv, DeletedOK
  <1> QED BY <1>1, <1>2, <1>3, <1>6, <1>7, <1>8, <1>9, <1>10, ClientInv

(* A call that ends without a new QP: what is abandoned are the keys that  *)
(* were on their way.                                                      *)
LEMMA IdleInv ==
    ASSUME BaseInv, QPInv, StoreInv, NEW c \in Clients, NEW keys, NEW cause \in Causes,
           phase[c] # "idle", Idle(c), UNCHANGED <<peer, known, owned, leftover>>,
           Abandons(keys, cause),
           deleted' \subseteq 1 .. created,
           \A n \in Names : registered(n) /\ registered_qps[n].key \in deleted' =>
               registered_qps[n].key \in deleted \/ abandoned'[n] = "lost delete",
           \/ keys = {} /\ phase[c] = "replied" /\ rep[c].key = 0
           \/ keys = {rep[c].key} /\ phase[c] = "replied"
           \/ keys = {req[c].key} /\ phase[c] \in {"sent", "lost"} /\ cause = "lost delete"
    PROVE  QPInv' /\ StoreInv'
  <1>1. /\ UNCHANGED serverVars /\ phase'[c] = "idle"
        /\ \A d \in Clients \ {c} : phase'[d] = phase[d] /\ req'[d] = req[d] /\ rep'[d] = rep[d]
    BY DEF Idle, BaseInv, TypeOK, Stores
  <1>2. \A d \in Clients \ {c} : Given(d) => rep[d].key \notin keys
    <2> SUFFICES ASSUME NEW d \in Clients \ {c}, Given(d), rep[d].key \in keys PROVE FALSE
      OBVIOUS
    <2>1. phase[d] = "replied" /\ rep[d].key \in 1 .. created /\ created \in Nat
      BY KeyFacts DEF Given
    <2>2. \A o \in known : rep[d].key # o.key
      BY <2>1, KeyFacts, ZenonT(60)
    <2>3. phase[c] = "replied" => rep[c].key # rep[d].key
      BY KeyFacts, ZenonT(60)
    <2>4. req[c].key = 0 \/ \E o \in known : o.key = req[c].key
      BY KeyFacts
    <2>5. rep[d].key # 0
      BY <2>1, NotZero
    <2>6. rep[d].key # req[c].key
      BY <2>2, <2>4, <2>5
    <2> QED BY <2>3, <2>5, <2>6
  <1>3. \A o \in known' : o.key \in keys => cause = "lost delete"
    BY KeyFacts
  <1>4. \A key : KeyIsSomewhere(key) => KeyIsSomewhere(key)' \/ key \in keys \/ key = 0
    <2> SUFFICES ASSUME NEW key, KeyIsSomewhere(key)
                 PROVE  KeyIsSomewhere(key)' \/ key \in keys \/ key = 0
      OBVIOUS
    <2>1. CASE \E o \in owned : o.key = key
      BY <2>1 DEF KeyIsSomewhere
    <2>2. ASSUME NEW d \in Clients,
                 \/ phase[d] = "replied" /\ rep[d].key = key
                 \/ phase[d] \in {"sent", "lost"} /\ req[d].key = key
          PROVE  KeyIsSomewhere(key)' \/ key \in keys \/ key = 0
      <3>1. CASE d = c
        BY <2>2, <3>1
      <3>2. CASE d # c
        BY <1>1, <2>2, <3>2 DEF KeyIsSomewhere
      <3> QED BY <3>1, <3>2
    <2> QED BY <2>1, <2>2 DEF KeyIsSomewhere
  <1>8. created \in Nat
    BY KeyFacts
  <1>9. PICK K : K = keys \cup {0}
    OBVIOUS
  <1>5. Abandons(K, cause)
    <2>1. \A n \in Names : registered(n) => registered_qps[n].key \in 1 .. created
      BY DEF QPInv, KeysOK
    <2>2. \A n \in Names : registered(n) => registered_qps[n].key # 0
      BY <1>8, <2>1, NotZero
    <2> QED BY <1>9, <2>2 DEF Abandons
  <1>6. \A d \in Clients \ {c} : Given(d) => rep[d].key \notin K
    <2>1. \A d \in Clients : Given(d) => rep[d].key \in 1 .. created
      BY KeyFacts
    <2>2. \A d \in Clients : Given(d) => rep[d].key # 0
      BY <1>8, <2>1, NotZero
    <2> QED BY <1>2, <1>9, <2>2
  <1>7. \A o \in known' : o.key \in K => cause = "lost delete"
    <2>1. \A o \in known : o.key \in 1 .. created
      BY KeyFacts
    <2>2. \A o \in known : o.key # 0
      BY <1>8, <2>1, NotZero
    <2> QED BY <1>3, <1>9, <2>2
  <1>10. \A key : KeyIsSomewhere(key) => KeyIsSomewhere(key)' \/ key \in K
    BY <1>4, <1>9
  <1>11. /\ UNCHANGED <<serverVars, leftover>> /\ phase'[c] \in {"idle", "lost"}
         /\ phase'[c] = "lost" => phase[c] # "idle" /\ UNCHANGED <<req, known, owned>>
         /\ known' \subseteq known /\ owned' \subseteq owned
         /\ \A o \in known : o.client # c => o \in known'
         /\ \A o \in owned' : peer'[o.client][o.rc] = peer[o.client][o.rc]
    BY <1>1
  <1> QED BY <1>1, <1>5, <1>6, <1>7, <1>10, <1>11, ClientInv

(* The QP of an accepted reply passes to its client.                       *)
LEMMA OwnInv ==
    ASSUME BaseInv, QPInv, StoreInv, NEW c \in Clients, Given(c), Idle(c),
           UNCHANGED <<deleted, abandoned, leftover>>,
           NEW o \in Owned, o.client = c, o.rc = req[c].rc, o.name = req[c].name,
           o.qp = rep[c].qp, o.key = rep[c].key, o.fresh <=> peer[c][o.rc] = 0,
           owned' = owned \cup {o}, known' = known \cup {o},
           peer' = IF peer[c][o.rc] = 0 THEN [peer EXCEPT ![c][o.rc] = o.qp] ELSE peer
    PROVE  QPInv' /\ StoreInv'
  <1> /\ KeysOK /\ RepliesOK /\ KnownOK /\ RequestsOK /\ DeletedOK
      /\ OwnedIsPaired /\ NoOrphan /\ DeleteOkMeansGone
      /\ EntriesOK /\ MsgQpHasEntries /\ AbortsExplained
    BY DEF QPInv, StoreInv
  <1>1. /\ UNCHANGED <<registered_qps, reg_recv_entries, server, created, store>>
        /\ phase'[c] = "idle"
        /\ \A d \in Clients : d # c =>
              phase'[d] = phase[d] /\ req'[d] = req[d] /\ rep'[d] = rep[d]
    BY DEF Idle, serverVars, BaseInv, TypeOK, Stores
  <1>2. /\ registered(o.name) /\ registered_qps[o.name].id = o.qp
        /\ registered_qps[o.name].key = o.key
        /\ registered_qps[o.name].peer = <<c, o.rc>>
        /\ abandoned[o.name] = "none" /\ o.name \in Names /\ o.rc \in 1 .. Rcs
        /\ \A q \in known : q.key # o.key
    BY RecordTypes DEF RepliesOK
  <1>3. o.key \in 1 .. created /\ o.qp = o.key /\ o \notin known
    BY <1>2 DEF KeysOK
  <1>4. o.qp # 0
    BY <1>3, NotZero, KeyFacts
  <1>5. KeysOK' /\ EntriesOK' /\ AbortsExplained' /\ MsgQpHasEntries' /\ DeletedOK'
    BY <1>1 DEF KeysOK, EntriesOK, AbortsExplained, MsgQpHasEntries, DeletedOK, registered
  <1>6. DeleteOkMeansGone'
    BY <1>1 DEF DeleteOkMeansGone, registered
  <1>7. RepliesOK'
    <2> SUFFICES ASSUME NEW d \in Clients, phase'[d] = "replied"
                 PROVE  /\ ~Given(d)' => rep'[d].key = 0
                        /\ Given(d)' =>
                              /\ registered(req[d].name)'
                              /\ registered_qps'[req'[d].name].id = rep'[d].qp
                              /\ registered_qps'[req'[d].name].key = rep'[d].key
                              /\ registered_qps'[req'[d].name].peer = <<d, req'[d].rc>>
                              /\ abandoned'[req'[d].name] = "none"
                              /\ \A q \in known' : q.key # rep'[d].key
      BY <1>1 DEF RepliesOK, Given
    <2>1. d # c /\ phase[d] = "replied" /\ req'[d] = req[d] /\ rep'[d] = rep[d]
      BY <1>1
    <2>2. Given(d)' <=> Given(d)
      BY <2>1 DEF Given
    <2>3. Given(d) => rep[d].key # o.key
      BY <2>1, KeyFacts DEF Given
    <2>4. /\ ~Given(d) => rep[d].key = 0
          /\ Given(d) =>
                /\ registered(req[d].name)
                /\ registered_qps[req[d].name].id = rep[d].qp
                /\ registered_qps[req[d].name].key = rep[d].key
                /\ registered_qps[req[d].name].peer = <<d, req[d].rc>>
                /\ abandoned[req[d].name] = "none"
                /\ \A q \in known : q.key # rep[d].key
      BY <2>1 DEF RepliesOK
    <2>5. registered(req[d].name)' <=> registered(req[d].name)
      BY <1>1, <2>1 DEF registered
    <2> QED BY <1>1, <2>1, <2>2, <2>3, <2>4, <2>5
  <1>8. KnownOK'
    <2>1. \A n \in Names : registered(n) /\ registered_qps[n].key = o.key => n = o.name
      BY <1>2 DEF KeysOK
    <2>2. \A q \in known' : q \in known \/ q = o
      OBVIOUS
    <2>3. \A q \in known' : q.key \in 1 .. created
      BY <1>3, <2>2 DEF KnownOK
    <2>4. \A q1, q2 \in known' : q1.key = q2.key => q1 = q2
      BY <1>2, <2>2, ZenonT(60) DEF KnownOK
    <2>5. \A q \in known', n \in Names :
              registered(n) /\ registered_qps[n].key = q.key =>
                  n = q.name /\ abandoned[n] \in {"none", "lost delete"}
      BY <1>2, <2>1, <2>2 DEF KnownOK
    <2>6. \A q \in known', n \in Names :
              registered(n)' /\ registered_qps'[n].key = q.key =>
                  n = q.name /\ abandoned'[n] \in {"none", "lost delete"}
      BY <1>1, <2>5, ZenonT(60) DEF registered
    <2>7. \A q \in known' : q.key \in 1 .. created'
      BY <1>1, <2>3
    <2> QED BY <2>4, <2>6, <2>7 DEF KnownOK
  <1>9. RequestsOK'
    <2> SUFFICES ASSUME NEW d \in Clients, phase'[d] # "idle"
                 PROVE  /\ req'[d].op # "DeleteRC" => req'[d].key = 0
                        /\ req'[d].op = "DeleteRC" =>
                              /\ \E q \in known' : /\ q \notin owned' /\ q.client = d
                                                   /\ q.key = req'[d].key
                                                   /\ q.name = req'[d].name
                              /\ phase'[d] = "replied" /\ rep'[d].status = "Ok" =>
                                    \A n \in Names : registered(n)' =>
                                        registered_qps'[n].key # req'[d].key
      BY DEF RequestsOK
    <2>1. phase'[d] = phase[d] /\ req'[d] = req[d] /\ rep'[d] = rep[d]
      BY <1>1
    <2>2. req[d].op = "DeleteRC" =>
             \E q \in known' : /\ q \notin owned' /\ q.client = d
                               /\ q.key = req[d].key /\ q.name = req[d].name
      BY <1>3, <2>1 DEF RequestsOK
    <2> QED BY <1>1, <2>1, <2>2 DEF RequestsOK, registered
  <1>10. OwnedIsPaired'
    <2>1. peer'[c][o.rc] = o.qp \/ ~o.fresh
      BY <1>2 DEF BaseInv, TypeOK
    <2>2. ASSUME NEW q \in owned, q.fresh PROVE peer'[q.client][q.rc] = q.qp
      <3>1. /\ q \in Owned /\ q.client \in Clients /\ q.rc \in 1 .. Rcs
            /\ q.key \in 1 .. created
        BY RecordTypes DEF BaseInv, TypeOK, KnownOK
      <3>2. peer[q.client][q.rc] = q.qp /\ q.qp = q.key
        BY <2>2, <3>1 DEF OwnedIsPaired, KeysOK, Owned
      <3>3. q.qp # 0
        BY <3>1, <3>2, NotZero, KeyFacts
      <3>4. ~(q.client = c /\ q.rc = o.rc /\ peer[c][o.rc] = 0)
        BY <3>2, <3>3
      <3> QED BY <1>2, <3>1, <3>2, <3>4 DEF BaseInv, TypeOK
    <2>3. \A q \in owned : /\ registered(q.name)
                           /\ registered_qps[q.name].id = q.qp
                           /\ registered_qps[q.name].key = q.key
                           /\ registered_qps[q.name].peer = <<q.client, q.rc>>
      BY DEF OwnedIsPaired
    <2> QED BY <1>1, <1>2, <2>1, <2>2, <2>3 DEF OwnedIsPaired, registered
  <1>11. NoOrphan'
    <2>1. ASSUME NEW key, KeyIsSomewhere(key) PROVE KeyIsSomewhere(key)'
      <3>1. CASE key = o.key
        BY <3>1 DEF KeyIsSomewhere
      <3>2. CASE \E q \in owned : q.key = key
        BY <3>2 DEF KeyIsSomewhere
      <3>3. ASSUME NEW d \in Clients, d # c,
                   \/ phase[d] = "replied" /\ rep[d].key = key
                   \/ phase[d] \in {"sent", "lost"} /\ req[d].key = key
            PROVE  KeyIsSomewhere(key)'
        BY <1>1, <3>3 DEF KeyIsSomewhere
      <3>4. phase[c] = "replied"
        BY DEF Given
      <3> QED BY <2>1, <3>1, <3>2, <3>3, <3>4 DEF KeyIsSomewhere
    <2> SUFFICES ASSUME server = "up", NEW n \in Names, registered(n), abandoned[n] = "none"
                 PROVE  KeyIsSomewhere(registered_qps[n].key)'
      BY <1>1 DEF NoOrphan, registered
    <2>2. PICK key : key = registered_qps[n].key
      OBVIOUS
    <2>3. KeyIsSomewhere(key)
      BY <2>2 DEF NoOrphan
    <2>4. KeyIsSomewhere(key)'
      BY <2>1, <2>3
    <2> QED BY <1>1, <2>2, <2>4
  <1> QED
    BY <1>5, <1>6, <1>7, <1>8, <1>9, <1>10, <1>11 DEF QPInv, StoreInv

(* The return of a call: a success makes the key known or owned, a        *)
(* failure abandons what the reply held.                                  *)
LEMMA ReturnsInv ==
    ASSUME BaseInv, QPInv, StoreInv, NEW c \in Clients, Returns(c)
    PROVE  QPInv' /\ StoreInv'
  <1> DeletedOK /\ DeleteOkMeansGone /\ RequestsOK /\ KnownOK /\ KeysOK /\ RepliesOK
    BY DEF QPInv
  <1>1. /\ deleted \subseteq 1 .. created
        /\ deleted' = deleted =>
              /\ deleted' \subseteq 1 .. created
              /\ \A n \in Names : registered(n) /\ registered_qps[n].key \in deleted' =>
                     registered_qps[n].key \in deleted \/ abandoned'[n] = "lost delete"
    BY DEF DeletedOK
  <1>2. "crash" \in Causes /\ "local connect" \in Causes /\ "lost delete" \in Causes
    BY DEF Causes
  <1>3. CASE ReturnCreate(c)
    <2> DEFINE o == [client |-> c, rc |-> req[c].rc, name |-> req[c].name,
                     qp |-> rep[c].qp, key |-> rep[c].key, fresh |-> peer[c][req[c].rc] = 0]
    <2>1. /\ phase[c] = "replied" /\ req[c].op \in Create /\ Idle(c)
          /\ UNCHANGED deleted
      BY <1>3 DEF ReturnCreate, Create
    <2>2. CASE /\ rep[c].status = "Ok" /\ UNCHANGED histVars
               /\ owned' = owned \cup {o} /\ known' = known \cup {o}
               /\ \/ peer[c][req[c].rc] = 0 /\ peer' = [peer EXCEPT ![c][req[c].rc] = rep[c].qp]
                  \/ peer[c][req[c].rc] # 0 /\ peer' = peer
      <3>1. Given(c)
        BY <2>1, <2>2 DEF Given
      <3>2. o \in Owned
        <4>1. /\ req[c].rc \in 1 .. Rcs /\ req[c].name \in Names
              /\ rep[c].qp \in Nat /\ rep[c].key \in Nat
          BY <2>1, RecordTypes DEF BaseInv, TypeOK
        <4> QED BY <4>1 DEF Owned
      <3>3. /\ o.client = c /\ o.rc = req[c].rc /\ o.name = req[c].name
            /\ o.qp = rep[c].qp /\ o.key = rep[c].key /\ (o.fresh <=> peer[c][o.rc] = 0)
        OBVIOUS
      <3> HIDE DEF o
      <3>4. peer' = IF peer[c][o.rc] = 0 THEN [peer EXCEPT ![c][o.rc] = o.qp] ELSE peer
        BY <2>2, <3>3
      <3>5. UNCHANGED <<deleted, abandoned, leftover>>
        BY <2>1, <2>2 DEF histVars
      <3> QED BY <2>1, <2>2, <3>1, <3>2, <3>3, <3>4, <3>5, OwnInv
    <2>3. CASE /\ Abandon({rep[c].key}, "local connect")
               /\ UNCHANGED <<peer, known, owned>>
      <3>1. Abandons({rep[c].key}, "local connect") /\ leftover' = leftover
        BY <2>3, AbandonAbandons DEF Abandon
      <3> QED BY <1>1, <1>2, <2>1, <2>3, <3>1, IdleInv
    <2> QED BY <1>3, <2>2, <2>3 DEF ReturnCreate
  <1>4. CASE ReturnDelete(c)
    <2>1. /\ phase[c] = "replied" /\ req[c].op = "DeleteRC" /\ Idle(c)
          /\ UNCHANGED <<peer, known, owned, abandoned, leftover>>
          /\ IF rep[c].status = "Ok" THEN ReportDeleted(req[c].key) ELSE UNCHANGED deleted
      BY <1>4 DEF ReturnDelete, histVars
    <2>2. rep[c].key = 0
      BY <2>1 DEF RepliesOK, Given, Create
    <2>3. deleted' = deleted
      <3>1. CASE rep[c].status = "Ok"
        <4>1. \A n \in Names : registered(n) => registered_qps[n].key # req[c].key
          BY <2>1, <3>1 DEF RequestsOK
        <4>2. ReportDeleted(req[c].key)
          BY <2>1, <3>1
        <4> QED BY <4>1, <4>2 DEF ReportDeleted
      <3>2. CASE rep[c].status # "Ok"
        BY <2>1, <3>2
      <3> QED BY <3>1, <3>2
    <2>4. Abandons({}, "crash")
      BY <2>1, AbandonsNothing
    <2> QED BY <1>1, <1>2, <2>1, <2>2, <2>3, <2>4, IdleInv
  <1>5. CASE ReturnQuery(c)
    <2>1. /\ phase[c] = "replied" /\ req[c].op \notin Create /\ Idle(c)
          /\ UNCHANGED <<peer, known, owned, deleted, abandoned, leftover>>
      BY <1>5 DEF ReturnQuery, histVars, clientVars, Create
    <2>2. rep[c].key = 0
      BY <2>1 DEF RepliesOK, Given
    <2>3. Abandons({}, "crash")
      BY <2>1, AbandonsNothing
    <2> QED BY <1>1, <1>2, <2>1, <2>2, <2>3, IdleInv
  <1>6. CASE Timeout(c)
    <2>1. /\ phase[c] \in {"sent", "lost"} /\ Idle(c) /\ UNCHANGED <<peer, known, owned>>
          /\ Abandon({req[c].key}, "lost delete") /\ UNCHANGED leftover
          /\ \/ UNCHANGED deleted
             \/ req[c].op = "DeleteRC" /\ ReportDeleted(req[c].key)
      BY <1>6 DEF Timeout, NoAnswer, Abandon
    <2>2. Abandons({req[c].key}, "lost delete")
      BY <2>1, AbandonAbandons
    <2>3. CASE UNCHANGED deleted
      BY <1>1, <1>2, <2>1, <2>2, <2>3, IdleInv
    <2>4. CASE req[c].op = "DeleteRC" /\ ReportDeleted(req[c].key)
      <3>1. deleted' \subseteq 1 .. created
        BY <1>1, <2>4 DEF ReportDeleted, KeysOK
      <3>2. PICK o \in known : o.key = req[c].key
        BY <2>1, <2>4 DEF RequestsOK
      <3>3. ASSUME NEW n \in Names, registered(n), registered_qps[n].key \in deleted'
            PROVE  registered_qps[n].key \in deleted \/ abandoned'[n] = "lost delete"
        <4>1. registered_qps[n].key \in deleted \/ registered_qps[n].key = req[c].key
          BY <2>4, <3>3 DEF ReportDeleted
        <4>2. registered_qps[n].key = req[c].key => abandoned[n] \in {"none", "lost delete"}
          BY <3>2, <3>3 DEF KnownOK
        <4> QED BY <2>2, <3>3, <4>1, <4>2 DEF Abandons
      <3> QED BY <1>2, <2>1, <2>2, <3>1, <3>3, IdleInv
    <2> QED BY <2>1, <2>3, <2>4
  <1> QED BY <1>3, <1>4, <1>5, <1>6 DEF Returns

-----------------------------------------------------------------------------
(* A call goes out.  The key of a deletion passes from owned to the request.*)
LEMMA SendInv ==
    ASSUME BaseInv, QPInv, StoreInv, NEW c \in Clients, NEW m \in Req, Send(c, m),
           UNCHANGED <<peer, known, deleted>>,
           \/ m.op # "DeleteRC" /\ m.key = 0 /\ owned' = owned
           \/ /\ m.op = "DeleteRC"
              /\ \E o \in known : /\ o.client = c /\ o.key = m.key /\ o.name = m.name
                                  /\ owned' = owned \ {o}
    PROVE  QPInv' /\ StoreInv'
  <1> /\ KeysOK /\ RepliesOK /\ KnownOK /\ RequestsOK /\ DeletedOK
      /\ OwnedIsPaired /\ NoOrphan /\ DeleteOkMeansGone
      /\ EntriesOK /\ MsgQpHasEntries /\ AbortsExplained
    BY DEF QPInv, StoreInv
  <1>1. /\ UNCHANGED <<registered_qps, reg_recv_entries, server, created, store,
                       abandoned, leftover>>
        /\ phase[c] = "idle" /\ phase'[c] = "sent" /\ req'[c] = m
        /\ \A d \in Clients : d # c => phase'[d] = phase[d] /\ req'[d] = req[d]
        /\ rep' = rep /\ owned' \subseteq owned
    BY DEF Send, serverVars, histVars, BaseInv, TypeOK, Stores
  <1>2. \A n : registered(n)' <=> registered(n)
    BY <1>1 DEF registered
  <1>3. /\ KeysOK' /\ KnownOK' /\ DeletedOK' /\ DeleteOkMeansGone'
        /\ EntriesOK' /\ MsgQpHasEntries' /\ AbortsExplained'
    BY <1>1, <1>2 DEF KeysOK, KnownOK, DeletedOK, DeleteOkMeansGone, EntriesOK,
                      MsgQpHasEntries, AbortsExplained
  <1>4. OwnedIsPaired'
    BY <1>1, <1>2 DEF OwnedIsPaired
  <1>5. RepliesOK'
    <2>1. \A d \in Clients : phase'[d] = "replied" =>
              d # c /\ phase[d] = "replied" /\ req'[d] = req[d] /\ (Given(d)' <=> Given(d))
      BY <1>1 DEF Given
    <2>2. \A d \in Clients : Given(d)' => phase'[d] = "replied"
      BY DEF Given
    <2>3. \A d \in Clients : phase'[d] = "replied" /\ ~Given(d)' => rep'[d].key = 0
      BY <1>1, <2>1 DEF RepliesOK
    <2>4. ASSUME NEW d \in Clients, Given(d)'
          PROVE  /\ registered(req[d].name)'
                 /\ registered_qps'[req'[d].name].id = rep'[d].qp
                 /\ registered_qps'[req'[d].name].key = rep'[d].key
                 /\ registered_qps'[req'[d].name].peer = <<d, req'[d].rc>>
                 /\ abandoned'[req'[d].name] = "none"
                 /\ \A o \in known' : o.key # rep'[d].key
      <3>1. Given(d) /\ req'[d] = req[d]
        BY <2>1, <2>2, <2>4
      <3> QED BY <1>1, <1>2, <3>1 DEF RepliesOK
    <2> QED BY <2>3, <2>4 DEF RepliesOK
  <1>6. RequestsOK'
    <2> SUFFICES ASSUME NEW d \in Clients, phase'[d] # "idle"
                 PROVE  /\ req'[d].op # "DeleteRC" => req'[d].key = 0
                        /\ req'[d].op = "DeleteRC" =>
                              /\ \E q \in known' : /\ q \notin owned' /\ q.client = d
                                                   /\ q.key = req'[d].key
                                                   /\ q.name = req'[d].name
                              /\ phase'[d] = "replied" /\ rep'[d].status = "Ok" =>
                                    \A n \in Names : registered(n)' =>
                                        registered_qps'[n].key # req'[d].key
      BY DEF RequestsOK
    <2>1. CASE d = c
      BY <1>1, <2>1
    <2>2. CASE d # c
      BY <1>1, <1>2, <2>2 DEF RequestsOK
    <2> QED BY <2>1, <2>2
  <1>7. NoOrphan'
    <2>1. ASSUME NEW key, KeyIsSomewhere(key) PROVE KeyIsSomewhere(key)'
      <3>1. CASE \E q \in owned : q.key = key
        <4>1. (\E q \in owned' : q.key = key) \/ key = m.key
          BY <3>1
        <4> QED BY <1>1, <4>1 DEF KeyIsSomewhere
      <3>2. CASE \E d \in Clients : \/ phase[d] = "replied" /\ rep[d].key = key
                                    \/ phase[d] \in {"sent", "lost"} /\ req[d].key = key
        BY <1>1, <3>2 DEF KeyIsSomewhere
      <3> QED BY <2>1, <3>1, <3>2 DEF KeyIsSomewhere
    <2> SUFFICES ASSUME server = "up", NEW n \in Names, registered(n), abandoned[n] = "none"
                 PROVE  KeyIsSomewhere(registered_qps[n].key)'
      BY <1>1, <1>2 DEF NoOrphan
    <2>2. PICK key : key = registered_qps[n].key
      OBVIOUS
    <2>3. KeyIsSomewhere(key)
      BY <2>2 DEF NoOrphan
    <2>4. KeyIsSomewhere(key)'
      BY <2>1, <2>3
    <2> QED BY <1>1, <2>2, <2>4
  <1> QED
    BY <1>3, <1>4, <1>5, <1>6, <1>7 DEF QPInv, StoreInv

(* The handler of c answers, or aborts the server: what stays as it was.   *)
Others(c) ==
    \A d \in Clients : d # c => phase'[d] = phase[d] /\ rep'[d] = rep[d]

(* A reply of the server changes the phase of one client and nothing      *)
(* that clients own.                                                      *)
LEMMA ReplyFacts ==
    ASSUME BaseInv, NEW c \in Clients, NEW status, NEW qp, NEW key, Reply(c, status, qp, key)
    PROVE  /\ phase'[c] = "replied"
           /\ rep'[c].status = status /\ rep'[c].qp = qp /\ rep'[c].key = key
           /\ Others(c) /\ UNCHANGED <<req, peer, known, owned, deleted>>
  BY DEF Reply, clientVars, Others, BaseInv, TypeOK, Stores

(* A QP is registered.  Its key is new; its reply is of its client.        *)
LEMMA RegisterInv ==
    ASSUME BaseInv, QPInv, NEW c \in Clients, phase[c] = "sent",
           NEW cause \in {"none", "throw"}, HandlerRegisters(c, cause),
           Others(c), UNCHANGED <<req, peer, known, owned, deleted>>, server = "up",
           \/ phase'[c] = "sent" /\ rep' = rep /\ server' = "aborted"
           \/ /\ phase'[c] = "replied" /\ rep'[c].status = "Ok" /\ cause = "none"
              /\ rep'[c].qp = created + 1 /\ rep'[c].key = created + 1
           \/ /\ phase'[c] = "replied" /\ rep'[c].status = "Nop" /\ cause = "throw"
              /\ rep'[c].key = 0
    PROVE  QPInv'
  <1> /\ KeysOK /\ RepliesOK /\ KnownOK /\ RequestsOK /\ DeletedOK
      /\ OwnedIsPaired /\ NoOrphan /\ DeleteOkMeansGone
    BY DEF QPInv
  <1> DEFINE n0 == req[c].name
             qp0 == NewQP(c, req[c])
  <1>1. /\ n0 \in Names /\ ~registered(n0) /\ req[c].op \in Create /\ created' = created + 1
        /\ created \in Nat
        /\ \A n \in Names : registered(n)' <=> (registered(n) \/ n = n0)
        /\ \A n \in Names : registered(n) => n # n0 /\ registered_qps'[n] = registered_qps[n]
        /\ \A n \in Names : n # n0 => abandoned'[n] = abandoned[n]
        /\ abandoned'[n0] = cause
        /\ registered_qps'[n0].id = created + 1 /\ registered_qps'[n0].key = created + 1
        /\ registered_qps'[n0].peer = <<c, req[c].rc>>
    BY RecordTypes, NewQPType, KeyFacts, ZenonT(60) DEF HandlerRegisters, registered, BaseInv, TypeOK
  <1> HIDE DEF n0, qp0
  <1>2. KeysOK'
    BY <1>1 DEF KeysOK
  <1>3. DeletedOK'
    BY <1>1 DEF DeletedOK
  <1>4. /\ created + 1 \notin deleted
        /\ \A o \in known : o.key # created + 1 /\ o.key \in 1 .. (created + 1)
    BY <1>1, NewKey DEF DeletedOK, KnownOK
  <1>5. KnownOK'
    <2>1. \A o \in known : o.key \in 1 .. created'
      BY <1>1, <1>4
    <2>2. \A o1, o2 \in known : o1.key = o2.key => o1 = o2
      BY DEF KnownOK
    <2>3. \A o \in known, n \in Names :
              registered(n)' /\ registered_qps'[n].key = o.key =>
                  n = o.name /\ abandoned'[n] \in {"none", "lost delete"}
      <3> SUFFICES ASSUME NEW o \in known, NEW n \in Names, registered(n)',
                          registered_qps'[n].key = o.key
                   PROVE  n = o.name /\ abandoned'[n] \in {"none", "lost delete"}
        OBVIOUS
      <3>1. n # n0
        BY <1>1, <1>4
      <3>2. registered(n) /\ registered_qps'[n] = registered_qps[n] /\ abandoned'[n] = abandoned[n]
        BY <1>1, <3>1
      <3> QED BY <3>2 DEF KnownOK
    <2> QED BY <2>1, <2>2, <2>3 DEF KnownOK
  <1>6. \A o \in owned : o.name \in Names
    BY RecordTypes DEF BaseInv, TypeOK
  <1>7. OwnedIsPaired'
    BY <1>1, <1>6 DEF OwnedIsPaired
  <1>8. DeleteOkMeansGone'
    BY <1>1, <1>4 DEF DeleteOkMeansGone
  <1>9. RepliesOK'
    <2> SUFFICES ASSUME NEW d \in Clients, phase'[d] = "replied"
                 PROVE  /\ ~Given(d)' => rep'[d].key = 0
                        /\ Given(d)' =>
                              /\ registered(req[d].name)'
                              /\ registered_qps'[req[d].name].id = rep'[d].qp
                              /\ registered_qps'[req[d].name].key = rep'[d].key
                              /\ registered_qps'[req[d].name].peer = <<d, req[d].rc>>
                              /\ abandoned'[req[d].name] = "none"
                              /\ \A q \in known : q.key # rep'[d].key
      BY DEF RepliesOK, Given
    <2>1. CASE d = c
      <3>1. Given(c)' <=> rep'[c].status = "Ok"
        BY <1>1, <2>1 DEF Given
      <3> QED BY <1>1, <1>4, <2>1, <3>1 DEF n0
    <2>2. CASE d # c
      <3>1. phase[d] = "replied" /\ rep'[d] = rep[d] /\ (Given(d)' <=> Given(d))
        BY <2>2 DEF Others, Given
      <3>2. req[d].name \in Names
        BY <3>1, RecordTypes DEF BaseInv, TypeOK
      <3>3. /\ ~Given(d) => rep[d].key = 0
            /\ Given(d) =>
                  /\ registered(req[d].name)
                  /\ registered_qps[req[d].name].id = rep[d].qp
                  /\ registered_qps[req[d].name].key = rep[d].key
                  /\ registered_qps[req[d].name].peer = <<d, req[d].rc>>
                  /\ abandoned[req[d].name] = "none"
                  /\ \A q \in known : q.key # rep[d].key
        BY <3>1 DEF RepliesOK
      <3> QED BY <1>1, <3>1, <3>2, <3>3
    <2> QED BY <2>1, <2>2
  <1>10. RequestsOK'
    <2> SUFFICES ASSUME NEW d \in Clients, phase'[d] # "idle"
                 PROVE  /\ req[d].op # "DeleteRC" => req[d].key = 0
                        /\ req[d].op = "DeleteRC" =>
                              /\ \E q \in known : /\ q \notin owned /\ q.client = d
                                                  /\ q.key = req[d].key
                                                  /\ q.name = req[d].name
                              /\ phase'[d] = "replied" /\ rep'[d].status = "Ok" =>
                                    \A n \in Names : registered(n)' =>
                                        registered_qps'[n].key # req[d].key
      BY DEF RequestsOK
    <2>1. phase[d] # "idle" /\ (d # c => phase'[d] = phase[d] /\ rep'[d] = rep[d])
      BY DEF Others
    <2>2. d = c => req[d].op # "DeleteRC"
      BY <1>1 DEF Create
    <2>3. /\ req[d].op # "DeleteRC" => req[d].key = 0
          /\ req[d].op = "DeleteRC" =>
                /\ \E q \in known : /\ q \notin owned /\ q.client = d
                                    /\ q.key = req[d].key /\ q.name = req[d].name
                /\ phase[d] = "replied" /\ rep[d].status = "Ok" =>
                      \A n \in Names : registered(n) => registered_qps[n].key # req[d].key
      BY <2>1 DEF RequestsOK
    <2>4. req[d].op = "DeleteRC" => req[d].key # created + 1
      BY <1>4, <2>3
    <2> QED BY <1>1, <2>1, <2>2, <2>3, <2>4
  <1>11. NoOrphan'
    <2> SUFFICES ASSUME server' = "up", NEW n \in Names, registered(n)', abandoned'[n] = "none"
                 PROVE  KeyIsSomewhere(registered_qps[n].key)'
      BY DEF NoOrphan
    <2>0. phase'[c] = "replied"
      OBVIOUS
    <2>1. CASE n = n0
      BY <1>1, <2>0, <2>1 DEF KeyIsSomewhere
    <2>2. CASE n # n0
      <3>1. registered(n) /\ abandoned[n] = "none" /\ registered_qps'[n] = registered_qps[n]
        BY <1>1, <2>2
      <3>2. PICK key : key = registered_qps[n].key
        OBVIOUS
      <3>3. KeyIsSomewhere(key) /\ key # 0
        BY <1>1, <3>1, <3>2, NotZero DEF NoOrphan, KeysOK
      <3>4. req[c].key = 0
        BY <1>1 DEF RequestsOK, Create
      <3>5. KeyIsSomewhere(key)'
        BY <3>3, <3>4 DEF KeyIsSomewhere, Others
      <3> QED BY <3>1, <3>2, <3>5
    <2> QED BY <2>1, <2>2
  <1> QED
    BY <1>2, <1>3, <1>5, <1>7, <1>8, <1>9, <1>10, <1>11 DEF QPInv

(* The handler removes a QP, or none: c's deletion carried its key, or    *)
(* that key is registered nowhere.                                         *)
LEMMA EraseInv ==
    ASSUME BaseInv, QPInv, NEW c \in Clients, phase[c] = "sent",
           phase'[c] = "replied", rep'[c].key = 0,
           Others(c), UNCHANGED <<req, peer, known, owned, deleted, server>>,
           created' = created \/ created' = created + 1,
           \/ /\ UNCHANGED <<registered_qps, abandoned>>
              /\ rep'[c].status = "Ok" => req[c].op \notin Create \cup {"DeleteRC"}
              /\ req[c].op = "DeleteRC" => ~dereg_allowed(req[c].name, req[c].key)
           \/ /\ req[c].op = "DeleteRC" /\ dereg_allowed(req[c].name, req[c].key)
              /\ registered_qps' = [registered_qps EXCEPT ![req[c].name] = NoQP]
              /\ abandoned' = [abandoned EXCEPT ![req[c].name] = "none"]
    PROVE  QPInv'
  <1> /\ KeysOK /\ RepliesOK /\ KnownOK /\ RequestsOK /\ DeletedOK
      /\ OwnedIsPaired /\ NoOrphan /\ DeleteOkMeansGone
    BY DEF QPInv
  <1>0. req[c].name \in Names /\ created \in Nat /\ created' \in Nat
    BY RecordTypes, KeyFacts DEF BaseInv, TypeOK
  <1>1. \A n \in Names :
           \/ /\ registered(n)' <=> registered(n)
              /\ registered_qps'[n] = registered_qps[n] /\ abandoned'[n] = abandoned[n]
           \/ /\ req[c].op = "DeleteRC" /\ n = req[c].name
              /\ registered(n) /\ registered_qps[n].key = req[c].key
              /\ ~registered(n)'
    BY <1>0 DEF registered, dereg_allowed, BaseInv, TypeOK
  <1>2. ASSUME req[c].op = "DeleteRC"
        PROVE  \E o \in known : o \notin owned /\ o.client = c /\ o.key = req[c].key /\ o.name = req[c].name
    BY <1>2 DEF RequestsOK
  <1>3. \A n \in Names : registered(n)' =>
            /\ registered(n) /\ registered_qps'[n] = registered_qps[n]
            /\ abandoned'[n] = abandoned[n]
    BY <1>1
  <1>4. \A k \in 1 .. created : k \in 1 .. created'
    BY <1>0, NewKey
  <1>5. KeysOK' /\ DeletedOK' /\ DeleteOkMeansGone'
    BY <1>3, <1>4 DEF KeysOK, DeletedOK, DeleteOkMeansGone
  <1>6. KnownOK'
    <2>1. \A o \in known : o.key \in 1 .. created'
      BY <1>4 DEF KnownOK
    <2>2. \A o1, o2 \in known : o1.key = o2.key => o1 = o2
      BY DEF KnownOK
    <2>3. \A o \in known, n \in Names :
              registered(n)' /\ registered_qps'[n].key = o.key =>
                  n = o.name /\ abandoned'[n] \in {"none", "lost delete"}
      <3> SUFFICES ASSUME NEW o \in known, NEW n \in Names, registered(n)',
                          registered_qps'[n].key = o.key
                   PROVE  n = o.name /\ abandoned'[n] \in {"none", "lost delete"}
        OBVIOUS
      <3>1. registered(n) /\ registered_qps'[n] = registered_qps[n] /\ abandoned'[n] = abandoned[n]
        BY <1>3
      <3> QED BY <3>1, ZenonT(60) DEF KnownOK
    <2> QED BY <2>1, <2>2, <2>3 DEF KnownOK
  <1>7. Given(c)' <=> FALSE
    <2>1. \/ rep'[c].status # "Ok" \/ req[c].op \notin Create
      BY DEF Create
    <2> QED BY <2>1 DEF Given
  \* no other key is removed
  <1>8. ASSUME NEW n \in Names, registered(n), NEW key, registered_qps[n].key = key,
               req[c].op = "DeleteRC" => key # req[c].key
        PROVE  registered(n)' /\ registered_qps'[n] = registered_qps[n] /\ abandoned'[n] = abandoned[n]
    BY <1>1, <1>8
  <1>9. RepliesOK'
    <2> SUFFICES ASSUME NEW d \in Clients, phase'[d] = "replied"
                 PROVE  /\ ~Given(d)' => rep'[d].key = 0
                        /\ Given(d)' =>
                              /\ registered(req[d].name)'
                              /\ registered_qps'[req[d].name].id = rep'[d].qp
                              /\ registered_qps'[req[d].name].key = rep'[d].key
                              /\ registered_qps'[req[d].name].peer = <<d, req[d].rc>>
                              /\ abandoned'[req[d].name] = "none"
                              /\ \A q \in known : q.key # rep'[d].key
      BY DEF RepliesOK, Given
    <2>1. CASE d = c
      BY <1>7, <2>1
    <2>2. CASE d # c
      <3>1. phase[d] = "replied" /\ rep'[d] = rep[d] /\ (Given(d)' <=> Given(d))
        BY <2>2 DEF Others, Given
      <3>2. req[d].name \in Names
        BY <3>1, RecordTypes DEF BaseInv, TypeOK
      <3>3. /\ ~Given(d) => rep[d].key = 0
            /\ Given(d) =>
                  /\ registered(req[d].name)
                  /\ registered_qps[req[d].name].id = rep[d].qp
                  /\ registered_qps[req[d].name].key = rep[d].key
                  /\ registered_qps[req[d].name].peer = <<d, req[d].rc>>
                  /\ abandoned[req[d].name] = "none"
                  /\ \A q \in known : q.key # rep[d].key
        BY <3>1 DEF RepliesOK
      <3>4. Given(d) => (req[c].op = "DeleteRC" => rep[d].key # req[c].key)
        BY <1>2, <3>3
      <3> QED BY <1>8, <3>1, <3>2, <3>3, <3>4
    <2> QED BY <2>1, <2>2
  <1>10. RequestsOK'
    <2> SUFFICES ASSUME NEW d \in Clients, phase'[d] # "idle"
                 PROVE  /\ req[d].op # "DeleteRC" => req[d].key = 0
                        /\ req[d].op = "DeleteRC" =>
                              /\ \E q \in known : /\ q \notin owned /\ q.client = d
                                                  /\ q.key = req[d].key
                                                  /\ q.name = req[d].name
                              /\ phase'[d] = "replied" /\ rep'[d].status = "Ok" =>
                                    \A n \in Names : registered(n)' =>
                                        registered_qps'[n].key # req[d].key
      BY DEF RequestsOK
    <2>1. phase[d] # "idle" /\ (d # c => phase'[d] = phase[d] /\ rep'[d] = rep[d])
      BY DEF Others
    <2>2. /\ req[d].op # "DeleteRC" => req[d].key = 0
          /\ req[d].op = "DeleteRC" =>
                /\ \E q \in known : /\ q \notin owned /\ q.client = d
                                    /\ q.key = req[d].key /\ q.name = req[d].name
                /\ phase[d] = "replied" /\ rep[d].status = "Ok" =>
                      \A n \in Names : registered(n) => registered_qps[n].key # req[d].key
      BY <2>1 DEF RequestsOK
    <2>3. CASE d # c
      BY <1>3, <2>1, <2>2, <2>3
    <2>4. CASE d = c
      <3>1. ASSUME req[c].op = "DeleteRC", rep'[c].status = "Ok", NEW n \in Names, registered(n)',
                   registered_qps'[n].key = req[c].key
            PROVE  FALSE
        <4>1. dereg_allowed(req[c].name, req[c].key)
          BY <3>1
        <4>2. registered(n) /\ registered_qps[n].key = req[c].key
          BY <1>3, <3>1
        <4>3. n = req[c].name
          BY <1>0, <4>1, <4>2 DEF KeysOK, dereg_allowed
        <4>4. ~registered(n)'
          BY <1>0, <3>1, <4>1, <4>3 DEF registered, BaseInv, TypeOK
        <4> QED BY <3>1, <4>4
      <3> QED BY <2>2, <2>4, <3>1
    <2> QED BY <2>3, <2>4
  <1>11. OwnedIsPaired'
    <2>1. \A o \in owned : o \in known /\ o.name \in Names
      BY RecordTypes DEF BaseInv, TypeOK
    <2>2. ASSUME NEW o \in owned, req[c].op = "DeleteRC" PROVE o.key # req[c].key
      <3>1. PICK q \in known : q \notin owned /\ q.key = req[c].key
        BY <1>2, <2>2
      <3>2. o # q /\ o \in known
        BY <2>1, <3>1
      <3>3. \A o1, o2 \in known : o1.key = o2.key => o1 = o2
        BY DEF KnownOK
      <3> QED BY <3>1, <3>2, <3>3
    <2>3. ASSUME NEW o \in owned
          PROVE  /\ registered(o.name)'
                 /\ registered_qps'[o.name].id = o.qp
                 /\ registered_qps'[o.name].key = o.key
                 /\ registered_qps'[o.name].peer = <<o.client, o.rc>>
                 /\ o.fresh => peer[o.client][o.rc] = o.qp
      <3>1. /\ registered(o.name)
            /\ registered_qps[o.name].id = o.qp
            /\ registered_qps[o.name].key = o.key
            /\ registered_qps[o.name].peer = <<o.client, o.rc>>
            /\ o.fresh => peer[o.client][o.rc] = o.qp
        BY DEF OwnedIsPaired
      <3> QED BY <1>8, <2>1, <2>2, <3>1
    <2> QED BY <2>3 DEF OwnedIsPaired
  <1>12. NoOrphan'
    <2> SUFFICES ASSUME server = "up", NEW n \in Names, registered(n)', abandoned'[n] = "none"
                 PROVE  KeyIsSomewhere(registered_qps[n].key)'
      BY DEF NoOrphan
    <2>1. registered(n) /\ abandoned[n] = "none" /\ registered_qps'[n] = registered_qps[n]
      BY <1>3
    <2>2. PICK key : key = registered_qps[n].key
      OBVIOUS
    <2>3. KeyIsSomewhere(key) /\ key # 0
      BY <1>0, <2>1, <2>2, NotZero DEF NoOrphan, KeysOK
    <2>4. key # req[c].key
      <3>1. CASE req[c].op # "DeleteRC"
        BY <2>3, <3>1 DEF RequestsOK
      <3>2. ASSUME req[c].op = "DeleteRC", key = req[c].key PROVE FALSE
        <4>0. PICK o \in known : o.key = req[c].key /\ o.name = req[c].name
          BY <1>2, <3>2
        <4>1. n = req[c].name
          <5>1. registered(n) /\ registered_qps[n].key = o.key
            BY <2>1, <2>2, <3>2, <4>0
          <5>2. \A q \in known, x \in Names :
                   registered(x) /\ registered_qps[x].key = q.key => x = q.name
            BY DEF KnownOK
          <5> QED BY <4>0, <5>1, <5>2
        <4>2. dereg_allowed(req[c].name, req[c].key)
          BY <2>1, <2>2, <3>2, <4>1 DEF dereg_allowed
        <4>3. ~registered(n)'
          BY <1>0, <3>2, <4>1, <4>2 DEF registered, BaseInv, TypeOK
        <4> QED BY <4>3
      <3> QED BY <3>1, <3>2
    <2>5. KeyIsSomewhere(key)'
      BY <2>3, <2>4 DEF KeyIsSomewhere, Others
    <2> QED BY <2>1, <2>2, <2>5
  <1> QED
    BY <1>5, <1>6, <1>9, <1>10, <1>11, <1>12 DEF QPInv

(* Handlers keep the pairing of QPs, keys and replies.                    *)
LEMMA HandleQP ==
    ASSUME BaseInv, QPInv, NEW c \in Clients, Handle(c)
    PROVE  QPInv'
  <1>1. phase[c] = "sent" /\ server = "up"
    BY HandleCases DEF HandlerFrame
  <1>2. CASE HandlerAnswers(c)
    <2>1. PICK status, qp : /\ Reply(c, status, qp, 0)
                            /\ status = "Ok" => req[c].op \notin Create \cup {"DeleteRC"}
      BY <1>2 DEF HandlerAnswers
    <2>2. /\ phase'[c] = "replied" /\ rep'[c].status = status /\ rep'[c].key = 0
          /\ Others(c) /\ UNCHANGED <<req, peer, known, owned, deleted>>
      BY <2>1, ReplyFacts
    <2>3. /\ UNCHANGED <<registered_qps, abandoned, server>>
          /\ created' = created \/ created' = created + 1
          /\ req[c].op = "DeleteRC" => ~dereg_allowed(req[c].name, req[c].key)
      BY <1>2 DEF HandlerAnswers
    <2> QED BY <1>1, <2>1, <2>2, <2>3, EraseInv
  <1>3. CASE HandlerCreates(c)
    <2>1. HandlerRegisters(c, "none") /\ Reply(c, "Ok", created + 1, created + 1)
      BY <1>3 DEF HandlerCreates
    <2>2. /\ phase'[c] = "replied" /\ rep'[c].status = "Ok"
          /\ rep'[c].qp = created + 1 /\ rep'[c].key = created + 1
          /\ Others(c) /\ UNCHANGED <<req, peer, known, owned, deleted>>
      BY <2>1, ReplyFacts
    <2> QED BY <1>1, <2>1, <2>2, RegisterInv
  <1>4. CASE HandlerThrows(c)
    <2>1. HandlerRegisters(c, "throw") /\ Reply(c, "Nop", 0, 0)
      BY <1>4 DEF HandlerThrows
    <2>2. /\ phase'[c] = "replied" /\ rep'[c].status = "Nop" /\ rep'[c].key = 0
          /\ Others(c) /\ UNCHANGED <<req, peer, known, owned, deleted>>
      BY <2>1, ReplyFacts
    <2> QED BY <1>1, <2>1, <2>2, RegisterInv
  <1>5. CASE HandlerAborts(c)
    <2>1. HandlerRegisters(c, "none") /\ server' = "aborted"
      BY <1>5 DEF HandlerAborts
    <2>2. /\ phase'[c] = "sent" /\ rep' = rep /\ Others(c)
          /\ UNCHANGED <<req, peer, known, owned, deleted>>
      BY <1>1, <1>5 DEF HandlerAborts, Others
    <2> QED BY <1>1, <2>1, <2>2, RegisterInv
  <1>6. CASE HandlerDeletes(c)
    <2>1. /\ Reply(c, "Ok", 0, 0) /\ UNCHANGED <<server, created>>
          /\ req[c].op = "DeleteRC" /\ dereg_allowed(req[c].name, req[c].key)
          /\ registered_qps' = [registered_qps EXCEPT ![req[c].name] = NoQP]
          /\ abandoned' = [abandoned EXCEPT ![req[c].name] = "none"]
      BY <1>6 DEF HandlerDeletes
    <2>2. /\ phase'[c] = "replied" /\ rep'[c].key = 0
          /\ Others(c) /\ UNCHANGED <<req, peer, known, owned, deleted>>
      BY <2>1, ReplyFacts
    <2> QED BY <1>1, <2>1, <2>2, EraseInv
  <1> QED BY <1>2, <1>3, <1>4, <1>5, <1>6, HandleCases

(* Handlers keep the stores in step: receive entries only with the name   *)
(* of a QP that was made for messages.                                    *)
LEMMA HandleStore ==
    ASSUME BaseInv, StoreInv, NEW c \in Clients, Handle(c)
    PROVE  StoreInv'
  <1> EntriesOK /\ MsgQpHasEntries /\ AbortsExplained
    BY DEF StoreInv
  <1>1. phase[c] = "sent" /\ server = "up" /\ store' = store /\ req[c].name \in Names
        /\ reg_recv_entries \subseteq Names
    BY HandleCases, RecordTypes DEF HandlerFrame, BaseInv, TypeOK
  \* a server that is still up
  <1>2. server' = server => AbortsExplained'
    BY <1>1 DEF AbortsExplained
  <1>3. CASE HandlerAnswers(c)
    <2>1. UNCHANGED <<registered_qps, reg_recv_entries, server, abandoned, leftover>>
      BY <1>3 DEF HandlerAnswers
    <2>2. EntriesOK' /\ MsgQpHasEntries'
      BY <2>1 DEF EntriesOK, MsgQpHasEntries, registered
    <2> QED BY <1>2, <2>1, <2>2 DEF StoreInv
  <1>4. ASSUME NEW cause, HandlerRegisters(c, cause)
        PROVE  /\ req[c].op \in Create /\ leftover' = leftover
               /\ ~registered(req[c].name) /\ registered_qps'[req[c].name] # NoQP
               /\ \A n \in Names : n # req[c].name =>
                     /\ registered(n)' <=> registered(n)
                     /\ registered_qps'[n] = registered_qps[n] /\ abandoned'[n] = abandoned[n]
               /\ registered_qps'[req[c].name].msg <=> req[c].op = "CreateRCM"
               /\ registered_qps'[req[c].name].short = req[c].short
               /\ registered_qps'[req[c].name].id = created'
               /\ abandoned'[req[c].name] = cause
    <2> DEFINE n0 == req[c].name
               qp0 == NewQP(c, req[c])
    <2>1. /\ n0 \in Names /\ ~registered(n0) /\ req[c].op \in Create /\ leftover' = leftover
          /\ registered_qps' = [registered_qps EXCEPT ![n0] = qp0]
          /\ abandoned' = [abandoned EXCEPT ![n0] = cause]
      BY <1>1, <1>4 DEF HandlerRegisters
    <2>2. /\ qp0 # NoQP /\ (qp0.msg <=> req[c].op = "CreateRCM")
          /\ qp0.short = req[c].short /\ qp0.id = created'
      BY <1>1, <1>4, NewQPType DEF HandlerRegisters
    <2>3. DOMAIN registered_qps = Names /\ DOMAIN abandoned = Names
      BY DEF BaseInv, TypeOK
    <2> HIDE DEF qp0
    <2>4. /\ registered_qps'[n0] = qp0 /\ abandoned'[n0] = cause
          /\ \A n \in Names : n # n0 =>
                registered_qps'[n] = registered_qps[n] /\ abandoned'[n] = abandoned[n]
      BY <2>1, <2>3
    <2> QED BY <1>4, <2>1, <2>2, <2>4 DEF registered
  <1>5. ASSUME NEW cause, HandlerRegisters(c, cause), reg_recv_entries \subseteq reg_recv_entries',
               \A n \in reg_recv_entries' : n \in reg_recv_entries
                   \/ (n = req[c].name /\ registered_qps'[req[c].name].msg),
               \/ registered_qps'[req[c].name].msg => req[c].name \in reg_recv_entries'
               \/ cause = "throw"
        PROVE  EntriesOK' /\ MsgQpHasEntries'
    <2>0. /\ leftover' = leftover /\ registered_qps'[req[c].name] # NoQP
          /\ \A n \in Names : n # req[c].name =>
                /\ registered(n)' <=> registered(n)
                /\ registered_qps'[n] = registered_qps[n]
      BY <1>4, <1>5
    <2>1. EntriesOK'
      <3> SUFFICES ASSUME NEW n \in reg_recv_entries'
                   PROVE  n \in leftover' \/ (registered(n)' /\ registered_qps'[n].msg)
        BY DEF EntriesOK
      <3>1. CASE n = req[c].name /\ registered_qps'[req[c].name].msg
        BY <2>0, <3>1 DEF registered
      <3>2. CASE n \in reg_recv_entries
        <4>1. n \in Names /\ (n \in leftover \/ (registered(n) /\ registered_qps[n].msg))
          BY <1>1, <3>2 DEF EntriesOK
        <4>2. CASE n # req[c].name
          BY <2>0, <4>1, <4>2
        <4>3. CASE n = req[c].name
          <5>1. ~registered(n)
            BY <1>4, <1>5, <4>3
          <5> QED BY <2>0, <4>1, <5>1
        <4> QED BY <4>2, <4>3
      <3> QED BY <1>5, <3>1, <3>2
    <2>2. MsgQpHasEntries'
      BY <1>1, <1>4, <1>5 DEF MsgQpHasEntries
    <2> QED BY <2>1, <2>2
  <1>6. CASE HandlerCreates(c)
    <2>1. /\ HandlerRegisters(c, "none") /\ Reply(c, "Ok", created + 1, created + 1)
          /\ UNCHANGED server
          /\ reg_recv_entries' = IF req[c].op = "CreateRCM"
                                 THEN reg_recv_entries \cup {req[c].name} ELSE reg_recv_entries
      BY <1>6 DEF HandlerCreates
    <2>2. EntriesOK' /\ MsgQpHasEntries'
      <3>1. registered_qps'[req[c].name].msg <=> req[c].op = "CreateRCM"
        BY <1>4, <2>1
      <3> QED BY <1>5, <2>1, <3>1
    <2> QED BY <1>2, <2>1, <2>2 DEF StoreInv
  <1>7. CASE HandlerThrows(c)
    <2>1. /\ HandlerRegisters(c, "throw") /\ Reply(c, "Nop", 0, 0)
          /\ UNCHANGED <<server, reg_recv_entries>>
      BY <1>7 DEF HandlerThrows
    <2>2. EntriesOK' /\ MsgQpHasEntries'
      BY <1>5, <2>1
    <2> QED BY <1>2, <2>1, <2>2 DEF StoreInv
  <1>8. CASE HandlerAborts(c)
    <2>1. /\ HandlerRegisters(c, "none") /\ req[c].op = "CreateRCM"
          /\ req[c].name \in reg_recv_entries \/ req[c].short
          /\ reg_recv_entries' = reg_recv_entries \cup {req[c].name}
      BY <1>8 DEF HandlerAborts
    <2>2. /\ registered_qps'[req[c].name] # NoQP /\ registered_qps'[req[c].name].msg
          /\ registered_qps'[req[c].name].short = req[c].short
          /\ registered_qps'[req[c].name].id = created'
          /\ leftover' = leftover /\ ~registered(req[c].name)
      BY <1>4, <2>1
    <2>3. EntriesOK' /\ MsgQpHasEntries'
      BY <1>5, <2>1, <2>2
    <2>4. AbortsExplained'
      <3>1. req[c].name \in leftover' \/ registered_qps'[req[c].name].short
        BY <2>1, <2>2 DEF EntriesOK
      <3> QED BY <1>1, <2>2, <3>1 DEF AbortsExplained, registered
    <2> QED BY <2>3, <2>4 DEF StoreInv
  <1>9. CASE HandlerDeletes(c)
    <2>1. /\ Reply(c, "Ok", 0, 0) /\ UNCHANGED <<server, reg_recv_entries>>
          /\ req[c].op = "DeleteRC" /\ registered(req[c].name)
          /\ registered_qps' = [registered_qps EXCEPT ![req[c].name] = NoQP]
          /\ abandoned' = [abandoned EXCEPT ![req[c].name] = "none"]
          /\ leftover' = leftover \cup (IF registered_qps[req[c].name].msg
                                        THEN {req[c].name} ELSE {})
      BY <1>9 DEF HandlerDeletes, dereg_allowed
    <2>2. \A n \in Names :
             IF n = req[c].name THEN ~registered(n)'
             ELSE /\ registered(n)' <=> registered(n)
                  /\ registered_qps'[n] = registered_qps[n] /\ abandoned'[n] = abandoned[n]
      BY <1>1, <2>1 DEF registered, BaseInv, TypeOK
    <2>3. EntriesOK'
      <3> SUFFICES ASSUME NEW n \in reg_recv_entries
                   PROVE  n \in leftover' \/ (registered(n)' /\ registered_qps'[n].msg)
        BY <2>1 DEF EntriesOK
      <3>1. n \in leftover \/ (registered(n) /\ registered_qps[n].msg)
        BY DEF EntriesOK
      <3> QED BY <1>1, <2>1, <2>2, <3>1
    <2>4. MsgQpHasEntries'
      BY <2>1, <2>2 DEF MsgQpHasEntries
    <2> QED BY <1>2, <2>1, <2>3, <2>4 DEF StoreInv
  <1> QED BY <1>3, <1>6, <1>7, <1>8, <1>9, HandleCases

-----------------------------------------------------------------------------
(* The strengthening holds of empty stores.                               *)
LEMMA InitIndInv == Init => IndInv
  <1> SUFFICES ASSUME Init PROVE IndInv
    OBVIOUS
  <1>1. /\ \A n \in Names : ~registered(n)
        /\ \A c \in Clients : phase[c] = "idle" /\ ~Given(c)
    BY DEF Init, registered, Given
  <1>2. QPInv
    BY <1>1 DEF Init, QPInv, KeysOK, RepliesOK, KnownOK, RequestsOK, DeletedOK, OwnedIsPaired,
                NoOrphan, DeleteOkMeansGone
  <1>3. StoreInv
    BY <1>1 DEF Init, StoreInv, EntriesOK, MsgQpHasEntries, AbortsExplained
  <1> QED BY <1>2, <1>3, InitBase DEF IndInv

(* What QPInv says depends on these variables only.                        *)
LEMMA QPInvUnchanged ==
    ASSUME QPInv,
           UNCHANGED <<registered_qps, server, created, phase, req, rep, peer, known, owned,
                       deleted, abandoned>>
    PROVE  QPInv'
  <1>1. /\ \A n : registered(n)' <=> registered(n)
        /\ \A c : Given(c)' <=> Given(c)
        /\ \A key : KeyIsSomewhere(key)' <=> KeyIsSomewhere(key)
    BY DEF registered, Given, KeyIsSomewhere
  <1>2. KeysOK' /\ KnownOK' /\ DeletedOK'
    BY <1>1 DEF QPInv, KeysOK, KnownOK, DeletedOK
  <1>3. RepliesOK'
    BY <1>1 DEF QPInv, RepliesOK
  <1>4. RequestsOK'
    BY <1>1 DEF QPInv, RequestsOK
  <1>5. OwnedIsPaired'
    BY <1>1 DEF QPInv, OwnedIsPaired
  <1>6. NoOrphan' /\ DeleteOkMeansGone'
    BY <1>1 DEF QPInv, NoOrphan, DeleteOkMeansGone
  <1> QED BY <1>2, <1>3, <1>4, <1>5, <1>6 DEF QPInv

(* The main thread of the server registers and removes attributes only.    *)
LEMMA AttrInv ==
    ASSUME BaseInv, QPInv, StoreInv, NEW s \in Attrs, reg_attr(s) \/ dereg_attr(s)
    PROVE  QPInv' /\ StoreInv'
  <1>1. /\ UNCHANGED <<registered_qps, reg_recv_entries, cqAlive, server, created,
                       phase, req, rep, peer, known, owned, deleted, abandoned, leftover>>
    BY DEF reg_attr, dereg_attr, callVars, clientVars, histVars
  <1>2. QPInv'
    BY <1>1, QPInvUnchanged
  <1>3. EntriesOK' /\ MsgQpHasEntries' /\ AbortsExplained'
    BY <1>1 DEF StoreInv, EntriesOK, MsgQpHasEntries, AbortsExplained, registered
  <1> QED BY <1>2, <1>3 DEF StoreInv

(* Every action keeps the strengthening.                                  *)
LEMMA NextIndInv == IndInv /\ [Next]_vars => IndInv'
  <1> SUFFICES ASSUME BaseInv, QPInv, StoreInv, [Next]_vars PROVE QPInv' /\ StoreInv'
    BY NextBase DEF IndInv
  <1>1. ASSUME NEW c \in Clients, Calls(c) PROVE QPInv' /\ StoreInv'
    BY <1>1, CallsAreSends, SendInv
  <1>2. CASE UNCHANGED vars
    <2>1. UNCHANGED <<registered_qps, reg_recv_entries, cqAlive, server, created, store,
                      phase, req, rep, peer, known, owned, deleted, abandoned, leftover>>
      BY <1>2 DEF vars, serverVars, callVars, clientVars, histVars
    <2>2. QPInv'
      BY <2>1, QPInvUnchanged
    <2>3. StoreInv'
      BY <2>1 DEF StoreInv, EntriesOK, MsgQpHasEntries, AbortsExplained, registered
    <2> QED BY <2>2, <2>3
  <1> QED
    BY <1>1, <1>2, HandleQP, HandleStore, LoseInv, CrashInv, ReturnsInv, AttrInv DEF Next

(* Whatever calls, losses, aborts and crashes happen, in any order, the    *)
(* inductive invariant holds.                                              *)
THEOREM IndCorrect == Spec => []IndInv
  BY InitIndInv, NextIndInv, PTL DEF Spec

(* The QP a client owns is registered under its name and key, connected to *)
(* that client, whatever the other clients do, lose and crash.             *)
THEOREM OwnedIsPairedCorrect == Spec => []OwnedIsPaired
  <1>1. IndInv => OwnedIsPaired
    BY DEF IndInv, QPInv
  <1> QED BY <1>1, IndCorrect, PTL

(* The five causes in abandoned are the only ways to lose a key.           *)
THEOREM NoOrphanCorrect == Spec => []NoOrphan
  <1>1. IndInv => NoOrphan
    BY DEF IndInv, QPInv
  <1> QED BY <1>1, IndCorrect, PTL

(* A QP whose deletion was reported is gone, but for the undefined result  *)
(* of a deletion that timed out.                                           *)
THEOREM DeleteCorrect == Spec => []DeleteOkMeansGone
  <1>1. IndInv => DeleteOkMeansGone
    BY DEF IndInv, QPInv
  <1> QED BY <1>1, IndCorrect, PTL

(* The types, that message QPs have their receive entries, and that the    *)
(* server aborts only over entries a deleted QP of the same name left, or  *)
(* over a receive queue its client made too short for them.                *)
THEOREM ServerCorrect == Spec => []ServerInv
  <1>1. IndInv => ServerInv
    BY DEF IndInv, BaseInv, StoreInv, ServerInv
  <1> QED BY <1>1, IndCorrect, PTL

=============================================================================
