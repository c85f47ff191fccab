----------------------------- MODULE SRpcProofs -----------------------------
(* Proofs about SRpc for any number of clients, strangers and calls.       *)
EXTENDS SRpc, FiniteSetTheorems, TLAPS

(* Some datagram of call n of client c is in the network or at the server, *)
(* with this id and this checksum.                                         *)
Carried(c, n, id, sum) ==
    \/ \E m \in requests \cup cur :
          m.from = c /\ m.n = n /\ m.id = id /\ m.checksum = sum
    \/ \E r \in replies :
          r.to = c /\ r.n = n /\ r.id = id /\ r.checksum = sum

(* Who sends what: only strangers send garbage, and a reply was produced   *)
(* by a handler that ran.                                                  *)
SendersOK ==
    \A m \in requests \cup cur : m.id = "garbage" <=> m.from \in Strangers

RepliesOK ==
    \A r \in replies :
        /\ r.id = "garbage" <=> r.to \in Strangers
        /\ r.dummy <=> r.id = "HeartBeat"
        /\ r.id # "garbage" => <<r.to, r.n>> \in executed

(* The calls so far: their numbers, and that each has one id and checksum. *)
NumbersOK ==
    \A c \in Clients, n \in Nat, id \in Ids, sum \in Nat :
        Carried(c, n, id, sum) => n \in 1 .. calls[c] /\ sum <= checksum[c]

OneTag ==
    \A c \in Clients, n \in Nat, id1, id2 \in Ids, sum1, sum2 \in Nat :
        Carried(c, n, id1, sum1) /\ Carried(c, n, id2, sum2) => id1 = id2 /\ sum1 = sum2

OpenTag ==
    \A c \in Clients, id \in Ids, sum \in Nat :
        waiting[c] # "idle" /\ Carried(c, calls[c], id, sum) => id = waiting[c]

(* A call has at most one result, and none while it is open.               *)
ResultsOK ==
    /\ IsFiniteSet(results)
    /\ \A c \in Clients : waiting[c] # "idle" => calls[c] # 0
    /\ \A res \in results :
          /\ res.n \in 1 .. calls[res.client]
          /\ res.of \in 0 .. calls[res.client]
          /\ waiting[res.client] # "idle" => res.n # calls[res.client]
    /\ \A res \in results : res.id = "User" => res.ofId # "HeartBeat"

(* The reply a result names and the datagrams of that call agree; once a   *)
(* user reply was accepted, the checksum is past it.                       *)
Accepted(res) == res.code \in {"Ok", "Err"} /\ res.ofId = "User"
Spent ==
    \A res \in results, id \in Ids, sum \in Nat :
        Carried(res.client, res.of, id, sum) =>
            /\ id = res.ofId
            /\ Accepted(res) => sum < checksum[res.client]

(* A datagram of a user call belongs to the open call, to one that was     *)
(* given up, or carries a checksum that is past.                           *)
GivenUp(c, n) ==
    \E old \in results :
        old.client = c /\ old.n = n /\ old.code \in {"Timeout", "Fatal checksum"}
Late ==
    \A c \in Clients, n \in Nat, sum \in Nat :
        Carried(c, n, "User", sum) =>
            \/ waiting[c] # "idle" /\ n = calls[c]
            \/ GivenUp(c, n)
            \/ sum < checksum[c]

(* Results that name the same reply agree on its id.                       *)
SameOf ==
    \A r1, r2 \in results :
        r1.client = r2.client /\ r1.of = r2.of /\ r1.of # 0 => r1.ofId = r2.ofId

Counted ==
    \A c \in Clients :
        checksum[c] = 1 + Cardinality({res \in results :
            res.client = c /\ res.ofId = "User" /\ res.code \in {"Ok", "Err"}})

Executed ==
    /\ \A c \in Clients : calls[c] <= MaxCalls
    /\ \A call \in executed : call[2] \in 1 .. calls[call[1]]

(* The invariant: what is in flight, and what the clients have recorded.   *)
FlightInv == NumbersOK /\ OneTag /\ OpenTag /\ Spent /\ Late
BooksInv == ResultsOK /\ SameOf /\ Counted /\ AcceptedOnce /\ StaleOnlyAfterGivingUp
IndInv == FlightInv /\ BooksInv /\ Executed

-----------------------------------------------------------------------------
(* When only heartbeats are late or duplicated: a datagram of a user call  *)
(* is the only one of its call, which is open.                             *)
Quiet == LateIds \subseteq {"HeartBeat"} /\ DupIds \subseteq {"HeartBeat"}

UserOpen ==
    \A c \in Clients, n \in Nat, sum \in Nat :
        Carried(c, n, "User", sum) =>
            waiting[c] = "User" /\ n = calls[c] /\ sum = checksum[c]

OnePlace ==
    /\ \A m1, m2 \in cur : m1 = m2
    /\ \A m \in requests, m2 \in cur : m.id = "User" => ~(m.from = m2.from /\ m.n = m2.n)
    /\ \A m \in requests \cup cur, r \in replies :
          m.id = "User" => ~(m.from = r.to /\ m.n = r.n)
    /\ \A r1, r2 \in replies : r1.id = "User" /\ r1.to = r2.to /\ r1.n = r2.n => r1 = r2

LostOrInFlight ==
    \A c \in Clients :
        waiting[c] = "User" => InFlight(c, calls[c]) \/ <<c, calls[c]>> \in lost

QuietInv == UserOpen /\ OnePlace /\ LostOrInFlight /\ ReplyAnswersCall /\ NoSpuriousTimeout

-----------------------------------------------------------------------------
(* The variables keep their types.  That only clients are executed needs   *)
(* SendersOK, and that results name calls needs RepliesOK: a stranger's    *)
(* datagram reaches no handler and its reply no client.                    *)
BaseInv == TypeOK /\ SendersOK /\ RepliesOK

(* The fields of requests, replies and results.                           *)
LEMMA RecordTypes ==
    /\ \A m \in Request : /\ m.from \in Clients \cup Strangers /\ m.n \in Nat
                          /\ m.id \in Ids \cup {"garbage"} /\ m.checksum \in Nat
    /\ \A r \in Reply : /\ r.to \in Clients \cup Strangers /\ r.n \in Nat
                        /\ r.id \in Ids \cup {"garbage"} /\ r.checksum \in Nat
                        /\ r.callstatus \in {"Ok", "Nop", "FatalErr"} /\ r.dummy \in BOOLEAN
    /\ \A res \in CallResult :
          /\ res.client \in Clients /\ res.n \in Nat /\ res.id \in Ids
          /\ res.code \in {"Ok", "Err", "Fatal checksum", "Timeout"}
          /\ res.of \in Nat /\ res.ofId \in Ids \cup {"none"}
  BY DEF Request, Reply, CallResult

(* What a call returns is a CallResult.                                   *)
LEMMA ReturnType ==
    ASSUME results \subseteq CallResult, NEW c \in Clients, NEW id \in Ids, NEW n \in Nat,
           NEW code \in {"Ok", "Err", "Fatal checksum", "Timeout"}, NEW of \in Nat,
           NEW ofId \in Ids \cup {"none"}, Return(c, id, n, code, of, ofId)
    PROVE  results' \subseteq CallResult
  <1>1. [client |-> c, n |-> n, id |-> id, code |-> code, of |-> of, ofId |-> ofId]
            \in CallResult
    BY DEF CallResult
  <1> QED BY <1>1 DEF Return

(* No datagram exists at the start.                                       *)
LEMMA InitBase == Init => BaseInv
  BY DEF Init, BaseInv, TypeOK, SendersOK, RepliesOK, invalid_checksum, Ids

(* What a reply does to the client that takes it: nothing, or its call     *)
(* returns, and then the checksum moves only for an accepted normal reply. *)
LEMMA ReplyCases ==
    ASSUME NEW c \in Clients, NEW r \in replies, ReceiveReply(c, r)
    PROVE  \/ /\ r.dummy /\ waiting[c] # "HeartBeat"
              /\ UNCHANGED <<checksum, waiting, results>>
           \/ /\ r.dummy /\ waiting[c] = "HeartBeat"
              /\ Finish(c, "Ok", r) /\ UNCHANGED checksum
           \/ /\ ~r.dummy /\ r.checksum = checksum[c]
              /\ checksum' = [checksum EXCEPT ![c] = @ + 1]
              /\ \E code \in {"Ok", "Err"} :
                    (code = "Ok" <=> r.callstatus = "Ok") /\ Finish(c, code, r)
           \/ /\ ~r.dummy /\ r.checksum # checksum[c]
              /\ Finish(c, "Fatal checksum", r) /\ UNCHANGED checksum
  BY DEF ReceiveReply, HeartbeatReply, NormalReply

(* Every action keeps types, and requests and replies from those who      *)
(* sent them.                                                             *)
LEMMA NextBase == BaseInv /\ [Next]_vars => BaseInv'
  <1> SUFFICES ASSUME TypeOK, SendersOK, RepliesOK, [Next]_vars PROVE BaseInv'
    BY DEF BaseInv
  <1>1. ASSUME NEW c \in Clients, NEW id \in Ids, Call(c, id) PROVE BaseInv'
    <2> DEFINE m == [from |-> c, n |-> calls[c] + 1, id |-> id, checksum |-> checksum[c]]
    <2>1. calls[c] + 1 \in Nat /\ checksum[c] \in Nat /\ id # "garbage" /\ c \notin Strangers
      BY StrangerAssumption DEF TypeOK, Ids
    <2>2. m \in Request
      BY <2>1 DEF Request
    <2>3. requests' \subseteq requests \cup {m}
      BY <1>1 DEF Call, SendFails
    <2>4. calls' \in [Clients -> Nat] /\ waiting' \in [Clients -> Ids \cup {"idle"}]
      BY <1>1, <2>1 DEF Call, SendFails, TypeOK
    <2>5. lost' \subseteq (Clients \cup Strangers) \X Nat
      BY <1>1, <2>1 DEF Call, SendFails, TypeOK
    <2>6. results' \subseteq CallResult
      <3>1. CASE UNCHANGED results
        BY <3>1 DEF TypeOK
      <3>2. CASE Return(c, id, calls[c] + 1, "Err", 0, "none")
        BY <3>2, <2>1, ReturnType DEF TypeOK
      <3> QED BY <3>1, <3>2, <1>1 DEF Call, SendFails
    <2>7. UNCHANGED <<checksum, replies, cur, executed>>
      BY <1>1 DEF Call, serverVars
    <2>8. TypeOK'
      BY <2>2, <2>3, <2>4, <2>5, <2>6, <2>7 DEF TypeOK
    <2>9. SendersOK' /\ RepliesOK'
      BY <2>1, <2>3, <2>7 DEF SendersOK, RepliesOK
    <2> QED BY <2>8, <2>9 DEF BaseInv
  <1>2. ASSUME NEW c \in Clients, NEW r \in replies, ReceiveReply(c, r)
        PROVE  BaseInv'
    <2>1. replies' \subseteq replies /\ UNCHANGED <<calls, requests, lost, cur, executed>>
      BY <1>2 DEF ReceiveReply, Taken, serverVars
    <2>2. r.to = c /\ waiting[c] \in Ids /\ calls[c] \in Nat
      BY <1>2 DEF ReceiveReply, TypeOK
    <2>3. r.n \in Nat /\ r.id \in Ids
      BY <2>2, RecordTypes, StrangerAssumption DEF TypeOK, RepliesOK
    <2>4. ASSUME NEW code \in {"Ok", "Err", "Fatal checksum"}, Finish(c, code, r)
          PROVE  /\ waiting' \in [Clients -> Ids \cup {"idle"}]
                 /\ results' \subseteq CallResult
      <3>1. Return(c, waiting[c], calls[c], code, r.n, r.id)
        BY <2>4 DEF Finish
      <3>2. /\ code \in {"Ok", "Err", "Fatal checksum", "Timeout"}
            /\ r.id \in Ids \cup {"none"} /\ results \subseteq CallResult
        BY <2>3, <2>4 DEF TypeOK
      <3>3. results' \subseteq CallResult
        BY <3>1, <3>2, <2>2, <2>3, ReturnType
      <3> QED BY <2>4, <3>3 DEF Finish, TypeOK
    <2>5. /\ waiting' \in [Clients -> Ids \cup {"idle"}]
          /\ results' \subseteq CallResult
      BY <1>2, <2>4, ReplyCases DEF TypeOK
    <2>8. checksum' \in [Clients -> Nat \ {0}]
      <3>1. checksum' = checksum \/ checksum' = [checksum EXCEPT ![c] = @ + 1]
        BY <1>2, ReplyCases
      <3> QED BY <3>1 DEF TypeOK
    <2>6. TypeOK'
      BY <2>1, <2>5, <2>8 DEF TypeOK
    <2>7. SendersOK' /\ RepliesOK'
      BY <2>1 DEF SendersOK, RepliesOK
    <2> QED BY <2>6, <2>7 DEF BaseInv
  <1>3. ASSUME NEW c \in Clients, Timeout(c) PROVE BaseInv'
    <2>1. /\ Return(c, waiting[c], calls[c], "Timeout", 0, "none")
          /\ waiting[c] \in Ids /\ calls[c] \in Nat
          /\ waiting' \in [Clients -> Ids \cup {"idle"}]
          /\ UNCHANGED <<checksum, calls, requests, replies, lost, cur, executed>>
      BY <1>3 DEF Timeout, TypeOK, netVars, serverVars
    <2>2. results' \subseteq CallResult
      BY <2>1, ReturnType DEF TypeOK
    <2> QED BY <2>1, <2>2 DEF BaseInv, TypeOK, SendersOK, RepliesOK
  <1>4. ASSUME NEW m \in requests, ServerReceive(m) PROVE BaseInv'
    <2>1. /\ requests' \subseteq requests /\ cur' = {m}
          /\ UNCHANGED <<checksum, calls, waiting, results, replies, lost, executed>>
      BY <1>4 DEF ServerReceive, Taken, clientVars
    <2> QED BY <2>1 DEF BaseInv, TypeOK, SendersOK, RepliesOK
  <1>5. ASSUME NEW m \in cur, NEW status \in {"Ok", "Nop", "FatalErr"}, NEW sum \in Nat,
               NEW dummy \in BOOLEAN, reply_cur(m, status, sum, dummy),
               dummy <=> m.id = "HeartBeat",
               \/ m.id # "garbage" /\ executed' = executed \cup {<<m.from, m.n>>}
               \/ m.id = "garbage" /\ UNCHANGED executed,
               UNCHANGED <<clientVars, requests, lost>>
        PROVE  BaseInv'
    <2> DEFINE r == [to |-> m.from, n |-> m.n, id |-> m.id, callstatus |-> status,
                     checksum |-> sum, dummy |-> dummy]
    <2>1. /\ m.from \in Clients \cup Strangers /\ m.n \in Nat
          /\ m.id \in Ids \cup {"garbage"} /\ (m.id = "garbage" <=> m.from \in Strangers)
      BY RecordTypes DEF TypeOK, SendersOK
    <2>2. r \in Reply
      BY <2>1 DEF Reply
    <2>3. /\ replies' = replies \cup {r} /\ cur' = {}
          /\ UNCHANGED <<checksum, calls, waiting, results, requests, lost>>
      BY <1>5 DEF reply_cur, clientVars
    <2>4. executed' \subseteq Clients \X Nat /\ executed \subseteq executed'
      BY <1>5, <2>1 DEF TypeOK
    <2>5. TypeOK' /\ SendersOK'
      BY <2>2, <2>3, <2>4 DEF TypeOK, SendersOK
    <2>6. /\ r.id = "garbage" <=> r.to \in Strangers
          /\ r.dummy <=> r.id = "HeartBeat"
          /\ r.id # "garbage" => <<r.to, r.n>> \in executed'
      BY <1>5, <2>1
    <2> HIDE DEF r
    <2>7. RepliesOK'
      BY <2>3, <2>4, <2>6 DEF RepliesOK
    <2> QED BY <2>5, <2>7 DEF BaseInv
  <1>6. ASSUME NEW m \in cur, ServerReply(m) \/ ServerThrows(m) \/ ServerCannotDecode(m)
        PROVE  BaseInv'
    <2>1. m.checksum \in Nat
      BY RecordTypes DEF TypeOK
    <2>2. CASE ServerReply(m)
      BY <2>1, <2>2, <1>5 DEF ServerReply
    <2>3. CASE ServerThrows(m)
      BY <2>1, <2>3, <1>5 DEF ServerThrows
    <2>4. CASE ServerCannotDecode(m)
      BY <2>1, <2>4, <1>5 DEF ServerCannotDecode, invalid_checksum
    <2> QED BY <1>6, <2>2, <2>3, <2>4
  <1>7. CASE Lose
    <2>1. /\ requests' \subseteq requests /\ replies' \subseteq replies
          /\ \/ \E m \in requests : lost' = lost \cup {<<m.from, m.n>>}
             \/ \E r \in replies : lost' = lost \cup {<<r.to, r.n>>}
      BY <1>7 DEF Lose
    <2>3. lost' \subseteq (Clients \cup Strangers) \X Nat
      <3>1. /\ \A m \in requests : m.from \in Clients \cup Strangers /\ m.n \in Nat
            /\ \A r \in replies : r.to \in Clients \cup Strangers /\ r.n \in Nat
        BY RecordTypes DEF TypeOK
      <3> QED BY <2>1, <3>1 DEF TypeOK
    <2>2. UNCHANGED <<checksum, calls, waiting, results, cur, executed>>
      BY <1>7 DEF Lose, clientVars, serverVars
    <2> QED BY <2>1, <2>2, <2>3 DEF BaseInv, TypeOK, SendersOK, RepliesOK
  <1>8. ASSUME NEW s \in Strangers, StrangerSends(s) PROVE BaseInv'
    <2> DEFINE m == [from |-> s, n |-> 0, id |-> "garbage", checksum |-> invalid_checksum]
    <2>1. m \in Request
      BY DEF Request, invalid_checksum
    <2>2. /\ requests' = requests \cup {m}
          /\ UNCHANGED <<checksum, calls, waiting, results, replies, lost, cur, executed>>
      BY <1>8 DEF StrangerSends, clientVars, serverVars
    <2> QED BY <2>1, <2>2 DEF BaseInv, TypeOK, SendersOK, RepliesOK
  <1>9. CASE UNCHANGED vars
    BY <1>9 DEF vars, BaseInv, TypeOK, SendersOK, RepliesOK
  <1> QED
    BY <1>1, <1>2, <1>3, <1>4, <1>6, <1>7, <1>8, <1>9
       DEF Next, ClientStep, ServerStep, AllDone

(* TypeOK holds of every behaviour: results name calls and clients, and    *)
(* only calls of clients are executed.                                     *)
THEOREM BaseCorrect == Spec => []BaseInv
  BY InitBase, NextBase, PTL DEF Spec

-----------------------------------------------------------------------------
(* Steps that only move or lose datagrams: no datagram of a client appears *)
(* that was not there before.                                              *)
Fewer ==
    \A c \in Clients, n \in Nat, id \in Ids, sum \in Nat :
        Carried(c, n, id, sum)' => Carried(c, n, id, sum)

(* Taking datagrams away, or a request into the server, puts no new tag   *)
(* in flight.                                                             *)
LEMMA SubsetFewer ==
    ASSUME requests' \subseteq requests, cur' \subseteq cur \cup requests,
           replies' \subseteq replies
    PROVE  Fewer
  BY DEF Fewer, Carried

(* A reply carries the tag of the request it answers, so it brings no     *)
(* new tag.                                                               *)
LEMMA ReplyFewer ==
    ASSUME BaseInv, NEW m \in cur,
           ServerReply(m) \/ ServerThrows(m) \/ ServerCannotDecode(m)
    PROVE  Fewer
  <1>1. m.id = "garbage" => m.from \notin Clients
    BY StrangerAssumption DEF BaseInv, SendersOK
  <1>2. PICK status, sum, dummy :
          /\ requests' = requests /\ cur' = {}
          /\ replies' = replies \cup {[to |-> m.from, n |-> m.n, id |-> m.id,
                 callstatus |-> status, checksum |-> sum, dummy |-> dummy]}
          /\ m.id # "garbage" => sum = m.checksum
    BY ZenonT(60) DEF ServerReply, ServerThrows, ServerCannotDecode, reply_cur
  <1> QED BY <1>1, <1>2 DEF Fewer, Carried, Ids

(* The network and the server keep the invariant: they bring no new tag.  *)
LEMMA TransportInv ==
    ASSUME BaseInv, IndInv, Fewer, UNCHANGED clientVars
    PROVE  FlightInv' /\ BooksInv'
  <1>1. UNCHANGED <<checksum, calls, waiting, results>>
    BY DEF clientVars
  <1>2. NumbersOK' /\ OneTag'
    BY <1>1 DEF Fewer, IndInv, FlightInv, NumbersOK, OneTag
  <1>3. OpenTag'
    BY <1>1 DEF Fewer, IndInv, FlightInv, OpenTag, BaseInv, TypeOK
  <1>4. Spent'
    <2>1. \A res \in results : res.client \in Clients /\ res.of \in Nat
      BY RecordTypes DEF BaseInv, TypeOK
    <2> QED BY <1>1, <2>1 DEF Fewer, IndInv, FlightInv, Spent, Accepted
  <1>5. Late'
    BY <1>1 DEF Fewer, IndInv, FlightInv, Late, GivenUp, Ids
  <1>6. BooksInv'
    BY <1>1 DEF IndInv, BooksInv, ResultsOK, SameOf, Counted, AcceptedOnce,
                StaleOnlyAfterGivingUp
  <1> QED BY <1>2, <1>3, <1>4, <1>5, <1>6 DEF FlightInv

-----------------------------------------------------------------------------
(* A call that returns with the result q: what q may be.  It names no      *)
(* reply, or one that was in flight; a heartbeat's reply ends only a       *)
(* heartbeat, and an accepted user reply moves the checksum on.            *)
Returns(c, q) ==
    /\ results' = results \cup {q}
    /\ q.client = c /\ q.n = calls[c] /\ q.id = waiting[c]
    /\ waiting[c] # "idle" /\ waiting' = [waiting EXCEPT ![c] = "idle"]
    /\ UNCHANGED calls

NoReply(q) == q.of = 0 /\ q.ofId = "none" /\ q.code = "Timeout" /\ UNCHANGED checksum

HasReply(c, q, sum) ==
    /\ Carried(c, q.of, q.ofId, sum)
    /\ \/ /\ q.ofId = "HeartBeat" /\ q.id = "HeartBeat" /\ q.code = "Ok"
          /\ UNCHANGED checksum
       \/ /\ q.ofId = "User" /\ q.code \in {"Ok", "Err"} /\ sum = checksum[c]
          /\ checksum' = [checksum EXCEPT ![c] = @ + 1]
       \/ /\ q.ofId = "User" /\ q.code = "Fatal checksum"
          /\ UNCHANGED checksum

(* A call that returns keeps the invariant, whether it took a reply or    *)
(* gave up.                                                               *)
LEMMA ReturnInv ==
    ASSUME BaseInv, BaseInv', IndInv, Fewer, NEW c \in Clients, NEW q \in CallResult, Returns(c, q),
           NoReply(q) \/ \E sum \in Nat : HasReply(c, q, sum)
    PROVE  FlightInv' /\ BooksInv'
  <1> /\ NumbersOK /\ OneTag /\ OpenTag /\ Spent /\ Late
      /\ ResultsOK /\ SameOf /\ Counted /\ AcceptedOnce /\ StaleOnlyAfterGivingUp
    BY DEF IndInv, FlightInv, BooksInv
  <1>1. /\ calls[c] \in Nat /\ calls' = calls /\ checksum[c] \in Nat
        /\ \A d \in Clients : /\ checksum[d] \in Nat /\ checksum'[d] \in Nat
                              /\ checksum[d] <= checksum'[d]
                              /\ d # c => checksum'[d] = checksum[d] /\ waiting'[d] = waiting[d]
        /\ waiting'[c] = "idle"
    <2>1. checksum' = checksum \/ checksum' = [checksum EXCEPT ![c] = @ + 1]
      BY DEF NoReply, HasReply
    <2> QED BY <2>1 DEF Returns, BaseInv, TypeOK
  <1>2. \A res \in results : /\ res.client \in Clients /\ res.n \in Nat
                             /\ res.of \in Nat
                             /\ res.client = c => res.n # calls[c]
    <2>1. \A res \in results : res \in CallResult
      BY DEF BaseInv, TypeOK
    <2> QED BY <2>1, RecordTypes DEF ResultsOK, Returns
  <1>3. /\ q.client = c /\ q.n = calls[c] /\ q.id = waiting[c] /\ waiting[c] \in Ids
        /\ q.of \in Nat /\ q.ofId \in Ids \cup {"none"} /\ calls[c] # 0
        /\ results' = results \cup {q} /\ q \notin results
    BY <1>2, RecordTypes DEF Returns, BaseInv, TypeOK, ResultsOK
  \* the datagrams of the call whose reply q names, if it names one
  <1>4. \A id \in Ids, sum \in Nat : Carried(c, q.of, id, sum) =>
            /\ id = q.ofId /\ q.of \in 1 .. calls[c]
            /\ Accepted(q) => sum = checksum[c] /\ checksum'[c] = checksum[c] + 1
    <2> SUFFICES ASSUME NEW id \in Ids, NEW sum \in Nat, Carried(c, q.of, id, sum)
                 PROVE  /\ id = q.ofId /\ q.of \in 1 .. calls[c]
                        /\ Accepted(q) => /\ sum = checksum[c]
                                          /\ checksum'[c] = checksum[c] + 1
      OBVIOUS
    <2>1. q.of \in 1 .. calls[c]
      BY <1>3 DEF NumbersOK
    <2>2. PICK s \in Nat : HasReply(c, q, s)
      BY <1>1, <2>1 DEF NoReply
    <2>3. Carried(c, q.of, q.ofId, s) /\ q.ofId \in Ids
      BY <2>2 DEF HasReply, Ids
    <2>4. id = q.ofId /\ sum = s
      BY <1>3, <2>3 DEF OneTag
    <2>5. Accepted(q) => s = checksum[c] /\ checksum' = [checksum EXCEPT ![c] = @ + 1]
      BY <2>2 DEF HasReply, Accepted
    <2> QED BY <2>1, <2>4, <2>5 DEF BaseInv, TypeOK
  <1>5. NumbersOK' /\ OneTag'
    <2>1. NumbersOK'
      BY <1>1 DEF Fewer, NumbersOK
    <2>2. OneTag'
      BY DEF Fewer, OneTag
    <2> QED BY <2>1, <2>2
  <1>6. OpenTag'
    BY <1>1 DEF Fewer, OpenTag, BaseInv, TypeOK
  <1>7. Spent'
    <2> SUFFICES ASSUME NEW res \in results', NEW id \in Ids, NEW sum \in Nat,
                        Carried(res.client, res.of, id, sum)'
                 PROVE  id = res.ofId /\ (Accepted(res) => sum < checksum'[res.client])
      BY DEF Spent, Accepted
    <2>1. CASE res \in results
      <3>1. res.client \in Clients /\ res.of \in Nat
        BY <1>2, <2>1
      <3>2. Carried(res.client, res.of, id, sum)
        BY <3>1 DEF Fewer
      <3>3. id = res.ofId /\ (Accepted(res) => sum < checksum[res.client])
        BY <2>1, <3>2 DEF Spent
      <3> QED BY <1>1, <3>1, <3>3
    <2>2. CASE res = q
      <3>1. Carried(c, q.of, id, sum)
        BY <1>3, <2>2 DEF Fewer
      <3> QED BY <1>1, <1>3, <1>4, <2>2, <3>1
    <2> QED BY <1>3, <2>1, <2>2
  <1>8. Late'
    <2> SUFFICES ASSUME NEW d \in Clients, NEW n \in Nat, NEW sum \in Nat,
                        Carried(d, n, "User", sum)'
                 PROVE  \/ waiting'[d] # "idle" /\ n = calls[d]
                        \/ GivenUp(d, n)'
                        \/ sum < checksum'[d]
      BY <1>1 DEF Late
    <2>1. Carried(d, n, "User", sum) /\ "User" \in Ids
      BY DEF Fewer, Ids
    <2>2. GivenUp(d, n) => GivenUp(d, n)'
      BY <1>3 DEF GivenUp
    <2>3. CASE d # c
      BY <1>1, <2>1, <2>2, <2>3 DEF Late
    <2>4. CASE d = c /\ n # calls[c]
      BY <1>1, <2>1, <2>2, <2>4 DEF Late
    <2>5. CASE d = c /\ n = calls[c]
      <3>1. q.id = "User"
        BY <1>3, <2>1, <2>5 DEF OpenTag, Returns
      <3>2. CASE q.code \in {"Timeout", "Fatal checksum"}
        BY <1>3, <2>5, <3>2 DEF GivenUp
      <3>3. CASE q.code \notin {"Timeout", "Fatal checksum"}
        <4>1. checksum'[c] = checksum[c] + 1
          BY <3>1, <3>3 DEF NoReply, HasReply, BaseInv, TypeOK
        <4>2. sum <= checksum[c]
          BY <2>1, <2>5 DEF NumbersOK
        <4> QED BY <1>1, <2>5, <4>1, <4>2
      <3> QED BY <3>2, <3>3
    <2> QED BY <2>3, <2>4, <2>5
  <1>9. ResultsOK'
    <2>1. IsFiniteSet(results')
      BY <1>3, FS_AddElement DEF ResultsOK
    <2>2. q.of \in 0 .. calls[c] /\ q.n \in 1 .. calls[c]
      <3>1. CASE NoReply(q)
        BY <1>1, <1>3, <3>1 DEF NoReply
      <3>2. ASSUME NEW sum \in Nat, HasReply(c, q, sum) PROVE q.of \in 1 .. calls[c]
        <4>1. Carried(c, q.of, q.ofId, sum) /\ q.ofId \in Ids
          BY <3>2 DEF HasReply, Ids
        <4> QED BY <1>4, <4>1
      <3> QED BY <1>1, <1>3, <3>1, <3>2
    <2>3. q.id = "User" => q.ofId # "HeartBeat"
      BY DEF NoReply, HasReply
    <2>4. \A res \in results' :
            /\ res.client \in Clients
            /\ res.n \in 1 .. calls[res.client]
            /\ res.of \in 0 .. calls[res.client]
            /\ res.client # c /\ waiting[res.client] # "idle" => res.n # calls[res.client]
      <3> SUFFICES ASSUME NEW res \in results'
                   PROVE  /\ res.client \in Clients
                          /\ res.n \in 1 .. calls[res.client]
                          /\ res.of \in 0 .. calls[res.client]
                          /\ res.client # c /\ waiting[res.client] # "idle" =>
                                res.n # calls[res.client]
        OBVIOUS
      <3>1. CASE res \in results
        <4>1. res.client \in Clients
          BY <1>2, <3>1
        <4> QED BY <3>1, <4>1 DEF ResultsOK
      <3>2. CASE res = q
        BY <1>3, <2>2, <3>2
      <3> QED BY <1>3, <3>1, <3>2
    <2>5. \A res \in results' : res.id = "User" => res.ofId # "HeartBeat"
      BY <1>3, <2>3 DEF ResultsOK
    <2> QED BY <1>1, <2>1, <2>4, <2>5 DEF ResultsOK
  \* q names no reply that an older result names with another id
  <1>10. \A res \in results : res.client = c /\ res.of = q.of /\ q.of # 0 =>
            /\ res.ofId = q.ofId
            /\ ~(Accepted(res) /\ Accepted(q))
    <2> SUFFICES ASSUME NEW res \in results, res.client = c, res.of = q.of, q.of # 0
                 PROVE  res.ofId = q.ofId /\ ~(Accepted(res) /\ Accepted(q))
      OBVIOUS
    <2>1. PICK sum \in Nat : HasReply(c, q, sum)
      BY DEF NoReply
    <2>2. Carried(res.client, res.of, q.ofId, sum) /\ q.ofId \in Ids
      BY <2>1 DEF HasReply, Ids
    <2>3. q.ofId = res.ofId /\ (Accepted(res) => sum < checksum[c])
      BY <2>2 DEF Spent
    <2>4. Accepted(q) => sum = checksum[c]
      BY <2>1 DEF HasReply, Accepted
    <2> QED BY <1>1, <2>3, <2>4
  <1>11. SameOf'
    BY <1>3, <1>10 DEF SameOf
  <1>12. AcceptedOnce'
    <2> SUFFICES ASSUME NEW r1 \in results', NEW r2 \in results',
                        r1.client = r2.client, r1.of = r2.of, r1.of # 0, r1.ofId = "User",
                        r1.code \in {"Ok", "Err"}, r2.code \in {"Ok", "Err"}
                 PROVE  r1 = r2
      BY DEF AcceptedOnce
    <2>1. r2.ofId = "User"
      BY <1>11 DEF SameOf
    <2>2. CASE r1 \in results /\ r2 \in results
      BY <2>2 DEF AcceptedOnce
    <2>3. CASE r1 \in results /\ r2 = q
      BY <1>3, <1>10, <2>1, <2>3 DEF Accepted
    <2>4. CASE r2 \in results /\ r1 = q
      BY <1>3, <1>10, <2>1, <2>4 DEF Accepted
    <2> QED BY <1>3, <2>2, <2>3, <2>4
  <1>13. StaleOnlyAfterGivingUp'
    <2> SUFFICES ASSUME NEW res \in results', res.id = "User", res.code \in {"Ok", "Err"},
                        res.of \notin {0, res.n}
                 PROVE  \E old \in results' :
                            /\ old.client = res.client
                            /\ old.n = res.of /\ old.n < res.n
                            /\ old.code \in {"Timeout", "Fatal checksum"}
      BY DEF StaleOnlyAfterGivingUp
    <2>1. CASE res \in results
      BY <1>3, <2>1 DEF StaleOnlyAfterGivingUp
    <2>2. CASE res = q
      <3>1. PICK sum \in Nat : HasReply(c, q, sum)
        BY <2>2 DEF NoReply
      <3>2. Carried(c, q.of, "User", sum) /\ sum = checksum[c] /\ q.of # calls[c]
        BY <1>3, <2>2, <3>1 DEF HasReply
      <3>3. GivenUp(c, q.of)
        BY <1>1, <1>3, <3>2 DEF Late
      <3>4. q.of < calls[c]
        BY <1>1, <1>4, <3>2 DEF Ids
      <3> QED BY <1>3, <2>2, <3>3, <3>4 DEF GivenUp
    <2> QED BY <1>3, <2>1, <2>2
  <1>14. Counted'
    <2> DEFINE Own(R, d) == {res \in R : res.client = d /\ res.ofId = "User"
                                          /\ res.code \in {"Ok", "Err"}}
    <2> SUFFICES ASSUME NEW d \in Clients
                 PROVE  checksum'[d] = 1 + Cardinality(Own(results', d))
      BY DEF Counted
    <2>1. /\ checksum[d] = 1 + Cardinality(Own(results, d))
          /\ IsFiniteSet(results) /\ Own(results, d) \subseteq results
      BY DEF Counted, ResultsOK
    <2>2. IsFiniteSet(Own(results, d)) /\ Cardinality(Own(results, d)) \in Nat
      BY <2>1, FS_Subset, FS_CardinalityType
    <2>3. CASE d = c /\ Accepted(q)
      <3>1. Own(results', d) = Own(results, d) \cup {q} /\ q \notin Own(results, d)
        BY <1>3, <2>3 DEF Accepted
      <3>2. Cardinality(Own(results', d)) = Cardinality(Own(results, d)) + 1
        BY <2>2, <3>1, FS_AddElement
      <3>3. checksum'[c] = checksum[c] + 1
        BY <2>3 DEF NoReply, HasReply, Accepted, BaseInv, TypeOK
      <3> HIDE DEF Own
      <3> QED BY <2>1, <2>2, <2>3, <3>2, <3>3
    <2>4. CASE ~(d = c /\ Accepted(q))
      <3>1. Own(results', d) = Own(results, d)
        BY <1>3, <2>4 DEF Accepted
      <3>2. checksum'[d] = checksum[d]
        <4>1. CASE d # c
          BY <1>1, <4>1
        <4>2. CASE d = c
          BY <2>4, <4>2 DEF NoReply, HasReply, Accepted
        <4> QED BY <4>1, <4>2
      <3> QED BY <2>1, <3>1, <3>2
    <2> QED BY <2>3, <2>4
  <1> QED
    BY <1>5, <1>6, <1>7, <1>8, <1>9, <1>11, <1>12, <1>13, <1>14 DEF FlightInv, BooksInv

-----------------------------------------------------------------------------
(* A new call: its number is fresh, so no datagram and no result of its    *)
(* client is about it, and a request that cannot be sent returns at once.  *)
LEMMA CallInv ==
    ASSUME BaseInv, BaseInv', IndInv, NEW c \in Clients, NEW id \in Ids, Call(c, id)
    PROVE  FlightInv' /\ BooksInv'
  <1> /\ NumbersOK /\ OneTag /\ OpenTag /\ Spent /\ Late
      /\ ResultsOK /\ SameOf /\ Counted /\ AcceptedOnce /\ StaleOnlyAfterGivingUp
    BY DEF IndInv, FlightInv, BooksInv
  <1> DEFINE n0 == calls[c] + 1
             q == [client |-> c, n |-> n0, id |-> id, code |-> "Err",
                   of |-> 0, ofId |-> "none"]
  <1>1. /\ calls[c] \in Nat /\ calls'[c] = n0 /\ n0 \in Nat /\ checksum' = checksum
        /\ \A d \in Clients : /\ calls[d] \in Nat /\ calls'[d] \in Nat
                              /\ checksum[d] \in Nat
                              /\ d # c => calls'[d] = calls[d] /\ waiting'[d] = waiting[d]
        /\ waiting[c] = "idle" /\ waiting'[c] \in {"idle", id} /\ id # "idle"
    BY DEF Call, SendFails, BaseInv, TypeOK, Ids
  <1>2. \/ results' = results
        \/ results' = results \cup {q} /\ waiting'[c] = "idle"
    BY DEF Call, SendFails, Return, BaseInv, TypeOK
  <1> /\ q.client = c /\ q.n = n0 /\ q.id = id /\ q.code = "Err" /\ q.of = 0
      /\ q.ofId = "none"
    OBVIOUS
  <1> HIDE DEF q
  <1>3. \A res \in results : /\ res.client \in Clients /\ res.n \in Nat
                             /\ res.of \in Nat
                             /\ res.client = c => res.n # n0 /\ res.of # n0
    <2>1. \A res \in results : res \in CallResult
      BY DEF BaseInv, TypeOK
    <2>2. \A res \in results : res.client \in Clients /\ res.n \in Nat /\ res.of \in Nat
      BY <2>1, RecordTypes
    <2> QED BY <1>1, <2>2 DEF ResultsOK
  <1>4. ASSUME NEW d \in Clients, NEW n \in Nat, NEW i \in Ids, NEW sum \in Nat,
               Carried(d, n, i, sum)'
        PROVE  \/ /\ Carried(d, n, i, sum) /\ n \in 1 .. calls[d] /\ sum <= checksum[d]
                  /\ d = c => n # n0
               \/ d = c /\ n = n0 /\ i = id /\ sum = checksum[c] /\ waiting'[c] = id
    <2> DEFINE m == [from |-> c, n |-> n0, id |-> id, checksum |-> checksum[c]]
    <2>1. UNCHANGED <<replies, cur>>
      BY DEF Call, serverVars
    <2>2. \/ requests' = requests
          \/ requests' = requests \cup {m} /\ waiting'[c] = id
      BY DEF Call, SendFails, BaseInv, TypeOK
    <2>3. CASE Carried(d, n, i, sum)
      BY <1>1, <2>3 DEF NumbersOK
    <2>4. CASE ~Carried(d, n, i, sum)
      BY <1>4, <2>1, <2>2, <2>4 DEF Carried
    <2> QED BY <2>3, <2>4
  <1>5. NumbersOK'
    BY <1>1, <1>4 DEF NumbersOK
  <1>6. OneTag'
    <2> SUFFICES ASSUME NEW d \in Clients, NEW n \in Nat, NEW id1 \in Ids, NEW id2 \in Ids,
                        NEW sum1 \in Nat, NEW sum2 \in Nat,
                        Carried(d, n, id1, sum1)', Carried(d, n, id2, sum2)'
                 PROVE  id1 = id2 /\ sum1 = sum2
      BY DEF OneTag
    <2>1. \/ Carried(d, n, id1, sum1) /\ (d = c => n # n0)
          \/ d = c /\ n = n0 /\ id1 = id /\ sum1 = checksum[c]
      BY <1>4
    <2>2. \/ Carried(d, n, id2, sum2) /\ (d = c => n # n0)
          \/ d = c /\ n = n0 /\ id2 = id /\ sum2 = checksum[c]
      BY <1>4
    <2> QED BY <2>1, <2>2 DEF OneTag
  <1>7. OpenTag'
    BY <1>1, <1>4 DEF OpenTag
  <1>8. Spent'
    <2> SUFFICES ASSUME NEW res \in results', NEW i \in Ids, NEW sum \in Nat,
                        Carried(res.client, res.of, i, sum)'
                 PROVE  i = res.ofId /\ (Accepted(res) => sum < checksum'[res.client])
      BY DEF Spent, Accepted
    <2>1. CASE res \in results
      <3>1. res.client \in Clients /\ res.of \in Nat /\ (res.client = c => res.of # n0)
        BY <1>3, <2>1
      <3>2. Carried(res.client, res.of, i, sum)
        BY <1>4, <3>1
      <3> QED BY <1>1, <2>1, <3>2 DEF Spent
    <2>2. CASE res = q
      <3>1. Carried(c, 0, i, sum)'
        BY <2>2
      <3> QED BY <1>1, <1>4, <3>1
    <2> QED BY <1>2, <2>1, <2>2
  <1>9. Late'
    <2> SUFFICES ASSUME NEW d \in Clients, NEW n \in Nat, NEW sum \in Nat,
                        Carried(d, n, "User", sum)'
                 PROVE  \/ waiting'[d] # "idle" /\ n = calls'[d]
                        \/ GivenUp(d, n)'
                        \/ sum < checksum'[d]
      BY DEF Late
    <2>1. GivenUp(d, n) => GivenUp(d, n)'
      BY <1>2 DEF GivenUp
    <2>2. CASE Carried(d, n, "User", sum)
      BY <1>1, <2>1, <2>2 DEF Late
    <2>3. CASE ~Carried(d, n, "User", sum)
      BY <1>1, <1>4, <2>3 DEF Ids
    <2> QED BY <2>2, <2>3
  <1>10. ResultsOK'
    <2>1. IsFiniteSet(results')
      BY <1>2, FS_AddElement DEF ResultsOK
    <2>2. \A d \in Clients : waiting'[d] # "idle" => calls'[d] # 0
      BY <1>1 DEF ResultsOK
    <2>3. ASSUME NEW res \in results'
          PROVE  /\ res.n \in 1 .. calls'[res.client]
                 /\ res.of \in 0 .. calls'[res.client]
                 /\ waiting'[res.client] # "idle" => res.n # calls'[res.client]
                 /\ res.id = "User" => res.ofId # "HeartBeat"
      <3>1. CASE res \in results
        <4>1. /\ res.client \in Clients
              /\ res.n \in 1 .. calls[res.client] /\ res.of \in 0 .. calls[res.client]
              /\ waiting[res.client] # "idle" => res.n # calls[res.client]
              /\ res.id = "User" => res.ofId # "HeartBeat"
              /\ res.client = c => res.n # n0
          BY <1>3, <3>1 DEF ResultsOK
        <4> QED BY <1>1, <4>1
      <3>2. CASE res = q /\ waiting'[c] = "idle"
        BY <1>1, <3>2
      <3> QED BY <1>2, <3>1, <3>2
    <2> QED BY <2>1, <2>2, <2>3 DEF ResultsOK
  <1>11. SameOf' /\ AcceptedOnce' /\ StaleOnlyAfterGivingUp'
    <2>1. \A r1 \in results' : r1 \in results \/ r1 = q
      BY <1>2
    <2>2. SameOf'
      BY <2>1 DEF SameOf
    <2>3. AcceptedOnce'
      BY <2>1 DEF AcceptedOnce
    <2>4. StaleOnlyAfterGivingUp'
      BY <1>2, <2>1 DEF StaleOnlyAfterGivingUp
    <2> QED BY <2>2, <2>3, <2>4
  <1>12. Counted'
    <2> SUFFICES ASSUME NEW d \in Clients
                 PROVE  {res \in results' :
                            res.client = d /\ res.ofId = "User" /\ res.code \in {"Ok", "Err"}}
                        = {res \in results :
                            res.client = d /\ res.ofId = "User" /\ res.code \in {"Ok", "Err"}}
      BY <1>1 DEF Counted
    <2> QED BY <1>2
  <1> QED
    BY <1>5, <1>6, <1>7, <1>8, <1>9, <1>10, <1>11, <1>12 DEF FlightInv, BooksInv

(* The books are empty at the start.                                      *)
LEMMA InitIndInv == Init => IndInv
  <1> SUFFICES ASSUME Init PROVE IndInv
    OBVIOUS
  <1>1. \A c, n, id, sum : ~Carried(c, n, id, sum)
    BY DEF Init, Carried
  <1>2. FlightInv
    BY <1>1 DEF Init, FlightInv, NumbersOK, OneTag, OpenTag, Spent, Late
  <1>3. Counted
    <2>1. \A c \in Clients : {res \in results :
              res.client = c /\ res.ofId = "User" /\ res.code \in {"Ok", "Err"}} = {}
      BY DEF Init
    <2> QED BY <2>1, FS_EmptySet DEF Init, Counted, invalid_checksum
  <1>4. ResultsOK
    BY FS_EmptySet DEF Init, ResultsOK
  <1>5. Executed
    BY BoundAssumption DEF Init, Executed
  <1> QED
    BY <1>2, <1>3, <1>4, <1>5 DEF Init, IndInv, BooksInv, SameOf, AcceptedOnce,
                                  StaleOnlyAfterGivingUp

(* A reply that a client takes: the call returns with it, or goes on.      *)
LEMMA ReceiveReplyInv ==
    ASSUME BaseInv, BaseInv', IndInv, NEW c \in Clients, NEW r \in replies,
           ReceiveReply(c, r)
    PROVE  FlightInv' /\ BooksInv'
  <1>1. /\ UNCHANGED <<calls, requests, cur>> /\ replies' \subseteq replies
        /\ waiting[c] # "idle" /\ r.to = c
    BY DEF ReceiveReply, Taken, serverVars
  <1>2. Fewer
    BY <1>1, SubsetFewer
  <1>3. /\ r.n \in Nat /\ r.id \in Ids /\ r.checksum \in Nat /\ waiting[c] \in Ids
        /\ r.dummy <=> r.id = "HeartBeat"
        /\ calls[c] \in Nat
    BY <1>1, RecordTypes, StrangerAssumption DEF BaseInv, TypeOK, RepliesOK
  <1>4. Carried(c, r.n, r.id, r.checksum)
    BY <1>1 DEF Carried
  <1>5. ASSUME NEW code \in {"Ok", "Err", "Fatal checksum"}, Finish(c, code, r),
               \/ r.dummy /\ waiting[c] = "HeartBeat" /\ code = "Ok" /\ UNCHANGED checksum
               \/ /\ ~r.dummy /\ code \in {"Ok", "Err"} /\ r.checksum = checksum[c]
                  /\ checksum' = [checksum EXCEPT ![c] = @ + 1]
               \/ ~r.dummy /\ code = "Fatal checksum" /\ UNCHANGED checksum
        PROVE  FlightInv' /\ BooksInv'
    <2> DEFINE q == [client |-> c, n |-> calls[c], id |-> waiting[c], code |-> code,
                     of |-> r.n, ofId |-> r.id]
    <2>1. q \in CallResult
      BY <1>3 DEF CallResult
    <2>2. Returns(c, q)
      BY <1>1, <1>5 DEF Returns, Finish, Return
    <2>3. HasReply(c, q, r.checksum)
      BY <1>3, <1>4, <1>5 DEF HasReply, Ids
    <2> HIDE DEF q
    <2> QED BY <1>2, <1>3, <2>1, <2>2, <2>3, ReturnInv
  <1>6. CASE UNCHANGED <<checksum, waiting, results>>
    <2>1. UNCHANGED clientVars
      BY <1>1, <1>6 DEF clientVars
    <2> QED BY <1>2, <2>1, TransportInv
  <1> QED BY <1>5, <1>6, ReplyCases

(* Every action keeps the books of tags and results.                      *)
LEMMA NextIndInv == BaseInv /\ BaseInv' /\ IndInv /\ [Next]_vars => IndInv'
  <1> SUFFICES ASSUME BaseInv, BaseInv', IndInv, [Next]_vars PROVE IndInv'
    OBVIOUS
  <1> Executed
    BY DEF IndInv
  <1>1. ASSUME NEW c \in Clients, NEW id \in Ids, Call(c, id) PROVE IndInv'
    <2>1. FlightInv' /\ BooksInv'
      BY <1>1, CallInv
    <2>2. /\ executed' = executed /\ calls[c] < MaxCalls
          /\ calls' = [calls EXCEPT ![c] = @ + 1]
      BY <1>1 DEF Call, serverVars
    <2>3. \A d \in Clients : calls[d] \in Nat /\ calls'[d] \in Nat /\ calls[d] <= calls'[d]
      BY <2>2 DEF BaseInv, TypeOK
    <2>4. \A call \in executed : call[1] \in Clients /\ call[2] \in Nat
      BY DEF BaseInv, TypeOK
    <2>5. Executed'
      BY <2>2, <2>3, <2>4, BoundAssumption DEF Executed, BaseInv, TypeOK
    <2> QED BY <2>1, <2>5 DEF IndInv
  <1>2. ASSUME NEW c \in Clients, NEW r \in replies, ReceiveReply(c, r) PROVE IndInv'
    <2>1. UNCHANGED <<calls, executed>>
      BY <1>2 DEF ReceiveReply, serverVars
    <2> QED BY <1>2, <2>1, ReceiveReplyInv DEF IndInv, Executed
  <1>3. ASSUME NEW c \in Clients, Timeout(c) PROVE IndInv'
    <2> DEFINE q == [client |-> c, n |-> calls[c], id |-> waiting[c], code |-> "Timeout",
                     of |-> 0, ofId |-> "none"]
    <2>1. /\ UNCHANGED <<checksum, calls, requests, replies, cur, executed>>
          /\ waiting[c] \in Ids /\ calls[c] \in Nat
      BY <1>3 DEF Timeout, netVars, serverVars, BaseInv, TypeOK
    <2>2. Fewer
      BY <2>1, SubsetFewer
    <2>3. q \in CallResult
      BY <2>1 DEF CallResult
    <2>4. Returns(c, q) /\ NoReply(q)
      BY <1>3, <2>1 DEF Timeout, Return, Returns, NoReply
    <2> HIDE DEF q
    <2>5. FlightInv' /\ BooksInv'
      BY <2>2, <2>3, <2>4, ReturnInv
    <2> QED BY <2>1, <2>5 DEF IndInv, Executed
  <1>4. ASSUME Fewer, UNCHANGED clientVars, Executed' PROVE IndInv'
    BY <1>4, TransportInv DEF IndInv
  <1>5. ASSUME NEW m \in requests, ServerReceive(m) PROVE IndInv'
    <2>1. /\ requests' \subseteq requests /\ cur' = {m} /\ replies' = replies
          /\ executed' = executed /\ UNCHANGED clientVars
      BY <1>5 DEF ServerReceive, Taken
    <2>2. Executed'
      BY <2>1 DEF Executed, clientVars
    <2> QED BY <1>4, <2>1, <2>2, SubsetFewer
  <1>6. ASSUME NEW m \in cur, ServerReply(m) \/ ServerThrows(m) \/ ServerCannotDecode(m)
        PROVE  IndInv'
    <2>1. /\ UNCHANGED clientVars /\ UNCHANGED calls
          /\ \/ executed' = executed
             \/ m.id # "garbage" /\ executed' = executed \cup {<<m.from, m.n>>}
      BY <1>6 DEF ServerReply, ServerThrows, ServerCannotDecode, clientVars
    <2>2. m.id # "garbage" => m.n \in 1 .. calls[m.from]
      <3>1. /\ m.n \in Nat /\ m.id \in Ids \cup {"garbage"} /\ m.checksum \in Nat
            /\ m.id # "garbage" => m.from \in Clients
        BY RecordTypes DEF BaseInv, TypeOK, SendersOK
      <3>2. Carried(m.from, m.n, m.id, m.checksum)
        BY DEF Carried
      <3> QED BY <3>1, <3>2 DEF IndInv, FlightInv, NumbersOK
    <2>3. Executed'
      BY <2>1, <2>2 DEF Executed
    <2> QED BY <1>4, <1>6, <2>1, <2>3, ReplyFewer
  <1>7. CASE Lose
    <2>1. /\ requests' \subseteq requests /\ replies' \subseteq replies
          /\ UNCHANGED <<cur, executed>> /\ UNCHANGED clientVars
      BY <1>7 DEF Lose, serverVars
    <2>2. Executed'
      BY <2>1 DEF Executed, clientVars
    <2> QED BY <1>4, <2>1, <2>2, SubsetFewer
  <1>8. ASSUME NEW s \in Strangers, StrangerSends(s) PROVE IndInv'
    <2>1. /\ requests' = requests \cup
                {[from |-> s, n |-> 0, id |-> "garbage", checksum |-> invalid_checksum]}
          /\ UNCHANGED <<replies, cur, executed>> /\ UNCHANGED clientVars
      BY <1>8 DEF StrangerSends, serverVars
    <2>2. Fewer
      BY <2>1 DEF Fewer, Carried, Ids
    <2>3. Executed'
      BY <2>1 DEF Executed, clientVars
    <2> QED BY <1>4, <2>1, <2>2, <2>3
  <1>9. CASE UNCHANGED vars
    <2>1. /\ UNCHANGED <<requests, cur, replies, executed>> /\ UNCHANGED clientVars
      BY <1>9 DEF vars, clientVars
    <2>2. Executed'
      BY <2>1 DEF Executed, clientVars
    <2> QED BY <1>4, <2>1, <2>2, SubsetFewer
  <1> QED
    BY <1>1, <1>2, <1>3, <1>5, <1>6, <1>7, <1>8, <1>9
       DEF Next, ClientStep, ServerStep, AllDone

(* The inductive invariant of the RPC, on any network: every accepted     *)
(* reply carries a tag that its client had sent and had not accepted      *)
(* before.                                                                *)
THEOREM IndCorrect == Spec => [](BaseInv /\ IndInv)
  <1>1. Init => BaseInv /\ IndInv
    BY InitBase, InitIndInv
  <1>2. (BaseInv /\ IndInv) /\ [Next]_vars => (BaseInv /\ IndInv)'
    BY NextBase, NextIndInv
  <1> QED BY <1>1, <1>2, PTL DEF Spec

(* However datagrams are lost, delayed, reordered and duplicated, and      *)
(* whenever calls time out, a reply to a user call is accepted at most     *)
(* once.                                                                   *)
THEOREM AcceptedOnceCorrect == Spec => []AcceptedOnce
  <1>1. BaseInv /\ IndInv => AcceptedOnce
    BY DEF IndInv, BooksInv
  <1> QED BY <1>1, IndCorrect, PTL

(* The only stale reply a user call can accept is that of an earlier call  *)
(* of its own client that was given up.                                    *)
THEOREM StaleCorrect == Spec => []StaleOnlyAfterGivingUp
  <1>1. BaseInv /\ IndInv => StaleOnlyAfterGivingUp
    BY DEF IndInv, BooksInv
  <1> QED BY <1>1, IndCorrect, PTL

(* No user call ends on a heartbeat's reply, and the checksum of a client  *)
(* is one more than the number of user replies it has accepted.            *)
THEOREM HeartbeatsCorrect == Spec => []HeartbeatsAreIgnored
  <1>1. BaseInv /\ IndInv => HeartbeatsAreIgnored
    BY DEF IndInv, BooksInv, ResultsOK, Counted, HeartbeatsAreIgnored
  <1> QED BY <1>1, IndCorrect, PTL

-----------------------------------------------------------------------------
(* Where only heartbeats are late or duplicated.                           *)

(* A datagram's fields are those of a message in flight.                   *)
LEMMA Sent ==
    ASSUME BaseInv
    PROVE  /\ \A m \in requests \cup cur :
                  /\ m \in Request
                  /\ m.from \in Clients =>
                        /\ m.n \in Nat /\ m.id \in Ids /\ m.checksum \in Nat
                        /\ Carried(m.from, m.n, m.id, m.checksum)
                  /\ m.id = "User" => m.from \in Clients
           /\ \A r \in replies :
                  /\ r \in Reply
                  /\ r.to \in Clients =>
                        /\ r.n \in Nat /\ r.id \in Ids /\ r.checksum \in Nat
                        /\ Carried(r.to, r.n, r.id, r.checksum)
                  /\ r.id = "User" => r.to \in Clients
  <1>1. ASSUME NEW m \in requests \cup cur
        PROVE  /\ m \in Request
               /\ m.from \in Clients =>
                     /\ m.n \in Nat /\ m.id \in Ids /\ m.checksum \in Nat
                     /\ Carried(m.from, m.n, m.id, m.checksum)
               /\ m.id = "User" => m.from \in Clients
    <2>1. m \in Request
      BY DEF BaseInv, TypeOK
    <2>2. Carried(m.from, m.n, m.id, m.checksum)
      BY DEF Carried
    <2> QED BY <2>1, <2>2, RecordTypes, StrangerAssumption DEF BaseInv, SendersOK
  <1>2. ASSUME NEW r \in replies
        PROVE  /\ r \in Reply
               /\ r.to \in Clients =>
                     /\ r.n \in Nat /\ r.id \in Ids /\ r.checksum \in Nat
                     /\ Carried(r.to, r.n, r.id, r.checksum)
               /\ r.id = "User" => r.to \in Clients
    <2>1. r \in Reply
      BY DEF BaseInv, TypeOK
    <2>2. Carried(r.to, r.n, r.id, r.checksum)
      BY DEF Carried
    <2> QED BY <2>1, <2>2, RecordTypes, StrangerAssumption DEF BaseInv, RepliesOK
  <1> QED BY <1>1, <1>2

(* Two datagrams of the same call have the same id and the same checksum.  *)
LEMMA SameTag ==
    ASSUME BaseInv, OneTag
    PROVE  /\ \A m1, m2 \in requests \cup cur :
                  m1.from \in Clients /\ m1.from = m2.from /\ m1.n = m2.n
                    => m1.id = m2.id /\ m1 = m2
           /\ \A m \in requests \cup cur, r \in replies :
                  m.from \in Clients /\ m.from = r.to /\ m.n = r.n
                    => m.id = r.id /\ m.checksum = r.checksum
           /\ \A r1, r2 \in replies :
                  r1.to \in Clients /\ r1.to = r2.to /\ r1.n = r2.n
                    => r1.id = r2.id /\ r1.checksum = r2.checksum
  <1>1. ASSUME NEW m1 \in requests \cup cur, NEW m2 \in requests \cup cur,
               m1.from \in Clients, m1.from = m2.from, m1.n = m2.n
        PROVE  m1.id = m2.id /\ m1 = m2
    <2>1. m1.id = m2.id /\ m1.checksum = m2.checksum
      BY <1>1, Sent DEF OneTag
    <2>2. m1 \in Request /\ m2 \in Request
      BY Sent
    <2> QED BY <1>1, <2>1, <2>2 DEF Request
  <1>2. ASSUME NEW m \in requests \cup cur, NEW r \in replies,
               m.from \in Clients, m.from = r.to, m.n = r.n
        PROVE  m.id = r.id /\ m.checksum = r.checksum
    BY <1>2, Sent DEF OneTag
  <1>3. ASSUME NEW r1 \in replies, NEW r2 \in replies,
               r1.to \in Clients, r1.to = r2.to, r1.n = r2.n
        PROVE  r1.id = r2.id /\ r1.checksum = r2.checksum
    BY <1>3, Sent DEF OneTag
  <1> QED BY <1>1, <1>2, <1>3

(* Nothing is in flight at the start.                                     *)
LEMMA InitQuiet == Init => QuietInv
  <1> SUFFICES ASSUME Init PROVE QuietInv
    OBVIOUS
  <1>1. \A c, n, id, sum : ~Carried(c, n, id, sum)
    BY DEF Init, Carried
  <1> QED
    BY <1>1 DEF Init, QuietInv, UserOpen, OnePlace, LostOrInFlight, ReplyAnswersCall,
                NoSpuriousTimeout

(* Steps of the network and of the server leave the clients as they are.   *)
LEMMA QuietTransport ==
    ASSUME BaseInv, IndInv, QuietInv, Fewer, UNCHANGED clientVars, OnePlace',
           LostOrInFlight', lost \subseteq lost'
    PROVE  QuietInv'
  <1>1. UNCHANGED <<checksum, calls, waiting, results>>
    BY DEF clientVars
  <1>2. UserOpen'
    BY <1>1 DEF QuietInv, UserOpen, Fewer, Ids
  <1>3. ReplyAnswersCall' /\ NoSpuriousTimeout'
    BY <1>1 DEF QuietInv, ReplyAnswersCall, NoSpuriousTimeout
  <1> QED BY <1>2, <1>3 DEF QuietInv

(* On a quiet network the server takes a request away from where it was.  *)
LEMMA QuietReceive ==
    ASSUME Quiet, BaseInv, IndInv, QuietInv, NEW m \in requests, ServerReceive(m)
    PROVE  QuietInv'
  <1> UserOpen /\ OnePlace /\ LostOrInFlight /\ OneTag
    BY DEF QuietInv, IndInv, FlightInv
  <1>1. /\ requests' \subseteq requests /\ requests \subseteq requests' \cup {m}
        /\ m.id = "User" => requests' = requests \ {m}
        /\ cur = {} /\ cur' = {m} /\ UNCHANGED <<replies, lost>> /\ UNCHANGED clientVars
    BY DEF ServerReceive, Taken, Quiet
  <1>2. Fewer
    BY <1>1, SubsetFewer
  <1>3. OnePlace'
    <2>1. ASSUME NEW m1 \in requests', m1.id = "User", m1.from = m.from, m1.n = m.n
          PROVE  FALSE
      <3>1. m1.from \in Clients /\ m1 \in requests
        BY <1>1, <2>1, Sent
      <3>2. m1.id = m.id /\ m1 = m
        BY <2>1, <3>1, SameTag
      <3> QED BY <1>1, <2>1, <3>2
    <2> QED BY <1>1, <2>1 DEF OnePlace
  <1>4. LostOrInFlight'
    BY <1>1 DEF LostOrInFlight, InFlight, clientVars
  <1> QED BY <1>1, <1>2, <1>3, <1>4, QuietTransport

(* On a quiet network a reply takes the place of its request.             *)
LEMMA QuietReply ==
    ASSUME Quiet, BaseInv, IndInv, QuietInv, NEW m \in cur,
           ServerReply(m) \/ ServerThrows(m) \/ ServerCannotDecode(m)
    PROVE  QuietInv'
  <1> UserOpen /\ OnePlace /\ LostOrInFlight /\ OneTag
    BY DEF QuietInv, IndInv, FlightInv
  <1>1. PICK r : /\ r.to = m.from /\ r.n = m.n /\ r.id = m.id
                 /\ replies' = replies \cup {r} /\ cur' = {}
                 /\ UNCHANGED <<requests, lost>> /\ UNCHANGED clientVars
    BY DEF ServerReply, ServerThrows, ServerCannotDecode, reply_cur
  <1>2. Fewer
    BY ReplyFewer
  <1>3. OnePlace'
    <2>1. \A m1 \in requests : m1.id = "User" => ~(m1.from = r.to /\ m1.n = r.n)
      BY <1>1 DEF OnePlace
    <2>2. ASSUME NEW r1 \in replies, r1.to = r.to, r1.n = r.n,
                 r1.id = "User" \/ r.id = "User"
          PROVE  FALSE
      <3>1. m.from \in Clients
        BY <1>1, <2>2, Sent
      <3>2. m.id = r1.id
        BY <1>1, <2>2, <3>1, SameTag
      <3> QED BY <1>1, <2>2, <3>2 DEF OnePlace
    <2> QED BY <1>1, <2>1, <2>2 DEF OnePlace
  <1>4. LostOrInFlight'
    <2>1. \A m1 \in cur : m1 = m
      BY DEF OnePlace
    <2> QED BY <1>1, <2>1 DEF LostOrInFlight, InFlight, clientVars
  <1> QED BY <1>1, <1>2, <1>3, <1>4, QuietTransport

(* A loss is remembered, so that a timeout can be traced to it.           *)
LEMMA QuietLose == ASSUME BaseInv, IndInv, QuietInv, Lose PROVE QuietInv'
  <1> UserOpen /\ OnePlace /\ LostOrInFlight
    BY DEF QuietInv
  <1>1. /\ requests' \subseteq requests /\ replies' \subseteq replies
        /\ UNCHANGED cur /\ UNCHANGED clientVars /\ lost \subseteq lost'
        /\ \A m \in requests : m \in requests' \/ <<m.from, m.n>> \in lost'
        /\ \A r \in replies : r \in replies' \/ <<r.to, r.n>> \in lost'
    BY DEF Lose, serverVars
  <1>2. Fewer
    BY <1>1, SubsetFewer
  <1>3. OnePlace'
    BY <1>1 DEF OnePlace
  <1>4. LostOrInFlight'
    BY <1>1 DEF LostOrInFlight, InFlight, clientVars
  <1> QED BY <1>1, <1>2, <1>3, <1>4, QuietTransport

(* A stranger is no client: what it sends is nobody's call.               *)
LEMMA QuietStranger ==
    ASSUME BaseInv, IndInv, QuietInv, NEW s \in Strangers, StrangerSends(s)
    PROVE  QuietInv'
  <1> UserOpen /\ OnePlace /\ LostOrInFlight
    BY DEF QuietInv
  <1>1. PICK m : /\ m.id = "garbage" /\ requests' = requests \cup {m}
                 /\ UNCHANGED <<replies, lost, cur>> /\ UNCHANGED clientVars
    BY DEF StrangerSends, serverVars
  <1>2. Fewer
    BY <1>1 DEF Fewer, Carried, Ids
  <1>3. OnePlace'
    BY <1>1 DEF OnePlace
  <1>4. LostOrInFlight'
    BY <1>1 DEF LostOrInFlight, InFlight, clientVars
  <1> QED BY <1>1, <1>2, <1>3, <1>4, QuietTransport

(* A call opens one tag, the only one of its client.                      *)
LEMMA QuietCall ==
    ASSUME BaseInv, IndInv, QuietInv, NEW c \in Clients, NEW id \in Ids, Call(c, id)
    PROVE  QuietInv'
  <1> /\ UserOpen /\ OnePlace /\ LostOrInFlight /\ ReplyAnswersCall /\ NoSpuriousTimeout
      /\ NumbersOK
    BY DEF QuietInv, IndInv, FlightInv
  <1> DEFINE n0 == calls[c] + 1
             m == [from |-> c, n |-> n0, id |-> id, checksum |-> checksum[c]]
             q == [client |-> c, n |-> n0, id |-> id, code |-> "Err",
                   of |-> 0, ofId |-> "none"]
  <1>1. /\ calls[c] \in Nat /\ calls'[c] = n0 /\ n0 \in Nat /\ checksum' = checksum
        /\ \A d \in Clients : d # c => calls'[d] = calls[d] /\ waiting'[d] = waiting[d]
        /\ waiting[c] = "idle" /\ UNCHANGED <<replies, cur>>
        /\ results' \subseteq results \cup {q} /\ lost \subseteq lost'
    BY DEF Call, SendFails, Return, BaseInv, TypeOK, serverVars
  <1>2. \/ requests' = requests \cup {m} /\ waiting'[c] = id
        \/ requests' = requests /\ waiting'[c] = "idle"
        \/ requests' = requests /\ <<c, n0>> \in lost'
    BY DEF Call, SendFails, BaseInv, TypeOK
  <1> /\ m.from = c /\ m.n = n0 /\ m.id = id /\ m.checksum = checksum[c]
      /\ q.of = 0 /\ q.code = "Err"
    OBVIOUS
  <1> HIDE DEF m, q
  <1>3. /\ \A m1 \in requests \cup cur : ~(m1.from = c /\ m1.n = n0)
        /\ \A r \in replies : ~(r.to = c /\ r.n = n0)
    BY <1>1, Sent DEF NumbersOK
  <1>4. UserOpen'
    <2> SUFFICES ASSUME NEW d \in Clients, NEW n \in Nat, NEW sum \in Nat,
                        Carried(d, n, "User", sum)'
                 PROVE  waiting'[d] = "User" /\ n = calls'[d] /\ sum = checksum'[d]
      BY DEF UserOpen
    <2>1. CASE Carried(d, n, "User", sum)
      BY <1>1, <2>1 DEF UserOpen
    <2>2. CASE ~Carried(d, n, "User", sum)
      <3>1. /\ requests' = requests \cup {m} /\ waiting'[c] = id
            /\ d = c /\ n = n0 /\ id = "User" /\ sum = checksum[c]
        BY <1>1, <1>2, <2>2 DEF Carried
      <3> QED BY <1>1, <3>1
    <2> QED BY <2>1, <2>2
  <1>5. OnePlace'
    <2>1. \A m1 \in requests' : m1 \in requests \/ m1 = m
      BY <1>2
    <2> QED BY <1>1, <1>3, <2>1 DEF OnePlace
  <1>6. LostOrInFlight'
    <2> SUFFICES ASSUME NEW d \in Clients, waiting'[d] = "User"
                 PROVE  InFlight(d, calls[d])' \/ <<d, calls'[d]>> \in lost'
      BY DEF LostOrInFlight
    <2>1. CASE d = c
      BY <1>1, <1>2, <2>1 DEF InFlight
    <2>2. CASE d # c
      BY <1>1, <1>2, <2>2 DEF InFlight, LostOrInFlight
    <2> QED BY <2>1, <2>2
  <1>7. ReplyAnswersCall' /\ NoSpuriousTimeout'
    BY <1>1 DEF ReplyAnswersCall, NoSpuriousTimeout
  <1> QED BY <1>4, <1>5, <1>6, <1>7 DEF QuietInv

(* A timeout on a quiet network means that request or reply was lost, so  *)
(* nothing late can arrive.                                               *)
LEMMA QuietTimeout ==
    ASSUME Quiet, BaseInv, IndInv, QuietInv, NEW c \in Clients, Timeout(c)
    PROVE  QuietInv'
  <1> /\ UserOpen /\ OnePlace /\ LostOrInFlight /\ ReplyAnswersCall /\ NoSpuriousTimeout
    BY DEF QuietInv
  <1> DEFINE q == [client |-> c, n |-> calls[c], id |-> waiting[c], code |-> "Timeout",
                   of |-> 0, ofId |-> "none"]
  <1>1. /\ UNCHANGED <<checksum, calls, requests, replies, lost, cur>>
        /\ results' = results \cup {q}
        /\ waiting'[c] = "idle" /\ \A d \in Clients : d # c => waiting'[d] = waiting[d]
        /\ waiting[c] = "User" => ~InFlight(c, calls[c])
    BY DEF Timeout, Return, netVars, serverVars, BaseInv, TypeOK, Quiet
  <1> /\ q.of = 0 /\ q.code = "Timeout" /\ q.client = c /\ q.n = calls[c] /\ q.id = waiting[c]
    OBVIOUS
  <1> HIDE DEF q
  <1>2. \A n, sum \in Nat : ~Carried(c, n, "User", sum)
    BY <1>1 DEF UserOpen, Carried, InFlight
  <1>3. UserOpen'
    <2>1. \A d, n, sum : Carried(d, n, "User", sum)' <=> Carried(d, n, "User", sum)
      BY <1>1 DEF Carried
    <2> QED BY <1>1, <1>2, <2>1 DEF UserOpen
  <1>4. OnePlace'
    BY <1>1 DEF OnePlace
  <1>5. LostOrInFlight'
    BY <1>1 DEF LostOrInFlight, InFlight
  <1>6. ReplyAnswersCall' /\ NoSpuriousTimeout'
    BY <1>1 DEF ReplyAnswersCall, NoSpuriousTimeout, LostOrInFlight
  <1> QED BY <1>3, <1>4, <1>5, <1>6 DEF QuietInv

(* The reply of a user call is that of the open call, and its last datagram. *)
LEMMA QuietReceiveReply ==
    ASSUME Quiet, BaseInv, IndInv, QuietInv, NEW c \in Clients, NEW r \in replies,
           ReceiveReply(c, r)
    PROVE  QuietInv'
  <1> /\ UserOpen /\ OnePlace /\ LostOrInFlight /\ ReplyAnswersCall /\ NoSpuriousTimeout
      /\ OpenTag
    BY DEF QuietInv, IndInv, FlightInv
  <1>1. /\ UNCHANGED <<calls, requests, lost, cur>>
        /\ waiting[c] # "idle" /\ r.to = c
        /\ replies' \subseteq replies /\ replies \subseteq replies' \cup {r}
        /\ r.id = "User" => replies' = replies \ {r}
    BY DEF ReceiveReply, Taken, serverVars, Quiet
  <1>2. /\ r.id \in Ids /\ r.n \in Nat /\ r.checksum \in Nat
        /\ Carried(c, r.n, r.id, r.checksum) /\ (r.dummy <=> r.id = "HeartBeat")
    BY <1>1, Sent DEF BaseInv, RepliesOK
  <1>3. OnePlace'
    BY <1>1 DEF OnePlace
  <1>4. Fewer
    BY <1>1, SubsetFewer
  <1>5. CASE r.id = "HeartBeat" /\ waiting[c] # "HeartBeat"
    <2>1. UNCHANGED <<checksum, waiting, results>> /\ waiting[c] = "User"
      BY <1>1, <1>2, <1>5, ReplyCases DEF BaseInv, TypeOK, Ids
    <2>2. r.n # calls[c]
      BY <1>1, <1>2, <1>5, <2>1 DEF OpenTag
    <2>3. LostOrInFlight'
      BY <1>1, <2>1, <2>2 DEF LostOrInFlight, InFlight
    <2>4. UNCHANGED clientVars
      BY <1>1, <2>1 DEF clientVars
    <2> QED BY <1>1, <1>3, <1>4, <2>3, <2>4, QuietTransport
  <1>6. ASSUME NEW code \in {"Ok", "Err", "Fatal checksum"}, Finish(c, code, r),
               checksum' = checksum \/ checksum' = [checksum EXCEPT ![c] = @ + 1],
               r.id = waiting[c], r.id = "User" => r.n = calls[c],
               \A n, sum \in Nat : ~Carried(c, n, "User", sum)'
        PROVE  QuietInv'
    <2> DEFINE q == [client |-> c, n |-> calls[c], id |-> waiting[c], code |-> code,
                     of |-> r.n, ofId |-> r.id]
    <2>1. /\ results' = results \cup {q} /\ waiting'[c] = "idle"
          /\ \A d \in Clients : d # c => waiting'[d] = waiting[d] /\ checksum'[d] = checksum[d]
      BY <1>6 DEF Finish, Return, BaseInv, TypeOK
    <2> /\ q.client = c /\ q.n = calls[c] /\ q.id = waiting[c] /\ q.code = code
        /\ q.of = r.n /\ q.ofId = r.id
      OBVIOUS
    <2> HIDE DEF q
    <2>2. UserOpen'
      <3> SUFFICES ASSUME NEW d \in Clients, NEW n \in Nat, NEW sum \in Nat,
                          Carried(d, n, "User", sum)'
                   PROVE  waiting'[d] = "User" /\ n = calls'[d] /\ sum = checksum'[d]
        BY DEF UserOpen
      <3>1. d # c
        BY <1>6
      <3>2. Carried(d, n, "User", sum)
        BY <1>4 DEF Fewer, Ids
      <3> QED BY <1>1, <2>1, <3>1, <3>2 DEF UserOpen
    <2>3. LostOrInFlight'
      BY <1>1, <2>1 DEF LostOrInFlight, InFlight
    <2>4. ReplyAnswersCall' /\ NoSpuriousTimeout'
      BY <1>1, <1>2, <1>6, <2>1 DEF ReplyAnswersCall, NoSpuriousTimeout, Ids
    <2> QED BY <1>3, <2>2, <2>3, <2>4 DEF QuietInv
  <1>7. CASE r.id = "HeartBeat" /\ waiting[c] = "HeartBeat"
    <2>1. Finish(c, "Ok", r) /\ checksum' = checksum
      BY <1>2, <1>7, ReplyCases
    <2>2. \A n, sum \in Nat : ~Carried(c, n, "User", sum)'
      BY <1>4, <1>7 DEF UserOpen, Fewer, Ids
    <2> QED BY <1>6, <1>7, <2>1, <2>2
  <1>8. CASE r.id = "User"
    <2>1. waiting[c] = "User" /\ r.n = calls[c]
      BY <1>2, <1>8 DEF UserOpen
    <2>2. \A n, sum \in Nat : ~Carried(c, n, "User", sum)'
      <3> SUFFICES ASSUME NEW n \in Nat, NEW sum \in Nat, Carried(c, n, "User", sum)'
                   PROVE  FALSE
        OBVIOUS
      <3>1. n = r.n
        BY <1>4, <2>1 DEF UserOpen, Fewer, Ids
      <3> QED BY <1>1, <1>8, <3>1 DEF Carried, OnePlace
    <2>3. \E code \in {"Ok", "Err", "Fatal checksum"} :
             /\ Finish(c, code, r)
             /\ checksum' = checksum \/ checksum' = [checksum EXCEPT ![c] = @ + 1]
      BY <1>2, <1>8, ReplyCases
    <2> QED BY <1>6, <1>8, <2>1, <2>2, <2>3
  <1> QED BY <1>2, <1>5, <1>7, <1>8 DEF Ids

(* Every action keeps the single place of the open tag.                   *)
LEMMA NextQuiet == Quiet /\ BaseInv /\ IndInv /\ QuietInv /\ [Next]_vars => QuietInv'
  <1> SUFFICES ASSUME Quiet, BaseInv, IndInv, QuietInv, [Next]_vars PROVE QuietInv'
    OBVIOUS
  <1>1. CASE UNCHANGED vars
    <2>1. UNCHANGED <<requests, cur, replies, lost>> /\ UNCHANGED clientVars
      BY <1>1 DEF vars, clientVars
    <2>2. OnePlace' /\ LostOrInFlight'
      BY <2>1 DEF QuietInv, OnePlace, LostOrInFlight, InFlight, clientVars
    <2> QED BY <2>1, <2>2, SubsetFewer, QuietTransport
  <1>2. ASSUME NEW c \in Clients, ClientStep(c) PROVE QuietInv'
    BY <1>2, QuietCall, QuietReceiveReply, QuietTimeout DEF ClientStep
  <1>3. CASE ServerStep
    BY <1>3, QuietReceive, QuietReply DEF ServerStep
  <1> QED BY <1>1, <1>2, <1>3, QuietLose, QuietStranger DEF Next, AllDone

(* Where only heartbeats may be late or duplicated, a call ends with its   *)
(* own reply or with a timeout that a loss explains, however many          *)
(* datagrams are lost and reordered and whatever strangers send.           *)
THEOREM CallsAreSoundCorrect == Quiet => (Spec => []CallsAreSound)
  <1> SUFFICES ASSUME Quiet PROVE Spec => []CallsAreSound
    OBVIOUS
  <1>1. Init => BaseInv /\ IndInv /\ QuietInv
    BY InitBase, InitIndInv, InitQuiet
  <1>2. (BaseInv /\ IndInv /\ QuietInv) /\ [Next]_vars => (BaseInv /\ IndInv /\ QuietInv)'
    BY NextBase, NextIndInv, NextQuiet
  <1>3. BaseInv /\ IndInv /\ QuietInv => CallsAreSound
    BY DEF BaseInv, QuietInv, CallsAreSound
  <1> QED BY <1>1, <1>2, <1>3, PTL DEF Spec

-----------------------------------------------------------------------------
(* The refinement mapping of SRpc!Abs, by name.                            *)
pendingBar == [c \in Clients |-> IF waiting[c] = "User" THEN calls[c] ELSE 0]
answeredBar == {<<res.client, res.n>> :
                   res \in {q \in results : q.id = "User" /\ q.code = "Ok"}}

(* What the step of a client does to the abstract state.                   *)
LEMMA AnsweredBar ==
    ASSUME NEW q, results' = results \cup {q}
    PROVE  answeredBar' = IF q.id = "User" /\ q.code = "Ok"
                          THEN answeredBar \cup {<<q.client, q.n>>} ELSE answeredBar
  BY DEF answeredBar

(* A user call that returns is an Answer or a GiveUp of the abstract call, *)
(* and the return of a heartbeat is invisible.                             *)
LEMMA ReturnRefines ==
    ASSUME BaseInv, IndInv, NEW c \in Clients, NEW q, Returns(c, q), UNCHANGED executed,
           q.id = "User" /\ q.code = "Ok" => <<c, calls[c]>> \in executed
    PROVE  [Abs!Next]_(Abs!vars)
  <1>1. /\ results' = results \cup {q} /\ UNCHANGED calls
        /\ q.client = c /\ q.n = calls[c] /\ q.id = waiting[c]
        /\ waiting' = [waiting EXCEPT ![c] = "idle"] /\ calls[c] \in Nat \ {0}
    BY DEF Returns, IndInv, BooksInv, ResultsOK, BaseInv, TypeOK
  <1>2. pendingBar' = [pendingBar EXCEPT ![c] = 0]
    BY <1>1 DEF pendingBar, BaseInv, TypeOK
  <1>3. CASE waiting[c] = "User"
    <2>1. pendingBar[c] = calls[c] /\ pendingBar[c] # 0
      BY <1>1, <1>3 DEF pendingBar
    <2>2. CASE q.code = "Ok"
      <3>1. answeredBar' = answeredBar \cup {<<c, calls[c]>>}
        BY <1>1, <1>3, <2>2, AnsweredBar
      <3>2. Abs!Answer(c)
        BY <1>1, <1>2, <1>3, <2>1, <2>2, <3>1 DEF Abs!Answer, pendingBar, answeredBar
      <3> QED BY <3>2 DEF Abs!Next
    <2>3. CASE q.code # "Ok"
      <3>1. answeredBar' = answeredBar
        BY <1>1, <2>3, AnsweredBar
      <3>2. Abs!GiveUp(c)
        BY <1>2, <2>1, <3>1 DEF Abs!GiveUp, pendingBar, answeredBar
      <3> QED BY <3>2 DEF Abs!Next
    <2> QED BY <2>2, <2>3
  <1>4. CASE waiting[c] # "User"
    <2>1. answeredBar' = answeredBar
      BY <1>1, <1>4, AnsweredBar
    <2>2. pendingBar' = pendingBar
      BY <1>1, <1>2, <1>4 DEF pendingBar
    <2> QED BY <2>1, <2>2 DEF Abs!vars, pendingBar, answeredBar
  <1> QED BY <1>3, <1>4

(* SRpc::call is the call of the abstract RPC, whether its send succeeds  *)
(* or not.                                                                *)
LEMMA CallRefines ==
    ASSUME BaseInv, IndInv, NEW c \in Clients, NEW id \in Ids, Call(c, id)
    PROVE  [Abs!Next]_(Abs!vars)
  <1> DEFINE n0 == calls[c] + 1
             q == [client |-> c, n |-> n0, id |-> id, code |-> "Err",
                   of |-> 0, ofId |-> "none"]
  <1>1. /\ calls[c] \in Nat /\ calls[c] < MaxCalls /\ waiting[c] = "idle"
        /\ calls' = [calls EXCEPT ![c] = n0] /\ executed' = executed
        /\ waiting' = waiting \/ waiting' = [waiting EXCEPT ![c] = id]
        /\ results' = results \/ results' = results \cup {q}
    BY DEF Call, SendFails, Return, BaseInv, TypeOK, serverVars
  <1>2. answeredBar' = answeredBar
    <2>1. q.code = "Err"
      OBVIOUS
    <2> HIDE DEF q
    <2>2. CASE results' = results
      BY <2>2 DEF answeredBar
    <2>3. CASE results' = results \cup {q}
      BY <2>1, <2>3, AnsweredBar
    <2> QED BY <1>1, <2>2, <2>3
  <1>3. pendingBar[c] = 0
    BY <1>1 DEF pendingBar
  <1>4. CASE waiting'[c] = "User"
    <2>1. pendingBar' = [pendingBar EXCEPT ![c] = n0]
      BY <1>1, <1>4 DEF pendingBar, BaseInv, TypeOK
    <2>2. <<c, n0>> \notin executed
      BY <1>1 DEF IndInv, Executed
    <2>3. <<c, n0>> \notin answeredBar
      BY <1>1 DEF answeredBar, IndInv, BooksInv, ResultsOK
    <2>4. PICK n \in 1 .. MaxCalls : n = n0
      BY <1>1, BoundAssumption
    <2>5. Abs!Invoke(c, n)
      BY <1>1, <1>2, <1>3, <2>1, <2>2, <2>3, <2>4 DEF Abs!Invoke, pendingBar, answeredBar
    <2> QED BY <2>5 DEF Abs!Next
  <1>5. CASE waiting'[c] # "User"
    <2>1. pendingBar' = pendingBar
      BY <1>1, <1>5 DEF pendingBar, BaseInv, TypeOK
    <2> QED BY <1>1, <1>2, <2>1 DEF Abs!vars, pendingBar, answeredBar
  <1> QED BY <1>4, <1>5

(* receive_reply of a normal reply is the abstract return of that call;   *)
(* of anything else it is a stutter.                                      *)
LEMMA ReceiveReplyRefines ==
    ASSUME BaseInv, IndInv, QuietInv, NEW c \in Clients, NEW r \in replies,
           ReceiveReply(c, r)
    PROVE  [Abs!Next]_(Abs!vars)
  <1>1. /\ UNCHANGED <<calls, executed>> /\ waiting[c] # "idle" /\ r.to = c
    BY DEF ReceiveReply, serverVars
  <1>2. /\ r.id \in Ids /\ r.n \in Nat /\ r.checksum \in Nat
        /\ Carried(c, r.n, r.id, r.checksum) /\ (r.dummy <=> r.id = "HeartBeat")
        /\ <<c, r.n>> \in executed
    BY <1>1, Sent DEF BaseInv, RepliesOK, Ids
  <1>3. CASE UNCHANGED <<checksum, waiting, results>>
    BY <1>1, <1>3 DEF Abs!vars
  <1>4. ASSUME NEW code, Finish(c, code, r), waiting[c] = "User" => r.id = "User"
        PROVE  [Abs!Next]_(Abs!vars)
    <2> DEFINE q == [client |-> c, n |-> calls[c], id |-> waiting[c], code |-> code,
                     of |-> r.n, ofId |-> r.id]
    <2>1. Returns(c, q)
      BY <1>1, <1>4 DEF Returns, Finish, Return
    <2>2. waiting[c] = "User" => r.n = calls[c]
      BY <1>2, <1>4 DEF QuietInv, UserOpen
    <2>3. q.id = "User" => <<c, calls[c]>> \in executed
      BY <1>2, <2>2
    <2> HIDE DEF q
    <2> QED BY <1>1, <2>1, <2>3, ReturnRefines
  <1>5. ~r.dummy => r.id = "User"
    BY <1>2 DEF Ids
  <1> QED BY <1>3, <1>4, <1>5, ReplyCases

(* Every step of the implementation is a step or a stutter of             *)
(* RemoteCall.                                                            *)
LEMMA NextRefines ==
    ASSUME BaseInv, IndInv, QuietInv, [Next]_vars
    PROVE  [Abs!Next]_(Abs!vars)
  <1>1. ASSUME NEW c \in Clients, Timeout(c) PROVE [Abs!Next]_(Abs!vars)
    <2> DEFINE q == [client |-> c, n |-> calls[c], id |-> waiting[c], code |-> "Timeout",
                     of |-> 0, ofId |-> "none"]
    <2>1. Returns(c, q) /\ UNCHANGED executed /\ q.code # "Ok"
      BY <1>1 DEF Timeout, Returns, Return, serverVars
    <2> HIDE DEF q
    <2> QED BY <2>1, ReturnRefines
  <1>2. ASSUME NEW c \in Clients, ClientStep(c) PROVE [Abs!Next]_(Abs!vars)
    BY <1>1, <1>2, CallRefines, ReceiveReplyRefines DEF ClientStep
  <1>3. ASSUME NEW m \in cur, ServerReply(m) \/ ServerThrows(m)
        PROVE  [Abs!Next]_(Abs!vars)
    <2>1. /\ executed' = executed \cup {<<m.from, m.n>>} /\ m.id # "garbage"
          /\ UNCHANGED <<calls, waiting, results>>
      BY <1>3 DEF ServerReply, ServerThrows, clientVars
    <2>2. /\ m.from \in Clients /\ m.n \in Nat /\ m.id \in Ids /\ m.checksum \in Nat
          /\ Carried(m.from, m.n, m.id, m.checksum)
      <3>1. m \in Request
        BY Sent
      <3>2. m.from \in Clients
        BY <2>1, <3>1, RecordTypes DEF BaseInv, SendersOK
      <3> QED BY <3>2, Sent
    <2>3. m.n \in 1 .. calls[m.from]
      BY <2>2 DEF IndInv, FlightInv, NumbersOK
    <2>4. m.n \in 1 .. MaxCalls
      BY <2>2, <2>3, BoundAssumption DEF IndInv, Executed, BaseInv, TypeOK
    <2>5. <<m.from, m.n>> \in Abs!Calls
      BY <2>2, <2>4 DEF Abs!Calls
    <2>6. Abs!ExecuteCall(<<m.from, m.n>>)
      BY <2>1 DEF Abs!ExecuteCall
    <2> QED BY <2>5, <2>6 DEF Abs!Next
  <1>4. CASE UNCHANGED <<calls, waiting, results, executed>>
    BY <1>4 DEF Abs!vars
  <1>5. ASSUME NEW m \in requests, ServerReceive(m) PROVE [Abs!Next]_(Abs!vars)
    BY <1>4, <1>5 DEF ServerReceive, clientVars
  <1>6. ASSUME NEW m \in cur, ServerCannotDecode(m) PROVE [Abs!Next]_(Abs!vars)
    BY <1>4, <1>6 DEF ServerCannotDecode, clientVars
  <1>7. CASE ServerStep
    BY <1>3, <1>5, <1>6, <1>7 DEF ServerStep
  <1>8. CASE Lose
    BY <1>4, <1>8 DEF Lose, clientVars, serverVars
  <1>9. ASSUME NEW s \in Strangers, StrangerSends(s) PROVE [Abs!Next]_(Abs!vars)
    BY <1>4, <1>9 DEF StrangerSends, clientVars, serverVars
  <1>10. CASE UNCHANGED vars
    BY <1>4, <1>10 DEF vars
  <1> QED BY <1>2, <1>7, <1>8, <1>9, <1>10 DEF Next, AllDone

(* Under the same condition the calls implement RemoteCall: a call answers *)
(* only what its own handler computed, once, however the datagrams travel. *)
THEOREM RefinementCorrect == Quiet => (Spec => ImplementsRemoteCall)
  <1> SUFFICES ASSUME Quiet PROVE Spec => ImplementsRemoteCall
    OBVIOUS
  <1>1. Init => BaseInv /\ IndInv /\ QuietInv
    BY InitBase, InitIndInv, InitQuiet
  <1>2. (BaseInv /\ IndInv /\ QuietInv) /\ [Next]_vars => (BaseInv /\ IndInv /\ QuietInv)'
    BY NextBase, NextIndInv, NextQuiet
  <1>3. Init => Abs!Init
    BY DEF Init, Abs!Init
  <1>4. BaseInv /\ IndInv /\ QuietInv /\ [Next]_vars => [Abs!Next]_(Abs!vars)
    BY NextRefines
  <1> QED BY <1>1, <1>2, <1>3, <1>4, PTL DEF Spec, ImplementsRemoteCall, Abs!Spec

=============================================================================
