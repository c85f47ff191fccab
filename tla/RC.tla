--------------------------------- MODULE RC ---------------------------------
(***************************************************************************)
(* The send side of a reliable-connected queue pair: qp::RC (rc.hh), the   *)
(* Progress watermarks and Dummy's polling it is built on (mod.hh), and    *)
(* Op::execute (op.hh), one QP used by one thread.                         *)
(*                                                                         *)
(* The NIC is external.  A send queue has SendDepth slots; ibv_post_send   *)
(* fails when no slot is free or the QP is not connected; work requests    *)
(* execute in order; a signaled request, and after a failure every         *)
(* request, leaves a completion; polling a completion frees its slot and   *)
(* the slots of all the requests before it.  A completion is therefore a   *)
(* mark ("ok" or "err") on its request, and sq is both the send queue and  *)
(* the completion queue (create_cq gives it max_send_sz entries).          *)
(***************************************************************************)
EXTENDS Integers, Sequences, FiniteSets

CONSTANTS
    Marks,      \* number of values of ProgressMark_t (2^16)
    UserWrs,    \* number of values of the user's part of a wr_id (2^48)
    USize,      \* number of values of usize (2^64), the type of out_signaled
    SendDepth,  \* QPConfig::max_send_sz()
    MaxSent,    \* bound: requests given a watermark
    NicMayFail  \* TRUE: a request may complete in error

ASSUME MarksAssumption == Marks \in Nat /\ Marks > 1
ASSUME WidthAssumption == UserWrs \in Nat \ {0} /\ USize \in Nat \ {0}
(* kRcMaxSendSz is 128 and ProgressMark_t has 16 bits: a full send queue   *)
(* is always shorter than the range of a watermark.                        *)
ASSUME DepthAssumption == SendDepth \in Nat \ {0} /\ SendDepth < Marks
ASSUME BoundAssumption == MaxSent \in Nat /\ NicMayFail \in BOOLEAN

VARIABLES
    qp_state,     \* the ibv_qp_state of qp
    status,       \* RC::status
    high_watermark, low_watermark,  \* RC::progress
    out_signaled, \* Dummy::out_signaled
    sq,           \* the requests whose send-queue slot is taken, in order
    sent,         \* history: the number of requests given a watermark
    acked,        \* history: the number of the request last done()
    lastLost,     \* history: the last number whose request was refused by the
                  \* NIC or retired by a poll that does not call done()
    leaked        \* history: signaled requests that ibv_post_send refused

progressVars == <<high_watermark, low_watermark>>
history == <<sent, acked, lastLost, leaked>>
vars == <<qp_state, status, progressVars, out_signaled, sq, history>>

QPStates == {"RESET", "INIT", "RTR", "RTS", "ERR"}
UserIds == 0 .. UserWrs - 1
Wr == [n : Nat, usr : UserIds, wr_id : Nat, signaled : BOOLEAN,
       comp : {"posted", "silent", "ok", "err"}]

TypeOK ==
    /\ qp_state \in QPStates
    /\ status \in {"Err", "Ok"}
    /\ high_watermark \in 0 .. Marks - 1
    /\ low_watermark \in 0 .. Marks - 1
    /\ out_signaled \in 0 .. USize - 1
    /\ sq \in Seq(Wr)
    /\ sent \in Nat /\ acked \in Nat /\ lastLost \in Nat /\ leaked \in Nat

Init ==
    /\ qp_state \in {"INIT", "RESET"} \* the constructor only logs that it failed
    /\ status = "Err"
    /\ high_watermark = 0 /\ low_watermark = 0
    /\ out_signaled = 0
    /\ sq = <<>>
    /\ sent = 0 /\ acked = 0 /\ lastLost = 0 /\ leaked = 0

-----------------------------------------------------------------------------
(* Progress and the packing of a wr_id.                                    *)

forward_NoWrap(high, num) == high + num
forward(high, num) == (high + num) % Marks

pending_reqs_OffByOne(high, low) ==
    IF high >= low THEN high - low ELSE (Marks - 1) - (low - high)
pending_reqs(high, low) ==
    IF high >= low THEN high - low ELSE (Marks - 1) - (low - high) + 1

(* (wr << 16) | mark on 64 bits: an id of 2^48 or more would lose its top  *)
(* bits in the shift.  The ids of the users are in UserIds, so none has    *)
(* any to lose.                                                            *)
encode_my_wr_OldMark(wr, mark) == (wr % UserWrs) * Marks + ((mark - 1) % Marks)
encode_my_wr(wr, mark) == (wr % UserWrs) * Marks + mark

user_wr(id) == id \div Marks
water_mark(id) == id % Marks

-----------------------------------------------------------------------------
(* RC::connect.  bring_rc_to_rcv only succeeds from INIT, so a connect     *)
(* whose second step failed leaves a QP that no later connect can bring    *)
(* up, and neither can one that never left RESET; a QP in RTS is left as   *)
(* it is.                                                                  *)
Connect ==
    \/ /\ qp_state = "RTS"
       /\ UNCHANGED vars
    \/ /\ qp_state = "INIT"
       /\ \/ qp_state' = "INIT" /\ UNCHANGED status
          \/ qp_state' = "RTR" /\ UNCHANGED status
          \/ qp_state' = "RTS" /\ status' = "Ok"
       /\ UNCHANGED <<progressVars, out_signaled, sq, history>>
    \/ /\ qp_state \in {"RESET", "RTR", "ERR"}
       /\ UNCHANGED vars

(* ibv_post_send takes a request only on a connected QP with a free slot.  *)
Accepted == qp_state \in {"RTS", "ERR"} /\ Len(sq) < SendDepth

Request(n, usr, id, signaled) ==
    [n |-> n, usr |-> usr, wr_id |-> id, signaled |-> signaled, comp |-> "posted"]

CountSignaled_All(signaled) == (out_signaled + 1) % USize
CountSignaled(signaled) ==
    IF signaled THEN (out_signaled + 1) % USize ELSE out_signaled

(* The watermark moves and out_signaled grows before ibv_post_send is      *)
(* called; neither is taken back when it refuses the request.              *)
Post(usr, signaled) ==
    LET mark == forward(high_watermark, 1)
        wr == Request(sent + 1, usr, encode_my_wr(usr, mark), signaled)
    IN  /\ sent < MaxSent
        /\ sent' = sent + 1
        /\ high_watermark' = mark
        /\ out_signaled' = CountSignaled(signaled)
        /\ \/ /\ Accepted
              /\ sq' = Append(sq, wr)
              /\ UNCHANGED <<lastLost, leaked>>
           \/ /\ ~Accepted
              /\ sq' = sq
              /\ lastLost' = sent + 1
              /\ leaked' = IF signaled THEN leaked + 1 ELSE leaked
        /\ UNCHANGED <<qp_state, status, low_watermark, acked>>

(* RC::send_normal asserts that connect succeeded; Op::execute does not.   *)
SendNormal(usr, signaled) == status = "Ok" /\ Post(usr, signaled)
Execute(usr, signaled) == Post(usr, signaled)

-----------------------------------------------------------------------------
(* The NIC executes the oldest request that is only posted.                *)

Oldest(i) == /\ sq[i].comp = "posted"
             /\ \A j \in 1 .. i - 1 : sq[j].comp # "posted"

NicExecute ==
    \E i \in 1 .. Len(sq) :
        /\ Oldest(i)
        /\ qp_state = "RTS"
        /\ sq' = [sq EXCEPT ![i].comp = IF sq[i].signaled THEN "ok" ELSE "silent"]
        /\ UNCHANGED <<qp_state, status, progressVars, out_signaled, history>>

(* A request fails, or is flushed because an earlier one did: it leaves a  *)
(* completion whether it was signaled or not.                              *)
NicFail ==
    \E i \in 1 .. Len(sq) :
        /\ NicMayFail
        /\ Oldest(i)
        /\ qp_state' = "ERR"
        /\ sq' = [sq EXCEPT ![i].comp = "err"]
        /\ UNCHANGED <<status, progressVars, out_signaled, history>>

-----------------------------------------------------------------------------
(* Dummy::poll_send_comp: take the oldest completion, if there is one.     *)

Completion(i) == /\ sq[i].comp \in {"ok", "err"}
                 /\ \A j \in 1 .. i - 1 : sq[j].comp \notin {"ok", "err"}

poll_send_comp_AnyOrder(i) ==
    /\ sq[i].comp \in {"ok", "err"}
    /\ sq' = SubSeq(sq, 1, i - 1) \o SubSeq(sq, i + 1, Len(sq))
    /\ out_signaled' = (out_signaled - 1) % USize
    /\ UNCHANGED <<qp_state, status, high_watermark, sent, leaked>>
poll_send_comp(i) ==
    /\ Completion(i)
    /\ sq' = SubSeq(sq, i + 1, Len(sq))
    /\ out_signaled' = (out_signaled - 1) % USize
    /\ UNCHANGED <<qp_state, status, high_watermark, sent, leaked>>

(* RC::poll_rc_comp, and the last round of RC::wait_rc_comp.  The code     *)
(* takes every result but 0 of ibv_poll_cq for a completion; that the call *)
(* itself fails, with a negative result, is not modelled.                  *)
PollRcComp_WaitsForOk ==
    \E i \in 1 .. Len(sq) :
        /\ sq[i].comp = "ok"
        /\ poll_send_comp(i)
        /\ low_watermark' = water_mark(sq[i].wr_id)
        /\ acked' = sq[i].n
        /\ UNCHANGED lastLost
PollRcComp ==
    \E i \in 1 .. Len(sq) :
        /\ poll_send_comp(i)
        /\ low_watermark' = water_mark(sq[i].wr_id)
        /\ acked' = sq[i].n
        /\ UNCHANGED lastLost

(* Dummy::wait_one_comp does not look at the watermark of the completion.  *)
WaitOneComp ==
    \E i \in 1 .. Len(sq) :
        /\ poll_send_comp(i)
        /\ lastLost' = IF sq[i].n > lastLost THEN sq[i].n ELSE lastLost
        /\ UNCHANGED <<low_watermark, acked>>

-----------------------------------------------------------------------------
Caller ==
    \/ Connect
    \/ \E usr \in UserIds, signaled \in BOOLEAN :
           SendNormal(usr, signaled) \/ Execute(usr, signaled)
    \/ PollRcComp
    \/ WaitOneComp

Next == Caller \/ NicExecute \/ NicFail

Spec == Init /\ [][Next]_vars

(* The NIC drains a send queue, and a thread in wait_rc_comp without a     *)
(* timeout keeps polling.                                                  *)
FairSpec == Spec /\ WF_vars(NicExecute \/ NicFail) /\ WF_vars(PollRcComp)

-----------------------------------------------------------------------------
(* Properties.                                                             *)

(* As long as fewer than 2^16 requests were given a watermark since the    *)
(* request last done(), pending_reqs() never reports fewer requests than   *)
(* still hold a slot of the send queue: a caller that keeps it below       *)
(* max_send_sz() is never refused, however the watermarks wrap, posts fail *)
(* and the two ways of polling are mixed.                                  *)
PendingNeverUnder ==
    sent - acked < Marks => pending_reqs(high_watermark, low_watermark) >= Len(sq)

(* pending_reqs() is exactly the number of requests in the send queue once *)
(* the last request polled with poll_rc_comp is younger than every request *)
(* the NIC refused or wait_one_comp retired: one poll_rc_comp heals the    *)
(* count.                                                                  *)
PendingExact ==
    lastLost <= acked => pending_reqs(high_watermark, low_watermark) = Len(sq)

(* The wr_id a completion carries gives back the caller's own wr_id and    *)
(* the watermark of that request, and nothing of one leaks in the other.   *)
WrIdRoundTrip ==
    \A i \in 1 .. Len(sq) :
        /\ user_wr(sq[i].wr_id) = sq[i].usr
        /\ water_mark(sq[i].wr_id) = sq[i].n % Marks

(* Without an error completion, out_signaled is what ongoing_signaled()    *)
(* promises plus one for every signaled request that ibv_post_send refused.*)
SignaledInSq == Cardinality({i \in 1 .. Len(sq) : sq[i].signaled})
OutSignaledAccounts ==
    qp_state # "ERR" => out_signaled = (SignaledInSq + leaked) % USize

(* Nothing is on the wire before connect succeeded, and a QP that failed   *)
(* half way (RTR) never carries a request although Op::execute does not    *)
(* look at status.                                                         *)
OnlyConnectedSends ==
    /\ sq # <<>> => status = "Ok"
    /\ status = "Ok" <=> qp_state \in {"RTS", "ERR"}

(* A poll reports requests in the order they were posted and never one     *)
(* that a previous poll already acknowledged.                              *)
AckedInOrder == [][acked' # acked => acked' > acked]_vars

(* wait_rc_comp without a timeout returns: a signaled request in the send  *)
(* queue is eventually polled.                                             *)
SignaledGetsPolled ==
    \A n \in 1 .. MaxSent :
        (\E i \in 1 .. Len(sq) : sq[i].n = n /\ sq[i].signaled)
            ~> (\A i \in 1 .. Len(sq) : sq[i].n > n)

(* The books of the send queue: ids and watermarks come back as they were  *)
(* packed, out_signaled matches the signaled requests, and nothing was     *)
(* posted on a QP that is not connected.                                   *)
RequestsAccountedFor == WrIdRoundTrip /\ OutSignaledAccounts /\ OnlyConnectedSends
=============================================================================
