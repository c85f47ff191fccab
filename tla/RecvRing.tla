------------------------------ MODULE RecvRing ------------------------------
(***************************************************************************)
(* The receive side of two-sided QPs: RecvEntries, the ring of N receive   *)
(* requests of a QP (recv_helper.hh), Dummy::post_recvs (mod.hh), which    *)
(* posts the next requests of the ring, and RecvIter (recv_iter.hh), which *)
(* polls recv_cq, hands out the buffers and posts as many requests again.  *)
(*                                                                         *)
(* post_recvs never looks at which buffers were consumed: it counts.  The  *)
(* NIC is external: a receive queue of depth slots takes requests in       *)
(* order, refuses the rest of a chain when it is full, and fills buffers   *)
(* in the order they were posted.  A sender of an RC waits for a buffer,   *)
(* and a message for a UD that has none is dropped.  One thread owns the   *)
(* QPs; those of Qps share one recv_cq, as RC::create allows, with room    *)
(* for every request.                                                      *)
(***************************************************************************)
EXTENDS Integers, Sequences, FiniteSets

CONSTANTS
    Qps,        \* the QPs whose recv_cq this is
    N,          \* RecvEntries<N>
    RecvDepths, \* the values of QPConfig::max_recv_sz() QPs are created with
    MaxMsgs,    \* bound: messages that arrive at each QP
    MayBreak    \* TRUE: the user may leave the iteration before its end

ASSUME RingAssumption == N \in Nat \ {0} /\ RecvDepths \subseteq Nat
ASSUME BoundAssumption == MaxMsgs \in Nat /\ MayBreak \in BOOLEAN

VARIABLES
    depth,    \* the slots of the receive queue of each QP
    ud,       \* the QP is a UD, and not an RC
    header,   \* RecvEntries::header of each QP
    cut,      \* the entries whose rs[i].next is nullptr and not the successor
    rq,       \* the receive queue of each QP: indices of entries, in order
    buf,      \* the message in the buffer of each entry
    cq,       \* recv_cq: the completions, in order
    wcs, idx, total_msgs, \* the RecvIter; total_msgs is -1 while there is none
    owner,    \* RecvIter::qp and RecvIter::entries
    arrived,  \* the number of messages the peer has sent to each QP
    first,    \* history: the number of requests posted at first
    dropped,  \* history: the messages each QP dropped
    read      \* history: the last message read at each QP

ringVars == <<depth, ud, header, cut, rq>>
iterVars == <<wcs, idx, total_msgs, owner>>
peerVars == <<arrived, first, dropped>>
vars == <<ringVars, buf, cq, iterVars, peerVars, read>>

Entries == 0 .. N - 1
Completion == [qp : Qps, entry : Entries, msg : Nat]

TypeOK ==
    /\ depth \in [Qps -> RecvDepths]
    /\ header \in [Qps -> Entries]
    /\ cut \in [Qps -> SUBSET Entries]
    /\ rq \in [Qps -> Seq(Entries)]
    /\ buf \in [Qps -> [Entries -> Nat]]
    /\ cq \in Seq(Completion)
    /\ wcs \in Seq(Completion)
    /\ idx \in Nat
    /\ total_msgs \in Nat \cup {-1}
    /\ owner \in Qps
    /\ ud \in [Qps -> BOOLEAN]
    /\ arrived \in [Qps -> Nat] /\ dropped \in [Qps -> Nat]
    /\ first \in [Qps -> 0 .. N]
    /\ read \in [Qps -> Nat]

(* RecvEntriesFactory::create links entry i to i + 1 and the last to 0.    *)
Init ==
    /\ depth \in [Qps -> RecvDepths]
    /\ header = [q \in Qps |-> 0]
    /\ cut = [q \in Qps |-> {}]
    /\ rq = [q \in Qps |-> <<>>]
    /\ buf = [q \in Qps |-> [e \in Entries |-> 0]]
    /\ cq = <<>>
    /\ wcs = <<>> /\ idx = 0 /\ total_msgs = -1
    /\ owner \in Qps
    /\ ud \in [Qps -> BOOLEAN]
    /\ arrived = [q \in Qps |-> 0] /\ dropped = [q \in Qps |-> 0]
    /\ first = [q \in Qps |-> 0]
    /\ read = [q \in Qps |-> 0]

-----------------------------------------------------------------------------
(* Dummy::post_recvs.                                                      *)

TailOf_OffByOne(q, num) == (header[q] + num) % N
TailOf(q, num) ==
    LET tail == header[q] + num - 1
    IN  IF tail >= N THEN tail - N ELSE tail

(* The requests ibv_post_recv walks over: from header to the first whose   *)
(* next is nullptr.                                                        *)
Walk(q, cuts) ==
    LET At(i) == (header[q] + i - 1) % N
        len == CHOOSE k \in 1 .. N :
                   At(k) \in cuts /\ \A i \in 1 .. k - 1 : At(i) \notin cuts
    IN  [i \in 1 .. len |-> At(i)]

(* The end of a post: the tail gets its next back, header moves on.        *)
RestoreTail(q, tail) == UNCHANGED cut

NextHeader_Stays(tail) == tail
NextHeader(tail) == (tail + 1) % N

(* A refused post returns before the tail gets its next back and before    *)
(* header moves, but what the NIC took of the chain stays posted.          *)
post_recvs(q, num) ==
    LET tail == TailOf(q, num)
        chain == Walk(q, cut[q] \cup {tail})
        room == depth[q] - Len(rq[q])
    IN  /\ UNCHANGED <<depth, ud>>
        /\ \/ /\ Len(chain) <= room
              /\ rq' = [rq EXCEPT ![q] = @ \o chain]
              /\ header' = [header EXCEPT ![q] = NextHeader(tail)]
              /\ RestoreTail(q, tail)
           \/ /\ Len(chain) > room
              /\ rq' = [rq EXCEPT ![q] = @ \o SubSeq(chain, 1, room)]
              /\ cut' = [cut EXCEPT ![q] = @ \cup {tail}]
              /\ UNCHANGED header

(* The user fills the receive queue once, before anything arrives.         *)
PostFirst(q, num) ==
    /\ arrived[q] = 0 /\ rq[q] = <<>>
    /\ post_recvs(q, num)
    /\ first' = [first EXCEPT ![q] = num]
    /\ UNCHANGED <<buf, cq, iterVars, arrived, dropped, read>>

-----------------------------------------------------------------------------
(* A message of the peer lands in the oldest buffer of the receive queue.  *)
NicReceive(q) ==
    /\ arrived[q] < MaxMsgs
    /\ rq[q] # <<>>
    /\ arrived' = [arrived EXCEPT ![q] = @ + 1]
    /\ rq' = [rq EXCEPT ![q] = SubSeq(@, 2, Len(@))]
    /\ buf' = [buf EXCEPT ![q][rq[q][1]] = arrived[q] + 1]
    /\ cq' = Append(cq, [qp |-> q, entry |-> rq[q][1], msg |-> arrived[q] + 1])
    /\ UNCHANGED <<depth, ud, header, cut, iterVars, first, dropped, read>>

(* The overflow examples: the peer sends faster than the receiver clears.  *)
NicDrop(q) ==
    /\ ud[q]
    /\ arrived[q] \in 1 .. MaxMsgs - 1
    /\ rq[q] = <<>>
    /\ arrived' = [arrived EXCEPT ![q] = @ + 1]
    /\ dropped' = [dropped EXCEPT ![q] = @ + 1]
    /\ UNCHANGED <<ringVars, buf, cq, iterVars, first, read>>

-----------------------------------------------------------------------------
(* RecvIter.                                                               *)

(* A constructor, or begin() after clear(): poll at most N completions.    *)
IterBegin(q) ==
    LET num == IF Len(cq) < N THEN Len(cq) ELSE N
    IN  /\ total_msgs = -1
        /\ total_msgs' = num
        /\ idx' = 0
        /\ wcs' = SubSeq(cq, 1, num)
        /\ cq' = SubSeq(cq, num + 1, Len(cq))
        /\ owner' = q
        /\ UNCHANGED <<ringVars, buf, peerVars, read>>

has_msgs == idx < total_msgs

(* cur_msg, and the user reads the buffer it returns; then next.           *)
IterNext ==
    /\ has_msgs
    /\ LET wc == wcs[idx + 1]
       IN  read' = [read EXCEPT ![wc.qp] = buf[wc.qp][wc.entry]]
    /\ idx' = idx + 1
    /\ UNCHANGED <<ringVars, buf, cq, wcs, total_msgs, owner, peerVars>>

(* clear, which the destructor calls; a failed post is only logged.  The   *)
(* code also asks that qp and entries are set, as begin has done here.     *)
IterClear_NoRepost ==
    /\ total_msgs # -1
    /\ ~has_msgs \/ MayBreak
    /\ total_msgs' = -1 /\ wcs' = <<>> /\ idx' = 0
    /\ UNCHANGED <<ringVars, buf, cq, owner, peerVars, read>>
IterClear ==
    /\ total_msgs # -1
    /\ ~has_msgs \/ MayBreak
    /\ total_msgs' = -1
    /\ \/ total_msgs > 0 /\ post_recvs(owner, total_msgs)
       \/ total_msgs = 0 /\ UNCHANGED ringVars
    /\ wcs' = <<>> /\ idx' = 0
    /\ UNCHANGED <<buf, cq, owner, peerVars, read>>

-----------------------------------------------------------------------------
Next ==
    \/ \E q \in Qps, num \in 1 .. N : PostFirst(q, num)
    \/ \E q \in Qps : NicReceive(q) \/ NicDrop(q) \/ IterBegin(q)
    \/ IterNext
    \/ IterClear

Spec == Init /\ [][Next]_vars

(* The peer's messages keep arriving, and the receiving thread fills the   *)
(* queue, iterates and clears in a loop.                                   *)
FairSpec ==
    /\ Spec
    /\ \A q \in Qps :
          /\ WF_vars(\E num \in 1 .. N : PostFirst(q, num))
          /\ WF_vars(NicReceive(q))
          /\ WF_vars(IterBegin(q))
    /\ WF_vars(IterNext)
    /\ WF_vars(IterClear)

-----------------------------------------------------------------------------
(* Properties.                                                             *)

(* The completions of q that are polled or to be polled, oldest first:     *)
(* SelectSeq, as a recursive function that a proof can unfold.             *)
InCompletion(q) ==
    LET c == wcs \o cq
        of[n \in 0 .. Len(c)] ==
            IF n = 0 THEN <<>>
            ELSE IF c[n].qp = q THEN Append(of[n - 1], c[n]) ELSE of[n - 1]
    IN  of[Len(c)]
Outstanding(q) == [i \in 1 .. Len(InCompletion(q)) |-> InCompletion(q)[i].entry]
                      \o rq[q]

(* The requests of a QP that are held by the iterator, wait in recv_cq or  *)
(* are posted are, in this order, consecutive entries of the ring that end *)
(* just before header, as long as no post was refused: the requests        *)
(* post_recvs posts next are the ones consumed longest ago, although it    *)
(* never looks at a completion.                                            *)
RingOrder ==
    \A q \in Qps : cut[q] = {} =>
        LET s == Outstanding(q)
        IN  /\ Len(s) <= N
            /\ \A i \in 1 .. Len(s) : s[i] = (header[q] - Len(s) + i - 1) % N

(* No buffer is given to the NIC while the NIC already has it, or while a  *)
(* message in it has not been released by the iteration, even after a      *)
(* first post that was refused half way.                                   *)
NoDoublePost ==
    \A q \in Qps :
        LET s == Outstanding(q)
        IN  \A i, j \in 1 .. Len(s) : s[i] = s[j] => i = j

(* The buffer cur_msg returns still holds the message of that completion.  *)
BuffersIntact ==
    \A i \in 1 .. Len(wcs \o cq) :
        LET wc == (wcs \o cq)[i] IN buf[wc.qp][wc.entry] = wc.msg

(* RecvEntries::sanity_check: every entry is linked to its successor, on a *)
(* QP whose receive queue is as long as the ring.                          *)
ChainIntact == \A q \in Qps : depth[q] >= N => cut[q] = {}

(* The ring: the next post takes the entries consumed longest ago, no      *)
(* buffer is posted while it is posted or being read, and none of those    *)
(* being read has been written over.                                       *)
RingInv == TypeOK /\ RingOrder /\ NoDoublePost /\ BuffersIntact /\ ChainIntact

(* A UD drops a message only when the receiver is behind by everything it  *)
(* posted at first: reposting by count leaves no slot of the receive queue *)
(* unused, however often the ring has wrapped and iterations were left.    *)
DropsOnlyWhenBehind ==
    [][\A q \in Qps : cut[q] = {} /\ dropped'[q] # dropped[q] =>
          Len(InCompletion(q)) = first[q]]_vars

(* Messages are read in the order they arrived and none is read twice.     *)
ReadInOrder == [][\A q \in Qps : read'[q] # read[q] => read'[q] > read[q]]_vars

(* Every message of the peer is received and its buffer released, although *)
(* the user may leave iterations early: unless a post is refused, the ring *)
(* keeps the receive queue supplied however often it wraps.                *)
AllReleased ==
    \A q \in Qps : [](cut[q] = {}) =>
        <>(arrived[q] = MaxMsgs /\ InCompletion(q) = <<>>)
=============================================================================
