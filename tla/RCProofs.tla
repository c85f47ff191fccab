------------------------------ MODULE RCProofs ------------------------------
(* Proofs about RC for every width of the watermark and every queue depth. *)
EXTENDS RC, SequenceTheorems, FunctionTheorems, FiniteSetTheorems, TLAPS

(* x % m of a number that is already small.                                *)
LEMMA ModSmall ==
    ASSUME NEW m \in Nat \ {0}, NEW a \in 0 .. m - 1
    PROVE  a % m = a
  OBVIOUS

(* A remainder is below its modulus.                                       *)
LEMMA ModType ==
    ASSUME NEW m \in Nat \ {0}, NEW a \in Int
    PROVE  a % m \in 0 .. m - 1
  OBVIOUS

(* The low bits of a packed wr_id are the watermark.                       *)
LEMMA Unpack ==
    ASSUME NEW m \in Nat \ {0}, NEW u \in Nat, NEW a \in 0 .. m - 1
    PROVE  (u * m + a) % m = a
  <1> DEFINE x == u * m + a
             q == x \div m
             r == x % m
  <1>1. x \in Nat /\ q \in Int /\ r \in 0 .. m - 1
    OBVIOUS
  <1>2. x = m * q + r
    OBVIOUS
  <1>3. m * (u - q) = r - a
    BY <1>1, <1>2
  <1>4. u - q < 1
    <2>1. SUFFICES ASSUME u - q >= 1 PROVE FALSE
      BY <1>1
    <2>2. m * (u - q) >= m
      BY <1>1, <2>1
    <2> QED BY <1>1, <1>3, <2>2
  <1>5. u - q > -1
    <2>1. SUFFICES ASSUME u - q <= -1 PROVE FALSE
      BY <1>1
    <2>2. m * (u - q) <= -m
      BY <1>1, <2>1
    <2> QED BY <1>1, <1>3, <2>2
  <1>6. u = q
    BY <1>1, <1>4, <1>5
  <1> QED BY <1>1, <1>3, <1>6

(* One forward(1) adds one to the distance from any mark that is less than *)
(* Marks - 1 behind; a mark is at distance 0 from itself.                  *)
LEMMA PendingForward ==
    ASSUME NEW h \in 0 .. Marks - 1, NEW l \in 0 .. Marks - 1
    PROVE  /\ forward(h, 1) \in 0 .. Marks - 1
           /\ pending_reqs(h, l) \in 0 .. Marks - 1
           /\ pending_reqs(h, h) = 0
           /\ pending_reqs(h, l) + 1 < Marks =>
                  pending_reqs(forward(h, 1), l) = pending_reqs(h, l) + 1
  <1>1. forward(h, 1) = IF h + 1 = Marks THEN 0 ELSE h + 1
    <2>1. CASE h + 1 = Marks
      BY <2>1, MarksAssumption DEF forward
    <2>2. CASE h + 1 # Marks
      BY <2>2, MarksAssumption, ModSmall DEF forward
    <2> QED BY <2>1, <2>2
  <1> QED BY <1>1, MarksAssumption DEF pending_reqs

(* The inductive invariant, in parts.  The i-th of len requests, with      *)
(* number n, is after the last acknowledged number a and leaves room for   *)
(* its neighbours in the queue.                                            *)
Room(i, n, len, a, s) == a + i <= n /\ n + (len - i) <= s

(* If no number after n was lost, every younger number is in the queue.    *)
Whole(i, n, len, s, lost) == lost <= n => s - n = len - i

(* The mark of number n is at the right distance from the high watermark,  *)
(* until the range of a mark is used up.                                   *)
Near(n, s, h, mark) == s - n < Marks => pending_reqs(h, mark) = s - n

RequestOK(i) ==
    /\ Room(i, sq[i].n, Len(sq), acked, sent)
    /\ Whole(i, sq[i].n, Len(sq), sent, lastLost)
    /\ Near(sq[i].n, sent, high_watermark, water_mark(sq[i].wr_id))

AllRequests == \A i \in 1 .. Len(sq) : RequestOK(i)

Ordered == \A i, j \in 1 .. Len(sq) : i <= j => sq[i].n + (j - i) <= sq[j].n

Bounds == Len(sq) <= SendDepth /\ acked <= sent /\ lastLost <= sent

AckedOK == /\ Whole(0, acked, Len(sq), sent, lastLost)
           /\ Near(acked, sent, high_watermark, low_watermark)

IndInv == TypeOK /\ Bounds /\ AckedOK /\ AllRequests /\ Ordered

-----------------------------------------------------------------------------
(* Arithmetic of the parts: one more number was given out.                 *)
LEMMA PartsForward ==
    ASSUME NEW i \in Nat, NEW n \in Nat, NEW len \in Nat, NEW a \in Nat,
           NEW s \in Nat, NEW lost \in Nat, n <= s
    PROVE  /\ Room(i, n, len, a, s) => /\ Room(i, n, len + 1, a, s + 1)
                                       /\ Room(i, n, len, a, s + 1)
           /\ Whole(i, n, len, s, lost) => Whole(i, n, len + 1, s + 1, lost)
           /\ Whole(i, n, len, s + 1, s + 1)
  BY DEF Room, Whole

(* A post moves the high watermark one step, and the distance from every   *)
(* older request with it.                                                  *)
LEMMA NearForward ==
    ASSUME NEW n \in Nat, NEW s \in Nat, n <= s,
           NEW h \in 0 .. Marks - 1, NEW m \in 0 .. Marks - 1, Near(n, s, h, m)
    PROVE  Near(n, s + 1, forward(h, 1), m)
  <1> SUFFICES ASSUME s + 1 - n < Marks
               PROVE  pending_reqs(forward(h, 1), m) = s + 1 - n
    BY DEF Near
  <1>1. pending_reqs(h, m) = s - n
    BY MarksAssumption DEF Near
  <1>2. pending_reqs(h, m) + 1 < Marks
    BY <1>1
  <1>3. pending_reqs(forward(h, 1), m) = pending_reqs(h, m) + 1
    BY <1>2, PendingForward
  <1> QED BY <1>1, <1>3

(* The first i requests were retired.                                      *)
LEMMA RoomPoll ==
    ASSUME NEW i \in Nat, NEW j \in Nat, NEW n \in Nat, NEW len \in Nat, NEW a \in Nat,
           NEW s \in Nat, NEW a2 \in Nat, Room(i + j, n, len, a, s), a2 + j <= n
    PROVE  Room(j, n, len - i, a2, s)
  BY DEF Room

(* Two readings of Room: a request has room for those before it and for    *)
(* those after it.                                                         *)
LEMMA RoomBounds ==
    ASSUME NEW i \in Nat, NEW j \in Nat, NEW n \in Nat, NEW len \in Nat, NEW a \in Nat,
           NEW s \in Nat
    PROVE  /\ Room(i + j, n, len, a, s) => a + j <= n
           /\ Room(i, n, len, a, s) => n + (len + 1 - i) <= s + 1
  BY DEF Room

(* A poll that retires the first i requests keeps the numbers of the others*)
(* whole.                                                                  *)
LEMMA WholePoll ==
    ASSUME NEW i \in Nat, NEW j \in Nat, NEW n \in Nat, NEW len \in Nat,
           NEW s \in Nat, NEW lost \in Nat, NEW lost2 \in Nat, lost <= lost2,
           Whole(i + j, n, len, s, lost)
    PROVE  Whole(j, n, len - i, s, lost2)
  BY DEF Whole

(* The facts the steps below start from.                                   *)
LEMMA Typed ==
    ASSUME IndInv
    PROVE  /\ sq \in Seq(Wr) /\ Len(sq) \in Nat
           /\ sent \in Nat /\ acked \in Nat /\ lastLost \in Nat /\ leaked \in Nat
           /\ high_watermark \in 0 .. Marks - 1 /\ low_watermark \in 0 .. Marks - 1
           /\ out_signaled \in 0 .. USize - 1
           /\ Bounds /\ AckedOK /\ Ordered
           /\ \A i \in 1 .. Len(sq) :
                  /\ RequestOK(i)
                  /\ sq[i].n \in Nat /\ sq[i].n <= sent
                  /\ water_mark(sq[i].wr_id) \in 0 .. Marks - 1
  <1>1. /\ sq \in Seq(Wr) /\ Len(sq) \in Nat
        /\ sent \in Nat /\ acked \in Nat /\ lastLost \in Nat /\ leaked \in Nat
        /\ high_watermark \in 0 .. Marks - 1 /\ low_watermark \in 0 .. Marks - 1
        /\ out_signaled \in 0 .. USize - 1
    BY DEF IndInv, TypeOK
  <1>2. Bounds /\ AckedOK /\ Ordered /\ AllRequests
    BY DEF IndInv
  <1>3. ASSUME NEW i \in 1 .. Len(sq)
        PROVE  /\ RequestOK(i)
               /\ sq[i].n \in Nat /\ sq[i].n <= sent
               /\ water_mark(sq[i].wr_id) \in 0 .. Marks - 1
    <2>1. RequestOK(i)
      BY <1>2 DEF AllRequests
    <2>2. sq[i] \in Wr
      BY <1>1, ElementOfSeq
    <2>3. sq[i].n \in Nat /\ sq[i].wr_id \in Int
      BY <2>2 DEF Wr
    <2>4. Room(i, sq[i].n, Len(sq), acked, sent)
      BY <2>1 DEF RequestOK
    <2>5. sq[i].n <= sent
      BY <1>1, <2>3, <2>4 DEF Room
    <2>6. sq[i].wr_id % Marks \in 0 .. Marks - 1
      <3>1. Marks \in Nat \ {0}
        BY MarksAssumption
      <3> QED BY <2>3, <3>1, ModType
    <2> QED BY <2>1, <2>3, <2>5, <2>6 DEF water_mark
  <1> QED BY <1>1, <1>2, <1>3

(* A new RC satisfies the inductive invariant.                             *)
LEMMA InitIndInv == Init => IndInv
  <1> SUFFICES ASSUME Init PROVE IndInv
    OBVIOUS
  <1>1. sq \in Seq(Wr) /\ Len(sq) = 0
    BY EmptySeq DEF Init
  <1>2. TypeOK
    BY <1>1, MarksAssumption, WidthAssumption DEF Init, TypeOK, QPStates
  <1>3. Bounds /\ AckedOK
    BY <1>1, DepthAssumption DEF Init, Bounds, AckedOK, Whole, Near, pending_reqs
  <1>4. AllRequests /\ Ordered
    BY <1>1 DEF AllRequests, Ordered
  <1> QED BY <1>2, <1>3, <1>4 DEF IndInv

(* A step that leaves the numbers and wr_ids of the queue, the watermarks  *)
(* and the history alone: connect, and what the NIC does.                  *)
LEMMA SameNumbers ==
    ASSUME IndInv, TypeOK', Len(sq') = Len(sq),
           \A j \in 1 .. Len(sq) : sq'[j].n = sq[j].n /\ sq'[j].wr_id = sq[j].wr_id,
           UNCHANGED <<progressVars, history>>
    PROVE  IndInv'
  <1>1. UNCHANGED <<high_watermark, low_watermark, sent, acked, lastLost>>
    BY DEF progressVars, history
  <1>2. Bounds' /\ AckedOK'
    BY <1>1 DEF IndInv, Bounds, AckedOK
  <1>3. AllRequests'
    BY <1>1 DEF IndInv, AllRequests, RequestOK
  <1>4. Ordered'
    BY DEF IndInv, Ordered
  <1> QED BY <1>2, <1>3, <1>4 DEF IndInv

(* The NIC only marks a request as executed, so no number or watermark is  *)
(* touched.                                                                *)
LEMMA NicIndInv ==
    ASSUME IndInv, NEW i \in 1 .. Len(sq), NEW c \in {"silent", "ok", "err"},
           sq' = [sq EXCEPT ![i].comp = c],
           qp_state' \in QPStates, status' = status,
           UNCHANGED <<progressVars, out_signaled, history>>
    PROVE  IndInv'
  <1>1. sq \in Seq(Wr)
    BY DEF IndInv, TypeOK
  <1>2. sq[i] \in Wr
    BY <1>1, ElementOfSeq
  <1> DEFINE e == [sq[i] EXCEPT !.comp = c]
  <1>3. e \in Wr /\ e.n = sq[i].n /\ e.wr_id = sq[i].wr_id
    BY <1>2 DEF Wr
  <1>4. sq' = [sq EXCEPT ![i] = e]
    OBVIOUS
  <1> HIDE DEF e
  <1>5. /\ sq' \in Seq(Wr) /\ Len(sq') = Len(sq)
        /\ \A j \in 1 .. Len(sq) : sq'[j] = IF j = i THEN e ELSE sq[j]
    BY <1>1, <1>3, <1>4, ExceptSeq, SMTT(30)
  <1>6. \A j \in 1 .. Len(sq) : sq'[j].n = sq[j].n /\ sq'[j].wr_id = sq[j].wr_id
    BY <1>3, <1>5
  <1>7. TypeOK'
    BY <1>5 DEF IndInv, TypeOK, progressVars, history
  <1> QED BY <1>5, <1>6, <1>7, SameNumbers

(* A poll drops the first i requests.                                      *)
LEMMA PolledSq ==
    ASSUME IndInv, NEW i \in 1 .. Len(sq), poll_send_comp(i)
    PROVE  /\ sq' \in Seq(Wr)
           /\ Len(sq') = Len(sq) - i
           /\ \A j \in 1 .. Len(sq') : i + j \in 1 .. Len(sq) /\ sq'[j] = sq[i + j]
           /\ out_signaled' \in 0 .. USize - 1
           /\ UNCHANGED <<qp_state, status, high_watermark, sent, leaked>>
           /\ Ordered'
  <1>1. sq \in Seq(Wr) /\ Len(sq) \in Nat /\ out_signaled \in Int
    BY Typed
  <1>2. \A j \in i + 1 .. Len(sq) : sq[j] \in Wr
    BY <1>1, ElementOfSeq
  <1>3. /\ SubSeq(sq, i + 1, Len(sq)) \in Seq(Wr)
        /\ Len(SubSeq(sq, i + 1, Len(sq))) =
               IF i + 1 <= Len(sq) THEN Len(sq) - (i + 1) + 1 ELSE 0
        /\ \A j \in 1 .. Len(sq) - (i + 1) + 1 :
               SubSeq(sq, i + 1, Len(sq))[j] = sq[(i + 1) + j - 1]
    BY <1>1, <1>2, SubSeqProperties
  <1>4. sq' = SubSeq(sq, i + 1, Len(sq)) /\ out_signaled' = (out_signaled - 1) % USize
    BY DEF poll_send_comp
  <1>5. out_signaled' \in 0 .. USize - 1
    <2>1. out_signaled - 1 \in Int
      BY <1>1
    <2> QED BY <1>4, <2>1, ModType, WidthAssumption
  <1>6. sq' \in Seq(Wr) /\ Len(sq') = Len(sq) - i
    BY <1>1, <1>3, <1>4
  <1>7. ASSUME NEW j \in 1 .. Len(sq')
        PROVE  i + j \in 1 .. Len(sq) /\ sq'[j] = sq[i + j]
    <2>1. j \in 1 .. Len(sq) - (i + 1) + 1 /\ (i + 1) + j - 1 = i + j
      BY <1>1, <1>6
    <2>2. sq'[j] = sq[i + j]
      BY <1>3, <1>4, <2>1
    <2> QED BY <1>1, <1>6, <2>2
  <1>8. ASSUME NEW j \in 1 .. Len(sq'), NEW k \in 1 .. Len(sq'), j <= k
        PROVE  sq'[j].n + (k - j) <= sq'[k].n
    <2>1. /\ i + j \in 1 .. Len(sq) /\ i + k \in 1 .. Len(sq)
          /\ sq'[j] = sq[i + j] /\ sq'[k] = sq[i + k]
      BY <1>7
    <2>2. i + j <= i + k /\ (i + k) - (i + j) = k - j
      BY <1>1, <1>6, <1>8
    <2>3. sq[i + j].n + ((i + k) - (i + j)) <= sq[i + k].n
      BY <2>1, <2>2, Typed DEF Ordered
    <2> QED BY <2>1, <2>2, <2>3
  <1>9. Ordered'
    BY <1>8 DEF Ordered
  <1> QED BY <1>5, <1>6, <1>7, <1>9 DEF poll_send_comp

(* RC::poll_rc_comp: the polled request becomes the acknowledged one.      *)
LEMMA PollRcIndInv ==
    ASSUME IndInv, PollRcComp
    PROVE  IndInv'
  <1>1. PICK i \in 1 .. Len(sq) :
            /\ poll_send_comp(i)
            /\ low_watermark' = water_mark(sq[i].wr_id)
            /\ acked' = sq[i].n
            /\ UNCHANGED lastLost
    BY DEF PollRcComp
  <1>2. /\ sq' \in Seq(Wr)
        /\ Len(sq') = Len(sq) - i
        /\ \A j \in 1 .. Len(sq') : i + j \in 1 .. Len(sq) /\ sq'[j] = sq[i + j]
        /\ out_signaled' \in 0 .. USize - 1
        /\ UNCHANGED <<qp_state, status, high_watermark, sent, leaked>>
        /\ Ordered'
    BY <1>1, PolledSq
  <1>3. /\ Len(sq) \in Nat /\ sent \in Nat /\ acked \in Nat /\ lastLost \in Nat
        /\ RequestOK(i) /\ sq[i].n \in Nat /\ sq[i].n <= sent
        /\ low_watermark' \in 0 .. Marks - 1
        /\ Bounds
    BY <1>1, Typed
  <1>4. TypeOK'
    BY <1>1, <1>2, <1>3 DEF IndInv, TypeOK
  <1>5. Bounds'
    BY <1>1, <1>2, <1>3, DepthAssumption DEF Bounds
  <1>6. AckedOK'
    <2>1. /\ Whole(i, sq[i].n, Len(sq), sent, lastLost)
          /\ Near(sq[i].n, sent, high_watermark, water_mark(sq[i].wr_id))
      BY <1>3 DEF RequestOK
    <2>2. Whole(0, sq[i].n, Len(sq) - i, sent, lastLost)
      BY <1>3, <2>1 DEF Whole
    <2> QED BY <1>1, <1>2, <2>1, <2>2 DEF AckedOK
  <1>7. ASSUME NEW j \in 1 .. Len(sq')
        PROVE  RequestOK(j)'
    <2>1. i + j \in 1 .. Len(sq) /\ sq'[j] = sq[i + j]
      BY <1>2
    <2>2. /\ Room(i + j, sq[i + j].n, Len(sq), acked, sent)
          /\ Whole(i + j, sq[i + j].n, Len(sq), sent, lastLost)
          /\ Near(sq[i + j].n, sent, high_watermark, water_mark(sq[i + j].wr_id))
          /\ sq[i + j].n \in Nat
      BY <2>1, Typed DEF RequestOK
    <2>3. i <= i + j /\ (i + j) - i = j /\ i \in Nat /\ j \in Nat
      BY <1>2, <1>3
    <2>4. sq[i].n + j <= sq[i + j].n
      <3>1. sq[i].n + ((i + j) - i) <= sq[i + j].n
        BY <2>1, <2>3, Typed DEF Ordered
      <3> QED BY <2>3, <3>1
    <2>5. Room(j, sq[i + j].n, Len(sq) - i, sq[i].n, sent)
      BY <1>3, <2>2, <2>3, <2>4, RoomPoll
    <2>6. Whole(j, sq[i + j].n, Len(sq) - i, sent, lastLost)
      <3>1. lastLost <= lastLost
        BY <1>3
      <3> QED BY <1>3, <2>2, <2>3, <3>1, WholePoll
    <2> QED BY <1>1, <1>2, <2>1, <2>2, <2>5, <2>6 DEF RequestOK
  <1>8. AllRequests'
    BY <1>7 DEF AllRequests
  <1> QED BY <1>2, <1>4, <1>5, <1>6, <1>8 DEF IndInv

(* Dummy::wait_one_comp: the send queue shrinks and the low watermark stays*)
(* behind.                                                                 *)
LEMMA WaitOneIndInv ==
    ASSUME IndInv, WaitOneComp
    PROVE  IndInv'
  <1>1. PICK i \in 1 .. Len(sq) :
            /\ poll_send_comp(i)
            /\ lastLost' = IF sq[i].n > lastLost THEN sq[i].n ELSE lastLost
            /\ UNCHANGED <<low_watermark, acked>>
    BY DEF WaitOneComp
  <1>2. /\ sq' \in Seq(Wr)
        /\ Len(sq') = Len(sq) - i
        /\ \A j \in 1 .. Len(sq') : i + j \in 1 .. Len(sq) /\ sq'[j] = sq[i + j]
        /\ out_signaled' \in 0 .. USize - 1
        /\ UNCHANGED <<qp_state, status, high_watermark, sent, leaked>>
        /\ Ordered'
    BY <1>1, PolledSq
  <1>3. /\ Len(sq) \in Nat /\ sent \in Nat /\ acked \in Nat /\ lastLost \in Nat
        /\ RequestOK(i) /\ sq[i].n \in Nat /\ sq[i].n <= sent
        /\ Bounds /\ AckedOK
    BY Typed
  <1>4. acked < sq[i].n
    <2>1. Room(i, sq[i].n, Len(sq), acked, sent)
      BY <1>3 DEF RequestOK
    <2> QED BY <1>3, <2>1 DEF Room
  <1>5. lastLost' \in Nat /\ lastLost' <= sent /\ lastLost <= lastLost' /\ acked < lastLost'
    BY <1>1, <1>3, <1>4 DEF Bounds
  <1>6. TypeOK'
    BY <1>1, <1>2, <1>5 DEF IndInv, TypeOK
  <1>7. Bounds'
    BY <1>1, <1>2, <1>3, <1>5, DepthAssumption DEF Bounds
  <1>8. AckedOK'
    <2>1. Whole(0, acked, Len(sq'), sent, lastLost')
      BY <1>3, <1>5 DEF Whole
    <2> QED BY <1>1, <1>2, <1>3, <2>1 DEF AckedOK
  <1>9. ASSUME NEW j \in 1 .. Len(sq')
        PROVE  RequestOK(j)'
    <2>1. i + j \in 1 .. Len(sq) /\ sq'[j] = sq[i + j] /\ i \in Nat /\ j \in Nat
      BY <1>2
    <2>2. /\ Room(i + j, sq[i + j].n, Len(sq), acked, sent)
          /\ Whole(i + j, sq[i + j].n, Len(sq), sent, lastLost)
          /\ Near(sq[i + j].n, sent, high_watermark, water_mark(sq[i + j].wr_id))
          /\ sq[i + j].n \in Nat
      BY <2>1, Typed DEF RequestOK
    <2>3. Room(j, sq[i + j].n, Len(sq) - i, acked, sent)
      <3>1. acked + j <= sq[i + j].n
        BY <1>3, <2>1, <2>2, RoomBounds
      <3> QED BY <1>3, <2>1, <2>2, <3>1, RoomPoll
    <2>4. Whole(j, sq[i + j].n, Len(sq) - i, sent, lastLost')
      BY <1>3, <1>5, <2>1, <2>2, WholePoll
    <2> QED BY <1>1, <1>2, <2>1, <2>2, <2>3, <2>4 DEF RequestOK
  <1>10. AllRequests'
    BY <1>9 DEF AllRequests
  <1> QED BY <1>2, <1>6, <1>7, <1>8, <1>10 DEF IndInv

(* The wr_id of a request carries its watermark.                           *)
LEMMA EncodedMark ==
    ASSUME NEW usr \in UserIds, NEW mark \in 0 .. Marks - 1
    PROVE  /\ encode_my_wr(usr, mark) \in Nat
           /\ water_mark(encode_my_wr(usr, mark)) = mark
  <1>1. UserWrs \in Nat \ {0} /\ usr \in Int /\ Marks \in Nat \ {0}
    BY WidthAssumption, MarksAssumption DEF UserIds
  <1>2. usr % UserWrs \in Nat
    BY <1>1, ModType
  <1> DEFINE u == usr % UserWrs
  <1> HIDE DEF u
  <1>3. u \in Nat /\ encode_my_wr(usr, mark) = u * Marks + mark
    BY <1>2 DEF u, encode_my_wr
  <1>4. (u * Marks + mark) % Marks = mark
    BY <1>1, <1>3, Unpack
  <1>5. u * Marks + mark \in Nat
    BY <1>1, <1>3
  <1> QED BY <1>3, <1>4, <1>5 DEF water_mark

(* Both outcomes of a post: the NIC takes the request or refuses it.       *)
LEMMA PostIndInv ==
    ASSUME IndInv, NEW usr \in UserIds, NEW signaled \in BOOLEAN, Post(usr, signaled)
    PROVE  IndInv'
  <1> DEFINE mark == forward(high_watermark, 1)
             wr == Request(sent + 1, usr, encode_my_wr(usr, mark), signaled)
  <1>1. /\ sq \in Seq(Wr) /\ Len(sq) \in Nat
        /\ sent \in Nat /\ acked \in Nat /\ lastLost \in Nat /\ leaked \in Nat
        /\ high_watermark \in 0 .. Marks - 1 /\ low_watermark \in 0 .. Marks - 1
        /\ out_signaled \in 0 .. USize - 1
        /\ Bounds /\ AckedOK /\ Ordered
    BY Typed
  <1>2. mark \in 0 .. Marks - 1 /\ pending_reqs(mark, mark) = 0
    BY <1>1, PendingForward
  <1>3. /\ sent' = sent + 1
        /\ high_watermark' = mark
        /\ out_signaled' = CountSignaled(signaled)
        /\ UNCHANGED <<qp_state, status, low_watermark, acked>>
    BY DEF Post
  <1>4. \A n \in Nat, m \in 0 .. Marks - 1 :
            n <= sent /\ Near(n, sent, high_watermark, m) => Near(n, sent + 1, mark, m)
    BY <1>1, NearForward
  <1>5. wr \in Wr /\ wr.n = sent + 1 /\ water_mark(wr.wr_id) = mark
    <2>1. encode_my_wr(usr, mark) \in Nat /\ water_mark(encode_my_wr(usr, mark)) = mark
      BY <1>2, EncodedMark
    <2> QED BY <1>1, <2>1 DEF Request, Wr
  <1> HIDE DEF mark, wr
  <1>6. out_signaled' \in 0 .. USize - 1
    <2>1. out_signaled + 1 \in Int
      BY <1>1
    <2>2. (out_signaled + 1) % USize \in 0 .. USize - 1
      BY <2>1, ModType, WidthAssumption
    <2> QED BY <1>1, <1>3, <2>2 DEF CountSignaled
  <1>7. Near(acked, sent + 1, mark, low_watermark)
    BY <1>1, <1>4 DEF AckedOK, Bounds
  <1>8. ASSUME NEW i \in 1 .. Len(sq)
        PROVE  /\ sq[i].n \in Nat /\ sq[i].n <= sent /\ i \in Nat
               /\ Room(i, sq[i].n, Len(sq), acked, sent)
               /\ Whole(i, sq[i].n, Len(sq), sent, lastLost)
               /\ Near(sq[i].n, sent + 1, mark, water_mark(sq[i].wr_id))
    BY <1>4, Typed DEF RequestOK
  <1>9. CASE Accepted /\ sq' = Append(sq, wr) /\ UNCHANGED <<lastLost, leaked>>
    <2>1. /\ sq' \in Seq(Wr)
          /\ Len(sq') = Len(sq) + 1
          /\ \A i \in 1 .. Len(sq) : sq'[i] = sq[i]
          /\ sq'[Len(sq) + 1] = wr
          /\ lastLost' = lastLost /\ leaked' = leaked
      BY <1>1, <1>5, <1>9, AppendProperties
    <2>2. TypeOK'
      BY <1>1, <1>2, <1>3, <1>6, <2>1 DEF IndInv, TypeOK
    <2>3. Len(sq) + 1 <= SendDepth
      BY <1>1, <1>9, DepthAssumption DEF Accepted
    <2>4. Bounds'
      BY <1>1, <1>3, <2>1, <2>3 DEF Bounds
    <2>5. AckedOK'
      <3>1. Whole(0, acked, Len(sq) + 1, sent + 1, lastLost)
        BY <1>1, PartsForward DEF AckedOK, Bounds
      <3> QED BY <1>3, <1>7, <2>1, <3>1 DEF AckedOK
    <2>6. ASSUME NEW i \in 1 .. Len(sq)
          PROVE  RequestOK(i)'
      <3>1. /\ Room(i, sq[i].n, Len(sq) + 1, acked, sent + 1)
            /\ Whole(i, sq[i].n, Len(sq) + 1, sent + 1, lastLost)
        BY <1>1, <1>8, PartsForward
      <3> QED BY <1>3, <1>8, <2>1, <3>1 DEF RequestOK
    <2>7. ASSUME NEW k \in Nat, k = Len(sq) + 1
          PROVE  RequestOK(k)'
      <3>1. acked + Len(sq) <= sent
        <4>1. CASE Len(sq) = 0
          BY <1>1, <4>1 DEF Bounds
        <4>2. CASE Len(sq) # 0
          <5>1. Len(sq) \in 1 .. Len(sq)
            BY <1>1, <4>2
          <5>2. Room(Len(sq), sq[Len(sq)].n, Len(sq), acked, sent) /\ sq[Len(sq)].n \in Nat
            BY <1>8, <5>1
          <5> QED BY <1>1, <5>2 DEF Room
        <4> QED BY <4>1, <4>2
      <3>2. /\ Room(k, sent + 1, Len(sq) + 1, acked, sent + 1)
            /\ Whole(k, sent + 1, Len(sq) + 1, sent + 1, lastLost)
            /\ Near(sent + 1, sent + 1, mark, mark)
        BY <1>1, <1>2, <2>7, <3>1 DEF Room, Whole, Near
      <3> QED BY <1>3, <1>5, <2>1, <2>7, <3>2 DEF RequestOK
    <2>8. AllRequests'
      <3>1. \A i \in 1 .. Len(sq') : i \in 1 .. Len(sq) \/ (i \in Nat /\ i = Len(sq) + 1)
        BY <1>1, <2>1
      <3>2. \A i \in 1 .. Len(sq') : RequestOK(i)'
        BY <2>6, <2>7, <3>1
      <3> QED BY <3>2 DEF AllRequests
    <2>9. ASSUME NEW i \in 1 .. Len(sq'), NEW j \in 1 .. Len(sq'), i <= j
          PROVE  sq'[i].n + (j - i) <= sq'[j].n
      <3>1. CASE j \in 1 .. Len(sq)
        <4>1. i \in 1 .. Len(sq)
          BY <2>9, <3>1
        <4>2. sq'[i] = sq[i] /\ sq'[j] = sq[j]
          BY <2>1, <3>1, <4>1
        <4> QED BY <1>1, <2>9, <3>1, <4>1, <4>2 DEF Ordered
      <3>2. CASE j = Len(sq) + 1 /\ i = j
        BY <1>1, <1>5, <2>1, <3>2
      <3>3. CASE j = Len(sq) + 1 /\ i # j
        <4>1. i \in 1 .. Len(sq)
          BY <1>1, <2>1, <3>3
        <4>2. Room(i, sq[i].n, Len(sq), acked, sent) /\ sq[i].n \in Nat
          BY <1>8, <4>1
        <4>3. sq'[i].n = sq[i].n /\ sq'[j].n = sent + 1 /\ j = Len(sq) + 1
          BY <1>5, <2>1, <3>3, <4>1
        <4>4. sq[i].n + (Len(sq) + 1 - i) <= sent + 1
          <5>1. i \in Nat
            BY <4>1
          <5> QED BY <1>1, <4>2, <5>1, RoomBounds
        <4> QED BY <4>3, <4>4
      <3> QED BY <1>1, <2>1, <3>1, <3>2, <3>3
    <2>10. Ordered'
      BY <2>9 DEF Ordered
    <2> QED BY <2>2, <2>4, <2>5, <2>8, <2>10 DEF IndInv
  <1>10. CASE /\ sq' = sq /\ lastLost' = sent + 1
              /\ leaked' = IF signaled THEN leaked + 1 ELSE leaked
    <2>1. TypeOK'
      BY <1>1, <1>2, <1>3, <1>6, <1>10 DEF IndInv, TypeOK
    <2>2. Bounds'
      BY <1>1, <1>3, <1>10 DEF Bounds
    <2>3. AckedOK'
      <3>1. Whole(0, acked, Len(sq), sent + 1, sent + 1)
        BY <1>1, PartsForward DEF Bounds
      <3> QED BY <1>3, <1>7, <1>10, <3>1 DEF AckedOK
    <2>4. ASSUME NEW i \in 1 .. Len(sq)
          PROVE  RequestOK(i)'
      <3>1. /\ Room(i, sq[i].n, Len(sq), acked, sent + 1)
            /\ Whole(i, sq[i].n, Len(sq), sent + 1, sent + 1)
        BY <1>1, <1>8, PartsForward
      <3> QED BY <1>3, <1>8, <1>10, <3>1 DEF RequestOK
    <2>5. AllRequests' /\ Ordered'
      BY <1>1, <1>10, <2>4 DEF AllRequests, Ordered
    <2> QED BY <2>1, <2>2, <2>3, <2>5 DEF IndInv
  <1> QED BY <1>9, <1>10 DEF Post, wr, mark

(* Every step of the caller and of the NIC preserves the inductive         *)
(* invariant.                                                              *)
LEMMA NextIndInv == IndInv /\ [Next]_vars => IndInv'
  <1> SUFFICES ASSUME IndInv, [Next]_vars PROVE IndInv'
    OBVIOUS
  <1>1. ASSUME qp_state' \in QPStates, status' \in {"Err", "Ok"},
               UNCHANGED <<progressVars, out_signaled, sq, history>>
        PROVE  IndInv'
    <2>1. TypeOK'
      BY <1>1 DEF IndInv, TypeOK, progressVars, history
    <2> QED BY <1>1, <2>1, SameNumbers
  <1>2. CASE UNCHANGED vars
    BY <1>1, <1>2 DEF vars, IndInv, TypeOK
  <1>3. CASE Connect
    BY <1>1, <1>2, <1>3 DEF Connect, QPStates, IndInv, TypeOK
  <1>4. ASSUME NEW usr \in UserIds, NEW signaled \in BOOLEAN,
               SendNormal(usr, signaled) \/ Execute(usr, signaled)
        PROVE  IndInv'
    BY <1>4, PostIndInv DEF SendNormal, Execute
  <1>5. CASE PollRcComp
    BY <1>5, PollRcIndInv
  <1>6. CASE WaitOneComp
    BY <1>6, WaitOneIndInv
  <1>7. CASE NicExecute
    <2>1. PICK i \in 1 .. Len(sq) :
              /\ sq' = [sq EXCEPT ![i].comp = IF sq[i].signaled THEN "ok" ELSE "silent"]
              /\ UNCHANGED <<qp_state, status, progressVars, out_signaled, history>>
      BY <1>7 DEF NicExecute
    <2> DEFINE c == IF sq[i].signaled THEN "ok" ELSE "silent"
    <2>2. c \in {"silent", "ok", "err"}
      OBVIOUS
    <2>3. qp_state' \in QPStates
      BY <2>1 DEF IndInv, TypeOK
    <2>4. sq' = [sq EXCEPT ![i].comp = c]
      BY <2>1
    <2> HIDE DEF c
    <2> QED BY <2>1, <2>2, <2>3, <2>4, NicIndInv
  <1>8. CASE NicFail
    <2>1. PICK i \in 1 .. Len(sq) :
              /\ qp_state' = "ERR"
              /\ sq' = [sq EXCEPT ![i].comp = "err"]
              /\ UNCHANGED <<status, progressVars, out_signaled, history>>
      BY <1>8 DEF NicFail
    <2> QED BY <2>1, NicIndInv DEF QPStates
  <1> QED BY <1>2, <1>3, <1>4, <1>5, <1>6, <1>7, <1>8 DEF Next, Caller

-----------------------------------------------------------------------------
(* The inductive invariant holds of every behaviour.                       *)
THEOREM Inductive == Spec => []IndInv
  BY InitIndInv, NextIndInv, PTL DEF Spec

(* Every variable of RC keeps its type: the watermarks stay 16-bit values  *)
(* and out_signaled a usize through every post, completion and poll.       *)
THEOREM TypeCorrect == Spec => []TypeOK
  <1>1. IndInv => TypeOK
    BY DEF IndInv
  <1> QED BY <1>1, Inductive, PTL

(* RC::progress.pending_reqs() never under-reports the requests that hold  *)
(* a send-queue slot, for every width of ProgressMark_t and every depth.   *)
THEOREM PendingSafe == Spec => []PendingNeverUnder
  <1>1. IndInv => PendingNeverUnder
    <2> SUFFICES ASSUME IndInv PROVE PendingNeverUnder
      OBVIOUS
    <2>1. Len(sq) \in Nat /\ sent \in Nat /\ acked \in Nat /\ Bounds /\ AckedOK
      BY Typed
    <2>2. acked + Len(sq) <= sent
      <3>1. CASE Len(sq) = 0
        BY <2>1, <3>1 DEF Bounds
      <3>2. CASE Len(sq) # 0
        <4>1. Len(sq) \in 1 .. Len(sq)
          BY <2>1, <3>2
        <4>2. Room(Len(sq), sq[Len(sq)].n, Len(sq), acked, sent) /\ sq[Len(sq)].n \in Nat
          BY <4>1, Typed DEF RequestOK
        <4> QED BY <2>1, <4>2 DEF Room
      <3> QED BY <3>1, <3>2
    <2> QED BY <2>1, <2>2 DEF PendingNeverUnder, AckedOK, Near
  <1> QED BY <1>1, Inductive, PTL

(* pending_reqs() is exact as soon as poll_rc_comp has passed the last     *)
(* lost watermark; that needs SendDepth < Marks and nothing else.          *)
THEOREM PendingIsExact == Spec => []PendingExact
  <1>1. IndInv => PendingExact
    <2> SUFFICES ASSUME IndInv, lastLost <= acked
                 PROVE  pending_reqs(high_watermark, low_watermark) = Len(sq)
      BY DEF PendingExact
    <2>1. Len(sq) \in Nat /\ sent \in Nat /\ acked \in Nat /\ Bounds /\ AckedOK
      BY Typed
    <2>2. sent - acked = Len(sq) /\ Len(sq) <= SendDepth
      BY <2>1 DEF Bounds, AckedOK, Whole
    <2>3. sent - acked < Marks
      BY <2>1, <2>2, DepthAssumption, MarksAssumption
    <2> QED BY <2>1, <2>2, <2>3 DEF AckedOK, Near
  <1> QED BY <1>1, Inductive, PTL

(* Completions are acknowledged in posting order and at most once.         *)
THEOREM AcksInOrder == Spec => AckedInOrder
  <1>1. IndInv /\ [Next]_vars => [acked' # acked => acked' > acked]_vars
    <2> SUFFICES ASSUME IndInv, Next, acked' # acked PROVE acked' > acked
      BY DEF vars, history
    <2>1. PollRcComp
      BY DEF Next, Caller, Connect, SendNormal, Execute, Post, WaitOneComp,
             NicExecute, NicFail, vars, history
    <2>2. PICK i \in 1 .. Len(sq) : acked' = sq[i].n
      BY <2>1 DEF PollRcComp
    <2>3. /\ acked \in Nat /\ Len(sq) \in Nat /\ sq[i].n \in Nat
          /\ Room(i, sq[i].n, Len(sq), acked, sent)
      BY Typed DEF RequestOK
    <2> QED BY <2>2, <2>3 DEF Room
  <1> QED BY <1>1, Inductive, PTL DEF Spec, AckedInOrder

-----------------------------------------------------------------------------
(* The books: ids, signals and the state of the QP.                        *)

(* Adding a multiple of the modulus does not change a remainder.           *)
LEMMA ModShift ==
    ASSUME NEW m \in Nat \ {0}, NEW a \in Int, NEW q \in Int
    PROVE  (a + m * q) % m = a % m
  <1> DEFINE x == a + m * q
             q1 == a \div m
             r1 == a % m
             q2 == x \div m
             r2 == x % m
  <1>1. q1 \in Int /\ r1 \in 0 .. m - 1 /\ a = m * q1 + r1
    OBVIOUS
  <1>2. x \in Int
    OBVIOUS
  <1>3. q2 \in Int /\ r2 \in 0 .. m - 1 /\ x = m * q2 + r2
    <2> HIDE DEF x
    <2> QED BY <1>2
  <1>4. m * (q2 - q1 - q) = r1 - r2
    <2>1. m * q2 + r2 = m * q1 + r1 + m * q
      BY <1>1, <1>3
    <2> HIDE DEF q1, q2, r1, r2
    <2> QED BY <1>1, <1>3, <2>1
  <1> HIDE DEF q1, q2, r1, r2
  <1> DEFINE d == q2 - q1 - q
  <1>5. d \in Int /\ m * d = r1 - r2
    BY <1>1, <1>3, <1>4
  <1> HIDE DEF d
  <1>6. d < 1
    <2>1. SUFFICES ASSUME d >= 1 PROVE FALSE
      BY <1>5
    <2>2. m * d >= m
      BY <1>5, <2>1
    <2> QED BY <1>1, <1>3, <1>5, <2>2
  <1>7. d > -1
    <2>1. SUFFICES ASSUME d <= -1 PROVE FALSE
      BY <1>5
    <2>2. m * d <= -m
      BY <1>5, <2>1
    <2> QED BY <1>1, <1>3, <1>5, <2>2
  <1>8. d = 0
    BY <1>5, <1>6, <1>7
  <1>9. r1 = r2
    BY <1>1, <1>3, <1>5, <1>8
  <1> QED BY <1>9 DEF r1, r2

(* A counter of a limited width may be reduced before it is moved.         *)
LEMMA ModMove ==
    ASSUME NEW m \in Nat \ {0}, NEW a \in Int, NEW b \in Int
    PROVE  ((a % m) + b) % m = (a + b) % m
  <1> DEFINE q == a \div m
             r == a % m
  <1>1. q \in Int /\ r \in Int /\ a = m * q + r
    OBVIOUS
  <1> HIDE DEF q, r
  <1>2. a + b = (r + b) + m * q
    BY <1>1
  <1>3. ((r + b) + m * q) % m = (r + b) % m
    <2>1. r + b \in Int
      BY <1>1
    <2> QED BY <1>1, <2>1, ModShift
  <1> QED BY <1>2, <1>3 DEF r

(* user_wr and water_mark undo encode_my_wr.                               *)
LEMMA EncodedUser ==
    ASSUME NEW usr \in UserIds, NEW mark \in 0 .. Marks - 1
    PROVE  /\ user_wr(encode_my_wr(usr, mark)) = usr
           /\ water_mark(encode_my_wr(usr, mark)) = mark
  <1>1. UserWrs \in Nat \ {0} /\ usr \in 0 .. UserWrs - 1 /\ Marks \in Nat \ {0}
    BY WidthAssumption, MarksAssumption DEF UserIds
  <1>2. usr % UserWrs = usr
    BY <1>1, ModSmall
  <1>3. encode_my_wr(usr, mark) = usr * Marks + mark /\ usr \in Nat
    BY <1>1, <1>2 DEF encode_my_wr
  <1>4. (usr * Marks + mark) % Marks = mark
    BY <1>1, <1>3, Unpack
  <1> DEFINE x == usr * Marks + mark
             q == x \div Marks
             r == x % Marks
  <1>5. x \in Int
    BY <1>1
  <1>6. q \in Int /\ x = Marks * q + r
    <2> HIDE DEF x
    <2> QED BY <1>1, <1>5
  <1>7. Marks * q = Marks * usr /\ q \in Int
    <2>1. usr * Marks + mark = Marks * q + mark
      BY <1>4, <1>6
    <2> HIDE DEF q
    <2> QED BY <1>1, <1>6, <2>1
  <1>8. q = usr
    <2> HIDE DEF q
    <2> QED BY <1>1, <1>7
  <1> QED BY <1>3, <1>4, <1>8 DEF user_wr, water_mark

(* The wr_ids are packed from the caller's id and the number; the NIC has  *)
(* executed a beginning of the queue, with a completion for the signaled   *)
(* requests only as long as nothing failed.                                *)
Packed(w) == w.wr_id = encode_my_wr(w.usr, w.n % Marks)

Executed ==
    /\ \A i, j \in 1 .. Len(sq) :
           i < j /\ sq[j].comp # "posted" => sq[i].comp # "posted"
    /\ \A i \in 1 .. Len(sq) :
           /\ sq[i].comp = "ok" => sq[i].signaled
           /\ sq[i].comp = "silent" => ~ sq[i].signaled
           /\ sq[i].comp = "err" => qp_state = "ERR"

Books ==
    /\ high_watermark = sent % Marks
    /\ \A i \in 1 .. Len(sq) : Packed(sq[i])
    /\ Executed
    /\ OnlyConnectedSends
    /\ OutSignaledAccounts

(* The signaled requests of a queue.                                       *)
Signals(s) == {i \in 1 .. Len(s) : s[i].signaled}

(* There are finitely many of them.                                        *)
LEMMA SignalsFinite ==
    ASSUME NEW s \in Seq(Wr)
    PROVE  IsFiniteSet(Signals(s)) /\ Cardinality(Signals(s)) \in Nat
  <1>1. IsFiniteSet(1 .. Len(s))
    BY FS_Interval
  <1>2. IsFiniteSet(Signals(s))
    BY <1>1, FS_Subset DEF Signals
  <1> QED BY <1>2, FS_CardinalityType

(* A request at the end of the queue is counted when it is signaled.       *)
LEMMA SignalsAppend ==
    ASSUME NEW s \in Seq(Wr), NEW w \in Wr
    PROVE  Cardinality(Signals(Append(s, w))) =
               Cardinality(Signals(s)) + (IF w.signaled THEN 1 ELSE 0)
  <1> DEFINE t == Append(s, w)
             k == Len(s) + 1
  <1>1. /\ Len(t) = k /\ t[k] = w /\ Len(s) \in Nat
        /\ \A i \in 1 .. Len(s) : t[i] = s[i]
    BY AppendProperties
  <1> HIDE DEF t
  <1>2. Signals(t) = IF w.signaled THEN Signals(s) \cup {k} ELSE Signals(s)
    <2>1. \A i : i \in 1 .. Len(t) <=> i \in 1 .. Len(s) \/ i = k
      BY <1>1
    <2> QED BY <1>1, <2>1 DEF Signals
  <1>3. k \notin Signals(s)
    BY <1>1 DEF Signals
  <1>4. CASE w.signaled
    <2>1. Cardinality(Signals(s) \cup {k}) = Cardinality(Signals(s)) + 1
      BY <1>3, SignalsFinite, FS_AddElement
    <2> QED BY <1>2, <1>4, <2>1 DEF t
  <1>5. CASE ~ w.signaled
    <2>1. Cardinality(Signals(s)) \in Nat
      BY SignalsFinite
    <2> QED BY <1>2, <1>5, <2>1 DEF t
  <1> QED BY <1>4, <1>5

(* Retiring the first k requests, of which the last alone is signaled,     *)
(* takes one off the count.                                                *)
LEMMA SignalsPoll ==
    ASSUME NEW s \in Seq(Wr), NEW t \in Seq(Wr), NEW k \in 1 .. Len(s),
           Len(t) = Len(s) - k,
           \A j \in 1 .. Len(t) : t[j] = s[k + j],
           s[k].signaled,
           \A j \in 1 .. k - 1 : ~ s[j].signaled
    PROVE  Cardinality(Signals(s)) = Cardinality(Signals(t)) + 1
  <1> DEFINE f == [j \in Signals(t) |-> k + j]
             later == {i \in Signals(s) : i > k}
  <1>1. Len(s) \in Nat /\ Len(t) \in Nat
    OBVIOUS
  <1>2. \A j \in Signals(t) : j \in Nat /\ k + j \in later
    BY <1>1 DEF Signals
  <1>3. \A i \in later : i - k \in Signals(t) /\ k + (i - k) = i
    <2> TAKE i \in later
    <2>1. i \in 1 .. Len(s) /\ i > k /\ s[i].signaled
      BY DEF Signals
    <2>2. i - k \in 1 .. Len(t) /\ k + (i - k) = i
      BY <1>1, <2>1
    <2> QED BY <2>1, <2>2 DEF Signals
  <1>4. f \in Bijection(Signals(t), later)
    <2>1. f \in [Signals(t) -> later]
      BY <1>2
    <2>2. \A a, b \in Signals(t) : f[a] = f[b] => a = b
      BY <1>2
    <2>3. \A i \in later : \E j \in Signals(t) : f[j] = i
      BY <1>3
    <2> HIDE DEF f, later
    <2> QED BY <2>1, <2>2, <2>3, Fun_IsBij
  <1>5. IsFiniteSet(Signals(t)) /\ Cardinality(Signals(t)) \in Nat
    BY SignalsFinite
  <1>6. IsFiniteSet(later) /\ Cardinality(later) = Cardinality(Signals(t))
    <2>1. ExistsBijection(Signals(t), later)
      BY <1>4 DEF ExistsBijection
    <2> HIDE DEF later
    <2> QED BY <1>5, <2>1, FS_Bijection
  <1>7. Signals(s) = later \cup {k} /\ k \notin later
    <2>1. \A i \in 1 .. Len(s) : i > k \/ i = k \/ i \in 1 .. k - 1
      BY <1>1
    <2> QED BY <2>1 DEF Signals
  <1>8. Cardinality(later \cup {k}) = Cardinality(later) + 1
    <2> HIDE DEF later
    <2> QED BY <1>6, <1>7, FS_AddElement
  <1> QED BY <1>6, <1>7, <1>8

(* SignaledInSq is the number of them.                                     *)
LEMMA SignaledIs == SignaledInSq = Cardinality(Signals(sq))
  BY DEF SignaledInSq, Signals

(* A new RC has empty books.                                               *)
LEMMA InitBooks == Init => Books
  <1> SUFFICES ASSUME Init PROVE Books
    OBVIOUS
  <1>1. sq = <<>> /\ Len(sq) = 0
    BY DEF Init
  <1>2. high_watermark = sent % Marks
    <2>1. 0 % Marks = 0
      BY MarksAssumption
    <2> QED BY <2>1 DEF Init
  <1>3. OutSignaledAccounts
    <2>1. Signals(sq) = {}
      BY <1>1 DEF Signals
    <2>2. SignaledInSq = 0
      BY <2>1, SignaledIs, FS_EmptySet
    <2>3. 0 % USize = 0
      BY WidthAssumption
    <2> QED BY <2>2, <2>3 DEF Init, OutSignaledAccounts
  <1>4. Executed /\ OnlyConnectedSends
    BY <1>1 DEF Init, Executed, OnlyConnectedSends
  <1> QED BY <1>1, <1>2, <1>3, <1>4 DEF Books

(* connect changes neither the queue nor the counters.                     *)
LEMMA ConnectBooks ==
    ASSUME TypeOK, Books, Connect
    PROVE  Books'
  <1>1. UNCHANGED <<high_watermark, out_signaled, sq, sent, leaked>>
    BY DEF Connect, vars, progressVars, history
  <1>2. OnlyConnectedSends' /\ (qp_state = "ERR" <=> qp_state' = "ERR")
    BY DEF Connect, vars, progressVars, history, Books, OnlyConnectedSends
  <1>3. OutSignaledAccounts'
    BY <1>1, <1>2 DEF Books, OutSignaledAccounts, SignaledInSq
  <1>4. Executed'
    BY <1>1, <1>2 DEF Books, Executed
  <1> QED BY <1>1, <1>2, <1>3, <1>4 DEF Books, Packed

(* A post packs the id with the mark of its number, and counts a signaled  *)
(* request in the queue or, when it is refused, as leaked.                 *)
LEMMA PostBooks ==
    ASSUME TypeOK, Books, NEW usr \in UserIds, NEW signaled \in BOOLEAN, Post(usr, signaled)
    PROVE  Books'
  <1> DEFINE mark == forward(high_watermark, 1)
             wr == Request(sent + 1, usr, encode_my_wr(usr, mark), signaled)
  <1>1. /\ sq \in Seq(Wr) /\ Len(sq) \in Nat /\ sent \in Nat /\ leaked \in Nat
        /\ out_signaled \in Int /\ Marks \in Nat \ {0} /\ USize \in Nat \ {0}
    BY MarksAssumption, WidthAssumption DEF TypeOK
  <1>2. /\ sent' = sent + 1 /\ high_watermark' = mark
        /\ out_signaled' = CountSignaled(signaled)
        /\ UNCHANGED <<qp_state, status>>
    BY DEF Post
  <1>3. mark = (sent + 1) % Marks /\ mark \in 0 .. Marks - 1
    <2>1. ((sent % Marks) + 1) % Marks = (sent + 1) % Marks
      <3>1. sent \in Int /\ 1 \in Int
        BY <1>1
      <3> QED BY <1>1, <3>1, ModMove, Zenon
    <2>2. (sent + 1) % Marks \in 0 .. Marks - 1
      BY <1>1, ModType
    <2> QED BY <2>1, <2>2 DEF Books, forward
  <1>4. /\ wr \in Wr /\ wr.n = sent + 1 /\ wr.signaled = signaled /\ wr.comp = "posted"
        /\ Packed(wr)
    <2>1. encode_my_wr(usr, mark) \in Nat
      BY <1>3, EncodedMark
    <2> QED BY <1>1, <1>3, <2>1 DEF Request, Wr, Packed
  <1>5. high_watermark' = sent' % Marks
    BY <1>2, <1>3
  <1>6. ASSUME NEW a \in Nat, NEW b \in Nat,
               a = b + (IF signaled THEN 1 ELSE 0),
               qp_state # "ERR" => out_signaled = b % USize
        PROVE  qp_state # "ERR" => out_signaled' = a % USize
    <2>1. ((b % USize) + 1) % USize = (b + 1) % USize
      <3>1. b \in Int /\ 1 \in Int
        OBVIOUS
      <3> QED BY <1>1, <3>1, ModMove, Zenon
    <2> QED BY <1>2, <1>6, <2>1 DEF CountSignaled
  <1>7. Cardinality(Signals(sq)) \in Nat
    BY <1>1, SignalsFinite
  <1>8. qp_state # "ERR" => out_signaled = (Cardinality(Signals(sq)) + leaked) % USize
    BY SignaledIs DEF Books, OutSignaledAccounts
  <1>9. (SignaledInSq)' = Cardinality(Signals(sq'))
    BY DEF SignaledInSq, Signals
  <1>10. CASE Accepted /\ sq' = Append(sq, wr) /\ UNCHANGED <<lastLost, leaked>>
    <2> HIDE DEF wr, mark
    <2>1. /\ Len(sq') = Len(sq) + 1
          /\ \A i \in 1 .. Len(sq) : sq'[i] = sq[i]
          /\ sq'[Len(sq) + 1] = wr
          /\ \A i \in 1 .. Len(sq') : i \in 1 .. Len(sq) \/ i = Len(sq) + 1
      BY <1>1, <1>4, <1>10, AppendProperties
    <2>2. OutSignaledAccounts'
      <3>1. Cardinality(Signals(sq')) =
                Cardinality(Signals(sq)) + (IF signaled THEN 1 ELSE 0)
        BY <1>1, <1>4, <1>10, SignalsAppend
      <3>2. /\ Cardinality(Signals(sq')) + leaked \in Nat
            /\ Cardinality(Signals(sq)) + leaked \in Nat
            /\ Cardinality(Signals(sq')) + leaked
                   = (Cardinality(Signals(sq)) + leaked) + (IF signaled THEN 1 ELSE 0)
        BY <1>1, <1>7, <3>1
      <3>3. qp_state # "ERR" =>
                out_signaled' = (Cardinality(Signals(sq')) + leaked) % USize
        BY <1>6, <1>8, <3>2
      <3> QED BY <1>2, <1>9, <1>10, <3>3 DEF OutSignaledAccounts
    <2>3. \A i \in 1 .. Len(sq') : Packed(sq'[i])
      BY <1>4, <2>1 DEF Books
    <2>4. OnlyConnectedSends'
      BY <1>2, <1>10 DEF Books, OnlyConnectedSends, Accepted
    <2>5. Executed'
      <3>1. ASSUME NEW i \in 1 .. Len(sq'), NEW j \in 1 .. Len(sq'),
                   i < j, sq'[j].comp # "posted"
            PROVE  sq'[i].comp # "posted"
        <4>1. j # Len(sq) + 1
          BY <1>4, <2>1, <3>1
        <4>2. i \in 1 .. Len(sq) /\ j \in 1 .. Len(sq)
          BY <1>1, <2>1, <3>1, <4>1
        <4> QED BY <2>1, <3>1, <4>2 DEF Books, Executed
      <3>2. ASSUME NEW i \in 1 .. Len(sq')
            PROVE  /\ sq'[i].comp = "ok" => sq'[i].signaled
                   /\ sq'[i].comp = "silent" => ~ sq'[i].signaled
                   /\ sq'[i].comp = "err" => qp_state' = "ERR"
        BY <1>2, <1>4, <2>1 DEF Books, Executed
      <3> QED BY <3>1, <3>2 DEF Executed
    <2> QED BY <1>5, <2>2, <2>3, <2>4, <2>5 DEF Books
  <1>11. CASE /\ sq' = sq
              /\ leaked' = IF signaled THEN leaked + 1 ELSE leaked
    <2> HIDE DEF wr, mark
    <2>1. OutSignaledAccounts'
      <3>1. /\ Cardinality(Signals(sq)) + leaked' \in Nat
            /\ Cardinality(Signals(sq)) + leaked \in Nat
            /\ Cardinality(Signals(sq)) + leaked'
                   = (Cardinality(Signals(sq)) + leaked) + (IF signaled THEN 1 ELSE 0)
        BY <1>1, <1>7, <1>11
      <3>2. qp_state # "ERR" =>
                out_signaled' = (Cardinality(Signals(sq)) + leaked') % USize
        BY <1>6, <1>8, <3>1
      <3> QED BY <1>2, <1>9, <1>11, <3>2 DEF OutSignaledAccounts
    <2>2. OnlyConnectedSends' /\ Executed'
      BY <1>2, <1>11 DEF Books, OnlyConnectedSends, Executed
    <2>3. \A i \in 1 .. Len(sq') : Packed(sq'[i])
      BY <1>11 DEF Books
    <2> QED BY <1>5, <2>1, <2>2, <2>3 DEF Books
  <1> QED BY <1>10, <1>11 DEF Post, wr, mark

(* What the NIC does to a request keeps the beginning of the queue         *)
(* executed.                                                               *)
LEMMA NicBooks ==
    ASSUME TypeOK, Books, NEW i \in 1 .. Len(sq), NEW c \in {"silent", "ok", "err"},
           Oldest(i), sq' = [sq EXCEPT ![i].comp = c],
           c = "ok" => sq[i].signaled, c = "silent" => ~ sq[i].signaled,
           c = "err" => qp_state' = "ERR",
           qp_state' \in {qp_state, "ERR"}, qp_state' = "ERR" => qp_state = "ERR" \/ c = "err",
           status' = status, UNCHANGED <<progressVars, out_signaled, history>>
    PROVE  Books'
  <1>1. sq \in Seq(Wr) /\ sq[i] \in Wr
    <2>1. sq \in Seq(Wr)
      BY DEF TypeOK
    <2> QED BY <2>1, ElementOfSeq
  <1> DEFINE e == [sq[i] EXCEPT !.comp = c]
  <1>2. /\ e \in Wr /\ e.n = sq[i].n /\ e.wr_id = sq[i].wr_id /\ e.usr = sq[i].usr
        /\ e.signaled = sq[i].signaled /\ e.comp = c
    BY <1>1 DEF Wr
  <1>3. sq' = [sq EXCEPT ![i] = e]
    OBVIOUS
  <1> HIDE DEF e
  <1>4. /\ sq' \in Seq(Wr) /\ Len(sq') = Len(sq)
        /\ \A j \in 1 .. Len(sq) : sq'[j] = IF j = i THEN e ELSE sq[j]
    BY <1>1, <1>2, <1>3, ExceptSeq, SMTT(30)
  <1>5. /\ \A j \in 1 .. Len(sq) : sq'[j].comp = IF j = i THEN c ELSE sq[j].comp
        /\ \A j \in 1 .. Len(sq) : sq'[j].signaled = sq[j].signaled
        /\ \A j \in 1 .. Len(sq) : sq'[j].n = sq[j].n
        /\ \A j \in 1 .. Len(sq) : sq'[j].wr_id = sq[j].wr_id
        /\ \A j \in 1 .. Len(sq) : sq'[j].usr = sq[j].usr
    BY <1>2, <1>4
  <1>6. UNCHANGED <<high_watermark, out_signaled, sent, leaked>>
    BY DEF progressVars, history
  <1>7. Executed'
    <2>1. ASSUME NEW k \in 1 .. Len(sq), NEW j \in 1 .. Len(sq),
                 k < j, sq'[j].comp # "posted"
          PROVE  sq'[k].comp # "posted"
      <3>1. CASE k = i
        BY <1>5, <3>1
      <3>2. CASE k # i /\ j = i
        <4>1. k \in 1 .. i - 1
          BY <2>1, <3>2
        <4> QED BY <1>5, <3>2, <4>1 DEF Oldest
      <3>3. CASE k # i /\ j # i
        BY <1>5, <2>1, <3>3 DEF Books, Executed
      <3> QED BY <3>1, <3>2, <3>3
    <2>2. ASSUME NEW j \in 1 .. Len(sq)
          PROVE  /\ sq'[j].comp = "ok" => sq'[j].signaled
                 /\ sq'[j].comp = "silent" => ~ sq'[j].signaled
                 /\ sq'[j].comp = "err" => qp_state' = "ERR"
      <3>1. CASE j = i
        <4>1. sq'[j].comp = c /\ sq'[j].signaled = sq[i].signaled
          BY <1>5, <3>1
        <4> QED BY <4>1
      <3>2. CASE j # i
        BY <1>5, <3>2 DEF Books, Executed
      <3> QED BY <3>1, <3>2
    <2> QED BY <1>4, <2>1, <2>2 DEF Executed
  <1>8. OutSignaledAccounts'
    <2>1. Signals(sq') = Signals(sq)
      BY <1>4, <1>5 DEF Signals
    <2>2. (SignaledInSq)' = SignaledInSq
      BY <2>1 DEF SignaledInSq, Signals
    <2> QED BY <1>6, <2>2 DEF Books, OutSignaledAccounts
  <1>9. OnlyConnectedSends'
    <2>1. sq # <<>>
      BY <1>1
    <2> QED BY <2>1 DEF Books, OnlyConnectedSends
  <1>10. \A j \in 1 .. Len(sq') : Packed(sq'[j])
    BY <1>4, <1>5 DEF Books, Packed
  <1> QED BY <1>6, <1>7, <1>8, <1>9, <1>10 DEF Books

(* A poll takes one off out_signaled, and the requests it retires are one  *)
(* signaled request and silent ones before it, unless the QP has failed.   *)
LEMMA PollBooks ==
    ASSUME IndInv, Books, NEW i \in 1 .. Len(sq), poll_send_comp(i)
    PROVE  Books'
  <1>1. /\ sq' \in Seq(Wr)
        /\ Len(sq') = Len(sq) - i
        /\ \A j \in 1 .. Len(sq') : i + j \in 1 .. Len(sq) /\ sq'[j] = sq[i + j]
        /\ UNCHANGED <<qp_state, status, high_watermark, sent, leaked>>
    BY PolledSq
  <1>2. /\ sq \in Seq(Wr) /\ Len(sq) \in Nat /\ leaked \in Nat /\ USize \in Nat \ {0}
        /\ Completion(i) /\ out_signaled' = (out_signaled - 1) % USize
    BY Typed, WidthAssumption DEF poll_send_comp
  <1>3. Executed'
    <2>1. ASSUME NEW k \in 1 .. Len(sq'), NEW j \in 1 .. Len(sq'),
                 k < j, sq'[j].comp # "posted"
          PROVE  sq'[k].comp # "posted"
      <3>1. /\ i + k \in 1 .. Len(sq) /\ i + j \in 1 .. Len(sq)
            /\ sq'[k] = sq[i + k] /\ sq'[j] = sq[i + j]
        BY <1>1
      <3>2. i + k < i + j
        BY <1>1, <1>2, <2>1
      <3> QED BY <2>1, <3>1, <3>2 DEF Books, Executed
    <2>2. ASSUME NEW j \in 1 .. Len(sq')
          PROVE  /\ sq'[j].comp = "ok" => sq'[j].signaled
                 /\ sq'[j].comp = "silent" => ~ sq'[j].signaled
                 /\ sq'[j].comp = "err" => qp_state' = "ERR"
      BY <1>1 DEF Books, Executed
    <2> QED BY <2>1, <2>2 DEF Executed
  <1>4. ASSUME qp_state # "ERR"
        PROVE  out_signaled' = (Cardinality(Signals(sq')) + leaked) % USize
    <2>1. sq[i].comp = "ok"
      BY <1>2, <1>4 DEF Books, Executed, Completion
    <2>2. sq[i].signaled
      BY <2>1 DEF Books, Executed
    <2>3. ASSUME NEW j \in 1 .. i - 1 PROVE ~ sq[j].signaled
      <3>1. j \in 1 .. Len(sq) /\ j < i
        BY <1>2
      <3>2. sq[j].comp # "posted" /\ sq[j].comp \notin {"ok", "err"}
        BY <1>2, <2>1, <3>1 DEF Books, Executed, Completion
      <3>3. sq[j].comp \in {"posted", "silent", "ok", "err"}
        <4>1. sq[j] \in Wr
          BY <1>2, <3>1, ElementOfSeq
        <4> QED BY <4>1 DEF Wr
      <3> QED BY <3>1, <3>2, <3>3 DEF Books, Executed
    <2>4. Cardinality(Signals(sq)) = Cardinality(Signals(sq')) + 1
      BY <1>1, <1>2, <2>2, <2>3, SignalsPoll
    <2>5. Cardinality(Signals(sq')) \in Nat /\ Cardinality(Signals(sq)) \in Nat
      BY <1>1, <1>2, SignalsFinite
    <2> DEFINE a == Cardinality(Signals(sq)) + leaked
               b == Cardinality(Signals(sq')) + leaked
    <2>6. a \in Int /\ b \in Int /\ a + -1 = b
      BY <1>2, <2>4, <2>5
    <2>7. out_signaled = a % USize
      BY <1>4, SignaledIs DEF Books, OutSignaledAccounts
    <2>8. ((a % USize) + -1) % USize = b % USize
      <3> HIDE DEF a, b
      <3>1. ((a % USize) + -1) % USize = (a + -1) % USize
        <4>1. -1 \in Int
          OBVIOUS
        <4> QED BY <1>2, <2>6, <4>1, ModMove, Zenon
      <3> QED BY <2>6, <3>1
    <2>9. (a % USize) - 1 = (a % USize) + -1
      <3>1. a % USize \in Int
        <4> HIDE DEF a
        <4> QED BY <1>2, <2>6, ModType
      <3> HIDE DEF a
      <3> QED BY <3>1
    <2> QED BY <1>2, <2>7, <2>8, <2>9
  <1>5. OutSignaledAccounts'
    <2>1. (SignaledInSq)' = Cardinality(Signals(sq'))
      BY DEF SignaledInSq, Signals
    <2> QED BY <1>1, <1>4, <2>1 DEF OutSignaledAccounts
  <1>6. OnlyConnectedSends'
    <2>1. sq # <<>>
      BY <1>2
    <2> QED BY <1>1, <2>1 DEF Books, OnlyConnectedSends
  <1>7. \A j \in 1 .. Len(sq') : Packed(sq'[j])
    BY <1>1 DEF Books
  <1> QED BY <1>1, <1>3, <1>5, <1>6, <1>7 DEF Books

(* Every step keeps the books.                                             *)
LEMMA NextBooks == IndInv /\ Books /\ [Next]_vars => Books'
  <1> SUFFICES ASSUME IndInv, Books, [Next]_vars PROVE Books'
    OBVIOUS
  <1>1. TypeOK
    BY DEF IndInv
  <1>2. CASE UNCHANGED vars
    <2>1. UNCHANGED <<qp_state, status, high_watermark, out_signaled, sq, sent, leaked>>
      BY <1>2 DEF vars, progressVars, history
    <2> QED BY <2>1 DEF Books, Packed, Executed, OnlyConnectedSends, OutSignaledAccounts,
                        SignaledInSq
  <1>3. CASE Connect
    BY <1>1, <1>3, ConnectBooks
  <1>4. ASSUME NEW usr \in UserIds, NEW signaled \in BOOLEAN,
               SendNormal(usr, signaled) \/ Execute(usr, signaled)
        PROVE  Books'
    BY <1>1, <1>4, PostBooks DEF SendNormal, Execute
  <1>5. CASE PollRcComp \/ WaitOneComp
    BY <1>5, PollBooks DEF PollRcComp, WaitOneComp
  <1>6. CASE NicExecute
    <2>1. PICK i \in 1 .. Len(sq) :
              /\ Oldest(i) /\ qp_state = "RTS"
              /\ sq' = [sq EXCEPT ![i].comp = IF sq[i].signaled THEN "ok" ELSE "silent"]
              /\ UNCHANGED <<qp_state, status, progressVars, out_signaled, history>>
      BY <1>6 DEF NicExecute
    <2> DEFINE c == IF sq[i].signaled THEN "ok" ELSE "silent"
    <2>2. /\ c \in {"silent", "ok", "err"} /\ c # "err"
          /\ c = "ok" => sq[i].signaled
          /\ c = "silent" => ~ sq[i].signaled
          /\ sq' = [sq EXCEPT ![i].comp = c]
      BY <2>1
    <2> HIDE DEF c
    <2>3. qp_state' = qp_state /\ qp_state' # "ERR" /\ status' = status
          /\ UNCHANGED <<progressVars, out_signaled, history>>
      BY <2>1
    <2> QED BY <1>1, <2>1, <2>2, <2>3, NicBooks
  <1>7. CASE NicFail
    <2>1. PICK i \in 1 .. Len(sq) :
              /\ Oldest(i) /\ qp_state' = "ERR"
              /\ sq' = [sq EXCEPT ![i].comp = "err"]
              /\ UNCHANGED <<status, progressVars, out_signaled, history>>
      BY <1>7 DEF NicFail
    <2> DEFINE c == "err"
    <2>2. c \in {"silent", "ok", "err"} /\ c = "err" /\ c # "ok" /\ c # "silent"
          /\ sq' = [sq EXCEPT ![i].comp = c]
      BY <2>1
    <2> HIDE DEF c
    <2> QED BY <1>1, <2>1, <2>2, NicBooks
  <1> QED BY <1>2, <1>3, <1>4, <1>5, <1>6, <1>7 DEF Next, Caller

(* encode_my_wr, out_signaled and status: ids and watermarks come back as  *)
(* they were packed, out_signaled accounts for every signaled request that *)
(* is in the send queue or was refused, until a request fails, and nothing *)
(* is in the send queue of a QP that was never connected.                  *)
THEOREM BooksCorrect == Spec => []RequestsAccountedFor
  <1>1. IndInv /\ Books => RequestsAccountedFor
    <2> SUFFICES ASSUME IndInv, Books PROVE RequestsAccountedFor
      OBVIOUS
    <2>1. ASSUME NEW i \in 1 .. Len(sq)
          PROVE  /\ user_wr(sq[i].wr_id) = sq[i].usr
                 /\ water_mark(sq[i].wr_id) = sq[i].n % Marks
      <3>1. sq[i] \in Wr
        BY Typed, ElementOfSeq
      <3>2. sq[i].usr \in UserIds /\ sq[i].n \in Int
        BY <3>1 DEF Wr
      <3>3. sq[i].n % Marks \in 0 .. Marks - 1
        <4>1. Marks \in Nat \ {0}
          BY MarksAssumption
        <4> QED BY <3>2, <4>1, ModType
      <3>4. sq[i].wr_id = encode_my_wr(sq[i].usr, sq[i].n % Marks)
        BY DEF Books, Packed
      <3> QED BY <3>2, <3>3, <3>4, EncodedUser
    <2>2. WrIdRoundTrip
      BY <2>1 DEF WrIdRoundTrip
    <2> QED BY <2>2 DEF RequestsAccountedFor, Books
  <1>2. Init => Books
    BY InitBooks
  <1>3. IndInv /\ Books /\ [Next]_vars => Books'
    BY NextBooks
  <1> QED BY <1>1, <1>2, <1>3, Inductive, PTL DEF Spec
=============================================================================
