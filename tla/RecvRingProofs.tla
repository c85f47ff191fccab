--------------------------- MODULE RecvRingProofs ---------------------------
(***************************************************************************)
(* Proofs about module RecvRing, for rings of every size and receive       *)
(* queues of every depth, of a recv_cq that one QP uses (OneQP).           *)
(*                                                                         *)
(* post_recvs counts; what makes counting right is the order of the        *)
(* entries.  Each entry has a distance from header, and along everything   *)
(* that is outstanding, oldest first, the distance grows by one at least:  *)
(* the n requests posted next, at distances 0 .. n - 1, are then always    *)
(* behind the entries still outstanding once the oldest n are released.    *)
(***************************************************************************)
EXTENDS RecvRing, SequenceTheorems, WellFoundedInduction, TLAPS

(* RecvIter posts every request at the one QP it was given, also those of  *)
(* another QP on the same recv_cq.                                         *)
OneQP == \A q, r \in Qps : q = r

-----------------------------------------------------------------------------
(* Induction over the naturals, stated for sets.                           *)

(* The order the library's theorem speaks of, as a set of pairs.           *)
LEMMA Less == OpToRel(<, Nat) = {ss \in Nat \X Nat : ss[1] < ss[2]}
  BY Zenon DEF OpToRel

(* A nonempty set of naturals has a least element.                         *)
LEMMA LeastNumber ==
  ASSUME NEW T \in SUBSET Nat, T # {}
  PROVE  \E x \in T : \A y \in T : x <= y
<1> DEFINE R == {ss \in Nat \X Nat : ss[1] < ss[2]}
<1>1. IsWellFoundedOn(R, Nat)
  BY Less, NatLessThanWellFounded, Zenon
<1>2. \E x \in T : \A y \in T : ~ (<<y, x>> \in R)
  BY <1>1, WFMin
<1>3. \A x, y \in Nat : <<y, x>> \in R <=> y < x
  OBVIOUS
<1> HIDE DEF R
<1>4. PICK x \in T : \A y \in T : ~ (<<y, x>> \in R)
  BY <1>2
<1>5. ASSUME NEW y \in T PROVE x <= y
  <2>1. x \in Nat /\ y \in Nat
    OBVIOUS
  <2>2. ~ (y < x)
    BY <1>3, <1>4, <2>1, Zenon
  <2>3. QED  BY <2>1, <2>2
<1>6. QED  BY <1>5

-----------------------------------------------------------------------------
(* The arithmetic of the ring.                                             *)

(* How far entry e is ahead of header h, and the header n entries on.      *)
Distance(h, e) == IF e >= h THEN e - h ELSE (e - h) + N
On(h, n) == IF h + n >= N THEN (h + n) - N ELSE h + n

(* A remainder by N of a number that is less than two laps.                *)
LEMMA ModLap ==
  ASSUME NEW a \in Int, a >= -N, a < 2 * N
  PROVE  a % N = IF a < 0 THEN a + N ELSE IF a >= N THEN a - N ELSE a
<1> N \in Nat \ {0}
  BY RingAssumption
<1> DEFINE q == a \div N
           r == a % N
<1>1. q \in Int /\ r \in 0 .. N - 1 /\ a = N * q + r
  OBVIOUS
<1> HIDE DEF q, r
<1>2. q >= -1
  <2>1. SUFFICES ASSUME q <= -2 PROVE FALSE
    BY <1>1
  <2>2. N * q <= N * (-2)
    BY <1>1, <2>1
  <2>3. QED  BY <1>1, <2>2
<1>3. q <= 1
  <2>1. SUFFICES ASSUME q >= 2 PROVE FALSE
    BY <1>1
  <2>2. N * q >= N * 2
    BY <1>1, <2>1
  <2>3. QED  BY <1>1, <2>2
<1>4. q = -1 \/ q = 0 \/ q = 1
  BY <1>1, <1>2, <1>3
<1>5. r = IF a < 0 THEN a + N ELSE IF a >= N THEN a - N ELSE a
  <2>1. CASE q = -1
    BY <1>1, <2>1
  <2>2. CASE q = 0
    BY <1>1, <2>2
  <2>3. CASE q = 1
    BY <1>1, <2>3
  <2>4. QED  BY <1>4, <2>1, <2>2, <2>3
<1>6. QED  BY <1>5 DEF r

(* Distances are below N, tell entries apart, and are taken up in order    *)
(* from header.                                                            *)
LEMMA Distances ==
  ASSUME NEW h \in Entries
  PROVE  /\ \A e \in Entries : Distance(h, e) \in 0 .. N - 1
         /\ \A e, d \in Entries : Distance(h, e) = Distance(h, d) => e = d
         /\ \A i \in 1 .. N : /\ (h + i - 1) % N = On(h, i - 1)
                              /\ On(h, i - 1) \in Entries
                              /\ Distance(h, On(h, i - 1)) = i - 1
<1> N \in Nat \ {0} /\ h \in 0 .. N - 1
  BY RingAssumption DEF Entries
<1>1. \A e \in Entries : Distance(h, e) \in 0 .. N - 1
  BY DEF Entries, Distance
<1>2. \A e, d \in Entries : Distance(h, e) = Distance(h, d) => e = d
  BY DEF Entries, Distance
<1>3. ASSUME NEW i \in 1 .. N
      PROVE  /\ (h + i - 1) % N = On(h, i - 1)
             /\ On(h, i - 1) \in Entries
             /\ Distance(h, On(h, i - 1)) = i - 1
  <2>1. h + i - 1 \in Int /\ h + i - 1 >= 0 /\ h + i - 1 < 2 * N
    OBVIOUS
  <2>2. (h + i - 1) % N = IF h + i - 1 >= N THEN (h + i - 1) - N ELSE h + i - 1
    BY <2>1, ModLap
  <2>3. QED  BY <2>2 DEF On, Entries, Distance
<1>4. QED  BY <1>1, <1>2, <1>3

(* When header moves n entries on, those at least n away come n nearer,    *)
(* and those it passes are the farthest.                                   *)
LEMMA HeaderMoves ==
  ASSUME NEW h \in Entries, NEW n \in 1 .. N, NEW e \in Entries
  PROVE  /\ On(h, n) \in Entries
         /\ Distance(On(h, n), e) = IF Distance(h, e) >= n THEN Distance(h, e) - n
                                    ELSE (Distance(h, e) + N) - n
<1> N \in Nat \ {0} /\ h \in 0 .. N - 1 /\ e \in 0 .. N - 1
  BY RingAssumption DEF Entries
<1>1. QED  BY DEF On, Entries, Distance

(* post_recvs computes its tail and its next header by hand.               *)
LEMMA TailAndHeader ==
  ASSUME TypeOK, NEW q \in Qps, NEW num \in 1 .. N
  PROVE  /\ TailOf(q, num) = On(header[q], num - 1)
         /\ TailOf(q, num) \in Entries
         /\ NextHeader(TailOf(q, num)) = On(header[q], num)
<1> N \in Nat \ {0} /\ header[q] \in 0 .. N - 1
  BY RingAssumption DEF Entries, TypeOK
<1> DEFINE h == header[q]
           tail == TailOf(q, num)
<1>1. tail = On(h, num - 1) /\ tail \in 0 .. N - 1
  BY DEF TailOf, On
<1>2. (tail + 1) % N = IF tail + 1 >= N THEN (tail + 1) - N ELSE tail + 1
  <2>1. tail + 1 \in Int /\ tail + 1 >= 0 /\ tail + 1 < 2 * N
    BY <1>1
  <2> HIDE DEF tail
  <2>2. QED  BY <2>1, ModLap
<1>3. NextHeader(tail) = On(h, num)
  BY <1>1, <1>2 DEF NextHeader, On
<1>4. QED  BY <1>1, <1>3 DEF Entries

(* The requests a post walks over: those from header on, no more than are  *)
(* posted, and exactly those when nothing else is cut.                     *)
LEMMA WalkIs ==
  ASSUME TypeOK, NEW q \in Qps, NEW num \in 1 .. N, NEW cuts \in SUBSET Entries,
         TailOf(q, num) \in cuts
  PROVE  /\ Walk(q, cuts) \in Seq(Entries)
         /\ Len(Walk(q, cuts)) \in 1 .. num
         /\ \A i \in 1 .. Len(Walk(q, cuts)) :
                Walk(q, cuts)[i] = On(header[q], i - 1)
         /\ cuts = {TailOf(q, num)} => Len(Walk(q, cuts)) = num
<1> N \in Nat \ {0} /\ header[q] \in Entries
  BY RingAssumption DEF TypeOK
<1> DEFINE At(i) == (header[q] + i - 1) % N
           First(k) == At(k) \in cuts /\ \A i \in 1 .. k - 1 : At(i) \notin cuts
           T == {k \in 1 .. N : At(k) \in cuts}
<1>1. \A i \in 1 .. N : At(i) = On(header[q], i - 1) /\ At(i) \in Entries
                        /\ Distance(header[q], At(i)) = i - 1
  BY Distances
<1> HIDE DEF At
<1>2. At(num) = TailOf(q, num)
  BY <1>1, TailAndHeader
<1>3. num \in T
  BY <1>2
<1>4. \E k \in 1 .. num : First(k)
  <2>1. PICK k \in T : \A j \in T : k <= j
    <3>1. T \in SUBSET Nat /\ T # {}
      BY <1>3
    <3> HIDE DEF T
    <3>2. QED  BY <3>1, LeastNumber
  <2>2. k \in 1 .. num
    BY <1>3, <2>1
  <2>3. \A i \in 1 .. k - 1 : i \in 1 .. N /\ ~ (k <= i)
    BY <2>2
  <2>4. First(k)
    BY <2>1, <2>3
  <2>5. QED  BY <2>2, <2>4
<1>5. ASSUME NEW k \in 1 .. N, First(k) PROVE k \in 1 .. num
  <2>1. ASSUME k > num PROVE FALSE
    <3>1. num \in 1 .. k - 1
      BY <2>1
    <3>2. QED  BY <1>2, <1>5, <3>1
  <2>2. QED  BY <2>1
<1> DEFINE len == CHOOSE k \in 1 .. N : First(k)
<1>6. len \in 1 .. N /\ First(len)
  <2>1. \E k \in 1 .. N : First(k)
    BY <1>4
  <2> HIDE DEF First
  <2>2. QED  BY <2>1
<1>7. len \in 1 .. num
  BY <1>5, <1>6
<1>8. Walk(q, cuts) = [i \in 1 .. len |-> At(i)]
  BY DEF Walk, At
<1>9. cuts = {TailOf(q, num)} => len = num
  <2> SUFFICES ASSUME cuts = {TailOf(q, num)} PROVE len = num
    OBVIOUS
  <2>1. At(len) = At(num)
    BY <1>2, <1>6
  <2>2. len - 1 = num - 1
    <3> HIDE DEF len
    <3>1. Distance(header[q], At(len)) = len - 1 /\ Distance(header[q], At(num)) = num - 1
      BY <1>1, <1>6
    <3>2. QED  BY <2>1, <3>1
  <2> HIDE DEF len
  <2>3. QED  BY <1>6, <2>2
<1> HIDE DEF len
<1>10. Walk(q, cuts) \in Seq(Entries) /\ Len(Walk(q, cuts)) = len
  BY <1>1, <1>6, <1>8
<1>11. \A i \in 1 .. len : Walk(q, cuts)[i] = On(header[q], i - 1)
  BY <1>1, <1>6, <1>8
<1>12. QED  BY <1>7, <1>9, <1>10, <1>11

-----------------------------------------------------------------------------
(* The inductive invariant, in parts.                                      *)

(* The completions, oldest first, and everything that is outstanding.      *)
Held == Len(wcs) + Len(cq)
Pend(i) == IF i <= Len(wcs) THEN wcs[i] ELSE cq[i - Len(wcs)]

Total(q) == Held + Len(rq[q])
Out(q, i) == IF i <= Held THEN Pend(i).entry ELSE rq[q][i - Held]

IterOK ==
    /\ idx <= Len(wcs)
    /\ total_msgs = -1 => Len(wcs) = 0
    /\ total_msgs # -1 => total_msgs = Len(wcs) /\ total_msgs <= N

(* What is outstanding fits the receive queue, and is in the order of the  *)
(* ring, counted from header.                                              *)
Order(q) ==
    /\ Total(q) <= depth[q]
    /\ \A i, j \in 1 .. Total(q) : i <= j =>
           Distance(header[q], Out(q, i)) + (j - i) <= Distance(header[q], Out(q, j))

(* As long as no post was refused, it is the lap that ends at header.      *)
CutOK(q) ==
    /\ depth[q] >= N => cut[q] = {}
    /\ cut[q] = {} =>
           /\ Total(q) = first[q]
           /\ \A i \in 1 .. Total(q) :
                  Distance(header[q], Out(q, i)) = (N - Total(q)) + (i - 1)

(* Messages are held in the order they arrived, those that iterations have *)
(* not reached are newer than the one read last, and each is in its buffer.*)
Messages(q) ==
    /\ arrived[q] = 0 => Held = 0
    /\ read[q] <= arrived[q]
    /\ \A i \in 1 .. Held :
           /\ Pend(i).msg <= arrived[q]
           /\ i > idx => read[q] < Pend(i).msg
           /\ buf[Pend(i).qp][Pend(i).entry] = Pend(i).msg
    /\ \A i, j \in 1 .. Held : i < j => Pend(i).msg < Pend(j).msg

IndInv ==
    /\ TypeOK
    /\ IterOK
    /\ \A q \in Qps : Order(q) /\ CutOK(q) /\ Messages(q)

(* The facts the steps below start from.                                   *)
LEMMA Typed ==
  ASSUME TypeOK, NEW q \in Qps
  PROVE  /\ wcs \in Seq(Completion) /\ cq \in Seq(Completion)
         /\ Len(wcs) \in Nat /\ Len(cq) \in Nat /\ Held \in Nat
         /\ rq[q] \in Seq(Entries) /\ Len(rq[q]) \in Nat /\ Total(q) \in Nat
         /\ header[q] \in Entries /\ depth[q] \in Nat /\ cut[q] \in SUBSET Entries
         /\ arrived[q] \in Nat /\ read[q] \in Nat /\ first[q] \in 0 .. N /\ idx \in Nat
         /\ total_msgs \in Nat \cup {-1} /\ owner \in Qps
         /\ \A i \in 1 .. Held : Pend(i) \in Completion
         /\ \A i \in 1 .. Held : /\ Pend(i).qp \in Qps /\ Pend(i).entry \in Entries
                                 /\ Pend(i).msg \in Nat
         /\ \A i \in 1 .. Total(q) : Out(q, i) \in Entries
<1> N \in Nat \ {0}
  BY RingAssumption
<1>1. /\ wcs \in Seq(Completion) /\ cq \in Seq(Completion)
      /\ Len(wcs) \in Nat /\ Len(cq) \in Nat /\ Held \in Nat
  BY SMTT(30) DEF TypeOK, Held
<1>2. rq[q] \in Seq(Entries) /\ Len(rq[q]) \in Nat
  BY DEF TypeOK
<1>3. Total(q) \in Nat
  BY <1>1, <1>2 DEF Total
<1>4. ASSUME NEW i \in 1 .. Held PROVE Pend(i) \in Completion
  <2>1. CASE i <= Len(wcs)
    <3>1. i \in 1 .. Len(wcs)
      BY <1>1, <2>1
    <3>2. QED  BY <1>1, <2>1, <3>1, ElementOfSeq DEF Pend
  <2>2. CASE ~ (i <= Len(wcs))
    <3>1. i - Len(wcs) \in 1 .. Len(cq)
      BY <1>1, <2>2 DEF Held
    <3>2. QED  BY <1>1, <2>2, <3>1, ElementOfSeq DEF Pend
  <2>3. QED  BY <2>1, <2>2
<1>5. \A i \in 1 .. Held : Pend(i).qp \in Qps /\ Pend(i).entry \in Entries /\ Pend(i).msg \in Nat
  BY <1>4 DEF Completion
<1>6. ASSUME NEW i \in 1 .. Total(q) PROVE Out(q, i) \in Entries
  <2>1. CASE i <= Held
    BY <1>1, <1>5, <2>1 DEF Out
  <2>2. CASE ~ (i <= Held)
    <3>1. i - Held \in 1 .. Len(rq[q])
      BY <1>1, <1>2, <2>2 DEF Total
    <3>2. QED  BY <1>2, <2>2, <3>1, ElementOfSeq DEF Out
  <2>3. QED  BY <2>1, <2>2
<1>7. /\ header[q] \in Entries /\ depth[q] \in Nat /\ cut[q] \in SUBSET Entries
      /\ arrived[q] \in Nat /\ read[q] \in Nat /\ first[q] \in 0 .. N /\ idx \in Nat
      /\ total_msgs \in Nat \cup {-1} /\ owner \in Qps
  BY RingAssumption DEF TypeOK
<1>8. QED  BY <1>1, <1>2, <1>3, <1>4, <1>5, <1>6, <1>7

(* The oldest n that are outstanding are all that is nearer than n.        *)
LEMMA OldestAreNearest ==
  ASSUME TypeOK, NEW q \in Qps, Order(q)
  PROVE  /\ Total(q) <= N
         /\ \A i \in 1 .. Total(q) : /\ Distance(header[q], Out(q, i)) \in 0 .. N - 1
                                     /\ i - 1 <= Distance(header[q], Out(q, i))
         /\ \A i, j \in 1 .. Total(q) : Out(q, i) = Out(q, j) => i = j
<1> N \in Nat \ {0}
  BY RingAssumption
<1>1. Total(q) \in Nat /\ header[q] \in Entries /\ \A i \in 1 .. Total(q) : Out(q, i) \in Entries
  BY Typed
<1>2. \A i \in 1 .. Total(q) : Distance(header[q], Out(q, i)) \in 0 .. N - 1
  BY <1>1, Distances
<1>3. ASSUME NEW i \in 1 .. Total(q) PROVE i - 1 <= Distance(header[q], Out(q, i))
  <2>1. 1 \in 1 .. Total(q) /\ 1 <= i
    BY <1>1
  <2>2. Distance(header[q], Out(q, 1)) + (i - 1) <= Distance(header[q], Out(q, i))
    BY <2>1 DEF Order
  <2>3. Distance(header[q], Out(q, 1)) \in 0 .. N - 1 /\ Distance(header[q], Out(q, i)) \in 0 .. N - 1
    BY <1>2, <2>1
  <2>4. QED  BY <2>2, <2>3
<1>4. Total(q) <= N
  <2>1. CASE Total(q) = 0
    BY <2>1
  <2>2. CASE Total(q) # 0
    <3>1. Total(q) \in 1 .. Total(q)
      BY <1>1, <2>2
    <3>2. Total(q) - 1 <= Distance(header[q], Out(q, Total(q)))
      BY <1>3, <3>1
    <3>3. Distance(header[q], Out(q, Total(q))) \in 0 .. N - 1
      BY <1>2, <3>1
    <3>4. QED  BY <1>1, <3>2, <3>3
  <2>3. QED  BY <2>1, <2>2
<1>5. ASSUME NEW i \in 1 .. Total(q), NEW j \in 1 .. Total(q), Out(q, i) = Out(q, j), i < j
      PROVE  FALSE
  <2>1. Distance(header[q], Out(q, i)) + (j - i) <= Distance(header[q], Out(q, j))
    BY <1>5 DEF Order
  <2>2. Distance(header[q], Out(q, i)) \in 0 .. N - 1
    BY <1>2
  <2>3. QED  BY <1>5, <2>1, <2>2
<1>6. \A i, j \in 1 .. Total(q) : Out(q, i) = Out(q, j) => i = j
  BY <1>1, <1>5
<1>7. QED  BY <1>2, <1>3, <1>4, <1>6

(* A step that neither posts nor releases leaves the order alone.          *)
LEMMA SameOrder ==
  ASSUME NEW q \in Qps, Order(q), CutOK(q),
         header'[q] = header[q], depth'[q] = depth[q], cut'[q] = cut[q], first'[q] = first[q],
         Total(q)' = Total(q),
         \A i \in 1 .. Total(q) : Out(q, i)' = Out(q, i)
  PROVE  Order(q)' /\ CutOK(q)'
<1>1. Order(q)'
  BY DEF Order, Distance
<1>2. CutOK(q)'
  BY DEF CutOK, Distance
<1>3. QED  BY <1>1, <1>2

-----------------------------------------------------------------------------
(* What a post does, whether it is taken or refused half way: n requests   *)
(* go to the end of the receive queue, in the order of the ring.           *)
Posts(q, num, n) ==
    /\ rq' \in [Qps -> Seq(Entries)]
    /\ Len(rq'[q]) = Len(rq[q]) + n
    /\ \A i \in 1 .. Len(rq[q]) : rq'[q][i] = rq[q][i]
    /\ \A i \in 1 .. n : rq'[q][Len(rq[q]) + i] = On(header[q], i - 1)
    /\ Len(rq'[q]) <= depth[q]
    /\ UNCHANGED <<depth, ud>>
    /\ header' \in [Qps -> Entries] /\ cut' \in [Qps -> SUBSET Entries]

Taken(q, num, n) ==
    /\ header'[q] = On(header[q], num) /\ cut' = cut
    /\ cut[q] = {} => n = num

Refused(q, num, n) ==
    /\ header' = header /\ cut'[q] # {}
    /\ depth[q] - Len(rq[q]) < num

(* post_recvs posts a part of what it was asked for.                       *)
LEMMA PostFacts ==
  ASSUME TypeOK, NEW q \in Qps, NEW num \in 1 .. N, post_recvs(q, num), Len(rq[q]) <= depth[q]
  PROVE  \E n \in 0 .. num : Posts(q, num, n) /\ (Taken(q, num, n) \/ Refused(q, num, n))
<1> N \in Nat \ {0}
  BY RingAssumption
<1> DEFINE tail == TailOf(q, num)
           chain == Walk(q, cut[q] \cup {tail})
           room == depth[q] - Len(rq[q])
<1>1. /\ rq[q] \in Seq(Entries) /\ Len(rq[q]) \in Nat /\ depth[q] \in Nat
      /\ cut[q] \in SUBSET Entries /\ header[q] \in Entries
      /\ rq \in [Qps -> Seq(Entries)] /\ header \in [Qps -> Entries]
      /\ cut \in [Qps -> SUBSET Entries]
  BY Typed DEF TypeOK
<1>2. tail \in Entries /\ NextHeader(tail) = On(header[q], num) /\ On(header[q], num) \in Entries
  BY <1>1, TailAndHeader, HeaderMoves
<1>3. /\ chain \in Seq(Entries)
      /\ Len(chain) \in 1 .. num
      /\ \A i \in 1 .. Len(chain) : chain[i] = On(header[q], i - 1)
      /\ cut[q] = {} => Len(chain) = num
  <2>1. cut[q] \cup {tail} \in SUBSET Entries /\ tail \in cut[q] \cup {tail}
    BY <1>1, <1>2
  <2> HIDE DEF tail
  <2>2. /\ chain \in Seq(Entries)
        /\ Len(chain) \in 1 .. num
        /\ \A i \in 1 .. Len(chain) : chain[i] = On(header[q], i - 1)
        /\ cut[q] \cup {tail} = {tail} => Len(chain) = num
    BY <2>1, WalkIs DEF tail
  <2>3. QED  BY <2>2
<1>4. UNCHANGED <<depth, ud>>
  BY DEF post_recvs
<1>5. CASE /\ Len(chain) <= room
           /\ rq' = [rq EXCEPT ![q] = @ \o chain]
           /\ header' = [header EXCEPT ![q] = NextHeader(tail)]
           /\ RestoreTail(q, tail)
  <2> HIDE DEF chain, tail
  <2>1. rq'[q] = rq[q] \o chain /\ cut' = cut /\ header'[q] = On(header[q], num)
    BY <1>1, <1>2, <1>5 DEF RestoreTail
  <2>2. /\ rq'[q] \in Seq(Entries)
        /\ Len(rq'[q]) = Len(rq[q]) + Len(chain)
        /\ \A i \in 1 .. Len(rq[q]) : rq'[q][i] = rq[q][i]
        /\ \A i \in 1 .. Len(chain) : rq'[q][Len(rq[q]) + i] = chain[i]
    BY <1>1, <1>3, <2>1
  <2>3. rq' \in [Qps -> Seq(Entries)] /\ header' \in [Qps -> Entries]
    BY <1>1, <1>2, <1>5, <2>1, <2>2
  <2>4. Len(rq'[q]) <= depth[q]
    BY <1>1, <1>3, <1>5, <2>2
  <2>5. Posts(q, num, Len(chain))
    BY <1>1, <1>3, <1>4, <2>1, <2>2, <2>3, <2>4 DEF Posts
  <2>6. Taken(q, num, Len(chain))
    BY <1>3, <2>1 DEF Taken
  <2>7. QED  BY <1>3, <2>5, <2>6
<1>6. CASE /\ Len(chain) > room
           /\ rq' = [rq EXCEPT ![q] = @ \o SubSeq(chain, 1, room)]
           /\ cut' = [cut EXCEPT ![q] = @ \cup {tail}]
           /\ UNCHANGED header
  <2> HIDE DEF chain, tail
  <2>1. room \in 0 .. num /\ room < num
    BY <1>1, <1>3, <1>6
  <2> DEFINE part == SubSeq(chain, 1, room)
  <2>2. /\ part \in Seq(Entries) /\ Len(part) = room
        /\ \A i \in 1 .. room : part[i] = chain[i]
    <3>1. room <= Len(chain)
      BY <1>3, <1>6, <2>1
    <3>2. \A i \in 1 .. room : i \in 1 .. Len(chain) /\ chain[i] \in Entries
      BY <1>3, <2>1, <3>1, ElementOfSeq
    <3>3. QED  BY <1>3, <2>1, <3>1, <3>2
  <2> HIDE DEF part
  <2>3. rq'[q] = rq[q] \o part /\ cut'[q] = cut[q] \cup {tail}
    BY <1>1, <1>6 DEF part
  <2>4. /\ rq'[q] \in Seq(Entries)
        /\ Len(rq'[q]) = Len(rq[q]) + room
        /\ \A i \in 1 .. Len(rq[q]) : rq'[q][i] = rq[q][i]
        /\ \A i \in 1 .. room : rq'[q][Len(rq[q]) + i] = part[i]
    BY <1>1, <2>1, <2>2, <2>3
  <2>5. rq' \in [Qps -> Seq(Entries)] /\ cut' \in [Qps -> SUBSET Entries]
    BY <1>1, <1>2, <1>6, <2>3, <2>4
  <2>6. \A i \in 1 .. room : rq'[q][Len(rq[q]) + i] = On(header[q], i - 1)
    <3>1. \A i \in 1 .. room : i \in 1 .. Len(chain)
      BY <1>3, <1>6, <2>1
    <3>2. QED  BY <1>3, <2>2, <2>4, <3>1
  <2>7. Len(rq'[q]) <= depth[q]
    BY <1>1, <2>4
  <2>8. Posts(q, num, room)
    BY <1>1, <1>4, <1>6, <2>4, <2>5, <2>6, <2>7 DEF Posts
  <2>9. Refused(q, num, room)
    BY <1>6, <2>1, <2>3 DEF Refused
  <2> HIDE DEF room
  <2>10. QED  BY <2>1, <2>8, <2>9
<1>7. QED  BY <1>5, <1>6 DEF post_recvs

-----------------------------------------------------------------------------
(* Init and the steps that do not post.                                    *)

(* Init establishes the invariant.                                         *)
LEMMA InitInd ==
  ASSUME Init
  PROVE  IndInv
<1> N \in Nat \ {0}
  BY RingAssumption
<1>1. TypeOK
  <2>1. wcs \in Seq(Completion) /\ cq \in Seq(Completion)
    BY EmptySeq DEF Init
  <2>2. rq \in [Qps -> Seq(Entries)]
    BY EmptySeq DEF Init
  <2>3. 0 \in Entries
    BY DEF Entries
  <2>4. QED  BY <2>1, <2>2, <2>3 DEF Init, TypeOK
<1>2. Len(wcs) = 0 /\ Len(cq) = 0 /\ Held = 0
  BY DEF Init, Held
<1>3. IterOK
  BY <1>2 DEF Init, IterOK
<1>4. ASSUME NEW q \in Qps PROVE Order(q) /\ CutOK(q) /\ Messages(q)
  <2>1. Total(q) = 0
    BY <1>2 DEF Init, Total
  <2>2. depth[q] \in Nat
    BY <1>1, Typed
  <2>3. QED  BY <1>2, <2>1, <2>2 DEF Init, Order, CutOK, Messages
<1>5. QED  BY <1>1, <1>3, <1>4 DEF IndInv

(* A message lands in the oldest buffer of the receive queue: the same is  *)
(* outstanding, and no completion is about that buffer.                    *)
LEMMA ReceiveInd ==
  ASSUME OneQP, IndInv, NEW q \in Qps, NicReceive(q)
  PROVE  IndInv'
<1> N \in Nat \ {0}
  BY RingAssumption
<1> TypeOK /\ IterOK /\ Order(q) /\ CutOK(q) /\ Messages(q)
  BY DEF IndInv
<1> /\ wcs \in Seq(Completion) /\ cq \in Seq(Completion)
    /\ Len(wcs) \in Nat /\ Len(cq) \in Nat /\ Held \in Nat
    /\ rq[q] \in Seq(Entries) /\ Len(rq[q]) \in Nat /\ Total(q) \in Nat
    /\ arrived[q] \in Nat /\ read[q] \in Nat /\ idx \in Nat
  BY Typed
<1> DEFINE e == rq[q][1]
           wc == [qp |-> q, entry |-> e, msg |-> arrived[q] + 1]
<1>1. /\ rq[q] # <<>>
      /\ arrived' = [arrived EXCEPT ![q] = @ + 1]
      /\ rq' = [rq EXCEPT ![q] = SubSeq(@, 2, Len(@))]
      /\ buf' = [buf EXCEPT ![q][e] = arrived[q] + 1]
      /\ cq' = Append(cq, wc)
      /\ UNCHANGED <<depth, ud, header, cut, wcs, idx, total_msgs, owner, first, dropped, read>>
  BY DEF NicReceive, iterVars
<1>2. Len(rq[q]) >= 1 /\ e \in Entries
  BY <1>1, ElementOfSeq
<1>3. wc \in Completion
  BY <1>2 DEF Completion
<1>4. wc.qp = q /\ wc.entry = e /\ wc.msg = arrived[q] + 1
  OBVIOUS
<1> HIDE DEF wc, e
<1>5. /\ cq' \in Seq(Completion) /\ Len(cq') = Len(cq) + 1
      /\ \A i \in 1 .. Len(cq) : cq'[i] = cq[i]
      /\ cq'[Len(cq) + 1] = wc
  BY <1>1, <1>3, AppendProperties
<1>6. /\ rq'[q] \in Seq(Entries) /\ Len(rq'[q]) = Len(rq[q]) - 1
      /\ \A i \in 1 .. Len(rq[q]) - 1 : rq'[q][i] = rq[q][i + 1]
  <2>1. rq'[q] = SubSeq(rq[q], 2, Len(rq[q]))
    BY <1>1 DEF TypeOK
  <2>2. \A i \in 2 .. Len(rq[q]) : rq[q][i] \in Entries
    BY ElementOfSeq
  <2>3. QED  BY <1>2, <2>1, <2>2, SubSeqProperties
<1> PICK k \in Nat : k = Held + 1
  OBVIOUS
<1>7. /\ Held' = k
      /\ \A i \in 1 .. Held : Pend(i)' = Pend(i)
      /\ Pend(k)' = wc
  <2>1. Held' = k
    BY <1>1, <1>5 DEF Held
  <2>2. ASSUME NEW i \in 1 .. Held PROVE Pend(i)' = Pend(i)
    BY <1>1, <1>5, <2>2 DEF Pend, Held
  <2>3. Pend(k)' = wc
    <3>1. ~ (k <= Len(wcs)) /\ k - Len(wcs) = Len(cq) + 1
      BY DEF Held
    <3>2. Pend(k)' = cq'[k - Len(wcs)]
      BY <1>1, <3>1 DEF Pend
    <3>3. QED  BY <1>5, <3>1, <3>2
  <2>4. QED  BY <2>1, <2>2, <2>3
<1>8. e = Out(q, k) /\ k \in 1 .. Total(q)
  BY <1>2 DEF Out, Total, e
<1>9. Order(q)' /\ CutOK(q)'
  <2>1. Total(q)' = Total(q)
    <3> DEFINE a == Len(rq[q])
               b == Len(rq'[q])
               h == Held'
    <3>1. Total(q)' = h + b /\ Total(q) = Held + a
      BY DEF Total
    <3>2. h = Held + 1 /\ b = a - 1 /\ a \in Nat
      BY <1>6, <1>7
    <3> HIDE DEF a, b, h
    <3>3. h + b = Held + a
      BY <3>2
    <3>4. QED  BY <3>1, <3>3
  <2>2. ASSUME NEW i \in 1 .. Total(q) PROVE Out(q, i)' = Out(q, i)
    <3>0. Out(q, i)' = IF i <= k THEN Pend(i)'.entry ELSE rq'[q][i - k]
      BY <1>7 DEF Out
    <3>1. CASE i <= Held
      BY <1>7, <3>0, <3>1 DEF Out
    <3>2. CASE i = k
      <4>1. Out(q, i)' = wc.entry
        BY <1>7, <3>0, <3>2
      <4>2. QED  BY <1>4, <1>8, <3>2, <4>1
    <3>3. CASE i > k
      <4>1. i - k \in 1 .. Len(rq[q]) - 1 /\ (i - k) + 1 = i - Held
        BY <3>3 DEF Total
      <4>2. Out(q, i)' = rq'[q][i - k]
        BY <3>0, <3>3
      <4>3. Out(q, i) = rq[q][i - Held]
        BY <3>3 DEF Out
      <4>4. QED  BY <1>6, <4>1, <4>2, <4>3
    <3>4. QED  BY <3>1, <3>2, <3>3
  <2>3. QED  BY <1>1, <2>1, <2>2, SameOrder
<1>10. \A i \in 1 .. Held : Pend(i).qp = q /\ Pend(i).entry \in Entries /\ Pend(i).entry # e
  <2> SUFFICES ASSUME NEW i \in 1 .. Held
               PROVE  Pend(i).qp = q /\ Pend(i).entry \in Entries /\ Pend(i).entry # e
    OBVIOUS
  <2>1. Pend(i).qp = q /\ Pend(i).entry \in Entries
    BY Typed DEF OneQP
  <2>2. i \in 1 .. Total(q) /\ Out(q, i) = Pend(i).entry /\ i # k
    BY DEF Total, Out
  <2>3. Out(q, i) # Out(q, k)
    BY <1>8, <2>2, OldestAreNearest
  <2>4. QED  BY <1>8, <2>1, <2>2, <2>3
<1>11. /\ arrived'[q] = arrived[q] + 1
       /\ buf'[q][e] = arrived[q] + 1
       /\ \A d \in Entries : d # e => buf'[q][d] = buf[q][d]
       /\ buf' \in [Qps -> [Entries -> Nat]] /\ arrived' \in [Qps -> Nat]
  <2>1. arrived \in [Qps -> Nat] /\ buf \in [Qps -> [Entries -> Nat]] /\ e \in Entries
    BY <1>2 DEF TypeOK
  <2>2. /\ arrived' = [arrived EXCEPT ![q] = @ + 1]
        /\ buf' = [buf EXCEPT ![q][e] = arrived[q] + 1]
    BY <1>1
  <2>3. arrived'[q] = arrived[q] + 1 /\ arrived' \in [Qps -> Nat]
    BY <2>1, <2>2
  <2>4. /\ buf'[q][e] = arrived[q] + 1
        /\ \A d \in Entries : d # e => buf'[q][d] = buf[q][d]
        /\ buf' \in [Qps -> [Entries -> Nat]]
    BY <2>1, <2>2
  <2>5. QED  BY <2>3, <2>4
<1>12. Messages(q)'
  <2>1. \A i \in 1 .. k : i \in 1 .. Held \/ i = k
    OBVIOUS
  <2>2. ASSUME NEW i \in 1 .. Held
        PROVE  /\ Pend(i)'.msg <= arrived'[q]
               /\ i > idx' => read'[q] < Pend(i)'.msg
               /\ buf'[Pend(i)'.qp][Pend(i)'.entry] = Pend(i)'.msg
    <3>1. Pend(i).msg \in Nat
      BY Typed
    <3>2. /\ Pend(i).msg <= arrived[q] /\ (i > idx => read[q] < Pend(i).msg)
          /\ buf[Pend(i).qp][Pend(i).entry] = Pend(i).msg
      BY <1>1 DEF Messages
    <3>3. Pend(i)' = Pend(i) /\ idx' = idx /\ read' = read
      BY <1>1, <1>7
    <3>4. buf'[Pend(i).qp][Pend(i).entry] = buf[Pend(i).qp][Pend(i).entry]
      BY <1>10, <1>11
    <3>5. Pend(i).msg <= arrived'[q]
      <4>1. arrived[q] \in Nat
        BY <1>2 DEF TypeOK
      <4>2. QED  BY <1>11, <3>1, <3>2, <4>1
    <3>6. QED  BY <3>2, <3>3, <3>4, <3>5
  <2>3. /\ wc.msg <= arrived'[q]
        /\ read'[q] < wc.msg
        /\ buf'[wc.qp][wc.entry] = wc.msg
    BY <1>1, <1>4, <1>11 DEF Messages
  <2>4. ASSUME NEW i \in 1 .. k, NEW j \in 1 .. k, i < j
        PROVE  Pend(i)'.msg < Pend(j)'.msg
    <3>1. i \in 1 .. Held
      BY <2>4
    <3>2. Pend(i).msg \in Nat /\ Pend(i).msg <= arrived[q]
      BY <3>1, Typed DEF Messages
    <3>3. CASE j = k
      <4>1. Pend(i)' = Pend(i) /\ Pend(j)' = wc
        BY <1>7, <3>1, <3>3
      <4>2. QED  BY <1>4, <3>2, <4>1
    <3>4. CASE j \in 1 .. Held
      BY <1>7, <2>4, <3>1, <3>4 DEF Messages
    <3>5. QED  BY <2>1, <3>3, <3>4
  <2>5. ASSUME NEW i \in 1 .. k
        PROVE  /\ Pend(i)'.msg <= arrived'[q]
               /\ i > idx' => read'[q] < Pend(i)'.msg
               /\ buf'[Pend(i)'.qp][Pend(i)'.entry] = Pend(i)'.msg
    <3>1. CASE i = k
      <4>1. Pend(i)' = wc
        BY <1>7, <3>1
      <4>2. QED  BY <2>3, <4>1
    <3>2. CASE i \in 1 .. Held
      BY <2>2, <3>2
    <3>3. QED  BY <2>1, <3>1, <3>2
  <2>6. arrived'[q] # 0 /\ read'[q] <= arrived'[q]
    BY <1>1, <1>11 DEF Messages
  <2>7. QED  BY <1>7, <2>4, <2>5, <2>6 DEF Messages
<1>13. TypeOK'
  <2>1. rq' \in [Qps -> Seq(Entries)]
    BY <1>1, <1>6 DEF TypeOK
  <2>2. QED  BY <1>1, <1>5, <1>11, <2>1 DEF TypeOK
<1>14. IterOK'
  BY <1>1 DEF IterOK
<1>15. QED  BY <1>9, <1>12, <1>13, <1>14 DEF IndInv, OneQP

(* A message without a buffer is dropped.                                  *)
LEMMA DropInd ==
  ASSUME OneQP, IndInv, NEW q \in Qps, NicDrop(q)
  PROVE  IndInv'
<1> TypeOK /\ IterOK /\ Order(q) /\ CutOK(q) /\ Messages(q)
  BY DEF IndInv
<1> arrived[q] \in Nat /\ read[q] \in Nat /\ Held \in Nat
  BY Typed
<1>1. /\ arrived[q] # 0
      /\ arrived' = [arrived EXCEPT ![q] = @ + 1]
      /\ dropped' = [dropped EXCEPT ![q] = @ + 1]
      /\ UNCHANGED <<depth, ud, header, cut, rq, buf, cq, wcs, idx, total_msgs, owner, first, read>>
  BY DEF NicDrop, ringVars, iterVars
<1>2. arrived'[q] = arrived[q] + 1 /\ arrived' \in [Qps -> Nat] /\ dropped' \in [Qps -> Nat]
  <2>1. arrived \in [Qps -> Nat] /\ dropped \in [Qps -> Nat]
    BY DEF TypeOK
  <2>2. QED  BY <1>1, <2>1
<1>3. Held' = Held /\ (\A i \in 1 .. Held : Pend(i)' = Pend(i)) /\ Total(q)' = Total(q)
      /\ \A i \in 1 .. Total(q) : Out(q, i)' = Out(q, i)
  BY <1>1 DEF Held, Pend, Total, Out
<1>4. Order(q)' /\ CutOK(q)'
  BY <1>1, <1>3, SameOrder
<1>5. Messages(q)'
  <2>1. \A i \in 1 .. Held : Pend(i).msg \in Nat /\ Pend(i).msg <= arrived'[q]
    BY <1>2, Typed, SMTT(30) DEF Messages
  <2>2. QED  BY <1>1, <1>2, <1>3, <2>1 DEF Messages
<1>6. TypeOK'
  BY <1>1, <1>2 DEF TypeOK
<1>7. IterOK'
  BY <1>1 DEF IterOK
<1>8. QED  BY <1>4, <1>5, <1>6, <1>7 DEF IndInv, OneQP

(* An iteration begins: the oldest completions move from recv_cq to wcs.   *)
LEMMA BeginInd ==
  ASSUME OneQP, IndInv, NEW q \in Qps, IterBegin(q)
  PROVE  IndInv'
<1> N \in Nat \ {0}
  BY RingAssumption
<1> TypeOK /\ IterOK /\ Order(q) /\ CutOK(q) /\ Messages(q)
  BY DEF IndInv
<1> /\ wcs \in Seq(Completion) /\ cq \in Seq(Completion)
    /\ Len(wcs) \in Nat /\ Len(cq) \in Nat /\ Held \in Nat /\ Total(q) \in Nat /\ idx \in Nat
  BY Typed
<1> DEFINE num == IF Len(cq) < N THEN Len(cq) ELSE N
<1>1. /\ total_msgs = -1 /\ total_msgs' = num /\ idx' = 0
      /\ wcs' = SubSeq(cq, 1, num) /\ cq' = SubSeq(cq, num + 1, Len(cq)) /\ owner' = q
      /\ UNCHANGED <<depth, ud, header, cut, rq, buf, arrived, first, dropped, read>>
  BY DEF IterBegin, ringVars, peerVars
<1>2. Len(wcs) = 0 /\ idx = 0
  BY <1>1 DEF IterOK
<1>3. num \in 0 .. N /\ num <= Len(cq)
  OBVIOUS
<1> HIDE DEF num
<1>4. /\ wcs' \in Seq(Completion) /\ Len(wcs') = num
      /\ \A i \in 1 .. num : wcs'[i] = cq[i]
  <2>1. \A i \in 1 .. num : cq[i] \in Completion
    BY <1>3, ElementOfSeq
  <2>2. QED  BY <1>1, <1>3, <2>1, SubSeqProperties
<1>5. /\ cq' \in Seq(Completion) /\ Len(cq') = Len(cq) - num
      /\ \A i \in 1 .. Len(cq) - num : cq'[i] = cq[num + i]
  <2>1. \A i \in num + 1 .. Len(cq) : cq[i] \in Completion
    BY <1>3, ElementOfSeq
  <2>2. /\ SubSeq(cq, num + 1, Len(cq)) \in Seq(Completion)
        /\ Len(SubSeq(cq, num + 1, Len(cq))) = Len(cq) - num
        /\ \A i \in 1 .. Len(cq) - num : SubSeq(cq, num + 1, Len(cq))[i] = cq[num + i]
    BY <1>3, <2>1
  <2>3. QED  BY <1>1, <2>2
<1>6. Held' = Held
  BY <1>2, <1>3, <1>4, <1>5 DEF Held
<1>7. ASSUME NEW i \in 1 .. Held PROVE Pend(i)' = Pend(i)
  <2>1. Pend(i) = cq[i] /\ i \in 1 .. Len(cq)
    BY <1>2 DEF Pend, Held
  <2>2. CASE i <= num
    BY <1>4, <2>1, <2>2 DEF Pend
  <2>3. CASE ~ (i <= num)
    <3>1. i - num \in 1 .. Len(cq) - num /\ num + (i - num) = i
      BY <1>3, <2>1, <2>3
    <3>2. QED  BY <1>3, <1>4, <1>5, <2>1, <2>3, <3>1 DEF Pend
  <2>4. QED  BY <2>2, <2>3
<1>8. Total(q)' = Total(q) /\ \A i \in 1 .. Total(q) : Out(q, i)' = Out(q, i)
  BY <1>1, <1>6, <1>7 DEF Total, Out
<1>9. Order(q)' /\ CutOK(q)'
  BY <1>1, <1>8, SameOrder
<1>10. Messages(q)'
  BY <1>1, <1>2, <1>6, <1>7 DEF Messages
<1>11. TypeOK'
  <2>1. total_msgs' \in Nat \cup {-1} /\ idx' \in Nat /\ owner' \in Qps
    BY <1>1, <1>3
  <2>2. wcs' \in Seq(Completion) /\ cq' \in Seq(Completion)
    BY <1>4, <1>5
  <2>3. UNCHANGED <<depth, ud, header, cut, rq, buf, arrived, first, dropped, read>>
    BY <1>1
  <2>4. QED  BY <2>1, <2>2, <2>3 DEF TypeOK, Completion, Entries
<1>12. IterOK'
  BY <1>1, <1>3, <1>4 DEF IterOK
<1>13. QED  BY <1>9, <1>10, <1>11, <1>12 DEF IndInv, OneQP

(* The message the iterator is at has its own content in its buffer, and   *)
(* is newer than the one read before it.                                   *)
LEMMA NextReads ==
  ASSUME OneQP, IndInv, NEW q \in Qps, IterNext
  PROVE  /\ idx + 1 \in 1 .. Held
         /\ read'[q] = Pend(idx + 1).msg
         /\ read[q] < read'[q]
         /\ read' \in [Qps -> Nat]
<1> TypeOK /\ IterOK /\ Messages(q)
  BY DEF IndInv
<1> Len(wcs) \in Nat /\ Len(cq) \in Nat /\ Held \in Nat /\ idx \in Nat
    /\ total_msgs \in Nat \cup {-1}
  BY Typed
<1>1. idx < total_msgs
      /\ read' = [read EXCEPT ![wcs[idx + 1].qp] = buf[wcs[idx + 1].qp][wcs[idx + 1].entry]]
  BY DEF IterNext, has_msgs
<1>2. idx + 1 \in 1 .. Held /\ idx + 1 <= Len(wcs)
  BY <1>1 DEF IterOK, Held
<1>3. Pend(idx + 1) = wcs[idx + 1]
  BY <1>2 DEF Pend
<1>4. Pend(idx + 1).qp = q /\ Pend(idx + 1).msg \in Nat
  BY <1>2, Typed DEF OneQP
<1>5. buf[Pend(idx + 1).qp][Pend(idx + 1).entry] = Pend(idx + 1).msg
      /\ read[q] < Pend(idx + 1).msg
  BY <1>2 DEF Messages
<1>6. read' = [read EXCEPT ![q] = Pend(idx + 1).msg]
  BY <1>1, <1>3, <1>4, <1>5
<1>7. read'[q] = Pend(idx + 1).msg /\ read' \in [Qps -> Nat]
  BY <1>4, <1>6 DEF TypeOK
<1>8. QED  BY <1>2, <1>5, <1>7

(* The iterator goes on to the next message.                               *)
LEMMA IterNextInd ==
  ASSUME OneQP, IndInv, NEW q \in Qps, IterNext
  PROVE  IndInv'
<1> TypeOK /\ IterOK /\ Order(q) /\ CutOK(q) /\ Messages(q)
  BY DEF IndInv
<1> Len(wcs) \in Nat /\ Held \in Nat /\ idx \in Nat /\ total_msgs \in Nat \cup {-1}
  BY Typed
<1>1. /\ idx < total_msgs /\ idx' = idx + 1
      /\ UNCHANGED <<depth, ud, header, cut, rq, buf, cq, wcs, total_msgs, owner,
                     arrived, first, dropped>>
  BY DEF IterNext, has_msgs, ringVars, peerVars
<1>2. /\ idx + 1 \in 1 .. Held
      /\ read'[q] = Pend(idx + 1).msg
      /\ read' \in [Qps -> Nat]
  BY NextReads
<1>3. Held' = Held /\ (\A i \in 1 .. Held : Pend(i)' = Pend(i)) /\ Total(q)' = Total(q)
      /\ \A i \in 1 .. Total(q) : Out(q, i)' = Out(q, i)
  BY <1>1 DEF Held, Pend, Total, Out
<1>4. Order(q)' /\ CutOK(q)'
  BY <1>1, <1>3, SameOrder
<1>5. Messages(q)'
  <2>1. \A i \in 1 .. Held : i > idx + 1 => read'[q] < Pend(i).msg
    BY <1>2 DEF Messages
  <2>2. read'[q] <= arrived[q]
    BY <1>2 DEF Messages
  <2>3. QED  BY <1>1, <1>3, <2>1, <2>2 DEF Messages
<1>6. TypeOK'
  <2>1. idx' \in Nat
    BY <1>1
  <2>2. UNCHANGED <<depth, ud, header, cut, rq, buf, cq, wcs, total_msgs, owner,
                    arrived, first, dropped>>
    BY <1>1
  <2>3. read' \in [Qps -> Nat]
    BY <1>2
  <2>4. QED  BY <2>1, <2>2, <2>3 DEF TypeOK, Completion, Entries
<1>7. IterOK'
  BY <1>1 DEF IterOK
<1>8. QED  BY <1>4, <1>5, <1>6, <1>7 DEF IndInv, OneQP

-----------------------------------------------------------------------------
(* The steps that post.                                                    *)

(* The distances of the entries a post takes, seen from the new header.    *)
LEMMA TakenDistance ==
  ASSUME NEW h \in Entries, NEW num \in 1 .. N, NEW i \in 1 .. num
  PROVE  /\ On(h, i - 1) \in Entries
         /\ Distance(On(h, num), On(h, i - 1)) = (N - num) + (i - 1)
         /\ Distance(h, On(h, i - 1)) = i - 1
<1> N \in Nat \ {0}
  BY RingAssumption
<1> i \in 1 .. N
  OBVIOUS
<1>1. On(h, i - 1) \in Entries /\ Distance(h, On(h, i - 1)) = i - 1
  BY Distances
<1>2. Distance(On(h, num), On(h, i - 1)) =
          IF Distance(h, On(h, i - 1)) >= num THEN Distance(h, On(h, i - 1)) - num
          ELSE (Distance(h, On(h, i - 1)) + N) - num
  BY <1>1, HeaderMoves
<1>3. QED  BY <1>1, <1>2

(* The first post, taken or refused, finds nothing outstanding.            *)
LEMMA PostFirstInd ==
  ASSUME OneQP, IndInv, NEW q \in Qps, NEW num \in 1 .. N, PostFirst(q, num)
  PROVE  IndInv'
<1> N \in Nat \ {0}
  BY RingAssumption
<1>1. TypeOK /\ IterOK /\ Order(q) /\ CutOK(q) /\ Messages(q)
  BY DEF IndInv
<1>2. /\ arrived[q] = 0 /\ rq[q] = <<>> /\ post_recvs(q, num)
      /\ first' = [first EXCEPT ![q] = num]
      /\ UNCHANGED <<buf, cq, wcs, idx, total_msgs, owner, arrived, dropped, read>>
  BY DEF PostFirst, iterVars
<1>3. /\ header[q] \in Entries /\ depth[q] \in Nat /\ Len(rq[q]) = 0 /\ Held = 0
      /\ cut[q] \in SUBSET Entries
  BY <1>1, <1>2, Typed DEF Messages
<1>4. PICK n \in 0 .. num : Posts(q, num, n) /\ (Taken(q, num, n) \/ Refused(q, num, n))
  BY <1>1, <1>2, <1>3, PostFacts
<1>5. /\ Len(rq'[q]) = n
      /\ \A i \in 1 .. n : rq'[q][i] = On(header[q], i - 1)
      /\ n <= depth[q]
      /\ depth'[q] = depth[q] /\ first'[q] = num
      /\ first' \in [Qps -> 0 .. N]
  <2>1. Len(rq'[q]) = Len(rq[q]) + n /\ Len(rq'[q]) <= depth[q] /\ depth' = depth
        /\ \A i \in 1 .. n : rq'[q][Len(rq[q]) + i] = On(header[q], i - 1)
    BY <1>4 DEF Posts
  <2>2. Len(rq[q]) + n = n /\ \A i \in 1 .. n : Len(rq[q]) + i = i
    BY <1>3
  <2>3. first \in [Qps -> 0 .. N]
    BY <1>1 DEF TypeOK
  <2>4. first'[q] = num /\ first' \in [Qps -> 0 .. N]
    BY <1>2, <2>3
  <2>5. QED  BY <2>1, <2>2, <2>4
<1>6. Held' = 0
  BY <1>2, <1>3 DEF Held
<1>7. Total(q)' = n
  BY <1>5, <1>6 DEF Total
<1>8. \A i \in 1 .. n : Out(q, i)' = On(header[q], i - 1)
  <2> SUFFICES ASSUME NEW i \in 1 .. n PROVE Out(q, i)' = On(header[q], i - 1)
    OBVIOUS
  <2>1. Out(q, i)' = rq'[q][i]
    BY <1>6 DEF Out
  <2>2. QED  BY <1>5, <2>1
<1>9. Order(q)' /\ CutOK(q)'
  <2>1. CASE Taken(q, num, n)
    <3>1. header'[q] = On(header[q], num) /\ cut'[q] = cut[q] /\ (cut[q] = {} => n = num)
      BY <2>1 DEF Taken
    <3>2. \A i \in 1 .. n : Distance(header[q], Out(q, i))' = (N - num) + (i - 1)
      <4>1. ASSUME NEW i \in 1 .. n
            PROVE  Distance(On(header[q], num), On(header[q], i - 1)) = (N - num) + (i - 1)
        <5>1. i \in 1 .. num
          OBVIOUS
        <5>2. header[q] \in Entries
          BY <1>3
        <5>3. QED  BY <5>1, <5>2, TakenDistance, Zenon
      <4>2. \A i \in 1 .. n :
               Distance(header[q], Out(q, i))' = Distance(On(header[q], num), On(header[q], i - 1))
        BY <1>8, <3>1 DEF Distance
      <4>3. QED  BY <4>1, <4>2
    <3>3. Order(q)'
      <4>1. \A i, j \in 1 .. n : i <= j =>
               ((N - num) + (i - 1)) + (j - i) <= (N - num) + (j - 1)
        OBVIOUS
      <4>2. \A i, j \in 1 .. n : i <= j =>
               Distance(header[q], Out(q, i))' + (j - i) <= Distance(header[q], Out(q, j))'
        BY <3>2, <4>1
      <4>3. QED  BY <1>5, <1>7, <4>2 DEF Order
    <3>4. CutOK(q)'
      BY <1>1, <1>5, <1>7, <3>1, <3>2 DEF CutOK
    <3>5. QED  BY <3>3, <3>4
  <2>2. CASE Refused(q, num, n)
    <3>1. header' = header /\ cut'[q] # {} /\ depth[q] - Len(rq[q]) < num
      BY <2>2 DEF Refused
    <3>2. \A i \in 1 .. n : Distance(header[q], Out(q, i))' = i - 1
      <4>1. ASSUME NEW i \in 1 .. n
            PROVE  Distance(header[q], On(header[q], i - 1)) = i - 1
        <5>1. i \in 1 .. num
          OBVIOUS
        <5>2. header[q] \in Entries
          BY <1>3
        <5>3. QED  BY <5>1, <5>2, TakenDistance, Zenon
      <4>2. \A i \in 1 .. n :
               Distance(header[q], Out(q, i))' = Distance(header[q], On(header[q], i - 1))
        BY <1>8, <3>1 DEF Distance
      <4>3. QED  BY <4>1, <4>2
    <3>3. Order(q)'
      BY <1>5, <1>7, <3>2 DEF Order
    <3>4. ~ (depth[q] >= N)
      BY <1>3, <3>1
    <3>5. CutOK(q)'
      BY <1>5, <3>1, <3>4 DEF CutOK
    <3>6. QED  BY <3>3, <3>5
  <2>3. QED  BY <1>4, <2>1, <2>2
<1>10. Messages(q)'
  <2>1. read'[q] <= arrived'[q] /\ ~ (\E i \in 1 .. Held' : TRUE)
    BY <1>1, <1>2, <1>6 DEF Messages
  <2>2. QED  BY <1>6, <2>1 DEF Messages
<1>11. TypeOK'
  <2>1. /\ rq' \in [Qps -> Seq(Entries)] /\ header' \in [Qps -> Entries]
        /\ cut' \in [Qps -> SUBSET Entries] /\ UNCHANGED <<depth, ud>>
    BY <1>4 DEF Posts
  <2>2. QED  BY <1>1, <1>2, <1>5, <2>1 DEF TypeOK, Completion, Entries
<1>12. IterOK'
  BY <1>1, <1>2 DEF IterOK
<1>13. QED  BY <1>9, <1>10, <1>11, <1>12 DEF IndInv, OneQP

(* s is, for its first u places, in the order of the ring, or the lap that *)
(* ends at header h.                                                       *)
InOrder(h, s, u) ==
    \A i, j \in 1 .. u : i <= j => Distance(h, s[i]) + (j - i) <= Distance(h, s[j])
IsLap(h, s, u) == \A i \in 1 .. u : Distance(h, s[i]) = (N - u) + (i - 1)

(* Of the u entries of f the t oldest go, and n from h on come at the end. *)
Shifted(h, t, n, u, f, g) ==
    /\ \A i \in 1 .. u - t : g[i] = f[i + t]
    /\ \A i \in (u - t) + 1 .. (u - t) + n : g[i] = On(h, (i - (u - t)) - 1)

(* Entries released and posted, while header moves t on, leave the order.  *)
LEMMA ShiftOrder ==
  ASSUME NEW h \in Entries, NEW t \in 1 .. N, NEW n \in 0 .. t, NEW u \in t .. N,
         NEW f \in [1 .. u -> Entries], NEW g, InOrder(h, f, u), Shifted(h, t, n, u, f, g)
  PROVE  /\ InOrder(On(h, t), g, (u - t) + n)
         /\ n = t /\ IsLap(h, f, u) => IsLap(On(h, t), g, u)
<1> N \in Nat \ {0}
  BY RingAssumption
<1>0. /\ \A i \in 1 .. u - t : g[i] = f[i + t]
      /\ \A i \in (u - t) + 1 .. (u - t) + n : g[i] = On(h, (i - (u - t)) - 1)
  BY DEF Shifted
<1> DEFINE D(i) == Distance(h, f[i])
           E(i) == Distance(On(h, t), g[i])
<1>1. \A i \in 1 .. u : D(i) \in 0 .. N - 1
  BY Distances
<1>2. \A i, j \in 1 .. u : i <= j => D(i) + (j - i) <= D(j)
  BY DEF InOrder
<1>3. \A i \in 1 .. u - t : i + t \in 1 .. u
  OBVIOUS
<1>4. ASSUME NEW i \in 1 .. u - t
      PROVE  E(i) = D(i + t) - t /\ D(i + t) <= (N - 1) - (u - (i + t))
  <2>1. 1 \in 1 .. u /\ i + t \in 1 .. u /\ u \in 1 .. u /\ 1 <= i + t /\ i + t <= u
    OBVIOUS
  <2>2. D(1) + ((i + t) - 1) <= D(i + t) /\ D(i + t) + (u - (i + t)) <= D(u)
    <3> HIDE DEF D
    <3>1. QED  BY <1>2, <2>1
  <2>3. D(1) \in 0 .. N - 1 /\ D(u) \in 0 .. N - 1 /\ D(i + t) \in 0 .. N - 1
    <3> HIDE DEF D
    <3>1. QED  BY <1>1, <2>1
  <2>4. D(i + t) >= t
    <3> HIDE DEF D
    <3>1. QED  BY <2>2, <2>3
  <2>5. g[i] = f[i + t] /\ f[i + t] \in Entries
    BY <1>0, <2>1
  <2>6. E(i) = D(i + t) - t
    BY <2>4, <2>5, HeaderMoves
  <2> HIDE DEF D, E
  <2>7. QED  BY <2>2, <2>3, <2>6
<1>5. ASSUME NEW i \in (u - t) + 1 .. (u - t) + n
      PROVE  E(i) = (N - t) + ((i - (u - t)) - 1)
  <2>1. i - (u - t) \in 1 .. t
    OBVIOUS
  <2>2. QED  BY <1>0, <2>1, TakenDistance
<1> HIDE DEF D, E
<1>6. ASSUME NEW i \in 1 .. (u - t) + n, NEW j \in 1 .. (u - t) + n, i <= j
      PROVE  E(i) + (j - i) <= E(j)
  <2>1. CASE j <= u - t
    <3>1. i \in 1 .. u - t /\ j \in 1 .. u - t
      BY <1>6, <2>1
    <3>2. D(i + t) + ((j + t) - (i + t)) <= D(j + t)
      <4>1. i + t \in 1 .. u /\ j + t \in 1 .. u /\ i + t <= j + t
        BY <1>6, <3>1
      <4>2. QED  BY <1>2, <4>1
    <3>3. D(i + t) \in 0 .. N - 1 /\ D(j + t) \in 0 .. N - 1
      BY <1>1, <1>3, <3>1
    <3>4. E(i) = D(i + t) - t /\ E(j) = D(j + t) - t
      BY <1>4, <3>1
    <3>5. QED  BY <3>2, <3>3, <3>4
  <2>2. CASE i <= u - t /\ j > u - t
    <3>1. i \in 1 .. u - t /\ j \in (u - t) + 1 .. (u - t) + n
      BY <2>2
    <3>2. /\ E(i) = D(i + t) - t /\ D(i + t) <= (N - 1) - (u - (i + t))
          /\ D(i + t) \in 0 .. N - 1
      BY <1>1, <1>3, <1>4, <3>1
    <3>3. E(j) = (N - t) + ((j - (u - t)) - 1)
      BY <1>5, <3>1
    <3>4. QED  BY <3>2, <3>3
  <2>3. CASE i > u - t
    <3>1. i \in (u - t) + 1 .. (u - t) + n /\ j \in (u - t) + 1 .. (u - t) + n
      BY <1>6, <2>3
    <3>2. E(i) = (N - t) + ((i - (u - t)) - 1) /\ E(j) = (N - t) + ((j - (u - t)) - 1)
      BY <1>5, <3>1
    <3>3. QED  BY <3>2
  <2>4. QED  BY <2>1, <2>2, <2>3
<1>7. ASSUME n = t, \A i \in 1 .. u : D(i) = (N - u) + (i - 1), NEW i \in 1 .. u
      PROVE  E(i) = (N - u) + (i - 1)
  <2>1. CASE i <= u - t
    <3>1. i \in 1 .. u - t /\ i + t \in 1 .. u
      BY <2>1
    <3>2. E(i) = D(i + t) - t /\ D(i + t) = (N - u) + ((i + t) - 1)
      BY <1>4, <1>7, <3>1
    <3>3. QED  BY <3>2
  <2>2. CASE i > u - t
    <3>1. i \in (u - t) + 1 .. (u - t) + n
      BY <1>7, <2>2
    <3>2. E(i) = (N - t) + ((i - (u - t)) - 1)
      BY <1>5, <3>1
    <3>3. QED  BY <3>2
  <2>3. QED  BY <2>1, <2>2
<1>8. InOrder(On(h, t), g, (u - t) + n)
  BY <1>6 DEF D, E, InOrder
<1>9. n = t /\ IsLap(h, f, u) => IsLap(On(h, t), g, u)
  BY <1>7 DEF D, E, IsLap
<1>10. QED  BY <1>8, <1>9

(* The iterator releases what it holds, and posts as many requests: never  *)
(* refused, and at entries that are behind all that stay outstanding.      *)
LEMMA ClearInd ==
  ASSUME OneQP, IndInv, NEW q \in Qps, IterClear
  PROVE  IndInv'
<1> N \in Nat \ {0}
  BY RingAssumption
<1>1. TypeOK /\ IterOK /\ Order(q) /\ CutOK(q) /\ Messages(q)
  BY DEF IndInv
<1>2. /\ total_msgs # -1 /\ total_msgs' = -1 /\ wcs' = <<>> /\ idx' = 0
      /\ \/ total_msgs > 0 /\ post_recvs(owner, total_msgs)
         \/ total_msgs = 0 /\ UNCHANGED <<depth, ud, header, cut, rq>>
      /\ UNCHANGED <<buf, cq, owner, arrived, first, dropped, read>>
  BY DEF IterClear, ringVars, peerVars
<1>3. PICK t \in Nat, c \in Nat, r \in Nat, d \in Nat, h \in Entries :
          t = Len(wcs) /\ c = Len(cq) /\ r = Len(rq[q]) /\ d = depth[q] /\ h = header[q]
  BY <1>1, Typed
<1>4. t = total_msgs /\ t <= N /\ owner = q
  <2>1. Len(wcs) = total_msgs /\ total_msgs <= N
    BY <1>1, <1>2 DEF IterOK
  <2>2. owner = q
    BY <1>1, Typed DEF OneQP
  <2>3. QED  BY <1>3, <2>1, <2>2
<1> PICK k \in Nat, u \in Nat : k = t + c /\ u = k + r
  OBVIOUS
<1>5. /\ Held = k /\ Total(q) = u /\ u <= d
      /\ t \in 0 .. N /\ k \in Nat /\ u \in Nat /\ t <= k /\ t <= u /\ k <= u
  <2>1. Held = k
    BY <1>3 DEF Held
  <2>2. Total(q) = u
    BY <1>3, <2>1 DEF Total
  <2>3. Total(q) <= depth[q]
    BY <1>1 DEF Order
  <2>4. u <= d
    BY <1>3, <2>2, <2>3
  <2>5. QED  BY <1>4, <2>1, <2>2, <2>4
<1>6. idx \in 0 .. t /\ arrived[q] \in Nat /\ read[q] \in Nat
  <2>1. idx \in Nat /\ idx <= Len(wcs) /\ arrived[q] \in Nat /\ read[q] \in Nat
    BY <1>1, Typed DEF IterOK
  <2>2. QED  BY <1>3, <2>1
<1>7. wcs' \in Seq(Completion) /\ Len(wcs') = 0
  BY <1>2, EmptySeq
<1>8. Held' = c
  BY <1>2, <1>3, <1>7 DEF Held
<1>9. ASSUME NEW i \in 1 .. c PROVE Pend(i)' = Pend(i + t)
  <2>1. ~ (i <= 0) /\ ~ (i + t <= t) /\ (i + t) - t = i /\ i - 0 = i
    OBVIOUS
  <2>2. Pend(i)' = cq[i]
    BY <1>2, <1>7, <2>1 DEF Pend
  <2>3. Pend(i + t) = cq[i]
    BY <1>3, <2>1 DEF Pend
  <2>4. QED  BY <2>2, <2>3
<1>10. Messages(q)'
  <2>1. \A i \in 1 .. c : i + t \in 1 .. k /\ i + t > idx
    BY <1>5, <1>6
  <2>2. \A i, j \in 1 .. c : i < j => i + t < j + t
    OBVIOUS
  <2>3. arrived'[q] = 0 => c = 0
    BY <1>1, <1>2, <1>3, <1>5 DEF Messages
  <2>4. \A i \in 1 .. c :
           /\ Pend(i)'.msg <= arrived'[q]
           /\ i > idx' => read'[q] < Pend(i)'.msg
           /\ buf'[Pend(i)'.qp][Pend(i)'.entry] = Pend(i)'.msg
    BY <1>1, <1>2, <1>5, <1>9, <2>1 DEF Messages
  <2>5. \A i, j \in 1 .. c : i < j => Pend(i)'.msg < Pend(j)'.msg
    BY <1>1, <1>5, <1>9, <2>1, <2>2 DEF Messages
  <2>6. read'[q] <= arrived'[q]
    BY <1>1, <1>2 DEF Messages
  <2>7. QED  BY <1>8, <2>3, <2>4, <2>5, <2>6 DEF Messages
<1>11. IterOK'
  BY <1>2, <1>7 DEF IterOK
<1>12. CASE total_msgs = 0
  <2>1. t = 0 /\ k = c /\ UNCHANGED <<depth, ud, header, cut, rq, first>>
    BY <1>2, <1>4, <1>12
  <2>2. \A i \in 1 .. c : i + t = i /\ Pend(i)' = Pend(i)
    <3>1. \A i \in 1 .. c : i + t = i
      BY <2>1
    <3>2. QED  BY <1>9, <3>1
  <2>3. Total(q)' = Total(q)
    <3>1. Held' = Held /\ rq' = rq
      BY <1>5, <1>8, <2>1
    <3>2. QED  BY <3>1 DEF Total
  <2>4. ASSUME NEW i \in 1 .. Total(q) PROVE Out(q, i)' = Out(q, i)
    <3>1. Out(q, i)' = IF i <= c THEN Pend(i)'.entry ELSE rq[q][i - c]
      BY <1>8, <2>1 DEF Out
    <3>2. Out(q, i) = IF i <= c THEN Pend(i).entry ELSE rq[q][i - c]
      BY <1>5, <2>1 DEF Out
    <3>3. i <= c => i \in 1 .. c
      BY <1>5
    <3>4. QED  BY <2>2, <3>1, <3>2, <3>3
  <2>5. Order(q)' /\ CutOK(q)'
    BY <1>1, <2>1, <2>3, <2>4, SameOrder
  <2>6. TypeOK'
    BY <1>1, <1>2, <1>7, <2>1 DEF TypeOK, Completion, Entries
  <2>7. QED  BY <1>10, <1>11, <2>5, <2>6 DEF IndInv, OneQP
<1>13. CASE total_msgs > 0
  <2>1. t \in 1 .. N /\ post_recvs(q, t) /\ Len(rq[q]) <= depth[q]
    <3>1. post_recvs(owner, total_msgs)
      BY <1>2, <1>13
    <3>2. post_recvs(q, t)
      BY <1>4, <3>1, Zenon
    <3>3. t > 0
      BY <1>4, <1>13
    <3>4. r <= d
      BY <1>5
    <3>5. QED  BY <1>3, <1>5, <3>2, <3>3, <3>4
  <2>2. PICK n \in 0 .. t : Posts(q, t, n) /\ (Taken(q, t, n) \/ Refused(q, t, n))
    BY <1>1, <2>1, PostFacts
  <2>3. ~ Refused(q, t, n)
    <3>1. ~ (d - r < t)
      BY <1>5
    <3>2. QED  BY <1>3, <3>1 DEF Refused
  <2>4. header'[q] = On(h, t) /\ cut'[q] = cut[q] /\ (cut[q] = {} => n = t)
    BY <1>3, <2>2, <2>3 DEF Taken
  <2>5. /\ Len(rq'[q]) = r + n /\ depth'[q] = d
        /\ \A i \in 1 .. r : rq'[q][i] = rq[q][i]
        /\ \A i \in 1 .. n : rq'[q][r + i] = On(h, i - 1)
    BY <1>3, <2>2 DEF Posts
  <2>6. u - t = c + r /\ u \in t .. N
    BY <1>1, <1>5, OldestAreNearest
  <2>7. Total(q)' = (u - t) + n
    <3>1. Total(q)' = Held' + Len(rq'[q])
      BY DEF Total
    <3>2. Total(q)' = c + (r + n)
      BY <1>8, <2>5, <3>1
    <3>3. QED  BY <2>6, <3>2
  <2>8. ASSUME NEW i \in 1 .. u - t PROVE Out(q, i)' = Out(q, i + t)
    <3>1. Out(q, i)' = IF i <= c THEN Pend(i)'.entry ELSE rq'[q][i - c]
      BY <1>8 DEF Out
    <3>2. Out(q, i + t) = IF i + t <= k THEN Pend(i + t).entry ELSE rq[q][(i + t) - k]
      BY <1>5 DEF Out
    <3>3. (i <= c <=> i + t <= k) /\ (i + t) - k = i - c
      OBVIOUS
    <3>4. i <= c => Pend(i)' = Pend(i + t)
      BY <1>9
    <3>5. ~ (i <= c) => rq'[q][i - c] = rq[q][i - c]
      <4>1. ~ (i <= c) => i - c \in 1 .. r
        BY <2>6
      <4>2. QED  BY <2>5, <4>1
    <3>6. QED  BY <3>1, <3>2, <3>3, <3>4, <3>5
  <2>9. ASSUME NEW i \in (u - t) + 1 .. (u - t) + n
        PROVE  Out(q, i)' = On(h, (i - (u - t)) - 1)
    <3>1. ~ (i <= c) /\ i - c = r + (i - (u - t)) /\ i - (u - t) \in 1 .. n
      BY <2>6
    <3>2. Out(q, i)' = rq'[q][i - c]
      BY <1>8, <3>1 DEF Out
    <3>3. QED  BY <2>5, <3>1, <3>2
  <2>10. PICK f, g :
             /\ f \in [1 .. u -> Entries]
             /\ \A i \in 1 .. u : f[i] = Out(q, i)
             /\ \A i \in 1 .. (u - t) + n : g[i] = Out(q, i)'
    <3> DEFINE F == [i \in 1 .. u |-> Out(q, i)]
               G == [i \in 1 .. (u - t) + n |-> Out(q, i)']
    <3>1. F \in [1 .. u -> Entries]
      BY <1>1, <1>5, Typed
    <3>2. \A i \in 1 .. u : F[i] = Out(q, i)
      OBVIOUS
    <3>3. \A i \in 1 .. (u - t) + n : G[i] = Out(q, i)'
      OBVIOUS
    <3> HIDE DEF F, G
    <3>4. QED  BY <3>1, <3>2, <3>3
  <2>11. \A i, j \in 1 .. u : i <= j => Distance(h, f[i]) + (j - i) <= Distance(h, f[j])
    BY <1>1, <1>3, <1>5, <2>10 DEF Order
  <2>12. \A i \in 1 .. u - t : g[i] = f[i + t]
    <3>1. \A i \in 1 .. u - t : i \in 1 .. (u - t) + n /\ i + t \in 1 .. u
      BY <2>6
    <3>2. QED  BY <2>8, <2>10, <3>1
  <2>13. \A i \in (u - t) + 1 .. (u - t) + n : g[i] = On(h, (i - (u - t)) - 1)
    <3>1. \A i \in (u - t) + 1 .. (u - t) + n : i \in 1 .. (u - t) + n
      BY <2>6
    <3>2. QED  BY <2>9, <2>10, <3>1
  <2>14. /\ InOrder(On(h, t), g, (u - t) + n)
         /\ n = t /\ IsLap(h, f, u) => IsLap(On(h, t), g, u)
    <3>1. h \in Entries /\ t \in 1 .. N /\ n \in 0 .. t /\ u \in t .. N
      BY <2>1, <2>6
    <3>2. InOrder(h, f, u)
      BY <2>11 DEF InOrder
    <3>3. Shifted(h, t, n, u, f, g)
      BY <2>12, <2>13 DEF Shifted
    <3>4. QED  BY <2>10, <3>1, <3>2, <3>3, ShiftOrder
  <2>15. \A i \in 1 .. (u - t) + n :
             Distance(header[q], Out(q, i))' = Distance(On(h, t), g[i])
    BY <2>4, <2>10 DEF Distance
  <2>16. Order(q)'
    <3>1. (u - t) + n <= d
      BY <1>5, <2>6
    <3>2. QED  BY <2>5, <2>7, <2>14, <2>15, <3>1 DEF Order, InOrder
  <2>17. CutOK(q)'
    <3>1. first'[q] = first[q]
      BY <1>2
    <3>2. depth'[q] >= N => cut'[q] = {}
      BY <1>1, <1>3, <2>4, <2>5 DEF CutOK
    <3>3. ASSUME cut'[q] = {}
          PROVE  /\ Total(q)' = first'[q]
                 /\ \A i \in 1 .. u :
                        Distance(header[q], Out(q, i))' = (N - u) + (i - 1)
      <4>1. n = t /\ cut[q] = {} /\ (u - t) + n = u
        BY <2>4, <2>6, <3>3
      <4>2. Total(q) = first[q] /\ \A i \in 1 .. u : Distance(h, f[i]) = (N - u) + (i - 1)
        BY <1>1, <1>3, <1>5, <2>10, <4>1 DEF CutOK
      <4>3. \A i \in 1 .. u : Distance(On(h, t), g[i]) = (N - u) + (i - 1)
        BY <2>14, <4>1, <4>2 DEF IsLap
      <4>4. Total(q)' = first'[q]
        BY <1>5, <2>7, <3>1, <4>1, <4>2
      <4>5. QED  BY <2>15, <4>1, <4>3, <4>4
    <3>4. cut'[q] = {} => Total(q)' = u
      BY <2>4, <2>6, <2>7
    <3>5. QED  BY <3>2, <3>3, <3>4 DEF CutOK
  <2>18. TypeOK'
    <3>1. /\ rq' \in [Qps -> Seq(Entries)] /\ header' \in [Qps -> Entries]
          /\ cut' \in [Qps -> SUBSET Entries] /\ UNCHANGED <<depth, ud>>
      BY <2>2 DEF Posts
    <3>2. QED  BY <1>1, <1>2, <1>7, <3>1 DEF TypeOK, Completion, Entries
  <2>19. QED  BY <1>10, <1>11, <2>16, <2>17, <2>18 DEF IndInv, OneQP
<1>14. QED  BY <1>2, <1>3, <1>4, <1>12, <1>13

-----------------------------------------------------------------------------
(* No step breaks the invariant.                                           *)
LEMMA NextInd ==
  ASSUME OneQP, IndInv, [Next]_vars
  PROVE  IndInv'
<1>1. PICK q \in Qps : q = owner
  BY DEF IndInv, TypeOK
<1>2. CASE Next
  <2>1. CASE \E r \in Qps, num \in 1 .. N : PostFirst(r, num)
    BY <2>1, PostFirstInd
  <2>2. CASE \E r \in Qps : NicReceive(r) \/ NicDrop(r) \/ IterBegin(r)
    BY <2>2, ReceiveInd, DropInd, BeginInd
  <2>3. CASE IterNext
    BY <1>1, <2>3, IterNextInd
  <2>4. CASE IterClear
    BY <1>1, <2>4, ClearInd
  <2>5. QED  BY <1>2, <2>1, <2>2, <2>3, <2>4 DEF Next
<1>3. CASE UNCHANGED vars
  <2>1. UNCHANGED <<depth, ud, header, cut, rq, buf, cq, wcs, idx, total_msgs, owner,
                    arrived, first, dropped, read>>
    BY <1>3 DEF vars, ringVars, iterVars, peerVars
  <2>2. TypeOK' /\ IterOK'
    BY <2>1 DEF IndInv, TypeOK, Completion, Entries, IterOK
  <2>3. Held' = Held /\ \A i : Pend(i)' = Pend(i)
    BY <2>1 DEF Held, Pend
  <2>4. ASSUME NEW r \in Qps PROVE Order(r)' /\ CutOK(r)' /\ Messages(r)'
    <3>1. Order(r) /\ CutOK(r) /\ Messages(r)
      BY DEF IndInv
    <3>2. Total(r)' = Total(r) /\ \A i : Out(r, i)' = Out(r, i)
      BY <2>1, <2>3 DEF Total, Out
    <3>3. Order(r)' /\ CutOK(r)'
      BY <2>1, <3>1, <3>2, SameOrder
    <3>4. Messages(r)'
      BY <2>1, <2>3, <3>1 DEF Messages
    <3>5. QED  BY <3>3, <3>4
  <2>5. QED  BY <2>2, <2>4 DEF IndInv
<1>4. QED  BY <1>2, <1>3

(* The invariant holds in every state, of a recv_cq with one QP.           *)
THEOREM IndCorrect == OneQP => (Spec => []IndInv)
<1> SUFFICES ASSUME OneQP PROVE Spec => []IndInv
  OBVIOUS
<1>1. Init => IndInv
  BY InitInd
<1>2. IndInv /\ [Next]_vars => IndInv'
  BY NextInd
<1>3. QED  BY <1>1, <1>2, PTL DEF Spec

-----------------------------------------------------------------------------
(* What the properties speak of, in the terms of the invariant.            *)

(* The equation of the recursive function of InCompletion.                 *)
IsFilter(q, c, f) ==
    f = [n \in 0 .. Len(c) |->
            IF n = 0 THEN <<>>
            ELSE IF c[n].qp = q THEN Append(f[n - 1], c[n]) ELSE f[n - 1]]

(* InCompletion is a solution of its equation, if there is one.            *)
LEMMA FilterSolves ==
  ASSUME NEW q \in Qps, NEW f, IsFilter(q, wcs \o cq, f)
  PROVE  \E g : IsFilter(q, wcs \o cq, g) /\ InCompletion(q) = g[Len(wcs \o cq)]
  BY DEF InCompletion, IsFilter

(* The equation has at most one solution.                                  *)
LEMMA FilterIsUnique ==
  ASSUME NEW q, NEW c, Len(c) \in Nat, NEW f, NEW g, IsFilter(q, c, f), IsFilter(q, c, g)
  PROVE  \A n \in 0 .. Len(c) : f[n] = g[n]
<1> PICK m \in Nat : m = Len(c)
  OBVIOUS
<1> DEFINE T == {n \in 0 .. m : f[n] # g[n]}
<1>1. f[0] = g[0]
  BY DEF IsFilter
<1>2. \A n \in 1 .. m :
        /\ f[n] = IF c[n].qp = q THEN Append(f[n - 1], c[n]) ELSE f[n - 1]
        /\ g[n] = IF c[n].qp = q THEN Append(g[n - 1], c[n]) ELSE g[n - 1]
  <2> SUFFICES ASSUME NEW h, IsFilter(q, c, h), NEW n \in 1 .. m
               PROVE  h[n] = IF c[n].qp = q THEN Append(h[n - 1], c[n]) ELSE h[n - 1]
    OBVIOUS
  <2>1. n \in 0 .. Len(c) /\ n # 0
    OBVIOUS
  <2>2. QED  BY <2>1, Zenon DEF IsFilter
<1>3. ASSUME T # {} PROVE FALSE
  <2>1. PICK x \in T : \A y \in T : x <= y
    <3>1. T \in SUBSET Nat
      OBVIOUS
    <3>2. QED  BY <3>1, <1>3, LeastNumber
  <2>2. x \in 1 .. m /\ f[x] # g[x]
    BY <2>1, <1>1
  <2>3. x - 1 \in 0 .. m /\ x - 1 \notin T
    BY <2>1, <2>2
  <2>4. f[x - 1] = g[x - 1]
    BY <2>3
  <2>5. QED  BY <2>2, <2>4, <1>2
<1>4. QED  BY <1>3

(* On a recv_cq of one QP every completion is the QP's.                    *)
LEMMA AllInCompletion ==
  ASSUME OneQP, TypeOK, NEW q \in Qps
  PROVE  /\ InCompletion(q) = wcs \o cq
         /\ Len(wcs \o cq) = Held
         /\ \A i \in 1 .. Held : (wcs \o cq)[i] = Pend(i)
<1>1. PICK c \in Seq(Completion), m \in Nat : c = wcs \o cq /\ m = Len(c)
  <2>1. wcs \in Seq(Completion) /\ cq \in Seq(Completion)
    BY Typed
  <2>2. wcs \o cq \in Seq(Completion) /\ Len(wcs \o cq) \in Nat
    BY <2>1, ConcatProperties
  <2>3. QED  BY <2>2
<1>2. m = Held /\ \A i \in 1 .. Held : c[i] = Pend(i)
  <2>1. wcs \in Seq(Completion) /\ cq \in Seq(Completion)
    BY Typed
  <2>2. QED  BY <1>1, <2>1, ConcatProperties DEF Held, Pend
<1>3. \A n \in 1 .. m : c[n] \in Completion /\ c[n].qp = q
  <2>1. \A n \in 1 .. m : c[n] \in Completion
    BY <1>1, ElementOfSeq
  <2>2. QED  BY <2>1 DEF Completion, OneQP
<1> DEFINE f == [n \in 0 .. m |-> SubSeq(c, 1, n)]
<1>4. f[0] = <<>>
  BY SubSeqEmpty
<1>5. ASSUME NEW n \in 1 .. m PROVE f[n] = Append(f[n - 1], c[n])
  <2>1. n - 1 \in 0 .. m /\ f[n - 1] = SubSeq(c, 1, n - 1) /\ f[n] = SubSeq(c, 1, n)
    OBVIOUS
  <2>2. \A k \in 0 .. m : /\ SubSeq(c, 1, k) \in Seq(Completion)
                          /\ Len(SubSeq(c, 1, k)) = k
                          /\ \A i \in 1 .. k : SubSeq(c, 1, k)[i] = c[i]
    BY <1>3, SubSeqProperties
  <2>3. /\ Append(f[n - 1], c[n]) \in Seq(Completion)
        /\ Len(Append(f[n - 1], c[n])) = n
        /\ \A i \in 1 .. n : Append(f[n - 1], c[n])[i] = c[i]
    <3>1. PICK s \in Seq(Completion) :
             s = f[n - 1] /\ Len(s) = n - 1 /\ \A i \in 1 .. n - 1 : s[i] = c[i]
      BY <2>1, <2>2
    <3>2. c[n] \in Completion
      BY <1>3
    <3>3. /\ Append(s, c[n]) \in Seq(Completion)
          /\ Len(Append(s, c[n])) = Len(s) + 1
          /\ \A i \in 1 .. Len(s) : Append(s, c[n])[i] = s[i]
          /\ Append(s, c[n])[Len(s) + 1] = c[n]
      BY <3>2, AppendProperties
    <3> HIDE DEF f
    <3>4. QED  BY <3>1, <3>3
  <2> HIDE DEF f
  <2>4. QED  BY <2>1, <2>2, <2>3, SeqEqual
<1>6. IsFilter(q, c, f)
  <2>1. f = [n \in 0 .. m |-> f[n]]
    OBVIOUS
  <2>2. \A n \in 0 .. m :
           f[n] = IF n = 0 THEN <<>>
                  ELSE IF c[n].qp = q THEN Append(f[n - 1], c[n]) ELSE f[n - 1]
    <3>1. \A n \in 0 .. m : n # 0 => n \in 1 .. m
      OBVIOUS
    <3> HIDE DEF f
    <3>2. QED  BY <1>3, <1>4, <1>5, <3>1
  <2> HIDE DEF f
  <2>3. QED  BY <1>1, <2>1, <2>2 DEF IsFilter
<1>7. f[m] = c
  <2>1. SubSeq(c, 1, Len(c)) = c
    BY SubSeqFull
  <2>2. QED  BY <1>1, <2>1
<1> HIDE DEF f
<1>8. PICK g : IsFilter(q, c, g) /\ InCompletion(q) = g[m]
  BY <1>1, <1>6, FilterSolves
<1>9. g[m] = f[m]
  <2>1. Len(c) \in Nat /\ m \in 0 .. Len(c) /\ IsFilter(q, c, f) /\ IsFilter(q, c, g)
    BY <1>1, <1>6, <1>8
  <2>2. \A n \in 0 .. Len(c) : g[n] = f[n]
    BY <2>1, FilterIsUnique
  <2>3. QED  BY <2>1, <2>2
<1>10. QED  BY <1>1, <1>2, <1>7, <1>8, <1>9

(* What is outstanding, entry by entry.                                    *)
LEMMA OutstandingIs ==
  ASSUME OneQP, TypeOK, NEW q \in Qps
  PROVE  /\ Len(Outstanding(q)) = Total(q)
         /\ \A i \in 1 .. Total(q) : Outstanding(q)[i] = Out(q, i)
<1>1. PICK h \in Nat : h = Held
  BY Typed
<1>2. /\ rq[q] \in Seq(Entries) /\ Len(rq[q]) \in Nat
      /\ \A i \in 1 .. h : Pend(i).entry \in Entries
  BY <1>1, Typed
<1> DEFINE s == [i \in 1 .. h |-> Pend(i).entry]
<1>3. s \in Seq(Entries) /\ Len(s) = h /\ \A i \in 1 .. h : s[i] = Pend(i).entry
  BY <1>2
<1>4. Outstanding(q) = s \o rq[q]
  <2>1. InCompletion(q) = wcs \o cq /\ Len(wcs \o cq) = h
        /\ \A i \in 1 .. h : (wcs \o cq)[i] = Pend(i)
    BY <1>1, AllInCompletion
  <2>2. QED  BY <2>1 DEF Outstanding
<1> HIDE DEF s
<1>5. /\ Len(s \o rq[q]) = h + Len(rq[q])
      /\ \A i \in 1 .. h + Len(rq[q]) :
             (s \o rq[q])[i] = IF i <= h THEN s[i] ELSE rq[q][i - h]
  BY <1>2, <1>3, ConcatProperties
<1>6. QED  BY <1>1, <1>3, <1>4, <1>5 DEF Total, Out

-----------------------------------------------------------------------------
(* The properties the runs check.                                          *)

(* The lap that ends just before header, entry by entry.                   *)
LEMMA LapEntries ==
  ASSUME NEW h \in Entries, NEW n \in 0 .. N, NEW i \in 1 .. n, NEW e \in Entries,
         Distance(h, e) = (N - n) + (i - 1)
  PROVE  e = (h - n + i - 1) % N
<1> N \in Nat \ {0} /\ h \in 0 .. N - 1 /\ e \in 0 .. N - 1
  BY RingAssumption DEF Entries
<1> PICK a \in Int : a = h - n + i - 1
  OBVIOUS
<1>1. a >= -N /\ a < N
  OBVIOUS
<1>2. a % N = IF a < 0 THEN a + N ELSE a
  BY <1>1, ModLap
<1>3. e = IF a < 0 THEN a + N ELSE a
  BY DEF Distance
<1>4. QED  BY <1>2, <1>3

(* The invariant implies the properties of the ring.                       *)
LEMMA IndIsRing ==
  ASSUME OneQP, IndInv
  PROVE  RingInv
<1>1. TypeOK
  BY DEF IndInv
<1>2. ASSUME NEW q \in Qps
      PROVE  /\ Order(q) /\ CutOK(q) /\ Messages(q)
             /\ header[q] \in Entries /\ Total(q) \in 0 .. N
             /\ Len(Outstanding(q)) = Total(q)
             /\ \A i \in 1 .. Total(q) : Outstanding(q)[i] = Out(q, i) /\ Out(q, i) \in Entries
  <2>1. Order(q) /\ CutOK(q) /\ Messages(q)
    BY DEF IndInv
  <2>2. Total(q) \in Nat /\ Total(q) <= N
    BY <1>1, <2>1, Typed, OldestAreNearest
  <2>3. N \in Nat
    BY RingAssumption
  <2>4. QED  BY <1>1, <2>1, <2>2, <2>3, Typed, OutstandingIs
<1>3. RingOrder
  <2> SUFFICES ASSUME NEW q \in Qps, cut[q] = {}
               PROVE  LET s == Outstanding(q)
                      IN  /\ Len(s) <= N
                          /\ \A i \in 1 .. Len(s) : s[i] = (header[q] - Len(s) + i - 1) % N
    BY DEF RingOrder
  <2>1. PICK n \in 0 .. N : n = Total(q) /\ Len(Outstanding(q)) = n
    BY <1>2
  <2>2. n <= N
    BY <2>1, RingAssumption
  <2>3. ASSUME NEW i \in 1 .. n
        PROVE  Outstanding(q)[i] = (header[q] - n + i - 1) % N
    <3>1. Out(q, i) \in Entries /\ Outstanding(q)[i] = Out(q, i) /\ header[q] \in Entries
      BY <1>2, <2>1
    <3>2. Distance(header[q], Out(q, i)) = (N - n) + (i - 1)
      BY <1>2, <2>1 DEF CutOK
    <3>3. Out(q, i) = (header[q] - n + i - 1) % N
      BY <3>1, <3>2, LapEntries
    <3>4. QED  BY <3>1, <3>3
  <2>4. QED  BY <2>1, <2>2, <2>3
<1>4. NoDoublePost
  <2> SUFFICES ASSUME NEW q \in Qps
               PROVE  LET s == Outstanding(q)
                      IN  \A i, j \in 1 .. Len(s) : s[i] = s[j] => i = j
    BY DEF NoDoublePost
  <2>1. \A i, j \in 1 .. Total(q) : Out(q, i) = Out(q, j) => i = j
    BY <1>1, <1>2, OldestAreNearest
  <2>2. QED  BY <1>2, <2>1
<1>5. BuffersIntact
  <2>1. owner \in Qps
    BY <1>1 DEF TypeOK
  <2>2. /\ Len(wcs \o cq) = Held
        /\ \A i \in 1 .. Held : (wcs \o cq)[i] = Pend(i)
    BY <1>1, <2>1, AllInCompletion
  <2>3. \A i \in 1 .. Held : buf[Pend(i).qp][Pend(i).entry] = Pend(i).msg
    BY <1>2, <2>1 DEF Messages
  <2>4. QED  BY <2>2, <2>3 DEF BuffersIntact
<1>6. ChainIntact
  BY <1>2 DEF ChainIntact, CutOK
<1>7. QED  BY <1>1, <1>3, <1>4, <1>5, <1>6 DEF RingInv

(* The next post takes the entries released longest ago, no buffer is      *)
(* posted while it is posted or being read, and none of those being read   *)
(* has been written over: post_recvs need not look at what was consumed.   *)
THEOREM RingCorrect == OneQP => (Spec => []RingInv)
<1> SUFFICES ASSUME OneQP PROVE Spec => []RingInv
  OBVIOUS
<1>1. Spec => []IndInv
  BY IndCorrect
<1>2. IndInv => RingInv
  BY IndIsRing
<1>3. QED  BY <1>1, <1>2, PTL

(* A drop finds as many completions outstanding as were posted at first.   *)
LEMMA DropStep ==
  ASSUME OneQP, IndInv, [Next]_vars, NEW q \in Qps, cut[q] = {}, dropped'[q] # dropped[q]
  PROVE  Len(InCompletion(q)) = first[q]
<1>1. TypeOK /\ CutOK(q)
  BY DEF IndInv
<1>2. NicDrop(q)
  <2>1. ASSUME NEW r \in Qps, NicDrop(r) PROVE NicDrop(q)
    <3>1. r = q
      BY DEF OneQP
    <3>2. QED  BY <2>1, <3>1
  <2>2. QED
    BY <2>1 DEF Next, PostFirst, NicReceive, IterBegin, IterNext, IterClear,
                vars, peerVars
<1>3. Len(rq[q]) = 0
  BY <1>2, EmptySeq DEF NicDrop
<1>4. Total(q) = first[q]
  BY <1>1 DEF CutOK
<1>5. Held \in Nat
  BY <1>1, Typed
<1>6. QED  BY <1>1, <1>3, <1>4, <1>5, AllInCompletion DEF Total

(* A UD drops a message only when everything that was posted at first is   *)
(* consumed and not yet posted again: no slot is lost by counting.         *)
THEOREM DropsCorrect == OneQP => (Spec => DropsOnlyWhenBehind)
<1> SUFFICES ASSUME OneQP PROVE Spec => DropsOnlyWhenBehind
  OBVIOUS
<1>1. Spec => []IndInv
  BY IndCorrect
<1>2. IndInv /\ [Next]_vars =>
          [\A q \in Qps : cut[q] = {} /\ dropped'[q] # dropped[q] =>
               Len(InCompletion(q)) = first[q]]_vars
  BY DropStep
<1>3. QED  BY <1>1, <1>2, PTL DEF Spec, DropsOnlyWhenBehind

(* A step that reads a message reads a newer one than the last.            *)
LEMMA ReadStep ==
  ASSUME OneQP, IndInv, [Next]_vars, NEW q \in Qps, read'[q] # read[q]
  PROVE  read'[q] > read[q]
<1>1. IterNext
  BY DEF Next, PostFirst, NicReceive, NicDrop, IterBegin, IterClear, vars
<1>2. read[q] < read'[q] /\ read[q] \in Nat /\ read' \in [Qps -> Nat]
  BY <1>1, NextReads DEF IndInv, TypeOK
<1>3. QED  BY <1>2

(* Messages are read in the order they arrived, and none is read twice.    *)
THEOREM ReadsCorrect == OneQP => (Spec => ReadInOrder)
<1> SUFFICES ASSUME OneQP PROVE Spec => ReadInOrder
  OBVIOUS
<1>1. Spec => []IndInv
  BY IndCorrect
<1>2. IndInv /\ [Next]_vars =>
          [\A q \in Qps : read'[q] # read[q] => read'[q] > read[q]]_vars
  BY ReadStep
<1>3. QED  BY <1>1, <1>2, PTL DEF Spec, ReadInOrder
=============================================================================
