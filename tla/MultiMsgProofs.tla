--------------------------- MODULE MultiMsgProofs ---------------------------
(***************************************************************************)
(* Proofs about module MultiMsg, for integers of every width, headers and  *)
(* strings of every size, and messages of every length.                    *)
(*                                                                         *)
(* No offset wraps, since no string is longer than a u16 can say.  The     *)
(* header pointer stays valid as long as the string fits its capacity:     *)
(* by what each constructor reserves, and in SRpc::call, which reserves    *)
(* too little, because std::string doubles when it grows.                  *)
(***************************************************************************)
EXTENDS MultiMsg, FiniteSetTheorems, SequenceTheorems, TLAPS

-----------------------------------------------------------------------------
(* Sizes and offsets.                                                      *)

(* The number of values of a u16 is a number, and the longest string is    *)
(* below it.                                                               *)
LEMMA Width == 2 ^ Bits \in Nat /\ MAXSZ < 2 ^ Bits
<1>1. Bits \in Nat
  BY SizeAssumption
<1>2. IsFiniteSet(1 .. Bits) /\ Cardinality(1 .. Bits) = Bits
  BY <1>1, FS_Interval
<1>3. IsFiniteSet(SUBSET (1 .. Bits)) /\ Cardinality(SUBSET (1 .. Bits)) = 2 ^ Bits
  BY <1>2, FS_SUBSET
<1>4. 2 ^ Bits \in Nat
  BY <1>3, FS_CardinalityType
<1>5. QED  BY <1>4, U16Assumption

(* A number up to the longest string is its own value as a u16.            *)
LEMMA NoWrap ==
  ASSUME NEW n \in Nat, n <= MAXSZ
  PROVE  n % 2 ^ Bits = n /\ n \in 0 .. 2 ^ Bits - 1
<1> PICK w \in Nat : w = 2 ^ Bits /\ MAXSZ < w
  BY Width
<1>1. n < w /\ w > 0 /\ MAXSZ \in Nat
  BY SizeAssumption
<1>2. n % w = n
  BY <1>1
<1>3. QED  BY <1>1, <1>2

(* Where entry i ends, without the wrapping.                               *)
End(h, i) == IF i = 0 THEN HeaderSz ELSE h[i].offset + h[i].sz

-----------------------------------------------------------------------------
(* The inductive invariant, in parts.                                      *)

(* The entries of the string's header are the accepted messages, one       *)
(* behind the other up to the end of the string, and their bytes are there.*)
Coded ==
    /\ accepted \in Seq(Nat)
    /\ buf.data \in Seq(Nat)
    /\ buf.header \in Seq(Entry)
    /\ Len(buf.header) = Len(accepted)
    /\ \A i \in 1 .. Len(accepted) :
           /\ buf.header[i].sz = accepted[i]
           /\ buf.header[i].offset = End(buf.header, i - 1)
           /\ HeaderSz <= buf.header[i].offset
           /\ buf.header[i].offset + accepted[i] <= size
           /\ \A j \in 1 .. accepted[i] :
                  buf.data[(buf.header[i].offset - HeaderSz) + j] = i
    /\ End(buf.header, Len(accepted)) = size
    /\ size <= MAXSZ

(* A user's string has room for all the user can append.                   *)
ByUser ==
    /\ user = "user" => todo = <<>> /\ ~stale /\ MAXSZ <= cap
    /\ user = "exact" => todo = <<>> /\ ~stale /\ size + room <= cap

(* The reply has room, and entries, for both of its messages.              *)
ReplyWithTwo ==
    /\ todo = <<ReplyHeaderSz, todo[2]>> /\ accepted = <<>> /\ todo[2] \in Nat
    /\ size + (ReplyHeaderSz + todo[2]) <= cap
    /\ size + (ReplyHeaderSz + todo[2]) <= MAXSZ
ReplyWithOne ==
    /\ todo = <<todo[1]>> /\ Len(accepted) = 1 /\ todo[1] \in Nat
    /\ size + todo[1] <= cap /\ size + todo[1] <= MAXSZ
ByReply ==
    user = "reply" =>
        /\ ~stale /\ ~aborted
        /\ ReplyWithTwo \/ ReplyWithOne \/ (todo = <<>> /\ Len(accepted) = 2)

(* The string of a call has grown, if at all, by its last message only.    *)
CallWithTwo ==
    /\ todo = <<RpcHeaderSz, room - IdSz>>
    /\ accepted = <<>> /\ size = HeaderSz
    /\ ~stale /\ ~aborted /\ 2 * HeaderSz <= cap
CallWithOne ==
    /\ todo = <<room - IdSz>>
    /\ Len(accepted) = 1 /\ size = HeaderSz + RpcHeaderSz
    /\ ~stale /\ ~aborted
CallWithNone ==
    /\ todo = <<>>
    /\ aborted <=> HeaderSz + RpcHeaderSz + (room - IdSz) > MAXSZ
ByCall ==
    user = "call" => IdSz <= room /\ (CallWithTwo \/ CallWithOne \/ CallWithNone)

IndInv ==
    /\ TypeOK
    /\ Coded
    /\ ~wild
    /\ user = "none" => todo = <<>>
    /\ ByUser /\ ByReply /\ ByCall

(* The facts the steps below start from.                                   *)
LEMMA Sizes ==
  /\ Bits \in Nat /\ kMaxMultiMsg \in Nat /\ MAXSZ \in Nat /\ HeaderSz \in Nat
  /\ IdSz \in Nat /\ RpcHeaderSz \in Nat /\ ReplyHeaderSz \in Nat /\ MaxSz \in Nat
  /\ HeaderSz > 0 /\ IdSz > 0 /\ HeaderSz < MAXSZ /\ IdSz < RpcHeaderSz
  /\ RpcHeaderSz <= HeaderSz /\ HeaderSz + RpcHeaderSz <= MAXSZ
  /\ HeaderSz + ReplyHeaderSz <= MAXSZ /\ kMaxMultiMsg >= 2
  BY SizeAssumption

-----------------------------------------------------------------------------
(* append().                                                               *)

(* A message that is accepted becomes the last entry, its bytes the end of *)
(* the string, and the pointer is stale only if the string had no room.    *)
LEMMA Appending ==
  ASSUME TypeOK, Coded, ~wild, ~stale, NEW sz \in Nat, Appends(sz), DoAppend(sz)
  PROVE  /\ Coded'
         /\ size' = size + sz
         /\ Len(accepted') = Len(accepted) + 1
         /\ IsHeader(header') /\ buf'.header = header'
         /\ cap' \in HeaderSz .. 2 * MAXSZ /\ size' <= cap' /\ cap <= cap'
         /\ stale' \in BOOLEAN /\ (stale' <=> size + sz > cap)
         /\ wild' = FALSE
<1> USE Sizes
<1>1. /\ accepted \in Seq(Nat) /\ buf.data \in Seq(Nat) /\ buf.header \in Seq(Entry)
      /\ header = buf.header /\ Len(header) = Len(accepted)
      /\ Len(accepted) \in Nat /\ Len(buf.data) \in Nat
  BY DEF Coded, TypeOK
<1>2. PICK k \in Nat, d \in Nat, s \in Nat :
          k = Len(accepted) /\ d = Len(buf.data) /\ s = size
  BY <1>1 DEF size
<1>3. s = HeaderSz + d /\ s + sz <= MAXSZ /\ k < kMaxMultiMsg /\ s <= MAXSZ
  BY <1>1, <1>2 DEF size, Appends, Fits, has_free_entry, Coded
<1>4. NextOffset(header) = s
  <2>1. End(header, k) = s
    BY <1>1, <1>2 DEF Coded
  <2>2. s % 2 ^ Bits = s
    BY <1>3, NoWrap
  <2>3. CASE k = 0
    BY <1>1, <1>2, <2>1, <2>3, EmptySeq DEF NextOffset, End
  <2>4. CASE k # 0
    <3>1. header # <<>>
      BY <1>1, <1>2, <2>4, EmptySeq
    <3>2. header[Len(header)].offset + header[Len(header)].sz = s
      BY <1>1, <1>2, <2>1, <2>4 DEF End
    <3>3. QED  BY <2>2, <3>1, <3>2 DEF NextOffset
  <2>5. QED  BY <2>3, <2>4
<1> DEFINE e == [offset |-> s, sz |-> sz]
<1>5. header' = Append(header, e) /\ e \in Entry
  <2>1. sz % 2 ^ Bits = sz /\ sz \in 0 .. 2 ^ Bits - 1 /\ s \in 0 .. 2 ^ Bits - 1
    BY <1>3, NoWrap
  <2>2. header' = Append(header, [offset |-> NextOffset(header), sz |-> sz % 2 ^ Bits])
    BY DEF DoAppend, append_one
  <2>3. QED  BY <1>4, <2>1, <2>2 DEF Entry
<1>6. e.offset = s /\ e.sz = sz
  OBVIOUS
<1> HIDE DEF e
<1>7. /\ buf'.header = header'
      /\ buf'.data = buf.data \o Bytes(sz)
      /\ accepted' = Append(accepted, sz)
  BY DEF DoAppend
<1>8. /\ header' \in Seq(Entry) /\ Len(header') = k + 1
      /\ \A i \in 1 .. k : header'[i] = header[i]
      /\ header'[k + 1] = e
  BY <1>1, <1>2, <1>5, AppendProperties
<1>9. /\ accepted' \in Seq(Nat) /\ Len(accepted') = k + 1
      /\ \A i \in 1 .. k : accepted'[i] = accepted[i]
      /\ accepted'[k + 1] = sz
  BY <1>1, <1>2, <1>7, AppendProperties
<1>10. /\ buf'.data \in Seq(Nat) /\ Len(buf'.data) = d + sz
       /\ \A j \in 1 .. d : buf'.data[j] = buf.data[j]
       /\ \A j \in 1 .. sz : buf'.data[d + j] = k + 1
  <2> PICK b : b = Bytes(sz)
    OBVIOUS
  <2> PICK a \in Seq(Nat) : a = buf.data
    BY <1>1
  <2>1. b \in Seq(Nat) /\ Len(b) = sz /\ \A j \in 1 .. sz : b[j] = k + 1
    BY <1>2 DEF Bytes
  <2>2. /\ a \o b \in Seq(Nat) /\ Len(a \o b) = d + sz
        /\ \A j \in 1 .. d + sz : (a \o b)[j] = IF j <= d THEN a[j] ELSE b[j - d]
    <3>1. Len(a) = d
      BY <1>2
    <3>2. /\ a \o b \in Seq(Nat) /\ Len(a \o b) = Len(a) + Len(b)
          /\ \A j \in 1 .. Len(a) + Len(b) :
                 (a \o b)[j] = IF j <= Len(a) THEN a[j] ELSE b[j - Len(a)]
      <4>1. b \in Seq(Nat)
        BY <2>1
      <4>2. QED  BY <4>1
    <3>3. QED  BY <2>1, <3>1, <3>2, Zenon
  <2>3. \A j \in 1 .. sz : d + j \in 1 .. d + sz /\ ~ (d + j <= d) /\ (d + j) - d = j
    OBVIOUS
  <2>4. \A j \in 1 .. d : j \in 1 .. d + sz /\ j <= d
    OBVIOUS
  <2>5. buf'.data = a \o b
    BY <1>7
  <2>6. \A j \in 1 .. d : (a \o b)[j] = buf.data[j]
    BY <2>2, <2>4
  <2>7. \A j \in 1 .. sz : (a \o b)[d + j] = k + 1
    BY <2>1, <2>2, <2>3, ZenonT(60)
  <2>8. QED  BY <2>2, <2>5, <2>6, <2>7, Zenon
<1>11. size' = s + sz
  BY <1>3, <1>10 DEF size
<1>12. Coded'
  <2> DEFINE H == buf'.header
             A == accepted'
  <2>1. ASSUME NEW i \in 1 .. k + 1
        PROVE  /\ H[i].sz = A[i]
               /\ H[i].offset = End(H, i - 1)
               /\ HeaderSz <= H[i].offset
               /\ H[i].offset + A[i] <= s + sz
               /\ \A j \in 1 .. A[i] : buf'.data[(H[i].offset - HeaderSz) + j] = i
    <3>1. CASE i \in 1 .. k
      <4>1. /\ buf.header[i].sz = accepted[i]
            /\ buf.header[i].offset = End(buf.header, i - 1)
            /\ HeaderSz <= buf.header[i].offset
            /\ buf.header[i].offset + accepted[i] <= s
            /\ \A j \in 1 .. accepted[i] :
                   buf.data[(buf.header[i].offset - HeaderSz) + j] = i
        BY <1>2, <3>1 DEF Coded
      <4>2. H[i] = buf.header[i] /\ A[i] = accepted[i] /\ accepted[i] \in Nat
            /\ buf.header[i] \in Entry
        BY <1>1, <1>2, <1>7, <1>8, <1>9, <3>1, ElementOfSeq
      <4>3. PICK o \in Nat : o = buf.header[i].offset
        <5>1. buf.header[i].offset \in 0 .. 2 ^ Bits - 1
          BY <4>2 DEF Entry
        <5>2. QED  BY <5>1, Width
      <4>4. End(H, i - 1) = End(buf.header, i - 1)
        <5>1. i - 1 # 0 => i - 1 \in 1 .. k
          BY <3>1
        <5>2. QED  BY <1>1, <1>7, <1>8, <5>1 DEF End
      <4>5. \A j \in 1 .. accepted[i] : (o - HeaderSz) + j \in 1 .. d
        BY <1>3, <4>1, <4>2, <4>3
      <4>6. \A j \in 1 .. accepted[i] : buf'.data[(o - HeaderSz) + j] = i
        BY <1>10, <4>1, <4>3, <4>5
      <4>7. o + accepted[i] <= s + sz
        BY <4>1, <4>2, <4>3
      <4> HIDE DEF H, A
      <4>8. QED  BY <4>1, <4>2, <4>3, <4>4, <4>6, <4>7
    <3>2. CASE i = k + 1
      <4>1. H[i] = e /\ A[i] = sz
        BY <1>7, <1>8, <1>9, <3>2
      <4>2. End(H, i - 1) = s
        <5>1. End(buf.header, k) = s
          BY <1>2 DEF Coded
        <5>2. k # 0 => k \in 1 .. k
          OBVIOUS
        <5>3. i - 1 = k
          BY <3>2
        <5>4. QED  BY <1>1, <1>7, <1>8, <5>1, <5>2, <5>3 DEF End
      <4>3. s - HeaderSz = d
        BY <1>3
      <4> HIDE DEF H, A
      <4>4. \A j \in 1 .. sz : buf'.data[(e.offset - HeaderSz) + j] = i
        BY <1>6, <1>10, <3>2, <4>3
      <4>5. HeaderSz <= s
        BY <1>3
      <4>6. QED  BY <1>6, <4>1, <4>2, <4>4, <4>5
    <3>3. QED  BY <3>1, <3>2
  <2>2. End(H, k + 1) = s + sz
    BY <1>6, <1>7, <1>8 DEF End
  <2> HIDE DEF H, A
  <2>3. H \in Seq(Entry) /\ Len(H) = Len(A)
    BY <1>7, <1>8, <1>9 DEF H, A
  <2>4. QED  BY <1>3, <1>9, <1>10, <1>11, <2>1, <2>2, <2>3 DEF Coded, H, A
<1>13. IsHeader(header')
  <2>1. \A i \in DOMAIN header' : header'[i] \in Entry
    BY <1>8, LenProperties, ElementOfSeq
  <2>2. QED  BY <1>3, <1>8, <2>1 DEF IsHeader
<1>14. /\ cap' = Grown(cap, s + sz) /\ wild' = FALSE
       /\ stale' \in BOOLEAN /\ (stale' <=> s + sz > cap)
  <2>1. stale = FALSE /\ wild = FALSE
    BY DEF TypeOK
  <2>2. cap' = Grown(cap, size + sz)
    BY DEF DoAppend
  <2>3. (stale' <=> size + sz > cap) /\ stale' \in BOOLEAN
    BY <2>1, Zenon DEF DoAppend
  <2>4. wild' = FALSE
    BY <2>1, Zenon DEF DoAppend
  <2>5. QED  BY <1>2, <2>2, <2>3, <2>4
<1>15. cap' \in HeaderSz .. 2 * MAXSZ /\ s + sz <= cap' /\ cap <= cap'
  <2>1. cap \in HeaderSz .. 2 * MAXSZ
    BY DEF TypeOK
  <2>2. QED  BY <1>3, <1>14, <2>1 DEF Grown, Max2
<1>16. QED  BY <1>2, <1>7, <1>9, <1>11, <1>12, <1>13, <1>14, <1>15

-----------------------------------------------------------------------------
(* The constructors.                                                       *)

(* An empty string is coded.                                               *)
LEMMA EmptyIsCoded ==
  /\ Empty.header = <<>> /\ Empty.data = <<>>
  /\ <<>> \in Seq(Nat) /\ <<>> \in Seq(Entry) /\ Len(<<>>) = 0
  /\ IsHeader(<<>>)
<1>1. <<>> \in Seq(Nat) /\ <<>> \in Seq(Entry) /\ Len(<<>>) = 0
  BY EmptySeq
<1>2. IsHeader(<<>>)
  BY <1>1, Sizes DEF IsHeader
<1>3. QED  BY <1>1, <1>2 DEF Empty

(* Init establishes the invariant.                                         *)
LEMMA InitInd == Init => IndInv
<1> SUFFICES ASSUME Init PROVE IndInv
  OBVIOUS
<1> USE Sizes, EmptyIsCoded
<1>1. buf.header = <<>> /\ buf.data = <<>> /\ header = <<>> /\ accepted = <<>> /\ todo = <<>>
  BY DEF Init
<1>2. size = HeaderSz
  BY <1>1 DEF size
<1>3. Coded
  BY <1>1, <1>2 DEF Coded, End
<1>4. TypeOK
  <2>1. cap = HeaderSz /\ cap \in HeaderSz .. 2 * MAXSZ
    BY DEF Init
  <2>2. room \in 0 .. MAXSZ
    BY DEF Init
  <2>3. user \in Users \cup {"none"} /\ stale \in BOOLEAN /\ wild \in BOOLEAN
        /\ aborted \in BOOLEAN
    BY DEF Init
  <2>4. Len(todo) <= 2 /\ \A i \in DOMAIN todo : todo[i] \in Nat
    BY <1>1
  <2>5. IsHeader(header) /\ IsHeader(buf.header) /\ header = buf.header
    BY <1>1
  <2>6. size <= cap
    BY <1>2, <2>1
  <2>7. QED  BY <2>1, <2>2, <2>3, <2>4, <2>5, <2>6 DEF TypeOK
<1>5. QED  BY <1>1, <1>3, <1>4 DEF Init, IndInv, ByUser, ByReply, ByCall

(* What a constructor leaves: an empty string with the room it reserved,   *)
(* and twice the header if that is more than the header.                   *)
LEMMA NewFacts ==
  ASSUME NEW u \in Users, NEW sizes, NEW bytes \in 0 .. MAXSZ, NEW r \in HeaderSz .. MAXSZ,
         New(u, sizes, bytes, r), Len(sizes) <= 2, \A i \in DOMAIN sizes : sizes[i] \in Nat
  PROVE  /\ TypeOK' /\ Coded' /\ ~wild'
         /\ user' = u /\ todo' = sizes /\ room' = bytes
         /\ accepted' = <<>> /\ size' = HeaderSz /\ ~stale' /\ ~aborted'
         /\ r <= cap' /\ (r > HeaderSz => 2 * HeaderSz <= cap')
<1> USE Sizes, EmptyIsCoded
<1>1. /\ user' = u /\ todo' = sizes /\ room' = bytes
      /\ buf' = Empty /\ header' = <<>>
      /\ cap' = Grown(HeaderSz, Min2(Max2(r, HeaderSz), MAXSZ))
      /\ stale' = FALSE /\ wild' = FALSE /\ aborted' = FALSE
      /\ accepted' = <<>>
  BY DEF New
<1>2. buf'.header = <<>> /\ buf'.data = <<>>
  BY <1>1
<1>3. size' = HeaderSz
  BY <1>2 DEF size
<1>4. Min2(Max2(r, HeaderSz), MAXSZ) = r
  BY DEF Min2, Max2
<1>5. /\ r <= cap' /\ cap' \in HeaderSz .. 2 * MAXSZ
      /\ r > HeaderSz => 2 * HeaderSz <= cap'
  <2>1. cap' = IF r > HeaderSz THEN (IF r > 2 * HeaderSz THEN r ELSE 2 * HeaderSz) ELSE HeaderSz
    BY <1>1, <1>4 DEF Grown, Max2
  <2>2. QED  BY <2>1
<1>6. Coded'
  <2>1. accepted' = <<>>
    BY <1>1
  <2>2. QED  BY <1>2, <1>3, <2>1 DEF Coded, End
<1>7. TypeOK'
  <2>1. user' \in Users \cup {"none"} /\ stale' \in BOOLEAN /\ wild' \in BOOLEAN
        /\ aborted' \in BOOLEAN
    BY <1>1
  <2>2. Len(todo') <= 2 /\ (\A i \in DOMAIN todo' : todo'[i] \in Nat) /\ room' \in 0 .. MAXSZ
    BY <1>1
  <2>3. IsHeader(header') /\ IsHeader(buf'.header) /\ header' = buf'.header
    BY <1>1, <1>2
  <2>4. size' <= cap'
    BY <1>3, <1>5
  <2>5. QED  BY <1>5, <2>1, <2>2, <2>3, <2>4 DEF TypeOK, IsHeader, Entry
<1>8. QED  BY <1>1, <1>3, <1>5, <1>6, <1>7

(* The default constructor reserves all a string may have.                 *)
LEMMA DefaultInd ==
  ASSUME NewDefault
  PROVE  IndInv'
<1> USE Sizes, EmptyIsCoded
<1>1. New("user", <<>>, 0, MAXSZ) /\ "user" \in Users
  BY DEF NewDefault, New
<1>2. /\ TypeOK' /\ Coded' /\ ~wild'
      /\ user' = "user" /\ todo' = <<>> /\ ~stale' /\ MAXSZ <= cap'
  <2>1. 0 \in 0 .. MAXSZ /\ MAXSZ \in HeaderSz .. MAXSZ
        /\ Len(<<>>) <= 2 /\ \A i \in DOMAIN <<>> : <<>>[i] \in Nat
    OBVIOUS
  <2>2. QED  BY <1>1, <2>1, NewFacts
<1>3. QED  BY <1>2 DEF IndInv, ByUser, ByReply, ByCall

(* create_exact reserves the header and what the user announces.           *)
LEMMA ExactInd ==
  ASSUME NEW sz \in Nat, NewExact(sz)
  PROVE  IndInv'
<1> USE Sizes, EmptyIsCoded
<1>1. New("exact", <<>>, sz, sz + HeaderSz) /\ "exact" \in Users /\ sz + HeaderSz <= MAXSZ
  BY DEF NewExact, create_exact, New
<1>2. /\ TypeOK' /\ Coded' /\ ~wild'
      /\ user' = "exact" /\ todo' = <<>> /\ room' = sz /\ ~stale'
      /\ size' = HeaderSz /\ sz + HeaderSz <= cap'
  <2>1. sz \in 0 .. MAXSZ /\ sz + HeaderSz \in HeaderSz .. MAXSZ
        /\ Len(<<>>) <= 2 /\ \A i \in DOMAIN <<>> : <<>>[i] \in Nat
    BY <1>1
  <2>2. QED  BY <1>1, <2>1, NewFacts
<1>3. ByUser'
  BY <1>2 DEF ByUser
<1>4. QED  BY <1>2, <1>3 DEF IndInv, ByReply, ByCall

(* A call reserves its parameter and an id, which is less than it appends, *)
(* but more than the header.                                               *)
LEMMA CallInd ==
  ASSUME NEW p \in Nat, call(p)
  PROVE  IndInv'
<1> USE Sizes, EmptyIsCoded
<1>1. /\ New("call", <<RpcHeaderSz, p>>, IdSz + p, (IdSz + p) + HeaderSz)
      /\ "call" \in Users /\ (IdSz + p) + HeaderSz <= MAXSZ
  BY DEF call, create_exact, New
<1> PICK r \in Nat : r = IdSz + p
  OBVIOUS
<1>2. /\ TypeOK' /\ Coded' /\ ~wild'
      /\ user' = "call" /\ todo' = <<RpcHeaderSz, p>> /\ room' = r
      /\ accepted' = <<>> /\ size' = HeaderSz /\ ~stale' /\ ~aborted'
      /\ 2 * HeaderSz <= cap'
  <2>1. /\ r \in 0 .. MAXSZ /\ r + HeaderSz \in HeaderSz .. MAXSZ /\ r + HeaderSz > HeaderSz
        /\ Len(<<RpcHeaderSz, p>>) <= 2
        /\ \A i \in DOMAIN <<RpcHeaderSz, p>> : <<RpcHeaderSz, p>>[i] \in Nat
    BY <1>1
  <2>2. New("call", <<RpcHeaderSz, p>>, r, r + HeaderSz) /\ "call" \in Users
    BY <1>1
  <2>3. /\ TypeOK' /\ Coded' /\ ~wild'
        /\ user' = "call" /\ todo' = <<RpcHeaderSz, p>> /\ room' = r
        /\ accepted' = <<>> /\ size' = HeaderSz /\ ~stale' /\ ~aborted'
        /\ r + HeaderSz > HeaderSz => 2 * HeaderSz <= cap'
    <3> PICK v \in Nat : v = r + HeaderSz
      OBVIOUS
    <3> PICK todos : todos = <<RpcHeaderSz, p>>
      OBVIOUS
    <3>1. /\ New("call", todos, r, v) /\ "call" \in Users
          /\ r \in 0 .. MAXSZ /\ v \in HeaderSz .. MAXSZ
          /\ Len(todos) <= 2 /\ \A i \in DOMAIN todos : todos[i] \in Nat
      BY <2>1, <2>2
    <3> HIDE Sizes, EmptyIsCoded
    <3>2. /\ TypeOK' /\ Coded' /\ ~wild'
          /\ user' = "call" /\ todo' = todos /\ room' = r
          /\ accepted' = <<>> /\ size' = HeaderSz /\ ~stale' /\ ~aborted'
          /\ v > HeaderSz => 2 * HeaderSz <= cap'
      BY <3>1, NewFacts
    <3>3. QED  BY <3>2
  <2>4. QED  BY <2>1, <2>3
<1>3. room' - IdSz = p /\ IdSz <= room'
  BY <1>2
<1>4. ByCall'
  BY <1>2, <1>3 DEF ByCall, CallWithTwo
<1>5. QED  BY <1>2, <1>4 DEF IndInv, ByUser, ByReply

(* A reply reserves all it appends.                                        *)
LEMMA ReplyInd ==
  ASSUME NEW r \in Nat, reply(r)
  PROVE  IndInv'
<1> USE Sizes, EmptyIsCoded
<1>1. /\ New("reply", <<ReplyHeaderSz, r>>, ReplyHeaderSz + r, (ReplyHeaderSz + r) + HeaderSz)
      /\ "reply" \in Users /\ (ReplyHeaderSz + r) + HeaderSz <= MAXSZ
  BY DEF reply, create_exact, New
<1> PICK n \in Nat : n = ReplyHeaderSz + r
  OBVIOUS
<1>2. /\ TypeOK' /\ Coded' /\ ~wild'
      /\ user' = "reply" /\ todo' = <<ReplyHeaderSz, r>>
      /\ accepted' = <<>> /\ size' = HeaderSz /\ ~stale' /\ ~aborted'
      /\ n + HeaderSz <= cap'
  <2>1. /\ n \in 0 .. MAXSZ /\ n + HeaderSz \in HeaderSz .. MAXSZ
        /\ Len(<<ReplyHeaderSz, r>>) <= 2
        /\ \A i \in DOMAIN <<ReplyHeaderSz, r>> : <<ReplyHeaderSz, r>>[i] \in Nat
    BY <1>1
  <2>2. New("reply", <<ReplyHeaderSz, r>>, n, n + HeaderSz)
    BY <1>1
  <2>3. QED  BY <1>1, <2>1, <2>2, NewFacts
<1>3. /\ todo' = <<ReplyHeaderSz, todo'[2]>> /\ todo'[2] = r
      /\ size' + (ReplyHeaderSz + r) <= cap' /\ size' + (ReplyHeaderSz + r) <= MAXSZ
  BY <1>1, <1>2
<1>4. ByReply'
  BY <1>2, <1>3 DEF ByReply, ReplyWithTwo
<1>5. QED  BY <1>2, <1>4 DEF IndInv, ByUser, ByCall

-----------------------------------------------------------------------------
(* The appends of the users.                                               *)

(* A user's append leaves room for what the user may still append.         *)
LEMMA UserAppendInd ==
  ASSUME IndInv, NEW sz \in Nat, UserAppend(sz)
  PROVE  IndInv'
<1> USE Sizes
<1>1. /\ user \in {"user", "exact"} /\ (user = "exact" => sz <= room)
      /\ room' = IF user = "exact" THEN room - sz ELSE room
      /\ Appends(sz) /\ DoAppend(sz)
      /\ UNCHANGED <<user, todo, aborted>>
  BY DEF UserAppend
<1>2. /\ TypeOK /\ Coded /\ ~wild /\ ~stale /\ todo = <<>>
      /\ user = "user" => MAXSZ <= cap
      /\ user = "exact" => size + room <= cap
  BY <1>1 DEF IndInv, ByUser
<1>3. /\ Coded' /\ size' = size + sz
      /\ IsHeader(header') /\ buf'.header = header'
      /\ cap' \in HeaderSz .. 2 * MAXSZ /\ size' <= cap' /\ cap <= cap'
      /\ stale' \in BOOLEAN /\ (stale' <=> size + sz > cap) /\ wild' = FALSE
  BY <1>1, <1>2, Appending
<1>4. PICK s \in Nat, c \in Nat, r \in Nat : s = size /\ c = cap /\ r = room
  BY <1>2 DEF size, Coded, TypeOK
<1>5. s + sz <= MAXSZ
  BY <1>1, <1>4 DEF Appends, Fits
<1>6. room' \in 0 .. MAXSZ
  BY <1>1, <1>2, <1>4 DEF TypeOK
<1>7. TypeOK'
  <2>1. user' \in Users \cup {"none"} /\ Len(todo') <= 2 /\ aborted' \in BOOLEAN
        /\ \A i \in DOMAIN todo' : todo'[i] \in Nat
    BY <1>1, <1>2 DEF TypeOK
  <2>2. QED  BY <1>3, <1>6, <2>1 DEF TypeOK, IsHeader, Entry
<1>8. ~stale'
  <2>1. CASE user = "user"
    <3>1. s + sz <= c
      BY <1>2, <1>4, <1>5, <2>1
    <3>2. QED  BY <1>3, <1>4, <3>1
  <2>2. CASE user = "exact"
    <3>1. s + sz <= c
      BY <1>1, <1>2, <1>4, <2>2
    <3>2. QED  BY <1>3, <1>4, <3>1
  <2>3. QED  BY <1>1, <2>1, <2>2
<1>9. ByUser'
  <2>1. user' = "user" => MAXSZ <= cap'
    BY <1>1, <1>2, <1>3, <1>4
  <2>2. ASSUME user' = "exact" PROVE size' + room' <= cap'
    <3>1. size' = s + sz /\ room' = r - sz /\ s + r <= c /\ c <= cap' /\ cap' \in Nat
      BY <1>1, <1>2, <1>3, <1>4, <2>2
    <3>2. QED  BY <3>1
  <2>3. QED  BY <1>1, <1>2, <1>8, <2>1, <2>2 DEF ByUser
<1>10. QED  BY <1>1, <1>3, <1>7, <1>9 DEF IndInv, ByReply, ByCall

-----------------------------------------------------------------------------
(* The appends of SRpc::call and of the reply.                             *)

(* The two messages of an RPC fit the entries of a header.                 *)
LEMMA EntriesSuffice ==
  ASSUME TypeOK, Coded, ~stale, NEW sz \in Nat, Len(accepted) < 2, size + sz <= MAXSZ
  PROVE  Appends(sz)
<1>1. Len(header) = Len(accepted) /\ Len(accepted) \in Nat
  BY DEF TypeOK, Coded
<1>2. QED  BY <1>1, Sizes DEF Appends, Fits, has_free_entry

(* What RpcAppend does with the first of its messages when there is room.  *)
LEMMA RpcTakes ==
  ASSUME IndInv, RpcAppend, ~stale, ~aborted, NEW sz \in Nat, sz = todo[1], Appends(sz)
  PROVE  /\ TypeOK' /\ Coded' /\ ~wild' /\ ~aborted'
         /\ user' = user /\ room' = room /\ todo' = Tail(todo)
         /\ size' = size + sz /\ Len(accepted') = Len(accepted) + 1
         /\ cap <= cap' /\ (stale' <=> size + sz > cap)
<1> USE Sizes
<1>1. /\ todo # <<>> /\ todo' = Tail(todo) /\ UNCHANGED <<user, room>>
      /\ DoAppend(sz) /\ UNCHANGED aborted
  BY DEF RpcAppend
<1>2. TypeOK /\ Coded /\ ~wild
  BY DEF IndInv
<1>3. /\ Coded' /\ size' = size + sz /\ Len(accepted') = Len(accepted) + 1
      /\ IsHeader(header') /\ buf'.header = header'
      /\ cap' \in HeaderSz .. 2 * MAXSZ /\ size' <= cap' /\ cap <= cap'
      /\ stale' \in BOOLEAN /\ (stale' <=> size + sz > cap) /\ wild' = FALSE
  BY <1>1, <1>2, Appending
<1>4. Len(todo') <= 2 /\ \A i \in DOMAIN todo' : todo'[i] \in Nat
  BY <1>1, <1>2 DEF TypeOK
<1>5. TypeOK'
  <2>1. user' \in Users \cup {"none"} /\ room' \in 0 .. MAXSZ /\ aborted' \in BOOLEAN
    BY <1>1, <1>2 DEF TypeOK
  <2>2. QED  BY <1>3, <1>4, <2>1 DEF TypeOK, IsHeader, Entry
<1>6. QED  BY <1>1, <1>3, <1>5

(* The appends of a reply succeed.                                         *)
LEMMA ReplyAppendInd ==
  ASSUME IndInv, RpcAppend, user = "reply"
  PROVE  IndInv'
<1> USE Sizes
<1>1. todo # <<>>
  BY DEF RpcAppend
<1>2. TypeOK /\ Coded /\ ~stale /\ ~aborted /\ (ReplyWithTwo \/ ReplyWithOne)
  BY <1>1 DEF IndInv, ByReply
<1>3. PICK s \in Nat, c \in Nat : s = size /\ c = cap
  BY <1>2 DEF size, Coded, TypeOK
<1>4. CASE ReplyWithTwo
  <2>1. PICK p \in Nat : p = todo[2] /\ todo = <<ReplyHeaderSz, p>>
    BY <1>4 DEF ReplyWithTwo
  <2>2. /\ Len(accepted) = 0 /\ ReplyHeaderSz = todo[1] /\ Tail(todo) = <<p>>
        /\ s + (ReplyHeaderSz + p) <= c /\ s + (ReplyHeaderSz + p) <= MAXSZ
    BY <1>3, <1>4, <2>1 DEF ReplyWithTwo
  <2>3. s + ReplyHeaderSz <= c /\ s + ReplyHeaderSz <= MAXSZ
    BY <2>2
  <2>4. Appends(ReplyHeaderSz)
    BY <1>2, <1>3, <2>2, <2>3, EntriesSuffice
  <2>5. /\ TypeOK' /\ Coded' /\ ~wild' /\ ~aborted'
        /\ user' = user /\ todo' = <<p>>
        /\ size' = s + ReplyHeaderSz /\ Len(accepted') = 1
        /\ c <= cap' /\ (stale' <=> s + ReplyHeaderSz > c)
    <3>1. /\ TypeOK' /\ Coded' /\ ~wild' /\ ~aborted'
          /\ user' = user /\ todo' = Tail(todo)
          /\ size' = size + ReplyHeaderSz /\ Len(accepted') = Len(accepted) + 1
          /\ cap <= cap' /\ (stale' <=> size + ReplyHeaderSz > cap)
      BY <1>2, <2>2, <2>4, RpcTakes
    <3>2. Len(accepted) + 1 = 1
      BY <2>2
    <3>3. QED  BY <1>3, <2>2, <3>1, <3>2
  <2>6. cap' \in Nat
    BY <2>5 DEF TypeOK
  <2>7. todo' = <<todo'[1]>> /\ todo'[1] = p
    BY <2>5
  <2>8. size' + p <= cap' /\ size' + p <= MAXSZ
    <3>1. PICK y \in Nat, z \in Nat : y = cap' /\ z = size'
      BY <2>5, <2>6
    <3>2. c <= y /\ z = s + ReplyHeaderSz
      BY <2>5, <3>1
    <3>3. z + p = s + (ReplyHeaderSz + p)
      BY <3>2
    <3>4. z + p <= c
      BY <2>2, <3>3
    <3>5. z + p <= y /\ z + p <= MAXSZ
      <4>1. z + p <= MAXSZ
        BY <2>2, <3>3
      <4>2. c <= y
        BY <3>2
      <4> PICK x \in Nat : x = z + p
        OBVIOUS
      <4>3. x <= c
        BY <3>4
      <4>4. x <= y
        BY <4>2, <4>3
      <4>5. QED  BY <4>1, <4>4
    <3>6. QED  BY <3>1, <3>5
  <2>9. ReplyWithOne' /\ ~stale'
    BY <2>3, <2>5, <2>7, <2>8 DEF ReplyWithOne
  <2>10. QED  BY <2>5, <2>9 DEF IndInv, ByUser, ByReply, ByCall
<1>5. CASE ReplyWithOne
  <2>1. PICK p \in Nat : p = todo[1] /\ todo = <<p>>
    BY <1>5 DEF ReplyWithOne
  <2>2. Len(accepted) = 1 /\ Tail(todo) = <<>> /\ s + p <= c /\ s + p <= MAXSZ
    BY <1>3, <1>5, <2>1 DEF ReplyWithOne
  <2>3. Appends(p)
    BY <1>2, <1>3, <2>2, EntriesSuffice
  <2>4. /\ TypeOK' /\ Coded' /\ ~wild' /\ ~aborted'
        /\ user' = user /\ todo' = <<>>
        /\ Len(accepted') = 2 /\ (stale' <=> s + p > c)
    BY <1>2, <1>3, <2>1, <2>2, <2>3, RpcTakes
  <2>5. ~stale'
    BY <2>2, <2>4
  <2>6. QED  BY <2>4, <2>5 DEF IndInv, ByUser, ByReply, ByCall
<1>6. QED  BY <1>2, <1>4, <1>5

(* The first append of a call fits in twice the header, the second is the  *)
(* last, and it is refused exactly when the string would be too long.      *)
LEMMA CallAppendInd ==
  ASSUME IndInv, RpcAppend, user = "call"
  PROVE  IndInv'
<1> USE Sizes
<1>1. todo # <<>>
  BY DEF RpcAppend
<1>2. /\ TypeOK /\ Coded /\ ~wild /\ ~stale /\ ~aborted /\ IdSz <= room
      /\ CallWithTwo \/ CallWithOne
  BY <1>1 DEF IndInv, ByCall, CallWithTwo, CallWithOne, CallWithNone
<1>3. PICK s \in Nat, c \in Nat, p \in Nat : s = size /\ c = cap /\ p = room - IdSz
  BY <1>2 DEF size, Coded, TypeOK
<1>4. CASE CallWithTwo
  <2>1. /\ todo[1] = RpcHeaderSz /\ Tail(todo) = <<p>> /\ Len(accepted) = 0
        /\ s = HeaderSz /\ 2 * HeaderSz <= c
    BY <1>3, <1>4 DEF CallWithTwo
  <2>2. Appends(RpcHeaderSz)
    BY <1>2, <1>3, <2>1, EntriesSuffice
  <2>3. /\ TypeOK' /\ Coded' /\ ~wild' /\ ~aborted'
        /\ user' = user /\ room' = room /\ todo' = <<p>>
        /\ size' = s + RpcHeaderSz /\ Len(accepted') = 1
        /\ stale' <=> s + RpcHeaderSz > c
    <3>1. /\ TypeOK' /\ Coded' /\ ~wild' /\ ~aborted'
          /\ user' = user /\ room' = room /\ todo' = Tail(todo)
          /\ size' = size + RpcHeaderSz /\ Len(accepted') = Len(accepted) + 1
          /\ stale' <=> size + RpcHeaderSz > cap
      BY <1>2, <2>1, <2>2, RpcTakes
    <3>2. Len(accepted) + 1 = 1
      BY <2>1
    <3>3. QED  BY <1>3, <2>1, <3>1, <3>2
  <2>4. ~stale'
    BY <2>1, <2>3
  <2>5. CallWithOne' /\ IdSz <= room'
    BY <1>2, <1>3, <2>1, <2>3, <2>4 DEF CallWithOne
  <2>6. QED  BY <2>3, <2>5 DEF IndInv, ByUser, ByReply, ByCall
<1>5. CASE CallWithOne
  <2>1. /\ todo[1] = p /\ Tail(todo) = <<>> /\ Len(accepted) = 1
        /\ s = HeaderSz + RpcHeaderSz
    BY <1>3, <1>5 DEF CallWithOne
  <2>2. CASE Appends(p)
    <3>1. /\ TypeOK' /\ Coded' /\ ~wild' /\ ~aborted'
          /\ user' = user /\ room' = room /\ todo' = <<>>
      BY <1>2, <2>1, <2>2, RpcTakes
    <3>2. ~ (HeaderSz + RpcHeaderSz + p > MAXSZ)
      BY <1>3, <2>1, <2>2 DEF Appends, Fits
    <3>3. CallWithNone' /\ IdSz <= room'
      BY <1>2, <1>3, <3>1, <3>2 DEF CallWithNone
    <3>4. QED  BY <3>1, <3>3 DEF IndInv, ByUser, ByReply, ByCall
  <2>3. CASE ~Appends(p)
    <3>1. /\ todo' = <<>> /\ aborted' = TRUE
          /\ UNCHANGED <<user, room, buf, header, cap, stale, wild, accepted>>
      <4>1. Head(todo) = p
        BY <1>1, <2>1
      <4>2. aborted' = (user = "call") /\ todo' = Tail(todo)
            /\ UNCHANGED <<user, room, buf, header, cap, stale, wild, accepted>>
        BY <2>3, <4>1 DEF RpcAppend
      <4>3. QED  BY <2>1, <4>2
    <3>2. HeaderSz + RpcHeaderSz + p > MAXSZ
      <4>1. ~ (s + p <= MAXSZ)
        BY <1>2, <1>3, <2>1, <2>3, EntriesSuffice
      <4>2. QED  BY <2>1, <4>1
    <3>3. size' = size
      BY <3>1 DEF size
    <3>4. Coded' /\ ~wild'
      BY <1>2, <3>1, <3>3 DEF Coded, End, Entry
    <3>5. TypeOK'
      BY <1>2, <3>1, <3>3 DEF TypeOK, IsHeader, Entry
    <3>6. CallWithNone' /\ IdSz <= room'
      BY <1>2, <1>3, <3>1, <3>2 DEF CallWithNone
    <3>7. user' = "call"
      BY <3>1
    <3>8. QED  BY <3>4, <3>5, <3>6, <3>7 DEF IndInv, ByUser, ByReply, ByCall
  <2>4. QED  BY <2>2, <2>3
<1>6. QED  BY <1>2, <1>4, <1>5

-----------------------------------------------------------------------------
(* No step breaks the invariant.                                           *)
LEMMA NextInd ==
  ASSUME IndInv, [Next]_vars
  PROVE  IndInv'
<1>1. CASE RpcAppend
  <2>1. user \in {"call", "reply"}
    <3>1. todo # <<>>
      BY <1>1 DEF RpcAppend
    <3>2. user \in {"user", "exact", "call", "reply", "none"}
      BY UsersAssumption DEF IndInv, TypeOK
    <3>3. QED  BY <3>1, <3>2 DEF IndInv, ByUser
  <2>2. QED  BY <1>1, <2>1, CallAppendInd, ReplyAppendInd
<1>2. CASE Done \/ UNCHANGED vars
  <2>1. /\ UNCHANGED <<todo, room, buf, header, cap, stale, wild, accepted, aborted>>
        /\ user' = user \/ (user' = "none" /\ todo = <<>>)
    BY <1>2 DEF Done, vars
  <2>2. size' = size
    BY <2>1 DEF size
  <2>3. Coded' /\ ~wild'
    BY <2>1, <2>2 DEF IndInv, Coded, End, Entry
  <2>4. TypeOK'
    BY <2>1, <2>2 DEF IndInv, TypeOK, IsHeader, Entry
  <2>5. user' = "none" => todo' = <<>>
    BY <2>1 DEF IndInv
  <2>6. ByUser' /\ ByReply' /\ ByCall'
    <3>1. CASE user' = user
      BY <2>1, <2>2, <3>1 DEF IndInv, ByUser, ByReply, ReplyWithTwo, ReplyWithOne,
                              ByCall, CallWithTwo, CallWithOne, CallWithNone
    <3>2. CASE user' = "none"
      BY <3>2 DEF ByUser, ByReply, ByCall
    <3>3. QED  BY <2>1, <3>1, <3>2
  <2>7. QED  BY <2>3, <2>4, <2>5, <2>6 DEF IndInv
<1>3. CASE NewDefault \/ \E sz \in 0 .. MaxSz : NewExact(sz) \/ call(sz) \/ reply(sz)
                                                \/ UserAppend(sz)
  <2>1. \A sz \in 0 .. MaxSz : sz \in Nat
    BY Sizes
  <2>2. QED  BY <1>3, <2>1, DefaultInd, ExactInd, CallInd, ReplyInd, UserAppendInd
<1>4. QED  BY <1>1, <1>2, <1>3 DEF Next

(* The invariant holds in every state, for all the users there are.        *)
THEOREM IndCorrect == Spec => []IndInv
<1>1. IndInv /\ [Next]_vars => IndInv'
  BY NextInd
<1>2. QED  BY <1>1, InitInd, PTL DEF Spec

-----------------------------------------------------------------------------
(* The properties the runs check.                                          *)

(* An entry of a coded string selects the bytes of its message.            *)
LEMMA Selects ==
  ASSUME Coded, NEW i \in 1 .. Len(accepted)
  PROVE  SubSeq(buf.data, buf.header[i].offset - HeaderSz + 1,
                buf.header[i].offset - HeaderSz + buf.header[i].sz)
             = [j \in 1 .. accepted[i] |-> i]
<1> USE Sizes
<1>1. accepted[i] \in Nat /\ buf.header[i].offset \in Nat /\ Len(buf.data) \in Nat
  <2>1. accepted \in Seq(Nat) /\ buf.header \in Seq(Entry) /\ Len(buf.header) = Len(accepted)
    BY DEF Coded
  <2>2. buf.header[i] \in Entry
    BY <2>1, ElementOfSeq
  <2>3. accepted[i] \in Nat
    BY <2>1, ElementOfSeq
  <2>4. PICK w \in Nat : w = 2 ^ Bits
    BY Width
  <2>5. buf.header[i].offset \in 0 .. w - 1
    BY <2>2, <2>4 DEF Entry
  <2>6. Len(buf.data) \in Nat
    BY DEF Coded
  <2>7. QED  BY <2>3, <2>5, <2>6
<1>2. PICK o \in Nat, z \in Nat, d \in Seq(Nat) :
          o = buf.header[i].offset /\ z = accepted[i] /\ d = buf.data
  BY <1>1 DEF Coded
<1>3. /\ buf.header[i].sz = z /\ HeaderSz <= o /\ o + z <= HeaderSz + Len(d)
      /\ \A j \in 1 .. z : d[(o - HeaderSz) + j] = i
  BY <1>2 DEF Coded, size
<1> PICK a \in Nat : a = o - HeaderSz
  BY <1>3
<1>4. /\ a + z <= Len(d) /\ Len(d) \in Nat
      /\ \A j \in 1 .. z : d[a + j] = i
  <2>1. Len(d) \in Nat
    OBVIOUS
  <2>2. a + z <= Len(d)
    BY <1>3, <2>1
  <2>3. \A j \in 1 .. z : (o - HeaderSz) + j = a + j
    OBVIOUS
  <2>4. \A j \in 1 .. z : d[a + j] = i
    BY <1>3, <2>3
  <2>5. QED  BY <2>1, <2>2, <2>4
<1>5. SubSeq(d, a + 1, a + z) = [j \in 1 .. z |-> i]
  <2>1. \A j \in a + 1 .. a + z : j \in 1 .. Len(d) /\ d[j] \in Nat
    BY <1>4, ElementOfSeq
  <2>2. /\ SubSeq(d, a + 1, a + z) \in Seq(Nat)
        /\ Len(SubSeq(d, a + 1, a + z)) = z
        /\ \A j \in 1 .. z : SubSeq(d, a + 1, a + z)[j] = d[a + j]
    BY <1>4, <2>1
  <2> DEFINE m == [j \in 1 .. z |-> i]
  <2>3. m \in Seq(Nat) /\ Len(m) = z /\ \A j \in 1 .. z : m[j] = i
    OBVIOUS
  <2> HIDE DEF m
  <2>4. SubSeq(d, a + 1, a + z) = m
    <3> PICK b : b = SubSeq(d, a + 1, a + z)
      OBVIOUS
    <3>1. b \in Seq(Nat) /\ Len(b) = Len(m) /\ \A j \in 1 .. Len(b) : b[j] = m[j]
      <4>1. b \in Seq(Nat) /\ Len(b) = z /\ \A j \in 1 .. z : b[j] = d[a + j]
        BY <2>2
      <4>2. \A j \in 1 .. z : b[j] = m[j]
        BY <1>4, <2>3, <4>1
      <4>3. Len(b) = Len(m)
        BY <2>3, <4>1
      <4>4. QED  BY <4>1, <4>2, <4>3, Zenon
    <3>2. m \in Seq(Nat)
      BY <2>3
    <3>3. b = m
      BY <3>1, <3>2, SeqEqual
    <3>4. QED  BY <3>3
  <2>5. QED  BY <2>4 DEF m
<1>6. QED  BY <1>2, <1>3, <1>5

(* The invariant implies the encoding's properties.                        *)
LEMMA IndIsEncoding ==
  ASSUME IndInv
  PROVE  EncodingInv
<1> USE Sizes
<1>1. TypeOK /\ Coded /\ ~wild
  BY DEF IndInv
<1>2. PICK k \in Nat : k = Len(accepted) /\ Len(buf.header) = k
  BY <1>1 DEF Coded
<1>3. DOMAIN accepted = 1 .. k /\ DOMAIN buf.header = 1 .. k
  BY <1>1, <1>2 DEF Coded
<1>4. \A i \in 0 .. k : EndOffset(buf.header, i) = End(buf.header, i)
  <2> SUFFICES ASSUME NEW i \in 1 .. k
               PROVE  EndOffset(buf.header, i) = buf.header[i].offset + buf.header[i].sz
    BY DEF EndOffset, End
  <2>1. /\ buf.header[i].sz = accepted[i] /\ buf.header[i].offset + accepted[i] <= size
        /\ size <= MAXSZ /\ buf.header[i] \in Entry /\ accepted[i] \in Nat
    BY <1>1, <1>2, ElementOfSeq DEF Coded
  <2>2. PICK n \in Nat : n = buf.header[i].offset + buf.header[i].sz
    BY <2>1, Width DEF Entry
  <2>3. n <= MAXSZ
    BY <1>1, <2>1, <2>2 DEF Coded, size
  <2>4. QED  BY <2>2, <2>3, NoWrap DEF EndOffset
<1>5. RoundTrip
  <2>1. sanity_check(buf.header, size)
    <3>1. \A i \in 1 .. k : buf.header[i].offset = EndOffset(buf.header, i - 1)
      <4>1. \A i \in 1 .. k : i - 1 \in 0 .. k
        OBVIOUS
      <4>2. QED  BY <1>1, <1>2, <1>4, <4>1 DEF Coded
    <3>2. EndOffset(buf.header, k) <= size
      <4>1. EndOffset(buf.header, k) = size /\ size \in Nat
        BY <1>1, <1>2, <1>4 DEF Coded, size
      <4>2. QED  BY <4>1
    <3>3. k <= kMaxMultiMsg
      BY <1>1, <1>2 DEF TypeOK, IsHeader
    <3>4. QED  BY <1>2, <1>3, <3>1, <3>2, <3>3 DEF sanity_check
  <2>2. create_from(buf)
    BY <1>1, <2>1 DEF create_from, Coded, size
  <2>3. \A i \in 1 .. k : query_one(buf, i) = [j \in 1 .. accepted[i] |-> i]
    BY <1>1, <1>2, Selects DEF query_one
  <2>4. QED  BY <1>2, <1>3, <2>2, <2>3 DEF RoundTrip
<1>6. IterationIsSafe
  <2> SUFFICES ASSUME user \in {"user", "exact"}
               PROVE  ~stale /\ MsgsIter = [i \in DOMAIN accepted |-> [j \in 1 .. accepted[i] |-> i]]
    BY DEF IterationIsSafe
  <2>1. ~stale
    BY DEF IndInv, ByUser
  <2>2. header = buf.header
    BY <1>1, <2>1 DEF TypeOK
  <2>3. \A i \in 1 .. k : SubSeq(buf.data, header[i].offset - HeaderSz + 1,
                                 header[i].offset - HeaderSz + header[i].sz)
                              = [j \in 1 .. accepted[i] |-> i]
    BY <1>1, <1>2, <2>2, Selects
  <2>4. QED  BY <1>3, <2>1, <2>2, <2>3 DEF MsgsIter
<1>7. QED  BY <1>1, <1>5, <1>6 DEF EncodingInv, HeaderPointerIsValid

(* What append() accepted is read back, by a receiver and by MsgsIter, and *)
(* the header pointer is not used after the string has moved.              *)
THEOREM EncodingCorrect == Spec => []EncodingInv
<1>1. IndInv => EncodingInv
  BY IndIsEncoding
<1>2. QED  BY <1>1, IndCorrect, PTL

(* A reply never loses its payload, although nobody looks at the results   *)
(* of its appends.                                                         *)
THEOREM RepliesCorrect == Spec => []RepliesAreWhole
<1>1. IndInv => RepliesAreWhole
  BY DEF IndInv, ByReply, ReplyWithTwo, ReplyWithOne, RepliesAreWhole
<1>2. QED  BY <1>1, IndCorrect, PTL

(* SRpc::call aborts exactly for the parameters that create_exact lets     *)
(* through and that do not fit with the header of the call.                *)
THEOREM GapCorrect == Spec => []CallAbortsOnlyInGap
<1>1. IndInv => CallAbortsOnlyInGap
  BY DEF IndInv, ByCall, CallWithTwo, CallWithOne, CallWithNone, CallAbortsOnlyInGap
<1>2. QED  BY <1>1, IndCorrect, PTL
=============================================================================
