------------------------------ MODULE MultiMsg ------------------------------
(***************************************************************************)
(* MultiMsg (multi_msg.hh): several messages in one std::string, behind a  *)
(* header of 16-bit offsets and sizes, and the ways the library uses it:   *)
(* a MultiMsg filled by its user, SRpc::call and the reply of SRpcHandler. *)
(*                                                                         *)
(* The header is written through a raw pointer into the string, taken once *)
(* by the constructor.  A byte of a message is the number of the message.  *)
(***************************************************************************)
EXTENDS Naturals, Sequences

CONSTANTS
    Bits,          \* width of MsgEntry::offset and sz
    kMaxMultiMsg,  \* entries of a header
    MAXSZ,         \* the template parameter; kMaxMsgSz
    HeaderSz,      \* sizeof(MsgsHeader)
    IdSz,          \* sizeof(rpc_id_t)
    RpcHeaderSz,   \* sizeof(SRpcHeader)
    ReplyHeaderSz, \* sizeof(SReplyHeader)
    MaxSz,         \* bound: size of a message
    Users          \* who fills the MultiMsg

ASSUME SizeAssumption ==
    /\ {Bits, kMaxMultiMsg, MAXSZ, HeaderSz, IdSz, RpcHeaderSz, ReplyHeaderSz, MaxSz}
           \subseteq Nat \ {0}
    /\ HeaderSz < MAXSZ           \* the static_assert of MultiMsg
    /\ IdSz < RpcHeaderSz         \* the id is a field of the header
    /\ RpcHeaderSz <= HeaderSz    \* two integers, and kMaxMultiMsg entries
    /\ HeaderSz + RpcHeaderSz <= MAXSZ /\ HeaderSz + ReplyHeaderSz <= MAXSZ
    /\ kMaxMultiMsg >= 2          \* a call and a reply have two messages
ASSUME U16Assumption == MAXSZ < 2 ^ Bits \* "MaxMsgSz supported is" the largest u16
ASSUME UsersAssumption == Users \subseteq {"user", "exact", "call", "reply"}

VARIABLES
    user,     \* who fills the current MultiMsg, "none" between two of them
    todo,     \* the sizes "call" and "reply" have still to append
    room,     \* the bytes announced to create_exact, less those "exact" appended
    buf,      \* the string: the header in it and the bytes after it
    header,   \* the header the pointer points at; buf's, unless stale
    cap,      \* the string's capacity
    stale,    \* the string was reallocated after the pointer was taken
    accepted, \* the sizes append() returned true for
    wild,     \* a header was written through a stale pointer
    aborted   \* an RDMA_ASSERT(append()) of SRpc::call failed

vars == <<user, todo, room, buf, header, cap, stale, accepted, wild, aborted>>

Min2(a, b) == IF a < b THEN a ELSE b
Max2(a, b) == IF a > b THEN a ELSE b

size == HeaderSz + Len(buf.data)

-----------------------------------------------------------------------------
(* std::string: a larger string has at least twice the capacity.           *)
Grown(old, n) == IF n > old THEN Max2(n, 2 * old) ELSE old

(* MsgsHeader: the sequence of its used entries.                           *)
has_free_entry(h) == Len(h) < kMaxMultiMsg

NextOffset(h) ==
    IF h = <<>> THEN HeaderSz ELSE (h[Len(h)].offset + h[Len(h)].sz) % 2 ^ Bits

append_one(h, sz) == Append(h, [offset |-> NextOffset(h), sz |-> sz % 2 ^ Bits])

EndOffset(h, i) == IF i = 0 THEN HeaderSz ELSE (h[i].offset + h[i].sz) % 2 ^ Bits
sanity_check(h, sz) ==
    /\ Len(h) <= kMaxMultiMsg
    /\ \A i \in DOMAIN h : h[i].offset = EndOffset(h, i - 1)
    /\ EndOffset(h, Len(h)) <= sz

(* The receiver's view of the string: create_from and query_one.           *)
create_from(b) == HeaderSz + Len(b.data) <= MAXSZ
                  /\ sanity_check(b.header, HeaderSz + Len(b.data))
query_one(b, i) ==
    LET e == b.header[i]
    IN  SubSeq(b.data, e.offset - HeaderSz + 1, e.offset - HeaderSz + e.sz)

(* MsgsIter over the MultiMsg itself: the entries are read through the raw *)
(* pointer, and the bytes in the string as it is now.                      *)
MsgsIter ==
    [i \in DOMAIN header |->
        SubSeq(buf.data, header[i].offset - HeaderSz + 1,
               header[i].offset - HeaderSz + header[i].sz)]

-----------------------------------------------------------------------------
Entry == [offset : 0 .. 2 ^ Bits - 1, sz : 0 .. 2 ^ Bits - 1]
IsHeader(h) == Len(h) \in 0 .. kMaxMultiMsg /\ \A i \in DOMAIN h : h[i] \in Entry

TypeOK ==
    /\ user \in Users \cup {"none"}
    /\ Len(todo) <= 2 /\ \A i \in DOMAIN todo : todo[i] \in Nat
    /\ room \in 0 .. MAXSZ
    /\ IsHeader(header) /\ IsHeader(buf.header)
    /\ cap \in HeaderSz .. 2 * MAXSZ
    /\ size <= cap
    /\ stale \in BOOLEAN /\ wild \in BOOLEAN /\ aborted \in BOOLEAN
    /\ ~stale => header = buf.header

Empty == [header |-> <<>>, data |-> <<>>]

Init ==
    /\ user = "none"
    /\ todo = <<>> /\ room = 0
    /\ buf = Empty /\ header = <<>>
    /\ cap = HeaderSz
    /\ stale = FALSE /\ wild = FALSE /\ aborted = FALSE
    /\ accepted = <<>>

(* The constructor: a string that holds the header, then init().           *)
New(u, sizes, bytes, reserve_sz) ==
    /\ user = "none"
    /\ u \in Users
    /\ user' = u /\ todo' = sizes /\ room' = bytes
    /\ buf' = Empty /\ header' = <<>>
    /\ cap' = Grown(HeaderSz, Min2(Max2(reserve_sz, HeaderSz), MAXSZ))
    /\ stale' = FALSE /\ wild' = FALSE /\ aborted' = FALSE
    /\ accepted' = <<>>

create_exact_NoHeader(u, sizes, sz) ==
    /\ sz + HeaderSz <= MAXSZ
    /\ New(u, sizes, sz, sz)
create_exact(u, sizes, sz) ==
    /\ sz + HeaderSz <= MAXSZ
    /\ New(u, sizes, sz, sz + HeaderSz)

(* The default constructor; create_exact by a user who knows the size;     *)
(* SRpc::call, which counts its header as an id; the reply of the server.  *)
NewDefault == New("user", <<>>, 0, MAXSZ)
NewExact(sz) == create_exact("exact", <<>>, sz)
call(p) == create_exact("call", <<RpcHeaderSz, p>>, IdSz + p)
reply_NoHeader(r) == create_exact("reply", <<ReplyHeaderSz, r>>, r)
reply(r) == create_exact("reply", <<ReplyHeaderSz, r>>, ReplyHeaderSz + r)

(* append(): the size is checked, then the header written, and the string  *)
(* grows after that.                                                       *)
Fits_Strict(sz) == size + sz < MAXSZ
Fits(sz) == size + sz <= MAXSZ

Appends(sz) == Fits(sz) /\ has_free_entry(header)

Bytes(sz) == [i \in 1 .. sz |-> Len(accepted) + 1]

DoAppend(sz) ==
    LET n == size + sz
    IN  /\ header' = append_one(header, sz)
        /\ buf' = [header |-> IF stale THEN buf.header ELSE header',
                   data   |-> buf.data \o Bytes(sz)]
        /\ cap' = Grown(cap, n)
        /\ stale' = (stale \/ n > cap)
        /\ wild' = (wild \/ stale)
        /\ accepted' = Append(accepted, sz)

(* A user appends what it likes, or what it announced to create_exact.  An *)
(* append() that returns false changes nothing.                            *)
UserAppend(sz) ==
    /\ user \in {"user", "exact"}
    /\ user = "exact" => sz <= room
    /\ room' = IF user = "exact" THEN room - sz ELSE room
    /\ Appends(sz)
    /\ DoAppend(sz)
    /\ UNCHANGED <<user, todo, aborted>>

(* The two appends of SRpc::call and of the reply.                         *)
RpcAppend ==
    /\ todo # <<>>
    /\ todo' = Tail(todo)
    /\ UNCHANGED <<user, room>>
    /\ \/ /\ Appends(Head(todo))
          /\ DoAppend(Head(todo))
          /\ UNCHANGED aborted
       \/ /\ ~Appends(Head(todo))
          /\ aborted' = (user = "call")
          /\ UNCHANGED <<buf, header, cap, stale, wild, accepted>>

(* The string is sent, or the MultiMsg dropped.                            *)
Done ==
    /\ user # "none"
    /\ todo = <<>> /\ ~aborted
    /\ user' = "none"
    /\ UNCHANGED <<todo, room, buf, header, cap, stale, wild, accepted, aborted>>

Next ==
    \/ NewDefault
    \/ \E sz \in 0 .. MaxSz : NewExact(sz) \/ call(sz) \/ reply(sz) \/ UserAppend(sz)
    \/ RpcAppend
    \/ Done

Spec == Init /\ [][Next]_vars

-----------------------------------------------------------------------------
(* Properties.                                                             *)

(* What was accepted can be read back: the receiver accepts the string and *)
(* finds every message, whole and in order, after every append.            *)
RoundTrip ==
    /\ create_from(buf)
    /\ Len(buf.header) = Len(accepted)
    /\ \A i \in DOMAIN accepted : query_one(buf, i) = [j \in 1 .. accepted[i] |-> i]

(* The header pointer of the constructor is never written through after    *)
(* append() has reallocated the string, although SRpc::call reserves less  *)
(* than it appends.                                                        *)
HeaderPointerIsValid == ~wild

(* A reply never loses its payload: the results of its appends are ignored.*)
RepliesAreWhole == user = "reply" /\ todo = <<>> => Len(accepted) = 2

(* A user may iterate over its MultiMsg at any time: the pointer it reads  *)
(* is valid, since both of its constructors reserve enough, and it finds   *)
(* what was appended.                                                      *)
IterationIsSafe ==
    user \in {"user", "exact"} =>
        ~stale /\ MsgsIter = [i \in DOMAIN accepted |-> [j \in 1 .. accepted[i] |-> i]]

(* create_exact takes the RPC header for an id: SRpc::call asserts, where  *)
(* it should return an error, exactly for the parameters it lets through   *)
(* that do not fit with the header.                                        *)
CallAbortsOnlyInGap ==
    user = "call" /\ todo = <<>> =>
        (aborted <=> HeaderSz + RpcHeaderSz + (room - IdSz) > MAXSZ)

(* The encoding: what append() accepted is read back by a receiver and     *)
(* through MsgsIter, and the raw pointer is not written through when stale.*)
EncodingInv == TypeOK /\ RoundTrip /\ HeaderPointerIsValid /\ IterationIsSafe
=============================================================================
