------------------------------ MODULE Doorbell ------------------------------
(***************************************************************************)
(* DoorbellHelper<N> (src/core/qps/doorbell_helper.hh): an array of send   *)
(* work requests linked into a chain, cut before it is posted and mended   *)
(* afterwards so that the helper can be used again.                        *)
(*                                                                         *)
(* Nothing in the repository uses the class.  Its user is taken from the   *)
(* example in its comment, with posts of a prefix (freeze_at and           *)
(* freeze_done_at) added; it may also forget to mend the chain, which      *)
(* "kept" records.  The NIC is external: it follows the pointers.          *)
(***************************************************************************)
EXTENDS Integers, Sequences

CONSTANTS
    N,      \* the number of entries
    MaxReq  \* bound: requests the user sets up

\* cur_idx is an i8; the static_assert looks at kNMaxDoorbell and not at N.
ASSUME SizeAssumption == N \in Nat \ {0} /\ N <= 128
ASSUME RequestAssumption == MaxReq \in Nat

Entries == 0 .. N - 1
PastEnd == N     \* &wrs[N]
Null == -1
Garbage == -1    \* what the NIC reads past the end, or in a ring

VARIABLES
    link,    \* wrs[i].next
    wr,      \* the request in each entry: its number, 0 before the first
    cur_idx,
    frozen,  \* the entry the user has cut the chain at, or Null
    todo,    \* the requests set up since the last clear()
    serial,  \* the number of requests set up so far
    kept,    \* the user has mended every cut before it went on
    posted   \* what the NIC has read, right after a post

helperVars == <<link, wr, cur_idx, frozen, todo, serial, kept, posted>>

size == cur_idx + 1
empty == size = 0
full == size = N

-----------------------------------------------------------------------------
HelperInit ==
    /\ link = [k \in Entries |-> IF k = N - 1 THEN 0 ELSE k + 1]
    /\ wr = [k \in Entries |-> 0]
    /\ cur_idx = -1
    /\ frozen = Null /\ todo = <<>> /\ serial = 0 /\ kept = TRUE /\ posted = <<>>

(* next() returns false when full; else the user fills the entry through   *)
(* cur_wr() and cur_sge().  next() does not look whether it is frozen.     *)
next ==
    /\ serial < MaxReq
    /\ IF full THEN UNCHANGED <<cur_idx, serial, wr, todo, frozen, kept>>
       ELSE /\ cur_idx' = cur_idx + 1
            /\ serial' = serial + 1
            /\ wr' = [wr EXCEPT ![cur_idx'] = serial']
            /\ todo' = Append(todo, serial')
            /\ kept' = (kept /\ frozen = Null)
            /\ frozen' = Null
    /\ posted' = <<>>
    /\ UNCHANGED link

freeze_at_Next(idx) == link' = [link EXCEPT ![(idx + 1) % N] = Null]
freeze_at(idx) == link' = [link EXCEPT ![idx] = Null]

(* freeze() cuts at the current entry, freeze_at(idx) at an earlier one.   *)
(* An earlier cut that is still there is forgotten.                        *)
Freeze ==
    /\ ~empty
    /\ \E idx \in 0 .. cur_idx :
          /\ freeze_at(idx)
          /\ frozen' = idx
          /\ kept' = (kept /\ frozen \in {Null, idx})
    /\ posted' = <<>>
    /\ UNCHANGED <<wr, cur_idx, todo, serial>>

(* The NIC starts at the first entry and follows the pointers to a null.   *)
Walk ==
    LET at[k \in 0 .. N + 1] ==
            IF k = 0 THEN 0
            ELSE IF at[k - 1] \in Entries THEN link[at[k - 1]] ELSE at[k - 1]
    IN  at

Read ==
    IF \E n \in 1 .. N : Walk[n] = Null
    THEN LET n == CHOOSE n \in 1 .. N :
                      Walk[n] = Null /\ \A l \in 1 .. n - 1 : Walk[l] # Null
         IN  [l \in 1 .. n |-> wr[Walk[l - 1]]]
    ELSE <<Garbage>>

post_send ==
    /\ frozen # Null
    /\ posted' = Read
    /\ UNCHANGED <<link, wr, cur_idx, frozen, todo, serial, kept>>

(* freeze_done() mends the current entry; at the last one it points past   *)
(* the array.                                                              *)
freeze_done_Self == link' = [link EXCEPT ![cur_idx] = cur_idx]
freeze_done == link' = [link EXCEPT ![cur_idx] = cur_idx + 1]

(* freeze_done_at(idx) mends any entry, and closes the ring at the last.   *)
freeze_done_at(idx) == link' = [link EXCEPT ![idx] = IF idx = N - 1 THEN 0 ELSE idx + 1]

Mend ==
    /\ frozen # Null
    /\ \/ frozen = cur_idx /\ freeze_done
       \/ freeze_done_at(frozen)
    /\ frozen' = Null
    /\ posted' = <<>>
    /\ UNCHANGED <<wr, cur_idx, todo, serial, kept>>

(* clear() mends the current entry only.                                   *)
clear_KeepsCut ==
    /\ ~empty
    /\ cur_idx' = -1
    /\ kept' = (kept /\ frozen \in {Null, cur_idx})
    /\ frozen' = Null /\ todo' = <<>> /\ posted' = <<>>
    /\ UNCHANGED <<link, wr, serial>>
clear ==
    /\ ~empty
    /\ freeze_done
    /\ cur_idx' = -1
    /\ kept' = (kept /\ frozen \in {Null, cur_idx})
    /\ frozen' = Null /\ todo' = <<>> /\ posted' = <<>>
    /\ UNCHANGED <<wr, serial>>

HelperNext == next \/ Freeze \/ post_send \/ Mend \/ clear

HelperSpec == HelperInit /\ [][HelperNext]_helperVars

-----------------------------------------------------------------------------
(* sanity_check_sz() follows N pointers; 0 for an empty helper, N + 1 for  *)
(* a chain that does not end.                                              *)
sanity_check_sz ==
    IF empty THEN 0
    ELSE IF \E n \in 1 .. N : Walk[n] = Null
    THEN CHOOSE n \in 1 .. N : Walk[n] = Null /\ \A l \in 1 .. n - 1 : Walk[l] # Null
    ELSE N + 1

HelperTypeOK ==
    /\ link \in [Entries -> -1 .. N]
    /\ wr \in [Entries -> 0 .. MaxReq]
    /\ cur_idx \in -1 .. N - 1
    /\ frozen \in -1 .. N - 1
    /\ serial \in 0 .. MaxReq
    /\ todo \in Seq(1 .. MaxReq)
    /\ kept \in BOOLEAN
    /\ posted \in Seq(-1 .. MaxReq)

(* What ibv_post_send reads is what has been set up since the last         *)
(* clear(), in order and up to the cut: no request of an earlier batch, no *)
(* entry past the array, however often the helper was filled and cleared.  *)
PostedIsWhole ==
    posted # <<>> /\ kept => posted = SubSeq(todo, 1, frozen + 1)

(* Even a user that forgets to mend a cut posts a beginning of its batch:  *)
(* the rest is lost silently, but nothing old is sent and no pointer past  *)
(* the array is followed.                                                  *)
PostedIsPrefix ==
    posted # <<>> => \E n \in 1 .. Len(todo) : posted = SubSeq(todo, 1, n)

(* A helper that is not cut can take a full batch again: every entry but   *)
(* the last leads to the next, and the last back or past the end.          *)
Mended ==
    kept /\ frozen = Null =>
        /\ \A k \in 0 .. N - 2 : link[k] = k + 1
        /\ link[N - 1] \in {0, PastEnd}

(* sanity_check_sz() is size() once the helper is frozen at its current    *)
(* entry, an invalid size while it is not, and the pointer past the end    *)
(* that freeze_done() leaves behind is never followed by it.               *)
SanityAgrees ==
    /\ kept /\ frozen = cur_idx => sanity_check_sz = size
    /\ kept /\ frozen = Null /\ ~empty => sanity_check_sz = N + 1
    /\ \A n \in 0 .. N - 1 : Walk[n] # PastEnd

(* The chain: mended entries lead to their successors, and sanity_check_sz *)
(* measures what was set up.                                               *)
ChainInv == HelperTypeOK /\ Mended /\ SanityAgrees
=============================================================================
