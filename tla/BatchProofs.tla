---------------------------- MODULE BatchProofs -----------------------------
(***************************************************************************)
(* Proofs about batches of send requests: the chain of a DoorbellHelper    *)
(* (module Doorbell, for helpers of every size) and the windows of the     *)
(* benchmark clients (module Window, for every command line, every depth   *)
(* of the send queue and any number of workers).  The two modules share no *)
(* state; the names that start with Helper are those of the first.         *)
(*                                                                         *)
(* Doorbell.  Where the walk of the NIC leads follows from the first entry *)
(* whose pointer is null.  Walk is a recursive function; no induction      *)
(* theorem can be instantiated with a predicate here, so the proof gives   *)
(* the function outright, shows that it solves the equation, and that the  *)
(* least place where Walk differed from it could not be one.               *)
(*                                                                         *)
(* Window.  That the send queue is wide enough follows from how far each   *)
(* loop is: the invariant says, for every program point, how many requests *)
(* are outstanding, where the signaled ones are among them, and what that  *)
(* has to do with the loop counters.                                       *)
(***************************************************************************)
EXTENDS Doorbell, Window, FiniteSetTheorems, SequenceTheorems,
        WellFoundedInduction, TLAPS

-----------------------------------------------------------------------------
(* Part 1: the chain of the doorbell helper.                               *)

(* Induction over the naturals, stated for sets: each one that is not      *)
(* empty has a least element.                                              *)

(* The order the library's theorem speaks of, as a set of pairs.           *)
LEMMA Less == OpToRel(<, Nat) = {ss \in Nat \X Nat : ss[1] < ss[2]}
  BY Zenon DEF OpToRel

(* A nonempty set of naturals has a least element.                         *)
LEMMA LeastNumber ==
  ASSUME NEW T \in SUBSET Nat, T # {}
  PROVE  \E x \in T : \A y \in T : x <= y
<1> DEFINE R == {ss \in Nat \X Nat : ss[1] < ss[2]}
<1>1. IsWellFoundedOn(R, Nat)
  BY Less, NatLessThanWellFounded, Zenon
<1>2. \E x \in T : \A y \in T : ~ (<<y, x>> \in R)
  BY <1>1, WFMin
<1>3. \A x, y \in Nat : <<y, x>> \in R <=> y < x
  OBVIOUS
<1> HIDE DEF R
<1>4. PICK x \in T : \A y \in T : ~ (<<y, x>> \in R)
  BY <1>2
<1>5. ASSUME NEW y \in T PROVE x <= y
  <2>1. x \in Nat /\ y \in Nat
    OBVIOUS
  <2>2. ~ (y < x)
    BY <1>3, <1>4, <2>1, Zenon
  <2>3. QED  BY <2>1, <2>2
<1>6. QED  BY <1>5

-----------------------------------------------------------------------------
(* What the entries and the cuts look like at all times.                   *)

(* A pointer leads to the next entry or nowhere; the last one also back to *)
(* the first, or past the end.                                             *)
Chained(l) ==
    /\ l \in [Entries -> -1 .. N]
    /\ \A k \in Entries : l[k] \in {k + 1, Null} \/ (k = N - 1 /\ l[k] = 0)

(* m is the first entry the chain is cut at.                               *)
FirstCut(l, m) == m \in Entries /\ l[m] = Null /\ \A k \in 0 .. m - 1 : l[k] # Null

Uncut(l) == \A k \in Entries : l[k] # Null

(* The equation Walk is defined by.                                        *)
IsWalk(at) ==
    at = [k \in 0 .. N + 1 |->
             IF k = 0 THEN 0
             ELSE IF at[k - 1] \in Entries THEN link[at[k - 1]] ELSE at[k - 1]]

(* Any solution of the equation is enough for Walk to be one.              *)
LEMMA WalkSolves ==
  ASSUME NEW f, IsWalk(f)
  PROVE  IsWalk(Walk)
  BY DEF Walk, IsWalk

(* The equation has at most one solution.                                  *)
LEMMA WalkIsUnique ==
  ASSUME NEW f, NEW g, IsWalk(f), IsWalk(g)
  PROVE  \A k \in 0 .. N + 1 : f[k] = g[k]
<1> N \in Nat \ {0}
  BY SizeAssumption
<1> DEFINE T == {k \in 0 .. N + 1 : f[k] # g[k]}
<1>1. f[0] = 0 /\ g[0] = 0
  BY DEF IsWalk
<1>2. \A k \in 1 .. N + 1 :
        /\ f[k] = IF f[k - 1] \in Entries THEN link[f[k - 1]] ELSE f[k - 1]
        /\ g[k] = IF g[k - 1] \in Entries THEN link[g[k - 1]] ELSE g[k - 1]
  BY DEF IsWalk
<1>3. ASSUME T # {} PROVE FALSE
  <2>1. PICK x \in T : \A y \in T : x <= y
    <3>1. T \in SUBSET Nat
      OBVIOUS
    <3>2. QED  BY <3>1, <1>3, LeastNumber
  <2>2. x \in 1 .. N + 1 /\ f[x] # g[x]
    BY <2>1, <1>1
  <2>3. x - 1 \in 0 .. N + 1 /\ x - 1 \notin T
    BY <2>1, <2>2
  <2>4. f[x - 1] = g[x - 1]
    BY <2>3
  <2>5. QED  BY <2>2, <2>4, <1>2
<1>4. QED  BY <1>3

(* A chain cut first at m is followed entry by entry up to m, and ends.    *)
LEMMA WalkOfCut ==
  ASSUME Chained(link), NEW m, FirstCut(link, m)
  PROVE  \A k \in 0 .. N + 1 : Walk[k] = IF k <= m THEN k ELSE Null
<1> N \in Nat \ {0}
  BY SizeAssumption
<1> m \in 0 .. N - 1
  BY DEF FirstCut, Entries
<1> DEFINE f == [k \in 0 .. N + 1 |-> IF k <= m THEN k ELSE Null]
           step(k) == IF f[k - 1] \in Entries THEN link[f[k - 1]] ELSE f[k - 1]
<1>1. \A k \in 1 .. N + 1 : f[k] = step(k)
  <2> SUFFICES ASSUME NEW k \in 1 .. N + 1 PROVE f[k] = step(k)
    OBVIOUS
  <2>1. CASE k <= m
    <3>1. f[k] = k /\ f[k - 1] = k - 1 /\ k - 1 \in 0 .. m - 1
      BY <2>1
    <3>2. link[k - 1] = k
      BY <3>1 DEF Chained, FirstCut, Entries, Null
    <3>3. QED  BY <3>1, <3>2 DEF Entries
  <2>2. CASE k = m + 1
    <3>1. f[k] = Null /\ f[k - 1] = m
      BY <2>2
    <3>2. QED  BY <3>1 DEF FirstCut
  <2>3. CASE k > m + 1
    <3>1. f[k] = Null /\ f[k - 1] = Null
      BY <2>3
    <3>2. QED  BY <3>1 DEF Null, Entries
  <2>4. QED  BY <2>1, <2>2, <2>3
<1>2. f[0] = 0
  OBVIOUS
<1>3. IsWalk(f)
  <2>1. f = [k \in 0 .. N + 1 |-> f[k]]
    OBVIOUS
  <2>2. \A k \in 0 .. N + 1 : f[k] = IF k = 0 THEN 0 ELSE step(k)
    <3>1. \A k \in 0 .. N + 1 : k # 0 => k \in 1 .. N + 1
      OBVIOUS
    <3> HIDE DEF f
    <3>2. QED  BY <3>1, <1>1, <1>2
  <2> HIDE DEF f
  <2>3. QED  BY <2>1, <2>2 DEF IsWalk
<1>4. \A k \in 0 .. N + 1 : Walk[k] = f[k]
  BY <1>3, WalkSolves, WalkIsUnique
<1>5. QED  BY <1>4

(* A chain that is not cut is followed from the first entry to the last.   *)
LEMMA WalkOfUncut ==
  ASSUME Chained(link), Uncut(link)
  PROVE  /\ \A k \in 0 .. N - 1 : Walk[k] = k
         /\ Walk[N] # Null
<1> N \in Nat \ {0}
  BY SizeAssumption
<1>1. /\ \A k \in 0 .. N - 2 : link[k] = k + 1
      /\ link[N - 1] \in {0, N}
  BY DEF Chained, Uncut, Entries
<1> DEFINE f == [k \in 0 .. N + 1 |->
                    IF k <= N - 1 THEN k
                    ELSE IF k = N THEN link[N - 1]
                    ELSE IF link[N - 1] = N THEN N ELSE link[0]]
           step(k) == IF f[k - 1] \in Entries THEN link[f[k - 1]] ELSE f[k - 1]
<1>2. \A k \in 1 .. N + 1 : f[k] = step(k)
  <2> SUFFICES ASSUME NEW k \in 1 .. N + 1 PROVE f[k] = step(k)
    OBVIOUS
  <2>1. CASE k <= N - 1
    BY <2>1, <1>1 DEF Entries
  <2>2. CASE k = N
    BY <2>2 DEF Entries
  <2>3. CASE k = N + 1
    <3>1. f[k - 1] = link[N - 1]
      BY <2>3
    <3>2. f[k] = IF link[N - 1] = N THEN N ELSE link[0]
      BY <2>3
    <3>3. QED  BY <3>1, <3>2, <1>1 DEF Entries
  <2>4. QED  BY <2>1, <2>2, <2>3
<1>3. f[0] = 0
  OBVIOUS
<1>4. IsWalk(f)
  <2>1. f = [k \in 0 .. N + 1 |-> f[k]]
    OBVIOUS
  <2>2. \A k \in 0 .. N + 1 : f[k] = IF k = 0 THEN 0 ELSE step(k)
    <3>1. \A k \in 0 .. N + 1 : k # 0 => k \in 1 .. N + 1
      OBVIOUS
    <3> HIDE DEF f
    <3>2. QED  BY <3>1, <1>2, <1>3
  <2> HIDE DEF f
  <2>3. QED  BY <2>1, <2>2 DEF IsWalk
<1>5. \A k \in 0 .. N + 1 : Walk[k] = f[k]
  BY <1>4, WalkSolves, WalkIsUnique
<1>6. f[N] = link[N - 1] /\ N \in 0 .. N + 1
  OBVIOUS
<1>7. QED  BY <1>1, <1>5, <1>6 DEF Null

(* A chain is cut somewhere first, or not at all.                          *)
LEMMA FirstCutExists ==
  ASSUME ~ Uncut(link)
  PROVE  \E m \in Entries : FirstCut(link, m)
<1> N \in Nat \ {0}
  BY SizeAssumption
<1> DEFINE T == {k \in Entries : link[k] = Null}
<1>1. T \in SUBSET Nat /\ T # {}
  BY DEF Uncut, Entries
<1>2. PICK m \in T : \A y \in T : m <= y
  <2> HIDE DEF T
  <2>1. QED  BY <1>1, LeastNumber
<1>3. \A k \in 0 .. m - 1 : k \in Entries /\ ~ (m <= k)
  BY <1>1, <1>2 DEF Entries
<1>4. FirstCut(link, m)
  BY <1>2, <1>3 DEF FirstCut
<1>5. QED  BY <1>2, <1>4

(* The number of entries followed: m + 1 for a chain cut first at m.       *)
LEMMA LengthOfCut ==
  ASSUME Chained(link), NEW m, FirstCut(link, m),
         NEW n \in 1 .. N
  PROVE  (Walk[n] = Null /\ \A l \in 1 .. n - 1 : Walk[l] # Null) <=> n = m + 1
<1> N \in Nat \ {0}
  BY SizeAssumption
<1> m \in 0 .. N - 1
  BY DEF FirstCut, Entries
<1>1. \A k \in 0 .. N + 1 : Walk[k] = IF k <= m THEN k ELSE Null
  BY WalkOfCut
<1>2. Walk[n] = Null <=> n >= m + 1
  BY <1>1 DEF Null
<1>3. ASSUME n > m + 1 PROVE ~ \A l \in 1 .. n - 1 : Walk[l] # Null
  <2>1. m + 1 \in 1 .. n - 1 /\ Walk[m + 1] = Null
    BY <1>1, <1>3
  <2>2. QED  BY <2>1
<1>4. ASSUME n = m + 1 PROVE \A l \in 1 .. n - 1 : Walk[l] # Null
  BY <1>1, <1>4 DEF Null
<1>5. QED  BY <1>2, <1>3, <1>4

(* The NIC reads the entries up to the first cut, and sanity_check_sz      *)
(* counts them.                                                            *)
LEMMA OfCut ==
  ASSUME Chained(link), NEW m, FirstCut(link, m)
  PROVE  /\ Read = [l \in 1 .. m + 1 |-> wr[l - 1]]
         /\ ~ empty => sanity_check_sz = m + 1
<1> N \in Nat \ {0}
  BY SizeAssumption
<1> m \in 0 .. N - 1
  BY DEF FirstCut, Entries
<1> DEFINE First(n) == Walk[n] = Null /\ \A l \in 1 .. n - 1 : Walk[l] # Null
<1>1. \A n \in 1 .. N : First(n) <=> n = m + 1
  BY LengthOfCut
<1>2. m + 1 \in 1 .. N
  OBVIOUS
<1>3. First(m + 1)
  BY <1>1, <1>2
<1>4. \E n \in 1 .. N : Walk[n] = Null
  BY <1>2, <1>3
<1>5. (CHOOSE n \in 1 .. N : First(n)) = m + 1
  <2> HIDE DEF First
  <2>1. QED  BY <1>1, <1>2, <1>3
<1>6. Read = [l \in 1 .. m + 1 |-> wr[Walk[l - 1]]]
  BY <1>4, <1>5 DEF Read
<1>7. \A l \in 1 .. m + 1 : Walk[l - 1] = l - 1
  <2>1. \A k \in 0 .. N + 1 : Walk[k] = IF k <= m THEN k ELSE Null
    BY WalkOfCut
  <2>2. \A l \in 1 .. m + 1 : l - 1 \in 0 .. N + 1 /\ l - 1 <= m
    OBVIOUS
  <2>3. QED  BY <2>1, <2>2
<1>8. Read = [l \in 1 .. m + 1 |-> wr[l - 1]]
  BY <1>6, <1>7
<1>9. ~ empty => sanity_check_sz = m + 1
  BY <1>4, <1>5 DEF sanity_check_sz
<1>10. QED  BY <1>8, <1>9

(* A chain that is not cut does not end.                                   *)
LEMMA OfUncut ==
  ASSUME Chained(link), Uncut(link), ~ empty
  PROVE  sanity_check_sz = N + 1
<1> N \in Nat \ {0}
  BY SizeAssumption
<1>1. \A n \in 1 .. N : Walk[n] # Null
  BY WalkOfUncut DEF Null
<1>2. QED  BY <1>1 DEF sanity_check_sz

-----------------------------------------------------------------------------
(* What keeps the chain whole: every entry set up since the last clear()   *)
(* is where todo has it, a cut the user knows of is there, and one that    *)
(* has been kept is the only one.                                          *)
Filled ==
    /\ Len(todo) = cur_idx + 1
    /\ \A k \in 0 .. cur_idx : wr[k] = todo[k + 1]

Cuts ==
    /\ frozen # Null => frozen <= cur_idx /\ link[frozen] = Null
    /\ kept => \A k \in Entries : link[k] = Null => k = frozen

HelperInd ==
    /\ HelperTypeOK
    /\ Chained(link)
    /\ Filled
    /\ Cuts
    /\ PostedIsWhole
    /\ PostedIsPrefix

(* What a prefix of todo is, entry by entry.                               *)
LEMMA PrefixOfTodo ==
  ASSUME HelperTypeOK, Filled, NEW m \in 0 .. cur_idx
  PROVE  /\ [l \in 1 .. m + 1 |-> wr[l - 1]] = SubSeq(todo, 1, m + 1)
         /\ SubSeq(todo, 1, m + 1) \in Seq(-1 .. MaxReq)
         /\ m + 1 \in 1 .. Len(todo)
<1> N \in Nat \ {0} /\ MaxReq \in Nat
  BY SizeAssumption, RequestAssumption
<1> cur_idx \in -1 .. N - 1 /\ todo \in Seq(1 .. MaxReq) /\ Len(todo) = cur_idx + 1
  BY DEF HelperTypeOK, Filled
<1>1. m + 1 \in 1 .. Len(todo)
  OBVIOUS
<1>2. SubSeq(todo, 1, m + 1) = [l \in 1 .. m + 1 |-> todo[l]]
  BY <1>1
<1>3. \A l \in 1 .. m + 1 : wr[l - 1] = todo[l]
  <2>1. \A l \in 1 .. m + 1 : l - 1 \in 0 .. cur_idx /\ (l - 1) + 1 = l
    OBVIOUS
  <2>2. QED  BY <2>1 DEF Filled
<1>4. SubSeq(todo, 1, m + 1) \in Seq(-1 .. MaxReq)
  <2>1. \A l \in 1 .. m + 1 : todo[l] \in -1 .. MaxReq
    BY <1>1
  <2>2. QED  BY <2>1, <1>2
<1>5. QED  BY <1>1, <1>2, <1>3, <1>4

(* HelperInit establishes the invariant.                                         *)
LEMMA HelperInitInd ==
  ASSUME HelperInit
  PROVE  HelperInd
<1> N \in Nat \ {0} /\ MaxReq \in Nat
  BY SizeAssumption, RequestAssumption
<1>1. HelperTypeOK /\ Chained(link)
  BY DEF HelperInit, HelperTypeOK, Chained, Entries, Null
<1>2. Filled /\ Cuts
  BY DEF HelperInit, Filled, Cuts, Null, Entries
<1>3. PostedIsWhole /\ PostedIsPrefix
  BY DEF HelperInit, PostedIsWhole, PostedIsPrefix
<1>4. QED  BY <1>1, <1>2, <1>3 DEF HelperInd

(* next() fills the entry after the last, or is refused.                   *)
LEMMA NextEntry ==
  ASSUME HelperInd, next
  PROVE  HelperInd'
<1> N \in Nat \ {0} /\ MaxReq \in Nat
  BY SizeAssumption, RequestAssumption
<1> HelperTypeOK /\ Chained(link) /\ Filled /\ Cuts
  BY DEF HelperInd
<1> cur_idx \in -1 .. N - 1 /\ todo \in Seq(1 .. MaxReq) /\ Len(todo) = cur_idx + 1
    /\ wr \in [Entries -> 0 .. MaxReq] /\ serial \in 0 .. MaxReq
  BY DEF HelperTypeOK, Filled
<1>1. posted' = <<>> /\ link' = link
  BY DEF next
<1>2. (PostedIsWhole /\ PostedIsPrefix /\ Chained(link))'
  <2>1. PostedIsWhole' /\ PostedIsPrefix'
    BY <1>1 DEF PostedIsWhole, PostedIsPrefix
  <2>2. Chained(link)'
    BY <1>1 DEF Chained, Entries, Null
  <2>3. QED  BY <2>1, <2>2
<1>3. CASE full
  BY <1>1, <1>2, <1>3 DEF next, HelperInd, HelperTypeOK, Filled, Cuts
<1>4. CASE ~ full
  <2>1. /\ cur_idx' = cur_idx + 1 /\ serial' = serial + 1
        /\ wr' = [wr EXCEPT ![cur_idx'] = serial'] /\ todo' = Append(todo, serial')
        /\ kept' = (kept /\ frozen = Null) /\ frozen' = Null /\ serial < MaxReq
    BY <1>4 DEF next
  <2>2. cur_idx' \in 0 .. N - 1 /\ serial' \in 1 .. MaxReq
    BY <2>1, <1>4 DEF full, size
  <2>3. todo' \in Seq(1 .. MaxReq) /\ Len(todo') = cur_idx' + 1
    BY <2>1, <2>2
  <2>4. HelperTypeOK'
    <3>1. wr' \in [Entries -> 0 .. MaxReq]
      BY <2>1, <2>2 DEF Entries
    <3>2. link' \in [Entries -> -1 .. N]
      BY <1>1 DEF HelperTypeOK
    <3>3. posted' \in Seq(-1 .. MaxReq) /\ frozen' \in -1 .. N - 1 /\ kept' \in BOOLEAN
      BY <1>1, <2>1 DEF Null
    <3>4. QED  BY <2>2, <2>3, <3>1, <3>2, <3>3 DEF HelperTypeOK
  <2>5. Filled'
    <3>1. ASSUME NEW k \in 0 .. cur_idx' PROVE wr'[k] = todo'[k + 1]
      <4>1. CASE k = cur_idx'
        BY <4>1, <2>1, <2>2 DEF Entries
      <4>2. CASE k # cur_idx'
        <5>1. k \in 0 .. cur_idx /\ k \in Entries
          BY <4>2, <2>1, <2>2 DEF Entries
        <5>2. wr'[k] = wr[k] /\ todo'[k + 1] = todo[k + 1]
          BY <5>1, <4>2, <2>1, <2>2
        <5>3. QED  BY <5>1, <5>2 DEF Filled
      <4>3. QED  BY <4>1, <4>2
    <3>2. QED  BY <2>3, <3>1 DEF Filled
  <2>6. Cuts'
    BY <1>1, <2>1 DEF Cuts, Entries
  <2>7. QED  BY <1>2, <2>4, <2>5, <2>6 DEF HelperInd
<1>5. QED  BY <1>3, <1>4

(* A change of one pointer keeps the chain.                                *)
LEMMA Relink ==
  ASSUME Chained(link), NEW ii \in Entries, NEW x,
         x \in {ii + 1, Null} \/ (ii = N - 1 /\ x = 0),
         link' = [link EXCEPT ![ii] = x]
  PROVE  /\ Chained(link)'
         /\ link'[ii] = x
         /\ \A k \in Entries \ {ii} : link'[k] = link[k]
<1> N \in Nat \ {0}
  BY SizeAssumption
<1>1. link'[ii] = x /\ \A k \in Entries \ {ii} : link'[k] = link[k]
  BY DEF Chained
<1>2. link' \in [Entries -> -1 .. N]
  BY DEF Chained, Entries, Null
<1>3. ASSUME NEW k \in Entries
      PROVE  link'[k] \in {k + 1, Null} \/ (k = N - 1 /\ link'[k] = 0)
  BY <1>1 DEF Chained
<1>4. Chained(link)'
  BY <1>2, <1>3 DEF Chained, Entries, Null
<1>5. QED  BY <1>1, <1>4

(* freeze() and freeze_at().                                               *)
LEMMA FreezeInd ==
  ASSUME HelperInd, Freeze
  PROVE  HelperInd'
<1> N \in Nat \ {0} /\ MaxReq \in Nat
  BY SizeAssumption, RequestAssumption
<1> HelperTypeOK /\ Chained(link) /\ Filled /\ Cuts
  BY DEF HelperInd
<1>1. PICK idx \in 0 .. cur_idx :
        /\ link' = [link EXCEPT ![idx] = Null]
        /\ frozen' = idx
        /\ kept' = (kept /\ frozen \in {Null, idx})
  BY DEF Freeze, freeze_at
<1>2. posted' = <<>> /\ UNCHANGED <<wr, cur_idx, todo, serial>>
  BY DEF Freeze
<1>3. cur_idx \in -1 .. N - 1 /\ idx \in Entries
  BY DEF HelperTypeOK, Entries
<1>4. /\ Chained(link)' /\ link'[idx] = Null
      /\ \A k \in Entries \ {idx} : link'[k] = link[k]
  BY <1>1, <1>3, Relink
<1>5. HelperTypeOK'
  <2>1. link' \in [Entries -> -1 .. N]
    BY <1>4 DEF Chained, Entries
  <2>2. frozen' \in -1 .. N - 1 /\ kept' \in BOOLEAN /\ posted' \in Seq(-1 .. MaxReq)
    BY <1>1, <1>2, <1>3 DEF Entries
  <2>3. QED  BY <1>2, <2>1, <2>2 DEF HelperTypeOK, Entries
<1>6. Filled'
  BY <1>2 DEF Filled
<1>7. Cuts'
  <2>1. frozen' <= cur_idx' /\ link'[frozen'] = Null
    BY <1>1, <1>2, <1>3, <1>4
  <2>2. ASSUME kept', NEW k \in Entries, link'[k] = Null PROVE k = frozen'
    <3>1. CASE k = idx
      BY <3>1, <1>1
    <3>2. CASE k # idx
      <4>1. link[k] = Null /\ kept /\ frozen \in {Null, idx}
        BY <3>2, <2>2, <1>1, <1>4
      <4>2. k = frozen
        BY <4>1 DEF Cuts
      <4>3. k # Null
        BY DEF Entries, Null
      <4>4. QED  BY <4>1, <4>2, <4>3, <3>2
    <3>3. QED  BY <3>1, <3>2
  <2>3. QED  BY <2>1, <2>2 DEF Cuts, Entries
<1>8. PostedIsWhole' /\ PostedIsPrefix'
  BY <1>2 DEF PostedIsWhole, PostedIsPrefix
<1>9. QED  BY <1>4, <1>5, <1>6, <1>7, <1>8 DEF HelperInd

(* A post while the helper is cut: what is read is a prefix of the batch,  *)
(* up to the user's own cut when it is the only one.                       *)
LEMMA PostInd ==
  ASSUME HelperInd, post_send
  PROVE  HelperInd'
<1> N \in Nat \ {0} /\ MaxReq \in Nat
  BY SizeAssumption, RequestAssumption
<1> HelperTypeOK /\ Chained(link) /\ Filled /\ Cuts
  BY DEF HelperInd
<1>1. frozen # Null /\ posted' = Read
      /\ UNCHANGED <<link, wr, cur_idx, frozen, todo, serial, kept>>
  BY DEF post_send
<1>2. frozen \in Entries /\ cur_idx \in -1 .. N - 1 /\ frozen <= cur_idx /\ link[frozen] = Null
  BY <1>1 DEF HelperTypeOK, Cuts, Entries, Null
<1>3. PICK m \in Entries : FirstCut(link, m)
  BY <1>2, FirstCutExists DEF Uncut
<1>4. m <= frozen
  <2>1. ASSUME ~ (m <= frozen) PROVE FALSE
    <3>1. frozen \in 0 .. m - 1
      BY <2>1, <1>2 DEF Entries
    <3>2. QED  BY <3>1, <1>2, <1>3 DEF FirstCut
  <2>2. QED  BY <2>1
<1>5. m \in 0 .. cur_idx
  BY <1>2, <1>4 DEF Entries
<1>6. posted' = SubSeq(todo, 1, m + 1) /\ posted' \in Seq(-1 .. MaxReq) /\ m + 1 \in 1 .. Len(todo)
  BY <1>1, <1>3, <1>5, OfCut, PrefixOfTodo
<1>7. kept => m = frozen
  BY <1>3 DEF FirstCut, Cuts
<1>8. PostedIsWhole'
  BY <1>1, <1>6, <1>7 DEF PostedIsWhole
<1>9. PostedIsPrefix'
  BY <1>1, <1>6 DEF PostedIsPrefix
<1>10. HelperTypeOK'
  BY <1>1, <1>6 DEF HelperTypeOK, Entries
<1>11. Chained(link)' /\ Filled' /\ Cuts'
  BY <1>1 DEF Chained, Filled, Cuts, Entries, Null
<1>12. QED  BY <1>8, <1>9, <1>10, <1>11 DEF HelperInd

(* Both ways to mend the cut.                                              *)
LEMMA MendInd ==
  ASSUME HelperInd, Mend
  PROVE  HelperInd'
<1> N \in Nat \ {0} /\ MaxReq \in Nat
  BY SizeAssumption, RequestAssumption
<1> HelperTypeOK /\ Chained(link) /\ Filled /\ Cuts
  BY DEF HelperInd
<1>1. frozen # Null /\ frozen' = Null /\ posted' = <<>>
      /\ UNCHANGED <<wr, cur_idx, todo, serial, kept>>
  BY DEF Mend
<1>2. frozen \in Entries /\ cur_idx \in -1 .. N - 1
  BY <1>1 DEF HelperTypeOK, Entries, Null
<1>3. PICK x : /\ x = frozen + 1 \/ (frozen = N - 1 /\ x = 0)
               /\ link' = [link EXCEPT ![frozen] = x]
  BY DEF Mend, freeze_done, freeze_done_at
<1>4. /\ Chained(link)' /\ link'[frozen] = x
      /\ \A k \in Entries \ {frozen} : link'[k] = link[k]
  BY <1>2, <1>3, Relink
<1>5. x # Null
  BY <1>2, <1>3 DEF Entries, Null
<1>6. HelperTypeOK'
  <2>1. link' \in [Entries -> -1 .. N]
    BY <1>4 DEF Chained, Entries
  <2>2. frozen' \in -1 .. N - 1 /\ posted' \in Seq(-1 .. MaxReq)
    BY <1>1 DEF Null
  <2>3. QED  BY <1>1, <2>1, <2>2 DEF HelperTypeOK, Entries
<1>7. Filled'
  BY <1>1 DEF Filled
<1>8. Cuts'
  <2>1. ASSUME kept, NEW k \in Entries, link'[k] = Null PROVE FALSE
    BY <2>1, <1>4, <1>5 DEF Cuts
  <2>2. QED  BY <1>1, <2>1 DEF Cuts, Entries
<1>9. PostedIsWhole' /\ PostedIsPrefix'
  BY <1>1 DEF PostedIsWhole, PostedIsPrefix
<1>10. QED  BY <1>4, <1>6, <1>7, <1>8, <1>9 DEF HelperInd

(* clear() mends the cut at the current entry, and only that one.          *)
LEMMA ClearInd ==
  ASSUME HelperInd, clear
  PROVE  HelperInd'
<1> N \in Nat \ {0} /\ MaxReq \in Nat
  BY SizeAssumption, RequestAssumption
<1> HelperTypeOK /\ Chained(link) /\ Filled /\ Cuts
  BY DEF HelperInd
<1>1. /\ ~ empty /\ cur_idx' = -1 /\ kept' = (kept /\ frozen \in {Null, cur_idx})
      /\ frozen' = Null /\ todo' = <<>> /\ posted' = <<>>
      /\ UNCHANGED <<wr, serial>>
      /\ link' = [link EXCEPT ![cur_idx] = cur_idx + 1]
  BY DEF clear, freeze_done
<1>2. cur_idx \in Entries
  BY <1>1 DEF HelperTypeOK, Entries, empty, size
<1>3. /\ Chained(link)' /\ link'[cur_idx] = cur_idx + 1
      /\ \A k \in Entries \ {cur_idx} : link'[k] = link[k]
  BY <1>1, <1>2, Relink
<1>4. HelperTypeOK'
  <2>1. link' \in [Entries -> -1 .. N]
    BY <1>3 DEF Chained, Entries
  <2>2. /\ frozen' \in -1 .. N - 1 /\ posted' \in Seq(-1 .. MaxReq) /\ kept' \in BOOLEAN
        /\ cur_idx' \in -1 .. N - 1 /\ todo' \in Seq(1 .. MaxReq)
    BY <1>1 DEF Null
  <2>3. QED  BY <1>1, <2>1, <2>2 DEF HelperTypeOK, Entries
<1>5. Filled'
  BY <1>1 DEF Filled
<1>6. Cuts'
  <2>1. ASSUME kept', NEW k \in Entries, link'[k] = Null PROVE FALSE
    <3>1. link'[cur_idx] # Null
      BY <1>2, <1>3 DEF Entries, Null
    <3>2. k # cur_idx /\ link[k] = Null
      BY <3>1, <2>1, <1>3
    <3>3. k = frozen
      BY <3>2, <2>1, <1>1 DEF Cuts
    <3>4. k # Null
      BY DEF Entries, Null
    <3>5. QED  BY <3>2, <3>3, <3>4, <2>1, <1>1
  <2>2. QED  BY <1>1, <2>1 DEF Cuts, Entries
<1>7. PostedIsWhole' /\ PostedIsPrefix'
  BY <1>1 DEF PostedIsWhole, PostedIsPrefix
<1>8. QED  BY <1>3, <1>4, <1>5, <1>6, <1>7 DEF HelperInd

(* The invariant of the helper holds at all times.                         *)
THEOREM HelperIndCorrect == HelperSpec => []HelperInd
<1>1. HelperInit => HelperInd
  BY HelperInitInd
<1>2. HelperInd /\ [HelperNext]_helperVars => HelperInd'
  <2> SUFFICES ASSUME HelperInd, [HelperNext]_helperVars PROVE HelperInd'
    OBVIOUS
  <2>1. CASE HelperNext
    BY <2>1, NextEntry, FreezeInd, PostInd, MendInd, ClearInd DEF HelperNext
  <2>2. CASE UNCHANGED helperVars
    BY <2>2 DEF helperVars, HelperInd, HelperTypeOK, Chained, Filled, Cuts, PostedIsWhole, PostedIsPrefix,
                Entries, Null
  <2>3. QED  BY <2>1, <2>2
<1>3. QED  BY <1>1, <1>2, PTL DEF HelperSpec

(* What the NIC reads is what was set up since the last clear(), up to the *)
(* cut, for a user that mends its cuts (freeze, freeze_done, clear).       *)
THEOREM WholeCorrect == HelperSpec => []PostedIsWhole
<1>1. HelperInd => PostedIsWhole
  BY DEF HelperInd
<1>2. QED  BY <1>1, HelperIndCorrect, PTL

(* A user that forgets to mend a cut still posts a beginning of its batch. *)
THEOREM PrefixCorrect == HelperSpec => []PostedIsPrefix
<1>1. HelperInd => PostedIsPrefix
  BY DEF HelperInd
<1>2. QED  BY <1>1, HelperIndCorrect, PTL

(* A helper that is not cut can take a full batch again, sanity_check_sz   *)
(* measures what was set up, and the pointer past the end is not followed. *)
THEOREM ChainCorrect == HelperSpec => []ChainInv
<1>1. HelperInd => ChainInv
  <2> SUFFICES ASSUME HelperInd PROVE ChainInv
    OBVIOUS
  <2> N \in Nat \ {0}
    BY SizeAssumption
  <2> HelperTypeOK /\ Chained(link) /\ Cuts
    BY DEF HelperInd
  <2> cur_idx \in -1 .. N - 1
    BY DEF HelperTypeOK
  <2>1. kept /\ frozen = Null => Uncut(link)
    BY DEF Cuts, Uncut, Entries, Null
  <2>2. Mended
    BY <2>1 DEF Mended, Uncut, Chained, Entries, PastEnd
  <2>3. ASSUME kept, frozen = cur_idx PROVE sanity_check_sz = size
    <3>1. CASE empty
      BY <3>1 DEF sanity_check_sz, empty
    <3>2. CASE ~ empty
      <4>1. cur_idx \in Entries /\ frozen # Null
        BY <3>2, <2>3 DEF empty, size, Entries, Null
      <4>2. FirstCut(link, cur_idx)
        <5>1. link[cur_idx] = Null
          BY <4>1, <2>3 DEF Cuts
        <5>2. \A k \in 0 .. cur_idx - 1 : k \in Entries /\ k # frozen
          BY <2>3 DEF Entries
        <5>3. QED  BY <4>1, <5>1, <5>2, <2>3 DEF FirstCut, Cuts
      <4>3. QED  BY <4>2, <3>2, OfCut DEF size
    <3>3. QED  BY <3>1, <3>2
  <2>4. kept /\ frozen = Null /\ ~ empty => sanity_check_sz = N + 1
    BY <2>1, OfUncut
  <2>5. \A n \in 0 .. N - 1 : Walk[n] # PastEnd
    <3>1. CASE Uncut(link)
      BY <3>1, WalkOfUncut DEF PastEnd
    <3>2. CASE ~ Uncut(link)
      <4>1. PICK m \in Entries : FirstCut(link, m)
        BY <3>2, FirstCutExists
      <4>2. \A k \in 0 .. N + 1 : Walk[k] = IF k <= m THEN k ELSE Null
        BY <4>1, WalkOfCut
      <4>3. QED  BY <4>2 DEF PastEnd, Null
    <3>3. QED  BY <3>1, <3>2
  <2>6. SanityAgrees
    BY <2>3, <2>4, <2>5 DEF SanityAgrees
  <2>7. QED  BY <2>2, <2>6 DEF ChainInv
<1>2. QED  BY <1>1, HelperIndCorrect, PTL-----------------------------------------------------------------------------
(* Part 2: the windows of the benchmark clients.                           *)

Ops == [opcode : Types, addr : {"null", "remote"}, word1 : {"null", "rkey", "operand"},
        key : {"null", "rkey"}]
Labels == {"unborn", "setup", "head", "post", "wait", "final", "try", "drain", "end", "exited"}

(* TypeOK, with the domains of the functions.                              *)
Typed ==
    /\ cfg \in Configs
    /\ main \in {"start", "report", "join", "done"} /\ running \in BOOLEAN
    /\ proc \in {"up", "setup", "refused", "failed", "no return"}
    /\ pc \in [Workers -> Labels]
    /\ i \in [Workers -> Nat] /\ or_idx \in [Workers -> Nat]
    /\ counter \in [Workers -> Nat] /\ recv_cnt \in [Workers -> Nat]
    /\ rounds \in [Workers -> 0 .. MaxRounds]
    /\ dc_idx \in [Workers -> 0 .. cfg.qps - 1]
    /\ op \in [Workers -> Ops]
    /\ sq \in [Workers -> [0 .. cfg.qps - 1 -> Seq(Request)]]
    /\ out_signaled \in [Workers -> 0 .. Usize - 1]
    /\ flying_cnt \in [Workers -> 0 .. U64 - 1]
    /\ err \in SUBSET (Workers \X (0 .. cfg.qps - 1))

(* The signaled requests of a queue; the NIC executes in order, and a QP   *)
(* that has failed has nothing left to execute.                            *)
Sig(q) == {k \in DOMAIN q : q[k].signaled}
QueuesOK(w) ==
    \A d \in 0 .. cfg.qps - 1 :
        /\ \A k, l \in DOMAIN sq[w][d] :
              k < l /\ sq[w][d][k].status = "posted" => sq[w][d][l].status = "posted"
        /\ \A k \in DOMAIN sq[w][d] :
              /\ sq[w][d][k].status = "failed" => <<w, d>> \in err
              /\ sq[w][d][k].status = "posted" => <<w, d>> \notin err

(* The key survives set_type and refresh, since the union keeps it where   *)
(* the operands are not.                                                   *)
Keyed(w) == (IF cfg.type \in {"CAS", "FAA"} THEN op[w].key ELSE op[w].word1) = "rkey"
OpReady(w) ==
    /\ cfg.program \in {"one", "db"} /\ pc[w] \notin {"unborn", "setup"} => Keyed(w)
    /\ cfg.program \in {"or", "fly"} => op[w].opcode = "READ"
    /\ Queue(w) # <<>> /\ cfg.program # "dc" =>
          op[w].addr = "remote" /\ op[w].opcode = cfg.type /\ Keyed(w)

Outside == {"unborn", "setup", "head", "end", "exited"}
Count(w, n) == cfg.program \notin {"db", "dc"} => out_signaled[w] = n % Usize

(* bench_client and dc_bench: nothing is outstanding but the one request   *)
(* that is waited for.                                                     *)
OneAtATime(w) ==
    /\ pc[w] \in Outside \cup {"post", "final"}
    /\ \A d \in 0 .. cfg.qps - 1 : d # dc_idx[w] \/ pc[w] # "final" => sq[w][d] = <<>>
    /\ pc[w] = "final" => Len(Queue(w)) = 1 /\ Sig(Queue(w)) = {1}
    /\ Count(w, IF pc[w] = "final" THEN 1 ELSE 0)

(* or_bench and db_bench.  Between two rounds nothing that is outstanding  *)
(* is signaled.  In a round, or_idx requests after the last base, which is *)
(* a multiple of Stride, the queue holds one signaled request, at p, and   *)
(* what was posted after it: or_idx less its own batch.                    *)
Multiple(x, y) == \E n \in 0 .. x : x = y * n
Between(w) == Sig(Queue(w)) = {} /\ Len(Queue(w)) <= Leftover /\ Count(w, 0)
FirstAt(w, base, p) == IF base = 0 THEN p <= Leftover + cfg.batch ELSE p = Stride
Within(w) ==
    /\ Multiple(or_idx[w], cfg.batch) /\ or_idx[w] \in cfg.batch .. Stride
    /\ or_idx[w] <= i[w] /\ Multiple(i[w] - or_idx[w], Stride)
    /\ \E p \in DOMAIN Queue(w) :
          /\ Sig(Queue(w)) = {p} /\ Len(Queue(w)) = p + (or_idx[w] - cfg.batch)
          /\ FirstAt(w, i[w] - or_idx[w], p)
    /\ Count(w, 1)
Waiting(w) ==
    /\ or_idx[w] = 0 /\ Stride <= i[w] /\ Multiple(i[w] - Stride, Stride)
    /\ \E p \in DOMAIN Queue(w) :
          /\ Sig(Queue(w)) = {p, p + Stride} /\ Len(Queue(w)) = p + Stride
          /\ FirstAt(w, i[w] - Stride, p)
    /\ Count(w, 2)
Loops(w) ==
    /\ pc[w] \in Outside \cup {"post", "wait", "final"}
    /\ pc[w] \in Outside => Between(w)
    /\ pc[w] \in {"post", "wait"} => i[w] < cfg.factor /\ Multiple(i[w], cfg.batch)
    /\ pc[w] = "post" => IF i[w] = 0 THEN or_idx[w] = 0 /\ Between(w) ELSE Within(w)
    /\ pc[w] = "wait" => Waiting(w)
    /\ pc[w] = "final" => i[w] = cfg.factor /\ Within(w)

(* fly_bench: the difference of the two counters is what is outstanding,   *)
(* and more only after a failure, which nobody counts.                     *)
Flies(w) ==
    /\ pc[w] \in Outside \cup {"post", "try", "drain"}
    /\ Sig(Queue(w)) = DOMAIN Queue(w) /\ Count(w, Len(Queue(w)))
    /\ recv_cnt[w] + Len(Queue(w)) <= counter[w]
    /\ counter[w] <= recv_cnt[w] + cfg.factor
    /\ <<w, 0>> \notin err => recv_cnt[w] + Len(Queue(w)) = counter[w]
    /\ pc[w] \in {"unborn", "setup", "head"} => counter[w] = recv_cnt[w] + flying_cnt[w]
    /\ pc[w] = "post" => counter[w] = recv_cnt[w] + (flying_cnt[w] + i[w])
    /\ pc[w] \in {"end", "exited"} => counter[w] = recv_cnt[w]

(* The discipline of each client holds until a wait has failed.            *)
Disciplined(w) ==
    proc # "failed" =>
        /\ cfg.program \in {"one", "dc"} => OneAtATime(w)
        /\ cfg.program \in {"or", "db"} => Loops(w)
        /\ cfg.program = "fly" => Flies(w)
Fits(w) == \A d \in 0 .. cfg.qps - 1 : Len(sq[w][d]) <= Peak

IndInv ==
    /\ Typed
    /\ proc = "failed" => err # {}
    /\ RefusedOnlyIfTooWide
    /\ \A w \in Workers : QueuesOK(w) /\ OpReady(w) /\ Disciplined(w) /\ Fits(w)
-----------------------------------------------------------------------------
(* Arithmetic.                                                             *)

(* A quotient and a remainder are the only ones.                           *)
LEMMA Remainder ==
    ASSUME NEW m \in Nat \ {0}, NEW q \in Int, NEW r \in 0 .. m - 1
    PROVE  (m * q + r) % m = r
  <1> DEFINE x == m * q + r
             a == x \div m
             b == x % m
  <1>1. x \in Int /\ a \in Int /\ b \in 0 .. m - 1 /\ x = m * a + b
    OBVIOUS
  <1>2. m * (q - a) = b - r
    BY <1>1
  <1>3. q - a < 1
    <2>1. SUFFICES ASSUME q - a >= 1 PROVE FALSE
      BY <1>1
    <2>2. m * (q - a) >= m
      BY <1>1, <2>1
    <2> QED BY <1>1, <1>2, <2>2
  <1>4. q - a > -1
    <2>1. SUFFICES ASSUME q - a <= -1 PROVE FALSE
      BY <1>1
    <2>2. m * (q - a) <= -m
      BY <1>1, <2>1
    <2> QED BY <1>1, <1>2, <2>2
  <1>5. q = a
    BY <1>1, <1>3, <1>4
  <1> QED BY <1>1, <1>2, <1>5

(* Adding to a remainder.                                                  *)
LEMMA AddMod ==
    ASSUME NEW m \in Nat \ {0}, NEW x \in Int, NEW y \in Int
    PROVE  ((x % m) + y) % m = (x + y) % m
  <1> DEFINE a == x \div m
             b == x % m
             c == (b + y) \div m
             r == (b + y) % m
  <1>1. a \in Int /\ b \in 0 .. m - 1 /\ x = m * a + b
    OBVIOUS
  <1>2. c \in Int /\ r \in 0 .. m - 1 /\ b + y = m * c + r
    BY <1>1
  <1> HIDE DEF a, b, c, r
  <1>3. x + y = m * (a + c) + r
    BY <1>1, <1>2
  <1>4. (m * (a + c) + r) % m = r
    BY <1>1, <1>2, Remainder
  <1> QED BY <1>3, <1>4 DEF r, b

(* Multiples of y are y apart.                                             *)
LEMMA Multiples ==
    ASSUME NEW x \in Nat, NEW y \in Nat \ {0}
    PROVE  /\ Multiple(0, y) /\ Multiple(y, y)
           /\ Multiple(x, y) <=> \E n \in Nat : x = y * n
           /\ Multiple(x, y) => Multiple(x + y, y)
           /\ \A z \in Nat : Multiple(x, y) /\ Multiple(z, y) /\ x < z => x + y <= z
  <1>1. ASSUME NEW n \in Nat, NEW z \in Nat, z = y * n PROVE n \in 0 .. z
    <2>1. y * n >= n
      OBVIOUS
    <2> QED BY <1>1, <2>1
  <1>2. \A z \in Nat : Multiple(z, y) <=> \E n \in Nat : z = y * n
    BY <1>1 DEF Multiple
  <1>3. 0 = y * 0 /\ y = y * 1
    OBVIOUS
  <1>4. ASSUME Multiple(x, y) PROVE Multiple(x + y, y)
    <2>1. PICK n \in Nat : x = y * n
      BY <1>2, <1>4
    <2>2. x + y = y * (n + 1) /\ x + y \in Nat /\ n + 1 \in Nat
      BY <2>1
    <2> QED BY <1>2, <2>2
  <1>5. ASSUME NEW z \in Nat, Multiple(x, y), Multiple(z, y), x < z PROVE x + y <= z
    <2>1. PICK n \in Nat : x = y * n
      BY <1>2, <1>5
    <2>2. PICK k \in Nat : z = y * k
      BY <1>2, <1>5
    <2>3. n < k
      <3>1. SUFFICES ASSUME k <= n PROVE FALSE
        OBVIOUS
      <3>2. y * k <= y * n
        BY <3>1
      <3> QED BY <1>5, <2>1, <2>2, <3>2
    <2>4. y * (n + 1) <= y * k
      BY <2>3
    <2>5. y * (n + 1) = x + y
      BY <2>1
    <2> QED BY <2>2, <2>4, <2>5
  <1> QED BY <1>2, <1>3, <1>4, <1>5

(* The next multiple.                                                      *)
LEMMA NextMultiple ==
    ASSUME NEW x \in Nat, NEW y \in Nat \ {0}, NEW z \in Nat, Multiple(x, y), Multiple(z, y), x < z
    PROVE  x + y <= z /\ x + y \in Nat /\ Multiple(x + y, y)
  BY Multiples

(* What the command line is known to be.                                   *)
LEMMA ConfigIs ==
    ASSUME cfg \in Configs
    PROVE  /\ cfg.program \in Programs /\ cfg.type \in Types
           /\ cfg.factor \in Nat \ {0} /\ cfg.batch \in Nat \ {0} /\ cfg.qps \in Nat \ {0}
           /\ cfg.factor < U64 /\ cfg.batch <= cfg.factor
           /\ cfg.program # "db" => cfg.batch = 1
           /\ cfg.program # "dc" => cfg.qps = 1
           /\ cfg.program \in {"or", "fly"} => cfg.type = "READ"
           /\ cfg.program \in {"or", "db"} => Multiple(cfg.factor, cfg.batch)
  <1>1. /\ cfg.program \in Programs /\ cfg.type \in Types
        /\ cfg.factor \in Nat \ {0} /\ cfg.batch \in Nat \ {0} /\ cfg.qps \in Nat \ {0}
        /\ cfg.factor < U64
        /\ cfg.program # "db" => cfg.batch = 1
        /\ cfg.program # "dc" => cfg.qps = 1
        /\ cfg.program \in {"or", "fly"} => cfg.type = "READ"
        /\ cfg.program = "db" => cfg.batch < cfg.factor /\ cfg.factor % cfg.batch = 0
    BY ConfigAssumption
  <1>2. cfg.batch <= cfg.factor
    BY <1>1
  <1> DEFINE f == cfg.factor
             b == cfg.batch
  <1>3. ASSUME cfg.program \in {"or", "db"} PROVE Multiple(f, b)
    <2>1. f % b = 0
      BY <1>1, <1>3
    <2>2. f \div b \in Int /\ f = b * (f \div b) + (f % b)
      BY <1>1
    <2>3. f \div b \in Nat
      BY <1>1
    <2>4. f = b * (f \div b)
      BY <1>1, <2>1, <2>2, <2>3
    <2>5. \E n \in Nat : f = b * n
      BY <2>3, <2>4
    <2> HIDE DEF f, b
    <2> QED BY <1>1, <2>5, Multiples DEF f, b
  <1> QED BY <1>1, <1>2, <1>3

(* Half the send queue.                                                    *)
LEMMA SizeIs == or_max \in Nat \ {0} /\ 2 * or_max <= Depth /\ Depth \in Nat
  BY BoundAssumption DEF or_max

(* Stride is the first multiple of the batch that is not below or_max: the *)
(* value of or_idx at which a request is signaled.                         *)
LEMMA StrideIs ==
    ASSUME cfg \in Configs
    PROVE  /\ Stride \in Nat \ {0} /\ cfg.batch <= Stride /\ or_max <= Stride
           /\ Multiple(Stride, cfg.batch)
           /\ \A x \in Nat : Multiple(x, cfg.batch) /\ or_max <= x => Stride <= x
           /\ cfg.batch = 1 => Stride = or_max
  <1> DEFINE b == cfg.batch
             q == (or_max + b - 1) \div b
             r == (or_max + b - 1) % b
  <1>1. b \in Nat \ {0} /\ or_max \in Nat \ {0}
    BY ConfigIs, SizeIs
  <1>2. q \in Int /\ r \in 0 .. b - 1 /\ or_max + b - 1 = b * q + r
    BY <1>1
  <1>3. Stride = b * (IF 1 > q THEN 1 ELSE q)
    BY DEF Stride, Max2
  <1> HIDE DEF q, r
  <1> HIDE DEF b
  <1>4. q >= 1
    <2>1. SUFFICES ASSUME q <= 0 PROVE FALSE
      BY <1>2
    <2>2. b * q <= 0
      BY <1>1, <1>2, <2>1
    <2> QED BY <1>1, <1>2, <2>2
  <1>5. Stride = b * q /\ q \in Nat
    BY <1>2, <1>3, <1>4
  <1>6. b * q \in Nat /\ b * q >= b
    BY <1>1, <1>2, <1>4
  <1>7. b * q >= or_max /\ b * q - b < or_max
    BY <1>1, <1>2
  <1>8. Multiple(Stride, b)
    BY <1>1, <1>5, <1>6, Multiples
  <1>9. ASSUME NEW x \in Nat, Multiple(x, b), or_max <= x PROVE Stride <= x
    <2>1. SUFFICES ASSUME x < Stride PROVE FALSE
      BY <1>5, <1>6, <1>9
    <2>2. x + b <= Stride
      BY <1>1, <1>5, <1>6, <1>8, <1>9, <2>1, Multiples
    <2> QED BY <1>1, <1>5, <1>6, <1>7, <1>9, <2>2
  <1>10. ASSUME b = 1 PROVE Stride = or_max
    BY <1>1, <1>5, <1>6, <1>7, <1>10
  <1> QED BY <1>1, <1>5, <1>6, <1>7, <1>8, <1>9, <1>10 DEF b

(* Leftover is what the last stretch of a round has posted since its last  *)
(* signaled request.                                                       *)
LEMMA LeftoverIs ==
    ASSUME cfg \in Configs
    PROVE  /\ Leftover \in 0 .. Stride - 1
           /\ \A base, r \in Nat : /\ Multiple(base, Stride) /\ r < Stride
                                    /\ cfg.factor = base + (cfg.batch + r)
                                    => Leftover = r
  <1> DEFINE f == cfg.factor
             b == cfg.batch
             s == Stride
  <1>1. f \in Nat /\ b \in Nat /\ b <= f /\ s \in Nat \ {0} /\ Leftover = (f - b) % s
    BY ConfigIs, StrideIs DEF Leftover
  <1> HIDE DEF f, b, s
  <1>2. Leftover \in 0 .. s - 1
    BY <1>1
  <1>3. ASSUME NEW base \in Nat, NEW r \in Nat, Multiple(base, s), r < s, f = base + (b + r)
        PROVE  Leftover = r
    <2>1. PICK n \in Nat : base = s * n
      BY <1>1, <1>3, Multiples
    <2>2. f - b = s * n + r /\ r \in 0 .. s - 1
      BY <1>1, <1>3, <2>1
    <2>3. (s * n + r) % s = r
      BY <1>1, <2>1, <2>2, Remainder
    <2> QED BY <1>1, <2>2, <2>3
  <1> QED BY <1>2, <1>3 DEF f, b, s

(* The sizes the peak is the larger of.                                    *)
LEMMA PeakIs ==
    ASSUME cfg \in Configs, cfg.program \in {"or", "db"}
    PROVE  /\ Peak \in Nat
           /\ Leftover + cfg.batch <= Peak
           /\ cfg.factor <= Stride + cfg.batch => Leftover + cfg.factor <= Peak
           /\ Stride + cfg.batch <= cfg.factor => Leftover + (Stride + cfg.batch) <= Peak
           /\ 2 * Stride < cfg.factor => 2 * Stride <= Peak
           /\ cfg.program = "or" => Peak <= Depth
  <1>1. /\ cfg.factor \in Nat /\ cfg.batch \in Nat \ {0} /\ cfg.batch <= cfg.factor
        /\ Stride \in Nat /\ Leftover \in Nat /\ Leftover < Stride
    BY ConfigIs, StrideIs, LeftoverIs
  <1>2. cfg.program = "or" => cfg.batch = 1 /\ 2 * Stride <= Depth
    BY ConfigIs, StrideIs, SizeIs
  <1> DEFINE small == IF cfg.factor < Stride + cfg.batch THEN cfg.factor ELSE Stride + cfg.batch
             large == IF cfg.factor > 2 * Stride THEN 2 * Stride ELSE 0
  <1>3. Peak = IF Leftover + small > large THEN Leftover + small ELSE large
    BY DEF Peak, Max2, Min2
  <1>4. Depth \in Nat
    BY SizeIs
  <1> QED BY <1>1, <1>2, <1>3, <1>4

(* How much is outstanding in each phase of a round: with the next batch   *)
(* while requests are posted, and as it is while one is waited for.        *)
LEMMA RoundFits ==
    ASSUME cfg \in Configs, cfg.program \in {"or", "db"},
           NEW j \in Nat, NEW idx \in Nat, NEW p \in Nat,
           Multiple(j, cfg.batch), Multiple(idx, cfg.batch), idx \in cfg.batch .. Stride,
           idx <= j, Multiple(j - idx, Stride), j <= cfg.factor,
           IF j - idx = 0 THEN p <= Leftover + cfg.batch ELSE p = Stride
    PROVE  /\ j < cfg.factor => p + idx <= Peak
           /\ p + (idx - cfg.batch) <= Peak
           /\ j = cfg.factor => Leftover = idx - cfg.batch
  <1> DEFINE f == cfg.factor
             b == cfg.batch
             base == j - idx
  <1>1. /\ f \in Nat /\ b \in Nat \ {0} /\ b <= f /\ Multiple(f, b)
        /\ Stride \in Nat \ {0} /\ Leftover \in 0 .. Stride - 1
    BY ConfigIs, StrideIs, LeftoverIs
  <1>2. /\ Peak \in Nat
        /\ f <= Stride + b => Leftover + f <= Peak
        /\ Stride + b <= f => Leftover + (Stride + b) <= Peak
        /\ 2 * Stride < f => 2 * Stride <= Peak
    BY PeakIs
  <1>3. \A z, r \in Nat : Multiple(z, Stride) /\ r < Stride /\ f = z + (b + r) => Leftover = r
    BY LeftoverIs
  <1>4. base \in Nat /\ j = base + idx
    OBVIOUS
  <1>5. j < f => j + b <= f
    BY <1>1, Multiples
  <1>6. base = 0 \/ base = Stride \/ base >= 2 * Stride
    <2>1. base > 0 => Stride <= base
      BY <1>1, <1>4, Multiples
    <2>2. base > Stride => Stride + Stride <= base
      BY <1>1, <1>4, Multiples
    <2> QED BY <1>1, <1>4, <2>1, <2>2
  <1>7. ASSUME base = Stride, j <= f, f <= 2 * Stride PROVE Leftover = f - (b + Stride)
    <2>1. f - (b + Stride) \in Nat /\ f - (b + Stride) < Stride
      BY <1>1, <1>4, <1>7
    <2>2. f = Stride + (b + (f - (b + Stride)))
      BY <1>1
    <2> QED BY <1>1, <1>3, <1>7, <2>1, <2>2
  <1>8. ASSUME j < f PROVE p + idx <= Peak
    BY <1>1, <1>2, <1>4, <1>5, <1>6, <1>7, <1>8
  <1>9. p + (idx - b) <= Peak
    BY <1>1, <1>2, <1>4, <1>5, <1>6, <1>7
  <1>10. ASSUME j = f PROVE Leftover = idx - b
    <2>1. idx - b \in Nat /\ idx - b < Stride
      BY <1>1
    <2>2. f = base + (b + (idx - b))
      BY <1>1, <1>4, <1>10
    <2> QED BY <1>3, <1>4, <2>1, <2>2
  <1> QED BY <1>8, <1>9, <1>10

(* While the oldest signaled request is waited for.                        *)
LEMMA WaitingFits ==
    ASSUME cfg \in Configs, cfg.program \in {"or", "db"},
           NEW j \in Nat, NEW p \in Nat,
           Stride <= j, Multiple(j, cfg.batch), Multiple(j - Stride, Stride), j < cfg.factor,
           IF j - Stride = 0 THEN p <= Leftover + cfg.batch ELSE p = Stride
    PROVE  p + Stride <= Peak
  <1> DEFINE f == cfg.factor
             b == cfg.batch
  <1>1. /\ f \in Nat /\ b \in Nat \ {0} /\ b <= f /\ Multiple(f, b)
        /\ Stride \in Nat \ {0} /\ Leftover \in 0 .. Stride - 1
    BY ConfigIs, StrideIs, LeftoverIs
  <1>2. /\ Peak \in Nat
        /\ Stride + b <= f => Leftover + (Stride + b) <= Peak
        /\ 2 * Stride < f => 2 * Stride <= Peak
    BY PeakIs
  <1>3. j + b <= f
    BY <1>1, Multiples
  <1>4. j - Stride \in Nat /\ (j - Stride > 0 => Stride <= j - Stride)
    BY <1>1, Multiples
  <1> QED BY <1>1, <1>2, <1>3, <1>4
-----------------------------------------------------------------------------
(* Send queues.                                                            *)

(* The signaled requests are among those of the queue.                     *)
LEMMA SigIs ==
    ASSUME NEW q \in Seq(Request)
    PROVE  /\ Len(q) \in Nat /\ DOMAIN q = 1 .. Len(q) /\ (q = <<>> <=> Len(q) = 0)
           /\ Sig(q) \subseteq 1 .. Len(q)
           /\ \A k \in 1 .. Len(q) : q[k] \in Request /\ (k \in Sig(q) <=> q[k].signaled)
  <1>1. Len(q) \in Nat /\ DOMAIN q = 1 .. Len(q)
    OBVIOUS
  <1>2. q = <<>> <=> Len(q) = 0
    BY EmptySeq
  <1>3. Sig(q) \subseteq 1 .. Len(q)
    BY <1>1 DEF Sig
  <1>4. \A k \in 1 .. Len(q) : q[k] \in Request
    OBVIOUS
  <1>5. \A k \in 1 .. Len(q) : k \in Sig(q) <=> q[k].signaled
    BY <1>1 DEF Sig
  <1> QED BY <1>1, <1>2, <1>3, <1>4, <1>5

(* Polling request k frees what was posted before it as well.              *)
LEMMA PopTo ==
    ASSUME NEW q \in Seq(Request), NEW k \in 1 .. Len(q)
    PROVE  LET r == SubSeq(q, k + 1, Len(q)) IN
           /\ r \in Seq(Request) /\ Len(r) = Len(q) - k
           /\ \A l \in 1 .. Len(q) - k : r[l] = q[l + k] /\ l + k \in 1 .. Len(q)
           /\ Sig(q) = {k} => Sig(r) = {}
           /\ \A m \in Nat \ {0} : Sig(q) = {k, k + m} => Sig(r) = {m}
           /\ Sig(q) = DOMAIN q => Sig(r) = DOMAIN r
  <1> DEFINE r == SubSeq(q, k + 1, Len(q))
  <1>1. r \in Seq(Request) /\ Len(r) = Len(q) - k
    OBVIOUS
  <1>2. \A l \in 1 .. Len(q) - k : r[l] = q[l + k] /\ l + k \in 1 .. Len(q)
    OBVIOUS
  <1> HIDE DEF r
  <1>3. ASSUME NEW l \in 1 .. Len(q) - k PROVE l \in Sig(r) <=> l + k \in Sig(q)
    <2>1. l \in Sig(r) <=> r[l].signaled
      BY <1>1, SigIs
    <2>2. l + k \in Sig(q) <=> q[l + k].signaled
      BY <1>2, SigIs
    <2> QED BY <1>2, <2>1, <2>2
  <1>4. /\ Sig(q) \in SUBSET (1 .. Len(q)) /\ Sig(r) \in SUBSET (1 .. Len(q) - k)
        /\ DOMAIN q = 1 .. Len(q) /\ DOMAIN r = 1 .. Len(q) - k /\ Len(q) \in Nat
    BY <1>1, SigIs
  <1>5. /\ Sig(q) = {k} => Sig(r) = {}
        /\ \A m \in Nat \ {0} : Sig(q) = {k, k + m} => Sig(r) = {m}
        /\ Sig(q) = 1 .. Len(q) => Sig(r) = 1 .. Len(q) - k
    <2> DEFINE n == Len(q)
               S == Sig(q)
               T == Sig(r)
    <2>1. /\ n \in Nat /\ k \in 1 .. n /\ S \in SUBSET (1 .. n) /\ T \in SUBSET (1 .. n - k)
          /\ \A l \in 1 .. n - k : l \in T <=> l + k \in S
      BY <1>3, <1>4
    <2> HIDE DEF n, S, T
    <2>2. ASSUME S = {k} PROVE T = {}
      <3>1. \A l \in 1 .. n - k : l + k \notin S
        BY <2>1, <2>2
      <3> QED BY <2>1, <3>1
    <2>3. ASSUME NEW m \in Nat \ {0}, S = {k, k + m} PROVE T = {m}
      <3>1. m \in 1 .. n - k
        BY <2>1, <2>3
      <3>2. \A l \in 1 .. n - k : l + k \in S <=> l = m
        BY <2>1, <2>3, <3>1
      <3> QED BY <2>1, <3>1, <3>2
    <2>4. ASSUME S = 1 .. n PROVE T = 1 .. n - k
      <3>1. \A l \in 1 .. n - k : l + k \in S
        BY <2>1, <2>4
      <3> QED BY <2>1, <3>1
    <2> QED BY <2>2, <2>3, <2>4 DEF n, S, T
  <1> QED BY <1>1, <1>2, <1>4, <1>5 DEF r

(* Since the NIC executes in order, the oldest completion is not of a      *)
(* request after the first signaled one.                                   *)
LEMMA Oldest ==
    ASSUME Typed, NEW w \in Workers, QueuesOK(w),
           NEW k \in Completed(w), \A l \in Completed(w) : k <= l
    PROVE  /\ Queue(w) \in Seq(Request) /\ k \in 1 .. Len(Queue(w))
           /\ \A l \in Sig(Queue(w)) : k <= l
           /\ Queue(w)[k].status = "done" => k \in Sig(Queue(w))
           /\ Queue(w)[k].status = "failed" => <<w, dc_idx[w]>> \in err
  <1> DEFINE q == Queue(w)
  <1>1. q \in Seq(Request) /\ dc_idx[w] \in 0 .. cfg.qps - 1
    <2>1. sq[w] \in [0 .. cfg.qps - 1 -> Seq(Request)] /\ dc_idx[w] \in 0 .. cfg.qps - 1
      BY DEF Typed
    <2> QED BY <2>1 DEF Queue
  <1>2. /\ Len(q) \in Nat /\ DOMAIN q = 1 .. Len(q) /\ Sig(q) \subseteq 1 .. Len(q)
        /\ \A l \in 1 .. Len(q) : q[l] \in Request /\ (l \in Sig(q) <=> q[l].signaled)
    BY <1>1, SigIs
  <1>3. /\ \A m, l \in 1 .. Len(q) : m < l /\ q[m].status = "posted" => q[l].status = "posted"
        /\ \A l \in 1 .. Len(q) : q[l].status = "failed" => <<w, dc_idx[w]>> \in err
    BY <1>1, <1>2 DEF QueuesOK, Queue
  <1>4. /\ k \in 1 .. Len(q)
        /\ q[k].status = "failed" \/ (q[k].signaled /\ q[k].status = "done")
        /\ \A l \in 1 .. Len(q) : q[l].signaled /\ q[l].status \in {"done", "failed"} => k <= l
    BY <1>2 DEF Completed
  <1> HIDE DEF q
  <1>5. \A l \in 1 .. Len(q) : q[l].status \in {"posted", "done", "failed"}
    BY <1>2 DEF Request
  <1>6. ASSUME NEW l \in Sig(q) PROVE k <= l
    BY <1>2, <1>3, <1>4, <1>5
  <1> QED BY <1>1, <1>2, <1>3, <1>4, <1>6 DEF q
-----------------------------------------------------------------------------
(* What a step leaves alone.                                               *)

Same(v) ==
    /\ pc'[v] = pc[v] /\ i'[v] = i[v] /\ or_idx'[v] = or_idx[v] /\ dc_idx'[v] = dc_idx[v]
    /\ op'[v] = op[v] /\ out_signaled'[v] = out_signaled[v]
    /\ counter'[v] = counter[v] /\ recv_cnt'[v] = recv_cnt[v] /\ flying_cnt'[v] = flying_cnt[v]
SameShape(v) ==
    \A d \in 0 .. cfg.qps - 1 :
        Len(sq'[v][d]) = Len(sq[v][d]) /\ Sig(sq'[v][d]) = Sig(sq[v][d])
Others(w) ==
    \A v \in Workers \ {w} :
        Same(v) /\ sq'[v] = sq[v] /\ \A d \in 0 .. cfg.qps - 1 : <<v, d>> \in err' <=> <<v, d>> \in err

(* The queue a worker uses is one of its queues.                           *)
LEMMA QueueTyped ==
    ASSUME Typed, NEW v \in Workers
    PROVE  /\ dc_idx[v] \in 0 .. cfg.qps - 1 /\ Queue(v) \in Seq(Request)
           /\ \A d \in 0 .. cfg.qps - 1 : sq[v][d] \in Seq(Request)
           /\ cfg.program # "dc" => dc_idx[v] = 0 /\ 0 .. cfg.qps - 1 = {0}
  <1>1. sq[v] \in [0 .. cfg.qps - 1 -> Seq(Request)] /\ dc_idx[v] \in 0 .. cfg.qps - 1
    BY DEF Typed
  <1>2. cfg \in Configs
    BY DEF Typed
  <1>3. cfg.program # "dc" => cfg.qps = 1
    BY <1>2, ConfigIs
  <1>4. cfg.qps = 1 => 0 .. cfg.qps - 1 = {0}
    OBVIOUS
  <1>5. Queue(v) \in Seq(Request)
    BY <1>1 DEF Queue
  <1> QED BY <1>1, <1>3, <1>4, <1>5

(* The same, after a step.                                                 *)
LEMMA QueueTypedNext ==
    ASSUME Typed', NEW v \in Workers
    PROVE  /\ dc_idx'[v] \in 0 .. cfg'.qps - 1 /\ Queue(v)' \in Seq(Request)
           /\ \A d \in 0 .. cfg'.qps - 1 : sq'[v][d] \in Seq(Request)
           /\ cfg'.program # "dc" => dc_idx'[v] = 0 /\ 0 .. cfg'.qps - 1 = {0}
  <1>1. sq'[v] \in [0 .. cfg'.qps - 1 -> Seq(Request)] /\ dc_idx'[v] \in 0 .. cfg'.qps - 1
    BY DEF Typed
  <1>2. cfg' \in Configs
    BY DEF Typed
  <1>3. cfg'.program # "dc" => cfg'.qps = 1
    BY <1>2, ConfigAssumption DEF Programs
  <1>4. cfg'.qps = 1 => 0 .. cfg'.qps - 1 = {0}
    OBVIOUS
  <1>5. Queue(v)' \in Seq(Request)
    BY <1>1 DEF Queue
  <1> QED BY <1>1, <1>3, <1>4, <1>5

(* The arithmetic of a command line does not change.                       *)
LEMMA KeepPeak ==
    ASSUME cfg' = cfg
    PROVE  Stride' = Stride /\ Leftover' = Leftover /\ Peak' = Peak
  BY DEF Stride, Leftover, Peak, or_max, Max2, Min2

(* A worker whose loop does not move, whose queues keep their lengths and  *)
(* signals and which loses no failure is where it was.                     *)
LEMMA KeepShape ==
    ASSUME Typed, Typed', cfg' = cfg, proc' # "failed" => proc # "failed", err \subseteq err',
           NEW v \in Workers, Same(v), SameShape(v), OpReady(v), Disciplined(v), Fits(v)
    PROVE  OpReady(v)' /\ Disciplined(v)' /\ Fits(v)'
  <1>1. /\ Queue(v) \in Seq(Request) /\ Queue(v)' \in Seq(Request)
        /\ dc_idx[v] \in 0 .. cfg.qps - 1
        /\ \A d \in 0 .. cfg.qps - 1 : sq[v][d] \in Seq(Request) /\ sq'[v][d] \in Seq(Request)
    BY QueueTyped, QueueTypedNext
  <1>2. Len(Queue(v)') = Len(Queue(v)) /\ Sig(Queue(v)') = Sig(Queue(v))
    BY <1>1 DEF Same, SameShape, Queue
  <1>3. DOMAIN Queue(v)' = DOMAIN Queue(v) /\ (Queue(v)' = <<>> <=> Queue(v) = <<>>)
    BY <1>1, <1>2, SigIs
  <1>4. \A d \in 0 .. cfg.qps - 1 : sq'[v][d] = <<>> <=> sq[v][d] = <<>>
    BY <1>1, SigIs DEF SameShape
  <1>5. Stride' = Stride /\ Leftover' = Leftover /\ Peak' = Peak
    BY KeepPeak
  <1>6. OpReady(v)'
    BY <1>3 DEF OpReady, Keyed, Same
  <1>7. Fits(v)'
    BY <1>5 DEF Fits, SameShape
  <1>8. ASSUME NEW n PROVE Count(v, n)' <=> Count(v, n)
    BY DEF Count, Same
  <1>9. SUFFICES ASSUME proc' # "failed", proc # "failed" PROVE Disciplined(v)'
    BY <1>6, <1>7 DEF Disciplined
  <1>10. ASSUME cfg.program \in {"one", "dc"} PROVE OneAtATime(v)'
    <2>1. OneAtATime(v)
      BY <1>9, <1>10 DEF Disciplined
    <2> QED BY <1>2, <1>4, <1>8, <2>1 DEF OneAtATime, Same
  <1>11. ASSUME cfg.program \in {"or", "db"} PROVE Loops(v)'
    <2>1. Loops(v)
      BY <1>9, <1>11 DEF Disciplined
    <2>2. Between(v) => Between(v)'
      BY <1>2, <1>5, <1>8 DEF Between
    <2>3. Within(v) => Within(v)'
      BY <1>2, <1>3, <1>5, <1>8 DEF Within, FirstAt, Same
    <2>4. Waiting(v) => Waiting(v)'
      BY <1>2, <1>3, <1>5, <1>8 DEF Waiting, FirstAt, Same
    <2> QED BY <2>1, <2>2, <2>3, <2>4 DEF Loops, Same
  <1>12. ASSUME cfg.program = "fly" PROVE Flies(v)'
    <2>1. Flies(v)
      BY <1>9, <1>12 DEF Disciplined
    <2> QED BY <1>2, <1>3, <1>8, <2>1 DEF Flies, Same
  <1> QED BY <1>10, <1>11, <1>12 DEF Disciplined

(* The queues of a worker depend on its requests and failures alone.       *)
LEMMA KeepQueues ==
    ASSUME NEW v, cfg' = cfg, sq'[v] = sq[v], QueuesOK(v),
           \A d \in 0 .. cfg.qps - 1 : <<v, d>> \in err' <=> <<v, d>> \in err
    PROVE  QueuesOK(v)'
  BY DEF QueuesOK

(* The workers a step does not touch.                                      *)
LEMMA KeepOthers ==
    ASSUME Typed, Typed', cfg' = cfg, proc' # "failed" => proc # "failed", err \subseteq err',
           NEW w \in Workers, Others(w), NEW v \in Workers \ {w},
           QueuesOK(v), OpReady(v), Disciplined(v), Fits(v)
    PROVE  QueuesOK(v)' /\ OpReady(v)' /\ Disciplined(v)' /\ Fits(v)'
  <1>1. Same(v) /\ sq'[v] = sq[v]
        /\ \A d \in 0 .. cfg.qps - 1 : <<v, d>> \in err' <=> <<v, d>> \in err
    BY DEF Others
  <1>2. QueuesOK(v)'
    BY <1>1, KeepQueues
  <1>3. SameShape(v)
    BY <1>1 DEF SameShape
  <1> QED BY <1>1, <1>2, <1>3, KeepShape
-----------------------------------------------------------------------------
(* Posting and polling.                                                    *)

(* The setters keep an Op an Op, and leave it whole for its opcode.        *)
LEMMA NextOpIs ==
    ASSUME cfg \in Configs, NEW o \in Ops
    PROVE  /\ NextOp(o) \in Ops
           /\ cfg.program # "dc" => NextOp(o).addr = "remote"
           /\ cfg.program \in {"one", "db"} => NextOp(o).opcode = cfg.type
           /\ cfg.program \in {"or", "fly"} => NextOp(o).opcode = o.opcode /\ NextOp(o).word1 = "rkey"
           /\ cfg.type \in {"CAS", "FAA"} /\ cfg.program \in {"one", "db"} => NextOp(o).key = o.key
           /\ cfg.type \in {"READ", "WRITE"} /\ cfg.program \in {"one", "db"} =>
                 NextOp(o).word1 = o.word1
  <1>1. cfg.type \in Types /\ cfg.program \in Programs
    BY ConfigIs
  <1>2. /\ o.opcode \in Types /\ o.addr \in {"null", "remote"}
        /\ o.word1 \in {"null", "rkey", "operand"} /\ o.key \in {"null", "rkey"}
        /\ o = [opcode |-> o.opcode, addr |-> o.addr, word1 |-> o.word1, key |-> o.key]
    BY DEF Ops
  <1>3. CASE cfg.program \in {"one", "db"}
    <2>1. NextOp(o) = refresh(o, cfg.type)
      BY <1>3 DEF NextOp
    <2>2. CASE cfg.type \in {"READ", "WRITE"}
      <3>1. NextOp(o) = [opcode |-> cfg.type, addr |-> "remote", word1 |-> o.word1, key |-> o.key]
        BY <1>2, <2>1, <2>2 DEF refresh, set_type
      <3> QED BY <1>1, <1>2, <1>3, <2>2, <3>1 DEF Ops
    <2>3. CASE cfg.type \in {"CAS", "FAA"}
      <3>1. NextOp(o) = [opcode |-> cfg.type, addr |-> "remote", word1 |-> "operand", key |-> o.key]
        BY <1>2, <2>1, <2>3 DEF refresh, set_type, set_cas, set_fetch_add
      <3> QED BY <1>1, <1>2, <1>3, <2>3, <3>1 DEF Ops
    <2> QED BY <1>1, <2>2, <2>3 DEF Types
  <1>4. CASE cfg.program \in {"or", "fly"}
    <2>1. NextOp(o) = [opcode |-> o.opcode, addr |-> "remote", word1 |-> "rkey", key |-> o.key]
      BY <1>2, <1>4 DEF NextOp, set_rdma_rbuf
    <2> QED BY <1>2, <1>4, <2>1 DEF Ops
  <1>5. CASE cfg.program = "dc"
    <2>1. NextOp(o) = o
      BY <1>5 DEF NextOp
    <2> QED BY <1>5, <2>1
  <1> QED BY <1>1, <1>3, <1>4, <1>5 DEF Programs

(* The queue with a chain: the last request of the batch is the signal.    *)
LEMMA ChainIs ==
    ASSUME Typed, NEW w \in Workers, NEW s \in BOOLEAN
    PROVE  LET z == Queue(w) \o Chain(w, s) IN
           /\ z \in Seq(Request) /\ Len(z) = Len(Queue(w)) + cfg.batch
           /\ Sig(z) = IF s THEN Sig(Queue(w)) \cup {Len(Queue(w)) + cfg.batch}
                       ELSE Sig(Queue(w))
           /\ \A k \in 1 .. Len(Queue(w)) : z[k] = Queue(w)[k]
           /\ \A k \in 1 .. Len(Queue(w)) + cfg.batch : k > Len(Queue(w)) =>
                 z[k].status = IF <<w, dc_idx[w]>> \in err THEN "failed" ELSE "posted"
  <1> DEFINE st == IF <<w, dc_idx[w]>> \in err THEN "failed" ELSE "posted"
             q == Queue(w)
             c == Chain(w, s)
             b == cfg.batch
             z == q \o c
  <1>1. q \in Seq(Request) /\ Len(q) \in Nat
    BY QueueTyped
  <1>2. b \in Nat \ {0}
    BY ConfigIs DEF Typed
  <1>3. c = [k \in 1 .. b |-> [signaled |-> s /\ k = b, status |-> st]]
    BY DEF Chain
  <1>4. st \in {"posted", "failed"}
    OBVIOUS
  <1> HIDE DEF st, q, c, b
  <1>5. c \in Seq(Request) /\ Len(c) = b
    <2>1. \A k \in 1 .. b : [signaled |-> s /\ k = b, status |-> st] \in Request
      BY <1>4 DEF Request
    <2>2. c \in [1 .. b -> Request]
      BY <1>3, <2>1
    <2> QED BY <1>2, <2>2
  <1>6. z \in Seq(Request) /\ Len(z) = Len(q) + b
    BY <1>1, <1>2, <1>5
  <1>7. \A k \in 1 .. Len(q) : z[k] = q[k]
    BY <1>1, <1>2, <1>5
  <1>8. \A k \in 1 .. Len(q) + b : k > Len(q) => z[k] = c[k - Len(q)] /\ k - Len(q) \in 1 .. b
    BY <1>1, <1>2, <1>5
  <1>9. Len(q) \in Nat /\ Len(z) \in Nat
    BY <1>6
  <1> HIDE DEF z
  <1>10. ASSUME NEW k \in 1 .. Len(q) + b, k > Len(q)
        PROVE  z[k].status = st /\ (z[k].signaled <=> (s /\ k = Len(q) + b))
    <2>1. c[k - Len(q)] = [signaled |-> s /\ k - Len(q) = b, status |-> st]
      BY <1>3, <1>8, <1>10
    <2>2. z[k] = [signaled |-> s /\ k - Len(q) = b, status |-> st]
      BY <1>1, <1>2, <1>8, <1>10, <2>1
    <2>3. (k - Len(q) = b) <=> (k = Len(q) + b)
      BY <1>1, <1>2, <1>9
    <2>4. z[k].status = st
      BY <1>1, <1>2, <2>2
    <2>5. z[k].signaled <=> (s /\ k - Len(q) = b)
      <3> DEFINE e == s /\ k - Len(q) = b
      <3>1. z[k] = [signaled |-> e, status |-> st]
        BY <1>1, <1>2, <2>2
      <3> HIDE DEF e
      <3>2. z[k].signaled = e
        BY <3>1
      <3> QED BY <3>2 DEF e
    <2> QED BY <1>1, <1>2, <2>3, <2>4, <2>5
  <1>11. ASSUME NEW k \in 1 .. Len(q) + b
        PROVE  k \in Sig(z) <=> (k \in Sig(q) \/ (s /\ k = Len(q) + b))
    <2>1. k \in Sig(z) <=> z[k].signaled
      BY <1>1, <1>2, <1>6, SigIs
    <2>2. CASE k <= Len(q)
      <3>1. k \in 1 .. Len(q) /\ k # Len(q) + b
        BY <1>1, <1>2, <1>9, <2>2
      <3>2. k \in Sig(q) <=> q[k].signaled
        BY <1>1, <3>1, SigIs
      <3> QED BY <1>1, <1>2, <1>7, <2>1, <3>1, <3>2
    <2>3. CASE k > Len(q)
      <3>1. k \notin Sig(q)
        BY <1>1, <1>2, <1>9, <2>3, SigIs
      <3> QED BY <1>1, <1>2, <1>10, <2>1, <2>3, <3>1
    <2> QED BY <1>1, <1>2, <1>9, <2>2, <2>3
  <1>12. Sig(q) \subseteq 1 .. Len(q) /\ Sig(z) \subseteq 1 .. Len(z)
    BY <1>1, <1>2, <1>6, SigIs
  <1>13. Sig(z) = IF s THEN Sig(q) \cup {Len(q) + b} ELSE Sig(q)
    <2>1. Len(q) + b \in 1 .. Len(q) + b /\ Sig(q) \subseteq 1 .. Len(q) + b
      BY <1>1, <1>2, <1>9, <1>12
    <2>2. CASE s
      <3>1. \A k : k \in Sig(z) <=> (k \in Sig(q) \/ k = Len(q) + b)
        BY <1>1, <1>2, <1>6, <1>11, <1>12, <2>1, <2>2
      <3> QED BY <1>1, <1>2, <2>2, <3>1
    <2>3. CASE ~s
      <3>1. \A k : k \in Sig(z) <=> k \in Sig(q)
        BY <1>1, <1>2, <1>6, <1>11, <1>12, <2>1, <2>3
      <3> QED BY <1>1, <1>2, <2>3, <3>1
    <2> QED BY <1>1, <1>2, <2>2, <2>3
  <1> QED BY <1>1, <1>2, <1>6, <1>7, <1>10, <1>13 DEF z, q, b, c, st

(* A post: what it leaves alone and what it changes.                       *)
LEMMA PostEffect ==
    ASSUME Typed, NEW w \in Workers, NEW s \in BOOLEAN, execute(w, s)
    PROVE  /\ op' \in [Workers -> Ops] /\ err' = err
           /\ sq' \in [Workers -> [0 .. cfg.qps - 1 -> Seq(Request)]]
           /\ out_signaled' \in [Workers -> 0 .. Usize - 1]
           /\ op'[w] = NextOp(op[w])
           /\ out_signaled'[w] = CountSignaled(w, s)
           /\ \A v \in Workers \ {w} :
                 op'[v] = op[v] /\ sq'[v] = sq[v] /\ out_signaled'[v] = out_signaled[v]
           /\ \A d \in 0 .. cfg.qps - 1 : d # dc_idx[w] => sq'[w][d] = sq[w][d]
           /\ sq'[w][dc_idx[w]] = Queue(w) \o Chain(w, s)
  <1>1. /\ cfg \in Configs /\ op \in [Workers -> Ops] /\ dc_idx[w] \in 0 .. cfg.qps - 1
        /\ sq \in [Workers -> [0 .. cfg.qps - 1 -> Seq(Request)]]
        /\ out_signaled \in [Workers -> 0 .. Usize - 1]
    BY DEF Typed
  <1>2. /\ op' = [op EXCEPT ![w] = NextOp(op[w])] /\ err' = err
        /\ sq' = [sq EXCEPT ![w] = [sq[w] EXCEPT ![dc_idx[w]] = Queue(w) \o Chain(w, s)]]
        /\ out_signaled' = [out_signaled EXCEPT ![w] = CountSignaled(w, s)]
    BY DEF execute, Queue
  <1>3. NextOp(op[w]) \in Ops
    BY <1>1, NextOpIs
  <1>4. CountSignaled(w, s) \in 0 .. Usize - 1
    BY <1>1, BoundAssumption DEF CountSignaled
  <1>5. Queue(w) \o Chain(w, s) \in Seq(Request)
    BY ChainIs
  <1> DEFINE z == Queue(w) \o Chain(w, s)
  <1> HIDE DEF z
  <1>6. z \in Seq(Request) /\ sq' = [sq EXCEPT ![w] = [sq[w] EXCEPT ![dc_idx[w]] = z]]
    BY <1>2, <1>5 DEF z
  <1>7. op' \in [Workers -> Ops] /\ op'[w] = NextOp(op[w]) /\ \A v \in Workers \ {w} : op'[v] = op[v]
    BY <1>1, <1>2, <1>3
  <1>8. /\ out_signaled' \in [Workers -> 0 .. Usize - 1] /\ out_signaled'[w] = CountSignaled(w, s)
        /\ \A v \in Workers \ {w} : out_signaled'[v] = out_signaled[v]
    BY <1>1, <1>2, <1>4
  <1>9. /\ sq' \in [Workers -> [0 .. cfg.qps - 1 -> Seq(Request)]] /\ sq'[w][dc_idx[w]] = z
        /\ \A v \in Workers \ {w} : sq'[v] = sq[v]
        /\ \A d \in 0 .. cfg.qps - 1 : d # dc_idx[w] => sq'[w][d] = sq[w][d]
    BY <1>1, <1>6
  <1> QED BY <1>2, <1>7, <1>8, <1>9 DEF z

(* The queue after a post.                                                 *)
LEMMA Posted ==
    ASSUME Typed, NEW w \in Workers, NEW s \in BOOLEAN, execute(w, s)
    PROVE  /\ sq'[w][dc_idx[w]] \in Seq(Request)
           /\ Len(sq'[w][dc_idx[w]]) = Len(Queue(w)) + cfg.batch
           /\ Sig(sq'[w][dc_idx[w]]) = IF s THEN Sig(Queue(w)) \cup {Len(Queue(w)) + cfg.batch}
                                       ELSE Sig(Queue(w))
           /\ \A k \in 1 .. Len(Queue(w)) : sq'[w][dc_idx[w]][k] = Queue(w)[k]
           /\ \A k \in 1 .. Len(Queue(w)) + cfg.batch : k > Len(Queue(w)) =>
                 sq'[w][dc_idx[w]][k].status =
                     IF <<w, dc_idx[w]>> \in err THEN "failed" ELSE "posted"
  <1>1. sq'[w][dc_idx[w]] = Queue(w) \o Chain(w, s)
    BY PostEffect
  <1> DEFINE z == Queue(w) \o Chain(w, s)
  <1>2. /\ z \in Seq(Request) /\ Len(z) = Len(Queue(w)) + cfg.batch
        /\ Sig(z) = IF s THEN Sig(Queue(w)) \cup {Len(Queue(w)) + cfg.batch} ELSE Sig(Queue(w))
        /\ \A k \in 1 .. Len(Queue(w)) : z[k] = Queue(w)[k]
        /\ \A k \in 1 .. Len(Queue(w)) + cfg.batch : k > Len(Queue(w)) =>
              z[k].status = IF <<w, dc_idx[w]>> \in err THEN "failed" ELSE "posted"
    BY ChainIs
  <1>3. sq'[w][dc_idx[w]] = z
    BY <1>1
  <1> HIDE DEF z
  <1> QED BY <1>2, <1>3

(* The NIC still executes in order.                                        *)
LEMMA PostQueues ==
    ASSUME Typed, NEW w \in Workers, NEW s \in BOOLEAN, execute(w, s), cfg' = cfg, QueuesOK(w)
    PROVE  QueuesOK(w)'
  <1> DEFINE q == Queue(w)
             r == sq'[w][dc_idx[w]]
             b == cfg.batch
             dead == <<w, dc_idx[w]>> \in err
  <1>1. /\ r \in Seq(Request) /\ Len(r) = Len(q) + b
        /\ \A k \in 1 .. Len(q) : r[k] = q[k]
        /\ \A k \in 1 .. Len(q) + b : k > Len(q) => r[k].status = IF dead THEN "failed" ELSE "posted"
    BY Posted
  <1>2. /\ q \in Seq(Request) /\ dc_idx[w] \in 0 .. cfg.qps - 1
        /\ \A k, l \in DOMAIN q : k < l /\ q[k].status = "posted" => q[l].status = "posted"
        /\ \A k \in DOMAIN q : /\ q[k].status = "failed" => dead
                               /\ q[k].status = "posted" => ~dead
    BY QueueTyped DEF QueuesOK, Queue
  <1>3. err' = err /\ \A d \in 0 .. cfg.qps - 1 : d # dc_idx[w] => sq'[w][d] = sq[w][d]
    BY PostEffect
  <1>4. b \in Nat \ {0}
    BY ConfigIs DEF Typed
  <1> HIDE DEF q, r, b, dead
  <1>5. DOMAIN q = 1 .. Len(q) /\ DOMAIN r = 1 .. Len(q) + b /\ Len(q) \in Nat
    BY <1>1, <1>2, SigIs
  <1>6. \A k \in DOMAIN r : /\ r[k].status = "failed" => dead
                            /\ r[k].status = "posted" => ~dead
    <2> TAKE k \in DOMAIN r
    <2>1. CASE k \in 1 .. Len(q)
      BY <1>1, <1>2, <1>5, <2>1
    <2>2. CASE k > Len(q)
      BY <1>1, <1>5, <2>2
    <2> QED BY <1>4, <1>5, <2>1, <2>2
  <1>7. \A k, l \in DOMAIN r : k < l /\ r[k].status = "posted" => r[l].status = "posted"
    <2> SUFFICES ASSUME NEW k \in DOMAIN r, NEW l \in DOMAIN r, k < l, r[k].status = "posted"
                 PROVE  r[l].status = "posted"
      OBVIOUS
    <2>1. CASE l \in 1 .. Len(q)
      BY <1>1, <1>2, <1>5, <2>1
    <2>2. CASE l > Len(q)
      BY <1>1, <1>5, <1>6, <2>2
    <2> QED BY <1>4, <1>5, <2>1, <2>2
  <1>8. ASSUME NEW d \in 0 .. cfg.qps - 1
        PROVE  /\ \A k, l \in DOMAIN sq'[w][d] :
                     k < l /\ sq'[w][d][k].status = "posted" => sq'[w][d][l].status = "posted"
               /\ \A k \in DOMAIN sq'[w][d] :
                     /\ sq'[w][d][k].status = "failed" => <<w, d>> \in err'
                     /\ sq'[w][d][k].status = "posted" => <<w, d>> \notin err'
    <2>1. CASE d = dc_idx[w]
      BY <1>3, <1>6, <1>7, <2>1 DEF r, dead
    <2>2. CASE d # dc_idx[w]
      BY <1>3, <2>2 DEF QueuesOK
    <2> QED BY <2>1, <2>2
  <1> QED BY <1>8 DEF QueuesOK

(* A poll: what it leaves alone and what it changes.                       *)
LEMMA PollEffect ==
    ASSUME Typed, NEW w \in Workers, QueuesOK(w), NEW st, wait_one_comp(w, st)
    PROVE  /\ op' = op /\ err' = err
           /\ sq' \in [Workers -> [0 .. cfg.qps - 1 -> Seq(Request)]]
           /\ out_signaled' \in [Workers -> 0 .. Usize - 1]
           /\ out_signaled'[w] = (out_signaled[w] - 1) % Usize
           /\ \A v \in Workers \ {w} : sq'[v] = sq[v] /\ out_signaled'[v] = out_signaled[v]
           /\ \A d \in 0 .. cfg.qps - 1 : d # dc_idx[w] => sq'[w][d] = sq[w][d]
           /\ \E k \in 1 .. Len(Queue(w)) :
                 /\ sq'[w][dc_idx[w]] = SubSeq(Queue(w), k + 1, Len(Queue(w)))
                 /\ \A l \in Sig(Queue(w)) : k <= l
                 /\ st = "done" => k \in Sig(Queue(w))
                 /\ st = "failed" => <<w, dc_idx[w]>> \in err
  <1>1. /\ dc_idx[w] \in 0 .. cfg.qps - 1 /\ out_signaled \in [Workers -> 0 .. Usize - 1]
        /\ sq \in [Workers -> [0 .. cfg.qps - 1 -> Seq(Request)]]
    BY DEF Typed
  <1>2. PICK k \in Completed(w) :
            /\ \A l \in Completed(w) : k <= l
            /\ Queue(w)[k].status = st
            /\ sq' = [sq EXCEPT ![w][dc_idx[w]] = SubSeq(@, k + 1, Len(@))]
    BY DEF wait_one_comp
  <1>3. /\ out_signaled' = [out_signaled EXCEPT ![w] = (out_signaled[w] - 1) % Usize]
        /\ op' = op /\ err' = err
    BY DEF wait_one_comp
  <1>4. /\ Queue(w) \in Seq(Request) /\ k \in 1 .. Len(Queue(w))
        /\ \A l \in Sig(Queue(w)) : k <= l
        /\ Queue(w)[k].status = "done" => k \in Sig(Queue(w))
        /\ Queue(w)[k].status = "failed" => <<w, dc_idx[w]>> \in err
    BY <1>2, Oldest
  <1> DEFINE r == SubSeq(Queue(w), k + 1, Len(Queue(w)))
  <1>5. r \in Seq(Request)
    BY <1>4, PopTo
  <1>6. sq' = [sq EXCEPT ![w] = [sq[w] EXCEPT ![dc_idx[w]] = r]]
    BY <1>2 DEF Queue
  <1> HIDE DEF r
  <1>7. /\ sq' \in [Workers -> [0 .. cfg.qps - 1 -> Seq(Request)]] /\ sq'[w][dc_idx[w]] = r
        /\ \A v \in Workers \ {w} : sq'[v] = sq[v]
        /\ \A d \in 0 .. cfg.qps - 1 : d # dc_idx[w] => sq'[w][d] = sq[w][d]
    BY <1>1, <1>5, <1>6
  <1>8. (out_signaled[w] - 1) % Usize \in 0 .. Usize - 1
    BY <1>1, BoundAssumption
  <1>9. /\ out_signaled' \in [Workers -> 0 .. Usize - 1]
        /\ out_signaled'[w] = (out_signaled[w] - 1) % Usize
        /\ \A v \in Workers \ {w} : out_signaled'[v] = out_signaled[v]
    BY <1>1, <1>3, <1>8
  <1>10. \E l \in 1 .. Len(Queue(w)) :
            /\ sq'[w][dc_idx[w]] = SubSeq(Queue(w), l + 1, Len(Queue(w)))
            /\ \A m \in Sig(Queue(w)) : l <= m
            /\ st = "done" => l \in Sig(Queue(w))
            /\ st = "failed" => <<w, dc_idx[w]>> \in err
    <2>1. sq'[w][dc_idx[w]] = SubSeq(Queue(w), k + 1, Len(Queue(w)))
      BY <1>7 DEF r
    <2> QED BY <1>2, <1>4, <2>1, Zenon
  <1> QED BY <1>3, <1>7, <1>9, <1>10

(* The queue after a poll.                                                 *)
LEMMA Polled ==
    ASSUME Typed, NEW w \in Workers, QueuesOK(w), NEW st, wait_one_comp(w, st)
    PROVE  LET r == sq'[w][dc_idx[w]] IN
           /\ r \in Seq(Request) /\ Len(r) < Len(Queue(w))
           /\ \A p \in Nat : st = "done" /\ Sig(Queue(w)) = {p} =>
                 Sig(r) = {} /\ Len(r) = Len(Queue(w)) - p
           /\ \A p \in Nat, m \in Nat \ {0} : st = "done" /\ Sig(Queue(w)) = {p, p + m} =>
                 Sig(r) = {m} /\ Len(r) = Len(Queue(w)) - p
           /\ Sig(Queue(w)) = DOMAIN Queue(w) => Sig(r) = DOMAIN r /\ Len(r) = Len(Queue(w)) - 1
  <1> DEFINE q == Queue(w)
             r == sq'[w][dc_idx[w]]
  <1>1. q \in Seq(Request) /\ Len(q) \in Nat /\ DOMAIN q = 1 .. Len(q)
    BY QueueTyped
  <1>2. PICK k \in 1 .. Len(q) :
            /\ r = SubSeq(q, k + 1, Len(q))
            /\ \A l \in Sig(q) : k <= l
            /\ st = "done" => k \in Sig(q)
    BY PollEffect
  <1>3. k \in 1 .. Len(q) /\ k \in Nat /\ 1 <= k /\ k <= Len(q)
    BY <1>1
  <1> HIDE DEF q, r
  <1>4. /\ r \in Seq(Request) /\ Len(r) = Len(q) - k
        /\ Sig(q) = {k} => Sig(r) = {}
        /\ \A m \in Nat \ {0} : Sig(q) = {k, k + m} => Sig(r) = {m}
        /\ Sig(q) = DOMAIN q => Sig(r) = DOMAIN r
    BY <1>1, <1>2, PopTo
  <1>5. ASSUME NEW p \in Nat, st = "done", Sig(q) = {p} PROVE Sig(r) = {} /\ Len(r) = Len(q) - p
    <2>1. k = p
      BY <1>2, <1>5
    <2> QED BY <1>4, <1>5, <2>1
  <1>6. ASSUME NEW p \in Nat, NEW m \in Nat \ {0}, st = "done", Sig(q) = {p, p + m}
        PROVE  Sig(r) = {m} /\ Len(r) = Len(q) - p
    <2>1. k = p
      BY <1>2, <1>6
    <2> QED BY <1>4, <1>6, <2>1
  <1>7. ASSUME Sig(q) = DOMAIN q PROVE Sig(r) = DOMAIN r /\ Len(r) = Len(q) - 1
    <2>1. 1 \in Sig(q)
      BY <1>1, <1>7, <1>3
    <2>2. k = 1
      BY <1>2, <1>3, <2>1
    <2> QED BY <1>4, <1>7, <2>2
  <1>8. Len(r) < Len(q)
    BY <1>1, <1>4, <1>3
  <1> QED BY <1>4, <1>5, <1>6, <1>7, <1>8 DEF q, r

(* The rest of the queue is still executed in order.                       *)
LEMMA PollQueues ==
    ASSUME Typed, NEW w \in Workers, QueuesOK(w), NEW st, wait_one_comp(w, st), cfg' = cfg
    PROVE  QueuesOK(w)'
  <1> DEFINE q == Queue(w)
             r == sq'[w][dc_idx[w]]
             dead == <<w, dc_idx[w]>> \in err
  <1>1. /\ q \in Seq(Request) /\ dc_idx[w] \in 0 .. cfg.qps - 1
        /\ \A k, l \in DOMAIN q : k < l /\ q[k].status = "posted" => q[l].status = "posted"
        /\ \A k \in DOMAIN q : /\ q[k].status = "failed" => dead
                               /\ q[k].status = "posted" => ~dead
    BY QueueTyped DEF QueuesOK, Queue
  <1>2. err' = err /\ \A d \in 0 .. cfg.qps - 1 : d # dc_idx[w] => sq'[w][d] = sq[w][d]
    BY PollEffect
  <1>3. PICK k \in 1 .. Len(q) : r = SubSeq(q, k + 1, Len(q))
    BY PollEffect
  <1> HIDE DEF q, r, dead
  <1>4. /\ r \in Seq(Request) /\ Len(r) = Len(q) - k
        /\ \A l \in 1 .. Len(q) - k : r[l] = q[l + k] /\ l + k \in 1 .. Len(q)
    BY <1>1, <1>3, PopTo
  <1>5. DOMAIN q = 1 .. Len(q) /\ DOMAIN r = 1 .. Len(q) - k
    BY <1>1, <1>4, SigIs
  <1>6. \A l \in DOMAIN r : /\ r[l].status = "failed" => dead
                            /\ r[l].status = "posted" => ~dead
    BY <1>1, <1>4, <1>5
  <1>7. \A l, m \in DOMAIN r : l < m /\ r[l].status = "posted" => r[m].status = "posted"
    <2> SUFFICES ASSUME NEW l \in DOMAIN r, NEW m \in DOMAIN r, l < m, r[l].status = "posted"
                 PROVE  r[m].status = "posted"
      OBVIOUS
    <2>1. l + k < m + k /\ l + k \in DOMAIN q /\ m + k \in DOMAIN q
      BY <1>4, <1>5
    <2> QED BY <1>1, <1>4, <1>5, <2>1
  <1>8. ASSUME NEW d \in 0 .. cfg.qps - 1
        PROVE  /\ \A l, m \in DOMAIN sq'[w][d] :
                     l < m /\ sq'[w][d][l].status = "posted" => sq'[w][d][m].status = "posted"
               /\ \A l \in DOMAIN sq'[w][d] :
                     /\ sq'[w][d][l].status = "failed" => <<w, d>> \in err'
                     /\ sq'[w][d][l].status = "posted" => <<w, d>> \notin err'
    <2>1. CASE d = dc_idx[w]
      BY <1>2, <1>6, <1>7, <2>1 DEF r, dead
    <2>2. CASE d # dc_idx[w]
      BY <1>2, <2>2 DEF QueuesOK
    <2> QED BY <2>1, <2>2
  <1> QED BY <1>8 DEF QueuesOK
-----------------------------------------------------------------------------
(* Types, and the other workers.                                           *)

(* The Op a worker of bench_client or db_bench sets up.                    *)
LEMMA SetupOpIs ==
    ASSUME cfg \in Configs, NEW o \in Ops, NEW u, u = init_rbuf(set_type(o, cfg.type), cfg.type)
    PROVE  /\ u \in Ops /\ u.addr = "remote" /\ u.opcode = cfg.type
           /\ cfg.type \in {"CAS", "FAA"} => u.key = "rkey"
           /\ cfg.type \in {"READ", "WRITE"} => u.word1 = "rkey"
  <1>1. cfg.type \in Types
    BY ConfigIs
  <1>2. /\ o.opcode \in Types /\ o.addr \in {"null", "remote"}
        /\ o.word1 \in {"null", "rkey", "operand"} /\ o.key \in {"null", "rkey"}
        /\ o = [opcode |-> o.opcode, addr |-> o.addr, word1 |-> o.word1, key |-> o.key]
    BY DEF Ops
  <1>3. CASE cfg.type \in {"READ", "WRITE"}
    <2>1. u = [opcode |-> cfg.type, addr |-> "remote", word1 |-> "rkey", key |-> o.key]
      BY <1>2, <1>3 DEF init_rbuf, set_type, set_rdma_rbuf
    <2> QED BY <1>1, <1>2, <1>3, <2>1 DEF Ops
  <1>4. CASE cfg.type \in {"CAS", "FAA"}
    <2>1. u = [opcode |-> cfg.type, addr |-> "remote", word1 |-> "operand", key |-> "rkey"]
      BY <1>2, <1>4 DEF init_rbuf, set_type, set_atomic_rbuf, set_cas, set_fetch_add
    <2> QED BY <1>1, <1>2, <1>4, <2>1 DEF Ops
  <1> QED BY <1>1, <1>3, <1>4 DEF Types

(* The loops and counters of a worker.                                     *)
LEMMA TypedAt ==
    ASSUME Typed, NEW w \in Workers
    PROVE  /\ pc[w] \in Labels /\ i[w] \in Nat /\ or_idx[w] \in Nat
           /\ counter[w] \in Nat /\ recv_cnt[w] \in Nat
           /\ rounds[w] \in 0 .. MaxRounds /\ dc_idx[w] \in 0 .. cfg.qps - 1
           /\ op[w] \in Ops /\ out_signaled[w] \in 0 .. Usize - 1 /\ flying_cnt[w] \in 0 .. U64 - 1
           /\ pc \in [Workers -> Labels] /\ i \in [Workers -> Nat]
           /\ counter \in [Workers -> Nat] /\ recv_cnt \in [Workers -> Nat]
           /\ flying_cnt \in [Workers -> 0 .. U64 - 1]
  <1>1. /\ pc \in [Workers -> Labels] /\ i \in [Workers -> Nat] /\ or_idx \in [Workers -> Nat]
        /\ counter \in [Workers -> Nat] /\ recv_cnt \in [Workers -> Nat]
        /\ rounds \in [Workers -> 0 .. MaxRounds] /\ dc_idx \in [Workers -> 0 .. cfg.qps - 1]
        /\ op \in [Workers -> Ops] /\ out_signaled \in [Workers -> 0 .. Usize - 1]
        /\ flying_cnt \in [Workers -> 0 .. U64 - 1]
    BY DEF Typed
  <1> QED BY <1>1

(* An update of one worker's entry.                                        *)
LEMMA UpdateAt ==
    ASSUME NEW S, NEW f \in [Workers -> S], NEW w \in Workers, NEW x \in S
    PROVE  LET g == [f EXCEPT ![w] = x] IN
           g \in [Workers -> S] /\ g[w] = x /\ \A v \in Workers \ {w} : g[v] = f[v]
  OBVIOUS

(* The end of a turn of the loop.                                          *)
LEMMA AdvanceTypes ==
    ASSUME Typed, NEW w \in Workers, NEW idx \in Nat, Advance(w, idx)
    PROVE  /\ i' \in [Workers -> Nat] /\ or_idx' \in [Workers -> Nat] /\ pc' \in [Workers -> Labels]
           /\ \A v \in Workers \ {w} : i'[v] = i[v] /\ or_idx'[v] = or_idx[v] /\ pc'[v] = pc[v]
           /\ i'[w] = i[w] + cfg.batch /\ or_idx'[w] = idx + cfg.batch
           /\ pc'[w] = IF i[w] + cfg.batch < cfg.factor THEN "post" ELSE "final"
  <1>1. cfg.batch \in Nat /\ i[w] \in Nat
    BY ConfigIs DEF Typed
  <1>2. i' = [i EXCEPT ![w] = i[w] + cfg.batch] /\ or_idx' = [or_idx EXCEPT ![w] = idx + cfg.batch]
    BY DEF Advance
  <1>3. i[w] + cfg.batch \in Nat /\ idx + cfg.batch \in Nat
    BY <1>1
  <1>4. /\ i' \in [Workers -> Nat] /\ i'[w] = i[w] + cfg.batch
        /\ \A v \in Workers \ {w} : i'[v] = i[v]
    BY <1>2, <1>3 DEF Typed
  <1>5. /\ or_idx' \in [Workers -> Nat] /\ or_idx'[w] = idx + cfg.batch
        /\ \A v \in Workers \ {w} : or_idx'[v] = or_idx[v]
    BY <1>2, <1>3 DEF Typed
  <1>6. /\ pc' \in [Workers -> Labels] /\ \A v \in Workers \ {w} : pc'[v] = pc[v]
        /\ pc'[w] = IF i[w] + cfg.batch < cfg.factor THEN "post" ELSE "final"
    BY DEF Advance, Goto, Typed, Labels
  <1> QED BY <1>4, <1>5, <1>6

(* A step of a worker keeps the types and the other workers.               *)
LEMMA WorkTypes ==
    ASSUME Typed, NEW w \in Workers, QueuesOK(w), Work(w)
    PROVE  Typed' /\ cfg' = cfg /\ err' = err /\ Others(w)
  <1> USE DEF At, Goto, mainVars, loopVars, qpVars, cntVars
  <1>1. /\ cfg \in Configs /\ cfg.batch \in Nat \ {0} /\ cfg.factor \in Nat \ {0}
        /\ cfg.qps \in Nat \ {0} /\ {MaxRounds, U64, Usize} \subseteq Nat \ {0}
    BY ConfigIs, BoundAssumption DEF Typed
  <1>2. ASSUME NEW s \in BOOLEAN, execute(w, s)
        PROVE  /\ op' \in [Workers -> Ops] /\ err' = err
               /\ sq' \in [Workers -> [0 .. cfg.qps - 1 -> Seq(Request)]]
               /\ out_signaled' \in [Workers -> 0 .. Usize - 1]
               /\ \A v \in Workers \ {w} :
                     op'[v] = op[v] /\ sq'[v] = sq[v] /\ out_signaled'[v] = out_signaled[v]
    BY <1>2, PostEffect
  <1>3. ASSUME NEW st, wait_one_comp(w, st)
        PROVE  /\ op' = op /\ err' = err
               /\ sq' \in [Workers -> [0 .. cfg.qps - 1 -> Seq(Request)]]
               /\ out_signaled' \in [Workers -> 0 .. Usize - 1]
               /\ \A v \in Workers \ {w} : sq'[v] = sq[v] /\ out_signaled'[v] = out_signaled[v]
    BY <1>3, PollEffect
  <1>4. ASSUME TryOne(w)
        PROVE  /\ op' = op /\ err' = err /\ recv_cnt' \in [Workers -> Nat]
               /\ sq' \in [Workers -> [0 .. cfg.qps - 1 -> Seq(Request)]]
               /\ out_signaled' \in [Workers -> 0 .. Usize - 1]
               /\ \A v \in Workers \ {w} :
                     sq'[v] = sq[v] /\ out_signaled'[v] = out_signaled[v] /\ recv_cnt'[v] = recv_cnt[v]
    <2>1. CASE wait_one_comp(w, "done") /\ recv_cnt' = [recv_cnt EXCEPT ![w] = @ + 1]
      <3>1. recv_cnt' \in [Workers -> Nat] /\ \A v \in Workers \ {w} : recv_cnt'[v] = recv_cnt[v]
        <4>1. recv_cnt \in [Workers -> Nat] /\ recv_cnt[w] + 1 \in Nat
          BY TypedAt
        <4> QED BY <2>1, <4>1, UpdateAt
      <3> QED BY <1>3, <2>1, <3>1
    <2>2. CASE wait_one_comp(w, "failed") /\ UNCHANGED recv_cnt
      BY <1>3, <2>2 DEF Typed
    <2>3. CASE UNCHANGED <<op, qpVars, recv_cnt>>
      BY <2>3 DEF Typed
    <2> QED BY <1>4, <2>1, <2>2, <2>3 DEF TryOne
  <1>5. ASSUME NEW why \in {"setup", "refused", "no return"}, Abort(why)
        PROVE  Typed' /\ cfg' = cfg /\ err' = err /\ Others(w)
    BY <1>5 DEF Abort, Typed, Others, Same
  <1>6. ASSUME Setup(w) PROVE Typed' /\ cfg' = cfg /\ err' = err /\ Others(w)
    <2>1. op[w] \in Ops
      BY DEF Typed
    <2>2. init_rbuf(set_type(op[w], cfg.type), cfg.type) \in Ops
      BY <1>1, <2>1, SetupOpIs
    <2> QED BY <1>6, <2>2 DEF Setup, Typed, Labels, Others, Same
  <1>7. ASSUME WhileRunning(w) PROVE Typed' /\ cfg' = cfg /\ err' = err /\ Others(w)
    <2>1. CASE ~running
      BY <1>7, <2>1 DEF WhileRunning, Typed, Labels, Others, Same
    <2>2. CASE running
      <3>1. /\ UNCHANGED <<mainVars, proc, op, qpVars, cntVars>>
            /\ rounds[w] < MaxRounds /\ rounds' = [rounds EXCEPT ![w] = rounds[w] + 1]
            /\ i' = [i EXCEPT ![w] = 0] /\ or_idx' = [or_idx EXCEPT ![w] = 0]
            /\ dc_idx' = [dc_idx EXCEPT ![w] = (dc_idx[w] + 1) % cfg.qps]
            /\ pc' = [pc EXCEPT ![w] = "post"]
        BY <1>7, <2>2 DEF WhileRunning
      <3>2. rounds[w] + 1 \in 0 .. MaxRounds
        BY <1>1, <3>1, TypedAt
      <3>3. dc_idx[w] \in Int
        BY TypedAt
      <3>4. (dc_idx[w] + 1) % cfg.qps \in 0 .. cfg.qps - 1
        BY <1>1, <3>3
      <3>5. rounds' \in [Workers -> 0 .. MaxRounds]
        BY <3>1, <3>2 DEF Typed
      <3>6. /\ dc_idx' \in [Workers -> 0 .. cfg.qps - 1]
            /\ \A v \in Workers \ {w} : dc_idx'[v] = dc_idx[v]
        BY <3>1, <3>4 DEF Typed
      <3> QED BY <3>1, <3>5, <3>6 DEF Typed, Labels, Others, Same
    <2> QED BY <2>1, <2>2 DEF Typed
  <1>8. ASSUME WaitFails(w) PROVE Typed' /\ cfg' = cfg /\ err' = err /\ Others(w)
    BY <1>3, <1>8 DEF WaitFails, Typed, Others, Same
  <1>9. ASSUME PostOne(w) PROVE Typed' /\ cfg' = cfg /\ err' = err /\ Others(w)
    BY <1>2, <1>9 DEF PostOne, Typed, Labels, Others, Same
  <1>10. ASSUME PostWindow(w) PROVE Typed' /\ cfg' = cfg /\ err' = err /\ Others(w)
    <2>1. Signaled(w) \in BOOLEAN
      BY DEF Signaled
    <2> DEFINE idx == IF Signaled(w) THEN 0 ELSE or_idx[w]
    <2>2. idx \in Nat
      BY DEF Typed
    <2>3. /\ execute(w, Signaled(w)) /\ UNCHANGED <<mainVars, proc, dc_idx, rounds, cntVars>>
          /\ \/ /\ Goto(w, "wait") /\ or_idx' = [or_idx EXCEPT ![w] = idx] /\ UNCHANGED i
             \/ Advance(w, idx)
      BY <1>10 DEF PostWindow
    <2> HIDE DEF idx
    <2>4. ASSUME Advance(w, idx)
          PROVE  /\ i' \in [Workers -> Nat] /\ or_idx' \in [Workers -> Nat] /\ pc' \in [Workers -> Labels]
                 /\ \A v \in Workers \ {w} : i'[v] = i[v] /\ or_idx'[v] = or_idx[v] /\ pc'[v] = pc[v]
      BY <2>2, <2>4, AdvanceTypes
    <2>5. ASSUME Goto(w, "wait"), or_idx' = [or_idx EXCEPT ![w] = idx], UNCHANGED i
          PROVE  /\ i' \in [Workers -> Nat] /\ or_idx' \in [Workers -> Nat] /\ pc' \in [Workers -> Labels]
                 /\ \A v \in Workers \ {w} : i'[v] = i[v] /\ or_idx'[v] = or_idx[v] /\ pc'[v] = pc[v]
      BY <2>2, <2>5 DEF Typed, Labels
    <2> QED BY <1>2, <2>1, <2>3, <2>4, <2>5 DEF Typed, Others, Same
  <1>11. ASSUME WaitWindow(w) PROVE Typed' /\ cfg' = cfg /\ err' = err /\ Others(w)
    <2>1. /\ wait_one_comp(w, "done") /\ Advance(w, or_idx[w])
          /\ UNCHANGED <<mainVars, proc, dc_idx, rounds, cntVars>>
      BY <1>11 DEF WaitWindow
    <2>2. or_idx[w] \in Nat
      BY DEF Typed
    <2>3. /\ i' \in [Workers -> Nat] /\ or_idx' \in [Workers -> Nat] /\ pc' \in [Workers -> Labels]
          /\ \A v \in Workers \ {w} : i'[v] = i[v] /\ or_idx'[v] = or_idx[v] /\ pc'[v] = pc[v]
      BY <2>1, <2>2, AdvanceTypes
    <2> QED BY <1>3, <2>1, <2>3 DEF Typed, Others, Same
  <1>12. ASSUME EndRound(w) PROVE Typed' /\ cfg' = cfg /\ err' = err /\ Others(w)
    <2>1. /\ counter' \in [Workers -> Nat] /\ pc' \in [Workers -> Labels]
          /\ \A v \in Workers \ {w} : counter'[v] = counter[v] /\ pc'[v] = pc[v]
      <3>1. counter \in [Workers -> Nat] /\ counter[w] + cfg.factor \in Nat
        BY <1>1, TypedAt
      <3>2. counter' = [counter EXCEPT ![w] = counter[w] + cfg.factor] /\ pc' = [pc EXCEPT ![w] = "head"]
        BY <1>12 DEF EndRound
      <3>3. pc \in [Workers -> Labels] /\ "head" \in Labels
        BY DEF Typed, Labels
      <3> QED BY <3>1, <3>2, <3>3
    <2> QED BY <1>3, <1>12, <2>1 DEF EndRound, Typed, Others, Same
  <1>13. ASSUME PostFly(w) PROVE Typed' /\ cfg' = cfg /\ err' = err /\ Others(w)
    <2>1. /\ counter' \in [Workers -> Nat] /\ pc' \in [Workers -> Labels] /\ i' \in [Workers -> Nat]
          /\ \A v \in Workers \ {w} : counter'[v] = counter[v] /\ pc'[v] = pc[v] /\ i'[v] = i[v]
      <3>1. /\ counter \in [Workers -> Nat] /\ counter[w] + 1 \in Nat
            /\ i \in [Workers -> Nat] /\ i[w] + 1 \in Nat
        BY TypedAt
      <3>2. pc \in [Workers -> Labels] /\ "try" \in Labels
        BY DEF Typed, Labels
      <3>3. \/ /\ counter' = [counter EXCEPT ![w] = counter[w] + 1]
               /\ i' = [i EXCEPT ![w] = i[w] + 1] /\ pc' = pc
            \/ pc' = [pc EXCEPT ![w] = "try"] /\ i' = [i EXCEPT ![w] = 0] /\ counter' = counter
        BY <1>13 DEF PostFly
      <3> QED BY <3>1, <3>2, <3>3
    <2>2. /\ op' \in [Workers -> Ops] /\ err' = err
          /\ sq' \in [Workers -> [0 .. cfg.qps - 1 -> Seq(Request)]]
          /\ out_signaled' \in [Workers -> 0 .. Usize - 1]
          /\ \A v \in Workers \ {w} :
                op'[v] = op[v] /\ sq'[v] = sq[v] /\ out_signaled'[v] = out_signaled[v]
      BY <1>2, <1>13 DEF PostFly, Typed
    <2> QED BY <1>13, <2>1, <2>2 DEF PostFly, Typed, Others, Same
  <1>14. ASSUME TryPoll(w) PROVE Typed' /\ cfg' = cfg /\ err' = err /\ Others(w)
    <2>1. counter[w] - recv_cnt[w] \in Int
      BY TypedAt
    <2>2. Flying(w) \in 0 .. U64 - 1
      BY <1>1, <2>1 DEF Flying
    <2>3. /\ i' \in [Workers -> Nat] /\ pc' \in [Workers -> Labels]
          /\ flying_cnt' \in [Workers -> 0 .. U64 - 1]
          /\ \A v \in Workers \ {w} : i'[v] = i[v] /\ pc'[v] = pc[v] /\ flying_cnt'[v] = flying_cnt[v]
      <3>1. /\ i \in [Workers -> Nat] /\ i[w] + 1 \in Nat
            /\ flying_cnt \in [Workers -> 0 .. U64 - 1]
        BY TypedAt
      <3>2. pc \in [Workers -> Labels] /\ "head" \in Labels
        BY DEF Typed, Labels
      <3>3. \/ i' = [i EXCEPT ![w] = i[w] + 1] /\ pc' = pc /\ flying_cnt' = flying_cnt
            \/ /\ flying_cnt' = [flying_cnt EXCEPT ![w] = Flying(w)]
               /\ pc' = [pc EXCEPT ![w] = "head"] /\ i' = i
        BY <1>14 DEF TryPoll
      <3> QED BY <2>2, <3>1, <3>2, <3>3
    <2>4. /\ op' = op /\ err' = err /\ recv_cnt' \in [Workers -> Nat]
          /\ sq' \in [Workers -> [0 .. cfg.qps - 1 -> Seq(Request)]]
          /\ out_signaled' \in [Workers -> 0 .. Usize - 1]
          /\ \A v \in Workers \ {w} :
                sq'[v] = sq[v] /\ out_signaled'[v] = out_signaled[v] /\ recv_cnt'[v] = recv_cnt[v]
      BY <1>4, <1>14 DEF TryPoll, Typed
    <2> QED BY <1>14, <2>3, <2>4 DEF TryPoll, Typed, Others, Same
  <1>15. ASSUME Drain(w) PROVE Typed' /\ cfg' = cfg /\ err' = err /\ Others(w)
    BY <1>4, <1>15 DEF Drain, Typed, Labels, Others, Same
  <1>16. ASSUME End(w) PROVE Typed' /\ cfg' = cfg /\ err' = err /\ Others(w)
    BY <1>16 DEF End, Typed, Labels, Others, Same
  <1> QED BY <1>5, <1>6, <1>7, <1>8, <1>9, <1>10, <1>11, <1>12, <1>13, <1>14, <1>15, <1>16
          DEF Work, SetupFails, PostRefused, EndsWithoutReturn
-----------------------------------------------------------------------------
(* Room in the queue, and the Op.                                          *)

(* The bound of the loop of fly_bench does not wrap, whatever has failed.  *)
LEMMA FlyBound ==
    ASSUME Typed, NEW w \in Workers, cfg.program = "fly", Flies(w), pc[w] = "post"
    PROVE  (cfg.factor - flying_cnt[w]) % U64 = cfg.factor - flying_cnt[w]
  <1> DEFINE n == cfg.factor - flying_cnt[w]
  <1>1. /\ counter[w] \in Nat /\ recv_cnt[w] \in Nat /\ flying_cnt[w] \in 0 .. U64 - 1
        /\ i[w] \in Nat /\ cfg \in Configs
    BY TypedAt DEF Typed
  <1>2. counter[w] <= recv_cnt[w] + cfg.factor /\ counter[w] = recv_cnt[w] + (flying_cnt[w] + i[w])
    BY DEF Flies
  <1>3. cfg.factor \in Nat /\ cfg.factor < U64 /\ U64 \in Nat \ {0}
    BY <1>1, ConfigIs, BoundAssumption
  <1>4. n \in 0 .. U64 - 1
    <2>1. flying_cnt[w] \in Nat
      BY <1>1, <1>3
    <2> QED BY <1>1, <1>2, <1>3, <2>1
  <1> HIDE DEF n
  <1>5. n % U64 = n
    BY <1>3, <1>4
  <1> QED BY <1>5 DEF n

(* A worker that is about to post has room for a batch below its peak, and *)
(* bench_client and dc_bench have an empty queue.                          *)
LEMMA RoomToPost ==
    ASSUME Typed, NEW w \in Workers, proc = "up", pc[w] = "post", Disciplined(w),
           cfg.program = "fly" => i[w] < (cfg.factor - flying_cnt[w]) % U64
    PROVE  /\ Peak \in Nat /\ Len(Queue(w)) + cfg.batch <= Peak
           /\ cfg.program \in {"one", "dc"} => Queue(w) = <<>>
  <1>1. /\ cfg \in Configs /\ cfg.program \in Programs
        /\ cfg.factor \in Nat \ {0} /\ cfg.batch \in Nat \ {0} /\ cfg.batch <= cfg.factor
        /\ cfg.program # "db" => cfg.batch = 1
    BY ConfigIs DEF Typed
  <1>2. i[w] \in Nat /\ or_idx[w] \in Nat /\ Queue(w) \in Seq(Request) /\ Len(Queue(w)) \in Nat
        /\ dc_idx[w] \in 0 .. cfg.qps - 1
    BY TypedAt, QueueTyped
  <1>3. CASE cfg.program \in {"one", "dc"}
    <2>1. Queue(w) = <<>>
      BY <1>2, <1>3 DEF Disciplined, OneAtATime, Queue
    <2>2. Len(Queue(w)) = 0 /\ Peak = cfg.factor
      BY <1>3, <2>1 DEF Peak
    <2> QED BY <1>1, <1>3, <2>1, <2>2
  <1>4. CASE cfg.program \in {"or", "db"}
    <2>1. Loops(w)
      BY <1>4 DEF Disciplined
    <2>2. Peak \in Nat /\ Leftover + cfg.batch <= Peak /\ Leftover \in Nat
      BY <1>1, <1>4, PeakIs, LeftoverIs
    <2>3. CASE i[w] = 0
      <3>1. Len(Queue(w)) <= Leftover
        BY <2>1, <2>3 DEF Loops, Between
      <3> QED BY <1>1, <1>2, <1>4, <2>2, <3>1
    <2>4. CASE i[w] # 0
      <3>1. Within(w) /\ i[w] < cfg.factor /\ Multiple(i[w], cfg.batch)
        BY <2>1, <2>4 DEF Loops
      <3>2. PICK p \in DOMAIN Queue(w) :
                /\ Len(Queue(w)) = p + (or_idx[w] - cfg.batch)
                /\ FirstAt(w, i[w] - or_idx[w], p)
        BY <3>1 DEF Within
      <3>3. p \in Nat
        BY <1>2, <3>2
      <3>4. p + or_idx[w] <= Peak
        <4>1. /\ Multiple(or_idx[w], cfg.batch) /\ or_idx[w] \in cfg.batch .. Stride
              /\ or_idx[w] <= i[w] /\ Multiple(i[w] - or_idx[w], Stride)
          BY <3>1 DEF Within
        <4>2. IF i[w] - or_idx[w] = 0 THEN p <= Leftover + cfg.batch ELSE p = Stride
          BY <3>2 DEF FirstAt
        <4>3. i[w] <= cfg.factor
          BY <1>1, <1>2, <3>1
        <4> QED BY <1>1, <1>2, <1>4, <3>1, <3>3, <4>1, <4>2, <4>3, RoundFits
      <3>5. Len(Queue(w)) + cfg.batch = p + or_idx[w]
        BY <1>1, <1>2, <3>2, <3>3
      <3> QED BY <1>4, <2>2, <3>4, <3>5
    <2> QED BY <2>3, <2>4
  <1>5. CASE cfg.program = "fly"
    <2>1. Flies(w)
      BY <1>5 DEF Disciplined
    <2>2. i[w] < cfg.factor - flying_cnt[w]
      BY <1>5, <2>1, FlyBound
    <2>3. /\ recv_cnt[w] + Len(Queue(w)) <= counter[w]
          /\ counter[w] = recv_cnt[w] + (flying_cnt[w] + i[w])
      BY <2>1 DEF Flies
    <2>4. flying_cnt[w] \in Nat /\ recv_cnt[w] \in Nat
      BY TypedAt, BoundAssumption
    <2>5. Peak = cfg.factor
      BY <1>5 DEF Peak
    <2>6. Len(Queue(w)) + 1 <= cfg.factor
      BY <1>1, <1>2, <2>2, <2>3, <2>4
    <2> QED BY <1>1, <1>5, <2>5, <2>6
  <1> QED BY <1>1, <1>3, <1>4, <1>5 DEF Programs

(* A post keeps within the peak.                                           *)
LEMMA FitsPosted ==
    ASSUME Typed, NEW w \in Workers, proc = "up", pc[w] = "post", Disciplined(w), Fits(w),
           cfg.program = "fly" => i[w] < (cfg.factor - flying_cnt[w]) % U64,
           NEW s \in BOOLEAN, execute(w, s), cfg' = cfg
    PROVE  Fits(w)'
  <1>1. Peak' = Peak
    BY KeepPeak
  <1>2. Len(sq'[w][dc_idx[w]]) <= Peak
    BY RoomToPost, Posted
  <1>3. \A d \in 0 .. cfg.qps - 1 : d # dc_idx[w] => Len(sq'[w][d]) <= Peak
    BY PostEffect DEF Fits
  <1> QED BY <1>1, <1>2, <1>3 DEF Fits

(* And so does a poll.                                                     *)
LEMMA FitsPolled ==
    ASSUME Typed, NEW w \in Workers, QueuesOK(w), Fits(w), NEW st, wait_one_comp(w, st), cfg' = cfg
    PROVE  Fits(w)'
  <1>1. Peak' = Peak
    BY KeepPeak
  <1>2. dc_idx[w] \in 0 .. cfg.qps - 1 /\ Queue(w) \in Seq(Request) /\ cfg \in Configs
    BY QueueTyped DEF Typed
  <1>3. sq'[w][dc_idx[w]] \in Seq(Request) /\ Len(sq'[w][dc_idx[w]]) < Len(Queue(w))
    BY Polled
  <1>4. Len(Queue(w)) <= Peak
    BY <1>2 DEF Fits, Queue
  <1>5. Peak \in Int
    <2>1. cfg.program \in {"or", "db"} => Peak \in Int
      BY <1>2, PeakIs
    <2>2. cfg.program \notin {"or", "db"} => Peak = cfg.factor
      BY DEF Peak
    <2> QED BY <1>2, <2>1, <2>2, ConfigIs
  <1>6. Len(sq'[w][dc_idx[w]]) \in Nat /\ Len(Queue(w)) \in Nat
    BY <1>2, <1>3
  <1>7. Len(sq'[w][dc_idx[w]]) <= Peak
    BY <1>3, <1>4, <1>5, <1>6
  <1>8. \A d \in 0 .. cfg.qps - 1 : d # dc_idx[w] => Len(sq'[w][d]) <= Peak
    BY PollEffect DEF Fits
  <1> QED BY <1>1, <1>7, <1>8 DEF Fits

(* The Op stays ready where it is not touched and nothing is posted.       *)
LEMMA OpKept ==
    ASSUME cfg' = cfg, NEW w \in Workers, op'[w] = op[w], OpReady(w),
           pc[w] \in {"unborn", "setup"} => pc'[w] \in {"unborn", "setup"},
           cfg.program # "dc" /\ Queue(w)' # <<>> => Queue(w) # <<>>
    PROVE  OpReady(w)'
  <1>1. Keyed(w)' = Keyed(w)
    BY DEF Keyed
  <1> QED BY <1>1 DEF OpReady

(* refresh and set_rdma_rbuf leave the Op whole for what is posted.        *)
LEMMA OpPosted ==
    ASSUME Typed, NEW w \in Workers, pc[w] = "post", OpReady(w), NEW s \in BOOLEAN, execute(w, s),
           cfg' = cfg
    PROVE  OpReady(w)'
  <1>1. cfg \in Configs /\ op[w] \in Ops
    BY TypedAt DEF Typed
  <1>2. op'[w] = NextOp(op[w])
    BY PostEffect
  <1>3. /\ cfg.program \in Programs /\ cfg.type \in Types
        /\ cfg.program \in {"or", "fly"} => cfg.type = "READ"
    BY <1>1, ConfigIs
  <1>4. CASE cfg.program \in {"one", "db"}
    <2>1. Keyed(w)
      BY <1>4 DEF OpReady
    <2>2. op'[w].addr = "remote" /\ op'[w].opcode = cfg.type
      BY <1>1, <1>2, <1>4, NextOpIs
    <2>3. Keyed(w)'
      <3>1. cfg.type \in {"CAS", "FAA"} => op'[w].key = op[w].key
        BY <1>1, <1>2, <1>4, NextOpIs
      <3>2. cfg.type \in {"READ", "WRITE"} => op'[w].word1 = op[w].word1
        BY <1>1, <1>2, <1>4, NextOpIs
      <3> QED BY <1>3, <2>1, <3>1, <3>2 DEF Keyed, Types
    <2> QED BY <1>4, <2>2, <2>3 DEF OpReady
  <1>5. CASE cfg.program \in {"or", "fly"}
    <2>1. op'[w].addr = "remote" /\ op'[w].opcode = op[w].opcode /\ op'[w].word1 = "rkey"
      BY <1>1, <1>2, <1>5, NextOpIs
    <2>2. op[w].opcode = "READ"
      BY <1>5 DEF OpReady
    <2> QED BY <1>3, <1>5, <2>1, <2>2 DEF OpReady, Keyed
  <1>6. CASE cfg.program = "dc"
    BY <1>6 DEF OpReady
  <1> QED BY <1>3, <1>4, <1>5, <1>6 DEF Programs
-----------------------------------------------------------------------------
(* The discipline of each client, one action at a time.                    *)

(* What a post adds to out_signaled.                                       *)
LEMMA CountPosted ==
    ASSUME Typed, NEW w \in Workers, NEW s \in BOOLEAN, execute(w, s), NEW n \in Nat, Count(w, n),
           cfg.program \notin {"db", "dc"}
    PROVE  out_signaled'[w] = (IF s THEN n + 1 ELSE n) % Usize
  <1>1. out_signaled'[w] = CountSignaled(w, s)
    BY PostEffect
  <1>2. cfg.batch = 1 /\ Usize \in Nat \ {0}
    BY ConfigIs, BoundAssumption DEF Typed
  <1>3. Chain(w, s)[1].signaled <=> s
    <2> DEFINE e == s /\ 1 = cfg.batch
               st == IF <<w, dc_idx[w]>> \in err THEN "failed" ELSE "posted"
    <2>1. Chain(w, s)[1] = [signaled |-> e, status |-> st]
      BY <1>2 DEF Chain
    <2>2. e <=> s
      BY <1>2
    <2> HIDE DEF e, st
    <2>3. Chain(w, s)[1].signaled = e
      BY <2>1
    <2> QED BY <2>2, <2>3
  <1>4. out_signaled[w] = n % Usize
    BY DEF Count
  <1>5. ((n % Usize) + 1) % Usize = (n + 1) % Usize
    <2>1. n \in Int /\ 1 \in Int
      OBVIOUS
    <2> QED BY <1>2, <2>1, AddMod, Zenon
  <1>6. cfg.program # "dc"
    OBVIOUS
  <1> QED BY <1>1, <1>3, <1>4, <1>5, <1>6 DEF CountSignaled

(* What a poll takes from out_signaled.                                    *)
LEMMA CountPolled ==
    ASSUME Typed, NEW w \in Workers, QueuesOK(w), NEW st, wait_one_comp(w, st), NEW n \in Nat,
           Count(w, n), cfg.program \notin {"db", "dc"}
    PROVE  out_signaled'[w] = (n - 1) % Usize
  <1>1. out_signaled'[w] = (out_signaled[w] - 1) % Usize /\ Usize \in Nat \ {0}
    BY PollEffect, BoundAssumption
  <1>2. out_signaled[w] = n % Usize
    BY DEF Count
  <1>3. ((n % Usize) + (-1)) % Usize = (n + (-1)) % Usize
    <2>1. n \in Int /\ -1 \in Int
      OBVIOUS
    <2> QED BY <1>1, <2>1, AddMod, Zenon
  <1>4. n % Usize \in Int
    BY <1>1
  <1>5. (n % Usize) + (-1) = (n % Usize) - 1 /\ n + (-1) = n - 1
    BY <1>4
  <1> QED BY <1>1, <1>2, <1>3, <1>5

(* Setting up.                                                             *)
LEMMA SetupStep ==
    ASSUME Typed, Typed', NEW w \in Workers, QueuesOK(w), OpReady(w), Disciplined(w), Fits(w), Setup(w)
    PROVE  QueuesOK(w)' /\ OpReady(w)' /\ Disciplined(w)' /\ Fits(w)'
  <1> USE DEF At, Goto, mainVars, loopVars, qpVars, cntVars
  <1>1. /\ cfg' = cfg /\ sq' = sq /\ err' = err /\ proc' = proc /\ proc = "up"
        /\ pc[w] = "setup" /\ pc'[w] = "head" /\ dc_idx' = dc_idx /\ i' = i /\ or_idx' = or_idx
        /\ UNCHANGED <<out_signaled, counter, recv_cnt, flying_cnt>>
    BY DEF Setup, Typed
  <1>2. Stride' = Stride /\ Leftover' = Leftover /\ Peak' = Peak
    BY <1>1, KeepPeak
  <1>3. QueuesOK(w)' /\ Fits(w)'
    BY <1>1, <1>2 DEF QueuesOK, Fits
  <1>4. OpReady(w)'
    <2>1. cfg \in Configs /\ op[w] \in Ops /\ op \in [Workers -> Ops]
      BY TypedAt DEF Typed
    <2>2. CASE cfg.program \in {"one", "db"}
      <3>1. op'[w] = init_rbuf(set_type(op[w], cfg.type), cfg.type)
        BY <2>1, <2>2 DEF Setup
      <3>2. /\ op'[w].addr = "remote" /\ op'[w].opcode = cfg.type
            /\ cfg.type \in {"CAS", "FAA"} => op'[w].key = "rkey"
            /\ cfg.type \in {"READ", "WRITE"} => op'[w].word1 = "rkey"
        BY <2>1, <3>1, SetupOpIs
      <3>3. cfg.type \in Types
        BY <2>1, ConfigIs
      <3> QED BY <1>1, <2>2, <3>2, <3>3 DEF OpReady, Keyed, Types
    <2>3. CASE cfg.program \notin {"one", "db"}
      <3>1. op'[w] = op[w]
        BY <2>1, <2>3 DEF Setup
      <3> QED BY <1>1, <2>3, <3>1 DEF OpReady, Keyed, Queue
    <2> QED BY <2>2, <2>3
  <1>5. Disciplined(w)'
    <2>1. OneAtATime(w) => OneAtATime(w)'
      BY <1>1 DEF OneAtATime, Outside, Count
    <2>2. Loops(w) => Loops(w)'
      BY <1>1, <1>2 DEF Loops, Outside, Between, Count, Queue
    <2>3. Flies(w) => Flies(w)'
      BY <1>1 DEF Flies, Outside, Count, Queue
    <2> QED BY <1>1, <2>1, <2>2, <2>3 DEF Disciplined
  <1> QED BY <1>3, <1>4, <1>5

(* The head of the loop.                                                   *)
LEMMA WhileStep ==
    ASSUME Typed, Typed', NEW w \in Workers, QueuesOK(w), OpReady(w), Disciplined(w), Fits(w),
           WhileRunning(w)
    PROVE  QueuesOK(w)' /\ OpReady(w)' /\ Disciplined(w)' /\ Fits(w)'
  <1> USE DEF At, Goto, mainVars, loopVars, qpVars, cntVars
  <1>1. /\ cfg' = cfg /\ sq' = sq /\ err' = err /\ proc' = proc /\ proc = "up" /\ op' = op
        /\ pc[w] = "head"
        /\ UNCHANGED <<out_signaled, counter, recv_cnt, flying_cnt>>
        /\ \/ pc'[w] = "post" /\ i'[w] = 0 /\ or_idx'[w] = 0
           \/ pc'[w] = IF cfg.program = "fly" THEN "drain" ELSE "end"
    BY DEF WhileRunning, Typed
  <1>2. Stride' = Stride /\ Leftover' = Leftover /\ Peak' = Peak
    BY <1>1, KeepPeak
  <1>3. cfg \in Configs /\ cfg.factor \in Nat \ {0} /\ cfg.batch \in Nat \ {0}
    BY ConfigIs DEF Typed
  <1>4. cfg.program # "dc" => Queue(w)' = Queue(w)
    BY <1>1, QueueTyped, QueueTypedNext DEF Queue
  <1>5. QueuesOK(w)' /\ Fits(w)'
    BY <1>1, <1>2 DEF QueuesOK, Fits
  <1>6. OpReady(w)'
    BY <1>1, <1>4, OpKept
  <1>7. Disciplined(w)'
    <2>1. ASSUME cfg.program \in {"one", "dc"} PROVE OneAtATime(w)'
      <3>1. OneAtATime(w)
        BY <1>1, <2>1 DEF Disciplined
      <3> QED BY <1>1, <2>1, <3>1 DEF OneAtATime, Outside, Count
    <2>2. ASSUME cfg.program \in {"or", "db"} PROVE Loops(w)'
      <3>1. Between(w)
        BY <1>1, <2>2 DEF Disciplined, Loops, Outside
      <3>2. Between(w)'
        BY <1>1, <1>2, <1>4, <2>2, <3>1 DEF Between, Count
      <3>3. Multiple(0, cfg.batch)
        BY <1>3, Multiples
      <3> QED BY <1>1, <1>3, <2>2, <3>2, <3>3 DEF Loops, Outside
    <2>3. ASSUME cfg.program = "fly" PROVE Flies(w)'
      <3>1. Flies(w)
        BY <1>1, <2>3 DEF Disciplined
      <3>2. flying_cnt[w] + 0 = flying_cnt[w]
        BY TypedAt
      <3> QED BY <1>1, <1>4, <2>3, <3>1, <3>2 DEF Flies, Outside, Count
    <2> QED BY <1>1, <2>1, <2>2, <2>3 DEF Disciplined
  <1> QED BY <1>5, <1>6, <1>7

(* The end of a thread.                                                    *)
LEMMA EndStep ==
    ASSUME Typed, Typed', NEW w \in Workers, QueuesOK(w), OpReady(w), Disciplined(w), Fits(w), End(w)
    PROVE  QueuesOK(w)' /\ OpReady(w)' /\ Disciplined(w)' /\ Fits(w)'
  <1> USE DEF At, Goto, mainVars, loopVars, qpVars, cntVars
  <1>1. /\ cfg' = cfg /\ sq' = sq /\ err' = err /\ proc' = proc /\ proc = "up" /\ op' = op
        /\ pc[w] = "end" /\ pc'[w] = "exited" /\ dc_idx' = dc_idx
        /\ UNCHANGED <<out_signaled, counter, recv_cnt, flying_cnt>>
    BY DEF End, Typed
  <1>2. Stride' = Stride /\ Leftover' = Leftover /\ Peak' = Peak
    BY <1>1, KeepPeak
  <1>3. QueuesOK(w)' /\ Fits(w)'
    BY <1>1, <1>2 DEF QueuesOK, Fits
  <1>4. OpReady(w)'
    BY <1>1, OpKept DEF Queue
  <1>5. Disciplined(w)'
    <2>1. OneAtATime(w) => OneAtATime(w)'
      BY <1>1 DEF OneAtATime, Outside, Count
    <2>2. Loops(w) => Loops(w)'
      BY <1>1, <1>2 DEF Loops, Outside, Between, Count, Queue
    <2>3. Flies(w) => Flies(w)'
      BY <1>1 DEF Flies, Outside, Count, Queue
    <2> QED BY <1>1, <2>1, <2>2, <2>3 DEF Disciplined
  <1> QED BY <1>3, <1>4, <1>5

(* bench_client and dc_bench post.                                         *)
LEMMA PostOneStep ==
    ASSUME Typed, Typed', NEW w \in Workers, QueuesOK(w), OpReady(w), Disciplined(w), Fits(w),
           PostOne(w)
    PROVE  QueuesOK(w)' /\ OpReady(w)' /\ Disciplined(w)' /\ Fits(w)'
  <1> USE DEF At, Goto, mainVars, loopVars, qpVars, cntVars
  <1>1. /\ cfg' = cfg /\ proc' = proc /\ proc = "up" /\ execute(w, TRUE) /\ dc_idx' = dc_idx
        /\ pc[w] = "post" /\ pc'[w] = "final" /\ cfg.program \in {"one", "dc"}
    BY DEF PostOne, Typed
  <1>2. QueuesOK(w)' /\ Fits(w)' /\ OpReady(w)'
    BY <1>1, PostQueues, FitsPosted, OpPosted
  <1>3. OneAtATime(w)
    BY <1>1 DEF Disciplined
  <1>4. Queue(w) = <<>> /\ cfg.batch = 1
    BY <1>1, RoomToPost, ConfigIs DEF Typed
  <1>5. Len(Queue(w)) = 0 /\ Sig(Queue(w)) = {}
    BY <1>4 DEF Sig
  <1>6. Len(Queue(w)') = 1 /\ Sig(Queue(w)') = {1}
    <2>1. /\ Len(sq'[w][dc_idx[w]]) = Len(Queue(w)) + cfg.batch
          /\ Sig(sq'[w][dc_idx[w]]) = Sig(Queue(w)) \cup {Len(Queue(w)) + cfg.batch}
      BY <1>1, Posted
    <2>2. Queue(w)' = sq'[w][dc_idx[w]]
      BY <1>1 DEF Queue
    <2> QED BY <1>4, <1>5, <2>1, <2>2
  <1>7. \A d \in 0 .. cfg.qps - 1 : d # dc_idx[w] => sq'[w][d] = <<>>
    BY <1>1, <1>3, PostEffect DEF OneAtATime
  <1>8. Count(w, 1)'
    <2>1. Count(w, 0)
      BY <1>1, <1>3 DEF OneAtATime, Count
    <2>2. cfg.program # "dc" => out_signaled'[w] = (0 + 1) % Usize
      BY <1>1, <2>1, CountPosted
    <2> QED BY <1>1, <2>2 DEF Count
  <1>9. OneAtATime(w)'
    BY <1>1, <1>6, <1>7, <1>8 DEF OneAtATime, Count
  <1> QED BY <1>1, <1>2, <1>9 DEF Disciplined

(* A wait that fails aborts the process, and only after a failure.         *)
LEMMA WaitFailsStep ==
    ASSUME Typed, Typed', NEW w \in Workers, QueuesOK(w), OpReady(w), Disciplined(w), Fits(w),
           WaitFails(w)
    PROVE  /\ QueuesOK(w)' /\ OpReady(w)' /\ Disciplined(w)' /\ Fits(w)'
           /\ err # {} /\ proc' = "failed"
  <1> USE DEF mainVars, loopVars, qpVars, cntVars
  <1>1. /\ cfg' = cfg /\ proc' = "failed" /\ wait_one_comp(w, "failed") /\ dc_idx' = dc_idx
        /\ pc' = pc
    BY DEF WaitFails
  <1>2. QueuesOK(w)' /\ Fits(w)' /\ op' = op
    BY <1>1, PollQueues, FitsPolled, PollEffect
  <1>3. <<w, dc_idx[w]>> \in err
    BY <1>1, PollEffect
  <1>4. Queue(w)' # <<>> => Queue(w) # <<>>
    <2>1. sq'[w][dc_idx[w]] \in Seq(Request) /\ Len(sq'[w][dc_idx[w]]) < Len(Queue(w))
      BY <1>1, Polled
    <2>2. Queue(w) \in Seq(Request)
      BY QueueTyped
    <2>3. Queue(w) # <<>>
      BY <2>1, <2>2, SigIs
    <2> QED BY <2>3
  <1>5. OpReady(w)'
    BY <1>1, <1>2, <1>4, OpKept
  <1> QED BY <1>1, <1>2, <1>3, <1>5 DEF Disciplined

(* The end of a round: what is left is the unsignaled rest.                *)
LEMMA EndRoundStep ==
    ASSUME Typed, Typed', NEW w \in Workers, QueuesOK(w), OpReady(w), Disciplined(w), Fits(w),
           EndRound(w)
    PROVE  QueuesOK(w)' /\ OpReady(w)' /\ Disciplined(w)' /\ Fits(w)'
  <1> USE DEF At, Goto, mainVars, loopVars, qpVars, cntVars
  <1>1. /\ cfg' = cfg /\ proc' = proc /\ proc = "up" /\ wait_one_comp(w, "done") /\ dc_idx' = dc_idx
        /\ pc[w] = "final" /\ pc'[w] = "head"
    BY DEF EndRound, Typed
  <1>2. QueuesOK(w)' /\ Fits(w)' /\ op' = op
    BY <1>1, PollQueues, FitsPolled, PollEffect
  <1>3. /\ cfg \in Configs /\ cfg.program \in Programs /\ cfg.factor \in Nat /\ cfg.batch \in Nat
        /\ i[w] \in Nat /\ or_idx[w] \in Nat /\ Queue(w) \in Seq(Request)
        /\ DOMAIN Queue(w) = 1 .. Len(Queue(w)) /\ Len(Queue(w)) \in Nat
    <2>1. cfg \in Configs
      BY DEF Typed
    <2>2. cfg.program \in Programs /\ cfg.factor \in Nat /\ cfg.batch \in Nat
      BY <2>1, ConfigIs
    <2> QED BY <2>1, <2>2, TypedAt, QueueTyped
  <1>4. Queue(w)' = sq'[w][dc_idx[w]] /\ Queue(w)' \in Seq(Request) /\ Len(Queue(w)') < Len(Queue(w))
    BY <1>1, Polled DEF Queue
  <1>5. Queue(w) # <<>>
    BY <1>3, <1>4, SigIs
  <1>6. OpReady(w)'
    BY <1>1, <1>2, <1>5, OpKept
  <1>7. \A p \in Nat : Sig(Queue(w)) = {p} => Sig(Queue(w)') = {} /\ Len(Queue(w)') = Len(Queue(w)) - p
    BY <1>1, <1>4, Polled
  <1>8. ASSUME Count(w, 1) PROVE Count(w, 0)'
    <2>1. cfg.program \notin {"db", "dc"} => out_signaled'[w] = (1 - 1) % Usize
      BY <1>1, <1>8, CountPolled
    <2> QED BY <1>1, <2>1 DEF Count
  <1>9. CASE cfg.program \in {"one", "dc"}
    <2>1. OneAtATime(w)
      BY <1>1, <1>9 DEF Disciplined
    <2>2. Len(Queue(w)) = 1 /\ Sig(Queue(w)) = {1} /\ Count(w, 1)
      BY <1>1, <2>1 DEF OneAtATime, Count
    <2>3. Queue(w)' = <<>>
      BY <1>4, <1>7, <2>2, SigIs
    <2>4. \A d \in 0 .. cfg.qps - 1 : sq'[w][d] = <<>>
      BY <1>1, <1>4, <2>1, <2>3, PollEffect DEF OneAtATime
    <2>5. OneAtATime(w)'
      BY <1>1, <1>8, <2>2, <2>4 DEF OneAtATime, Outside, Count
    <2> QED BY <1>1, <1>2, <1>6, <1>9, <2>5 DEF Disciplined
  <1>10. CASE cfg.program \in {"or", "db"}
    <2>1. Within(w) /\ i[w] = cfg.factor
      BY <1>1, <1>10 DEF Disciplined, Loops
    <2>2. PICK p \in DOMAIN Queue(w) :
              /\ Sig(Queue(w)) = {p} /\ Len(Queue(w)) = p + (or_idx[w] - cfg.batch)
              /\ FirstAt(w, i[w] - or_idx[w], p)
      BY <2>1 DEF Within
    <2>3. p \in Nat
      BY <1>3, <2>2
    <2>4. Multiple(cfg.factor, cfg.batch)
      BY <1>3, <1>10, ConfigIs
    <2>5. Leftover = or_idx[w] - cfg.batch
      BY <1>3, <1>10, <2>1, <2>2, <2>3, <2>4, RoundFits DEF Within, FirstAt
    <2>6. Sig(Queue(w)') = {} /\ Len(Queue(w)') = Len(Queue(w)) - p
      BY <1>7, <2>2, <2>3
    <2>7. Len(Queue(w)') = Leftover
      BY <1>3, <2>2, <2>3, <2>5, <2>6
    <2>8. Leftover' = Leftover /\ Leftover \in Nat
      BY <1>1, <1>3, KeepPeak, LeftoverIs
    <2>9. Between(w)'
      <3>1. Count(w, 0)'
        BY <1>8, <2>1 DEF Within
      <3>2. Len(Queue(w)') <= Leftover
        BY <2>7, <2>8
      <3> QED BY <2>6, <2>8, <3>1, <3>2 DEF Between
    <2>10. Loops(w)'
      BY <1>1, <2>9 DEF Loops, Outside
    <2> QED BY <1>1, <1>2, <1>6, <1>10, <2>10 DEF Disciplined
  <1>11. CASE cfg.program = "fly"
    BY <1>1, <1>11 DEF Disciplined, Flies, Outside
  <1> QED BY <1>3, <1>9, <1>10, <1>11 DEF Programs

(* or_bench and db_bench post: the first request of a round, a signaled    *)
(* one that is waited for, or one in between.                              *)
LEMMA PostWindowStep ==
    ASSUME Typed, Typed', NEW w \in Workers, QueuesOK(w), OpReady(w), Disciplined(w), Fits(w),
           PostWindow(w)
    PROVE  QueuesOK(w)' /\ OpReady(w)' /\ Disciplined(w)' /\ Fits(w)'
  <1> USE DEF At, mainVars, loopVars, qpVars, cntVars
  <1> DEFINE s == Signaled(w)
             idx == IF s THEN 0 ELSE or_idx[w]
             b == cfg.batch
             q == Queue(w)
             r == Queue(w)'
  <1>1. /\ cfg' = cfg /\ proc' = proc /\ proc = "up" /\ execute(w, s) /\ dc_idx' = dc_idx
        /\ pc[w] = "post" /\ cfg.program \in {"or", "db"} /\ s \in BOOLEAN
    BY DEF PostWindow, Signaled
  <1>2. \/ s /\ i[w] # 0 /\ Goto(w, "wait") /\ or_idx' = [or_idx EXCEPT ![w] = idx] /\ i' = i
        \/ ~(s /\ i[w] # 0) /\ Advance(w, idx)
    BY DEF PostWindow
  <1>3. /\ cfg \in Configs /\ cfg.factor \in Nat /\ b \in Nat \ {0} /\ Multiple(cfg.factor, b)
        /\ Stride \in Nat \ {0} /\ b <= Stride /\ Multiple(Stride, b) /\ or_max <= Stride
        /\ Leftover \in Nat /\ or_max \in Nat \ {0}
    <2>1. cfg \in Configs
      BY DEF Typed
    <2> QED BY <1>1, <2>1, ConfigIs, StrideIs, LeftoverIs, SizeIs
  <1>4. /\ i[w] \in Nat /\ or_idx[w] \in Nat /\ q \in Seq(Request) /\ Len(q) \in Nat
        /\ DOMAIN q = 1 .. Len(q) /\ r \in Seq(Request)
    BY TypedAt, QueueTyped, QueueTypedNext
  <1>5. QueuesOK(w)' /\ Fits(w)' /\ OpReady(w)'
    BY <1>1, PostQueues, FitsPosted, OpPosted
  <1>6. Stride' = Stride /\ Leftover' = Leftover
    BY <1>1, KeepPeak
  <1>7. /\ Len(r) = Len(q) + b
        /\ Sig(r) = IF s THEN Sig(q) \cup {Len(q) + b} ELSE Sig(q)
    BY <1>1, Posted DEF Queue
  <1>8. ASSUME NEW n \in Nat, Count(w, n) PROVE IF s THEN Count(w, n + 1)' ELSE Count(w, n)'
    <2>1. cfg.program \notin {"db", "dc"} => out_signaled'[w] = (IF s THEN n + 1 ELSE n) % Usize
      BY <1>1, <1>8, CountPosted
    <2> QED BY <1>1, <2>1 DEF Count
  <1>9. Loops(w) /\ i[w] < cfg.factor /\ Multiple(i[w], b)
    BY <1>1 DEF Disciplined, Loops
  <1>10. i[w] + b <= cfg.factor /\ i[w] + b \in Nat /\ Multiple(i[w] + b, b)
    BY <1>3, <1>4, <1>9, NextMultiple
  <1>11. ASSUME Advance(w, idx), Within(w)' PROVE Loops(w)'
    <2>1. idx \in Nat
      BY <1>4
    <2>2. i'[w] = i[w] + b /\ pc'[w] = IF i[w] + b < cfg.factor THEN "post" ELSE "final"
      BY <1>11, <2>1, AdvanceTypes
    <2>3. CASE i[w] + b < cfg.factor
      <3>1. pc'[w] = "post" /\ i'[w] # 0 /\ i'[w] < cfg.factor /\ Multiple(i'[w], b)
        BY <1>3, <1>4, <1>10, <2>2, <2>3
      <3> QED BY <1>1, <1>11, <3>1 DEF Loops, Outside
    <2>4. CASE ~(i[w] + b < cfg.factor)
      <3>1. pc'[w] = "final" /\ i'[w] = cfg.factor
        BY <1>3, <1>4, <1>10, <2>2, <2>4
      <3> QED BY <1>1, <1>11, <3>1 DEF Loops, Outside
    <2> QED BY <2>3, <2>4
  <1>12. CASE i[w] = 0
    <2>1. or_idx[w] = 0 /\ Between(w)
      BY <1>1, <1>9, <1>12 DEF Loops
    <2>2. s /\ Advance(w, 0)
      <3>1. s
        BY <2>1 DEF Signaled
      <3> QED BY <1>2, <1>12, <3>1
    <2>3. i'[w] = b /\ or_idx'[w] = b
      BY <1>3, <1>12, <2>2, AdvanceTypes
    <2>4. Sig(r) = {Len(q) + b} /\ Len(q) <= Leftover /\ Count(w, 1)'
      <3>1. Sig(q) = {} /\ Len(q) <= Leftover /\ Count(w, 0)
        BY <2>1 DEF Between
      <3>2. Count(w, 0 + 1)'
        BY <1>8, <2>2, <3>1
      <3>3. Count(w, 1)'
        BY <3>2 DEF Count
      <3> QED BY <1>7, <2>2, <3>1, <3>3
    <2>5. /\ Len(q) + b \in DOMAIN r /\ Len(r) = (Len(q) + b) + (b - b)
          /\ Len(q) + b <= Leftover + b /\ b \in b .. Stride
      BY <1>3, <1>4, <1>7, <2>4
    <2>6. Multiple(b, b) /\ Multiple(0, Stride) /\ b - b = 0
      BY <1>3, Multiples
    <2>7. Within(w)'
      <3>1. cfg'.batch = b /\ i'[w] - or_idx'[w] = 0 /\ or_idx'[w] <= i'[w]
        BY <1>1, <1>3, <2>3
      <3>2. /\ Multiple(or_idx'[w], cfg'.batch) /\ or_idx'[w] \in cfg'.batch .. Stride'
            /\ Multiple(i'[w] - or_idx'[w], Stride')
        BY <1>6, <2>3, <2>5, <2>6, <3>1
      <3>3. ASSUME NEW p, p = Len(q) + b PROVE FirstAt(w, i[w] - or_idx[w], p)'
        <4>1. p <= Leftover' + cfg'.batch
          BY <1>6, <2>5, <3>1, <3>3
        <4> QED BY <3>1, <4>1 DEF FirstAt
      <3>4. \E p \in DOMAIN r :
               /\ Sig(r) = {p} /\ Len(r) = p + (or_idx'[w] - cfg'.batch)
               /\ FirstAt(w, i[w] - or_idx[w], p)'
        BY <2>3, <2>4, <2>5, <3>1, <3>3
      <3> QED BY <2>4, <3>1, <3>2, <3>4 DEF Within
    <2>8. Loops(w)'
      BY <1>11, <2>2, <2>7
    <2> QED BY <1>1, <1>5, <2>8 DEF Disciplined
  <1>13. CASE i[w] # 0
    <2>1. Within(w)
      BY <1>1, <1>9, <1>13 DEF Loops
    <2>2. PICK p \in DOMAIN q :
              /\ Sig(q) = {p} /\ Len(q) = p + (or_idx[w] - b)
              /\ FirstAt(w, i[w] - or_idx[w], p)
      BY <2>1 DEF Within
    <2>3. /\ Multiple(or_idx[w], b) /\ or_idx[w] \in b .. Stride /\ or_idx[w] <= i[w]
          /\ Multiple(i[w] - or_idx[w], Stride) /\ Count(w, 1) /\ p \in Nat /\ p <= Len(q) /\ p >= 1
      BY <1>4, <2>1, <2>2 DEF Within
    <2>4. CASE s
      <3>1. /\ pc'[w] = "wait" /\ or_idx'[w] = 0 /\ i'[w] = i[w]
        BY <1>2, <1>13, <2>4 DEF Goto, Typed
      <3>2. or_idx[w] >= or_max
        BY <1>3, <2>3, <2>4 DEF Signaled
      <3>3. or_idx[w] = Stride
        BY <1>3, <1>4, <2>3, <3>2, StrideIs
      <3>4. Len(r) = p + Stride /\ p \in DOMAIN r
        <4>1. Len(r) = p + Stride
          BY <1>3, <1>7, <2>2, <2>3, <3>3
        <4>2. DOMAIN r = 1 .. Len(r)
          BY <1>4
        <4> QED BY <1>3, <2>3, <4>1, <4>2
      <3>5. Sig(r) = {p, p + Stride}
        <4>1. Len(q) + b = p + Stride
          BY <1>7, <3>4
        <4> QED BY <1>7, <2>2, <2>4, <4>1
      <3>6. Count(w, 2)'
        <4>1. Count(w, 1 + 1)'
          BY <1>8, <2>3, <2>4
        <4> QED BY <4>1 DEF Count
      <3>7. Waiting(w)'
        BY <1>1, <1>6, <2>2, <2>3, <3>1, <3>3, <3>4, <3>5, <3>6 DEF Waiting, FirstAt
      <3>8. Loops(w)'
        BY <1>1, <1>9, <3>1, <3>7 DEF Loops, Outside
      <3> QED BY <1>1, <1>5, <3>8 DEF Disciplined
    <2>5. CASE ~s
      <3>1. Advance(w, or_idx[w])
        BY <1>2, <2>5
      <3>2. i'[w] = i[w] + b /\ or_idx'[w] = or_idx[w] + b
        BY <1>4, <3>1, AdvanceTypes
      <3>3. or_idx[w] < or_max
        BY <1>3, <1>4, <2>5 DEF Signaled
      <3>4. or_idx[w] + b <= Stride
        BY <1>3, <1>4, <2>3, <3>3, NextMultiple
      <3>5. Multiple(or_idx[w] + b, b) /\ or_idx[w] + b \in b .. Stride
        <4>1. or_idx[w] < Stride
          BY <1>3, <1>4, <3>3
        <4>2. Multiple(or_idx[w] + b, b)
          BY <1>3, <1>4, <2>3, <4>1, NextMultiple
        <4> QED BY <1>3, <1>4, <3>4, <4>2
      <3>6. /\ (i[w] + b) - (or_idx[w] + b) = i[w] - or_idx[w] /\ or_idx[w] + b <= i[w] + b
            /\ Len(r) = p + ((or_idx[w] + b) - b) /\ p \in DOMAIN r
        <4>1. /\ (i[w] + b) - (or_idx[w] + b) = i[w] - or_idx[w] /\ or_idx[w] + b <= i[w] + b
              /\ Len(r) = p + ((or_idx[w] + b) - b)
          <5> DEFINE j == i[w]
                     o == or_idx[w]
          <5>1. /\ j \in Nat /\ o \in Nat /\ b \in Nat /\ p \in Nat /\ o <= j
                /\ Len(q) = p + (o - b) /\ Len(r) = Len(q) + b
            BY <1>3, <1>4, <1>7, <2>2, <2>3
          <5> HIDE DEF j, o, b, q, r
          <5>2. /\ (j + b) - (o + b) = j - o /\ o + b <= j + b
                /\ Len(r) = p + ((o + b) - b)
            BY <5>1
          <5> QED BY <5>2 DEF j, o
        <4>2. DOMAIN r = 1 .. Len(r)
          BY <1>4
        <4> QED BY <1>3, <1>4, <2>3, <4>1, <4>2
      <3>7. Sig(r) = {p}
        BY <1>7, <2>2, <2>5
      <3>8. Count(w, 1)'
        BY <1>8, <2>3, <2>5
      <3>9. Within(w)'
        BY <1>1, <1>6, <2>2, <2>3, <3>2, <3>5, <3>6, <3>7, <3>8 DEF Within, FirstAt
      <3>10. Loops(w)'
        BY <1>11, <2>5, <3>1, <3>9
      <3> QED BY <1>1, <1>5, <3>10 DEF Disciplined
    <2> QED BY <2>4, <2>5
  <1> QED BY <1>12, <1>13

(* The older of the two signaled requests is polled.                       *)
LEMMA WaitWindowStep ==
    ASSUME Typed, Typed', NEW w \in Workers, QueuesOK(w), OpReady(w), Disciplined(w), Fits(w),
           WaitWindow(w)
    PROVE  QueuesOK(w)' /\ OpReady(w)' /\ Disciplined(w)' /\ Fits(w)'
  <1> USE DEF At, mainVars, loopVars, qpVars, cntVars
  <1> DEFINE b == cfg.batch
             q == Queue(w)
             r == Queue(w)'
  <1>1. /\ cfg' = cfg /\ proc' = proc /\ proc = "up" /\ wait_one_comp(w, "done") /\ dc_idx' = dc_idx
        /\ pc[w] = "wait" /\ Advance(w, or_idx[w])
    BY DEF WaitWindow
  <1>2. cfg.program \in {"or", "db"} /\ Loops(w)
    <2>1. cfg.program \in Programs
      BY ConfigIs DEF Typed
    <2>2. cfg.program \notin {"one", "dc", "fly"}
      BY <1>1 DEF Disciplined, OneAtATime, Flies, Outside
    <2> QED BY <1>1, <2>1, <2>2 DEF Programs, Disciplined
  <1>3. /\ cfg \in Configs /\ cfg.factor \in Nat /\ b \in Nat \ {0} /\ Multiple(cfg.factor, b)
        /\ Stride \in Nat \ {0} /\ b <= Stride
    <2>1. cfg \in Configs
      BY DEF Typed
    <2> QED BY <1>2, <2>1, ConfigIs, StrideIs
  <1>4. /\ i[w] \in Nat /\ or_idx[w] \in Nat /\ q \in Seq(Request) /\ Len(q) \in Nat
        /\ DOMAIN q = 1 .. Len(q)
    BY TypedAt, QueueTyped
  <1>5. r = sq'[w][dc_idx[w]] /\ r \in Seq(Request) /\ Len(r) < Len(q)
    BY <1>1, Polled DEF Queue
  <1>6. QueuesOK(w)' /\ Fits(w)' /\ op' = op
    BY <1>1, PollQueues, FitsPolled, PollEffect
  <1>7. Stride' = Stride /\ Leftover' = Leftover
    BY <1>1, KeepPeak
  <1>8. /\ i'[w] = i[w] + b /\ or_idx'[w] = or_idx[w] + b
        /\ pc'[w] = IF i[w] + b < cfg.factor THEN "post" ELSE "final"
    BY <1>1, <1>4, AdvanceTypes
  <1>9. OpReady(w)'
    <2>1. q # <<>>
      BY <1>4, <1>5, SigIs
    <2> QED BY <1>1, <1>6, <2>1, OpKept
  <1>10. Waiting(w) /\ i[w] < cfg.factor /\ Multiple(i[w], b)
    BY <1>1, <1>2 DEF Loops
  <1>11. PICK p \in DOMAIN q : Sig(q) = {p, p + Stride} /\ Len(q) = p + Stride
    BY <1>10 DEF Waiting
  <1>12. or_idx[w] = 0 /\ Stride <= i[w] /\ Multiple(i[w] - Stride, Stride) /\ Count(w, 2)
    BY <1>10 DEF Waiting
  <1>13. p \in Nat
    BY <1>4, <1>11
  <1>14. Sig(r) = {Stride} /\ Len(r) = Len(q) - p
    <2>1. \A k \in Nat, m \in Nat \ {0} : Sig(q) = {k, k + m} => Sig(r) = {m} /\ Len(r) = Len(q) - k
      <3> DEFINE z == sq'[w][dc_idx[w]]
      <3>1. \A k \in Nat, m \in Nat \ {0} :
                "done" = "done" /\ Sig(q) = {k, k + m} => Sig(z) = {m} /\ Len(z) = Len(q) - k
        BY <1>1, Polled, Zenon
      <3> QED BY <1>5, <3>1
    <2> QED BY <1>3, <1>11, <1>13, <2>1
  <1>15. Len(r) = Stride + (b - b) /\ Stride \in DOMAIN r
    BY <1>3, <1>5, <1>11, <1>13, <1>14
  <1>16. Count(w, 1)'
    <2>1. cfg.program \notin {"db", "dc"} => out_signaled'[w] = (2 - 1) % Usize
      BY <1>1, <1>12, CountPolled
    <2> QED BY <1>1, <2>1 DEF Count
  <1>17. /\ or_idx'[w] = b /\ i'[w] - or_idx'[w] = i[w] /\ or_idx'[w] <= i'[w] /\ i[w] # 0
         /\ or_idx'[w] \in b .. Stride
    BY <1>3, <1>4, <1>8, <1>12
  <1>18. Multiple(i[w], Stride)
    <2>1. i[w] - Stride \in Nat /\ (i[w] - Stride) + Stride = i[w]
      BY <1>3, <1>4, <1>12
    <2>2. Multiple((i[w] - Stride) + Stride, Stride)
      BY <1>3, <1>12, <2>1, Multiples
    <2> QED BY <2>1, <2>2
  <1>19. Multiple(b, b)
    BY <1>3, Multiples
  <1>20. Within(w)'
    BY <1>1, <1>7, <1>14, <1>15, <1>16, <1>17, <1>18, <1>19 DEF Within, FirstAt
  <1>21. i[w] + b <= cfg.factor /\ i[w] + b \in Nat /\ Multiple(i[w] + b, b)
    BY <1>3, <1>4, <1>10, NextMultiple
  <1>22. Loops(w)'
    <2>1. CASE i[w] + b < cfg.factor
      <3>1. pc'[w] = "post" /\ i'[w] # 0 /\ i'[w] < cfg.factor /\ Multiple(i'[w], b)
        BY <1>3, <1>4, <1>8, <1>21, <2>1
      <3> QED BY <1>1, <1>20, <3>1 DEF Loops, Outside
    <2>2. CASE ~(i[w] + b < cfg.factor)
      <3>1. pc'[w] = "final" /\ i'[w] = cfg.factor
        BY <1>3, <1>8, <1>21, <2>2
      <3> QED BY <1>1, <1>20, <3>1 DEF Loops, Outside
    <2> QED BY <2>1, <2>2
  <1> QED BY <1>1, <1>2, <1>6, <1>9, <1>22 DEF Disciplined

(* fly_bench posts.                                                        *)
LEMMA PostFlyStep ==
    ASSUME Typed, Typed', NEW w \in Workers, QueuesOK(w), OpReady(w), Disciplined(w), Fits(w),
           PostFly(w)
    PROVE  QueuesOK(w)' /\ OpReady(w)' /\ Disciplined(w)' /\ Fits(w)'
  <1> USE DEF At, Goto, mainVars, loopVars, qpVars, cntVars
  <1>1. /\ cfg' = cfg /\ proc' = proc /\ proc = "up" /\ dc_idx' = dc_idx /\ pc[w] = "post"
        /\ cfg.program = "fly" /\ recv_cnt' = recv_cnt /\ flying_cnt' = flying_cnt
    BY DEF PostFly
  <1>2. Flies(w)
    BY <1>1 DEF Disciplined
  <1>3. /\ counter[w] \in Nat /\ recv_cnt[w] \in Nat /\ i[w] \in Nat /\ flying_cnt[w] \in Int
        /\ pc \in [Workers -> Labels] /\ counter \in [Workers -> Nat] /\ i \in [Workers -> Nat]
    BY TypedAt
  <1>4. /\ Queue(w) \in Seq(Request) /\ Len(Queue(w)) \in Nat /\ cfg.factor \in Nat /\ cfg.batch = 1
        /\ dc_idx[w] = 0 /\ DOMAIN Queue(w) = 1 .. Len(Queue(w))
    <2>1. cfg \in Configs
      BY DEF Typed
    <2>2. cfg.factor \in Nat /\ cfg.batch = 1
      BY <1>1, <2>1, ConfigIs
    <2> QED BY <1>1, <2>2, QueueTyped
  <1>5. CASE i[w] >= (cfg.factor - flying_cnt[w]) % U64
    <2>1. i[w] < (cfg.factor - flying_cnt[w]) % U64 => FALSE
      BY <1>2, <1>5, <1>1, <1>3, <1>4, FlyBound
    <2>2. pc'[w] = "try" /\ op' = op /\ sq' = sq /\ err' = err /\ counter' = counter
          /\ out_signaled' = out_signaled
      BY <1>3, <2>1 DEF PostFly
    <2>3. Peak' = Peak /\ Queue(w)' = Queue(w)
      BY <1>1, <2>2, KeepPeak DEF Queue
    <2>4. QueuesOK(w)' /\ Fits(w)' /\ OpReady(w)'
      BY <1>1, <2>2, <2>3, OpKept DEF QueuesOK, Fits
    <2>5. Flies(w)'
      BY <1>1, <1>2, <2>2, <2>3 DEF Flies, Count, Outside
    <2> QED BY <1>1, <2>4, <2>5 DEF Disciplined
  <1>6. CASE i[w] < (cfg.factor - flying_cnt[w]) % U64
    <2>1. i[w] < cfg.factor - flying_cnt[w]
      BY <1>1, <1>2, <1>6, FlyBound
    <2>2. /\ execute(w, TRUE) /\ pc' = pc /\ counter' = [counter EXCEPT ![w] = counter[w] + 1]
          /\ i' = [i EXCEPT ![w] = i[w] + 1]
      <3>1. ~(i[w] >= (cfg.factor - flying_cnt[w]) % U64)
        BY <1>1, <1>2, <1>3, <1>4, <1>6, FlyBound
      <3> QED BY <3>1 DEF PostFly
    <2>3. counter'[w] = counter[w] + 1 /\ i'[w] = i[w] + 1
      BY <1>3, <2>2
    <2>4. QueuesOK(w)' /\ Fits(w)' /\ OpReady(w)' /\ err' = err
      BY <1>1, <1>6, <2>2, PostQueues, FitsPosted, OpPosted, PostEffect
    <2>5. /\ Queue(w)' \in Seq(Request) /\ Len(Queue(w)') = Len(Queue(w)) + 1
          /\ Sig(Queue(w)') = Sig(Queue(w)) \cup {Len(Queue(w)) + 1}
      BY <1>1, <1>4, <2>2, Posted DEF Queue
    <2>6. Sig(Queue(w)') = DOMAIN Queue(w)'
      <3>1. DOMAIN Queue(w)' = 1 .. Len(Queue(w)) + 1
        BY <2>5, SigIs
      <3>2. Sig(Queue(w)) = 1 .. Len(Queue(w))
        BY <1>2, <1>4 DEF Flies
      <3> QED BY <1>4, <2>5, <3>1, <3>2
    <2>7. out_signaled'[w] = (Len(Queue(w)) + 1) % Usize
      <3>1. Count(w, Len(Queue(w)))
        BY <1>2 DEF Flies
      <3> QED BY <1>1, <1>4, <2>2, <3>1, CountPosted
    <2>8. /\ recv_cnt[w] + Len(Queue(w)) <= counter[w]
          /\ counter[w] = recv_cnt[w] + (flying_cnt[w] + i[w])
          /\ <<w, 0>> \notin err => recv_cnt[w] + Len(Queue(w)) = counter[w]
      BY <1>1, <1>2 DEF Flies
    <2>9. /\ recv_cnt'[w] + Len(Queue(w)') <= counter'[w]
          /\ counter'[w] <= recv_cnt'[w] + cfg.factor
          /\ counter'[w] = recv_cnt'[w] + (flying_cnt'[w] + i'[w])
          /\ <<w, 0>> \notin err => recv_cnt'[w] + Len(Queue(w)') = counter'[w]
      <3> DEFINE n == Len(Queue(w))
                 c == counter[w]
                 e == recv_cnt[w]
                 f == flying_cnt[w]
                 j == i[w]
      <3>1. /\ n \in Nat /\ c \in Nat /\ e \in Nat /\ f \in Int /\ j \in Nat /\ cfg.factor \in Nat
            /\ j < cfg.factor - f /\ e + n <= c /\ c = e + (f + j)
            /\ <<w, 0>> \notin err => e + n = c
        BY <1>3, <1>4, <2>1, <2>8
      <3>2. /\ counter'[w] = c + 1 /\ recv_cnt'[w] = e /\ flying_cnt'[w] = f /\ i'[w] = j + 1
            /\ Len(Queue(w)') = n + 1
        BY <1>1, <2>3, <2>5
      <3> HIDE DEF n, c, e, f, j
      <3>3. /\ e + (n + 1) <= c + 1 /\ c + 1 <= e + cfg.factor /\ c + 1 = e + (f + (j + 1))
            /\ <<w, 0>> \notin err => e + (n + 1) = c + 1
        BY <3>1
      <3> QED BY <3>2, <3>3
    <2>10. Flies(w)'
      BY <1>1, <2>2, <2>4, <2>5, <2>6, <2>7, <2>9 DEF Flies, Count, Outside
    <2> QED BY <1>1, <2>4, <2>10 DEF Disciplined
  <1> QED BY <1>5, <1>6 DEF PostFly

(* A poll of fly_bench, which takes a completion or none.                  *)
LEMMA TryOneStep ==
    ASSUME Typed, NEW w \in Workers, QueuesOK(w), Fits(w), Flies(w), cfg.program = "fly", TryOne(w),
           cfg' = cfg, dc_idx' = dc_idx, counter' = counter
    PROVE  /\ err' = err /\ op' = op /\ QueuesOK(w)' /\ Fits(w)'
           /\ Queue(w)' # <<>> => Queue(w) # <<>>
           /\ Sig(Queue(w)') = DOMAIN Queue(w)' /\ Count(w, Len(Queue(w)))'
           /\ recv_cnt'[w] + Len(Queue(w)') <= counter[w]
           /\ counter[w] <= recv_cnt'[w] + cfg.factor
           /\ <<w, 0>> \notin err => recv_cnt'[w] + Len(Queue(w)') = counter[w]
  <1> USE DEF qpVars
  <1> DEFINE n == Len(Queue(w))
             c == counter[w]
             e == recv_cnt[w]
  <1>1. /\ Sig(Queue(w)) = DOMAIN Queue(w) /\ Count(w, n)
        /\ e + n <= c /\ c <= e + cfg.factor
        /\ <<w, 0>> \notin err => e + n = c
    BY DEF Flies
  <1>2. c \in Nat /\ e \in Nat /\ recv_cnt \in [Workers -> Nat]
    BY TypedAt
  <1>3. Queue(w) \in Seq(Request) /\ n \in Nat /\ dc_idx[w] = 0
    BY QueueTyped
  <1>4. cfg.factor \in Nat
    BY ConfigIs DEF Typed
  <1>5. ASSUME NEW st, wait_one_comp(w, st)
        PROVE  /\ err' = err /\ op' = op /\ QueuesOK(w)' /\ Fits(w)'
               /\ Queue(w) # <<>> /\ Sig(Queue(w)') = DOMAIN Queue(w)'
               /\ Len(Queue(w)') = n - 1 /\ Count(w, Len(Queue(w)))'
               /\ st = "failed" => <<w, 0>> \in err
    <2>1. err' = err /\ op' = op /\ QueuesOK(w)' /\ Fits(w)'
      BY <1>5, PollQueues, FitsPolled, PollEffect
    <2>2. Queue(w)' = sq'[w][dc_idx[w]]
      BY DEF Queue
    <2>3. /\ Queue(w)' \in Seq(Request) /\ Len(Queue(w)') < n
          /\ Sig(Queue(w)') = DOMAIN Queue(w)' /\ Len(Queue(w)') = n - 1
      BY <1>1, <1>5, <2>2, Polled
    <2>4. Queue(w) # <<>>
      BY <1>3, <2>3, SigIs
    <2>5. out_signaled'[w] = (n - 1) % Usize
      BY <1>1, <1>3, <1>5, CountPolled
    <2>6. Count(w, Len(Queue(w)))'
      BY <2>3, <2>5 DEF Count
    <2>7. st = "failed" => <<w, 0>> \in err
      BY <1>3, <1>5, PollEffect
    <2> QED BY <2>1, <2>3, <2>4, <2>6, <2>7
  <1>6. CASE wait_one_comp(w, "done") /\ recv_cnt' = [recv_cnt EXCEPT ![w] = @ + 1]
    <2>1. recv_cnt'[w] = e + 1
      BY <1>2, <1>6
    <2>2. Len(Queue(w)') = n - 1
      BY <1>5, <1>6
    <2> HIDE DEF n, c, e
    <2>3. /\ recv_cnt'[w] + Len(Queue(w)') <= c /\ c <= recv_cnt'[w] + cfg.factor
          /\ <<w, 0>> \notin err => recv_cnt'[w] + Len(Queue(w)') = c
      BY <1>1, <1>2, <1>3, <1>4, <2>1, <2>2
    <2> QED BY <1>5, <1>6, <2>3 DEF c
  <1>7. CASE wait_one_comp(w, "failed") /\ UNCHANGED recv_cnt
    <2>1. recv_cnt'[w] = e
      BY <1>7
    <2>2. Len(Queue(w)') = n - 1 /\ <<w, 0>> \in err
      BY <1>5, <1>7
    <2> HIDE DEF n, c, e
    <2>3. recv_cnt'[w] + Len(Queue(w)') <= c /\ c <= recv_cnt'[w] + cfg.factor
      BY <1>1, <1>2, <1>3, <1>4, <2>1, <2>2
    <2> QED BY <1>5, <1>7, <2>2, <2>3 DEF c
  <1>8. CASE UNCHANGED <<op, qpVars, recv_cnt>>
    <2>1. Queue(w)' = Queue(w) /\ err' = err /\ recv_cnt'[w] = e /\ op' = op
      BY <1>8 DEF Queue
    <2>2. QueuesOK(w)'
      BY <1>8 DEF QueuesOK
    <2>3. Fits(w)'
      BY <1>8, KeepPeak DEF Fits
    <2>4. Count(w, Len(Queue(w)))'
      BY <1>1, <1>8, <2>1 DEF Count
    <2> QED BY <1>1, <2>1, <2>2, <2>3, <2>4
  <1> QED BY <1>6, <1>7, <1>8 DEF TryOne

(* fly_bench polls, and reads off what is in flight.                       *)
LEMMA TryPollStep ==
    ASSUME Typed, Typed', NEW w \in Workers, QueuesOK(w), OpReady(w), Disciplined(w), Fits(w),
           TryPoll(w)
    PROVE  QueuesOK(w)' /\ OpReady(w)' /\ Disciplined(w)' /\ Fits(w)'
  <1> USE DEF At, Goto, mainVars, loopVars, qpVars, cntVars
  <1>1. /\ cfg' = cfg /\ proc' = proc /\ proc = "up" /\ dc_idx' = dc_idx /\ counter' = counter
        /\ pc[w] = "try"
    BY DEF TryPoll
  <1>2. cfg.program = "fly" /\ Flies(w)
    <2>1. cfg.program \in Programs
      BY ConfigIs DEF Typed
    <2>2. cfg.program \notin {"one", "dc", "or", "db"}
      BY <1>1 DEF Disciplined, OneAtATime, Loops, Outside
    <2> QED BY <1>1, <2>1, <2>2 DEF Programs, Disciplined
  <1>3. CASE TryOne(w) /\ pc' = pc
    <2>1. /\ err' = err /\ op' = op /\ QueuesOK(w)' /\ Fits(w)'
          /\ Queue(w)' # <<>> => Queue(w) # <<>>
          /\ Sig(Queue(w)') = DOMAIN Queue(w)' /\ Count(w, Len(Queue(w)))'
          /\ recv_cnt'[w] + Len(Queue(w)') <= counter[w]
          /\ counter[w] <= recv_cnt'[w] + cfg.factor
          /\ <<w, 0>> \notin err => recv_cnt'[w] + Len(Queue(w)') = counter[w]
      BY <1>1, <1>2, <1>3, TryOneStep
    <2>2. OpReady(w)'
      BY <1>1, <1>3, <2>1, OpKept
    <2>3. Flies(w)'
      BY <1>1, <1>3, <2>1 DEF Flies, Outside
    <2> QED BY <1>1, <1>2, <2>1, <2>2, <2>3 DEF Disciplined
  <1>4. CASE /\ flying_cnt' = [flying_cnt EXCEPT ![w] = Flying(w)]
             /\ pc' = [pc EXCEPT ![w] = "head"] /\ UNCHANGED <<recv_cnt, op, qpVars>>
    <2>1. /\ counter[w] \in Nat /\ recv_cnt[w] \in Nat /\ pc \in [Workers -> Labels]
          /\ flying_cnt \in [Workers -> 0 .. U64 - 1]
      BY TypedAt
    <2>2. /\ Queue(w) \in Seq(Request) /\ Len(Queue(w)) \in Nat
          /\ cfg.factor \in Nat /\ cfg.factor < U64 /\ U64 \in Nat \ {0}
      <3>1. cfg \in Configs
        BY DEF Typed
      <3>2. cfg.factor \in Nat /\ cfg.factor < U64 /\ U64 \in Nat \ {0}
        BY <3>1, ConfigIs, BoundAssumption
      <3> QED BY <3>2, QueueTyped
    <2>3. flying_cnt'[w] = Flying(w) /\ pc'[w] = "head" /\ Queue(w)' = Queue(w)
      BY <1>1, <1>4, <2>1 DEF Queue
    <2>4. Flying(w) = counter[w] - recv_cnt[w]
      <3> DEFINE n == counter[w] - recv_cnt[w]
      <3>1. recv_cnt[w] + Len(Queue(w)) <= counter[w] /\ counter[w] <= recv_cnt[w] + cfg.factor
        BY <1>2 DEF Flies
      <3>2. n \in 0 .. U64 - 1
        BY <2>1, <2>2, <3>1
      <3> HIDE DEF n
      <3>3. n % U64 = n
        BY <2>2, <3>2
      <3> QED BY <3>3 DEF n, Flying
    <2>5. counter[w] = recv_cnt[w] + flying_cnt'[w]
      BY <2>1, <2>3, <2>4
    <2>6. QueuesOK(w)' /\ OpReady(w)' /\ Fits(w)'
      BY <1>1, <1>4, <2>3, OpKept, KeepPeak DEF QueuesOK, Fits
    <2>7. Flies(w)'
      BY <1>1, <1>2, <1>4, <2>3, <2>5 DEF Flies, Count, Outside
    <2> QED BY <1>1, <1>2, <2>6, <2>7 DEF Disciplined
  <1> QED BY <1>3, <1>4 DEF TryPoll

(* fly_bench drains what is in flight.                                     *)
LEMMA DrainStep ==
    ASSUME Typed, Typed', NEW w \in Workers, QueuesOK(w), OpReady(w), Disciplined(w), Fits(w),
           Drain(w)
    PROVE  QueuesOK(w)' /\ OpReady(w)' /\ Disciplined(w)' /\ Fits(w)'
  <1> USE DEF At, Goto, mainVars, loopVars, qpVars, cntVars
  <1>1. /\ cfg' = cfg /\ proc' = proc /\ proc = "up" /\ dc_idx' = dc_idx /\ counter' = counter
        /\ pc[w] = "drain" /\ flying_cnt' = flying_cnt
    BY DEF Drain
  <1>2. cfg.program = "fly" /\ Flies(w)
    <2>1. cfg.program \in Programs
      BY ConfigIs DEF Typed
    <2>2. cfg.program \notin {"one", "dc", "or", "db"}
      BY <1>1 DEF Disciplined, OneAtATime, Loops, Outside
    <2> QED BY <1>1, <2>1, <2>2 DEF Programs, Disciplined
  <1>3. CASE TryOne(w) /\ pc' = pc
    <2>1. /\ err' = err /\ op' = op /\ QueuesOK(w)' /\ Fits(w)'
          /\ Queue(w)' # <<>> => Queue(w) # <<>>
          /\ Sig(Queue(w)') = DOMAIN Queue(w)' /\ Count(w, Len(Queue(w)))'
          /\ recv_cnt'[w] + Len(Queue(w)') <= counter[w]
          /\ counter[w] <= recv_cnt'[w] + cfg.factor
          /\ <<w, 0>> \notin err => recv_cnt'[w] + Len(Queue(w)') = counter[w]
      BY <1>1, <1>2, <1>3, TryOneStep
    <2>2. OpReady(w)'
      BY <1>1, <1>3, <2>1, OpKept
    <2>3. Flies(w)'
      BY <1>1, <1>3, <2>1 DEF Flies, Outside
    <2> QED BY <1>1, <1>2, <2>1, <2>2, <2>3 DEF Disciplined
  <1>4. CASE recv_cnt[w] >= counter[w] /\ pc' = [pc EXCEPT ![w] = "end"]
             /\ UNCHANGED <<recv_cnt, op, qpVars>>
    <2>1. counter[w] \in Nat /\ recv_cnt[w] \in Nat /\ pc \in [Workers -> Labels]
      BY TypedAt
    <2>2. Queue(w) \in Seq(Request) /\ Len(Queue(w)) \in Nat
      BY QueueTyped
    <2>3. pc'[w] = "end" /\ Queue(w)' = Queue(w)
      BY <1>1, <1>4, <2>1 DEF Queue
    <2>4. recv_cnt[w] + Len(Queue(w)) <= counter[w]
      BY <1>2 DEF Flies
    <2>5. counter[w] = recv_cnt[w]
      BY <1>4, <2>1, <2>2, <2>4
    <2>6. QueuesOK(w)' /\ OpReady(w)' /\ Fits(w)'
      BY <1>1, <1>4, <2>3, OpKept, KeepPeak DEF QueuesOK, Fits
    <2>7. Flies(w)'
      BY <1>1, <1>2, <1>4, <2>3, <2>5 DEF Flies, Count, Outside
    <2> QED BY <1>1, <1>2, <2>6, <2>7 DEF Disciplined
  <1> QED BY <1>3, <1>4 DEF Drain
-----------------------------------------------------------------------------
(* The NIC and the main thread.                                            *)

(* A queue in which a request is executed keeps its shape and its order.   *)
LEMMA ExecutedIs ==
    ASSUME NEW q \in Seq(Request), NEW k \in 1 .. Len(q), q[k].status = "posted",
           \A l \in 1 .. k - 1 : q[l].status # "posted",
           \A l, m \in DOMAIN q : l < m /\ q[l].status = "posted" => q[m].status = "posted"
    PROVE  LET z == [q EXCEPT ![k].status = "done"] IN
           /\ z \in Seq(Request) /\ Len(z) = Len(q) /\ Sig(z) = Sig(q) /\ DOMAIN z = DOMAIN q
           /\ z[k].status = "done" /\ \A l \in DOMAIN q : l # k => z[l] = q[l]
           /\ \A l, m \in DOMAIN z : l < m /\ z[l].status = "posted" => z[m].status = "posted"
  <1> DEFINE e == [q[k] EXCEPT !.status = "done"]
             z == [q EXCEPT ![k] = e]
  <1>1. Len(q) \in Nat /\ DOMAIN q = 1 .. Len(q) /\ q[k] \in Request
    OBVIOUS
  <1>2. e \in Request /\ e.status = "done" /\ e.signaled = q[k].signaled
    BY <1>1 DEF Request
  <1> HIDE DEF e
  <1>3. z \in Seq(Request) /\ Len(z) = Len(q) /\ DOMAIN z = DOMAIN q
    BY <1>1, <1>2
  <1>4. z[k] = e /\ \A l \in DOMAIN q : l # k => z[l] = q[l]
    BY <1>1
  <1> HIDE DEF z
  <1>5. Sig(z) = Sig(q)
    <2>1. \A l \in DOMAIN q : z[l].signaled = q[l].signaled
      BY <1>1, <1>2, <1>4
    <2> QED BY <1>3, <2>1 DEF Sig
  <1>6. ASSUME NEW l \in DOMAIN z, NEW m \in DOMAIN z, l < m, z[l].status = "posted"
        PROVE  z[m].status = "posted"
    <2>1. l # k
      BY <1>2, <1>4, <1>6
    <2>2. q[l].status = "posted" /\ q[m].status = "posted"
      BY <1>3, <1>4, <1>6, <2>1
    <2>3. m # k
      BY <1>1, <1>3, <1>6, <2>2
    <2> QED BY <1>3, <1>4, <2>2, <2>3
  <1>7. z[k].status = "done"
    BY <1>2, <1>4
  <1> QED BY <1>3, <1>4, <1>5, <1>6, <1>7 DEF z, e

(* The NIC executes a request.                                             *)
LEMMA ExecuteStep ==
    ASSUME Typed, NEW w \in Workers, QueuesOK(w), NicExecute(w)
    PROVE  /\ Typed' /\ cfg' = cfg /\ err' = err /\ proc' = proc /\ Others(w)
           /\ Same(w) /\ SameShape(w) /\ QueuesOK(w)'
  <1> USE DEF mainVars, loopVars, cntVars
  <1>1. PICK d \in 0 .. cfg.qps - 1, k \in 1 .. Depth :
            /\ k \in DOMAIN sq[w][d]
            /\ sq[w][d][k].status = "posted"
            /\ \A l \in 1 .. k - 1 : sq[w][d][l].status # "posted"
            /\ sq' = [sq EXCEPT ![w][d][k].status = "done"]
    BY DEF NicExecute
  <1>2. UNCHANGED <<mainVars, proc, loopVars, op, err, out_signaled, cntVars>>
    BY DEF NicExecute
  <1> DEFINE q == sq[w][d]
             z == [q EXCEPT ![k].status = "done"]
  <1>3. q \in Seq(Request) /\ sq \in [Workers -> [0 .. cfg.qps - 1 -> Seq(Request)]]
    BY QueueTyped DEF Typed
  <1>4. /\ \A l, m \in DOMAIN q : l < m /\ q[l].status = "posted" => q[m].status = "posted"
        /\ \A l \in DOMAIN q : /\ q[l].status = "failed" => <<w, d>> \in err
                               /\ q[l].status = "posted" => <<w, d>> \notin err
    BY DEF QueuesOK
  <1>5. sq' = [sq EXCEPT ![w] = [sq[w] EXCEPT ![d] = z]]
    BY <1>1
  <1>6. k \in 1 .. Len(q) /\ q[k].status = "posted" /\ \A l \in 1 .. k - 1 : q[l].status # "posted"
    BY <1>1, <1>3
  <1>7. /\ z \in Seq(Request) /\ Len(z) = Len(q) /\ Sig(z) = Sig(q) /\ DOMAIN z = DOMAIN q
        /\ z[k].status = "done" /\ \A l \in DOMAIN q : l # k => z[l] = q[l]
        /\ \A l, m \in DOMAIN z : l < m /\ z[l].status = "posted" => z[m].status = "posted"
    BY <1>3, <1>4, <1>6, ExecutedIs
  <1> HIDE DEF z
  <1>8. /\ sq' \in [Workers -> [0 .. cfg.qps - 1 -> Seq(Request)]] /\ sq'[w][d] = z
        /\ \A v \in Workers \ {w} : sq'[v] = sq[v]
        /\ \A c \in 0 .. cfg.qps - 1 : c # d => sq'[w][c] = sq[w][c]
    BY <1>3, <1>5, <1>7
  <1>9. Typed' /\ Others(w) /\ Same(w)
    BY <1>2, <1>8 DEF Typed, Others, Same
  <1>10. SameShape(w)
    BY <1>7, <1>8 DEF SameShape
  <1>11. \A l \in DOMAIN z : /\ z[l].status = "failed" => <<w, d>> \in err
                             /\ z[l].status = "posted" => <<w, d>> \notin err
    <2> SUFFICES ASSUME NEW l \in DOMAIN z
                 PROVE  /\ z[l].status = "failed" => <<w, d>> \in err
                        /\ z[l].status = "posted" => <<w, d>> \notin err
      OBVIOUS
    <2>1. CASE l = k
      BY <1>7, <2>1
    <2>2. CASE l # k
      BY <1>4, <1>7, <2>2
    <2> QED BY <2>1, <2>2
  <1>12. ASSUME NEW c \in 0 .. cfg.qps - 1
         PROVE  /\ \A l, m \in DOMAIN sq'[w][c] :
                      l < m /\ sq'[w][c][l].status = "posted" => sq'[w][c][m].status = "posted"
                /\ \A l \in DOMAIN sq'[w][c] :
                      /\ sq'[w][c][l].status = "failed" => <<w, c>> \in err'
                      /\ sq'[w][c][l].status = "posted" => <<w, c>> \notin err'
    <2>1. CASE c = d
      BY <1>2, <1>7, <1>8, <1>11, <2>1
    <2>2. CASE c # d
      BY <1>2, <1>8, <2>2 DEF QueuesOK
    <2> QED BY <2>1, <2>2
  <1>13. QueuesOK(w)'
    BY <1>2, <1>12 DEF QueuesOK
  <1> QED BY <1>2, <1>9, <1>10, <1>13

(* The NIC fails a request and flushes the rest.                           *)
LEMMA FailStep ==
    ASSUME Typed, NEW w \in Workers, QueuesOK(w), NicFail(w)
    PROVE  /\ Typed' /\ cfg' = cfg /\ err \subseteq err' /\ proc' = proc /\ Others(w)
           /\ Same(w) /\ SameShape(w) /\ QueuesOK(w)'
  <1> USE DEF mainVars, loopVars, cntVars
  <1>1. PICK d \in 0 .. cfg.qps - 1 :
            /\ err' = err \cup {<<w, d>>}
            /\ sq' = [sq EXCEPT ![w][d] =
                         [k \in DOMAIN @ |-> IF @[k].status = "posted"
                                             THEN [@[k] EXCEPT !.status = "failed"] ELSE @[k]]]
    BY DEF NicFail
  <1>2. UNCHANGED <<mainVars, proc, loopVars, op, out_signaled, cntVars>>
    BY DEF NicFail
  <1> DEFINE q == sq[w][d]
             z == [k \in DOMAIN q |-> IF q[k].status = "posted"
                                      THEN [q[k] EXCEPT !.status = "failed"] ELSE q[k]]
  <1>3. q \in Seq(Request) /\ sq \in [Workers -> [0 .. cfg.qps - 1 -> Seq(Request)]]
    BY QueueTyped DEF Typed
  <1>4. sq' = [sq EXCEPT ![w] = [sq[w] EXCEPT ![d] = z]]
    BY <1>1
  <1>5. ASSUME NEW k \in DOMAIN q
        PROVE  z[k] \in Request /\ z[k].signaled = q[k].signaled /\ z[k].status # "posted"
    <2>1. q[k] \in Request
      BY <1>3
    <2>2. [q[k] EXCEPT !.status = "failed"] \in Request
      BY <2>1 DEF Request
    <2>3. CASE q[k].status = "posted"
      BY <2>1, <2>2, <2>3 DEF Request
    <2>4. CASE q[k].status # "posted"
      BY <2>1, <2>4
    <2> QED BY <2>3, <2>4
  <1>6. z \in Seq(Request) /\ Len(z) = Len(q) /\ DOMAIN z = DOMAIN q
    <2>1. Len(q) \in Nat /\ DOMAIN q = 1 .. Len(q)
      BY <1>3
    <2>2. z \in [1 .. Len(q) -> Request]
      BY <1>5, <2>1
    <2> HIDE DEF z
    <2> QED BY <2>1, <2>2
  <1> HIDE DEF z
  <1>7. Sig(z) = Sig(q)
    BY <1>5, <1>6 DEF Sig
  <1>8. /\ sq' \in [Workers -> [0 .. cfg.qps - 1 -> Seq(Request)]] /\ sq'[w][d] = z
        /\ \A v \in Workers \ {w} : sq'[v] = sq[v]
        /\ \A c \in 0 .. cfg.qps - 1 : c # d => sq'[w][c] = sq[w][c]
    BY <1>3, <1>4, <1>6
  <1>9. err' \in SUBSET (Workers \X (0 .. cfg.qps - 1))
    <2>1. err \in SUBSET (Workers \X (0 .. cfg.qps - 1))
      BY DEF Typed
    <2>2. <<w, d>> \in Workers \X (0 .. cfg.qps - 1)
      OBVIOUS
    <2> QED BY <1>1, <2>1, <2>2
  <1>10. Typed' /\ Others(w) /\ Same(w)
    BY <1>1, <1>2, <1>8, <1>9 DEF Typed, Others, Same
  <1>11. SameShape(w)
    BY <1>6, <1>7, <1>8 DEF SameShape
  <1>12. ASSUME NEW c \in 0 .. cfg.qps - 1
         PROVE  /\ \A l, m \in DOMAIN sq'[w][c] :
                      l < m /\ sq'[w][c][l].status = "posted" => sq'[w][c][m].status = "posted"
                /\ \A l \in DOMAIN sq'[w][c] :
                      /\ sq'[w][c][l].status = "failed" => <<w, c>> \in err'
                      /\ sq'[w][c][l].status = "posted" => <<w, c>> \notin err'
    <2>1. CASE c = d
      BY <1>1, <1>5, <1>6, <1>8, <2>1
    <2>2. CASE c # d
      BY <1>1, <1>8, <2>2 DEF QueuesOK
    <2> QED BY <2>1, <2>2
  <1>13. QueuesOK(w)'
    BY <1>2, <1>12 DEF QueuesOK
  <1> QED BY <1>1, <1>2, <1>10, <1>11, <1>13

(* A thread is started.                                                    *)
LEMMA StartStep ==
    ASSUME Typed, NEW w \in Workers, QueuesOK(w), OpReady(w), Disciplined(w), Fits(w), Start(w)
    PROVE  /\ Typed' /\ cfg' = cfg /\ err' = err /\ proc' = proc /\ Others(w)
           /\ QueuesOK(w)' /\ OpReady(w)' /\ Disciplined(w)' /\ Fits(w)'
  <1> USE DEF Goto, qpVars, cntVars
  <1>1. /\ cfg' = cfg /\ sq' = sq /\ err' = err /\ proc' = proc /\ proc = "up" /\ op' = op
        /\ pc[w] = "unborn" /\ pc'[w] = "setup" /\ dc_idx' = dc_idx
        /\ UNCHANGED <<out_signaled, counter, recv_cnt, flying_cnt>>
    BY DEF Start, Typed
  <1>2. Typed' /\ Others(w)
    BY DEF Start, Typed, Labels, Others, Same
  <1>3. Stride' = Stride /\ Leftover' = Leftover /\ Peak' = Peak
    BY <1>1, KeepPeak
  <1>4. QueuesOK(w)' /\ Fits(w)'
    BY <1>1, <1>3 DEF QueuesOK, Fits
  <1>5. OpReady(w)'
    BY <1>1, OpKept DEF Queue
  <1>6. Disciplined(w)'
    <2>1. OneAtATime(w) => OneAtATime(w)'
      BY <1>1 DEF OneAtATime, Outside, Count
    <2>2. Loops(w) => Loops(w)'
      BY <1>1, <1>3 DEF Loops, Outside, Between, Count, Queue
    <2>3. Flies(w) => Flies(w)'
      BY <1>1 DEF Flies, Outside, Count, Queue
    <2> QED BY <1>1, <2>1, <2>2, <2>3 DEF Disciplined
  <1> QED BY <1>1, <1>2, <1>4, <1>5, <1>6
-----------------------------------------------------------------------------
(* The inductive invariant.                                                *)

(* It holds when the threads are not yet started.                          *)
LEMMA InitInd == Init => IndInv
  <1> SUFFICES ASSUME Init PROVE IndInv
    OBVIOUS
  <1>1. /\ cfg \in Configs /\ cfg.program \in Programs /\ cfg.factor \in Nat \ {0}
        /\ cfg.qps \in Nat \ {0} /\ {Usize, U64, MaxRounds} \subseteq Nat \ {0}
        /\ cfg.program \in {"or", "fly"} => cfg.type = "READ"
    BY ConfigIs, BoundAssumption DEF Init
  <1>2. Typed
    <2>1. NewOp \in Ops
      BY DEF NewOp, Ops, Types
    <2>2. 0 \in 0 .. cfg.qps - 1 /\ 0 \in 0 .. MaxRounds /\ 0 \in 0 .. Usize - 1 /\ 0 \in 0 .. U64 - 1
      BY <1>1
    <2>3. <<>> \in Seq(Request)
      OBVIOUS
    <2> QED BY <2>1, <2>2, <2>3 DEF Init, Typed, Labels
  <1>3. ASSUME NEW w \in Workers PROVE QueuesOK(w) /\ OpReady(w) /\ Disciplined(w) /\ Fits(w)
    <2>1. /\ \A d \in 0 .. cfg.qps - 1 : sq[w][d] = <<>>
          /\ pc[w] = "unborn" /\ counter[w] = 0 /\ recv_cnt[w] = 0 /\ flying_cnt[w] = 0
          /\ out_signaled[w] = 0 /\ op[w] = NewOp
      BY DEF Init
    <2>2. Queue(w) = <<>> /\ Len(Queue(w)) = 0 /\ Sig(Queue(w)) = {} /\ DOMAIN Queue(w) = {}
      <3>1. Queue(w) = <<>>
        BY <1>2, <2>1, QueueTyped DEF Queue
      <3> QED BY <3>1 DEF Sig
    <2>3. QueuesOK(w)
      BY <2>1 DEF QueuesOK
    <2>4. OpReady(w)
      BY <2>1, <2>2 DEF OpReady, NewOp
    <2>5. Count(w, 0)
      BY <1>1, <2>1 DEF Count
    <2>6. ASSUME cfg.program \in {"one", "dc"} PROVE OneAtATime(w)
      BY <2>1, <2>5 DEF OneAtATime, Outside, Count
    <2>7. ASSUME cfg.program \in {"or", "db"} PROVE Loops(w)
      <3>1. 0 <= Leftover
        BY <1>1, LeftoverIs
      <3> QED BY <2>1, <2>2, <2>5, <3>1 DEF Loops, Outside, Between
    <2>8. ASSUME cfg.program = "fly" PROVE Flies(w)
      <3>1. recv_cnt[w] + Len(Queue(w)) = 0 /\ counter[w] <= recv_cnt[w] + cfg.factor
        BY <1>1, <2>1, <2>2
      <3>2. counter[w] = recv_cnt[w] + flying_cnt[w]
        BY <2>1
      <3> QED BY <2>1, <2>2, <2>5, <3>1, <3>2 DEF Flies, Outside, Count
    <2>9. Fits(w)
      <3>1. 0 <= Peak
        <4>1. cfg.program \in {"or", "db"} => Peak \in Nat
          BY <1>1, PeakIs
        <4>2. cfg.program \notin {"or", "db"} => Peak = cfg.factor
          BY DEF Peak
        <4> QED BY <1>1, <4>1, <4>2
      <3>2. \A d \in 0 .. cfg.qps - 1 : Len(sq[w][d]) = 0
        BY <2>1
      <3> QED BY <3>1, <3>2 DEF Fits
    <2> QED BY <2>3, <2>4, <2>6, <2>7, <2>8, <2>9 DEF Disciplined
  <1>4. (proc = "failed" => err # {}) /\ RefusedOnlyIfTooWide
    BY DEF Init, RefusedOnlyIfTooWide
  <1> QED BY <1>2, <1>3, <1>4 DEF IndInv

(* A step of one worker, put together with the others.                     *)
LEMMA OneMoves ==
    ASSUME IndInv, NEW w \in Workers, Typed', cfg' = cfg, err \subseteq err', Others(w),
           proc' # "failed" => proc # "failed", proc' = "failed" => err' # {}, RefusedOnlyIfTooWide',
           QueuesOK(w)', OpReady(w)', Disciplined(w)', Fits(w)'
    PROVE  IndInv'
  <1>1. ASSUME NEW v \in Workers PROVE QueuesOK(v)' /\ OpReady(v)' /\ Disciplined(v)' /\ Fits(v)'
    <2>1. CASE v = w
      BY <2>1
    <2>2. CASE v # w
      <3>1. v \in Workers \ {w}
        BY <2>2
      <3>2. Typed /\ QueuesOK(v) /\ OpReady(v) /\ Disciplined(v) /\ Fits(v)
        BY DEF IndInv
      <3> QED BY <3>1, <3>2, KeepOthers
    <2> QED BY <2>1, <2>2
  <1> QED BY <1>1 DEF IndInv

(* A step that leaves every worker alone.                                  *)
LEMMA NoneMoves ==
    ASSUME IndInv, Typed', cfg' = cfg, err' = err, sq' = sq, \A v \in Workers : Same(v),
           proc' \in {proc, "setup", "refused", "no return"}, proc \in {"up", proc'},
           RefusedOnlyIfTooWide'
    PROVE  IndInv'
  <1>1. Typed /\ (proc = "failed" => err # {})
    BY DEF IndInv
  <1>2. (proc' # "failed" => proc # "failed") /\ (proc' = "failed" => err' # {})
    BY <1>1
  <1>3. ASSUME NEW v \in Workers PROVE QueuesOK(v)' /\ OpReady(v)' /\ Disciplined(v)' /\ Fits(v)'
    <2>1. QueuesOK(v) /\ OpReady(v) /\ Disciplined(v) /\ Fits(v)
      BY DEF IndInv
    <2>2. QueuesOK(v)'
      BY <2>1, KeepQueues
    <2>3. SameShape(v)
      BY DEF SameShape
    <2> QED BY <1>1, <1>2, <2>1, <2>2, <2>3, KeepShape
  <1> QED BY <1>2, <1>3 DEF IndInv

(* A post is refused only when the window is too wide for the queue.       *)
LEMMA RefusedStep ==
    ASSUME IndInv, NEW w \in Workers, PostRefused(w)
    PROVE  Peak > Depth /\ cfg.program \in {"db", "fly"}
  <1>1. /\ Typed /\ Disciplined(w) /\ cfg \in Configs
    BY DEF IndInv, Typed
  <1>2. /\ proc = "up" /\ pc[w] = "post"
        /\ cfg.program = "fly" => i[w] < (cfg.factor - flying_cnt[w]) % U64
        /\ Len(Queue(w)) + cfg.batch > Depth
    BY DEF PostRefused, At, Full
  <1>3. /\ Peak \in Nat /\ Len(Queue(w)) + cfg.batch <= Peak
        /\ cfg.program \in {"one", "dc"} => Queue(w) = <<>>
    BY <1>1, <1>2, RoomToPost
  <1>4. /\ cfg.program \in Programs /\ cfg.batch \in Nat /\ Depth \in Nat /\ Depth >= 2
        /\ cfg.program # "db" => cfg.batch = 1
    BY <1>1, ConfigIs, BoundAssumption
  <1>5. Len(Queue(w)) \in Nat
    BY <1>1, QueueTyped
  <1>6. Peak > Depth
    BY <1>2, <1>3, <1>4, <1>5
  <1>7. cfg.program # "or"
    BY <1>1, <1>3, <1>4, <1>6, PeakIs
  <1>8. cfg.program \notin {"one", "dc"}
    <2> SUFFICES ASSUME cfg.program \in {"one", "dc"} PROVE FALSE
      OBVIOUS
    <2>1. Len(Queue(w)) = 0
      BY <1>3
    <2> QED BY <1>2, <1>4, <2>1
  <1> QED BY <1>4, <1>6, <1>7, <1>8 DEF Programs

(* Every step of a worker keeps the invariant.                             *)
LEMMA WorkInd ==
    ASSUME IndInv, NEW w \in Workers, Work(w)
    PROVE  IndInv'
  <1>1. Typed /\ QueuesOK(w) /\ OpReady(w) /\ Disciplined(w) /\ Fits(w) /\ RefusedOnlyIfTooWide
    BY DEF IndInv
  <1>2. Typed' /\ cfg' = cfg /\ err' = err /\ Others(w) /\ Peak' = Peak
    BY <1>1, WorkTypes, KeepPeak
  <1>3. ASSUME proc' = proc, proc = "up", QueuesOK(w)', OpReady(w)', Disciplined(w)', Fits(w)'
        PROVE  IndInv'
    <2>1. RefusedOnlyIfTooWide'
      BY <1>3 DEF RefusedOnlyIfTooWide
    <2> QED BY <1>2, <1>3, <2>1, OneMoves
  <1>4. ASSUME NEW why \in {"setup", "refused", "no return"}, Abort(why), proc = "up",
               why = "refused" => Peak > Depth /\ cfg.program \in {"db", "fly"}
        PROVE  IndInv'
    <2>1. proc' = why /\ sq' = sq /\ \A v \in Workers : Same(v)
      BY <1>4 DEF Abort, Same, loopVars, qpVars, cntVars
    <2>2. RefusedOnlyIfTooWide'
      BY <1>2, <1>4, <2>1 DEF RefusedOnlyIfTooWide
    <2> QED BY <1>2, <1>4, <2>1, <2>2, NoneMoves
  <1>5. CASE Setup(w)
    BY <1>1, <1>2, <1>3, <1>5, SetupStep DEF Setup, At
  <1>6. CASE SetupFails(w)
    BY <1>4, <1>6 DEF SetupFails, At
  <1>7. CASE WhileRunning(w)
    BY <1>1, <1>2, <1>3, <1>7, WhileStep DEF WhileRunning, At
  <1>8. CASE PostRefused(w)
    BY <1>4, <1>8, RefusedStep DEF PostRefused, At
  <1>9. CASE WaitFails(w)
    <2>1. QueuesOK(w)' /\ OpReady(w)' /\ Disciplined(w)' /\ Fits(w)' /\ err # {} /\ proc' = "failed"
      BY <1>1, <1>2, <1>9, WaitFailsStep
    <2>2. RefusedOnlyIfTooWide'
      BY <2>1 DEF RefusedOnlyIfTooWide
    <2> QED BY <1>2, <2>1, <2>2, OneMoves
  <1>10. CASE PostOne(w)
    BY <1>1, <1>2, <1>3, <1>10, PostOneStep DEF PostOne, At
  <1>11. CASE PostWindow(w)
    <2>1. proc' = proc /\ proc = "up"
      BY <1>11 DEF PostWindow, At
    <2> QED BY <1>1, <1>2, <1>3, <1>11, <2>1, PostWindowStep
  <1>12. CASE WaitWindow(w)
    BY <1>1, <1>2, <1>3, <1>12, WaitWindowStep DEF WaitWindow, At
  <1>13. CASE EndRound(w)
    BY <1>1, <1>2, <1>3, <1>13, EndRoundStep DEF EndRound, At
  <1>14. CASE PostFly(w)
    <2>1. proc' = proc /\ proc = "up"
      BY <1>14 DEF PostFly, At
    <2> QED BY <1>1, <1>2, <1>3, <1>14, <2>1, PostFlyStep
  <1>15. CASE TryPoll(w)
    <2>1. proc' = proc /\ proc = "up"
      BY <1>15 DEF TryPoll, At
    <2> QED BY <1>1, <1>2, <1>3, <1>15, <2>1, TryPollStep
  <1>16. CASE Drain(w)
    <2>1. proc' = proc /\ proc = "up"
      BY <1>16 DEF Drain, At
    <2> QED BY <1>1, <1>2, <1>3, <1>16, <2>1, DrainStep
  <1>17. CASE End(w)
    BY <1>1, <1>2, <1>3, <1>17, EndStep DEF End, At
  <1>18. CASE EndsWithoutReturn(w)
    BY <1>4, <1>18 DEF EndsWithoutReturn, At
  <1> QED BY <1>5, <1>6, <1>7, <1>8, <1>9, <1>10, <1>11, <1>12, <1>13, <1>14, <1>15, <1>16, <1>17,
             <1>18 DEF Work

(* Every step keeps the invariant.                                         *)
LEMMA NextInd == IndInv /\ [Next]_vars => IndInv'
  <1> SUFFICES ASSUME IndInv, [Next]_vars PROVE IndInv'
    OBVIOUS
  <1> USE DEF mainVars, loopVars, qpVars, cntVars
  <1>1. Typed /\ RefusedOnlyIfTooWide
        /\ \A w \in Workers : QueuesOK(w) /\ OpReady(w) /\ Disciplined(w) /\ Fits(w)
    BY DEF IndInv
  <1>2. ASSUME NEW w \in Workers, Start(w) PROVE IndInv'
    <2>1. /\ Typed' /\ cfg' = cfg /\ err' = err /\ proc' = proc /\ Others(w)
          /\ QueuesOK(w)' /\ OpReady(w)' /\ Disciplined(w)' /\ Fits(w)'
      BY <1>1, <1>2, StartStep
    <2>2. RefusedOnlyIfTooWide' /\ (proc' = "failed" => err' # {})
      BY <1>1, <2>1, KeepPeak DEF RefusedOnlyIfTooWide, IndInv
    <2> QED BY <2>1, <2>2, OneMoves
  <1>3. ASSUME NEW w \in Workers, NicExecute(w) \/ NicFail(w) PROVE IndInv'
    <2>1. /\ Typed' /\ cfg' = cfg /\ err \subseteq err' /\ proc' = proc /\ Others(w)
          /\ Same(w) /\ SameShape(w) /\ QueuesOK(w)'
      BY <1>1, <1>3, ExecuteStep, FailStep
    <2>2. OpReady(w)' /\ Disciplined(w)' /\ Fits(w)'
      BY <1>1, <2>1, KeepShape
    <2>3. RefusedOnlyIfTooWide' /\ (proc' = "failed" => err' # {})
      BY <1>1, <2>1, KeepPeak DEF RefusedOnlyIfTooWide, IndInv
    <2> QED BY <2>1, <2>2, <2>3, OneMoves
  <1>4. ASSUME Stop \/ Join \/ UNCHANGED vars PROVE IndInv'
    <2>1. /\ Typed' /\ cfg' = cfg /\ err' = err /\ sq' = sq /\ proc' = proc
          /\ \A v \in Workers : Same(v)
      BY <1>1, <1>4 DEF Stop, Join, vars, Typed, Same
    <2>2. RefusedOnlyIfTooWide'
      BY <1>1, <2>1, KeepPeak DEF RefusedOnlyIfTooWide
    <2> QED BY <2>1, <2>2, NoneMoves
  <1>5. ASSUME NEW w \in Workers, StartFails(w) PROVE IndInv'
    <2>1. /\ Typed' /\ cfg' = cfg /\ err' = err /\ sq' = sq /\ proc' = "setup" /\ proc = "up"
          /\ \A v \in Workers : Same(v)
      BY <1>1, <1>5 DEF StartFails, Abort, At, Typed, Same
    <2>2. RefusedOnlyIfTooWide' /\ (proc' = "failed" => err' # {})
      BY <2>1 DEF RefusedOnlyIfTooWide
    <2> QED BY <2>1, <2>2, NoneMoves
  <1> QED BY <1>2, <1>3, <1>4, <1>5, WorkInd DEF Next, Ended
-----------------------------------------------------------------------------
(* The theorems.                                                           *)

(* The inductive invariant holds throughout every run of the clients.      *)
THEOREM IndCorrect == Spec => []IndInv
  <1> QED BY InitInd, NextInd, PTL DEF Spec

(* The sizes of the sets of signaled requests.                             *)
LEMMA SignalCounts ==
    /\ Cardinality({}) = 0
    /\ \A p \in Nat : Cardinality({p}) = 1
    /\ \A p \in Nat, m \in Nat \ {0} : Cardinality({p, p + m}) = 2
    /\ \A n \in Nat : Cardinality(1 .. n) = n
  <1>1. Cardinality({}) = 0
    BY FS_EmptySet
  <1>2. \A p \in Nat : IsFiniteSet({p}) /\ Cardinality({p}) = 1
    BY FS_Singleton
  <1>3. ASSUME NEW p \in Nat, NEW m \in Nat \ {0} PROVE Cardinality({p, p + m}) = 2
    <2>1. p + m \notin {p} /\ {p, p + m} = {p} \cup {p + m}
      OBVIOUS
    <2>2. Cardinality({p} \cup {p + m}) = Cardinality({p}) + 1
      BY <1>2, <2>1, FS_AddElement
    <2> QED BY <1>2, <2>1, <2>2
  <1>4. ASSUME NEW n \in Nat PROVE Cardinality(1 .. n) = n
    BY FS_Interval
  <1> QED BY <1>1, <1>2, <1>3, <1>4

(* A worker that has left its loop has only the rest of a round out.       *)
LEMMA LeavesInd == IndInv => LeavesLittle
  <1> SUFFICES ASSUME IndInv, NEW w \in Workers, pc[w] = "exited", err = {},
                      NEW d \in 0 .. cfg.qps - 1
               PROVE  /\ \A k \in DOMAIN sq[w][d] : ~sq[w][d][k].signaled
                      /\ Len(sq[w][d]) <= IF cfg.program \in {"or", "db"} THEN Leftover ELSE 0
    BY DEF LeavesLittle
  <1>1. Typed /\ Disciplined(w) /\ proc # "failed" /\ cfg \in Configs
    BY DEF IndInv, Typed
  <1>2. cfg.program \in Programs
    BY <1>1, ConfigIs
  <1>3. CASE cfg.program \in {"one", "dc"}
    <2>1. sq[w][d] = <<>>
      BY <1>1, <1>3 DEF Disciplined, OneAtATime
    <2> QED BY <1>3, <2>1
  <1>4. CASE cfg.program \in {"or", "db"}
    <2>1. sq[w][d] = Queue(w)
      BY <1>1, <1>4, QueueTyped DEF Queue
    <2>2. Sig(Queue(w)) = {} /\ Len(Queue(w)) <= Leftover
      BY <1>1, <1>4 DEF Disciplined, Loops, Outside, Between
    <2> QED BY <1>4, <2>1, <2>2 DEF Sig
  <1>5. CASE cfg.program = "fly"
    <2>1. sq[w][d] = Queue(w) /\ Queue(w) \in Seq(Request) /\ Len(Queue(w)) \in Nat
      BY <1>1, <1>5, QueueTyped DEF Queue
    <2>2. recv_cnt[w] + Len(Queue(w)) = counter[w] /\ counter[w] = recv_cnt[w]
      BY <1>1, <1>5 DEF Disciplined, Flies
    <2>3. recv_cnt[w] \in Nat
      BY <1>1, TypedAt
    <2>4. Len(Queue(w)) = 0
      BY <2>1, <2>2, <2>3
    <2>5. Queue(w) = <<>>
      BY <2>1, <2>4, SigIs
    <2> QED BY <1>5, <2>1, <2>4, <2>5
  <1> QED BY <1>2, <1>3, <1>4, <1>5 DEF Programs

(* The windows fit, in every client and over any number of rounds, QPs and *)
(* workers, for every factor, batch and depth of the send queue: what is   *)
(* outstanding stays within Peak, a post is refused only where Peak is     *)
(* larger than the send queue (in db_bench and fly_bench), and a thread    *)
(* that has left its loop leaves at most the rest of one round behind.     *)
THEOREM WindowCorrect == Spec => []WindowInv
  <1>1. IndInv => WindowInv
    <2> SUFFICES ASSUME IndInv PROVE WindowInv
      OBVIOUS
    <2>1. Typed /\ RefusedOnlyIfTooWide /\ \A w \in Workers : Fits(w)
      BY DEF IndInv
    <2>2. TypeOK
      <3>1. ASSUME NEW w \in Workers
            PROVE  op[w].opcode \in Types /\ \A d \in 0 .. cfg.qps - 1 : sq[w][d] \in Seq(Request)
        BY <2>1, TypedAt, QueueTyped DEF Ops
      <3>2. ASSUME NEW w \in Workers
            PROVE  /\ pc[w] \in Labels /\ {i[w], or_idx[w], counter[w], recv_cnt[w]} \subseteq Nat
                   /\ rounds[w] \in 0 .. MaxRounds /\ dc_idx[w] \in 0 .. cfg.qps - 1
                   /\ out_signaled[w] \in 0 .. Usize - 1 /\ flying_cnt[w] \in 0 .. U64 - 1
        BY <2>1, TypedAt
      <3>3. /\ cfg \in Configs /\ main \in {"start", "report", "join", "done"} /\ running \in BOOLEAN
            /\ proc \in {"up", "setup", "refused", "failed", "no return"}
            /\ err \subseteq Workers \X (0 .. cfg.qps - 1)
        BY <2>1 DEF Typed
      <3> QED BY <3>1, <3>2, <3>3 DEF TypeOK, Labels
    <2>3. WindowBound
      BY <2>1 DEF WindowBound, Fits
    <2> QED BY <2>1, <2>2, <2>3, LeavesInd DEF WindowInv
  <1> QED BY <1>1, IndCorrect, PTL

(* A worker never waits without a timeout for a completion that cannot     *)
(* come: a signaled request is outstanding, or a failed one is there.      *)
THEOREM WaitCorrect == Spec => []WaitHasSignal
  <1>1. IndInv => WaitHasSignal
    <2> SUFFICES ASSUME IndInv, proc = "up", NEW w \in Workers, pc[w] \in {"wait", "final"}
                 PROVE  \E k \in DOMAIN Queue(w) :
                            Queue(w)[k].signaled \/ Queue(w)[k].status = "failed"
      BY DEF WaitHasSignal
    <2>1. Typed /\ Disciplined(w) /\ cfg \in Configs
      BY DEF IndInv, Typed
    <2>2. cfg.program \in Programs
      BY <2>1, ConfigIs
    <2>3. Sig(Queue(w)) # {}
      <3>1. CASE cfg.program \in {"one", "dc"}
        BY <2>1, <3>1 DEF Disciplined, OneAtATime, Outside
      <3>2. CASE cfg.program \in {"or", "db"}
        BY <2>1, <3>2 DEF Disciplined, Loops, Within, Waiting
      <3>3. CASE cfg.program = "fly"
        BY <2>1, <3>3 DEF Disciplined, Flies, Outside
      <3> QED BY <2>2, <3>1, <3>2, <3>3 DEF Programs
    <2> QED BY <2>3 DEF Sig
  <1> QED BY <1>1, IndCorrect, PTL

(* While no request has failed, flying_cnt of fly_bench is what is         *)
(* outstanding and out_signaled counts the signaled requests, for every    *)
(* width of the counters.                                                  *)
THEOREM CountersCorrect == Spec => []CountersExact
  <1>1. IndInv => CountersExact
    <2> SUFFICES ASSUME IndInv PROVE CountersExact
      OBVIOUS
    <2>1. Typed /\ (err = {} => proc # "failed") /\ \A w \in Workers : Disciplined(w)
      BY DEF IndInv
    <2>2. ASSUME NEW w \in Workers, cfg.program = "fly", pc[w] = "head", err = {}
          PROVE  flying_cnt[w] = Len(Queue(w)) /\ flying_cnt[w] <= cfg.factor
      <3>1. /\ recv_cnt[w] + Len(Queue(w)) = counter[w] /\ counter[w] <= recv_cnt[w] + cfg.factor
            /\ counter[w] = recv_cnt[w] + flying_cnt[w]
        BY <2>1, <2>2 DEF Disciplined, Flies
      <3>2. counter[w] \in Nat /\ recv_cnt[w] \in Nat /\ flying_cnt[w] \in Int
        BY <2>1, TypedAt
      <3>3. Queue(w) \in Seq(Request) /\ Len(Queue(w)) \in Nat
        BY <2>1, QueueTyped
      <3>4. cfg.factor \in Nat
        BY <2>1, ConfigIs DEF Typed
      <3> QED BY <3>1, <3>2, <3>3, <3>4
    <2>3. ASSUME NEW w \in Workers, cfg.program \in {"one", "or", "fly"}, err = {}
          PROVE  out_signaled[w] = Cardinality(Sig(Queue(w))) % Usize
      <3>1. Disciplined(w) /\ proc # "failed"
        BY <2>1, <2>3
      <3>2. ASSUME NEW n, Count(w, n), Cardinality(Sig(Queue(w))) = n
            PROVE  out_signaled[w] = Cardinality(Sig(Queue(w))) % Usize
        BY <2>3, <3>2 DEF Count
      <3>3. DOMAIN Queue(w) = 1 .. Len(Queue(w)) /\ Len(Queue(w)) \in Nat
            /\ dc_idx[w] \in 0 .. cfg.qps - 1
        BY <2>1, QueueTyped
      <3>4. Stride \in Nat \ {0}
        BY <2>1, StrideIs DEF Typed
      <3>5. CASE cfg.program = "one"
        <4>1. OneAtATime(w)
          BY <3>1, <3>5 DEF Disciplined
        <4>2. CASE pc[w] = "final"
          <5>1. Count(w, 1) /\ Sig(Queue(w)) = {1}
            BY <4>1, <4>2 DEF OneAtATime, Count
          <5> QED BY <3>2, <5>1, SignalCounts
        <4>3. CASE pc[w] # "final"
          <5>1. Count(w, 0) /\ Queue(w) = <<>>
            BY <3>3, <4>1, <4>3 DEF OneAtATime, Count, Queue
          <5>2. Sig(Queue(w)) = {}
            BY <5>1 DEF Sig
          <5> QED BY <3>2, <5>1, <5>2, SignalCounts
        <4> QED BY <4>2, <4>3
      <3>6. CASE cfg.program = "or"
        <4>1. Loops(w)
          BY <3>1, <3>6 DEF Disciplined
        <4>2. Between(w) \/ Within(w) \/ Waiting(w)
          BY <4>1 DEF Loops
        <4>3. CASE Between(w)
          BY <3>2, <4>3, SignalCounts DEF Between
        <4>4. CASE Within(w)
          <5>1. PICK p \in DOMAIN Queue(w) : Sig(Queue(w)) = {p}
            BY <4>4 DEF Within
          <5>2. p \in Nat /\ Count(w, 1)
            BY <3>3, <4>4 DEF Within
          <5> QED BY <3>2, <5>1, <5>2, SignalCounts
        <4>5. CASE Waiting(w)
          <5>1. PICK p \in DOMAIN Queue(w) : Sig(Queue(w)) = {p, p + Stride}
            BY <4>5 DEF Waiting
          <5>2. p \in Nat /\ Count(w, 2)
            BY <3>3, <4>5 DEF Waiting
          <5>3. Cardinality({p, p + Stride}) = 2
            BY <3>4, <5>2, SignalCounts
          <5> QED BY <3>2, <5>1, <5>2, <5>3
        <4> QED BY <4>2, <4>3, <4>4, <4>5
      <3>7. CASE cfg.program = "fly"
        <4>1. Sig(Queue(w)) = 1 .. Len(Queue(w)) /\ Count(w, Len(Queue(w)))
          BY <3>1, <3>3, <3>7 DEF Disciplined, Flies
        <4> QED BY <3>2, <3>3, <4>1, SignalCounts
      <3> QED BY <2>3, <3>5, <3>6, <3>7
    <2>4. FlyingExact
      BY <2>2 DEF FlyingExact
    <2>5. SignalsCounted
      BY <2>3 DEF SignalsCounted, Sig
    <2> QED BY <2>4, <2>5 DEF CountersExact
  <1> QED BY <1>1, IndCorrect, PTL

(* Whatever the NIC reads of a posted request has been set for its opcode. *)
THEOREM OpCorrect == Spec => []OpIsWhole
  <1>1. IndInv => OpIsWhole
    <2> SUFFICES ASSUME IndInv, NEW w \in Workers, Queue(w) # <<>>, cfg.program # "dc"
                 PROVE  /\ op[w].addr = "remote"
                        /\ op[w].opcode = cfg.type
                        /\ (IF op[w].opcode \in {"CAS", "FAA"} THEN op[w].key ELSE op[w].word1) = "rkey"
      BY DEF OpIsWhole
    <2>1. OpReady(w)
      BY DEF IndInv
    <2> QED BY <2>1 DEF OpReady, Keyed
  <1> QED BY <1>1, IndCorrect, PTL
=============================================================================
