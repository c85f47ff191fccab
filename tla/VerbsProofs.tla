---------------------------- MODULE VerbsProofs -----------------------------
(* Proofs about Verbs for any number of NICs, pieces of memory and objects.*)
EXTENDS Verbs, TLAPS

(* The classes whose destructors keep what their constructors promise: a   *)
(* DCTarget keeps no Arc of its NIC, and a DC destroys its QP twice.       *)
NoTargets == Kinds \subseteq {"MR", "RC", "RCM", "UD", "DC"}
Counted == Kinds \subseteq {"MR", "RC", "RCM", "UD"}

Fields == {"ctx", "pd", "buf", "mr", "cq", "recv_cq", "qp", "srq", "dct"}
Classes == {"NIC", "MEM", "CHAN", "MR", "RC", "RCM", "UD", "DC"}
Mortal == Classes \ {"CHAN"} \* the classes with a destructor

(* What a constructor has made before its step n + 1, what a destructor    *)
(* has been through, the member that is lent, and the driver objects an    *)
(* object still has.                                                       *)
Prefix(k, n) == {Ctor(k)[i] : i \in 1 .. n}
Gone(h) == IF phase[h] = "dtor" THEN {Dtor(kind[h])[i] : i \in 1 .. pc[h] - 1} ELSE {}
Loan(h) == IF kind[h] = "RCM" THEN {"recv_cq"} ELSE {}
Kept(h) == has[h] \ (QPStates \cup Loan(h) \cup Gone(h))

-----------------------------------------------------------------------------
(* The constructors and destructors, step by step.                         *)
LEMMA CtorTable ==
    /\ DOMAIN Ctor("NIC") = 1 .. 2 /\ Len(Ctor("NIC")) = 2
    /\ Ctor("NIC")[1] = "ctx" /\ Ctor("NIC")[2] = "pd"
    /\ DOMAIN Ctor("MEM") = 1 .. 1 /\ Len(Ctor("MEM")) = 1 /\ Ctor("MEM")[1] = "buf"
    /\ DOMAIN Ctor("MR") = 1 .. 1 /\ Len(Ctor("MR")) = 1 /\ Ctor("MR")[1] = "mr"
    /\ DOMAIN Ctor("CHAN") = 1 .. 1 /\ Len(Ctor("CHAN")) = 1 /\ Ctor("CHAN")[1] = "cq"
    /\ DOMAIN Ctor("RCM") = 1 .. 4 /\ Len(Ctor("RCM")) = 4
    /\ Ctor("RCM")[1] = "cq" /\ Ctor("RCM")[2] = "recv_cq" /\ Ctor("RCM")[3] = "qp"
    /\ Ctor("RCM")[4] = "init"
    /\ DOMAIN Ctor("RC") = 1 .. 3 /\ Len(Ctor("RC")) = 3
    /\ Ctor("RC")[1] = "cq" /\ Ctor("RC")[2] = "qp" /\ Ctor("RC")[3] = "init"
    /\ DOMAIN Ctor("UD") = 1 .. 6 /\ Len(Ctor("UD")) = 6
    /\ Ctor("UD")[1] = "cq" /\ Ctor("UD")[2] = "recv_cq" /\ Ctor("UD")[3] = "qp"
    /\ Ctor("UD")[4] = "init" /\ Ctor("UD")[5] = "rtr" /\ Ctor("UD")[6] = "rts"
    /\ DOMAIN Ctor("DC") = 1 .. 5 /\ Len(Ctor("DC")) = 5
    /\ Ctor("DC")[1] = "cq" /\ Ctor("DC")[2] = "qp"
    /\ Ctor("DC")[3] = "init" /\ Ctor("DC")[4] = "rtr" /\ Ctor("DC")[5] = "rts"
  BY DEF Ctor, RNic_ctor, RMem_ctor, RegHandler_ctor, create_cq, RC_ctor, RC_recv_ctor, UD_ctor,
         DC_ctor

(* What the destructors destroy, and in which order.                      *)
LEMMA DtorTable ==
    /\ DOMAIN Dtor("NIC") = 1 .. 2 /\ Len(Dtor("NIC")) = 2
    /\ Dtor("NIC")[1] = "pd" /\ Dtor("NIC")[2] = "ctx"
    /\ DOMAIN Dtor("MEM") = 1 .. 1 /\ Len(Dtor("MEM")) = 1 /\ Dtor("MEM")[1] = "buf"
    /\ DOMAIN Dtor("MR") = 1 .. 1 /\ Len(Dtor("MR")) = 1 /\ Dtor("MR")[1] = "mr"
    /\ \A k \in {"RC", "RCM", "UD"} :
          /\ DOMAIN Dtor(k) = 1 .. 3 /\ Len(Dtor(k)) = 3
          /\ Dtor(k)[1] = "qp" /\ Dtor(k)[2] = "cq" /\ Dtor(k)[3] = "recv_cq"
    /\ DOMAIN Dtor("DC") = 1 .. 5 /\ Len(Dtor("DC")) = 5
    /\ Dtor("DC")[1] = "qp" /\ Dtor("DC")[2] = "cq" /\ Dtor("DC")[3] = "qp"
    /\ Dtor("DC")[4] = "cq" /\ Dtor("DC")[5] = "recv_cq"
  BY DEF Dtor, RNic_dtor, RMem_dtor, RegHandler_dtor, Dummy_dtor, DC_dtor

(* What the constructors make.                                            *)
LEMMA CtorElems ==
    /\ Elems(Ctor("NIC")) = {"ctx", "pd"} /\ Elems(Ctor("MEM")) = {"buf"}
    /\ Elems(Ctor("MR")) = {"mr"} /\ Elems(Ctor("RC")) = {"cq", "qp", "init"}
    /\ Elems(Ctor("CHAN")) = {"cq"} /\ Elems(Ctor("RCM")) = {"cq", "recv_cq", "qp", "init"}
    /\ Elems(Ctor("UD")) = {"cq", "recv_cq", "qp", "init", "rtr", "rts"}
    /\ Elems(Ctor("DC")) = {"cq", "qp", "init", "rtr", "rts"}
  BY CtorTable DEF Elems

(* Constructors and destructors have at least one step.                   *)
LEMMA CtorLengths ==
    \A k \in Classes : /\ Len(Ctor(k)) \in Nat \ {0} /\ DOMAIN Ctor(k) = 1 .. Len(Ctor(k))
                      /\ \A i \in DOMAIN Ctor(k) : Ctor(k)[i] \in Fields \cup QPStates
  <1> SUFFICES ASSUME NEW k \in Classes
               PROVE  /\ Len(Ctor(k)) \in Nat \ {0} /\ DOMAIN Ctor(k) = 1 .. Len(Ctor(k))
                      /\ Elems(Ctor(k)) \subseteq Fields \cup QPStates
    BY DEF Elems
  <1>1. CASE k \in {"NIC", "MEM", "CHAN", "MR"}
    BY <1>1, CtorTable, CtorElems DEF Fields, QPStates
  <1>2. CASE k \in {"RC", "RCM", "UD", "DC"}
    BY <1>2, CtorTable, CtorElems DEF Fields, QPStates
  <1> QED BY <1>1, <1>2 DEF Classes

(* A channel is never destroyed.                                          *)
LEMMA DtorLengths ==
    \A k \in Mortal : Len(Dtor(k)) \in Nat \ {0} /\ DOMAIN Dtor(k) = 1 .. Len(Dtor(k))
  BY DtorTable DEF Mortal, Classes

(* A constructor makes what its members are built on first.                *)
LEMMA PrefixFacts ==
    ASSUME NEW k \in Classes, NEW n \in 0 .. Len(Ctor(k))
    PROVE  /\ Prefix(k, 0) = {} /\ Prefix(k, n) \subseteq Elems(Ctor(k))
           /\ n # 0 => Prefix(k, n) = Prefix(k, n - 1) \cup {Ctor(k)[n]}
           /\ n = Len(Ctor(k)) => Prefix(k, n) = Elems(Ctor(k))
           /\ "qp" \in Prefix(k, n) => {"cq", "recv_cq"} \cap Elems(Ctor(k)) \subseteq Prefix(k, n)
           /\ "pd" \in Prefix(k, n) => "ctx" \in Prefix(k, n)
           /\ k = "UD" /\ n < 6 /\ Ctor(k)[n + 1] \notin QPStates => "qp" \notin Prefix(k, n)
  <1>0. Len(Ctor(k)) \in Nat /\ DOMAIN Ctor(k) = 1 .. Len(Ctor(k))
    BY CtorLengths
  <1>1. /\ Prefix(k, 0) = {} /\ Prefix(k, n) \subseteq Elems(Ctor(k))
        /\ n = Len(Ctor(k)) => Prefix(k, n) = Elems(Ctor(k))
    <2>1. 1 .. 0 = {}
      OBVIOUS
    <2>2. 1 .. n \subseteq DOMAIN Ctor(k)
      BY <1>0
    <2> QED BY <1>0, <2>1, <2>2 DEF Prefix, Elems
  <1>2. n # 0 => Prefix(k, n) = Prefix(k, n - 1) \cup {Ctor(k)[n]}
    <2> SUFFICES ASSUME n # 0 PROVE Prefix(k, n) = Prefix(k, n - 1) \cup {Ctor(k)[n]}
      OBVIOUS
    <2>1. 1 .. n = (1 .. n - 1) \cup {n}
      BY <1>0
    <2> QED BY <2>1 DEF Prefix
  <1>3. "pd" \in Prefix(k, n) => "ctx" \in Prefix(k, n)
    <2> SUFFICES ASSUME NEW i \in 1 .. n, Ctor(k)[i] = "pd" PROVE "ctx" \in Prefix(k, n)
      BY DEF Prefix
    <2>1. i \in 1 .. Len(Ctor(k)) /\ "pd" \in Elems(Ctor(k))
      BY <1>0 DEF Elems
    <2>2. k = "NIC"
      BY <2>1, CtorElems DEF Classes
    <2>3. i = 2
      BY <2>1, <2>2, CtorTable
    <2>4. 1 \in 1 .. n /\ Ctor(k)[1] = "ctx"
      BY <2>2, <2>3, CtorTable
    <2> QED BY <2>4 DEF Prefix
  <1>4. "qp" \in Prefix(k, n) => {"cq", "recv_cq"} \cap Elems(Ctor(k)) \subseteq Prefix(k, n)
    <2> SUFFICES ASSUME NEW i \in 1 .. n, Ctor(k)[i] = "qp"
                 PROVE  {"cq", "recv_cq"} \cap Elems(Ctor(k)) \subseteq Prefix(k, n)
      BY DEF Prefix
    <2>1. CASE k \in {"UD", "RCM"}
      <3>1. i = 3 /\ Ctor(k)[1] = "cq" /\ Ctor(k)[2] = "recv_cq"
        <4>1. CASE k = "UD"
          <5>1. i \in 1 .. 6 /\ Ctor("UD")[i] = "qp"
            <6>1. Len(Ctor(k)) = 6
              BY <4>1, CtorTable
            <6> QED BY <4>1, <6>1
          <5>2. i = 3
            BY <5>1, CtorTable
          <5> QED BY <4>1, <5>2, CtorTable
        <4>2. CASE k = "RCM"
          <5>1. i \in 1 .. 4 /\ Ctor("RCM")[i] = "qp"
            <6>1. Len(Ctor(k)) = 4
              BY <4>2, CtorTable
            <6> QED BY <4>2, <6>1
          <5>2. i = 3
            BY <5>1, CtorTable
          <5> QED BY <4>2, <5>2, CtorTable
        <4> QED BY <2>1, <4>1, <4>2
      <3> QED BY <3>1 DEF Prefix
    <2>2. CASE k \in {"RC", "DC"}
      <3>1. Ctor(k)[1] = "cq" /\ "recv_cq" \notin Elems(Ctor(k))
        BY <2>2, CtorTable, CtorElems, SMTT(30)
      <3>2. 1 \in 1 .. n
        BY <1>0
      <3>3. "cq" \in Prefix(k, n)
        BY <3>1, <3>2 DEF Prefix
      <3> QED BY <3>1, <3>3
    <2>3. CASE k \in {"NIC", "MEM", "CHAN", "MR"}
      <3>1. "qp" \in Elems(Ctor(k))
        BY <1>0 DEF Elems
      <3> QED BY <2>3, <3>1, CtorElems
    <2> QED BY <2>1, <2>2, <2>3 DEF Classes
  <1>5. k = "UD" /\ n < 6 /\ Ctor(k)[n + 1] \notin QPStates => "qp" \notin Prefix(k, n)
    <2> SUFFICES ASSUME k = "UD", n < 6, Ctor(k)[n + 1] \notin QPStates, NEW i \in 1 .. n,
                        Ctor(k)[i] = "qp"
                 PROVE  FALSE
      BY DEF Prefix
    <2>1. i = 3 /\ n \in {3, 4, 5}
      BY <1>0, CtorTable
    <2> QED BY <2>1, CtorTable DEF QPStates
  <1> QED BY <1>1, <1>2, <1>3, <1>4, <1>5

(* A destructor goes through all members, each once but in a DC, and a QP  *)
(* before the CQs it uses.                                                 *)
LEMMA DtorFacts ==
    ASSUME NEW k \in Mortal, NEW n \in 1 .. Len(Dtor(k))
    PROVE  /\ Elems(Ctor(k)) \ QPStates \subseteq {Dtor(k)[i] : i \in 1 .. Len(Dtor(k))}
           /\ Dtor(k)[n] \in Fields
           /\ {Dtor(k)[i] : i \in 1 .. n} = {Dtor(k)[i] : i \in 1 .. n - 1} \cup {Dtor(k)[n]}
           /\ Dtor(k)[n] \in {"cq", "recv_cq"} => "qp" \in {Dtor(k)[i] : i \in 1 .. n - 1}
           /\ "qp" \notin {Dtor(k)[i] : i \in 1 .. n - 1} =>
                  {"cq", "recv_cq", "ctx"} \cap {Dtor(k)[i] : i \in 1 .. n - 1} = {}
                     \/ k = "NIC"
           /\ "pd" \notin {Dtor(k)[i] : i \in 1 .. n - 1} =>
                  "ctx" \notin {Dtor(k)[i] : i \in 1 .. n - 1}
           /\ k # "DC" => Dtor(k)[n] \notin {Dtor(k)[i] : i \in 1 .. n - 1}
  <1>0. Len(Dtor(k)) \in Nat /\ DOMAIN Dtor(k) = 1 .. Len(Dtor(k)) /\ n \in Nat
    BY DtorLengths
  <1>1. {Dtor(k)[i] : i \in 1 .. n} = {Dtor(k)[i] : i \in 1 .. n - 1} \cup {Dtor(k)[n]}
    <2>1. 1 .. n = (1 .. n - 1) \cup {n}
      BY <1>0
    <2> QED BY <2>1
  <1>2. CASE k = "NIC"
    BY <1>0, <1>1, <1>2, DtorTable, CtorElems, SMTT(30) DEF Fields, QPStates
  <1>3. CASE k = "MEM"
    BY <1>0, <1>1, <1>3, DtorTable, CtorElems, SMTT(30) DEF Fields, QPStates
  <1>4. CASE k = "MR"
    BY <1>0, <1>1, <1>4, DtorTable, CtorElems, SMTT(30) DEF Fields, QPStates
  <1>5. CASE k = "RC"
    BY <1>0, <1>1, <1>5, DtorTable, CtorElems, SMTT(30) DEF Fields, QPStates
  <1>6. CASE k = "UD"
    BY <1>0, <1>1, <1>6, DtorTable, CtorElems, SMTT(30) DEF Fields, QPStates
  <1>7. CASE k = "DC"
    BY <1>0, <1>1, <1>7, DtorTable, CtorElems, SMTT(30) DEF Fields, QPStates
  <1>8. CASE k = "RCM"
    BY <1>0, <1>1, <1>8, DtorTable, CtorElems, SMTT(30) DEF Fields, QPStates
  <1> QED BY <1>2, <1>3, <1>4, <1>5, <1>6, <1>7, <1>8 DEF Classes, Mortal

-----------------------------------------------------------------------------
(* The invariant.                                                          *)

(* Names and classes, and what an object may be missing.                   *)
KindsOK ==
    \A h \in Names :
        /\ kind[h] \in KindsOf(h) \cup {"none"}
        /\ phase[h] = "none" => has[h] = {} /\ args[h] = {}
        /\ phase[h] # "none" => \E n \in 0 .. Len(Ctor(kind[h])) : has[h] = Prefix(kind[h], n)
        /\ phase[h] = "ctor" => has[h] = Prefix(kind[h], pc[h] - 1)
        /\ phase[h] = "ready" => create_returns(h)
        /\ phase[h] = "ready" /\ kind[h] = "UD" => has[h] = Elems(UD_ctor)
        /\ h \in Chans => phase[h] # "dtor" /\ (phase[h] = "ready" => h \in app /\ has[h] = {"cq"})
        /\ kind[h] = "RCM" => \E c \in Chans : args[h] \cap Chans = {c}
        /\ h \in reading => phase[h] = "ready" /\ h \notin Chans

(* What an object was given: of objects that are ready, and NICs that  *)
(* are valid; of memory that was there when it was registered.             *)
ArcsOK ==
    \A g \in Names : \A h \in args[g] :
        /\ phase[h] = "ready"
        /\ h \in Nics => {"ctx", "pd"} \subseteq has[h]
        /\ h \in Mems /\ "mr" \in has[g] => "buf" \in has[h]

(* The driver objects are exactly those the objects still have; only the   *)
(* CQ of a channel may be gone while the channel is there.                 *)
LiveAt(h) ==
    \A f \in Fields : /\ <<f, h>> \in live => f \in Kept(h)
                      /\ h \notin Chans /\ f \in Kept(h) => <<f, h>> \in live
LiveOK == \A h \in Names : LiveAt(h)

Types == /\ pc \in [Names -> Nat] /\ has \in [Names -> SUBSET (Fields \cup QPStates)]
BaseInv == TypeOK /\ Types /\ KindsOK /\ ArcsOK /\ LiveOK

(* An RC that has a recv_cq on loan from the channel c.                    *)
Holds(g, c) == kind[g] = "RCM" /\ c \in args[g] /\ "recv_cq" \in has[g] \ Gone(g)

(* The CQ of a channel is there until the first RC it was lent to destroys *)
(* it; unless it is lent again, nobody else has it meanwhile.              *)
ChanInv ==
    /\ \A c \in Chans \ lent : phase[c] = "ready" => <<"cq", c>> \in live
    /\ \A c \in Chans, g \in Names :
          Holds(g, c) => /\ c \in lent
                         /\ c \notin shared => /\ <<"cq", c>> \in live
                                               /\ \A x \in Names : Holds(x, c) => x = g

-----------------------------------------------------------------------------
(* What the invariant means for one object.                                *)
LEMMA KindFacts ==
    ASSUME NoTargets, BaseInv, NEW h \in Names, phase[h] # "none"
    PROVE  /\ kind[h] \in Classes /\ kind[h] # "none"
           /\ h \in Nics <=> kind[h] = "NIC"
           /\ h \in Mems <=> kind[h] = "MEM"
           /\ h \in Chans <=> kind[h] = "CHAN"
           /\ Counted => kind[h] # "DC"
  BY NamesAssumption DEF BaseInv, TypeOK, KindsOK, KindsOf, NoTargets, Counted, Classes, Names

(* An object with a QP has the queues it was made with, and one with a    *)
(* PD has its context.                                                    *)
LEMMA HasFacts ==
    ASSUME NoTargets, BaseInv, NEW h \in Names, phase[h] # "none"
    PROVE  /\ has[h] \subseteq Elems(Ctor(kind[h]))
           /\ "qp" \in has[h] => {"cq", "recv_cq"} \cap Elems(Ctor(kind[h])) \subseteq has[h]
           /\ "pd" \in has[h] => "ctx" \in has[h]
  <1>1. kind[h] \in Classes
    BY KindFacts
  <1>2. PICK n \in 0 .. Len(Ctor(kind[h])) : has[h] = Prefix(kind[h], n)
    BY DEF BaseInv, KindsOK
  <1> QED BY <1>1, <1>2, PrefixFacts

(* The driver objects of one object.                                       *)
LEMMA LiveFacts ==
    ASSUME BaseInv, NEW h \in Names, NEW f \in Fields
    PROVE  /\ <<f, h>> \in live => f \in has[h] \ (QPStates \cup Loan(h) \cup Gone(h))
           /\ h \notin Chans /\ f \in has[h] \ (QPStates \cup Loan(h) \cup Gone(h)) => <<f, h>> \in live
  <1>1. LiveAt(h)
    BY DEF BaseInv, LiveOK
  <1>2. /\ <<f, h>> \in live => f \in Kept(h)
        /\ h \notin Chans /\ f \in Kept(h) => <<f, h>> \in live
    BY <1>1 DEF LiveAt
  <1> QED BY <1>2 DEF Kept

(* What a driver object may be built on.                                   *)
LEMMA BuiltOnCases ==
    ASSUME NoTargets, BaseInv, NEW f \in Fields, NEW h \in Names, <<f, h>> \in live,
           NEW o \in BuiltOn(<<f, h>>)
    PROVE  /\ phase[h] # "none" /\ f \in has[h] \ Gone(h)
           /\ \/ f = "pd" /\ o = <<"ctx", h>>
              \/ f \in {"cq", "recv_cq"} /\ \E x \in args[h] \cap Nics : o = <<"ctx", x>>
              \/ f \in {"qp", "mr"} /\ \E x \in args[h] \cap Nics : o = <<"pd", x>>
              \/ /\ f = "qp"
                 /\ \E c \in {"cq", "recv_cq"} \cap Elems(Ctor(kind[h])) : o = Target(c, h)
              \/ f = "mr" /\ \E x \in args[h] \cap Mems : o = <<"buf", x>>
  <1>1. f \in has[h] \ Gone(h)
    BY LiveFacts
  <1>2. phase[h] # "none"
    BY <1>1 DEF BaseInv, KindsOK
  <1>3. f \notin {"srq", "dct"}
    BY <1>1, <1>2, HasFacts, KindFacts, CtorElems DEF Classes
  <1>4. <<f, h>>[1] = f /\ <<f, h>>[2] = h
    OBVIOUS
  <1>5. CASE f \in {"ctx", "buf", "pd"}
    BY <1>1, <1>2, <1>4, <1>5 DEF BuiltOn
  <1>6. CASE f \in {"cq", "recv_cq"}
    BY <1>1, <1>2, <1>4, <1>6 DEF BuiltOn
  <1>7. CASE f = "qp"
    BY <1>1, <1>2, <1>4, <1>7 DEF BuiltOn
  <1>8. CASE f = "mr"
    BY <1>1, <1>2, <1>4, <1>8 DEF BuiltOn
  <1> QED BY <1>3, <1>5, <1>6, <1>7, <1>8 DEF Fields

(* What a member points to: its own object, or the CQ of the one channel   *)
(* that was lent.                                                          *)
LEMMA TargetFacts ==
    ASSUME BaseInv, NEW h \in Names, NEW f
    PROVE  /\ f \notin Loan(h) => Target(f, h) = <<f, h>>
           /\ f \in Loan(h) =>
                  /\ f = "recv_cq" /\ kind[h] = "RCM"
                  /\ \E c \in Chans : args[h] \cap Chans = {c} /\ Target(f, h) = <<"cq", c>>
  <1>1. f \notin Loan(h) => Target(f, h) = <<f, h>>
    BY DEF Loan, Target
  <1>2. ASSUME f \in Loan(h)
        PROVE  /\ f = "recv_cq" /\ kind[h] = "RCM"
               /\ \E c \in Chans : args[h] \cap Chans = {c} /\ Target(f, h) = <<"cq", c>>
    <2>1. f = "recv_cq" /\ kind[h] = "RCM"
      BY <1>2 DEF Loan
    <2>2. PICK c \in Chans : args[h] \cap Chans = {c}
      BY <2>1 DEF BaseInv, KindsOK
    <2>3. (CHOOSE x \in Chans : x \in args[h]) = c
      BY <2>2
    <2> QED BY <2>1, <2>2, <2>3 DEF Target
  <1> QED BY <1>1, <1>2

(* While its destructor runs, an object knows how far it is.               *)
LEMMA DtorAt ==
    ASSUME NoTargets, BaseInv, NEW h \in Names, phase[h] = "dtor"
    PROVE  /\ kind[h] \in Mortal /\ pc[h] \in 1 .. Len(Dtor(kind[h]))
           /\ Gone(h) = {Dtor(kind[h])[i] : i \in 1 .. pc[h] - 1}
  <1>1. kind[h] \in Mortal /\ kind[h] \in Classes
    BY KindFacts DEF BaseInv, KindsOK, Mortal
  <1> QED BY <1>1, DtorLengths DEF Gone, BaseInv, TypeOK

(* The invariant leaves no driver object whose base is destroyed, but for *)
(* channels lent more than once.                                          *)
LEMMA Dangle == NoTargets /\ BaseInv /\ ChanInv => NothingDangles
  <1> SUFFICES ASSUME NoTargets, BaseInv, ChanInv, NEW u \in live, NEW o \in BuiltOn(u)
               PROVE  o \in live \cup ({"cq"} \X shared)
    BY DEF NothingDangles
  <1>1. PICK f \in Fields, h \in Names : u = <<f, h>>
    BY DEF BaseInv, TypeOK, Fields
  <1>2. phase[h] # "none" /\ f \in has[h] \ Gone(h)
    BY <1>1, BuiltOnCases
  <1>3. /\ kind[h] \in Classes
        /\ "qp" \in has[h] => {"cq", "recv_cq"} \cap Elems(Ctor(kind[h])) \subseteq has[h]
        /\ "pd" \in has[h] => "ctx" \in has[h]
        /\ has[h] \subseteq Elems(Ctor(kind[h]))
    BY <1>2, HasFacts, KindFacts
  <1>4. ASSUME NEW x \in args[h] \cap Nics
        PROVE  <<"ctx", x>> \in live /\ <<"pd", x>> \in live
    <2>1. /\ x \in Names /\ phase[x] = "ready" /\ {"ctx", "pd"} \subseteq has[x]
          /\ x \notin Chans
      BY <1>4, NamesAssumption DEF BaseInv, ArcsOK, Names
    <2>2. {"ctx", "pd"} \subseteq Kept(x)
      BY <2>1 DEF Kept, Gone, QPStates, Loan
    <2> QED BY <2>1, <2>2 DEF BaseInv, LiveOK, LiveAt, Fields
  <1>5. CASE f = "pd" /\ o = <<"ctx", h>>
    <2>1. "ctx" \notin Gone(h)
      <3>1. CASE phase[h] = "dtor"
        BY <1>2, <1>5, <3>1, DtorAt, DtorFacts
      <3> QED BY <3>1 DEF Gone
    <2>2. "ctx" \in Kept(h)
      BY <1>2, <1>3, <1>5, <2>1 DEF Kept, QPStates, Loan
    <2>3. h \notin Chans
      BY <1>2, <1>3, <1>5, KindFacts, CtorElems
    <2> QED BY <1>5, <2>2, <2>3 DEF BaseInv, LiveOK, LiveAt, Fields
  <1>6. CASE f = "qp" /\ \E c \in {"cq", "recv_cq"} \cap Elems(Ctor(kind[h])) : o = Target(c, h)
    <2>1. PICK c \in {"cq", "recv_cq"} \cap Elems(Ctor(kind[h])) : o = Target(c, h)
      BY <1>6
    <2>2. c \in has[h]
      BY <1>2, <1>3, <1>6, <2>1
    <2>3. c \notin Gone(h)
      <3>1. CASE phase[h] = "dtor"
        <4>1. kind[h] # "NIC"
          BY <1>2, <1>3, <1>6, CtorElems
        <4> QED BY <1>2, <1>6, <2>1, <3>1, <4>1, DtorAt, DtorFacts
      <3> QED BY <3>1 DEF Gone
    <2>4. CASE c \notin Loan(h)
      <3>1. c \in Kept(h) /\ o = <<c, h>>
        BY <2>1, <2>2, <2>3, <2>4, TargetFacts DEF Kept, QPStates
      <3>2. h \notin Chans
        BY <1>2, <1>3, <1>6, KindFacts, CtorElems
      <3> QED BY <2>1, <3>1, <3>2 DEF BaseInv, LiveOK, LiveAt, Fields
    <2>5. CASE c \in Loan(h)
      <3>1. PICK d \in Chans : args[h] \cap Chans = {d} /\ o = <<"cq", d>>
        BY <2>1, <2>5, TargetFacts
      <3>2. Holds(h, d)
        BY <2>2, <2>3, <2>5, <3>1, TargetFacts DEF Holds
      <3> QED BY <3>1, <3>2 DEF ChanInv
    <2> QED BY <2>4, <2>5
  <1>7. CASE f = "mr" /\ \E x \in args[h] \cap Mems : o = <<"buf", x>>
    <2>1. PICK x \in args[h] \cap Mems : o = <<"buf", x>>
      BY <1>7
    <2>2. x \in Names /\ phase[x] = "ready" /\ "buf" \in has[x] /\ x \notin Chans
      BY <1>2, <1>7, <2>1, NamesAssumption DEF BaseInv, ArcsOK, Names
    <2>3. "buf" \in Kept(x)
      BY <2>2 DEF Kept, Gone, QPStates, Loan
    <2> QED BY <2>1, <2>2, <2>3 DEF BaseInv, LiveOK, LiveAt, Fields
  <1>8. \/ f = "pd" /\ o = <<"ctx", h>>
        \/ \E x \in args[h] \cap Nics : o = <<"ctx", x>> \/ o = <<"pd", x>>
        \/ f = "qp" /\ \E c \in {"cq", "recv_cq"} \cap Elems(Ctor(kind[h])) : o = Target(c, h)
        \/ f = "mr" /\ \E x \in args[h] \cap Mems : o = <<"buf", x>>
    BY <1>1, BuiltOnCases
  <1> QED BY <1>4, <1>5, <1>6, <1>7, <1>8

(* Nothing is built on what a destructor is about to destroy.              *)
LEMMA NotInUse ==
    ASSUME NoTargets, BaseInv, NEW h \in Names, phase[h] = "dtor",
           NEW f, f = Dtor(kind[h])[pc[h]], <<f, h>> \in live, f \notin {"buf", "ctx"}
    PROVE  ~InUse(<<f, h>>)
  <1> SUFFICES ASSUME NEW u \in live, <<f, h>> \in BuiltOn(u) PROVE FALSE
    BY DEF InUse
  <1>1. PICK f2 \in Fields, h2 \in Names : u = <<f2, h2>>
    BY DEF BaseInv, TypeOK, Fields
  <1>2. /\ phase[h2] # "none" /\ f2 \in has[h2] \ Gone(h2)
        /\ \/ f \in {"ctx", "buf"}
           \/ f = "pd" /\ h \in args[h2]
           \/ /\ f2 = "qp"
              /\ \E c \in {"cq", "recv_cq"} \cap Elems(Ctor(kind[h2])) : <<f, h>> = Target(c, h2)
    BY <1>1, BuiltOnCases
  <1>3. CASE f = "pd" /\ h \in args[h2]
    BY <1>3 DEF BaseInv, ArcsOK
  <1>4. CASE /\ f2 = "qp"
             /\ \E c \in {"cq", "recv_cq"} \cap Elems(Ctor(kind[h2])) : <<f, h>> = Target(c, h2)
    <2>1. PICK c \in {"cq", "recv_cq"} : <<f, h>> = Target(c, h2)
      BY <1>4
    <2>2. h \notin Chans
      BY DEF BaseInv, KindsOK
    <2>3. h2 = h /\ f \in {"cq", "recv_cq"}
      BY <2>1, <2>2, TargetFacts
    <2>4. "qp" \in Gone(h)
      BY <2>3, DtorAt, DtorFacts
    <2> QED BY <1>2, <1>4, <2>3, <2>4
  <1> QED BY <1>2, <1>3, <1>4

-----------------------------------------------------------------------------
(* No object exists at the start.                                         *)
LEMMA InitBase == NoTargets /\ Init => BaseInv
  <1> SUFFICES ASSUME Init PROVE BaseInv
    OBVIOUS
  <1>1. \A h \in Names : phase[h] = "none" /\ kind[h] = "none" /\ has[h] = {} /\ args[h] = {}
    BY DEF Init
  <1>2. TypeOK /\ Types
    BY <1>1 DEF Init, TypeOK, Types
  <1>3. KindsOK /\ ArcsOK
    BY <1>1 DEF Init, KindsOK, ArcsOK
  <1>4. LiveOK
    BY <1>1 DEF Init, LiveOK, LiveAt, Kept
  <1> QED BY <1>2, <1>3, <1>4 DEF BaseInv

(* Whoever is not ready is in nobody's Arcs.                               *)
LEMMA NoArcTo ==
    ASSUME NoTargets, BaseInv, NEW h \in Names, phase[h] # "ready" \/ ~Referenced(h)
    PROVE  \A g \in Names : h \notin args[g]
  <1> SUFFICES ASSUME NEW g \in Names, h \in args[g] PROVE FALSE
    OBVIOUS
  <1>1. phase[h] = "ready"
    BY DEF BaseInv, ArcsOK
  <1>2. phase[g] # "none"
    BY DEF BaseInv, KindsOK
  <1>3. kind[g] # "DCT"
    BY <1>2, KindFacts DEF Classes
  <1>4. phase[g] \in {"ctor", "ready", "dtor"}
    BY <1>2 DEF BaseInv, TypeOK
  <1>5. h \in Chans => h \in app
    BY <1>1 DEF BaseInv, KindsOK
  <1> QED BY <1>1, <1>3, <1>4, <1>5 DEF Referenced, Held, Members

(* The invariant of one object, and how a step keeps it for the others.    *)
Obj(h) ==
    /\ h \in reading => phase[h] = "ready" /\ h \notin Chans
    /\ h \in Chans => phase[h] # "dtor" /\ (phase[h] = "ready" => h \in app /\ has[h] = {"cq"})
    /\ kind[h] = "RCM" => \E c \in Chans : args[h] \cap Chans = {c}
    /\ phase[h] = "none" <=> kind[h] = "none"
    /\ phase[h] = "ctor" => pc[h] \in DOMAIN Ctor(kind[h])
    /\ phase[h] = "dtor" => pc[h] \in DOMAIN Dtor(kind[h])
    /\ phase[h] # "none" => has[h] \subseteq Elems(Ctor(kind[h]))
    /\ h \in app => phase[h] = "ready"
    /\ kind[h] \in KindsOf(h) \cup {"none"}
    /\ phase[h] = "none" => has[h] = {} /\ args[h] = {}
    /\ phase[h] # "none" => \E n \in 0 .. Len(Ctor(kind[h])) : has[h] = Prefix(kind[h], n)
    /\ phase[h] = "ctor" => has[h] = Prefix(kind[h], pc[h] - 1)
    /\ phase[h] = "ready" => create_returns(h)
    /\ phase[h] = "ready" /\ kind[h] = "UD" => has[h] = Elems(UD_ctor)
    /\ LiveAt(h)

Ranges ==
    /\ live \subseteq Fields \X Names
    /\ kind \in [Names -> AllKinds \cup {"none"}]
    /\ phase \in [Names -> {"none", "ctor", "ready", "dtor"}]
    /\ args \in [Names -> SUBSET Names] /\ app \subseteq Names /\ reading \subseteq Names
    /\ pc \in [Names -> Nat] /\ has \in [Names -> SUBSET (Fields \cup QPStates)]
    /\ lent \subseteq Chans /\ shared \subseteq lent

(* The invariant, object by object.                                       *)
LEMMA BaseIsObjs == BaseInv <=> Ranges /\ ArcsOK /\ \A h \in Names : Obj(h)
  <1>1. BaseInv => Ranges /\ ArcsOK
    BY DEF BaseInv, TypeOK, Types, Ranges, Fields
  <1>2. ASSUME BaseInv, NEW h \in Names PROVE Obj(h)
    BY <1>2, ZenonT(60) DEF BaseInv, TypeOK, KindsOK, LiveOK, Obj
  <1>3. ASSUME Ranges, ArcsOK, \A h \in Names : Obj(h) PROVE BaseInv
    <2>1. TypeOK /\ Types
      BY <1>3 DEF TypeOK, Types, Ranges, Obj, Fields
    <2>2. KindsOK
      BY <1>3, ZenonT(60) DEF KindsOK, Obj
    <2>3. LiveOK
      BY <1>3 DEF LiveOK, Obj
    <2> QED BY <1>3, <2>1, <2>2, <2>3 DEF BaseInv
  <1> QED BY <1>1, <1>2, <1>3

Others(h) ==
    \A x \in Names \ {h} :
        /\ kind'[x] = kind[x] /\ phase'[x] = phase[x] /\ pc'[x] = pc[x] /\ has'[x] = has[x]
        /\ args'[x] = args[x] /\ (x \in app' <=> x \in app) /\ (x \in reading' => x \in reading)
        /\ \A f : /\ <<f, x>> \in live' => <<f, x>> \in live
                  /\ x \notin Chans /\ <<f, x>> \in live => <<f, x>> \in live'

(* An object that an action does not touch keeps its part of the          *)
(* invariant.                                                             *)
LEMMA OthersKeep ==
    ASSUME NEW h \in Names, Others(h), NEW x \in Names, x # h, Obj(x)
    PROVE  Obj(x)'
  <1>1. /\ kind'[x] = kind[x] /\ phase'[x] = phase[x] /\ pc'[x] = pc[x] /\ has'[x] = has[x]
        /\ args'[x] = args[x] /\ (x \in app' <=> x \in app) /\ (x \in reading' => x \in reading)
        /\ \A f : /\ <<f, x>> \in live' => <<f, x>> \in live
                  /\ x \notin Chans /\ <<f, x>> \in live => <<f, x>> \in live'
    BY DEF Others
  <1>2. (create_returns(x)' <=> create_returns(x)) /\ Kept(x)' = Kept(x)
    BY <1>1 DEF create_returns, valid, Kept, Gone, Loan
  <1>3. phase[x] # "none" => \E n \in 0 .. Len(Ctor(kind[x])) : has[x] = Prefix(kind[x], n)
    BY DEF Obj, LiveAt
  <1>4. phase'[x] # "none" => \E n \in 0 .. Len(Ctor(kind'[x])) : has'[x] = Prefix(kind'[x], n)
    BY <1>1, <1>3
  <1> QED BY <1>1, <1>2, <1>4 DEF Obj, LiveAt

(* To keep the invariant, the one object that moves has to keep it.       *)
LEMMA OneMoves ==
    ASSUME BaseInv, NEW h \in Names, Others(h), Obj(h)', Ranges', ArcsOK'
    PROVE  BaseInv'
  <1>1. \A x \in Names : Obj(x)'
    BY OthersKeep, BaseIsObjs
  <1>2. TypeOK' /\ Types'
    BY <1>1 DEF TypeOK, Types, Ranges, Obj, Fields
  <1>3. KindsOK'
    BY <1>1 DEF KindsOK, Obj
  <1>4. LiveOK'
    BY <1>1 DEF LiveOK, Obj
  <1> QED BY <1>2, <1>3, <1>4 DEF BaseInv

(* Starting a constructor takes the Arcs of its arguments.                *)
LEMMA CreateInv ==
    ASSUME NoTargets, BaseInv, NEW h \in Names, NEW k \in KindsOf(h), Create(h, k)
    PROVE  BaseInv'
  <1>1. /\ phase[h] = "none" /\ \A o \in live : o[2] # h
        /\ kind' = [kind EXCEPT ![h] = k] /\ phase' = [phase EXCEPT ![h] = "ctor"]
        /\ pc' = [pc EXCEPT ![h] = 1] /\ UNCHANGED <<live, has, app, reading, lent, shared, bad>>
    BY DEF Create
  <1>2. PICK a \in Params(k) : args' = [args EXCEPT ![h] = a]
    BY DEF Create
  <1>3. k \in Classes /\ k \in AllKinds /\ k # "none"
    BY NamesAssumption, KindsAssumption DEF NoTargets, KindsOf, Classes, AllKinds, Names
  <1>4. /\ a \subseteq app \cap (Nics \cup Mems \cup Chans)
        /\ k = "RCM" => \E c \in Chans : a \cap Chans = {c}
    <2>1. CASE k = "RCM"
      <3>1. PICK nic \in app \cap Nics, c \in app \cap Chans : a = {nic, c}
        BY <2>1 DEF Params
      <3>2. nic \notin Chans
        BY NamesAssumption
      <3>3. a \cap Chans = {c}
        BY <3>1, <3>2
      <3> QED BY <3>1, <3>3
    <2>2. CASE k # "RCM"
      BY <1>3, <2>2 DEF Params, Classes
    <2> QED BY <2>1, <2>2
  <1>5. /\ Ranges /\ ArcsOK /\ (\A x \in Names : Obj(x)) /\ has[h] = {}
    BY <1>1, BaseIsObjs DEF Obj, LiveAt
  <1>6. Ranges'
    BY <1>1, <1>2, <1>3, <1>4, <1>5 DEF Ranges, Names
  <1>7. /\ kind'[h] = k /\ phase'[h] = "ctor" /\ pc'[h] = 1 /\ has'[h] = {} /\ args'[h] = a
        /\ Others(h)
    BY <1>1, <1>2, <1>5 DEF Ranges, Others
  <1>8. Obj(h)'
    <2>1. 1 \in DOMAIN Ctor(k) /\ 0 \in 0 .. Len(Ctor(k)) /\ Prefix(k, 0) = {}
      <3>1. Len(Ctor(k)) \in Nat \ {0} /\ DOMAIN Ctor(k) = 1 .. Len(Ctor(k))
        BY <1>3, CtorLengths
      <3>2. 0 \in 0 .. Len(Ctor(k))
        BY <3>1
      <3> QED BY <1>3, <3>1, <3>2, PrefixFacts
    <2>2. h \notin app /\ h \notin reading
      BY <1>1, <1>5 DEF Obj
    <2>3. \A f \in Fields : <<f, h>> \notin live' /\ f \notin Kept(h)'
      BY <1>1, <1>7 DEF Kept
    <2>4. \E n \in 0 .. Len(Ctor(kind'[h])) : has'[h] = Prefix(kind'[h], n)
      BY <1>7, <2>1
    <2>5. has'[h] = Prefix(kind'[h], pc'[h] - 1)
      BY <1>7, <2>1
    <2>6. kind'[h] = "RCM" => \E c \in Chans : args'[h] \cap Chans = {c}
      BY <1>4, <1>7
    <2> QED BY <1>1, <1>3, <1>7, <2>1, <2>2, <2>3, <2>4, <2>5, <2>6 DEF Obj, LiveAt
  <1>9. ArcsOK'
    <2> SUFFICES ASSUME NEW g \in Names, NEW x \in args'[g]
                 PROVE  /\ phase'[x] = "ready"
                        /\ x \in Nics => {"ctx", "pd"} \subseteq has'[x]
                        /\ x \in Mems /\ "mr" \in has'[g] => "buf" \in has'[x]
      BY DEF ArcsOK
    <2>1. CASE g # h
      <3>1. x \in args[g] /\ has'[g] = has[g]
        BY <1>7, <2>1 DEF Others
      <3>2. /\ phase[x] = "ready" /\ x \in Names
            /\ x \in Nics => {"ctx", "pd"} \subseteq has[x]
            /\ x \in Mems /\ "mr" \in has[g] => "buf" \in has[x]
        BY <1>5, <3>1 DEF ArcsOK, Ranges
      <3>3. x # h
        BY <1>1, <3>2
      <3> QED BY <1>7, <3>1, <3>2, <3>3 DEF Others
    <2>2. CASE g = h
      <3>1. x \in app /\ x \in Names /\ x # h /\ phase[x] = "ready" /\ create_returns(x)
        BY <1>1, <1>4, <1>5, <1>7, <2>2 DEF Obj, Ranges
      <3>2. x \in Nics => {"ctx", "pd"} \subseteq has[x]
        BY <3>1, KindFacts DEF create_returns, valid
      <3> QED BY <1>7, <2>2, <3>1, <3>2 DEF Others
    <2> QED BY <2>1, <2>2
  <1> QED BY <1>6, <1>7, <1>8, <1>9, OneMoves

(* Arcs stay good when only one object moves, one that nobody has an Arc   *)
(* of, and whose registration, if any, found its memory.                   *)
LEMMA ArcsKept ==
    ASSUME NoTargets, BaseInv, NEW h \in Names, Others(h), \A g \in Names : h \notin args[g],
           args'[h] \subseteq args[h],
           "mr" \in has'[h] => \/ "mr" \in has[h]
                               \/ \A x \in args[h] \cap Mems : "buf" \in has[x]
    PROVE  ArcsOK'
  <1> SUFFICES ASSUME NEW g \in Names, NEW x \in args'[g]
               PROVE  /\ phase'[x] = "ready"
                      /\ x \in Nics => {"ctx", "pd"} \subseteq has'[x]
                      /\ x \in Mems /\ "mr" \in has'[g] => "buf" \in has'[x]
    BY DEF ArcsOK
  <1>1. x \in args[g]
    BY DEF Others
  <1>2. /\ phase[x] = "ready" /\ x \in Names /\ x # h
        /\ x \in Nics => {"ctx", "pd"} \subseteq has[x]
        /\ x \in Mems /\ "mr" \in has[g] => "buf" \in has[x]
    BY <1>1 DEF BaseInv, ArcsOK, TypeOK
  <1>3. phase'[x] = "ready" /\ has'[x] = has[x]
    BY <1>2 DEF Others
  <1>4. "mr" \in has'[g] /\ x \in Mems => "buf" \in has[x]
    <2>1. CASE g # h
      BY <1>2, <2>1 DEF Others
    <2>2. CASE g = h
      BY <1>1, <1>2, <2>2
    <2> QED BY <2>1, <2>2
  <1> QED BY <1>2, <1>3, <1>4

(* A destructor starts.                                                    *)
LEMMA ReleaseInv ==
    ASSUME NoTargets, BaseInv, NEW h \in Names, Release(h)
    PROVE  BaseInv'
  <1>1. /\ phase[h] = "ready" /\ ~Referenced(h) /\ phase' = [phase EXCEPT ![h] = "dtor"]
        /\ pc' = [pc EXCEPT ![h] = 1] /\ UNCHANGED <<live, kind, has, args, app, reading, lent, shared, bad>>
    BY DEF Release
  <1>2. Ranges /\ ArcsOK /\ (\A x \in Names : Obj(x))
    BY BaseIsObjs
  <1>3. Ranges'
    BY <1>1, <1>2 DEF Ranges
  <1>4. phase'[h] = "dtor" /\ pc'[h] = 1 /\ Others(h)
    BY <1>1, <1>2 DEF Ranges, Others
  <1>5. ArcsOK'
    BY <1>1, <1>4, NoArcTo, ArcsKept
  <1>6. Obj(h)'
    <2>0. h \notin app \cup reading /\ h \notin Chans /\ kind[h] \in Classes /\ kind[h] # "CHAN"
      BY <1>1, <1>2, KindFacts DEF Referenced, Obj
    <2>1. 1 \in DOMAIN Dtor(kind[h]) /\ h \notin app \cup reading /\ h \notin Chans
      BY <2>0, DtorLengths DEF Mortal
    <2>2. Kept(h)' = Kept(h)
      BY <1>1, <1>4 DEF Kept, Gone, Loan
    <2>3. \E n \in 0 .. Len(Ctor(kind'[h])) : has'[h] = Prefix(kind'[h], n)
      BY <1>1, <1>2 DEF Obj, LiveAt
    <2> QED BY <1>1, <1>2, <1>4, <2>1, <2>2, <2>3 DEF Obj, LiveAt
  <1> QED BY <1>3, <1>4, <1>5, <1>6, OneMoves

(* The application lets go of its Arc; the object stays until nobody      *)
(* refers to it.                                                          *)
LEMMA DropInv ==
    ASSUME NoTargets, BaseInv, NEW h \in Names, Drop(h)
    PROVE  BaseInv'
  <1>1. /\ h \notin Chans /\ app' = app \ {h}
        /\ UNCHANGED <<live, kind, phase, pc, has, args, reading, lent, shared, bad>>
    BY DEF Drop
  <1>2. Ranges /\ ArcsOK /\ (\A x \in Names : Obj(x))
    BY BaseIsObjs
  <1>3. Others(h)
    BY <1>1 DEF Others
  <1>4. Kept(h)' = Kept(h) /\ (create_returns(h)' <=> create_returns(h))
    BY <1>1 DEF Kept, Gone, Loan, create_returns, valid
  <1>5. phase[h] # "none" => \E n \in 0 .. Len(Ctor(kind'[h])) : has'[h] = Prefix(kind'[h], n)
    BY <1>1, <1>2 DEF Obj, LiveAt
  <1>6. Obj(h)'
    BY <1>1, <1>2, <1>4, <1>5 DEF Obj, LiveAt
  <1>7. Ranges' /\ ArcsOK'
    BY <1>1, <1>2 DEF Ranges, ArcsOK
  <1> QED BY <1>3, <1>6, <1>7, OneMoves

(* A handler takes or drops its Arc of an object that is there.            *)
LEMMA ReadInv ==
    ASSUME NoTargets, BaseInv, NEW h \in Names, query(h) \/ Answer(h)
    PROVE  BaseInv'
  <1>1. UNCHANGED <<live, kind, phase, pc, has, args, app, lent, shared, bad>>
    BY DEF query, Answer
  <1>2. \A x \in reading' : x \in Names /\ phase[x] = "ready" /\ x \notin Chans
    <2> SUFFICES ASSUME NEW x \in reading' PROVE x \in Names /\ phase[x] = "ready" /\ x \notin Chans
      OBVIOUS
    <2>1. query(h) /\ x = h /\ h \in app
      BY DEF query, Answer
    <2>2. phase[h] = "ready"
      BY <2>1 DEF BaseInv, TypeOK
    <2>3. kind[h] # "CHAN"
      BY <2>1 DEF query
    <2> QED BY <2>1, <2>2, <2>3, KindFacts
  <1>3. TypeOK' /\ Types' /\ ArcsOK'
    BY <1>1, <1>2 DEF BaseInv, TypeOK, Types, ArcsOK
  <1>4. \A x : (create_returns(x)' <=> create_returns(x)) /\ Kept(x)' = Kept(x)
    BY <1>1 DEF create_returns, valid, Kept, Gone, Loan
  <1>5. KindsOK'
    BY <1>1, <1>2, <1>4 DEF BaseInv, KindsOK
  <1>6. LiveOK'
    BY <1>1, <1>4 DEF BaseInv, LiveOK, LiveAt
  <1> QED BY <1>3, <1>5, <1>6 DEF BaseInv

(* The constructor gives the object out, or has to destroy it.             *)
LEMMA EndCtorFacts ==
    ASSUME NoTargets, BaseInv, NEW h \in Names, phase[h] = "ctor", kind' = kind, EndCtor(h),
           NEW n \in 0 .. Len(Ctor(kind[h])), has'[h] = Prefix(kind[h], n),
           n = Len(Ctor(kind[h])) \/ (kind[h] = "UD" => "qp" \notin Prefix(kind[h], n)),
           \A f \in Fields : LET k == has'[h] \ (QPStates \cup Loan(h))
                             IN  /\ <<f, h>> \in live' => f \in k
                                 /\ h \notin Chans /\ f \in k => <<f, h>> \in live',
           has'[h] \subseteq Elems(Ctor(kind[h])), args' = args, reading' = reading,
           h \in Chans => has'[h] = {"cq"}
    PROVE  Obj(h)'
  <1>1. /\ kind[h] \in Classes /\ kind[h] # "none" /\ kind[h] \in KindsOf(h)
        /\ DOMAIN phase = Names /\ DOMAIN pc = Names /\ h \notin app /\ h \notin reading
        /\ h \in Chans <=> kind[h] = "CHAN"
        /\ kind[h] = "RCM" => \E c \in Chans : args'[h] \cap Chans = {c}
    BY KindFacts DEF BaseInv, TypeOK, Types, KindsOK
  <1>2. pc'[h] = 1 /\ (h \notin Chans => 1 \in DOMAIN Dtor(kind[h]))
    <2>1. h \notin Chans => kind[h] \in Mortal
      BY <1>1 DEF Mortal
    <2>2. h \notin Chans => 1 \in DOMAIN Dtor(kind[h])
      BY <2>1, DtorLengths
    <2> QED BY <1>1, <2>2 DEF EndCtor
  <1>3. CASE create_returns(h)' /\ phase'[h] = "ready" /\ app' = app \cup {h}
    <2>1. kind[h] = "UD" => has'[h] = Elems(UD_ctor)
      <3> SUFFICES ASSUME kind[h] = "UD" PROVE has'[h] = Elems(UD_ctor)
        OBVIOUS
      <3>1. "qp" \in has'[h]
        BY <1>3 DEF create_returns, valid
      <3>2. n = Len(Ctor(kind[h]))
        BY <3>1
      <3>3. has'[h] = Elems(Ctor("UD"))
        BY <1>1, <3>2, PrefixFacts
      <3> QED BY <3>3 DEF Ctor
    <2>2. Kept(h)' = has'[h] \ (QPStates \cup Loan(h))
      BY <1>3 DEF Kept, Gone, Loan
    <2>3. \E i \in 0 .. Len(Ctor(kind'[h])) : has'[h] = Prefix(kind'[h], i)
      OBVIOUS
    <2> QED BY <1>1, <1>3, <2>1, <2>2, <2>3 DEF Obj, LiveAt
  <1>4. CASE ~create_returns(h)' /\ phase'[h] = "dtor" /\ app' = app
    <2>0. h \notin Chans
      BY <1>1, <1>4 DEF create_returns
    <2>1. Kept(h)' = has'[h] \ (QPStates \cup Loan(h))
      BY <1>2, <1>4 DEF Kept, Gone, Loan
    <2>2. \E i \in 0 .. Len(Ctor(kind'[h])) : has'[h] = Prefix(kind'[h], i)
      OBVIOUS
    <2> QED BY <1>1, <1>2, <1>4, <2>0, <2>1, <2>2 DEF Obj, LiveAt
  <1> QED BY <1>1, <1>3, <1>4 DEF EndCtor

(* A constructor where it stands.                                          *)
LEMMA CtorAt ==
    ASSUME NoTargets, BaseInv, NEW h \in Names, phase[h] = "ctor"
    PROVE  /\ kind[h] \in Classes /\ kind[h] # "none" /\ kind[h] \in KindsOf(h)
           /\ pc[h] \in 1 .. Len(Ctor(kind[h])) /\ Len(Ctor(kind[h])) \in Nat
           /\ has[h] = Prefix(kind[h], pc[h] - 1) /\ pc[h] - 1 \in 0 .. Len(Ctor(kind[h]))
           /\ has[h] \subseteq Elems(Ctor(kind[h]))
           /\ Prefix(kind[h], pc[h]) = has[h] \cup {Made(h)}
           /\ Prefix(kind[h], pc[h]) \subseteq Elems(Ctor(kind[h]))
           /\ Made(h) \in Fields \cup QPStates
           /\ \A f \in Fields : LET k == has[h] \ (QPStates \cup Loan(h))
                                IN  /\ <<f, h>> \in live => f \in k
                                    /\ h \notin Chans /\ f \in k => <<f, h>> \in live
  <1>1. kind[h] \in Classes /\ kind[h] # "none" /\ kind[h] \in KindsOf(h)
    BY KindFacts DEF BaseInv, KindsOK
  <1>2. Len(Ctor(kind[h])) \in Nat /\ pc[h] \in 1 .. Len(Ctor(kind[h]))
    BY <1>1, CtorLengths DEF BaseInv, TypeOK
  <1>3. /\ has[h] = Prefix(kind[h], pc[h] - 1) /\ pc[h] - 1 \in 0 .. Len(Ctor(kind[h]))
        /\ pc[h] \in 0 .. Len(Ctor(kind[h])) /\ pc[h] # 0
    BY <1>2 DEF BaseInv, KindsOK
  <1>4. Prefix(kind[h], pc[h]) = has[h] \cup {Made(h)}
    BY <1>1, <1>3, PrefixFacts DEF Made
  <1>5. /\ Prefix(kind[h], pc[h]) \subseteq Elems(Ctor(kind[h]))
        /\ has[h] \subseteq Elems(Ctor(kind[h]))
    BY <1>1, <1>3, PrefixFacts
  <1>6. Made(h) \in Fields \cup QPStates
    BY <1>1, <1>2, CtorLengths DEF Made
  <1>7. \A f \in Fields : LET k == has[h] \ (QPStates \cup Loan(h))
                          IN  /\ <<f, h>> \in live => f \in k
                              /\ h \notin Chans /\ f \in k => <<f, h>> \in live
    BY LiveFacts DEF Gone
  <1> QED BY <1>1, <1>2, <1>3, <1>4, <1>5, <1>6, <1>7

(* A constructor that fails keeps what it has made.                       *)
LEMMA CtorFailsInv ==
    ASSUME NoTargets, BaseInv, NEW h \in Names, CtorFails(h)
    PROVE  BaseInv'
  <1>1. /\ phase[h] = "ctor" /\ (Made(h) \in QPStates => kind[h] \in {"RC", "RCM"})
        /\ UNCHANGED <<live, kind, has, args, reading, lent, shared, bad>> /\ EndCtor(h)
        /\ kind[h] # "CHAN"
    BY DEF CtorFails
  <1>2. Ranges
    BY BaseIsObjs
  <1>3. Ranges'
    BY <1>1, <1>2 DEF Ranges, EndCtor
  <1>4. Others(h)
    BY <1>1, <1>2 DEF Others, EndCtor, Ranges
  <1>5. ArcsOK'
    BY <1>1, <1>4, NoArcTo, ArcsKept
  <1>6. kind[h] = "UD" => "qp" \notin Prefix(kind[h], pc[h] - 1)
    <2> SUFFICES ASSUME kind[h] = "UD" PROVE "qp" \notin Prefix("UD", pc[h] - 1)
      OBVIOUS
    <2> DEFINE n == pc[h] - 1
    <2>1. n \in 0 .. Len(Ctor("UD")) /\ n < 6 /\ "UD" \in Classes /\ n + 1 = pc[h]
      <3>1. pc[h] \in 1 .. Len(Ctor(kind[h])) /\ pc[h] - 1 \in 0 .. Len(Ctor(kind[h]))
        BY <1>1, CtorAt
      <3>2. Len(Ctor("UD")) = 6
        BY CtorTable
      <3>3. pc[h] \in 1 .. 6
        BY <3>1, <3>2
      <3>4. n \in 0 .. 6 /\ n < 6 /\ n + 1 = pc[h]
        BY <3>3
      <3> QED BY <3>2, <3>4 DEF Classes
    <2>2. Ctor("UD")[n + 1] \notin QPStates
      BY <1>1, <2>1 DEF Made
    <2> HIDE DEF n
    <2>3. "qp" \notin Prefix("UD", n)
      BY <2>1, <2>2, PrefixFacts
    <2> QED BY <2>3 DEF n
  <1>7. Obj(h)'
    <2>1. h \notin Chans
      BY <1>1, KindFacts
    <2> QED BY <1>1, <1>6, <2>1, CtorAt, EndCtorFacts
  <1> QED BY <1>3, <1>4, <1>5, <1>7, OneMoves

(* A constructor builds on objects that its Arcs keep alive.              *)
LEMMA CtorStepInv ==
    ASSUME NoTargets, BaseInv, NEW h \in Names, CtorStep(h)
    PROVE  BaseInv'
  <1>1. /\ phase[h] = "ctor" /\ (Made(h) = "mr" => BuiltOn(<<"mr", h>>) \subseteq live)
        /\ has' = [has EXCEPT ![h] = has[h] \cup {Made(h)}]
        /\ live' = IF Made(h) \in QPStates \/ Lends(h) THEN live ELSE live \cup {<<Made(h), h>>}
        /\ lent' = IF Lends(h) THEN lent \cup (args[h] \cap Chans) ELSE lent
        /\ shared' = IF Lends(h) THEN shared \cup (args[h] \cap lent) ELSE shared
        /\ UNCHANGED <<kind, args, reading, bad>>
    BY DEF CtorStep
  <1>2. Ranges
    BY BaseIsObjs
  <1>3. /\ has'[h] = Prefix(kind[h], pc[h]) /\ has'[h] \subseteq Elems(Ctor(kind[h]))
        /\ \A f \in Fields : LET k == has'[h] \ (QPStates \cup Loan(h))
                             IN  /\ <<f, h>> \in live' => f \in k
                                 /\ h \notin Chans /\ f \in k => <<f, h>> \in live'
    <2>1. Lends(h) <=> Made(h) \in Loan(h)
      BY DEF Lends, Loan
    <2>2. has'[h] = has[h] \cup {Made(h)}
      BY <1>1, <1>2 DEF Ranges
    <2>3. has'[h] = Prefix(kind[h], pc[h]) /\ has'[h] \subseteq Elems(Ctor(kind[h]))
      BY <1>1, <2>2, CtorAt
    <2>4. /\ Made(h) \in Fields \cup QPStates
          /\ \A f \in Fields : LET k == has[h] \ (QPStates \cup Loan(h))
                               IN  /\ <<f, h>> \in live => f \in k
                                   /\ h \notin Chans /\ f \in k => <<f, h>> \in live
      BY <1>1, CtorAt
    <2> QED BY <1>1, <2>1, <2>2, <2>3, <2>4
  <1>4. /\ live' \subseteq Fields \X Names
        /\ has' \in [Names -> SUBSET (Fields \cup QPStates)]
        /\ lent' \subseteq Chans /\ shared' \subseteq lent'
    <2>1. Made(h) \in Fields \cup QPStates
      BY <1>1, CtorAt
    <2>2. live' \subseteq Fields \X Names /\ has' \in [Names -> SUBSET (Fields \cup QPStates)]
      BY <1>1, <1>2, <2>1 DEF Ranges
    <2>3. lent' \subseteq Chans /\ shared' \subseteq lent'
      BY <1>1, <1>2 DEF Ranges
    <2> QED BY <2>2, <2>3
  <1>5. \A x \in Names \ {h} : /\ has'[x] = has[x]
                               /\ \A f : <<f, x>> \in live' <=> <<f, x>> \in live
    BY <1>1, <1>2 DEF Ranges
  <1>6. "mr" \in has'[h] => "mr" \in has[h] \/ \A x \in args[h] \cap Mems : "buf" \in has[x]
    <2> SUFFICES ASSUME Made(h) = "mr", NEW x \in args[h] \cap Mems PROVE "buf" \in has[x]
      BY <1>1, <1>2 DEF Ranges
    <2>1. BuiltOn(<<"mr", h>>) =
             ({"pd"} \X (args[h] \cap Nics)) \cup ({"buf"} \X (args[h] \cap Mems))
      BY DEF BuiltOn
    <2>2. <<"buf", x>> \in live
      BY <1>1, <2>1
    <2>3. "buf" \in Fields /\ x \in Names
      BY DEF Fields, Names
    <2> QED BY <2>2, <2>3, LiveFacts
  <1>7. CASE /\ pc[h] < Len(Ctor(kind[h])) /\ pc' = [pc EXCEPT ![h] = pc[h] + 1]
             /\ UNCHANGED <<phase, app>>
    <2>1. Others(h)
      BY <1>1, <1>2, <1>5, <1>7 DEF Others, Ranges
    <2>2. ArcsOK'
      BY <1>1, <1>6, <2>1, NoArcTo, ArcsKept
    <2>3. Ranges'
      BY <1>1, <1>2, <1>4, <1>7 DEF Ranges
    <2>4. pc'[h] = pc[h] + 1 /\ pc[h] + 1 \in DOMAIN Ctor(kind[h]) /\ pc[h] \in 0 .. Len(Ctor(kind[h]))
          /\ pc'[h] - 1 = pc[h]
      BY <1>1, <1>2, <1>7, CtorAt, CtorLengths DEF Ranges
    <2>5. Kept(h)' = has'[h] \ (QPStates \cup Loan(h))
      BY <1>1, <1>7 DEF Kept, Gone, Loan
    <2>6. \E i \in 0 .. Len(Ctor(kind'[h])) : has'[h] = Prefix(kind'[h], i)
      BY <1>1, <1>3, <2>4
    <2>7. /\ kind[h] # "none" /\ kind[h] \in KindsOf(h) /\ h \notin app /\ h \notin reading
          /\ kind'[h] = "RCM" => \E c \in Chans : args'[h] \cap Chans = {c}
      BY <1>1, CtorAt DEF BaseInv, TypeOK, KindsOK
    <2>8. Obj(h)'
      BY <1>1, <1>3, <1>7, <2>4, <2>5, <2>6, <2>7 DEF Obj, LiveAt
    <2> QED BY <2>1, <2>2, <2>3, <2>8, OneMoves
  <1>8. CASE pc[h] = Len(Ctor(kind[h])) /\ EndCtor(h)
    <2>1. Others(h)
      BY <1>1, <1>2, <1>5, <1>8 DEF Others, EndCtor, Ranges
    <2>2. ArcsOK'
      BY <1>1, <1>6, <2>1, NoArcTo, ArcsKept
    <2>3. Ranges'
      BY <1>1, <1>2, <1>4, <1>8 DEF Ranges, EndCtor
    <2>4. pc[h] \in 0 .. Len(Ctor(kind[h])) /\ (h \in Chans => has'[h] = {"cq"})
      <3>1. pc[h] \in 0 .. Len(Ctor(kind[h])) /\ kind[h] \in Classes
        BY <1>1, CtorAt
      <3>2. has'[h] = Elems(Ctor(kind[h]))
        BY <1>3, <1>8, <3>1, PrefixFacts
      <3>3. h \in Chans => kind[h] = "CHAN"
        BY <1>1, KindFacts
      <3> QED BY <3>1, <3>2, <3>3, CtorElems
    <2>5. Obj(h)'
      BY <1>1, <1>3, <1>8, <2>4, EndCtorFacts
    <2> QED BY <2>1, <2>2, <2>3, <2>5, OneMoves
  <1> QED BY <1>7, <1>8 DEF CtorStep

(* One call of a destructor: a member that is still there is destroyed;    *)
(* what was lent may be.                                                   *)
LEMMA DtorStepFacts ==
    ASSUME NoTargets, BaseInv, NEW h \in Names, DtorStep(h), NEW f, f = Dtor(kind[h])[pc[h]]
    PROVE  /\ phase[h] = "dtor" /\ kind[h] \in Mortal /\ f \in Fields
           /\ f \notin Loan(h) => live' = live \ {<<f, h>>} /\ (Counted => bad' = bad)
           /\ f \in Loan(h) =>
                  /\ live' = IF f \in has[h] /\ ~Refused(Target(f, h))
                             THEN live \ {Target(f, h)} ELSE live
                  /\ bad' = IF f \in has[h] /\ Refused(Target(f, h))
                            THEN bad \cup {Target(f, h)} ELSE bad
  <1>1. /\ phase[h] = "dtor" /\ Destroy(h)
    BY DEF DtorStep
  <1>2. /\ kind[h] \in Mortal /\ pc[h] \in 1 .. Len(Dtor(kind[h]))
        /\ Gone(h) = {Dtor(kind[h])[i] : i \in 1 .. pc[h] - 1}
    BY <1>1, DtorAt
  <1>3. f \in Fields /\ (kind[h] # "DC" => f \notin Gone(h))
    BY <1>2, DtorFacts
  <1> DEFINE o == Target(f, h)
  <1>4. /\ live' = IF f \in has[h] /\ ~Refused(o) THEN live \ {o} ELSE live
        /\ bad' \in IF f \in has[h] /\ Refused(o) THEN {bad \cup {o}}
                    ELSE IF f \notin has[h] /\ kind[h] = "DCT" THEN {bad, bad \cup {o}}
                    ELSE {bad}
    BY <1>1 DEF Destroy
  <1> HIDE DEF o
  <1>5. kind[h] # "DCT" /\ (Counted => kind[h] # "DC")
    BY <1>1, <1>2, KindFacts DEF Classes, Mortal
  <1>6. CASE f \notin Loan(h)
    <2>1. o = <<f, h>> /\ h \notin Chans
      BY <1>1, <1>6, TargetFacts DEF o, BaseInv, KindsOK
    <2>2. o \in live <=> f \in has[h] \ (QPStates \cup Gone(h))
      BY <1>3, <1>6, <2>1, LiveFacts
    <2>3. o \in live => ~Refused(o)
      <3> SUFFICES ASSUME o \in live, Refused(o) PROVE FALSE
        OBVIOUS
      <3>1. f \notin {"buf", "ctx"} /\ InUse(<<f, h>>)
        BY <2>1 DEF Refused
      <3> QED BY <1>1, <2>1, <3>1, NotInUse
    <2>4. o \notin live => Refused(o)
      BY DEF Refused
    <2>5. live' = live \ {<<f, h>>}
      BY <1>4, <2>1, <2>2, <2>3, <2>4
    <2>6. Counted => bad' = bad
      <3> SUFFICES ASSUME Counted PROVE bad' = bad
        OBVIOUS
      <3>1. f \notin QPStates
        BY <1>3 DEF Fields, QPStates
      <3>2. f \in has[h] => o \in live
        BY <1>3, <1>5, <2>2, <3>1
      <3> QED BY <1>4, <1>5, <2>3, <3>2
    <2> QED BY <1>1, <1>2, <1>3, <1>6, <2>5, <2>6
  <1>7. CASE f \in Loan(h)
    BY <1>1, <1>2, <1>3, <1>4, <1>5, <1>7 DEF o
  <1> QED BY <1>6, <1>7

(* A destructor destroys what it has made, with nothing built on it any   *)
(* more.                                                                  *)
LEMMA DtorStepInv ==
    ASSUME NoTargets, BaseInv, NEW h \in Names, DtorStep(h)
    PROVE  BaseInv'
  <1> DEFINE f == Dtor(kind[h])[pc[h]]
  <1>0. /\ f \notin Loan(h) => live' = live \ {<<f, h>>}
        /\ f \in Loan(h) => \E c \in Chans : live' = live \/ live' = live \ {<<"cq", c>>}
    <2>1. /\ f \notin Loan(h) => live' = live \ {<<f, h>>}
          /\ f \in Loan(h) => live' = live \/ live' = live \ {Target(f, h)}
      BY DtorStepFacts
    <2>2. f \in Loan(h) => \E c \in Chans : Target(f, h) = <<"cq", c>>
      BY TargetFacts
    <2> QED BY <2>1, <2>2
  <1>1. /\ phase[h] = "dtor" /\ kind[h] \in Mortal /\ f \in Fields /\ h \notin Chans
        /\ app' = app /\ reading' = reading /\ lent' = lent /\ shared' = shared
        /\ \A g : <<g, h>> \in live' <=> <<g, h>> \in live /\ (g = f => f \in Loan(h))
        /\ \A x \in Names \ {h} : \A g : /\ <<g, x>> \in live' => <<g, x>> \in live
                                         /\ x \notin Chans /\ <<g, x>> \in live => <<g, x>> \in live'
        /\ live' \subseteq live
    <2>1. /\ phase[h] = "dtor" /\ kind[h] \in Mortal /\ f \in Fields
          /\ app' = app /\ reading' = reading /\ lent' = lent /\ shared' = shared
      BY DtorStepFacts DEF DtorStep
    <2>2. h \notin Chans
      BY <2>1 DEF BaseInv, KindsOK
    <2> HIDE DEF f
    <2>3. CASE f \notin Loan(h)
      BY <1>0, <2>1, <2>2, <2>3
    <2>4. CASE f \in Loan(h)
      BY <1>0, <2>1, <2>2, <2>4
    <2> QED BY <2>3, <2>4
  <1>2. /\ pc[h] \in 1 .. Len(Dtor(kind[h])) /\ Len(Dtor(kind[h])) \in Nat
        /\ Gone(h) = {Dtor(kind[h])[i] : i \in 1 .. pc[h] - 1}
        /\ {Dtor(kind[h])[i] : i \in 1 .. pc[h]} = Gone(h) \cup {f}
        /\ Elems(Ctor(kind[h])) \ QPStates \subseteq {Dtor(kind[h])[i] : i \in 1 .. Len(Dtor(kind[h]))}
    BY <1>1, DtorAt, DtorFacts, DtorLengths
  <1>3. \A g \in Fields :
           <<g, h>> \in live' <=> g \in has[h] \ (QPStates \cup Loan(h) \cup Gone(h) \cup {f})
    <2> HIDE DEF f
    <2>1. \A g \in Fields : <<g, h>> \in live <=> g \in has[h] \ (QPStates \cup Loan(h) \cup Gone(h))
      BY <1>1, LiveFacts
    <2> QED BY <1>1, <2>1
  <1> HIDE DEF f
  <1>4. Ranges /\ Obj(h)
    BY BaseIsObjs
  <1>5. CASE /\ pc[h] < Len(Dtor(kind[h])) /\ pc' = [pc EXCEPT ![h] = pc[h] + 1]
             /\ UNCHANGED <<kind, phase, has, args>>
    <2>1. Others(h)
      BY <1>1, <1>4, <1>5 DEF Others, Ranges
    <2>2. ArcsOK'
      BY <1>1, <1>5, <2>1, NoArcTo, ArcsKept
    <2>3. Ranges'
      BY <1>1, <1>2, <1>4, <1>5 DEF Ranges
    <2>4. /\ pc'[h] = pc[h] + 1 /\ pc[h] + 1 \in DOMAIN Dtor(kind[h]) /\ pc'[h] - 1 = pc[h]
      <3>1. DOMAIN Dtor(kind[h]) = 1 .. Len(Dtor(kind[h]))
        BY <1>1, DtorLengths
      <3>2. pc'[h] = pc[h] + 1
        BY <1>4, <1>5 DEF Ranges
      <3> QED BY <1>2, <1>5, <3>1, <3>2
    <2>5. Kept(h)' = has[h] \ (QPStates \cup Loan(h) \cup Gone(h) \cup {f})
      <3>1. Gone(h)' = {Dtor(kind[h])[i] : i \in 1 .. pc[h]}
        BY <1>1, <1>5, <2>4 DEF Gone
      <3> QED BY <1>2, <1>5, <3>1 DEF Kept, Loan
    <2>6. \E i \in 0 .. Len(Ctor(kind'[h])) : has'[h] = Prefix(kind'[h], i)
      BY <1>1, <1>4, <1>5 DEF Obj, LiveAt
    <2>7. Obj(h)'
      BY <1>1, <1>3, <1>4, <1>5, <2>4, <2>5, <2>6 DEF Obj, LiveAt
    <2> QED BY <2>1, <2>2, <2>3, <2>7, OneMoves
  <1>6. CASE pc[h] = Len(Dtor(kind[h])) /\ EndDtor(h)
    <2>1. /\ phase'[h] = "none" /\ kind'[h] = "none" /\ has'[h] = {} /\ args'[h] = {}
      BY <1>4, <1>6 DEF EndDtor, Ranges
    <2>2. Others(h)
      BY <1>1, <1>4, <1>6 DEF Others, EndDtor, Ranges
    <2>3. ArcsOK'
      BY <1>1, <2>1, <2>2, NoArcTo, ArcsKept
    <2>4. Ranges'
      BY <1>1, <1>4, <1>6 DEF Ranges, EndDtor
    <2>5. has[h] \ (QPStates \cup Loan(h) \cup Gone(h) \cup {f}) = {}
      BY <1>1, <1>2, <1>4, <1>6 DEF Obj, LiveAt
    <2>6. Kept(h)' = {}
      BY <2>1 DEF Kept
    <2>7. h \notin app /\ h \notin reading
      BY <1>1, <1>4 DEF Obj
    <2>8. \A g \in Fields : <<g, h>> \notin live'
      BY <1>3, <2>5
    <2>9. Obj(h)'
      BY <1>1, <2>1, <2>6, <2>7, <2>8 DEF Obj, LiveAt
    <2> QED BY <2>2, <2>3, <2>4, <2>9, OneMoves
  <1> QED BY <1>5, <1>6 DEF DtorStep

(* Every action keeps the invariant.                                      *)
LEMMA NextBase == NoTargets /\ BaseInv /\ [Next]_vars => BaseInv'
  <1> SUFFICES ASSUME NoTargets, BaseInv, [Next]_vars PROVE BaseInv'
    OBVIOUS
  <1>1. CASE UNCHANGED vars
    <2>1. UNCHANGED <<live, kind, phase, pc, has, args, app, reading, lent, shared, bad>>
      BY <1>1 DEF vars
    <2>2. TypeOK' /\ Types' /\ ArcsOK'
      BY <2>1 DEF BaseInv, TypeOK, Types, ArcsOK
    <2>3. \A h : (create_returns(h)' <=> create_returns(h)) /\ Kept(h)' = Kept(h)
      BY <2>1 DEF create_returns, valid, Kept, Gone, Loan
    <2>4. KindsOK'
      BY <2>1, <2>3 DEF BaseInv, KindsOK
    <2>5. LiveOK'
      BY <2>1, <2>3 DEF BaseInv, LiveOK, LiveAt
    <2> QED BY <2>2, <2>4, <2>5 DEF BaseInv
  <1> QED
    BY <1>1, CreateInv, DropInv, ReadInv, CtorStepInv, CtorFailsInv, ReleaseInv, DtorStepInv DEF Next, Step

(* Driver objects are exactly those their C++ objects have made and not    *)
(* destroyed yet, when no object is a DCTarget.                            *)
THEOREM BaseCorrect == NoTargets => (Spec => []BaseInv)
  <1> SUFFICES ASSUME NoTargets PROVE Spec => []BaseInv
    OBVIOUS
  <1>1. Init => BaseInv
    BY InitBase
  <1>2. BaseInv /\ [Next]_vars => BaseInv'
    BY NextBase
  <1> QED BY <1>1, <1>2, PTL DEF Spec

-----------------------------------------------------------------------------
(* Channels.                                                               *)

(* A loan is not counted twice: what an RC holds depends on its own state. *)
LEMMA HoldsSame ==
    ASSUME NEW g, kind'[g] = kind[g], args'[g] = args[g], has'[g] = has[g],
           phase'[g] = phase[g], pc'[g] = pc[g], NEW c
    PROVE  Holds(g, c)' <=> Holds(g, c)
  BY DEF Holds, Gone

(* A constructor lends the CQ of its channel, or makes something else.     *)
LEMMA CtorStepChan ==
    ASSUME NoTargets, BaseInv, BaseInv', ChanInv, NEW h \in Names, CtorStep(h)
    PROVE  ChanInv'
  <1>1. /\ phase[h] = "ctor"
        /\ has' = [has EXCEPT ![h] = has[h] \cup {Made(h)}]
        /\ live' = IF Made(h) \in QPStates \/ Lends(h) THEN live ELSE live \cup {<<Made(h), h>>}
        /\ lent' = IF Lends(h) THEN lent \cup (args[h] \cap Chans) ELSE lent
        /\ shared' = IF Lends(h) THEN shared \cup (args[h] \cap lent) ELSE shared
        /\ UNCHANGED <<kind, args>> /\ live \subseteq live'
    BY DEF CtorStep
  <1>2. Ranges /\ Ranges'
    BY DEF BaseInv, TypeOK, Types, Ranges, Fields
  <1>3. \A x \in Names \ {h} : phase'[x] = phase[x] /\ pc'[x] = pc[x] /\ has'[x] = has[x]
    BY <1>1, <1>2 DEF Ranges, CtorStep, EndCtor
  <1>4. \A x \in Names \ {h} : \A c : Holds(x, c)' <=> Holds(x, c)
    BY <1>1, <1>3, HoldsSame
  <1>5. has'[h] = has[h] \cup {Made(h)} /\ Gone(h) = {} /\ Gone(h)' = {}
    <2>1. phase'[h] = "dtor" => pc'[h] = 1
      BY <1>1, <1>2 DEF Ranges, CtorStep, EndCtor
    <2>2. 1 .. 1 - 1 = {}
      OBVIOUS
    <2> QED BY <1>1, <1>2, <2>1, <2>2 DEF Ranges, Gone
  <1>6. /\ \A c : Holds(h, c)' <=> kind[h] = "RCM" /\ c \in args[h] /\ ("recv_cq" \in has[h] \/ Lends(h))
        /\ \A c : Holds(h, c) <=> kind[h] = "RCM" /\ c \in args[h] /\ "recv_cq" \in has[h]
    BY <1>1, <1>5 DEF Holds, Lends
  <1>7. \A c \in Chans \ lent' : phase'[c] = "ready" => <<"cq", c>> \in live'
    <2> SUFFICES ASSUME NEW c \in Chans \ lent', phase'[c] = "ready" PROVE <<"cq", c>> \in live'
      OBVIOUS
    <2>1. c \in Names /\ c \notin lent
      BY <1>1 DEF Names
    <2>2. CASE c # h
      BY <1>1, <1>3, <2>1, <2>2 DEF ChanInv
    <2>3. CASE c = h
      <3>1. kind[h] = "CHAN"
        BY <1>1, <2>3, KindFacts
      <3>2. pc[h] \in 1 .. Len(Ctor("CHAN"))
        BY <1>1, <3>1, CtorAt
      <3>3. Len(Ctor("CHAN")) = 1
        BY CtorTable
      <3>4. pc[h] = 1
        BY <3>2, <3>3
      <3>5. Made(h) = "cq" /\ ~Lends(h)
        BY <3>1, <3>4, CtorTable DEF Made, Lends
      <3> QED BY <1>1, <2>3, <3>5 DEF QPStates
    <2> QED BY <2>2, <2>3
  <1>8. ASSUME NEW c \in Chans, NEW g \in Names, Holds(g, c)'
        PROVE  /\ c \in lent'
               /\ c \notin shared' => /\ <<"cq", c>> \in live'
                                    /\ \A x \in Names : Holds(x, c)' => x = g
    <2>1. CASE ~(Lends(h) /\ c \in args[h])
      <3>1. \A x \in Names : Holds(x, c)' <=> Holds(x, c)
        BY <1>4, <1>6, <2>1
      <3>2. c \in lent /\ (c \notin shared => <<"cq", c>> \in live
                                            /\ \A x \in Names : Holds(x, c) => x = g)
        BY <1>8, <3>1 DEF ChanInv
      <3>3. lent \subseteq lent' /\ shared \subseteq shared'
        BY <1>1
      <3> QED BY <1>1, <3>1, <3>2, <3>3
    <2>2. CASE Lends(h) /\ c \in args[h]
      <3>1. c \in lent' /\ (c \in lent => c \in shared') /\ live' = live
        BY <1>1, <2>2
      <3>2. ASSUME c \notin lent PROVE <<"cq", c>> \in live /\ \A x \in Names : Holds(x, c)' => x = h
        <4>1. phase[c] = "ready"
          BY <2>2 DEF BaseInv, ArcsOK
        <4>2. \A x \in Names : ~Holds(x, c)
          BY <3>2 DEF ChanInv
        <4> QED BY <1>4, <3>2, <4>1, <4>2 DEF ChanInv
      <3> QED BY <1>8, <3>1, <3>2
    <2> QED BY <2>1, <2>2
  <1> QED BY <1>7, <1>8 DEF ChanInv

(* What an RC has on loan is in use by its own QP only, unless the channel *)
(* was lent to others.                                                     *)
LEMMA LoanNotInUse ==
    ASSUME NoTargets, BaseInv, ChanInv, NEW h \in Names, NEW c \in Chans, Holds(h, c),
           c \notin shared, "qp" \in Gone(h)
    PROVE  ~Refused(<<"cq", c>>)
  <1>1. <<"cq", c>> \in live /\ \A x \in Names : Holds(x, c) => x = h
    BY DEF ChanInv
  <1>2. ASSUME NEW u \in live, <<"cq", c>> \in BuiltOn(u) PROVE FALSE
    <2>1. PICK f2 \in Fields, h2 \in Names : u = <<f2, h2>>
      BY <1>2 DEF BaseInv, TypeOK, Fields
    <2>2. /\ phase[h2] # "none" /\ f2 \in has[h2] \ Gone(h2) /\ f2 = "qp"
          /\ \E d \in {"cq", "recv_cq"} \cap Elems(Ctor(kind[h2])) : <<"cq", c>> = Target(d, h2)
      BY <1>2, <2>1, BuiltOnCases
    <2>3. PICK d \in {"cq", "recv_cq"} \cap Elems(Ctor(kind[h2])) : <<"cq", c>> = Target(d, h2)
      BY <2>2
    <2>4. /\ kind[h2] \in Classes /\ h2 \notin Chans
          /\ {"cq", "recv_cq"} \cap Elems(Ctor(kind[h2])) \subseteq has[h2]
      <3>1. kind[h2] \in Classes /\ (h2 \in Chans => kind[h2] = "CHAN")
        BY <2>2, KindFacts
      <3>2. /\ has[h2] \subseteq Elems(Ctor(kind[h2]))
            /\ {"cq", "recv_cq"} \cap Elems(Ctor(kind[h2])) \subseteq has[h2]
        BY <2>2, HasFacts
      <3> QED BY <2>2, <3>1, <3>2, CtorElems
    <2>5. d \in Loan(h2)
      BY <2>3, <2>4, TargetFacts
    <2>6. d = "recv_cq" /\ kind[h2] = "RCM" /\ c \in args[h2]
      <3>1. PICK e \in Chans : args[h2] \cap Chans = {e} /\ Target(d, h2) = <<"cq", e>>
        BY <2>5, TargetFacts
      <3> QED BY <2>3, <2>5, <3>1, TargetFacts
    <2>7. "recv_cq" \notin Gone(h2)
      <3>1. CASE phase[h2] = "dtor"
        <4>1. /\ kind[h2] \in Mortal /\ pc[h2] \in 1 .. Len(Dtor(kind[h2]))
              /\ Gone(h2) = {Dtor(kind[h2])[i] : i \in 1 .. pc[h2] - 1}
          BY <3>1, DtorAt
        <4>2. "qp" \notin Gone(h2) /\ kind[h2] # "NIC"
          BY <2>2, <2>6
        <4> QED BY <4>1, <4>2, DtorFacts
      <3> QED BY <3>1 DEF Gone
    <2>8. Holds(h2, c)
      BY <2>3, <2>4, <2>6, <2>7 DEF Holds
    <2> QED BY <1>1, <2>2, <2>8
  <1> QED BY <1>1, <1>2 DEF Refused, InUse

(* A destructor gives back what it holds by destroying it.                 *)
LEMMA DtorStepChan ==
    ASSUME NoTargets, BaseInv, BaseInv', ChanInv, NEW h \in Names, DtorStep(h)
    PROVE  /\ ChanInv'
           /\ Counted => bad' \subseteq bad \cup ({"cq"} \X shared)
  <1> DEFINE f == Dtor(kind[h])[pc[h]]
  <1>1. /\ phase[h] = "dtor" /\ kind[h] \in Mortal /\ f \in Fields
        /\ f \notin Loan(h) => live' = live \ {<<f, h>>} /\ (Counted => bad' = bad)
        /\ f \in Loan(h) =>
               /\ live' = IF f \in has[h] /\ ~Refused(Target(f, h))
                          THEN live \ {Target(f, h)} ELSE live
               /\ bad' = IF f \in has[h] /\ Refused(Target(f, h))
                         THEN bad \cup {Target(f, h)} ELSE bad
    BY DtorStepFacts
  <1>2. /\ pc[h] \in 1 .. Len(Dtor(kind[h])) /\ h \notin Chans
        /\ Gone(h) = {Dtor(kind[h])[i] : i \in 1 .. pc[h] - 1}
        /\ {Dtor(kind[h])[i] : i \in 1 .. pc[h]} = Gone(h) \cup {f}
        /\ f \in {"cq", "recv_cq"} => "qp" \in Gone(h)
        /\ kind[h] = "RCM" => f \notin Gone(h)
    <2>1. /\ pc[h] \in 1 .. Len(Dtor(kind[h]))
          /\ Gone(h) = {Dtor(kind[h])[i] : i \in 1 .. pc[h] - 1}
      BY <1>1, DtorAt
    <2>2. h \notin Chans
      BY <1>1 DEF BaseInv, KindsOK
    <2> QED BY <1>1, <2>1, <2>2, DtorFacts
  <1> HIDE DEF f
  <1>3. Ranges /\ Ranges' /\ lent' = lent /\ shared' = shared
    BY DEF BaseInv, TypeOK, Types, Ranges, Fields, DtorStep
  <1>4. \A x \in Names \ {h} : \A c : (Holds(x, c)' <=> Holds(x, c)) /\ phase'[x] = phase[x]
    <2> SUFFICES ASSUME NEW x \in Names \ {h}, NEW c
                 PROVE  (Holds(x, c)' <=> Holds(x, c)) /\ phase'[x] = phase[x]
      OBVIOUS
    <2>1. /\ kind'[x] = kind[x] /\ args'[x] = args[x] /\ has'[x] = has[x]
          /\ phase'[x] = phase[x] /\ pc'[x] = pc[x]
      BY <1>3 DEF Ranges, DtorStep, EndDtor
    <2> QED BY <2>1, HoldsSame
  <1>5. \A c : Holds(h, c)' => Holds(h, c) /\ f # "recv_cq"
    <2> SUFFICES ASSUME NEW c, Holds(h, c)' PROVE Holds(h, c) /\ f # "recv_cq"
      OBVIOUS
    <2>1. CASE EndDtor(h)
      <3>1. has'[h] = {}
        BY <1>3, <2>1 DEF Ranges, EndDtor
      <3> QED BY <3>1 DEF Holds
    <2>2. CASE pc' = [pc EXCEPT ![h] = pc[h] + 1] /\ UNCHANGED <<kind, phase, has, args>>
      <3>1. pc'[h] - 1 = pc[h]
        BY <1>2, <1>3, <2>2 DEF Ranges
      <3>2. Gone(h)' = Gone(h) \cup {f}
        BY <1>1, <1>2, <2>2, <3>1 DEF Gone
      <3> QED BY <2>2, <3>2 DEF Holds
    <2> QED BY <2>1, <2>2 DEF DtorStep
  <1>6. CASE f \notin Loan(h)
    <2>1. \A c \in Chans : <<"cq", c>> \in live => <<"cq", c>> \in live'
      BY <1>1, <1>2, <1>6
    <2>2. \A x \in Names : \A c : Holds(x, c)' => Holds(x, c)
      BY <1>4, <1>5
    <2>3. \A c \in Chans : phase'[c] = phase[c]
      BY <1>2, <1>4 DEF Names
    <2>4. ChanInv'
      BY <1>3, <2>1, <2>2, <2>3 DEF ChanInv
    <2> QED BY <1>1, <1>6, <2>4
  <1>7. CASE f \in Loan(h)
    <2>1. PICK c \in Chans : args[h] \cap Chans = {c} /\ Target(f, h) = <<"cq", c>>
      BY <1>7, TargetFacts
    <2>2. f = "recv_cq" /\ kind[h] = "RCM"
      BY <1>7, TargetFacts
    <2>3. f \in has[h] => Holds(h, c)
      BY <1>2, <2>1, <2>2 DEF Holds
    <2>4. f \in has[h] => c \in lent /\ (c \notin shared => ~Refused(<<"cq", c>>))
      BY <1>2, <2>2, <2>3, LoanNotInUse DEF ChanInv
    <2>5. bad' \subseteq bad \cup ({"cq"} \X shared)
      BY <1>1, <1>7, <2>1, <2>4
    <2>6. \A d \in Chans : <<"cq", d>> \in live => <<"cq", d>> \in live' \/ (d = c /\ f \in has[h])
      BY <1>1, <1>7, <2>1
    <2>7. \A d : ~Holds(h, d)'
      BY <1>5, <2>2
    <2>8. \A d \in Chans \ lent' : phase'[d] = "ready" => <<"cq", d>> \in live'
      <3>1. \A d \in Chans : phase'[d] = phase[d]
        BY <1>2, <1>4 DEF Names
      <3> QED BY <1>3, <2>4, <2>6, <3>1 DEF ChanInv
    <2>9. ASSUME NEW d \in Chans, NEW g \in Names, Holds(g, d)'
          PROVE  /\ d \in lent'
                 /\ d \notin shared' => /\ <<"cq", d>> \in live'
                                        /\ \A x \in Names : Holds(x, d)' => x = g
      <3>1. g # h /\ Holds(g, d)
        BY <1>4, <2>7, <2>9
      <3>2. d \in lent /\ (d \notin shared => <<"cq", d>> \in live
                                            /\ \A x \in Names : Holds(x, d) => x = g)
        BY <3>1 DEF ChanInv
      <3>3. d \notin shared => ~(d = c /\ f \in has[h])
        BY <2>3, <3>1, <3>2
      <3>4. \A x \in Names : Holds(x, d)' => Holds(x, d)
        BY <1>4, <2>7
      <3> QED BY <1>3, <2>6, <3>2, <3>3, <3>4
    <2> QED BY <2>5, <2>8, <2>9 DEF ChanInv
  <1> QED BY <1>6, <1>7

(* Every action keeps the invariant of the channels, and only those lent   *)
(* more than once are destroyed in use or twice.                           *)
LEMMA NextChan ==
    ASSUME NoTargets, BaseInv, BaseInv', ChanInv, [Next]_vars
    PROVE  /\ ChanInv' /\ shared \subseteq shared'
           /\ Counted => bad' \subseteq bad \cup ({"cq"} \X shared)
  <1>0. Ranges /\ Ranges'
    BY DEF BaseInv, TypeOK, Types, Ranges, Fields
  <1>1. CASE UNCHANGED vars
    <2>1. UNCHANGED <<live, kind, phase, pc, has, args, lent, shared, bad>>
      BY <1>1 DEF vars
    <2>2. \A x, c : Holds(x, c)' <=> Holds(x, c)
      BY <2>1, HoldsSame
    <2> QED BY <2>1, <2>2 DEF ChanInv
  <1>2. ASSUME NEW h \in Names, UNCHANGED <<live, lent, shared, bad>>,
               \A x \in Names \ {h} : /\ kind'[x] = kind[x] /\ args'[x] = args[x]
                                      /\ has'[x] = has[x] /\ phase'[x] = phase[x] /\ pc'[x] = pc[x],
               \A c : Holds(h, c)' => Holds(h, c),
               h \in Chans /\ phase'[h] = "ready" => phase[h] = "ready"
        PROVE  ChanInv'
    <2>1. \A x \in Names \ {h} : \A c : Holds(x, c)' <=> Holds(x, c)
      BY <1>2, HoldsSame
    <2>2. \A x \in Names : \A c : Holds(x, c)' => Holds(x, c)
      BY <1>2, <2>1
    <2>3. \A c \in Chans : phase'[c] = "ready" => phase[c] = "ready"
      BY <1>2 DEF Names
    <2> QED BY <1>2, <2>2, <2>3 DEF ChanInv
  <1>3. ASSUME NEW h \in Names, NEW k \in KindsOf(h), Create(h, k) PROVE ChanInv'
    <2>1. has'[h] = {} /\ phase'[h] = "ctor"
      BY <1>0, <1>3 DEF Create, BaseInv, KindsOK, Ranges
    <2>2. \A c : ~Holds(h, c)'
      BY <2>1 DEF Holds
    <2> QED BY <1>0, <1>2, <1>3, <2>1, <2>2 DEF Create, Ranges
  <1>4. ASSUME NEW h \in Names, Drop(h) \/ query(h) \/ Answer(h) PROVE ChanInv'
    <2>1. UNCHANGED <<live, kind, phase, pc, has, args, lent, shared, bad>>
      BY <1>4 DEF Drop, query, Answer
    <2>2. \A c : Holds(h, c)' <=> Holds(h, c)
      BY <2>1, HoldsSame
    <2> QED BY <1>2, <2>1, <2>2
  <1>5. ASSUME NEW h \in Names, Release(h) PROVE ChanInv'
    <2>1. /\ UNCHANGED <<live, kind, has, args, lent, shared, bad>> /\ phase[h] = "ready"
          /\ \A x \in Names \ {h} : phase'[x] = phase[x] /\ pc'[x] = pc[x]
      BY <1>0, <1>5 DEF Release, Ranges
    <2>2. \A c : Holds(h, c)' => Holds(h, c)
      BY <2>1 DEF Holds, Gone
    <2> QED BY <1>2, <2>1, <2>2
  <1>6. ASSUME NEW h \in Names, CtorFails(h) PROVE ChanInv'
    <2>1. /\ UNCHANGED <<live, kind, has, args, lent, shared, bad>> /\ phase[h] = "ctor"
          /\ \A x \in Names \ {h} : phase'[x] = phase[x] /\ pc'[x] = pc[x]
      BY <1>0, <1>6 DEF CtorFails, EndCtor, Ranges
    <2>2. \A c : Holds(h, c)' => Holds(h, c)
      BY <2>1 DEF Holds, Gone
    <2>3. h \notin Chans
      BY <1>6, <2>1, KindFacts DEF CtorFails
    <2> QED BY <1>2, <2>1, <2>2, <2>3
  <1>7. CASE Next
    <2>1. PICK h \in Names : \/ \E k \in KindsOf(h) : Create(h, k)
                             \/ Drop(h) \/ query(h) \/ Answer(h) \/ Step(h)
      BY <1>7 DEF Next
    <2>2. CASE \/ \E k \in KindsOf(h) : Create(h, k)
               \/ Drop(h) \/ query(h) \/ Answer(h) \/ Release(h) \/ CtorFails(h)
      <3>1. ChanInv'
        BY <1>3, <1>4, <1>5, <1>6, <2>2
      <3>2. bad' = bad /\ shared' = shared
        BY <2>2 DEF Create, Drop, query, Answer, Release, CtorFails
      <3> QED BY <3>1, <3>2
    <2>3. CASE CtorStep(h)
      BY <2>3, CtorStepChan DEF CtorStep
    <2>4. CASE DtorStep(h)
      BY <2>4, DtorStepChan DEF DtorStep
    <2> QED BY <2>1, <2>2, <2>3, <2>4 DEF Step
  <1> QED BY <1>1, <1>7

(* Nothing is lent at the start.                                           *)
LEMMA InitChan == Init => ChanInv
  BY DEF Init, ChanInv, Holds, Names

(* The CQ of a channel is there until the first RC it was lent to destroys *)
(* it.                                                                     *)
THEOREM ChannelsCorrect == NoTargets => (Spec => [](BaseInv /\ ChanInv))
  <1> SUFFICES ASSUME NoTargets PROVE Spec => [](BaseInv /\ ChanInv)
    OBVIOUS
  <1>1. BaseInv /\ BaseInv' /\ ChanInv /\ [Next]_vars => ChanInv'
    BY NextChan
  <1>2. Spec => []BaseInv
    BY BaseCorrect
  <1> QED BY <1>1, <1>2, InitChan, PTL DEF Spec

(* NothingDangles and NothingLeaks hold without DCTargets, whatever fails  *)
(* half way and in whatever order Arcs are dropped; what the application   *)
(* holds is usable when there is no DC either, whose create() does not ask *)
(* whether it is valid.                                                    *)
THEOREM IntactCorrect ==
    /\ NoTargets => (Spec => [](NothingDangles /\ NothingLeaks))
    /\ Counted => (Spec => []ObjectsIntact)
  <1>1. NoTargets /\ BaseInv => NothingLeaks
    <2> SUFFICES ASSUME BaseInv, NEW o \in live PROVE phase[o[2]] # "none"
      BY DEF NothingLeaks
    <2>1. PICK f \in Fields, h \in Names : o = <<f, h>>
      BY DEF BaseInv, TypeOK, Fields
    <2>2. f \in has[h]
      BY <2>1, LiveFacts
    <2> QED BY <2>1, <2>2 DEF BaseInv, KindsOK
  <1>2. Counted => NoTargets
    BY DEF Counted, NoTargets
  <1>3. Counted /\ BaseInv => HeldIsUsable
    <2> SUFFICES ASSUME Counted, BaseInv, NEW h \in app
                 PROVE  /\ kind[h] \in {"NIC", "MR", "RC", "RCM", "UD", "DC"} => valid(h)
                        /\ kind[h] = "UD" => has[h] = Elems(UD_ctor)
      BY DEF HeldIsUsable
    <2>1. h \in Names /\ phase[h] = "ready"
      BY DEF BaseInv, TypeOK
    <2> QED BY <1>2, <2>1, KindFacts DEF BaseInv, KindsOK, create_returns
  <1>4. Counted /\ BaseInv /\ ChanInv => ObjectsIntact
    BY <1>1, <1>2, <1>3, Dangle DEF ObjectsIntact, BaseInv
  <1>5. NoTargets => (Spec => [](NothingDangles /\ NothingLeaks))
    <2> SUFFICES ASSUME NoTargets PROVE Spec => [](NothingDangles /\ NothingLeaks)
      OBVIOUS
    <2>1. BaseInv /\ ChanInv => NothingDangles /\ NothingLeaks
      BY <1>1, Dangle
    <2>2. Spec => [](BaseInv /\ ChanInv)
      BY ChannelsCorrect
    <2> QED BY <2>1, <2>2, PTL
  <1>6. Counted => (Spec => []ObjectsIntact)
    <2> SUFFICES ASSUME Counted PROVE Spec => []ObjectsIntact
      OBVIOUS
    <2>1. BaseInv /\ ChanInv => ObjectsIntact
      BY <1>4
    <2>2. Spec => [](BaseInv /\ ChanInv)
      BY <1>2, ChannelsCorrect
    <2> QED BY <2>1, <2>2, PTL
  <1> QED BY <1>5, <1>6

(* When no object is a DC or a DCTarget, a destructor asks the driver for  *)
(* an object in use or gone only if it is the CQ of a channel that was     *)
(* lent to more than one RC.                                               *)
THEOREM DestroysCorrect == Counted => (Spec => []RefusedOnlyIfShared)
  <1> SUFFICES ASSUME Counted PROVE Spec => []RefusedOnlyIfShared
    OBVIOUS
  <1>1. NoTargets
    BY DEF Counted, NoTargets
  <1>2. Init => RefusedOnlyIfShared
    BY DEF Init, RefusedOnlyIfShared
  <1>3. BaseInv /\ BaseInv' /\ ChanInv /\ RefusedOnlyIfShared /\ [Next]_vars => RefusedOnlyIfShared'
    <2> SUFFICES ASSUME BaseInv, BaseInv', ChanInv, RefusedOnlyIfShared, [Next]_vars
                 PROVE  RefusedOnlyIfShared'
      OBVIOUS
    <2>1. shared \subseteq shared' /\ bad' \subseteq bad \cup ({"cq"} \X shared)
      BY <1>1, NextChan
    <2> QED BY <2>1 DEF RefusedOnlyIfShared
  <1>4. Spec => [](BaseInv /\ ChanInv)
    BY <1>1, ChannelsCorrect
  <1> QED BY <1>2, <1>3, <1>4, PTL DEF Spec

(* When no object is a DCTarget, what a handler of the daemon reads exists *)
(* until its reply is written, whatever the main thread takes back.        *)
THEOREM ReadCorrect == NoTargets => (Spec => []ReadIsLive)
  <1> SUFFICES ASSUME NoTargets PROVE Spec => []ReadIsLive
    OBVIOUS
  <1>1. BaseInv /\ ChanInv => ReadIsLive
    <2> SUFFICES ASSUME BaseInv, ChanInv, NEW h \in reading
                 PROVE  /\ phase[h] = "ready"
                        /\ \A f \in has[h] \ QPStates : Target(f, h) \in live \cup ({"cq"} \X shared)
      BY DEF ReadIsLive
    <2>1. h \in Names /\ phase[h] = "ready" /\ h \notin Chans
      BY DEF BaseInv, TypeOK, KindsOK
    <2>2. Gone(h) = {}
      BY <2>1 DEF Gone
    <2>3. ASSUME NEW f \in has[h] \ QPStates PROVE Target(f, h) \in live \cup ({"cq"} \X shared)
      <3>1. CASE f \notin Loan(h)
        <4>1. f \in Fields /\ Target(f, h) = <<f, h>>
          BY <2>1, <2>3, <3>1, TargetFacts DEF BaseInv, Types
        <4> QED BY <2>1, <2>2, <2>3, <3>1, <4>1, LiveFacts
      <3>2. CASE f \in Loan(h)
        <4>1. f = "recv_cq" /\ kind[h] = "RCM"
          BY <2>1, <3>2, TargetFacts
        <4>2. PICK c \in Chans : args[h] \cap Chans = {c} /\ Target(f, h) = <<"cq", c>>
          BY <2>1, <3>2, TargetFacts
        <4>3. Holds(h, c)
          BY <2>2, <2>3, <4>1, <4>2 DEF Holds
        <4> QED BY <2>1, <4>2, <4>3 DEF ChanInv
      <3> QED BY <3>1, <3>2
    <2> QED BY <2>1, <2>3
  <1>2. Spec => [](BaseInv /\ ChanInv)
    BY ChannelsCorrect
  <1> QED BY <1>1, <1>2, PTL
=============================================================================
