-------------------------------- MODULE Verbs -------------------------------
(***************************************************************************)
(* Lifetimes: the C++ objects of RLib (RNic, RMem, RegHandler, RC, UD, DC, *)
(* DCTarget), the driver objects their constructors create and their       *)
(* destructors destroy, and the Arcs (std::shared_ptr) between them.       *)
(*                                                                         *)
(* Every object is constructed and destroyed by some thread, one call of   *)
(* libibverbs per step, so the steps of different objects interleave.  A   *)
(* name h stands for one C++ object, and its driver object for the member  *)
(* f is <<f, h>>.                                                          *)
(*                                                                         *)
(* A channel is a completion queue that the application made for receives  *)
(* and registered with its RCtrl: a raw pointer, which the RCtrl lends to  *)
(* every RC that asks for the channel by its name.                         *)
(***************************************************************************)
EXTENDS Naturals, Sequences

CONSTANTS
    Nics, Mems, Chans, Objs, \* names of RNics, RMems, channels, other objects
    Kinds                    \* the classes of the other objects

ASSUME NamesAssumption ==
    /\ Nics \cap Mems = {} /\ Nics \cap Objs = {} /\ Mems \cap Objs = {}
    /\ Chans \cap (Nics \cup Mems \cup Objs) = {}
(* "RCM" is an RC that was given the recv_cq of a channel.                 *)
ASSUME KindsAssumption == Kinds \subseteq {"MR", "RC", "RCM", "UD", "DC", "DCT"}

VARIABLES
    live,  \* the driver objects that exist
    kind,  \* the class of each C++ object, "none" if there is no object
    phase, \* "none", in its constructor, "ready", in its destructor
    pc,    \* the next step of the constructor or destructor
    has,   \* the members set and the QP states reached so far
    args,  \* the Arcs its constructor was given, and the channel
    app,   \* the objects the application or a store of its RCtrl holds an
           \* Arc of, and the channels
    reading, \* the object the daemon has an Arc of, to read its attribute
    lent,  \* (history) the channels lent to some RC so far
    shared,\* (history) those lent to more than one RC so far
    bad    \* driver objects destroyed while in use or not existing

vars == <<live, kind, phase, pc, has, args, app, reading, lent, shared, bad>>

Names == Nics \cup Mems \cup Chans \cup Objs
AllKinds == {"NIC", "MEM", "CHAN"} \cup Kinds
KindsOf(h) == CASE h \in Nics  -> {"NIC"}
                [] h \in Mems  -> {"MEM"}
                [] h \in Chans -> {"CHAN"}
                [] h \in Objs  -> Kinds
Elems(s) == {s[i] : i \in DOMAIN s}

-----------------------------------------------------------------------------
(* What a constructor does, in order: a member it sets to a new driver     *)
(* object, or a state it brings its QP to.  An RC that is given no recv_cq *)
(* receives on its send CQ; one that is given a channel's sets its member  *)
(* recv_cq to it (RC_recv_ctor).                                           *)

QPStates == {"init", "rtr", "rts"}

RNic_ctor == <<"ctx", "pd">>
RMem_ctor == <<"buf">>
RegHandler_ctor == <<"mr">>
create_cq == <<"cq">>
RC_ctor == <<"cq", "qp", "init">>
RC_recv_ctor == <<"cq", "recv_cq", "qp", "init">>
UD_ctor == <<"cq", "recv_cq", "qp", "init", "rtr", "rts">>
DC_ctor == <<"cq", "qp", "init", "rtr", "rts">>
DCTarget_ctor == <<"cq", "srq", "dct">>

Ctor(k) == CASE k = "NIC" -> RNic_ctor
             [] k = "MEM" -> RMem_ctor
             [] k = "MR"  -> RegHandler_ctor
             [] k = "CHAN" -> create_cq
             [] k = "RC"  -> RC_ctor
             [] k = "RCM" -> RC_recv_ctor
             [] k = "UD"  -> UD_ctor
             [] k = "DC"  -> DC_ctor
             [] k = "DCT" -> DCTarget_ctor

(* What a destructor destroys, in order.  ~DC runs before ~Dummy and does  *)
(* not clear the members they share; the CQ of a DCTarget has no member.   *)
(* Nothing but ~Dummy destroys the CQ of a channel: RecvCommon has only the*)
(* pointer, and the RCtrl that registers it is never freed.                *)
RNic_dtor == <<"pd", "ctx">>
RMem_dtor == <<"buf">>
RegHandler_dtor == <<"mr">>
Dummy_dtor_CqFirst == <<"cq", "qp", "recv_cq">>
Dummy_dtor == <<"qp", "cq", "recv_cq">>
DC_dtor == <<"qp", "cq">> \o Dummy_dtor
DCTarget_dtor == <<"dct", "srq">>

Dtor(k) == CASE k = "NIC" -> RNic_dtor
             [] k = "MEM" -> RMem_dtor
             [] k = "MR"  -> RegHandler_dtor
             [] k = "CHAN" -> <<>>
             [] k \in {"RC", "RCM", "UD"} -> Dummy_dtor
             [] k = "DC"  -> DC_dtor
             [] k = "DCT" -> DCTarget_dtor

(* The Arcs an object keeps as members until its destructor has run: the   *)
(* RNic, and the RMem of a RegHandler.  A DCTarget keeps none; the RNic of *)
(* a channel is among the opened_nics of the same RCtrl.                   *)
Members_NoMem(h) == IF kind[h] = "DCT" THEN {} ELSE args[h] \cap Nics
Members(h) == IF kind[h] = "DCT" THEN {} ELSE args[h] \ Chans

(* What valid() asks for, and which create() returns nothing when it is    *)
(* FALSE; the others return what they have.                                *)
valid(h) ==
    CASE kind[h] = "NIC" -> {"ctx", "pd"} \subseteq has[h]
      [] kind[h] = "MEM" -> "buf" \in has[h]
      [] kind[h] = "MR"  -> "mr" \in has[h]
      [] kind[h] \in {"RC", "RCM", "UD", "DC"} -> {"qp", "cq"} \subseteq has[h]
      [] kind[h] \in {"CHAN", "DCT"} -> TRUE
create_returns(h) == kind[h] \in {"NIC", "MR", "RC", "RCM", "UD"} => valid(h)

-----------------------------------------------------------------------------
(* libibverbs, as far as the library relies on it: what a driver object is *)
(* built on, and that it is not destroyed while another one is built on it.*)
(* free() and ibv_close_device() do not look.                              *)

(* The driver object that the member f of h points to.                     *)
Target(f, h) ==
    IF kind[h] = "RCM" /\ f = "recv_cq"
    THEN <<"cq", CHOOSE c \in Chans : c \in args[h]>>
    ELSE <<f, h>>

BuiltOn(o) ==
    LET f == o[1]
        h == o[2]
        nic == args[h] \cap Nics
        cqs == {"cq", "recv_cq"} \cap Elems(Ctor(kind[h]))
    IN  CASE f \in {"ctx", "buf"} -> {}
          [] f = "pd" -> {<<"ctx", h>>}
          [] f \in {"cq", "recv_cq"} -> {"ctx"} \X nic
          [] f = "qp" -> ({"pd"} \X nic) \cup {Target(c, h) : c \in cqs}
          [] f = "mr" -> ({"pd"} \X nic) \cup ({"buf"} \X (args[h] \cap Mems))
          [] f = "srq" -> {"pd"} \X nic
          [] f = "dct" -> ({"pd"} \X nic) \cup ({"cq", "srq"} \X {h})

InUse(o) == \E u \in live : o \in BuiltOn(u)
Refused(o) == o \notin live \/ (o[1] \notin {"buf", "ctx"} /\ InUse(o))

-----------------------------------------------------------------------------
TypeOK ==
    /\ live \subseteq {"ctx", "pd", "buf", "mr", "cq", "recv_cq", "qp", "srq", "dct"} \X Names
    /\ kind \in [Names -> AllKinds \cup {"none"}]
    /\ phase \in [Names -> {"none", "ctor", "ready", "dtor"}]
    /\ \A h \in Names : /\ phase[h] = "none" <=> kind[h] = "none"
                        /\ phase[h] = "ctor" => pc[h] \in DOMAIN Ctor(kind[h])
                        /\ phase[h] = "dtor" => pc[h] \in DOMAIN Dtor(kind[h])
                        /\ phase[h] # "none" => has[h] \subseteq Elems(Ctor(kind[h]))
                        /\ h \in app => phase[h] = "ready"
    /\ args \in [Names -> SUBSET Names]
    /\ app \subseteq Names /\ reading \subseteq Names
    /\ lent \subseteq Chans /\ shared \subseteq lent

Init ==
    /\ live = {}
    /\ kind = [h \in Names |-> "none"]
    /\ phase = [h \in Names |-> "none"]
    /\ pc = [h \in Names |-> 1]
    /\ has = [h \in Names |-> {}]
    /\ args = [h \in Names |-> {}]
    /\ app = {}
    /\ reading = {}
    /\ lent = {}
    /\ shared = {}
    /\ bad = {}

(* What is given to a constructor of class k.                              *)
Params(k) ==
    CASE k \in {"NIC", "MEM"} -> {{}}
      [] k = "MR" -> {{nic, mem} : nic \in app \cap Nics, mem \in app \cap Mems}
      [] k = "RCM" -> {{nic, c} : nic \in app \cap Nics, c \in app \cap Chans}
      [] k \in {"CHAN", "RC", "UD", "DC", "DCT"} -> {{nic} : nic \in app \cap Nics}

(* create(): a name is used again once nothing of its last object is left. *)
Create(h, k) ==
    /\ phase[h] = "none"
    /\ \A o \in live : o[2] # h
    /\ \E a \in Params(k) : args' = [args EXCEPT ![h] = a]
    /\ kind' = [kind EXCEPT ![h] = k]
    /\ phase' = [phase EXCEPT ![h] = "ctor"]
    /\ pc' = [pc EXCEPT ![h] = 1]
    /\ UNCHANGED <<live, has, app, reading, lent, shared, bad>>

(* The constructor ends: create() hands the object out, or its only Arc is *)
(* dropped and the destructor starts.                                      *)
EndCtor(h) ==
    /\ pc' = [pc EXCEPT ![h] = 1]
    /\ \/ /\ create_returns(h)'
          /\ phase' = [phase EXCEPT ![h] = "ready"]
          /\ app' = app \cup {h}
       \/ /\ ~create_returns(h)'
          /\ phase' = [phase EXCEPT ![h] = "dtor"]
          /\ UNCHANGED app

Made(h) == Ctor(kind[h])[pc[h]]

(* The step only sets the member recv_cq to what the RCtrl lends.          *)
Lends(h) == kind[h] = "RCM" /\ Made(h) = "recv_cq"

(* The next call of the constructor succeeds.  Memory that malloc() did not*)
(* give cannot be registered.  Nobody checks the recv_cq that is lent: a QP*)
(* made on one that is gone is undefined, and here succeeds or fails.      *)
CtorStep(h) ==
    /\ phase[h] = "ctor"
    /\ Made(h) = "mr" => BuiltOn(<<"mr", h>>) \subseteq live
    /\ has' = [has EXCEPT ![h] = @ \cup {Made(h)}]
    /\ live' = IF Made(h) \in QPStates \/ Lends(h) THEN live ELSE live \cup {<<Made(h), h>>}
    /\ lent' = IF Lends(h) THEN lent \cup (args[h] \cap Chans) ELSE lent
    /\ shared' = IF Lends(h) THEN shared \cup (args[h] \cap lent) ELSE shared
    /\ UNCHANGED <<kind, args, reading, bad>>
    /\ \/ /\ pc[h] < Len(Ctor(kind[h]))
          /\ pc' = [pc EXCEPT ![h] = @ + 1]
          /\ UNCHANGED <<phase, app>>
       \/ pc[h] = Len(Ctor(kind[h])) /\ EndCtor(h)

(* The next call fails and the constructor returns.  A QP that cannot be   *)
(* brought to a state is only logged by RC; UD and DC abort the process,   *)
(* which leaves nothing to say, and so do the programs whose channel gets  *)
(* no CQ.  Setting recv_cq cannot fail.                                    *)
CtorFails(h) ==
    /\ phase[h] = "ctor"
    /\ kind[h] # "CHAN" /\ ~Lends(h)
    /\ Made(h) \in QPStates => kind[h] \in {"RC", "RCM"}
    /\ UNCHANGED <<live, kind, has, args, reading, lent, shared, bad>>
    /\ EndCtor(h)

(* The application drops its Arc, or dereg() takes the one of a store.  A  *)
(* channel is never withdrawn.                                             *)
Drop(h) ==
    /\ h \in app \ Chans
    /\ app' = app \ {h}
    /\ UNCHANGED <<live, kind, phase, pc, has, args, reading, lent, shared, bad>>

(* A handler of the daemon, a single thread, has found the object in its   *)
(* store: query() copies the Arc under the lock of the store and lets the  *)
(* lock go.  The handler reads the attribute, writes it into the reply and *)
(* drops its Arc when it returns.                                          *)
query(h) ==
    /\ reading = {}
    /\ h \in app
    /\ kind[h] \in {"MR", "RC", "RCM", "DCT"}
    /\ reading' = {h}
    /\ UNCHANGED <<live, kind, phase, pc, has, args, app, lent, shared, bad>>
Answer(h) ==
    /\ h \in reading
    /\ reading' = {}
    /\ UNCHANGED <<live, kind, phase, pc, has, args, app, lent, shared, bad>>

Held(h) ==
    \E g \in Names : \/ phase[g] = "ctor" /\ h \in args[g]
                     \/ phase[g] \in {"ready", "dtor"} /\ h \in Members(g)
Referenced_RawPointer(h) == h \in app \/ Held(h)
Referenced_ByItself(h) ==
    \/ h \in app \cup reading \/ Held(h)
    \/ phase[h] = "ready" /\ kind[h] = "UD"
Referenced(h) == h \in app \cup reading \/ Held(h)

(* The last Arc of an object is gone and its destructor starts.            *)
Release(h) ==
    /\ phase[h] = "ready"
    /\ ~Referenced(h)
    /\ phase' = [phase EXCEPT ![h] = "dtor"]
    /\ pc' = [pc EXCEPT ![h] = 1]
    /\ UNCHANGED <<live, kind, has, args, app, reading, lent, shared, bad>>

(* One call of the destructor, for a member that was set; the members of a *)
(* DCTarget that were not set are uninitialised.  A refused call leaves the*)
(* driver object behind.  The members that are Arcs go at the end.         *)
Destroy(h) ==
    LET f == Dtor(kind[h])[pc[h]]
        o == Target(f, h)
        refused == f \in has[h] /\ Refused(o)
        undefined == f \notin has[h] /\ kind[h] = "DCT"
    IN  /\ live' = IF f \in has[h] /\ ~Refused(o) THEN live \ {o} ELSE live
        /\ bad' \in IF refused THEN {bad \cup {o}}
                    ELSE IF undefined THEN {bad, bad \cup {o}} ELSE {bad}

EndDtor(h) ==
    /\ phase' = [phase EXCEPT ![h] = "none"]
    /\ kind' = [kind EXCEPT ![h] = "none"]
    /\ pc' = [pc EXCEPT ![h] = 1]
    /\ has' = [has EXCEPT ![h] = {}]
    /\ args' = [args EXCEPT ![h] = {}]

DtorStep(h) ==
    /\ phase[h] = "dtor"
    /\ Destroy(h)
    /\ UNCHANGED <<app, reading, lent, shared>>
    /\ \/ /\ pc[h] < Len(Dtor(kind[h]))
          /\ pc' = [pc EXCEPT ![h] = @ + 1]
          /\ UNCHANGED <<kind, phase, has, args>>
       \/ pc[h] = Len(Dtor(kind[h])) /\ EndDtor(h)

-----------------------------------------------------------------------------
Step(h) == CtorStep(h) \/ CtorFails(h) \/ Release(h) \/ DtorStep(h)

Next ==
    \E h \in Names :
        \/ \E k \in KindsOf(h) : Create(h, k)
        \/ Drop(h)
        \/ query(h) \/ Answer(h)
        \/ Step(h)

Spec == Init /\ [][Next]_vars

(* A constructor or destructor that has started runs to its end, and the   *)
(* thread that drops the last Arc runs the destructor; a handler returns.  *)
FairSpec == Spec /\ \A h \in Names : WF_vars(Step(h)) /\ WF_vars(Answer(h))

-----------------------------------------------------------------------------
(* Properties.                                                             *)

(* mod.hh and nic.hh check the result of every destruction: no destructor  *)
(* asks the driver for an object that is still in use or already gone.     *)
DestroysAccepted == bad = {}

(* ~Dummy destroys the recv_cq that a channel lent, and the next RC of that*)
(* channel uses it and destroys it again.  But that is all: whichever order*)
(* the application drops its Arcs in and whatever fails half way, the only *)
(* object that a destructor asks for while it is in use or after it is gone*)
(* is the CQ of a channel that was lent to more than one RC.               *)
RefusedOnlyIfShared == bad \subseteq {"cq"} \X shared

(* No driver object loses what it is built on while it exists (the memory  *)
(* of an MR, the context and protection domain of a NIC, the CQ of a       *)
(* channel), but for a channel that was lent to more than one RC.          *)
NothingDangles == \A o \in live : BuiltOn(o) \subseteq live \cup ({"cq"} \X shared)

(* A driver object goes with its C++ object, also when the constructor     *)
(* failed half way.                                                        *)
NothingLeaks == \A o \in live : phase[o[2]] # "none"

(* What create() returns is valid, and a UD is ready to send.              *)
HeldIsUsable ==
    \A h \in app : /\ kind[h] \in {"NIC", "MR", "RC", "RCM", "UD", "DC"} => valid(h)
                   /\ kind[h] = "UD" => has[h] = Elems(UD_ctor)

(* What query() gave to a handler exists until the reply is written, with  *)
(* all its driver objects, although the main thread takes it out of the    *)
(* store and drops every Arc of its own meanwhile; the CQ of a channel lent*)
(* to more than one RC may be gone.                                        *)
ReadIsLive ==
    \A h \in reading :
        /\ phase[h] = "ready"
        /\ \A f \in has[h] \ QPStates : Target(f, h) \in live \cup ({"cq"} \X shared)

(* Once the application holds nothing but its channels, everything is freed*)
(* but them and their NICs: the Arcs keep no cycle and no constructor keeps*)
(* one back.                                                               *)
OnlyChannels == app \subseteq Chans
RestFreed == \A o \in live : o[2] \in Chans \cup UNION {args[c] : c \in Chans}
AllFreed == OnlyChannels ~> (RestFreed \/ ~OnlyChannels)

(* Whatever fails half way and in whatever order Arcs are dropped, driver  *)
(* objects have what they are built on, none is left behind by its C++     *)
(* object, and what the application was given can be used.                 *)
ObjectsIntact == TypeOK /\ NothingDangles /\ NothingLeaks /\ HeldIsUsable
=============================================================================
