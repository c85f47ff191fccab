---------------------------- MODULE ServerProofs ----------------------------
(* Proofs about Server for any number of RCtrls, channels and messages.    *)
EXTENDS Server, FiniteSetTheorems, TLAPS

Sockets == [owner : Objects, bound : BOOLEAN, q : Seq(Datagram)]

(* The types of what TypeOK leaves to the model's bounds.                  *)
Types ==
    /\ fd \in [Fds -> Sockets \cup {Free}]
    /\ sends \in 0 .. MaxSends /\ empties \in 0 .. MaxEmpty
    /\ handled \in [1 .. MaxSends -> Nat]

(* The thread and its owner: an RCtrl that is not alive has neither a      *)
(* thread nor anybody who waits for one, and a running flag that is down   *)
(* means that its thread is gone or being joined.                          *)
ThreadsOK ==
    \A r \in Ctrls :
        /\ life[r] # "alive" => thread[r] = "none" /\ user[r] = "idle" /\ ~running[r]
        /\ user[r] # "idle" => ~running[r]
        /\ user[r] = "idle" /\ ~running[r] => thread[r] = "none"
        /\ running[r] => thread[r] \in {"while", "start", "handle"} \/ r \in unborn
        /\ user[r] # "idle" /\ thread[r] = "none" => r \in unborn
        /\ user[r] = "undefined" => r \in unborn

(* Whoever owns an open socket is alive and knows its number.              *)
SocketsKnown ==
    \A i \in Fds : Open(i) => life[fd[i].owner] = "alive" /\ sock_fd[fd[i].owner] = i

BaseInv == TypeOK /\ Types /\ ThreadsOK /\ SocketsKnown /\ OwnSocket

-----------------------------------------------------------------------------
(* The descriptor table.                                                   *)
LEMMA FreeIsNoSocket == Free \notin Sockets
  <1> SUFFICES ASSUME Free \in Sockets PROVE FALSE
    OBVIOUS
  <1>1. DOMAIN Free = {"owner", "bound", "q"}
    BY DEF Sockets
  <1>2. DOMAIN Free = {"owner"}
    BY DEF Free
  <1> QED BY <1>1, <1>2

(* The fields of sockets and datagrams.                                   *)
LEMMA Fields ==
    /\ \A s \in Sockets : s.owner \in Objects /\ s.bound \in BOOLEAN /\ s.q \in Seq(Datagram)
    /\ \A d \in Datagram : /\ d.kind \in {"request", "reply", "empty"}
                           /\ d.n \in 0 .. MaxSends /\ d.from \in Objects
  BY DEF Sockets, Datagram

(* A descriptor is open when it holds a socket.                           *)
LEMMA OpenFacts ==
    ASSUME Types
    PROVE  \A i \in Fds : /\ Open(i) <=> fd[i] \in Sockets
                          /\ ~Open(i) <=> fd[i] = Free
  BY FreeIsNoSocket DEF Types, Open

(* The descriptors a channel may store, with -1 for none.                 *)
LEMMA FdRange ==
    /\ -1 \in -1 .. MaxFd - 1
    /\ \A i \in Fds : i \in -1 .. MaxFd - 1 /\ i # -1 /\ valid(i)
  <1>1. MaxFd \in Nat
    BY BoundAssumption
  <1>2. ASSUME NEW i \in 0 .. MaxFd - 1 PROVE i \in -1 .. MaxFd - 1 /\ i # -1 /\ i >= 0
    BY <1>1, <1>2
  <1> QED BY <1>1, <1>2 DEF Fds, valid

(* What does not open or close a socket keeps its owner.                   *)
SameSockets ==
    \A i \in Fds : /\ Open(i)' <=> Open(i)
                   /\ Open(i) => fd'[i].owner = fd[i].owner /\ fd'[i].bound = fd[i].bound

(* Changing what is queued at a socket changes no owner and opens         *)
(* nothing.                                                               *)
LEMMA ChangeQueue ==
    ASSUME Types, NEW i \in Fds, Open(i), NEW q \in Seq(Datagram), fd' = [fd EXCEPT ![i].q = q]
    PROVE  /\ fd' \in [Fds -> Sockets \cup {Free}]
           /\ SameSockets
           /\ fd'[i].q = q /\ \A j \in Fds : j # i => fd'[j] = fd[j]
  <1>1. fd[i] \in Sockets /\ fd \in [Fds -> Sockets \cup {Free}]
    BY OpenFacts DEF Types
  <1> DEFINE s == [fd[i] EXCEPT !.q = q]
  <1>2. s \in Sockets /\ s.owner = fd[i].owner /\ s.bound = fd[i].bound /\ s.q = q
    BY <1>1 DEF Sockets
  <1>3. fd' = [fd EXCEPT ![i] = s]
    BY <1>1
  <1> HIDE DEF s
  <1>4. fd'[i] = s /\ \A j \in Fds : j # i => fd'[j] = fd[j]
    BY <1>1, <1>3
  <1> QED BY <1>1, <1>2, <1>3, <1>4, FreeIsNoSocket DEF SameSockets, Open

(* A datagram that arrives is appended to one queue.                      *)
LEMMA ArrivesFacts ==
    ASSUME Types, NEW i \in Fds, Open(i), NEW d \in Datagram, Arrives(i, d)
    PROVE  /\ fd' \in [Fds -> Sockets \cup {Free}] /\ SameSockets
           /\ fd'[i].q = Append(fd[i].q, d)
           /\ \A j \in Fds : j # i => fd'[j] = fd[j]
  <1>1. fd[i] \in Sockets /\ fd \in [Fds -> Sockets \cup {Free}]
    BY OpenFacts DEF Types
  <1>2. fd[i].q \in Seq(Datagram)
    BY <1>1, Fields
  <1>3. Append(fd[i].q, d) \in Seq(Datagram)
    BY <1>2
  <1>4. fd' = [fd EXCEPT ![i].q = Append(fd[i].q, d)]
    BY DEF Arrives
  <1> QED BY <1>3, <1>4, ChangeQueue

(* recvfrom takes the head of one queue.                                  *)
LEMMA TakesFacts ==
    ASSUME Types, NEW i \in Fds, Open(i), fd[i].q # <<>>,
           fd' = [fd EXCEPT ![i].q = Tail(fd[i].q)]
    PROVE  /\ Head(fd[i].q) \in Datagram
           /\ fd' \in [Fds -> Sockets \cup {Free}] /\ SameSockets
           /\ fd'[i].q = Tail(fd[i].q)
           /\ \A j \in Fds : j # i => fd'[j] = fd[j]
  <1>1. fd[i] \in Sockets
    BY OpenFacts
  <1>2. fd[i].q \in Seq(Datagram)
    BY <1>1, Fields
  <1>3. Tail(fd[i].q) \in Seq(Datagram) /\ Head(fd[i].q) \in Datagram
    BY <1>2
  <1> QED BY <1>3, ChangeQueue

(* socket() fills one free descriptor with an empty queue.                *)
LEMMA OpensFacts ==
    ASSUME Types, NEW i \in Fds, ~Open(i), NEW o \in Objects, NEW b \in BOOLEAN,
           fd' = [fd EXCEPT ![i] = Socket(o, b)]
    PROVE  /\ fd' \in [Fds -> Sockets \cup {Free}]
           /\ Open(i)' /\ fd'[i].owner = o /\ fd'[i].q = <<>>
           /\ \A j \in Fds : j # i => fd'[j] = fd[j] /\ (Open(j)' <=> Open(j))
  <1>1. Socket(o, b) \in Sockets /\ Socket(o, b).owner = o /\ Socket(o, b).q = <<>>
    BY DEF Socket, Sockets
  <1>2. fd \in [Fds -> Sockets \cup {Free}]
    BY DEF Types
  <1>3. fd'[i] = Socket(o, b) /\ \A j \in Fds : j # i => fd'[j] = fd[j]
    BY <1>2
  <1> QED BY <1>1, <1>2, <1>3, FreeIsNoSocket DEF Open

(* close_channel frees the descriptor that the object stores and forgets  *)
(* it.                                                                    *)
LEMMA CloseFacts ==
    ASSUME TypeOK, Types, NEW o \in Objects, close_channel(o)
    PROVE  /\ fd' \in [Fds -> Sockets \cup {Free}]
           /\ sock_fd' = [sock_fd EXCEPT ![o] = -1]
           /\ \A j \in Fds : IF j = sock_fd[o] THEN ~Open(j)'
                             ELSE fd'[j] = fd[j] /\ (Open(j)' <=> Open(j))
  BY DEF close_channel, Types, Open

-----------------------------------------------------------------------------
(* No thread runs and no socket is open at the start.                     *)
LEMMA InitBase == Init => BaseInv
  <1> SUFFICES ASSUME Init PROVE BaseInv
    OBVIOUS
  <1>1. \A i \in Fds : ~Open(i)
    BY DEF Init, Open
  <1>2. /\ MaxFd \in Nat /\ MaxSends \in Nat /\ MaxEmpty \in Nat
    BY BoundAssumption
  <1>3. TypeOK
    <2>1. sock_fd \in [Objects -> -1 .. MaxFd - 1]
      BY <1>2 DEF Init
    <2>2. cur_msg \in [Ctrls -> Message]
      BY DEF Init, Message
    <2>3. \A r \in Ctrls : thread[r] # "handle"
      BY DEF Init
    <2> QED BY <1>1, <2>1, <2>2, <2>3 DEF Init, TypeOK
  <1>4. Types
    BY <1>2 DEF Init, Types
  <1>5. ThreadsOK /\ SocketsKnown /\ OwnSocket
    BY <1>1 DEF Init, ThreadsOK, SocketsKnown, OwnSocket, Objects
  <1> QED BY <1>3, <1>4, <1>5 DEF BaseInv

(* The types after a step, part by part.                                   *)
LEMMA TypesAfter ==
    ASSUME fd' \in [Fds -> Sockets \cup {Free}],
           life' \in [Objects -> {"none", "alive", "dead"}],
           sock_fd' \in [Objects -> -1 .. MaxFd - 1],
           client' \in [Ctrls -> Objects \cup {"none"}], cur_msg' \in [Ctrls -> Message],
           running' \in [Ctrls -> BOOLEAN],
           thread' \in [Ctrls -> {"none", "while", "start", "handle", "ended"}],
           user' \in [Ctrls -> {"idle", "stop", "destroy", "undefined"}],
           \A r \in Ctrls : thread'[r] = "handle" => client'[r] # "none",
           taken' \in BOOLEAN, unborn' \subseteq Ctrls,
           sends' \in 0 .. MaxSends, empties' \in 0 .. MaxEmpty,
           handled' \in [1 .. MaxSends -> Nat]
    PROVE  TypeOK' /\ Types'
  <1>1. \A i \in Fds : Open(i)' =>
           /\ fd'[i].owner \in Objects /\ fd'[i].bound \in BOOLEAN
           /\ fd'[i].q \in Seq(Datagram)
    BY Fields DEF Open
  <1>2. TypeOK'
    BY <1>1 DEF TypeOK
  <1> QED BY <1>2 DEF Types

(* What each action leaves of the types.                                   *)
LEMMA TypesStep == TypeOK /\ Types /\ ThreadsOK /\ [Next]_vars => TypeOK' /\ Types'
  <1> SUFFICES ASSUME TypeOK, Types, ThreadsOK, [Next]_vars PROVE TypeOK' /\ Types'
    OBVIOUS
  <1> USE BoundAssumption
  <1>0. MaxFd \in Nat /\ MaxSends \in Nat /\ MaxEmpty \in Nat
    OBVIOUS
  <1>1. /\ fd \in [Fds -> Sockets \cup {Free}]
        /\ life \in [Objects -> {"none", "alive", "dead"}]
        /\ sock_fd \in [Objects -> -1 .. MaxFd - 1]
        /\ client \in [Ctrls -> Objects \cup {"none"}] /\ cur_msg \in [Ctrls -> Message]
        /\ running \in [Ctrls -> BOOLEAN]
        /\ thread \in [Ctrls -> {"none", "while", "start", "handle", "ended"}]
        /\ user \in [Ctrls -> {"idle", "stop", "destroy", "undefined"}]
        /\ \A r \in Ctrls : thread[r] = "handle" => client[r] # "none"
        /\ taken \in BOOLEAN /\ unborn \subseteq Ctrls
        /\ sends \in 0 .. MaxSends /\ empties \in 0 .. MaxEmpty
        /\ handled \in [1 .. MaxSends -> Nat]
    BY DEF TypeOK, Types
  \* only the sockets change
  <1>2. ASSUME fd' \in [Fds -> Sockets \cup {Free}],
               life' \in [Objects -> {"none", "alive", "dead"}],
               sock_fd' \in [Objects -> -1 .. MaxFd - 1],
               UNCHANGED <<client, cur_msg, running, thread, user, unborn, handled>>,
               sends' \in 0 .. MaxSends, empties' \in 0 .. MaxEmpty, taken' \in BOOLEAN
        PROVE  TypeOK' /\ Types'
    BY <1>1, <1>2, TypesAfter
  \* only the threads change
  <1>3. ASSUME UNCHANGED <<fd, sock_fd, life, client, cur_msg, sends, empties, taken, handled>>,
               running' \in [Ctrls -> BOOLEAN],
               thread' \in [Ctrls -> {"none", "while", "start", "handle", "ended"}],
               user' \in [Ctrls -> {"idle", "stop", "destroy", "undefined"}],
               \A r \in Ctrls : thread'[r] = "handle" => thread[r] = "handle",
               unborn' \subseteq Ctrls
        PROVE  TypeOK' /\ Types'
    BY <1>1, <1>3, TypesAfter
  \* an RCtrl goes
  <1>4. ASSUME NEW r \in Ctrls, Destroy(r), UNCHANGED <<running, unborn, sends, empties, taken, handled>>,
               thread' \in [Ctrls -> {"none", "while", "start", "handle", "ended"}],
               user' \in [Ctrls -> {"idle", "stop", "destroy", "undefined"}],
               thread'[r] # "handle", \A x \in Ctrls \ {r} : thread'[x] = thread[x]
        PROVE  TypeOK' /\ Types'
    <2>1. r \in Objects /\ close_channel(r)
      BY <1>4 DEF Destroy, Objects
    <2>2. fd' \in [Fds -> Sockets \cup {Free}] /\ sock_fd' \in [Objects -> -1 .. MaxFd - 1]
      BY <1>0, <1>1, <2>1, CloseFacts
    <2>3. /\ client' = [client EXCEPT ![r] = "none"] /\ cur_msg' = [cur_msg EXCEPT ![r] = Zeros]
          /\ life' = [life EXCEPT ![r] = "dead"] /\ Zeros \in Message
      BY <1>4 DEF Destroy, Message
    <2> QED BY <1>1, <1>4, <2>1, <2>2, <2>3, TypesAfter
  <1>5. ASSUME NEW s \in Senders, SenderStep(s) PROVE TypeOK' /\ Types'
    <2>0. s \in Objects
      BY DEF Objects
    <2>1. CASE SendChannel_create(s)
      <3>1. PICK i \in Fds : /\ ~Open(i) /\ fd' = [fd EXCEPT ![i] = Socket(s, FALSE)]
                             /\ sock_fd' = [sock_fd EXCEPT ![s] = i]
        BY <2>1 DEF SendChannel_create, LowestFree
      <3>2. sock_fd' \in [Objects -> -1 .. MaxFd - 1]
        BY <1>1, <3>1, FdRange
      <3>3. fd' \in [Fds -> Sockets \cup {Free}]
        BY <2>0, <3>1, OpensFacts
      <3> QED
        BY <1>1, <1>2, <2>1, <3>2, <3>3 DEF SendChannel_create, chanVars, ctrlVars, bookVars
    <2>2. CASE \E kind \in {"request", "empty"} : send(s, kind)
      <3>1. PICK kind \in {"request", "empty"} : send(s, kind)
        BY <2>2
      <3>2. sends' \in 0 .. MaxSends /\ empties' \in 0 .. MaxEmpty /\ sends + 1 \in Nat
        BY <1>0, <1>1, <3>1 DEF send
      <3>3. fd' \in [Fds -> Sockets \cup {Free}]
        <4>1. CASE UNCHANGED fd
          BY <1>1, <4>1
        <4>2. CASE ~UNCHANGED fd
          <5>1. PICK i \in Fds :
                  /\ Open(sock_fd[s]) /\ Open(i)
                  /\ Arrives(i, [kind |-> kind, n |-> IF kind = "empty" THEN 0 ELSE sends + 1,
                                 from |-> fd[sock_fd[s]].owner])
            BY <3>1, <4>2 DEF send
          <5>2. fd[sock_fd[s]].owner \in Objects
            BY <5>1 DEF TypeOK, Open
          <5>3. (IF kind = "empty" THEN 0 ELSE sends + 1) \in 0 .. MaxSends
            BY <1>0, <1>1, <3>1 DEF send
          <5>4. [kind |-> kind, n |-> IF kind = "empty" THEN 0 ELSE sends + 1,
                 from |-> fd[sock_fd[s]].owner] \in Datagram
            BY <5>2, <5>3 DEF Datagram
          <5> QED BY <5>1, <5>4, ArrivesFacts
        <4> QED BY <4>1, <4>2
      <3> QED BY <1>1, <1>2, <3>1, <3>2, <3>3 DEF send, chanVars, ctrlVars
    <2>3. CASE recv(s)
      <3>1. fd' \in [Fds -> Sockets \cup {Free}]
        BY <2>3, TakesFacts DEF recv, Open
      <3> QED BY <1>1, <1>2, <2>3, <3>1 DEF recv, chanVars, ctrlVars, bookVars
    <2>4. CASE SendChannel_dtor(s)
      <3>1. fd' \in [Fds -> Sockets \cup {Free}] /\ sock_fd' = [sock_fd EXCEPT ![s] = -1]
        BY <2>0, <2>4, CloseFacts DEF SendChannel_dtor
      <3> QED
        BY <1>0, <1>1, <1>2, <2>0, <2>4, <3>1 DEF SendChannel_dtor, chanVars, ctrlVars, bookVars
    <2> QED BY <1>5, <2>1, <2>2, <2>3, <2>4 DEF SenderStep
  <1>6. ASSUME NEW r \in Ctrls, UserStep(r) PROVE TypeOK' /\ Types'
    <2>0. r \in Objects
      BY DEF Objects
    <2>1. CASE RCtrl_ctor(r)
      <3>1. PICK i \in Fds :
               /\ ~Open(i)
               /\ \/ /\ fd' = [fd EXCEPT ![i] = Socket(r, TRUE)]
                     /\ sock_fd' = [sock_fd EXCEPT ![r] = i] /\ UNCHANGED taken
                  \/ /\ BindFails(r, i) /\ taken' \in BOOLEAN
        BY <1>1, <2>1 DEF RCtrl_ctor, LowestFree
      <3>2. \E n \in -1 .. MaxFd - 1 : sock_fd' = [sock_fd EXCEPT ![r] = n]
        BY <3>1, FdRange DEF BindFails
      <3>3. fd' \in [Fds -> Sockets \cup {Free}]
        BY <1>1, <2>0, <3>1, OpensFacts DEF BindFails
      <3>4. life' \in [Objects -> {"none", "alive", "dead"}] /\ taken' \in BOOLEAN
        BY <1>1, <2>1, <3>1 DEF RCtrl_ctor
      <3> QED BY <1>1, <1>2, <2>1, <3>2, <3>3, <3>4 DEF RCtrl_ctor, chanVars, ctrlVars
    <2>2. CASE start_daemon(r)
      BY <1>1, <1>3, <2>2 DEF start_daemon, sockVars, chanVars, bookVars
    <2>3. CASE StopDaemon(r)
      BY <1>1, <1>3, <2>3 DEF StopDaemon, stop_daemon, sockVars, chanVars, bookVars
    <2>4. CASE RCtrl_dtor(r)
      <3>1. CASE stop_daemon(r, "destroy")
        BY <1>1, <1>3, <3>1 DEF stop_daemon, sockVars, chanVars, bookVars
      <3>2. CASE ~running[r] /\ Destroy(r) /\ UNCHANGED <<ctrlVars, bookVars>>
        <4>1. thread[r] # "handle"
          BY <2>4, <3>2 DEF RCtrl_dtor, ThreadsOK
        <4> QED BY <1>1, <1>4, <3>2, <4>1 DEF ctrlVars, bookVars
      <3> QED BY <2>4, <3>1, <3>2 DEF RCtrl_dtor
    <2>5. CASE Join(r)
      <3>1. CASE user[r] = "destroy"
        BY <1>1, <1>4, <2>5, <3>1 DEF Join, bookVars
      <3>2. CASE user[r] # "destroy"
        BY <1>1, <1>3, <2>5, <3>2 DEF Join, sockVars, chanVars, bookVars
      <3> QED BY <3>1, <3>2
    <2>6. CASE JoinGarbage(r)
      BY <1>1, <1>3, <2>6 DEF JoinGarbage, sockVars, chanVars, bookVars
    <2> QED BY <1>6, <2>1, <2>2, <2>3, <2>4, <2>5, <2>6 DEF UserStep
  <1>7. ASSUME NEW r \in Ctrls, DaemonStep(r) PROVE TypeOK' /\ Types'
    <2>0. r \in Objects
      BY DEF Objects
    <2>1. CASE While(r)
      BY <1>1, <1>3, <2>1 DEF While, Daemon, sockVars, chanVars, bookVars
    <2>2. CASE start(r)
      <3>0. /\ UNCHANGED <<sock_fd, life, running, user, starts, unborn, sends, empties, taken, handled>>
            /\ thread[r] = "start"
        BY <2>2 DEF start, bookVars
      <3>1. CASE Open(sock_fd[r]) /\ fd[sock_fd[r]].q # <<>>
        <4> DEFINE i == sock_fd[r]
                   d == Head(fd[i].q)
        <4>1. /\ i \in Fds /\ d \in Datagram /\ fd' \in [Fds -> Sockets \cup {Free}]
          BY <2>2, <3>1, TakesFacts DEF start, Open
        <4>2. /\ client' = [client EXCEPT ![r] = d.from]
              /\ cur_msg' = [cur_msg EXCEPT ![r] = Received(r, d)]
              /\ thread' = [thread EXCEPT ![r] = "handle"]
          BY <2>2, <3>1 DEF start, Daemon
        <4> HIDE DEF d
        <4>3. d.from \in Objects /\ d.from # "none"
          BY <4>1, Fields, ObjectAssumption
        <4>4. Received(r, d) \in Message
          BY <1>1, <4>1, Fields DEF Received, Message
        <4> QED BY <1>1, <3>0, <4>1, <4>2, <4>3, <4>4, TypesAfter
      <3>2. CASE ~(Open(sock_fd[r]) /\ fd[sock_fd[r]].q # <<>>)
        BY <1>1, <1>3, <2>2, <3>0, <3>2 DEF start, Daemon, chanVars
      <3> QED BY <3>1, <3>2
    <2>3. CASE handle(r)
      <3>1. /\ UNCHANGED <<sock_fd, life, cur_msg, running, user, unborn, sends, empties, taken>>
            /\ thread' = [thread EXCEPT ![r] = "start"] /\ client' = [client EXCEPT ![r] = "none"]
            /\ \/ handled' = [handled EXCEPT ![cur_msg[r].n] = handled[cur_msg[r].n] + 1]
               \/ handled' = handled
        BY <2>3 DEF handle, next, Daemon
      <3>2. fd' \in [Fds -> Sockets \cup {Free}]
        <4>1. CASE UNCHANGED fd
          BY <1>1, <4>1
        <4>2. CASE ~UNCHANGED fd
          <5>1. PICK i \in Fds :
                  /\ Open(sock_fd[r]) /\ Open(i)
                  /\ Arrives(i, [kind |-> "reply", n |-> cur_msg[r].n,
                                 from |-> fd[sock_fd[r]].owner])
            BY <2>3, <4>2 DEF handle
          <5>2. fd[sock_fd[r]].owner \in Objects /\ cur_msg[r].n \in 0 .. MaxSends
            BY <1>0, <1>1, <5>1 DEF TypeOK, Open, Message, Zeros
          <5>3. [kind |-> "reply", n |-> cur_msg[r].n,
                 from |-> fd[sock_fd[r]].owner] \in Datagram
            BY <5>2 DEF Datagram
          <5> QED BY <5>1, <5>3, ArrivesFacts
        <4> QED BY <4>1, <4>2
      <3>3. handled' \in [1 .. MaxSends -> Nat]
        BY <1>1, <3>1, SMTT(30)
      <3> QED BY <1>1, <3>1, <3>2, <3>3, TypesAfter
    <2> QED BY <1>7, <2>1, <2>2, <2>3 DEF DaemonStep
  <1>8. CASE UNCHANGED vars
    BY <1>1, <1>8, TypesAfter DEF vars, sockVars, chanVars, ctrlVars, bookVars
  <1> QED BY <1>5, <1>6, <1>7, <1>8 DEF Next

-----------------------------------------------------------------------------
(* Stopping, joining and destroying, in whatever order the threads step.   *)
LEMMA ThreadsStep == TypeOK /\ ThreadsOK /\ [Next]_vars => ThreadsOK'
  <1> SUFFICES ASSUME TypeOK, ThreadsOK, [Next]_vars, NEW r \in Ctrls
               PROVE  /\ life'[r] # "alive" =>
                            thread'[r] = "none" /\ user'[r] = "idle" /\ ~running'[r]
                      /\ user'[r] # "idle" => ~running'[r]
                      /\ user'[r] = "idle" /\ ~running'[r] => thread'[r] = "none"
                      /\ running'[r] =>
                            thread'[r] \in {"while", "start", "handle"} \/ r \in unborn'
                      /\ user'[r] # "idle" /\ thread'[r] = "none" => r \in unborn'
                      /\ user'[r] = "undefined" => r \in unborn'
    BY DEF ThreadsOK
  <1>1. /\ life[r] # "alive" => thread[r] = "none" /\ user[r] = "idle" /\ ~running[r]
        /\ user[r] # "idle" => ~running[r]
        /\ user[r] = "idle" /\ ~running[r] => thread[r] = "none"
        /\ running[r] => thread[r] \in {"while", "start", "handle"} \/ r \in unborn
        /\ user[r] # "idle" /\ thread[r] = "none" => r \in unborn
        /\ user[r] = "undefined" => r \in unborn
    BY DEF ThreadsOK
  <1>2. /\ life \in [Objects -> {"none", "alive", "dead"}] /\ running \in [Ctrls -> BOOLEAN]
        /\ thread \in [Ctrls -> {"none", "while", "start", "handle", "ended"}]
        /\ user \in [Ctrls -> {"idle", "stop", "destroy", "undefined"}]
        /\ r \in Objects
    BY DEF TypeOK, Objects
  <1>3. CASE UNCHANGED <<running, thread, user, unborn>> /\ (life'[r] = life[r] \/ life'[r] = "alive")
    BY <1>1, <1>3
  <1>4. ASSUME NEW s \in Senders, SenderStep(s)
        PROVE  UNCHANGED <<running, thread, user, unborn>> /\ life'[r] = life[r]
    <2>1. r # s
      BY ObjectAssumption
    <2> QED
      BY <1>2, <1>4, <2>1 DEF SenderStep, SendChannel_create, send, recv, SendChannel_dtor, ctrlVars
  <1>5. ASSUME NEW x \in Ctrls, DaemonStep(x) \/ UserStep(x), x # r
        PROVE  /\ running'[r] = running[r] /\ thread'[r] = thread[r] /\ user'[r] = user[r]
               /\ (r \in unborn' <=> r \in unborn) /\ life'[r] = life[r]
    <2>1. CASE DaemonStep(x)
      BY <1>2, <1>5, <2>1 DEF DaemonStep, While, start, handle, next, Daemon
    <2>2. CASE UserStep(x)
      BY <1>2, <1>5, <2>2
      DEF UserStep, RCtrl_ctor, start_daemon, StopDaemon, RCtrl_dtor, Join, JoinGarbage,
          stop_daemon, Destroy, ctrlVars
    <2> QED BY <1>5, <2>1, <2>2
  <1>6. CASE DaemonStep(r)
    BY <1>1, <1>2, <1>6 DEF DaemonStep, While, start, handle, next, Daemon
  <1>7. CASE UserStep(r)
    <2>1. CASE RCtrl_ctor(r)
      BY <1>1, <1>2, <2>1 DEF RCtrl_ctor, ctrlVars
    <2>2. CASE start_daemon(r)
      BY <1>1, <1>2, <2>2 DEF start_daemon
    <2>3. CASE StopDaemon(r)
      BY <1>1, <1>2, <2>3 DEF StopDaemon, stop_daemon
    <2>4. CASE RCtrl_dtor(r)
      BY <1>1, <1>2, <2>4 DEF RCtrl_dtor, stop_daemon, Destroy, ctrlVars
    <2>5. CASE Join(r)
      BY <1>1, <1>2, <2>5 DEF Join, Destroy
    <2>6. CASE JoinGarbage(r)
      BY <1>1, <1>2, <2>6 DEF JoinGarbage
    <2> QED BY <1>7, <2>1, <2>2, <2>3, <2>4, <2>5, <2>6 DEF UserStep
  <1>8. CASE UNCHANGED vars
    BY <1>3, <1>8 DEF vars, ctrlVars
  <1> QED BY <1>1, <1>3, <1>4, <1>5, <1>6, <1>7, <1>8 DEF Next

-----------------------------------------------------------------------------
(* The sockets.  What neither opens nor closes one disturbs nothing.       *)
LEMMA SameSocketsInv ==
    ASSUME TypeOK, SocketsKnown, OwnSocket, SameSockets, UNCHANGED <<sock_fd, life>>,
           taken' = taken
    PROVE  SocketsKnown' /\ OwnSocket'
  <1>1. SocketsKnown'
    BY DEF SocketsKnown, SameSockets
  <1>2. \A i : Open(i)' => i \in Fds
    BY DEF Open
  <1>3. OwnSocket'
    BY <1>2 DEF OwnSocket, SameSockets, Open
  <1> QED BY <1>1, <1>3

(* An object that was not alive opens the lowest free descriptor.          *)
LEMMA OpensInv ==
    ASSUME TypeOK, Types, SocketsKnown, OwnSocket, NEW o \in Objects, life[o] = "none",
           NEW i \in Fds, ~Open(i), NEW b \in BOOLEAN, fd' = [fd EXCEPT ![i] = Socket(o, b)],
           sock_fd' = [sock_fd EXCEPT ![o] = i], life' = [life EXCEPT ![o] = "alive"],
           taken' = taken
    PROVE  SocketsKnown' /\ OwnSocket'
  <1>1. /\ Open(i)' /\ fd'[i].owner = o
        /\ \A j \in Fds : j # i => fd'[j] = fd[j] /\ (Open(j)' <=> Open(j))
    BY OpensFacts
  <1>2. /\ sock_fd'[o] = i /\ life'[o] = "alive"
        /\ \A x \in Objects : x # o => sock_fd'[x] = sock_fd[x] /\ life'[x] = life[x]
    BY DEF TypeOK
  <1>3. SocketsKnown'
    <2> SUFFICES ASSUME NEW j \in Fds, Open(j)'
                 PROVE  life'[fd'[j].owner] = "alive" /\ sock_fd'[fd'[j].owner] = j
      BY DEF SocketsKnown
    <2>1. CASE j # i
      <3>1. /\ fd'[j] = fd[j] /\ fd[j].owner \in Objects
            /\ life[fd[j].owner] = "alive" /\ sock_fd[fd[j].owner] = j
        BY <1>1, <2>1 DEF SocketsKnown, TypeOK
      <3> QED BY <1>2, <3>1
    <2>2. CASE j = i
      BY <1>1, <1>2, <2>2
    <2> QED BY <2>1, <2>2
  <1>4. OwnSocket'
    <2> SUFFICES ASSUME ~taken, NEW x \in Objects, life'[x] = "alive"
                 PROVE  /\ valid(sock_fd'[x]) /\ sock_fd'[x] \in Fds
                        /\ fd'[sock_fd'[x]] # Free /\ fd'[sock_fd'[x]].owner = x
      BY DEF OwnSocket, Open
    <2>1. CASE x # o
      <3>1. /\ valid(sock_fd[x]) /\ Open(sock_fd[x]) /\ fd[sock_fd[x]].owner = x
            /\ sock_fd[x] \in Fds /\ sock_fd'[x] = sock_fd[x]
        BY <1>2, <2>1 DEF OwnSocket, Open
      <3>2. sock_fd[x] # i
        BY <3>1
      <3>3. Open(sock_fd[x])' /\ fd'[sock_fd[x]] = fd[sock_fd[x]]
        BY <1>1, <3>1, <3>2 DEF Open
      <3>4. sock_fd'[x] \in Fds /\ fd'[sock_fd'[x]] # Free
        BY <3>1, <3>3 DEF Open
      <3> QED BY <3>1, <3>3, <3>4
    <2>2. CASE x = o
      <3>1. sock_fd'[x] \in Fds /\ fd'[sock_fd'[x]] # Free
        BY <1>1, <1>2, <2>2 DEF Open
      <3> QED BY <1>1, <1>2, <2>2, <3>1, FdRange
    <2> QED BY <2>1, <2>2
  <1> QED BY <1>3, <1>4

(* An object that was alive closes the descriptor it holds.                *)
LEMMA CloseInv ==
    ASSUME TypeOK, Types, SocketsKnown, OwnSocket, NEW o \in Objects, life[o] = "alive",
           close_channel(o), life' = [life EXCEPT ![o] = "dead"], taken' = taken
    PROVE  SocketsKnown' /\ OwnSocket'
  <1>1. \A j \in Fds : IF j = sock_fd[o] THEN ~Open(j)'
                      ELSE fd'[j] = fd[j] /\ (Open(j)' <=> Open(j))
    BY CloseFacts
  <1>2. \A x \in Objects : x # o => sock_fd'[x] = sock_fd[x] /\ life'[x] = life[x]
    BY CloseFacts DEF TypeOK
  <1>3. SocketsKnown'
    <2> SUFFICES ASSUME NEW j \in Fds, Open(j)'
                 PROVE  life'[fd'[j].owner] = "alive" /\ sock_fd'[fd'[j].owner] = j
      BY DEF SocketsKnown
    <2>1. j # sock_fd[o] /\ fd'[j] = fd[j] /\ Open(j)
      BY <1>1
    <2>2. fd[j].owner \in Objects /\ life[fd[j].owner] = "alive" /\ sock_fd[fd[j].owner] = j
      BY <2>1 DEF SocketsKnown, TypeOK
    <2>3. fd[j].owner # o
      BY <2>1, <2>2
    <2> QED BY <1>2, <2>1, <2>2, <2>3
  <1>4. OwnSocket'
    <2> SUFFICES ASSUME ~taken, NEW x \in Objects, life'[x] = "alive"
                 PROVE  /\ valid(sock_fd'[x]) /\ sock_fd'[x] \in Fds
                        /\ fd'[sock_fd'[x]] # Free /\ fd'[sock_fd'[x]].owner = x
      BY DEF OwnSocket, Open
    <2>1. x # o
      BY DEF TypeOK
    <2>2. /\ valid(sock_fd[x]) /\ Open(sock_fd[x]) /\ fd[sock_fd[x]].owner = x
          /\ sock_fd[x] \in Fds /\ sock_fd'[x] = sock_fd[x]
      BY <1>2, <2>1 DEF OwnSocket, Open
    <2>3. fd[sock_fd[o]].owner = o
      BY DEF OwnSocket
    <2>4. sock_fd[x] # sock_fd[o]
      BY <2>1, <2>2, <2>3
    <2>5. Open(sock_fd[x])' /\ fd'[sock_fd[x]] = fd[sock_fd[x]]
      BY <1>1, <2>2, <2>4 DEF Open
    <2>6. sock_fd'[x] \in Fds /\ fd'[sock_fd'[x]] # Free
      BY <2>2, <2>5 DEF Open
    <2> QED BY <2>2, <2>5, <2>6
  <1> QED BY <1>3, <1>4

(* Every action keeps each socket with the one object that stores its     *)
(* descriptor.                                                            *)
LEMMA SocketsStep ==
    TypeOK /\ Types /\ SocketsKnown /\ OwnSocket /\ ThreadsOK /\ [Next]_vars
        => SocketsKnown' /\ OwnSocket'
  <1> SUFFICES ASSUME TypeOK, Types, SocketsKnown, OwnSocket, ThreadsOK, [Next]_vars
               PROVE  SocketsKnown' /\ OwnSocket'
    OBVIOUS
  <1>1. CASE UNCHANGED <<fd, sock_fd, life, taken>>
    <2>1. SameSockets
      BY <1>1 DEF SameSockets, Open
    <2> QED BY <1>1, <2>1, SameSocketsInv
  <1>2. ASSUME NEW i \in Fds, Open(i), NEW d \in Datagram, Arrives(i, d),
               UNCHANGED <<sock_fd, life, taken>>
        PROVE  SocketsKnown' /\ OwnSocket'
    BY <1>2, ArrivesFacts, SameSocketsInv
  <1>3. ASSUME NEW i \in Fds, Open(i), fd[i].q # <<>>, fd' = [fd EXCEPT ![i].q = Tail(fd[i].q)],
               UNCHANGED <<sock_fd, life, taken>>
        PROVE  SocketsKnown' /\ OwnSocket'
    BY <1>3, TakesFacts, SameSocketsInv
  <1>4. ASSUME NEW s \in Senders, SenderStep(s) PROVE SocketsKnown' /\ OwnSocket'
    <2>0. s \in Objects
      BY DEF Objects
    <2>1. CASE SendChannel_create(s)
      <3>1. PICK i \in Fds : /\ ~Open(i) /\ fd' = [fd EXCEPT ![i] = Socket(s, FALSE)]
                             /\ sock_fd' = [sock_fd EXCEPT ![s] = i]
        BY <2>1 DEF SendChannel_create, LowestFree
      <3>2. life[s] = "none" /\ life' = [life EXCEPT ![s] = "alive"] /\ taken' = taken
        BY <2>1 DEF SendChannel_create, bookVars
      <3> QED BY <2>0, <3>1, <3>2, OpensInv
    <2>2. CASE \E kind \in {"request", "empty"} : send(s, kind)
      <3>1. PICK kind \in {"request", "empty"} : send(s, kind)
        BY <2>2
      <3>2. UNCHANGED <<sock_fd, life, taken>>
        BY <3>1 DEF send
      <3>3. CASE ~UNCHANGED fd
        <4>1. PICK i \in Fds :
                /\ Open(sock_fd[s]) /\ Open(i)
                /\ Arrives(i, [kind |-> kind, n |-> IF kind = "empty" THEN 0 ELSE sends + 1,
                               from |-> fd[sock_fd[s]].owner])
          BY <3>1, <3>3 DEF send
        <4>2. fd[sock_fd[s]].owner \in Objects
          BY <4>1 DEF TypeOK, Open
        <4>3. (IF kind = "empty" THEN 0 ELSE sends + 1) \in 0 .. MaxSends
          BY <3>1, BoundAssumption DEF send, Types
        <4>4. [kind |-> kind, n |-> IF kind = "empty" THEN 0 ELSE sends + 1,
               from |-> fd[sock_fd[s]].owner] \in Datagram
          BY <4>2, <4>3 DEF Datagram
        <4> QED BY <1>2, <3>2, <4>1, <4>4
      <3> QED BY <1>1, <3>2, <3>3
    <2>3. CASE recv(s)
      BY <1>3, <2>3 DEF recv, bookVars, Open
    <2>4. CASE SendChannel_dtor(s)
      <3>1. /\ life[s] = "alive" /\ close_channel(s) /\ life' = [life EXCEPT ![s] = "dead"]
            /\ taken' = taken
        BY <2>4 DEF SendChannel_dtor, bookVars
      <3> QED BY <2>0, <3>1, CloseInv
    <2> QED BY <1>4, <2>1, <2>2, <2>3, <2>4 DEF SenderStep
  <1>5. ASSUME NEW r \in Ctrls, life[r] = "alive", Destroy(r), taken' = taken
        PROVE  SocketsKnown' /\ OwnSocket'
    <2>1. r \in Objects
      BY DEF Objects
    <2> QED BY <1>5, <2>1, CloseInv DEF Destroy
  <1>6. ASSUME NEW r \in Ctrls, RCtrl_ctor(r) PROVE SocketsKnown' /\ OwnSocket'
    <2>0. r \in Objects /\ life[r] = "none"
      BY <1>6 DEF Objects, RCtrl_ctor
    <2>1. PICK i \in Fds :
             /\ ~Open(i)
             /\ \/ /\ fd' = [fd EXCEPT ![i] = Socket(r, TRUE)]
                   /\ sock_fd' = [sock_fd EXCEPT ![r] = i] /\ UNCHANGED taken
                \/ BindFails(r, i) /\ taken' = (taken \/ valid(sock_fd'[r]))
      BY <1>6 DEF RCtrl_ctor, LowestFree
    <2>2. life' = [life EXCEPT ![r] = IF valid(sock_fd'[r]) THEN "alive" ELSE "none"]
      BY <1>6 DEF RCtrl_ctor
    <2>3. CASE fd' = [fd EXCEPT ![i] = Socket(r, TRUE)] /\ sock_fd' = [sock_fd EXCEPT ![r] = i]
               /\ UNCHANGED taken
      <3>1. sock_fd'[r] = i
        BY <2>0, <2>3 DEF TypeOK
      <3>2. valid(sock_fd'[r])
        BY <3>1, FdRange
      <3>3. life' = [life EXCEPT ![r] = "alive"]
        BY <2>2, <3>2
      <3> QED BY <2>0, <2>1, <2>3, <3>3, OpensInv
    <2>4. CASE BindFails(r, i) /\ taken' = (taken \/ valid(sock_fd'[r]))
      <3>1. /\ fd' = fd
            /\ \A x \in Objects : x # r => sock_fd'[x] = sock_fd[x] /\ life'[x] = life[x]
            /\ life'[r] = "alive" => valid(sock_fd'[r])
        BY <2>0, <2>2, <2>4 DEF BindFails, TypeOK
      <3>2. SocketsKnown'
        <4> SUFFICES ASSUME NEW j \in Fds, Open(j)
                     PROVE  life'[fd[j].owner] = "alive" /\ sock_fd'[fd[j].owner] = j
          BY <3>1 DEF SocketsKnown, Open
        <4>1. /\ fd[j].owner \in Objects
              /\ life[fd[j].owner] = "alive" /\ sock_fd[fd[j].owner] = j
          BY DEF SocketsKnown, TypeOK
        <4> QED BY <2>0, <3>1, <4>1
      <3>3. OwnSocket'
        <4> SUFFICES ASSUME ~taken', NEW x \in Objects, life'[x] = "alive"
                     PROVE  /\ valid(sock_fd'[x]) /\ sock_fd'[x] \in Fds
                            /\ fd'[sock_fd'[x]] # Free /\ fd'[sock_fd'[x]].owner = x
          BY DEF OwnSocket, Open
        <4>1. x # r /\ ~taken
          BY <2>4, <3>1
        <4>2. valid(sock_fd[x]) /\ Open(sock_fd[x]) /\ fd[sock_fd[x]].owner = x
          BY <3>1, <4>1 DEF OwnSocket
        <4> QED BY <3>1, <4>1, <4>2 DEF Open
      <3> QED BY <3>2, <3>3
    <2> QED BY <2>1, <2>3, <2>4
  <1>7. ASSUME NEW r \in Ctrls, UserStep(r) PROVE SocketsKnown' /\ OwnSocket'
    <2>1. CASE start_daemon(r) \/ StopDaemon(r) \/ JoinGarbage(r)
      BY <1>1, <2>1 DEF start_daemon, StopDaemon, stop_daemon, JoinGarbage, sockVars, bookVars
    <2>2. CASE RCtrl_dtor(r)
      BY <1>1, <1>5, <2>2 DEF RCtrl_dtor, stop_daemon, sockVars, bookVars
    <2>3. CASE Join(r)
      <3>1. life[r] = "alive" /\ taken' = taken
        BY <2>3 DEF Join, ThreadsOK, bookVars
      <3> QED BY <1>1, <1>5, <2>3, <3>1 DEF Join, sockVars
    <2> QED BY <1>6, <1>7, <2>1, <2>2, <2>3 DEF UserStep
  <1>8. ASSUME NEW r \in Ctrls, DaemonStep(r) PROVE SocketsKnown' /\ OwnSocket'
    <2>1. UNCHANGED <<sock_fd, life, taken>>
      BY <1>8 DEF DaemonStep, While, start, handle, sockVars, bookVars
    <2>2. CASE ~UNCHANGED fd
      <3>1. CASE start(r)
        BY <1>3, <2>1, <2>2, <3>1 DEF start, Open
      <3>2. CASE handle(r)
        <4>1. PICK i \in Fds :
                /\ Open(sock_fd[r]) /\ Open(i)
                /\ Arrives(i, [kind |-> "reply", n |-> cur_msg[r].n,
                               from |-> fd[sock_fd[r]].owner])
          BY <2>2, <3>2 DEF handle
        <4>2. fd[sock_fd[r]].owner \in Objects /\ cur_msg[r].n \in 0 .. MaxSends
          BY <4>1, BoundAssumption DEF TypeOK, Open, Message, Zeros
        <4>3. [kind |-> "reply", n |-> cur_msg[r].n,
               from |-> fd[sock_fd[r]].owner] \in Datagram
          BY <4>2 DEF Datagram
        <4> QED BY <1>2, <2>1, <4>1, <4>3
      <3> QED BY <1>8, <2>2, <3>1, <3>2 DEF DaemonStep, While, sockVars
    <2> QED BY <1>1, <2>1, <2>2
  <1>9. CASE UNCHANGED vars
    BY <1>1, <1>9 DEF vars, sockVars, bookVars
  <1> QED BY <1>4, <1>7, <1>8, <1>9 DEF Next

(* Every action keeps types, threads and sockets.                         *)
LEMMA NextBase == BaseInv /\ [Next]_vars => BaseInv'
  BY TypesStep, ThreadsStep, SocketsStep DEF BaseInv

-----------------------------------------------------------------------------
(* The inductive invariant of threads and sockets.                         *)
THEOREM BaseCorrect == Spec => []BaseInv
  BY InitBase, NextBase, PTL DEF Spec

(* Every live channel uses its own socket while every bind succeeded,      *)
(* and no descriptor is leaked even when one failed.                       *)
THEOREM SocketCorrect == Spec => []SocketInv
  <1>1. BaseInv => SocketInv
    BY DEF BaseInv, SocketInv, NoSocketLeak, SocketsKnown
  <1> QED BY <1>1, BaseCorrect, PTL

(* The daemon thread serves while running is set, is gone before its RCtrl *)
(* and is the thread stop_daemon joins, however the threads interleave.    *)
THEOREM DaemonCorrect == Spec => []DaemonInv
  <1>1. BaseInv => DaemonInv
    BY DEF BaseInv, ThreadsOK, DaemonInv, NoDaemonOnDead, RunningMeansServing, JoinsOwnThread,
           TypeOK, Objects
  <1> QED BY <1>1, BaseCorrect, PTL

-----------------------------------------------------------------------------
(* HandledOnce, by counting.  A datagram in a queue is good for one run of *)
(* the handler of request n if it is that request, or empty, when it may   *)
(* expose the request that is still in the buffer; so is an RCtrl that has *)
(* request n in hand.                                                      *)
Holds(d, n) == d.kind = "empty" \/ (d.kind = "request" /\ d.n = n)
Tokens(n) == {t \in Fds \X Nat : /\ Open(t[1]) /\ t[2] \in 1 .. Len(fd[t[1]].q)
                                /\ Holds(fd[t[1]].q[t[2]], n)}
InHand(n) == {r \in Ctrls : thread[r] = "handle" /\ cur_msg[r].kind = "request" /\ cur_msg[r].n = n}

(* Runs that were and runs that may still be, of request n.                *)
Accounted(n) ==
    /\ IsFiniteSet(Tokens(n)) /\ IsFiniteSet(InHand(n))
    /\ handled[n] + Cardinality(Tokens(n)) + Cardinality(InHand(n))
          <= (IF n <= sends THEN 1 ELSE 0) + empties
CountInv == \A n \in 1 .. MaxSends : Accounted(n)

(* A datagram adds at most one place where its request is waiting.        *)
LEMMA TokensArrive ==
    ASSUME Types, NEW i \in Fds, Open(i), NEW d \in Datagram, Arrives(i, d), NEW n,
           IsFiniteSet(Tokens(n))
    PROVE  /\ IsFiniteSet(Tokens(n)')
           /\ Cardinality(Tokens(n)') <= Cardinality(Tokens(n)) + (IF Holds(d, n) THEN 1 ELSE 0)
  <1> DEFINE m == Len(fd[i].q)
  <1>1. /\ fd'[i].q = Append(fd[i].q, d) /\ \A j \in Fds : j # i => fd'[j] = fd[j]
        /\ \A j \in Fds : Open(j)' <=> Open(j)
    BY ArrivesFacts DEF SameSockets
  <1>2. fd[i].q \in Seq(Datagram)
    BY OpenFacts, Fields
  <1>3. /\ m \in Nat /\ Len(fd'[i].q) = m + 1 /\ fd'[i].q[m + 1] = d
        /\ \A k \in 1 .. m : fd'[i].q[k] = fd[i].q[k]
    BY <1>1, <1>2
  <1>4. <<i, m + 1>> \in Tokens(n)' => Holds(d, n)
    BY <1>3 DEF Tokens
  <1>5. ASSUME NEW t \in Tokens(n)', t # <<i, m + 1>> PROVE t \in Tokens(n)
    <2>1. /\ t \in Fds \X Nat /\ Open(t[1]) /\ t[2] \in 1 .. Len(fd'[t[1]].q)
          /\ Holds(fd'[t[1]].q[t[2]], n)
      BY <1>1 DEF Tokens
    <2>2. CASE t[1] # i
      BY <1>1, <2>1, <2>2 DEF Tokens
    <2>3. CASE t[1] = i
      <3>1. t[2] # m + 1 /\ t = <<t[1], t[2]>>
        BY <1>5, <2>1, <2>3
      <3>2. t[2] \in 1 .. m
        BY <1>3, <2>1, <2>3, <3>1
      <3> QED BY <1>3, <2>1, <2>3, <3>2 DEF Tokens
    <2> QED BY <2>2, <2>3
  <1>6. CASE Holds(d, n)
    <2>1. Tokens(n)' \subseteq Tokens(n) \cup {<<i, m + 1>>}
      BY <1>5
    <2>2. /\ IsFiniteSet(Tokens(n) \cup {<<i, m + 1>>})
          /\ Cardinality(Tokens(n) \cup {<<i, m + 1>>}) <= Cardinality(Tokens(n)) + 1
          /\ Cardinality(Tokens(n)) \in Nat
      <3>1. Cardinality(Tokens(n)) \in Nat
        BY FS_CardinalityType
      <3>2. /\ IsFiniteSet(Tokens(n) \cup {<<i, m + 1>>})
            /\ Cardinality(Tokens(n) \cup {<<i, m + 1>>}) =
                  IF <<i, m + 1>> \in Tokens(n) THEN Cardinality(Tokens(n))
                  ELSE Cardinality(Tokens(n)) + 1
        BY FS_AddElement
      <3> QED BY <3>1, <3>2
    <2>3. /\ IsFiniteSet(Tokens(n)') /\ Cardinality(Tokens(n)') \in Nat
          /\ Cardinality(Tokens(n)') <= Cardinality(Tokens(n) \cup {<<i, m + 1>>})
          /\ Cardinality(Tokens(n) \cup {<<i, m + 1>>}) \in Nat
      BY <2>1, <2>2, FS_Subset, FS_CardinalityType
    <2> QED BY <1>6, <2>2, <2>3
  <1>7. CASE ~Holds(d, n)
    <2>1. Tokens(n)' \subseteq Tokens(n)
      BY <1>4, <1>5, <1>7
    <2>2. /\ IsFiniteSet(Tokens(n)') /\ Cardinality(Tokens(n)') <= Cardinality(Tokens(n))
          /\ Cardinality(Tokens(n)) \in Nat /\ Cardinality(Tokens(n)') \in Nat
      BY <2>1, FS_Subset, FS_CardinalityType
    <2> QED BY <1>7, <2>2
  <1> QED BY <1>6, <1>7

(* A datagram that is read takes its token with it, and the others move up.*)
LEMMA TokensTake ==
    ASSUME Types, NEW i \in Fds, Open(i), fd[i].q # <<>>,
           fd' = [fd EXCEPT ![i].q = Tail(fd[i].q)], NEW n, IsFiniteSet(Tokens(n))
    PROVE  /\ IsFiniteSet(Tokens(n)')
           /\ Cardinality(Tokens(n)') + (IF Holds(Head(fd[i].q), n) THEN 1 ELSE 0)
                 <= Cardinality(Tokens(n))
  <1> DEFINE m == Len(fd[i].q)
             hd == <<i, 1>>
             Shift == [t \in Tokens(n)' |-> IF t[1] = i THEN <<i, t[2] + 1>> ELSE t]
             Rest == Tokens(n) \ {hd}
  <1>1. /\ fd'[i].q = Tail(fd[i].q) /\ \A j \in Fds : j # i => fd'[j] = fd[j]
        /\ \A j \in Fds : Open(j)' <=> Open(j)
    BY TakesFacts DEF SameSockets
  <1>2. fd[i].q \in Seq(Datagram)
    BY OpenFacts, Fields
  <1>3. /\ m \in Nat /\ m >= 1 /\ Len(fd'[i].q) = m - 1 /\ fd[i].q[1] = Head(fd[i].q)
        /\ \A k \in 1 .. m - 1 : fd'[i].q[k] = fd[i].q[k + 1]
    <2> DEFINE q == fd[i].q
    <2>1. q \in Seq(Datagram) /\ q # <<>>
      BY <1>2
    <2> HIDE DEF q
    <2>2. /\ Len(q) \in Nat /\ Len(q) >= 1 /\ Len(Tail(q)) = Len(q) - 1 /\ q[1] = Head(q)
          /\ \A k \in 1 .. Len(q) - 1 : Tail(q)[k] = q[k + 1]
      BY <2>1
    <2> QED BY <1>1, <2>2 DEF q
  <1>4. Holds(Head(fd[i].q), n) => hd \in Tokens(n)
    BY <1>3 DEF Tokens
  <1>5. \A t \in Tokens(n)' : t = <<t[1], t[2]>> /\ t[2] \in Nat /\ t[1] \in Fds
    BY DEF Tokens
  <1>6. ASSUME NEW t \in Tokens(n)' PROVE Shift[t] \in Rest
    <2>1. /\ t \in Fds \X Nat /\ Open(t[1]) /\ t[2] \in 1 .. Len(fd'[t[1]].q)
          /\ Holds(fd'[t[1]].q[t[2]], n)
      BY <1>1 DEF Tokens
    <2>2. CASE t[1] # i
      <3>1. Shift[t] = t /\ t # hd
        BY <2>2
      <3> QED BY <1>1, <2>1, <2>2, <3>1 DEF Tokens
    <2>3. CASE t[1] = i
      <3>1. Shift[t] = <<i, t[2] + 1>>
        BY <2>3
      <3>2. /\ t[2] \in 1 .. m - 1 /\ t[2] + 1 \in 1 .. m /\ t[2] + 1 \in Nat /\ t[2] + 1 # 1
            /\ Holds(fd[i].q[t[2] + 1], n)
        BY <1>3, <2>1, <2>3
      <3>3. <<i, t[2] + 1>> \in Tokens(n)
        BY <2>1, <2>3, <3>2 DEF Tokens
      <3>4. <<i, t[2] + 1>> # hd
        BY <3>2
      <3> QED BY <3>1, <3>3, <3>4
    <2> QED BY <2>2, <2>3
  <1>7. ASSUME NEW t1 \in Tokens(n)', NEW t2 \in Tokens(n)', Shift[t1] = Shift[t2] PROVE t1 = t2
    <2>1. Shift[t1][1] = t1[1] /\ Shift[t2][1] = t2[1]
      OBVIOUS
    <2>2. t1[1] = t2[1]
      BY <1>7, <2>1
    <2>3. CASE t1[1] = i
      <3>1. Shift[t1] = <<i, t1[2] + 1>> /\ Shift[t2] = <<i, t2[2] + 1>>
        BY <2>2, <2>3
      <3>2. t1[2] + 1 = t2[2] + 1
        BY <1>7, <3>1
      <3>3. t1[2] = t2[2]
        BY <1>5, <3>2
      <3> QED BY <1>5, <2>2, <3>3
    <2>4. CASE t1[1] # i
      BY <1>7, <2>2, <2>4
    <2> QED BY <2>3, <2>4
  <1>8. Shift \in Injection(Tokens(n)', Rest)
    <2>1. Shift \in [Tokens(n)' -> Rest]
      BY <1>6
    <2> HIDE DEF Shift, Rest
    <2> QED BY <1>7, <2>1 DEF Injection, IsInjective
  <1>9. IsFiniteSet(Rest) /\ Cardinality(Rest) = Cardinality(Tokens(n)) - (IF hd \in Tokens(n) THEN 1 ELSE 0)
    <2>1. Cardinality(Tokens(n)) \in Nat
      BY FS_CardinalityType
    <2>2. /\ IsFiniteSet(Tokens(n) \ {hd})
          /\ Cardinality(Tokens(n) \ {hd}) =
                IF hd \in Tokens(n) THEN Cardinality(Tokens(n)) - 1 ELSE Cardinality(Tokens(n))
      BY FS_RemoveElement
    <2> QED BY <2>1, <2>2
  <1> HIDE DEF Shift, Rest
  <1>10. IsFiniteSet(Tokens(n)') /\ Cardinality(Tokens(n)') <= Cardinality(Rest)
    BY <1>8, <1>9, FS_Injection
  <1>11. /\ Cardinality(Tokens(n)) \in Nat /\ Cardinality(Tokens(n)') \in Nat
         /\ Cardinality(Rest) \in Nat
    BY <1>9, <1>10, FS_CardinalityType
  <1> QED BY <1>4, <1>9, <1>10, <1>11

(* Fewer tokens and fewer hands, when nothing is handled, keep the count.  *)
LEMMA FewerTokens ==
    ASSUME Types, CountInv, UNCHANGED <<sends, empties, handled>>,
           \A n \in 1 .. MaxSends : /\ IsFiniteSet(Tokens(n)) => /\ IsFiniteSet(Tokens(n)')
                                                           /\ Cardinality(Tokens(n)') <= Cardinality(Tokens(n))
                                  /\ InHand(n)' \subseteq InHand(n)
    PROVE  CountInv'
  <1> SUFFICES ASSUME NEW n \in 1 .. MaxSends PROVE Accounted(n)'
    BY DEF CountInv
  <1>1. Accounted(n)
    BY DEF CountInv
  <1>2. /\ IsFiniteSet(Tokens(n)') /\ Cardinality(Tokens(n)') <= Cardinality(Tokens(n))
        /\ Cardinality(Tokens(n)') \in Nat /\ Cardinality(Tokens(n)) \in Nat
    BY <1>1, FS_CardinalityType DEF Accounted
  <1>3. /\ IsFiniteSet(InHand(n)') /\ Cardinality(InHand(n)') <= Cardinality(InHand(n))
        /\ Cardinality(InHand(n)') \in Nat /\ Cardinality(InHand(n)) \in Nat
    BY <1>1, FS_Subset, FS_CardinalityType DEF Accounted
  <1>4. handled[n] \in Nat /\ empties \in Nat
    BY BoundAssumption DEF Types
  <1> QED BY <1>1, <1>2, <1>3, <1>4 DEF Accounted

(* Tokens of a table in which sockets were opened, empty, and closed.      *)
LEMMA TokensSubset ==
    ASSUME \A j \in Fds : Open(j)' => (fd'[j] = fd[j] /\ Open(j)) \/ fd'[j].q = <<>>,
           NEW n
    PROVE  /\ Tokens(n)' \subseteq Tokens(n)
           /\ IsFiniteSet(Tokens(n)) => /\ IsFiniteSet(Tokens(n)')
                                        /\ Cardinality(Tokens(n)') <= Cardinality(Tokens(n))
  <1>1. Tokens(n)' \subseteq Tokens(n)
    <2> SUFFICES ASSUME NEW t \in Tokens(n)' PROVE t \in Tokens(n)
      OBVIOUS
    <2>1. /\ t \in Fds \X Nat /\ Open(t[1])' /\ t[2] \in 1 .. Len(fd'[t[1]].q)
          /\ Holds(fd'[t[1]].q[t[2]], n)
      BY DEF Tokens
    <2>2. fd'[t[1]].q # <<>>
      BY <2>1
    <2>3. fd'[t[1]] = fd[t[1]] /\ Open(t[1])
      BY <2>1, <2>2
    <2> QED BY <2>1, <2>3 DEF Tokens
  <1> QED BY <1>1, FS_Subset

(* A request is sent, or an empty datagram.                                *)
LEMMA SendCount ==
    ASSUME TypeOK, Types, CountInv, NEW s \in Senders, NEW kind \in {"request", "empty"},
           send(s, kind)
    PROVE  CountInv'
  <1> SUFFICES ASSUME NEW n \in 1 .. MaxSends PROVE Accounted(n)'
    BY DEF CountInv
  <1> DEFINE num == IF kind = "empty" THEN 0 ELSE sends + 1
             grows == kind = "empty" \/ n = sends + 1
  <1>1. /\ Accounted(n) /\ sends \in Nat /\ empties \in Nat /\ handled[n] \in Nat
        /\ n \in Nat /\ MaxSends \in Nat
    BY BoundAssumption DEF CountInv, Types
  <1>2. /\ UNCHANGED <<handled, thread, cur_msg>>
        /\ empties' = IF kind = "empty" THEN empties + 1 ELSE empties
        /\ sends' = IF kind = "empty" THEN sends ELSE sends + 1
    BY DEF send, chanVars, ctrlVars
  <1>3. InHand(n)' = InHand(n)
    BY <1>2 DEF InHand
  <1>4. /\ IsFiniteSet(Tokens(n)')
        /\ Cardinality(Tokens(n)') <= Cardinality(Tokens(n)) + (IF grows THEN 1 ELSE 0)
    <2>1. Cardinality(Tokens(n)) \in Nat
      BY <1>1, FS_CardinalityType DEF Accounted
    <2>2. CASE UNCHANGED fd
      <3>1. Tokens(n)' = Tokens(n)
        BY <2>2 DEF Tokens, Open
      <3> QED BY <1>1, <2>1, <3>1 DEF Accounted
    <2>3. CASE ~UNCHANGED fd
      <3>1. PICK i \in Fds :
              /\ Open(sock_fd[s]) /\ Open(i)
              /\ Arrives(i, [kind |-> kind, n |-> num, from |-> fd[sock_fd[s]].owner])
        BY <2>3 DEF send
      <3> DEFINE d == [kind |-> kind, n |-> num, from |-> fd[sock_fd[s]].owner]
      <3>2. fd[sock_fd[s]].owner \in Objects
        BY <3>1 DEF TypeOK, Open
      <3>3. num \in 0 .. MaxSends
        BY <1>1 DEF send
      <3>4. d \in Datagram /\ d.kind = kind /\ d.n = num
        BY <3>2, <3>3 DEF Datagram
      <3>5. Holds(d, n) <=> grows
        BY <3>4 DEF Holds
      <3>6. Arrives(i, d)
        BY <3>1
      <3> HIDE DEF d
      <3>7. /\ IsFiniteSet(Tokens(n)')
            /\ Cardinality(Tokens(n)') <= Cardinality(Tokens(n)) + (IF Holds(d, n) THEN 1 ELSE 0)
        BY <1>1, <3>1, <3>4, <3>6, TokensArrive DEF Accounted
      <3> QED BY <3>5, <3>7
    <2> QED BY <2>2, <2>3
  <1>5. /\ Cardinality(Tokens(n)') \in Nat /\ Cardinality(Tokens(n)) \in Nat
        /\ Cardinality(InHand(n)) \in Nat
    BY <1>1, <1>4, FS_CardinalityType DEF Accounted
  <1>6. (IF grows THEN 1 ELSE 0) + (IF n <= sends THEN 1 ELSE 0) + empties
           <= (IF n <= sends' THEN 1 ELSE 0) + empties'
    BY <1>1, <1>2
  <1> QED BY <1>1, <1>2, <1>3, <1>4, <1>5, <1>6 DEF Accounted

(* The channel takes a datagram: its token goes to the hand of the RCtrl.  *)
LEMMA StartCount ==
    ASSUME TypeOK, Types, CountInv, NEW r \in Ctrls, start(r)
    PROVE  CountInv'
  <1>0. /\ UNCHANGED <<sends, empties, handled>> /\ thread[r] = "start"
        /\ DOMAIN thread = Ctrls /\ DOMAIN cur_msg = Ctrls
    BY DEF start, bookVars, TypeOK
  <1>1. CASE Open(sock_fd[r]) /\ fd[sock_fd[r]].q # <<>>
    <2> DEFINE i == sock_fd[r]
               d == Head(fd[i].q)
    <2>1. /\ i \in Fds /\ Open(i) /\ fd[i].q # <<>> /\ fd' = [fd EXCEPT ![i].q = Tail(fd[i].q)]
          /\ thread' = [thread EXCEPT ![r] = "handle"]
          /\ cur_msg' = [cur_msg EXCEPT ![r] = Received(r, d)]
      BY <1>1 DEF start, Daemon, Open
    <2> SUFFICES ASSUME NEW n \in 1 .. MaxSends PROVE Accounted(n)'
      BY DEF CountInv
    <2>2. Accounted(n) /\ empties \in Nat /\ handled[n] \in Nat
      BY BoundAssumption DEF CountInv, Types
    <2>3. /\ IsFiniteSet(Tokens(n)')
          /\ Cardinality(Tokens(n)') + (IF Holds(d, n) THEN 1 ELSE 0) <= Cardinality(Tokens(n))
      BY <2>1, <2>2, TokensTake DEF Accounted
    <2> DEFINE more == Received(r, d).kind = "request" /\ Received(r, d).n = n
    <2>4. more => Holds(d, n) \/ (d.kind = "empty" /\ cur_msg[r].kind = "request")
      BY DEF Received, Holds
    <2>5. more => Holds(d, n)
      BY <2>4 DEF Holds
    <2>6. InHand(n)' \subseteq IF more THEN InHand(n) \cup {r} ELSE InHand(n)
      BY <1>0, <2>1 DEF InHand
    <2> HIDE DEF more, d
    <2>7. /\ IsFiniteSet(InHand(n)') /\ Cardinality(InHand(n)') \in Nat
          /\ Cardinality(InHand(n)') <= Cardinality(InHand(n)) + (IF more THEN 1 ELSE 0)
      <3>1. IsFiniteSet(InHand(n)) /\ Cardinality(InHand(n)) \in Nat
        BY <2>2, FS_CardinalityType DEF Accounted
      <3>2. CASE more
        <4>1. /\ IsFiniteSet(InHand(n) \cup {r})
              /\ Cardinality(InHand(n) \cup {r}) =
                    IF r \in InHand(n) THEN Cardinality(InHand(n)) ELSE Cardinality(InHand(n)) + 1
          BY <3>1, FS_AddElement
        <4>2. /\ IsFiniteSet(InHand(n)') /\ Cardinality(InHand(n)') \in Nat
              /\ Cardinality(InHand(n)') <= Cardinality(InHand(n) \cup {r})
          BY <2>6, <3>2, <4>1, FS_Subset, FS_CardinalityType
        <4> QED BY <3>1, <3>2, <4>1, <4>2
      <3>3. CASE ~more
        <4>1. /\ IsFiniteSet(InHand(n)') /\ Cardinality(InHand(n)') \in Nat
              /\ Cardinality(InHand(n)') <= Cardinality(InHand(n))
          BY <2>6, <3>1, <3>3, FS_Subset, FS_CardinalityType
        <4> QED BY <3>1, <3>3, <4>1
      <3> QED BY <3>2, <3>3
    <2>8. /\ Cardinality(Tokens(n)') \in Nat /\ Cardinality(Tokens(n)) \in Nat
          /\ Cardinality(InHand(n)) \in Nat
      BY <2>2, <2>3, FS_CardinalityType DEF Accounted
    <2> QED BY <1>0, <2>2, <2>3, <2>5, <2>7, <2>8 DEF Accounted
  <1>2. CASE ~(Open(sock_fd[r]) /\ fd[sock_fd[r]].q # <<>>)
    <2>1. UNCHANGED <<fd, cur_msg>> /\ thread' = [thread EXCEPT ![r] = "while"]
      BY <1>2 DEF start, Daemon, chanVars
    <2>2. ASSUME NEW n PROVE Tokens(n)' = Tokens(n) /\ InHand(n)' \subseteq InHand(n)
      BY <1>0, <2>1 DEF Tokens, Open, InHand
    <2>3. ASSUME NEW n, IsFiniteSet(Tokens(n)) PROVE Cardinality(Tokens(n)) <= Cardinality(Tokens(n))
      BY <2>3, FS_CardinalityType
    <2> QED BY <1>0, <2>2, <2>3, FewerTokens
  <1> QED BY <1>1, <1>2

(* The handler runs for what is in hand, and a reply is in no queue a token*)
LEMMA HandleCount ==
    ASSUME TypeOK, Types, CountInv, NEW r \in Ctrls, handle(r)
    PROVE  CountInv'
  <1> SUFFICES ASSUME NEW n \in 1 .. MaxSends PROVE Accounted(n)'
    BY DEF CountInv
  <1>0. /\ UNCHANGED <<sends, empties, cur_msg>>
        /\ thread[r] = "handle" /\ thread' = [thread EXCEPT ![r] = "start"]
        /\ DOMAIN thread = Ctrls
    BY DEF handle, next, Daemon, TypeOK
  <1>1. Accounted(n) /\ empties \in Nat /\ handled \in [1 .. MaxSends -> Nat]
    BY BoundAssumption DEF CountInv, Types
  <1>2. handled'[n] = handled[n] + (IF r \in InHand(n) THEN 1 ELSE 0)
    <2>1. handled' = IF cur_msg[r].kind = "request"
                     THEN [handled EXCEPT ![cur_msg[r].n] = handled[cur_msg[r].n] + 1] ELSE handled
      BY DEF handle
    <2>2. r \in InHand(n) <=> cur_msg[r].kind = "request" /\ cur_msg[r].n = n
      BY <1>0 DEF InHand
    <2> QED BY <1>1, <2>1, <2>2
  <1>3. InHand(n)' = InHand(n) \ {r}
    BY <1>0 DEF InHand
  <1>4. /\ IsFiniteSet(Tokens(n)')
        /\ Cardinality(Tokens(n)') <= Cardinality(Tokens(n))
    <2>1. Cardinality(Tokens(n)) \in Nat
      BY <1>1, FS_CardinalityType DEF Accounted
    <2>2. CASE UNCHANGED fd
      <3>1. Tokens(n)' = Tokens(n)
        BY <2>2 DEF Tokens, Open
      <3> QED BY <1>1, <2>1, <3>1 DEF Accounted
    <2>3. CASE ~UNCHANGED fd
      <3>1. PICK i \in Fds :
              /\ Open(sock_fd[r]) /\ Open(i)
              /\ Arrives(i, [kind |-> "reply", n |-> cur_msg[r].n,
                             from |-> fd[sock_fd[r]].owner])
        BY <2>3 DEF handle
      <3> DEFINE d == [kind |-> "reply", n |-> cur_msg[r].n, from |-> fd[sock_fd[r]].owner]
      <3>2. fd[sock_fd[r]].owner \in Objects /\ cur_msg[r].n \in 0 .. MaxSends
        BY <3>1, BoundAssumption DEF TypeOK, Open, Message, Zeros
      <3>3. d \in Datagram /\ ~Holds(d, n)
        BY <3>2 DEF Datagram, Holds
      <3>4. Arrives(i, d)
        BY <3>1
      <3> HIDE DEF d
      <3>5. /\ IsFiniteSet(Tokens(n)')
            /\ Cardinality(Tokens(n)') <= Cardinality(Tokens(n)) + (IF Holds(d, n) THEN 1 ELSE 0)
        BY <1>1, <3>1, <3>3, <3>4, TokensArrive DEF Accounted
      <3> QED BY <2>1, <3>3, <3>5
    <2> QED BY <2>2, <2>3
  <1>5. /\ IsFiniteSet(InHand(n)') /\ Cardinality(InHand(n)) \in Nat
        /\ Cardinality(InHand(n)') = Cardinality(InHand(n)) - (IF r \in InHand(n) THEN 1 ELSE 0)
    <2>1. IsFiniteSet(InHand(n)) /\ Cardinality(InHand(n)) \in Nat
      BY <1>1, FS_CardinalityType DEF Accounted
    <2>2. /\ IsFiniteSet(InHand(n) \ {r})
          /\ Cardinality(InHand(n) \ {r}) =
                IF r \in InHand(n) THEN Cardinality(InHand(n)) - 1 ELSE Cardinality(InHand(n))
      BY <2>1, FS_RemoveElement
    <2> QED BY <1>3, <2>1, <2>2
  <1>6. /\ Cardinality(Tokens(n)') \in Nat /\ Cardinality(Tokens(n)) \in Nat
        /\ handled[n] \in Nat /\ Cardinality(InHand(n)') \in Nat
    BY <1>1, <1>4, <1>5, FS_CardinalityType DEF Accounted
  <1> QED BY <1>0, <1>1, <1>2, <1>4, <1>5, <1>6 DEF Accounted

(* Every action keeps the count: places where a request waits, plus the   *)
(* times it was handled, never exceed what was sent and repeated.         *)
LEMMA CountStep == BaseInv /\ CountInv /\ [Next]_vars => CountInv'
  <1> SUFFICES ASSUME TypeOK, Types, ThreadsOK, CountInv, [Next]_vars PROVE CountInv'
    BY DEF BaseInv
  <1>0. /\ DOMAIN thread = Ctrls /\ DOMAIN cur_msg = Ctrls
        /\ fd \in [Fds -> Sockets \cup {Free}]
    BY DEF TypeOK, Types
  <1>1. ASSUME UNCHANGED <<sends, empties, handled>>,
               \A j \in Fds : Open(j)' => (fd'[j] = fd[j] /\ Open(j)) \/ fd'[j].q = <<>>,
               \A n : InHand(n)' \subseteq InHand(n)
        PROVE  CountInv'
    BY <1>1, TokensSubset, FewerTokens
  <1>2. ASSUME UNCHANGED fd, NEW j \in Fds PROVE Open(j)' => fd'[j] = fd[j] /\ Open(j)
    BY <1>2 DEF Open
  <1>3. ASSUME UNCHANGED <<thread, cur_msg>>, NEW n PROVE InHand(n)' \subseteq InHand(n)
    BY <1>3 DEF InHand
  <1>4. ASSUME NEW o \in Objects, close_channel(o), NEW j \in Fds
        PROVE  Open(j)' => fd'[j] = fd[j] /\ Open(j)
    BY <1>4 DEF close_channel, Open
  <1>5. ASSUME NEW o \in Objects, NEW b \in BOOLEAN, NEW i \in Fds,
               fd' = [fd EXCEPT ![i] = Socket(o, b)], NEW j \in Fds
        PROVE  Open(j)' => (fd'[j] = fd[j] /\ Open(j)) \/ fd'[j].q = <<>>
    <2>1. CASE j # i
      BY <1>0, <1>5, <2>1 DEF Open
    <2>2. CASE j = i
      <3>1. fd'[i] = Socket(o, b)
        BY <1>0, <1>5
      <3> QED BY <2>2, <3>1 DEF Socket
    <2> QED BY <2>1, <2>2
  <1>6. ASSUME NEW s \in Senders, SenderStep(s) PROVE CountInv'
    <2>0. s \in Objects
      BY DEF Objects
    <2>1. CASE SendChannel_create(s)
      <3>1. /\ UNCHANGED <<sends, empties, handled, thread, cur_msg>>
            /\ \E i \in Fds : fd' = [fd EXCEPT ![i] = Socket(s, FALSE)]
        BY <2>1 DEF SendChannel_create, chanVars, ctrlVars, bookVars
      <3> QED BY <1>1, <1>3, <1>5, <2>0, <3>1
    <2>2. CASE \E kind \in {"request", "empty"} : send(s, kind)
      BY <2>2, SendCount
    <2>3. CASE recv(s)
      <3> DEFINE i == sock_fd[s]
      <3>1. /\ UNCHANGED <<sends, empties, handled, thread, cur_msg>>
            /\ i \in Fds /\ Open(i) /\ fd[i].q # <<>> /\ fd' = [fd EXCEPT ![i].q = Tail(fd[i].q)]
        BY <2>3 DEF recv, chanVars, ctrlVars, bookVars, Open
      <3> HIDE DEF i
      <3>2. ASSUME NEW n, IsFiniteSet(Tokens(n))
            PROVE  /\ IsFiniteSet(Tokens(n)')
                   /\ Cardinality(Tokens(n)') <= Cardinality(Tokens(n))
        <4>1. /\ IsFiniteSet(Tokens(n)')
              /\ Cardinality(Tokens(n)') + (IF Holds(Head(fd[i].q), n) THEN 1 ELSE 0)
                    <= Cardinality(Tokens(n))
          BY <3>1, <3>2, TokensTake
        <4>2. Cardinality(Tokens(n)') \in Nat /\ Cardinality(Tokens(n)) \in Nat
          BY <3>2, <4>1, FS_CardinalityType
        <4> QED BY <4>1, <4>2
      <3> QED BY <1>3, <3>1, <3>2, FewerTokens
    <2>4. CASE SendChannel_dtor(s)
      <3>1. UNCHANGED <<sends, empties, handled, thread, cur_msg>> /\ close_channel(s)
        BY <2>4 DEF SendChannel_dtor, chanVars, ctrlVars, bookVars
      <3> QED BY <1>1, <1>3, <1>4, <2>0, <3>1
    <2> QED BY <1>6, <2>1, <2>2, <2>3, <2>4 DEF SenderStep
  <1>7. ASSUME NEW r \in Ctrls, UserStep(r) PROVE CountInv'
    <2>0. r \in Objects /\ UNCHANGED <<sends, empties, handled>>
      BY <1>7
      DEF UserStep, RCtrl_ctor, start_daemon, StopDaemon, RCtrl_dtor, Join, JoinGarbage,
          stop_daemon, bookVars, Objects
    <2>1. CASE RCtrl_ctor(r)
      <3>1. /\ UNCHANGED <<thread, cur_msg>>
            /\ fd' = fd \/ \E i \in Fds : fd' = [fd EXCEPT ![i] = Socket(r, TRUE)]
        BY <2>1 DEF RCtrl_ctor, BindFails, chanVars, ctrlVars
      <3> QED BY <1>1, <1>2, <1>3, <1>5, <2>0, <3>1
    <2>2. CASE start_daemon(r) \/ StopDaemon(r) \/ JoinGarbage(r)
      <3>1. UNCHANGED <<fd, cur_msg>>
        BY <2>2 DEF start_daemon, StopDaemon, stop_daemon, JoinGarbage, sockVars, chanVars
      <3>2. thread' = thread \/ thread' = [thread EXCEPT ![r] = "while"]
        BY <2>2 DEF start_daemon, StopDaemon, stop_daemon, JoinGarbage
      <3>3. \A n : InHand(n)' \subseteq InHand(n)
        BY <1>0, <3>1, <3>2 DEF InHand
      <3> QED BY <1>1, <1>2, <2>0, <3>1, <3>3
    <2>3. ASSUME Destroy(r), thread' = thread \/ thread' = [thread EXCEPT ![r] = "none"]
          PROVE  CountInv'
      <3>1. close_channel(r) /\ cur_msg' = [cur_msg EXCEPT ![r] = Zeros] /\ Zeros.kind = "zeros"
        BY <2>3 DEF Destroy, Zeros
      <3>2. \A n : InHand(n)' \subseteq InHand(n)
        BY <1>0, <2>3, <3>1 DEF InHand
      <3> QED BY <1>1, <1>4, <2>0, <3>1, <3>2
    <2>4. CASE RCtrl_dtor(r)
      <3>1. CASE stop_daemon(r, "destroy")
        BY <1>1, <1>2, <1>3, <2>0, <3>1 DEF stop_daemon, sockVars, chanVars
      <3>2. CASE Destroy(r) /\ UNCHANGED ctrlVars
        BY <2>3, <3>2 DEF ctrlVars
      <3> QED BY <2>4, <3>1, <3>2 DEF RCtrl_dtor
    <2>5. CASE Join(r)
      <3>1. thread' = [thread EXCEPT ![r] = "none"]
        BY <2>5 DEF Join
      <3>2. CASE user[r] = "destroy"
        BY <2>3, <2>5, <3>1, <3>2 DEF Join
      <3>3. CASE user[r] # "destroy"
        <4>1. UNCHANGED <<fd, cur_msg>>
          BY <2>5, <3>3 DEF Join, sockVars, chanVars
        <4>2. \A n : InHand(n)' \subseteq InHand(n)
          BY <1>0, <3>1, <4>1 DEF InHand
        <4> QED BY <1>1, <1>2, <2>0, <4>1, <4>2
      <3> QED BY <3>2, <3>3
    <2> QED BY <1>7, <2>1, <2>2, <2>4, <2>5 DEF UserStep
  <1>8. ASSUME NEW r \in Ctrls, DaemonStep(r) PROVE CountInv'
    <2>1. CASE While(r)
      <3>1. /\ UNCHANGED <<fd, cur_msg, sends, empties, handled>>
            /\ \E to \in {"start", "ended"} : thread' = [thread EXCEPT ![r] = to]
        BY <2>1 DEF While, Daemon, sockVars, chanVars, bookVars
      <3>2. \A n : InHand(n)' \subseteq InHand(n)
        BY <1>0, <3>1 DEF InHand
      <3> QED BY <1>1, <1>2, <3>1, <3>2
    <2> QED BY <1>8, <2>1, StartCount, HandleCount DEF DaemonStep
  <1>9. CASE UNCHANGED vars
    BY <1>1, <1>2, <1>3, <1>9 DEF vars, sockVars, chanVars, ctrlVars, bookVars
  <1> QED BY <1>6, <1>7, <1>8, <1>9 DEF Next

(* Nothing is sent at the start.                                          *)
LEMMA InitCount == Init => CountInv
  <1> SUFFICES ASSUME Init, NEW n \in 1 .. MaxSends PROVE Accounted(n)
    BY DEF CountInv
  <1>1. Tokens(n) = {} /\ InHand(n) = {} /\ handled[n] = 0
    BY DEF Init, Tokens, InHand, Open
  <1> QED BY <1>1, FS_EmptySet, BoundAssumption DEF Init, Accounted

(* A request is handled once, and again only for as many empty datagrams   *)
(* as were sent, whoever reads whose socket.                               *)
THEOREM HandledCorrect == Spec => []HandledOnce
  <1>1. BaseInv /\ CountInv => HandledOnce
    <2> SUFFICES ASSUME Types, CountInv, NEW n \in 1 .. MaxSends PROVE handled[n] <= 1 + empties
      BY DEF BaseInv, HandledOnce
    <2>1. Accounted(n) /\ handled[n] \in Nat /\ empties \in Nat
      BY BoundAssumption DEF CountInv, Types
    <2>2. Cardinality(Tokens(n)) \in Nat /\ Cardinality(InHand(n)) \in Nat
      BY <2>1, FS_CardinalityType DEF Accounted
    <2> QED BY <2>1, <2>2 DEF Accounted
  <1>2. Spec => [](BaseInv /\ CountInv)
    BY InitBase, InitCount, NextBase, CountStep, PTL DEF Spec
  <1> QED BY <1>1, <1>2, PTL
=============================================================================
