------------------------------- MODULE Server -------------------------------
(***************************************************************************)
(* The life of a server: RCtrl with its daemon thread (rctrl.hh), the      *)
(* event loop it runs (srpc.hh) and the UDP channels below (channel.hh),   *)
(* with the descriptors of the process they live in.  The SendChannels of  *)
(* the same process stand for its clients, as in the tests.                *)
(*                                                                         *)
(* The sockets are external: descriptors are handed out lowest first, a    *)
(* port has one socket, and a datagram joins the queue of the socket it is *)
(* addressed to.  SRpc has the network that loses and duplicates; here the *)
(* subject is who reads which socket with which buffer, and when it ends.  *)
(***************************************************************************)
EXTENDS Integers, Sequences

CONSTANTS
    Ctrls,     \* RCtrl objects, all on one port; a user thread each
    Senders,   \* SendChannel objects
    MaxFd,     \* bound: descriptors, enough for every object
    MaxStarts, \* bound: calls of start_daemon
    MaxSends,  \* bound: requests sent
    MaxEmpty   \* bound: empty datagrams sent

Objects == Ctrls \cup Senders
Fds == 0 .. MaxFd - 1

ASSUME ObjectAssumption == Ctrls \cap Senders = {} /\ "none" \notin Objects
ASSUME BoundAssumption == {MaxFd, MaxStarts, MaxSends, MaxEmpty} \subseteq Nat

VARIABLES
    fd,         \* the descriptor table of the process
    life,       \* of each object
    sock_fd,    \* AbsChannel::sock_fd
    client,     \* RecvChannel::cur_msg_client
    cur_msg,    \* what the buffer cur_msg begins with
    running,    \* RCtrl::running
    thread,     \* where the daemon thread is
    user,       \* the thread that owns the RCtrl
    starts, sends, empties, \* what the bounds count
    taken,      \* history: a RecvChannel was created though its bind failed
    unborn,     \* history: the RCtrls whose last pthread_create failed
    handled     \* history: how often each request was handled

sockVars == <<fd, sock_fd>>
chanVars == <<client, cur_msg>>
ctrlVars == <<running, thread, user, starts, unborn>>
bookVars == <<sends, empties, taken, handled>>
vars == <<sockVars, life, chanVars, ctrlVars, bookVars>>

(* The bytes a library-made message begins with tell its own length, so    *)
(* those an earlier message left behind it are not looked at.              *)
Zeros == [kind |-> "zeros", n |-> 0]
Message == [kind : {"request", "reply"}, n : 0 .. MaxSends] \cup {Zeros}
Datagram == [kind : {"request", "reply", "empty"}, n : 0 .. MaxSends, from : Objects]

-----------------------------------------------------------------------------
(* The descriptors of the process.                                         *)

Free == [owner |-> "nobody"]
Open(i) == i \in Fds /\ fd[i] # Free
LowestFree(i) == i \in Fds /\ ~Open(i) /\ \A k \in 0 .. i - 1 : Open(k)
PortTaken == \E i \in Fds : Open(i) /\ fd[i].bound
Socket(o, bound) == [owner |-> o, bound |-> bound, q |-> <<>>]

Arrives(i, d) == fd' = [fd EXCEPT ![i].q = Append(@, d)]

(* close_channel.  Its result is not checked.                              *)
close_channel(o) ==
    /\ fd' = [i \in Fds |-> IF i = sock_fd[o] THEN Free ELSE fd[i]]
    /\ sock_fd' = [sock_fd EXCEPT ![o] = -1]

Init ==
    /\ fd = [i \in Fds |-> Free]
    /\ life = [o \in Objects |-> "none"]
    /\ sock_fd = [o \in Objects |-> -1]
    /\ client = [r \in Ctrls |-> "none"]
    /\ cur_msg = [r \in Ctrls |-> Zeros]
    /\ running = [r \in Ctrls |-> FALSE]
    /\ thread = [r \in Ctrls |-> "none"]
    /\ user = [r \in Ctrls |-> "idle"]
    /\ starts = 0
    /\ sends = 0 /\ empties = 0
    /\ taken = FALSE /\ unborn = {}
    /\ handled = [n \in 1 .. MaxSends |-> 0]

-----------------------------------------------------------------------------
(* The client side: SendChannel.                                           *)

SendChannel_create(s) ==
    /\ life[s] = "none"
    /\ \E i \in Fds :
          /\ LowestFree(i)
          /\ fd' = [fd EXCEPT ![i] = Socket(s, FALSE)]
          /\ sock_fd' = [sock_fd EXCEPT ![s] = i]
    /\ life' = [life EXCEPT ![s] = "alive"]
    /\ UNCHANGED <<chanVars, ctrlVars, bookVars>>

(* sendto through whatever socket the descriptor names by now.  An empty   *)
(* buffer is reported as an error, and its datagram is sent nevertheless.  *)
send(s, kind) ==
    /\ life[s] = "alive"
    /\ IF kind = "empty" THEN empties < MaxEmpty ELSE sends < MaxSends
    /\ empties' = IF kind = "empty" THEN empties + 1 ELSE empties
    /\ sends' = IF kind = "empty" THEN sends ELSE sends + 1
    /\ \/ /\ Open(sock_fd[s])
          /\ \E i \in Fds :
                /\ Open(i) /\ fd[i].bound
                /\ Arrives(i, [kind |-> kind, n |-> IF kind = "empty" THEN 0 ELSE sends + 1,
                               from |-> fd[sock_fd[s]].owner])
       \/ /\ ~Open(sock_fd[s]) \/ ~PortTaken
          /\ UNCHANGED fd
    /\ UNCHANGED <<sock_fd, life, chanVars, ctrlVars, taken, handled>>

(* SendChannel::recv takes the next datagram into a buffer of its own.     *)
recv(s) ==
    /\ life[s] = "alive"
    /\ Open(sock_fd[s])
    /\ fd[sock_fd[s]].q # <<>>
    /\ fd' = [fd EXCEPT ![sock_fd[s]].q = Tail(@)]
    /\ UNCHANGED <<sock_fd, life, chanVars, ctrlVars, bookVars>>

SendChannel_dtor(s) ==
    /\ life[s] = "alive"
    /\ close_channel(s)
    /\ life' = [life EXCEPT ![s] = "dead"]
    /\ UNCHANGED <<chanVars, ctrlVars, bookVars>>

-----------------------------------------------------------------------------
(* RCtrl and its RecvChannel.                                              *)

(* RecvChannel::RecvChannel.  bind fails when the port is taken, by this   *)
(* process or another, or may not be used.  When it fails for every        *)
(* address the socket is closed, but sockfd keeps its number unless the    *)
(* last socket() failed.                                                   *)
BindFails(r, i) ==
    /\ \E n \in {i, -1} : sock_fd' = [sock_fd EXCEPT ![r] = n]
    /\ UNCHANGED fd

(* RecvChannel::create gives the channel out if its sock_fd is a number;   *)
(* otherwise .value() throws in the constructor of RCtrl.                  *)
valid(n) == n >= 0

RCtrl_ctor(r) ==
    /\ life[r] = "none"
    /\ \E i \in Fds :
          /\ LowestFree(i)
          /\ \/ /\ ~PortTaken
                /\ fd' = [fd EXCEPT ![i] = Socket(r, TRUE)]
                /\ sock_fd' = [sock_fd EXCEPT ![r] = i]
                /\ UNCHANGED taken
             \/ /\ BindFails(r, i)
                /\ taken' = (taken \/ valid(sock_fd'[r]))
    /\ life' = [life EXCEPT ![r] = IF valid(sock_fd'[r]) THEN "alive" ELSE "none"]
    /\ UNCHANGED <<chanVars, ctrlVars, sends, empties, handled>>

(* running is set first; pthread_create may fail and leave it set.         *)
start_daemon(r) ==
    /\ life[r] = "alive" /\ user[r] = "idle"
    /\ thread[r] = "none"
    /\ starts < MaxStarts
    /\ starts' = starts + 1
    /\ running' = [running EXCEPT ![r] = TRUE]
    /\ \/ thread' = [thread EXCEPT ![r] = "while"] /\ unborn' = unborn \ {r}
       \/ unborn' = unborn \cup {r} /\ UNCHANGED thread
    /\ UNCHANGED <<sockVars, life, chanVars, user, bookVars>>

(* stop_daemon up to pthread_join.                                         *)
stop_daemon_Forgets(r, next) ==
    /\ running[r]
    /\ user' = [user EXCEPT ![r] = next]
    /\ UNCHANGED <<sockVars, life, chanVars, running, thread, starts, unborn, bookVars>>
stop_daemon(r, next) ==
    /\ running[r]
    /\ running' = [running EXCEPT ![r] = FALSE]
    /\ user' = [user EXCEPT ![r] = next]
    /\ UNCHANGED <<sockVars, life, chanVars, thread, starts, unborn, bookVars>>

StopDaemon(r) ==
    /\ life[r] = "alive" /\ user[r] = "idle"
    /\ stop_daemon(r, "stop")

(* The members go: the channel closes its socket.                          *)
Destroy(r) ==
    /\ close_channel(r)
    /\ life' = [life EXCEPT ![r] = "dead"]
    /\ client' = [client EXCEPT ![r] = "none"]
    /\ cur_msg' = [cur_msg EXCEPT ![r] = Zeros]

RCtrl_dtor_NoStop(r) ==
    /\ life[r] = "alive" /\ user[r] = "idle"
    /\ Destroy(r)
    /\ UNCHANGED <<ctrlVars, bookVars>>
RCtrl_dtor_CloseFirst(r) ==
    /\ life[r] = "alive" /\ user[r] = "idle"
    /\ close_channel(r)
    /\ running' = [running EXCEPT ![r] = FALSE]
    /\ user' = [user EXCEPT ![r] = "destroy"]
    /\ UNCHANGED <<life, chanVars, thread, starts, unborn, bookVars>>
RCtrl_dtor(r) ==
    /\ life[r] = "alive" /\ user[r] = "idle"
    /\ \/ stop_daemon(r, "destroy")
       \/ /\ ~running[r]
          /\ Destroy(r)
          /\ UNCHANGED <<ctrlVars, bookVars>>

(* pthread_join of handler_tid, and of a thread that was never created.    *)
Join(r) ==
    /\ user[r] \in {"stop", "destroy"}
    /\ thread[r] = "ended"
    /\ thread' = [thread EXCEPT ![r] = "none"]
    /\ user' = [user EXCEPT ![r] = "idle"]
    /\ IF user[r] = "destroy" THEN Destroy(r) ELSE UNCHANGED <<sockVars, life, chanVars>>
    /\ UNCHANGED <<running, starts, unborn, bookVars>>

JoinGarbage(r) ==
    /\ user[r] \in {"stop", "destroy"}
    /\ thread[r] = "none"
    /\ user' = [user EXCEPT ![r] = "undefined"]
    /\ UNCHANGED <<sockVars, life, chanVars, running, thread, starts, unborn, bookVars>>

-----------------------------------------------------------------------------
(* The daemon thread.                                                      *)

Daemon(r, from, to) == thread[r] = from /\ thread' = [thread EXCEPT ![r] = to]

(* while (ctrl.running)                                                    *)
While(r) ==
    /\ Daemon(r, "while", IF running[r] THEN "start" ELSE "ended")
    /\ UNCHANGED <<sockVars, life, chanVars, running, user, starts, unborn, bookVars>>

(* recvfrom into cur_msg.  Its length is ignored: an empty datagram leaves *)
(* the message before it in place.                                         *)
Received(r, d) == IF d.kind = "empty" THEN cur_msg[r] ELSE [kind |-> d.kind, n |-> d.n]

(* RecvChannel::start: select, and a datagram if there is one.  select     *)
(* fails on a closed descriptor.                                           *)
start(r) ==
    /\ thread[r] = "start"
    /\ LET i == sock_fd[r]
       IN  IF Open(i) /\ fd[i].q # <<>>
           THEN /\ Daemon(r, "start", "handle")
                /\ client' = [client EXCEPT ![r] = Head(fd[i].q).from]
                /\ cur_msg' = [cur_msg EXCEPT ![r] = Received(r, Head(fd[i].q))]
                /\ fd' = [fd EXCEPT ![i].q = Tail(@)]
           ELSE /\ Daemon(r, "start", "while")
                /\ UNCHANGED <<fd, chanVars>>
    /\ UNCHANGED <<sock_fd, life, running, user, starts, unborn, bookVars>>

(* cur_msg_client = {}, then start() again.                                *)
next_Keeps(r) == Daemon(r, "handle", "handle") /\ UNCHANGED client
next(r) == Daemon(r, "handle", "start") /\ client' = [client EXCEPT ![r] = "none"]

(* The body of run_one_event_loop: the handler runs for a request; a reply *)
(* that strayed here is taken for a heartbeat, and zeros cannot be decoded.*)
(* All are answered, through the channel, if its socket still exists.      *)
handle(r) ==
    /\ next(r)
    /\ handled' = IF cur_msg[r].kind = "request"
                  THEN [handled EXCEPT ![cur_msg[r].n] = @ + 1] ELSE handled
    /\ LET to == {i \in Fds : Open(i) /\ fd[i].owner = client[r]}
       IN  \/ /\ Open(sock_fd[r])
              /\ \E i \in to : Arrives(i, [kind |-> "reply", n |-> cur_msg[r].n,
                                           from |-> fd[sock_fd[r]].owner])
           \/ /\ to = {} \/ ~Open(sock_fd[r])
              /\ UNCHANGED fd
    /\ UNCHANGED <<sock_fd, life, cur_msg, running, user, starts, unborn, sends, empties, taken>>

-----------------------------------------------------------------------------
DaemonStep(r) == While(r) \/ start(r) \/ handle(r)
UserStep(r) ==
    \/ RCtrl_ctor(r) \/ start_daemon(r) \/ StopDaemon(r) \/ RCtrl_dtor(r)
    \/ Join(r) \/ JoinGarbage(r)
SenderStep(s) ==
    \/ SendChannel_create(s) \/ recv(s) \/ SendChannel_dtor(s)
    \/ \E kind \in {"request", "empty"} : send(s, kind)

Next ==
    \/ \E r \in Ctrls : DaemonStep(r) \/ UserStep(r)
    \/ \E s \in Senders : SenderStep(s)

Spec == Init /\ [][Next]_vars

(* Threads run: the daemon goes on and a join returns when it can.         *)
FairSpec == Spec /\ \A r \in Ctrls : WF_vars(DaemonStep(r)) /\ WF_vars(Join(r) \/ JoinGarbage(r))

-----------------------------------------------------------------------------
(* Properties.                                                             *)

TypeOK ==
    /\ \A i \in Fds : Open(i) =>
          /\ fd[i].owner \in Objects /\ fd[i].bound \in BOOLEAN
          /\ fd[i].q \in Seq(Datagram)
    /\ life \in [Objects -> {"none", "alive", "dead"}]
    /\ sock_fd \in [Objects -> -1 .. MaxFd - 1]
    /\ client \in [Ctrls -> Objects \cup {"none"}]
    /\ cur_msg \in [Ctrls -> Message]
    /\ running \in [Ctrls -> BOOLEAN]
    /\ thread \in [Ctrls -> {"none", "while", "start", "handle", "ended"}]
    /\ user \in [Ctrls -> {"idle", "stop", "destroy", "undefined"}]
    /\ \A r \in Ctrls : thread[r] = "handle" => client[r] # "none"
    /\ taken \in BOOLEAN /\ unborn \subseteq Ctrls

(* As long as no channel is created although its bind failed, every live   *)
(* channel reads and writes its own socket: a number that a closed socket  *)
(* gave back is never used for the one that got it next.                   *)
OwnSocket ==
    ~taken => \A o \in Objects : life[o] = "alive" =>
        valid(sock_fd[o]) /\ Open(sock_fd[o]) /\ fd[sock_fd[o]].owner = o

(* An open socket belongs to a live object, even after a channel was made  *)
(* unbound and closed a socket that was not its own: no descriptor is ever *)
(* leaked.                                                                 *)
NoSocketLeak == \A i \in Fds : Open(i) => life[fd[i].owner] = "alive"

(* A request is handled once, although the buffer of the channel keeps it: *)
(* it is handled again only for an empty datagram that came after it.      *)
HandledOnce == \A n \in 1 .. MaxSends : handled[n] <= 1 + empties

(* The daemon thread is gone when ~RCtrl takes its members away, however   *)
(* stop_daemon and the end of the event loop interleave.                   *)
NoDaemonOnDead ==
    \A r \in Ctrls : life[r] = "dead" => thread[r] = "none"

(* While running is set somebody serves the port: the daemon leaves its    *)
(* loop only for stop_daemon.                                              *)
RunningMeansServing ==
    \A r \in Ctrls : running[r] =>
        thread[r] \in {"while", "start", "handle"} \/ r \in unborn

(* pthread_join is called for a thread that exists, except after a         *)
(* start_daemon that returned false and was not repeated.                  *)
JoinsOwnThread == \A r \in Ctrls : user[r] = "undefined" => r \in unborn

(* stop_daemon returns: the loop does not look at running while messages   *)
(* wait, but with finitely many of them it comes to its end.  A channel on *)
(* no port may keep two daemons answering each other.                      *)
StopReturns ==
    \A r \in Ctrls : user[r] \in {"stop", "destroy"} ~>
        user[r] \in {"idle", "undefined"} \/ taken

(* The descriptors: a live channel uses its own socket, and every open     *)
(* socket has a live owner.                                                *)
SocketInv == TypeOK /\ OwnSocket /\ NoSocketLeak

(* The daemon thread: it serves while running is set, is gone before its   *)
(* RCtrl, and is the thread that stop_daemon joins.                        *)
DaemonInv == NoDaemonOnDead /\ RunningMeansServing /\ JoinsOwnThread
=============================================================================
