# rlibv2: a TLA+ verification project

rlibv2 (`src/core/`) is a header-only C++ library over the RDMA verbs. It wraps
queue pairs (QPs), registered memory and NICs, and has a small RPC over UDP with
which clients ask a server to create, connect, query and delete QPs. This
directory holds TLA+ models of its own logic, TLC configurations for small
instances of them, and TLAPS proofs of their safety properties for every size. The
benchmark clients of `src/benchs/`, which drive the library from several threads,
are modelled too.

Paths below are relative to `src/core/` unless they start with `src/`.

## 1. Inventory

| Component | State | Operations | Hard behaviour |
|---|---|---|---|
| RC send path: `qps/rc.hh`, `qps/mod.hh`, `qps/op.hh` | `status`, `Progress` (two 16-bit watermarks), `out_signaled`; the send queue inside the NIC | `connect`, `send_normal`, `Op::execute`, `Op::execute_batch`, `poll_send_comp`, `wait_one_comp`, `poll_rc_comp`, `wait_rc_comp` | watermarks wrap; a post fails after they moved; unsignaled requests; flushed requests; two ways of polling |
| Two-sided receive: `qps/recv_helper.hh`, `qps/recv_iter.hh`, `Dummy::post_recvs` | a ring of receive requests, its `header`, the iterator's `wcs` | `post_recvs`, iterator `begin`/`next`/`clear` | requests are reposted by count alone; the ring wraps by hand; a chain refused half way; a shared completion queue |
| Bootstrap RPC: `bootstrap/srpc.hh`, `bootstrap/channel.hh` | the client's `checksum`; the sockets; the server's current message and its sender | `call`, `receive_reply`, `run_one_event_loop`; creating and closing channels | lost, late, duplicated, empty and foreign datagrams; heartbeats before the server is up; throwing handlers; descriptors used again |
| Connection management: `lib.hh`, `rctrl.hh`, `qps/rc_recv_manager.hh`, `utils/abs_factory.hh`, `bootstrap/proto.hh` | the `Factory` maps with their keys; the daemon thread | `cc_rc`, `cc_rc_msg`, `delete_remote_rc`, `fetch_qp_attr`, `fetch_remote_mr`, `fetch_dc_attr`, and the handlers behind them | a lost reply, one of several steps failing, a retried deletion, a name used again, a client that crashes, a daemon stopped while it works |
| Message encoding: `bootstrap/multi_msg.hh`, `multi_msg_iter.hh`, `utils/marshal.hh` | a byte buffer and a pointer to the header in it | `append`, `create_from`, `query_one`, `sanity_check` | 16-bit offsets, reallocation below the pointer |
| Doorbell batching: `qps/doorbell_helper.hh` | a chain of send requests, `cur_idx` | `next`, `freeze`, `freeze_at`, `freeze_done`, `freeze_done_at`, `clear` | the ends of the chain; a cut that is forgotten |
| Lifetimes: `nic.hh`, `rmem/`, `qps/impl.hh`, constructors and destructors of `qps/` | driver objects and the `Arc`s between their owners | `create`, dropping an `Arc` | constructors that fail half way, destructors of several threads in any order, objects the driver refuses to destroy |
| Benchmarks: `src/benchs/` | the windows of outstanding requests, the counters of the workers, `running` | the loops of the five clients; start, report, stop and join | windows counted from the outside; unsigned differences; waits without a timeout; two threads |
| UD and DC data paths, naming, utilities | none of their own | one verbs call each | input/output |

How they interact. A client thread owns a `ConnectManager`; each of its methods
is one or two RPCs over a `SendChannel`. At the server the daemon thread of
`RCtrl` runs `SRpcHandler::run_one_event_loop`, which receives a datagram, calls
the handler registered for its id, and replies. The handlers change
`registered_qps`, `registered_mrs` and the stores of `RecvManager`. Once
connected, a QP is used by one thread: it posts and polls, and for messages it
posts its receive ring and iterates over what arrived.

What makes each part correct:

- *Send path.* `progress.pending_reqs()` is what a caller compares with
  `max_send_sz()` before it posts, so it must never under-report; the `wr_id` of
  a completion must give back the caller's id and the right watermark; a
  signaled request must be polled eventually, failed or not.
- *Receive.* `post_recvs` must give the NIC exactly the buffers whose messages
  were released: never one that is being read, never fewer than were consumed.
- *RPC.* A call must take its own reply, accept a reply once, ignore heartbeats,
  and end.
- *Message encoding.* What `append` accepted must be read back whole and in
  order, and the raw header pointer must not outlive a reallocation.
- *Server life.* A channel must use its own socket, a request must be handled
  once, and the daemon must be gone before the `RCtrl` it works on.
- *Doorbells.* The NIC must read what was set up since the last `clear`, and
  nothing else, however often the array was used.
- *Benchmarks.* The window must fit the send queue, every wait must have
  something to wait for, and `main` must be able to join.
- *Lifetimes.* No driver object may be destroyed while another is built on it,
  destroyed twice or left behind, in whatever order the `Arc`s are dropped.
- *Connection management.* A connection reported Ok must exist at both ends
  until its owner deletes it; a failed creation must leave nothing behind; a
  deletion reported Ok must have happened.

The list of hazards, each at its source line with the properties that guard it,
is in `PROJECT.json`.

## 2. Modules

| Module | Models | Instance | Theorems |
|---|---|---|---|
| `RC` | the send side of one RC QP | `MCRC` | `RCProofs` |
| `RecvRing` | the receive ring, `post_recvs`, `RecvIter` | `MCRecvRing` | `RecvRingProofs` |
| `RemoteCall` | abstract: what a user of the RPC relies on | | |
| `SRpc` | clients, UDP, event loop; implements `RemoteCall` | `MCSRpc` | `SRpcProofs` |
| `Bootstrap` | `ConnectManager`, `RCtrl`, `RecvManager`, `Factory` | `MCBootstrap` | `BootstrapProofs` |
| `Verbs` | lifetimes of NICs, memory and QPs | `MCVerbs` | `VerbsProofs` |
| `MultiMsg` | the encoding of several messages in one | `MCMultiMsg` | `MultiMsgProofs` |
| `Server` | `RCtrl`'s daemon thread, the channels and the sockets of a process | `MCServer` | `ServerProofs` |
| `Doorbell` | `DoorbellHelper` and the NIC that follows its chain | `MCDoorbell` | `BatchProofs` |
| `Window` | the benchmark clients, `Op`, `execute_batch` | `MCWindow` | `BatchProofs` |

### RC

One QP, one thread. `Connect`, `SendNormal`, `Execute`, `PollRcComp` and
`WaitOneComp` are the methods of the same names; `forward`, `pending_reqs`,
`encode_my_wr`, `user_wr` and `water_mark` are the arithmetic of `Progress` and
of the packed `wr_id`, on `Marks` (2^16), `UserWrs` (2^48) and `USize` (2^64)
values. `Post` keeps the order of the code: the watermark and `out_signaled`
move first, `ibv_post_send` may then refuse. A timeout of a wait changes
nothing and is not an action. Two cases are left out: an id of 2^48 or more, whose
top bits the packing shifts out (`qps/rc.hh:185`), and an `ibv_poll_cq` that fails,
whose negative result `poll_rc_comp` takes for a completion (`qps/rc.hh:251`).

The NIC is external (`Accepted`, `NicExecute`, `NicFail`, `Completion`). A
completion is a mark on its request in `sq`; polling it frees its slot and the
slots before it, as verbs do for unsignaled requests. After an error every
request completes with one.

History variables: `sent` numbers the requests, `acked` is the number last
given to `done()`, `lastLost` the last number that the low watermark will not
pass by itself, `leaked` counts refused signaled posts.

### RecvRing

`header`, `rq`, `cut` and `depth` are per QP: the ring's header, the posted
entries, the entries whose `next` is null (a refused post leaves one), and
`max_recv_sz()`. `post_recvs` computes the tail, lets the NIC walk the chain
from `header` to the first null, and either restores the tail and moves `header`
or leaves both. `IterBegin`, `IterNext`, `IterClear` are `RecvIter`. Buffers hold
the number of the message in them, so that overwriting one shows. A QP is an RC,
whose peer waits for a receive request, or a UD, on which a message that finds
none is dropped (`NicDrop`), as in the overflow examples.

### SRpc and RemoteCall

`Call` and `ReceiveReply` are the client's two halves; `ReceiveReply` splits into
`HeartbeatReply` (the `dummy` flag and its `goto retry`) and `NormalReply` (the
checksum test). The server's loop is `ServerReceive` followed by one of
`ServerReply`, `ServerThrows`, `ServerCannotDecode`, each of which replies and
drops the current message. The two networks are sets of datagrams; `Lose`
removes one, `Taken` may leave a duplicate behind, and sets are unordered.
`LateIds` names the calls whose timeout may fire while they are in flight;
other calls time out only when nothing of them is left. A call that could not be
sent returns, or waits all the same, as `fetch_remote_mr` does (`SendFails`).
Payloads are abstracted to the number of the call they belong to. Every id has a handler: for another one
`call_one` would use the `end()` of its map (`bootstrap/srpc.hh:151`).

`RemoteCall` is the promise: a call is invoked, its handler may run, and it
returns once, with an answer only if its own handler ran. `SRpc` implements it
under the mapping `Abs` (`ImplementsRemoteCall`).

### Bootstrap

An RPC is `phase`: `sent`, handled atomically by the daemon thread (`Handle`,
one disjunct per handler and outcome), `replied` or `lost`, then returned. That
is the interface of `RemoteCall`, with one restriction: a request does not
outlive the timeout of its call. QP ids and keys are the creation count: the code
draws keys with `rand()`, and two that happen to be equal are not modelled
(`utils/abs_factory.hh:105`).
`registered_qps` and `reg_recv_entries` are the stores; `cqAlive` holds the
channels whose `ibv_cq` exists, which `~Dummy` (`DestroyQP`) may destroy.
`Faults` says what may fail. A failed `RDMA_ASSERT` aborts the server:
`msg_rc_handler` has two, over receive entries that are registered already, and over
a `post_recvs` of the whole ring that does not fit. The second depends on the
client, whose `QPConfig` sizes the receive queue; `short` says of a request, and of
the QP made for it, that its queue is shorter than the ring. The
missing `return` of `delete_remote_rc` is a nondeterministic result (`Timeout`).
`known` and `owned` record what `cc_rc` returned Ok for, before and after the
client asks to delete it. `store` has one entry of `registered_mrs` and one of
`registered_dcs`, which the main thread of the server registers and takes back
while the daemon runs; fetches read it and change nothing. A client may
`Crash`: it forgets its keys and its RCs, and the server keeps its QPs. `abandoned` records how the key of a registered QP got
lost, and `leftover` the names of deleted message QPs, so that the properties can
say exactly when a name is blocked and when the server aborts.

### Server

One process with several `RCtrl`s on one port and `SendChannel`s, as in the tests.
`fd` is its descriptor table: sockets are external and get the lowest free number.
`sock_fd` is what each channel believes. A `bind` that fails closes the socket and
keeps its number (`BindFails`); it may fail at any time, since another process may
have the port, or the user no right to it. The daemon thread of an `RCtrl` goes through
`While`, `start` and `handle`, its owner through `start_daemon`, `StopDaemon`,
`RCtrl_dtor` and `Join`; `pthread_create` may fail after `running` was set, and
`JoinGarbage` is the join that follows. `cur_msg` keeps what it held when an empty
datagram arrives. A reply that strays to a server is decoded as a heartbeat, since
its status byte is where the id of a request is.

### Doorbell

`link` is `wrs[i].next`, with `N` for the address past the array. The class has no
user in the repository; the model's user follows the example in its comment, cuts
and posts prefixes too, and may forget to mend a cut (`kept` is false from then
on). `cur_idx` is an `i8`, so an array has at most 128 entries (`SizeAssumption`):
the `static_assert` that should see to it looks at `kNMaxDoorbell` and not at `N`
(`qps/doorbell_helper.hh:46`). Each request has a number, so that an old one shows
when the NIC reads it.

### Window

`cfg` is the command line of one of the five clients; the workers' loops are the
code between two labels of `pc`, and `main` starts, stops and joins them. A
request is its flag and its status. `Op` is kept as the union it is: the key of an
RDMA request and the operand of an atomic share their bytes. `Stride`, `Leftover`
and `Peak` are what the arithmetic of `or_bench` and `db_bench` amounts to, and
`WindowBound` checks the loops against it. Addresses and payloads are left out,
and so is the connection, which is in `Bootstrap`: setting up succeeds or aborts,
and so does starting a thread (`StartFails`). `DC::post_send` does not count into
`out_signaled`, while polling takes from it; for `dc` the counter of the model stands
for those of all its QPs, and `CountersExact` leaves it out.

### Verbs

A name stands for one C++ object, and `<<f, h>>` for the driver object of its
member `f`. The tables `*_ctor` and `*_dtor` list the driver calls of each
constructor and destructor in their order, `Members` the `Arc`s an object keeps,
`create_returns` which `create()` drops an invalid object. `CtorStep`,
`CtorFails` and `DtorStep` are one driver call each, so objects of different
threads interleave; `Drop` is the application dropping an `Arc`, `Release` the
last one going. `BuiltOn` says what the create calls of `qps/impl.hh` pass to the
driver, and `Refused` (external) that the driver does not destroy what is in use;
`free` and `ibv_close_device` do not look. `has` also holds the states a QP has
reached: RC only logs when it cannot reach INIT, which is why `RC` may start in
RESET; UD and DC abort the process.

A channel (`Chans`) is a `recv_cq` that the application makes and registers with a
`RecvManager`, which hands the raw pointer to every RC that asks for it. Such an RC is
of class `RCM`: its constructor sets the member `recv_cq` to the channel's CQ
(`RC_recv_ctor`, `Target`), and `~Dummy` destroys that CQ, also while another RC of the
channel uses it, or again after it is gone. `lent` and `shared` (history) are the
channels lent to one RC, and to more than one. Nothing withdraws a channel, and its
CQ has no other owner.

`app` holds the `Arc`s of the application and of the stores of its `RCtrl`. A handler
of the daemon takes one more (`query`, in `reading`), reads the attribute of the
object and drops it (`Answer`), while the main thread may deregister and drop the
others in between. `DCTarget` is in the tables but in no run:
it keeps no `Arc` of its NIC and its destructor reads pointers that a failed
constructor has not set.

### MultiMsg

`buf` is the string, `header` what the raw pointer points at: the header in the
string until `append` reallocates it (`stale`), the freed copy afterwards. `cap`
follows the growth of `std::string` (external: at least doubled). A byte is the
number of the message it belongs to. The MultiMsg is filled by a user of the
default constructor, by one who announces the size to `create_exact`, by
`SRpc::call`, or by the reply of the server. An append that returns false changes
nothing. Only strings a MultiMsg has built are decoded.

## 3. Runs

| Run | Expect | Shows |
|---|---|---|
| `RC_any` | pass | the accounting of the send path and its liveness, with refusals, failures and both polls |
| `RecvRing_any` | pass | ring order, no double post, intact buffers and chain, drops only of a receiver that is behind, order, liveness |
| `SRpc_lossy` | pass | own reply, refinement of `RemoteCall`, timeouts only after a loss, every call returns |
| `SRpc_any` | pass | replies accepted once, heartbeats harmless, a wrong reply only after a call that was given up, on any network |
| `SRpc_stale` | violation of `ReplyAnswersCall` | a late reply taken by the next call |
| `Bootstrap_any` | pass | owned connections stay paired under every fault; keys are lost, entries missing and the server aborted only in the known ways; every call ends |
| `Verbs_any` | pass | destructions accepted and nothing dangling, but for the CQ of a channel lent to more than one RC; nothing leaks, what is held is usable, what a handler reads exists, all is freed |
| `Verbs_dc` | violation of `DestroysAccepted` | a DC destroys its QP and CQ twice |
| `MultiMsg_any` | pass | accepted messages read back and iterated over, header pointer valid, replies whole, aborts of `call` exactly in the gap |
| `Server_any` | pass | own sockets, none leaked, requests handled once, no daemon on a dead object, `stop_daemon` returns |
| `Doorbell_any` | pass | what is posted is the batch, or a beginning of it after a forgotten cut; mending restores the chain; `sanity_check_sz` is right |
| `Window_any` | pass | windows within their bound, refusals only where the bound exceeds the queue, no wait for nothing, exact counters, whole requests, workers stop |

Related invariants are checked together, under the name of their conjunction. The
parts keep their names and comments in the modules, and the text below uses them:

| Checked as | Parts |
|---|---|
| `RequestsAccountedFor` (`RC`) | `WrIdRoundTrip`, `OutSignaledAccounts`, `OnlyConnectedSends` |
| `RingInv` (`RecvRing`) | `TypeOK`, `RingOrder`, `NoDoublePost`, `BuffersIntact`, `ChainIntact` |
| `CallsAreSound` (`SRpc`) | `TypeOK`, `ReplyAnswersCall`, `NoSpuriousTimeout` |
| `ServerInv` (`Bootstrap`) | `TypeOK`, `MsgQpHasEntries`, `AbortsExplained` |
| `ObjectsIntact` (`Verbs`) | `TypeOK`, `NothingDangles`, `NothingLeaks`, `HeldIsUsable` |
| `EncodingInv` (`MultiMsg`) | `TypeOK`, `RoundTrip`, `HeaderPointerIsValid`, `IterationIsSafe` |
| `SocketInv`, `DaemonInv` (`Server`) | `TypeOK`, `OwnSocket`, `NoSocketLeak`; `NoDaemonOnDead`, `RunningMeansServing`, `JoinsOwnThread` |
| `ChainInv` (`Doorbell`) | `HelperTypeOK`, `Mended`, `SanityAgrees` |
| `WindowInv`, `CountersExact` (`Window`) | `TypeOK`, `WindowBound`, `RefusedOnlyIfTooWide`, `LeavesLittle`; `FlyingExact`, `SignalsCounted` |

### Bounds

The bounds matter for the liveness properties; the other properties of the passing
runs hold for all values by proof (section 4).

- `RC_any`: four watermarks, a queue of three slots (the largest that
  `SendDepth < Marks` allows), five requests: the high watermark wraps, and the
  unacknowledged numbers can exceed the range of a mark, the case that
  `PendingNeverUnder` excludes by its hypothesis.
- `RecvRing_any`: four entries, receive queues of three and four slots, ten
  messages: the ring goes round twice and wraps inside and at the end of a post.
- `SRpc_lossy`, `SRpc_any`: one client with three calls, enough for a heartbeat,
  a call and a call that could take the reply of either; clients share nothing
  but the order in which the server serves them, which is arbitrary. The
  stranger of `SRpc_any` stands for other senders.
- `Bootstrap_any`: two clients, one name, two creations, every fault: one client
  creates and deletes or loses a key, the other creates, and the first deletes
  again. One RC for each client, used again after its first connection. The second
client only competes, with a message QP, and so only creates and deletes.
- `Server_any`: two servers and one client, three descriptors, so that a closed
  number is handed out again, two starts, two requests and one empty datagram.
- `Doorbell_any`: four entries and nine requests: two full batches and the
  beginning of a third.
- `Window_any`: a send queue of 6, so that `or_max` is 3; windows of 1, 4 and 6
  for `or_bench`, 4 and 8 in batches of 2 for `db_bench`, the second of which is
  too wide, 2 and 7 for `fly_bench`, the second of which is; two DC QPs; each type
  of request; two workers, two rounds (the rest a round leaves is seen in the
  next; the state after a second round is that after the first).
- `Verbs_any`: one NIC, one piece of memory, one channel and two objects of any
  class on them, created again and again: two are enough for one to be built on what
  the other has released, and for two RCs to share the channel.
- `MultiMsg_any`: 4 bits for the 16 of an offset, 15 bytes for `kMaxMsgSz`, the
  largest the width allows, three entries, and every message size from empty to
  one that never fits. The headers keep the relations of the real sizes: an id is
  smaller than an `SRpcHeader`, which is no larger than a `MsgsHeader`.

Deadlock is checked in every run in which a thread may always make another call;
`RC`, `RecvRing`, `Bootstrap`, `SRpc` and `Verbs` each have such a step (`Connect`,
`IterBegin`, a query, `AllDone`, `Create`), and `Window` has `Ended` for a process
that is over. `MultiMsg_any`, `Server_any` and `Doorbell_any` do not check it: a
client that has aborted stops, and the users of a server or a helper may stop.

### Fairness

- `RC`: weak fairness of the NIC (it drains a send queue) and of `PollRcComp` (a
  thread in `wait_rc_comp` without a timeout polls in a loop).
- `RecvRing`: the peer sends on, the receiving thread posts, iterates and clears
  in a loop.
- `SRpc`: the event loop runs for ever and `receive_reply` has a timeout. A
  socket is a queue, so a request that stays in it is served however many others
  arrive: strong fairness of receiving it.
- `Bootstrap`: the daemon thread handles requests while the server is up, and
  `receive_reply` returns.
- `Server`: the daemon thread runs, and `pthread_join` returns when its thread has
  ended. Nobody is made to send, start or stop.
- `Window`: the threads run, `report_thpt` ends, and the NIC executes.
- `Verbs`: a constructor or destructor that has started is run to its end by its
  thread, and a handler of the daemon returns. Nothing makes the application create
  or drop.

## 4. Proofs

Every invariant and action property that the passing runs check is a theorem of its
`Spec`, for all values of the constants that satisfy the named assumptions. Each
`*Proofs` module has the same shape: an inductive invariant, one lemma per action that
keeps it, the theorem that it always holds, and one theorem per property. `BatchProofs`
is about two modules that share no state, `Doorbell` and `Window`; what both have is
called `Helper...` in the first (`HelperSpec`, `HelperInit`, `HelperNext`).

| Property | Theorem | Under |
|---|---|---|
| `RC`: `TypeOK`, `PendingNeverUnder`, `PendingExact`, `AckedInOrder`, `RequestsAccountedFor` | `TypeCorrect`, `PendingSafe`, `PendingIsExact`, `AcksInOrder`, `BooksCorrect` | |
| `RecvRing`: `RingInv`, `DropsOnlyWhenBehind`, `ReadInOrder` | `RingCorrect`, `DropsCorrect`, `ReadsCorrect` | `OneQP` |
| `SRpc`: `AcceptedOnce`, `StaleOnlyAfterGivingUp`, `HeartbeatsAreIgnored` | `AcceptedOnceCorrect`, `StaleCorrect`, `HeartbeatsCorrect` | |
| `SRpc`: `CallsAreSound`, `ImplementsRemoteCall` | `CallsAreSoundCorrect`, `RefinementCorrect` | `Quiet` |
| `Bootstrap`: `OwnedIsPaired`, `NoOrphan`, `DeleteOkMeansGone`, `ServerInv` | `OwnedIsPairedCorrect`, `NoOrphanCorrect`, `DeleteCorrect`, `ServerCorrect` | |
| `Server`: `SocketInv`, `DaemonInv`, `HandledOnce` | `SocketCorrect`, `DaemonCorrect`, `HandledCorrect` | |
| `Doorbell`: `PostedIsWhole`, `PostedIsPrefix`, `ChainInv` | `WholeCorrect`, `PrefixCorrect`, `ChainCorrect` | |
| `Window`: `WindowInv`, `WaitHasSignal`, `CountersExact`, `OpIsWhole` | `WindowCorrect`, `WaitCorrect`, `CountersCorrect`, `OpCorrect` | |
| `MultiMsg`: `EncodingInv`, `RepliesAreWhole`, `CallAbortsOnlyInGap` | `EncodingCorrect`, `RepliesCorrect`, `GapCorrect` | |
| `Verbs`: `ObjectsIntact`, `RefusedOnlyIfShared` | `IntactCorrect`, `DestroysCorrect` | `Counted`; `NothingDangles` and `NothingLeaks` also under `NoTargets` |
| `Verbs`: `ReadIsLive` | `ReadCorrect` | `NoTargets` |

### Hypotheses

They are the cases in which the code is right, and each has its reason in the code:

- `OneQP`: a `recv_cq` has one QP. `RecvIter` posts every request at the QP it was
  given, also those of another QP on the same queue (`qps/recv_iter.hh:74`).
- `Quiet`: only heartbeats are duplicated, or still in flight when their caller gives
  up. `receive_reply` leaves the checksum of a call that timed out in force, so without
  it a late reply answers the next call; `SRpc_stale` shows that. Loss, reordering
  and strangers are allowed.
- `NoTargets`: no `DCTarget`, which keeps no `Arc` of its NIC (`qps/dc.hh:30`).
- `Counted`: nor a `DC`, which destroys its QP twice (`qps/dc.hh:256`, `Verbs_dc`) and
  whose `create()` hands out invalid objects.

The assumptions on constants are those of the modules. Those that say more than that
a bound is a number:

- `DepthAssumption` (`RC`): `SendDepth < Marks`, as with `kRcMaxSendSz` = 128 and
  16-bit marks;
- `SizeAssumption` (`MultiMsg`): a `MsgsHeader` (33 bytes) is no smaller than an
  `SRpcHeader` (9 bytes), each fits behind it in a message, and there are at least two
  entries (the code has eight). The first is why the stale pointer of `SRpc::call` is
  never written through: a string that has just a header at least doubles when it
  grows, so the `SRpcHeader` never makes it grow;
- `SizeAssumption` (`Doorbell`): at most 128 entries, the range of `cur_idx`;
- `U16Assumption` (`MultiMsg`): a message fits a 16-bit offset;
- `BoundAssumption`, `ConfigAssumption` (`Window`): a send queue has at least two slots
  (`kRcMaxSendSz` is 128), without which `or_max` would be zero and a divisor; the
  factors of a command line are positive, an `int64` is below the 2^64 of the counters,
  `or_bench` and `fly_bench` only read, and `db_bench` asserts that its batch is smaller
  than its window and divides it. That the factor is positive is a real restriction for
  `or_bench`, which has no assertion on it: with an `or_factor` of 0 a round posts
  nothing and its `wait_one_comp` hangs (`src/benchs/or_bench/client.cc:124`);
- `ClientsAssumption` (`Bootstrap`): clients are finitely many, because the bound on
  creations counts those in flight;
- `ObjectAssumption` (`Server`), `StrangerAssumption` (`SRpc`), `NamesAssumption`
  (`Verbs`): names of different kinds of objects differ.

### The inductive invariants

None of the properties is inductive as it stands, because each speaks of what has
happened and a step depends on what is under way.

- `RC` (`IndInv`, `Books`). After a poll, the low watermark is what the polled `wr_id`
  carried, so the invariant speaks of every request in the queue: the i-th has a
  number that leaves room for its neighbours between `acked` and `sent` (`Room`), its
  mark is as far from the high watermark as its number is from `sent` (`Near`), no
  number is missing after it unless one was lost later (`Whole`), and numbers grow
  along the queue (`Ordered`). `AckedOK` says so of `acked` and the low watermark.
  `Books` adds what `wr_id` packs, that the NIC executes in order (`Executed`), and the
  count of signaled requests behind `out_signaled`, modulo its width. The arithmetic
  is in `PendingForward`, `Unpack` and `EncodedMark`.
- `RecvRing` (`IndInv`). `post_recvs` reposts by count and never looks at what it
  reposts; what makes that right is the order of the ring. Along the held, the
  completed and the posted entries, oldest first, the distance from the header grows
  by at least one (`Order`), so the n entries posted next are behind all that are
  outstanding, also where the ring wraps. `CutOK` says where a refused post left the
  chain cut, `Messages` which message is in which buffer.
- `SRpc` (`FlightInv`, `BooksInv`). A datagram is a tag: caller, call, id, checksum. All
  datagrams of a call carry one tag (`OneTag`); a tag that was accepted has a checksum
  below the client's (`Spent`); one of a user's call is open, given up, or past (`Late`);
  and a client's checksum counts what it has accepted (`Counted`). Under `Quiet`, in
  addition, a user's call is in at most one place (`OnePlace`), it is the open one
  (`UserOpen`), and it is gone only if it was lost (`LostOrInFlight`). With these each step
  of `SRpc` is a step of `RemoteCall` or a stutter (`NextRefines`).
- `Bootstrap` (`QPInv`, `StoreInv`). Keys are unique among what is registered (`KeysOK`);
  a reply in flight names a QP that is registered for its client and whose key nobody
  else has (`RepliesOK`); a key is known once (`KnownOK`); a deletion in flight is of a
  connection that its client has given up using (`RequestsOK`); receive entries belong
  to a message QP or are left over (`EntriesOK`). `HandleCases` reduces the seven
  handlers to five kinds of effect.
- `Server` (`BaseInv`, `CountInv`). An open socket is known to exactly the live object that
  owns it (`SocketsKnown`), and the states of thread, owner and `running` agree
  (`ThreadsOK`). `HandledOnce` is a counting argument: the times a request was handled,
  the datagrams that may still expose it and the servers that have it in hand are
  together no more than once, and once for each empty datagram (`Accounted`).
- `Doorbell` (`HelperInd`). Where the NIC's walk leads follows from the first entry that is
  cut (`FirstCut`) and from where the links lead otherwise (`Chained`).
- `Window` (`IndInv`). A post is allowed by where the loop is, not by what is
  outstanding, so the invariant ties the two together for every program point
  (`Disciplined`). `bench_client` and `dc_bench` have one request, the one they wait for
  (`OneAtATime`). In `or_bench` and `db_bench` the posts since the last base, a multiple
  of `Stride`, are `or_idx` many, and the queue is one signaled request at a place p and
  what was posted after it (`Within`), or two that are `Stride` apart while the code waits
  for the first (`Waiting`); p is `Stride`, except in the first stride of a round, where
  it follows the rest of the round before, at most `Leftover` unsignaled requests
  (`Between`). In `fly_bench` the difference of its two counters is what is outstanding,
  and more only after a failure (`Flies`). `QueuesOK` says that the NIC executes in order
  and that a QP in error has nothing left to execute: without it a poll could take the
  completion of a later signaled request and free the first with it. `OpReady` says which bytes of the
  union hold the key before the address is set. `Fits` is the bound itself. The
  arithmetic that is not linear is in lemmas about remainders and multiples (`Remainder`,
  `Multiples`, `NextMultiple`); `PeakIs`, `RoundFits` and `WaitingFits` show from it that
  `Peak` bounds every round for every pair of factors, and `OneMoves` that a step of one
  worker leaves the others alone. A failed wait ends the discipline and the process with
  it, so `Disciplined` is stated until then.
- `MultiMsg` (`IndInv`). The entries of the header tile the string (`Coded`), and what each
  of the users has still to append fits, or is what aborts (`ByUser`, `ByReply`, `ByCall`).
- `Verbs` (`BaseInv`). The driver objects that exist are exactly those that the objects'
  constructors have made and their destructors have not destroyed (`LiveOK`), and whoever
  uses an object holds an `Arc` of it (`ArcsOK`). A channel holds no `Arc`, so what
  is known of its CQ is less (`ChanInv`): it exists until it is lent, and while it is
  lent to one RC only, that RC has it and nobody else; after that `shared` excuses it.

`Walk` of `Doorbell` and `InCompletion` of `RecvRing` are recursive functions. Their values
are proved without induction over a predicate: the function is written down outright,
and two solutions of its equation differ nowhere, because there is no least number at
which they would (`LeastNumber`).

### Only model-checked

- All liveness properties (`SignaledGetsPolled`, `AllReleased`, `CallsReturn`, `CallsEnd`,
  `StopReturns`, `AllFreed`, `Stops`): the prover has no rules for fairness.
- What lies outside the hypotheses above, as `SRpc_stale` and `Verbs_dc` show it.

## 5. Disagreements met while modelling

Each has a run that shows it, and a finding in `PROJECT.json`:

- a call that timed out leaves its checksum in force (`bootstrap/srpc.hh:115`);
- `~DC` destroys what `~Dummy` destroys again (`qps/dc.hh:256`).

The following are in the models as the code has them, and the passing runs state
exactly when they happen:

- `SRpc::call` reserves an id and appends a header, so a parameter that is up to
  8 bytes too large aborts instead of returning "Msg too large!"
  (`bootstrap/srpc.hh:58`, `CallAbortsOnlyInGap`);
- `msg_rc_handler` asserts when a name is used again, because nothing removes the
  receive entries of a deleted QP (`qps/rc_recv_manager.hh:103`), and when the
  receive queue a client asked for is shorter than the ring of the server
  (`qps/rc_recv_manager.hh:107`): a client can end the server either way
  (`AbortsExplained`);
- `~Dummy` destroys a `recv_cq` it does not own (`qps/mod.hh:81`): the second RC of a
  channel uses a CQ that goes with the first, and destroys it again
  (`RefusedOnlyIfShared`);
- the key of a remote QP is lost with a reply, a failed local connect, a throwing
  handler, a deletion that timed out or a crash, and its name is then blocked
  (`lib.hh:165`, `NoOrphan`);
- `delete_remote_rc` has no return statement after a timeout (`lib.hh:120`,
  `DeleteOkMeansGone`);
- `RecvChannel::create` hands out, when its `bind` failed, a channel with the number
  of a closed socket (`bootstrap/channel.hh:243`, `OwnSocket`);
  `src/tests/test_channel.cc` has the assertion against it commented out;
- an empty datagram makes the server handle the request before it once more
  (`bootstrap/channel.hh:76`, `HandledOnce`), and `raw_send` reports an error for
  an empty message that it has sent;
- `start_daemon` leaves `running` set when `pthread_create` fails, and
  `stop_daemon` then joins a thread that does not exist (`rctrl.hh:74`,
  `JoinsOwnThread`);
- `db_bench` overflows its send queue of 128 with an `or_factor` of 70 and of 130
  and above (`Peak` of its sizes; `src/benchs/db_bench/client.cc:126`,
  `RefusedOnlyIfTooWide`), and its signaled batches are not counted, so
  `out_signaled` runs below zero (`SignalsCounted` leaves it out);
- `fly_bench` drains for ever after a failed completion
  (`src/benchs/fly_bench/client.cc:121`, `Stops`), and the `worker_fn` of
  `dc_bench` has no return statement (`EndsWithoutReturn`);
- `DoorbellHelper::next` does not look whether the helper is frozen, and a cut that
  is left shortens later batches (`qps/doorbell_helper.hh:70`, `PostedIsPrefix`).

Met too, without a run: `RecvIter::clear` reposts by count on a shared `recv_cq`,
so `RecvRing_any` has one QP for each queue (`qps/recv_iter.hh:74`);
`msg_rc_handler` registers a QP before it knows that the channel exists
(`qps/rc_recv_manager.hh:101`); an attribute that a client has fetched may be stale
when it arrives, since nothing tells the client that the memory was taken back
(`ReadIsLive` ends with the reply); `fetch_remote_mr` does not look at the
result of `call()` (`lib.hh:281`); the example in the comment of `DoorbellHelper`
assigns a whole `cur_wr()` and with it the `next` it needs; `MultiMsg::alloc` is never set, so the
string of every MultiMsg is leaked (`bootstrap/multi_msg.hh:99`);
`out_signaled` is not taken back when a post is refused,
which `OutSignaledAccounts` states as it is; `post_recvs` leaves the chain cut when it is
refused, which `ChainIntact` excludes by its hypothesis; `RC::connect` on a
connected QP returns Ok for any attribute, so `OwnedIsPaired` asks only a fresh RC
to be connected to the new QP; a request with `whether_create = 0` is refused although `proto.hh:66`
describes it as a query.

## 6. Not modelled

- The send side of UD QPs, address handles, naming, configuration: single verbs
  calls and input, with no state of their own.
- The addresses and payloads of a request: no property depends on them.
- Logging, timers, `Result`, `Option`: value types.
- Registration of handlers while the daemon runs, `begin()` on an iterator that was
  not cleared, and a second `start_daemon` before the first is stopped: no program
  in the repository does it.
- Keys that `rand()` repeats, ids of 2^48 and more, an `ibv_poll_cq` that fails, and
  RPC ids without a handler (section 2).
- Requests that outlive the timeout of their call, in `Bootstrap`: `SRpc` has them,
  and shows that they break the promise `Bootstrap` relies on.
- Datagrams that no `MultiMsg` has produced, other than empty ones and ones that
  cannot be decoded.
- `DCTarget` and two QPs on one `recv_cq` can be configured, and are in no run:
  the properties do not hold of them.
- The servers of the benchmarks and the pingpong and write examples, which call
  the library in a straight line.

## 7. Plan

The safety properties are proved; what is left are the cases outside `OneQP` and `Quiet`:
which weaker promise holds of two QPs on one `recv_cq`, and of calls after one that timed
out. `Bootstrap` could then rely on the second instead of on `RemoteCall`. The liveness
properties stay with TLC.
