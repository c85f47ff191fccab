------------------------------- MODULE Window -------------------------------
(***************************************************************************)
(* The benchmark clients (src/benchs): a main thread that starts workers,  *)
(* reports, stops and joins them, and workers that keep a window of        *)
(* requests outstanding on their QPs.  "one" is bench_client.cc, and "or", *)
(* "db", "fly" and "dc" are the clients of or_bench, db_bench, fly_bench   *)
(* and dc_bench.  Each waits for a part of its requests only, and relies   *)
(* on arithmetic alone to stay within the send queue.                      *)
(*                                                                         *)
(* The NIC is external: it executes the requests of a queue in order, or   *)
(* fails and flushes what is left.  A slot of the send queue is free again *)
(* when the completion of its request, or of a later one, is polled.       *)
(***************************************************************************)
EXTENDS Integers, Sequences, FiniteSets

CONSTANTS
    Workers,    \* the threads of the client
    Configs,    \* the command lines: [program, factor, batch, qps, type]
    Depth,      \* QPConfig::max_send_sz()
    TryRounds,  \* try_rounds of fly_bench
    Usize,      \* the number of values of out_signaled
    U64,        \* the number of values of the counters of fly_bench
    MaxRounds   \* bound: rounds of a worker before main stops it

Programs == {"one", "or", "db", "fly", "dc"}
Types == {"READ", "WRITE", "CAS", "FAA"}

ASSUME BoundAssumption ==
    /\ {Depth, TryRounds, Usize, U64, MaxRounds} \subseteq Nat \ {0}
    /\ Depth >= 2    \* kRcMaxSendSz is 128
\* or_bench has no assertion on or_factor: with 0 its first round posts
\* nothing and waits for ever, which the positive factors leave out.
ASSUME ConfigAssumption ==
    \A c \in Configs :
        /\ c.program \in Programs /\ c.type \in Types
        /\ {c.factor, c.batch, c.qps} \subseteq Nat \ {0}
        /\ c.batch > 1 => c.program = "db"
        /\ c.qps > 1 => c.program = "dc"
        /\ c.factor < U64                                   \* an int64
        /\ c.program \in {"or", "fly"} => c.type = "READ"   \* set_read()
        \* the assertion of db_bench
        /\ c.program = "db" => c.batch < c.factor /\ c.factor % c.batch = 0

VARIABLES
    cfg,          \* the command line
    main,         \* where the main thread is
    running,      \* the flag main clears
    proc,         \* "up", or why an RDMA_ASSERT aborted the process
    pc, i, or_idx, dc_idx, rounds, \* the loops of each worker
    op,           \* the Op of each worker, as the NIC reads it
    sq,           \* the send queues of each worker
    err,          \* the QPs that have failed
    out_signaled, \* Dummy::out_signaled of the first QP of each worker
    counter,      \* Statics::data.counter of each worker
    recv_cnt, flying_cnt  \* of fly_bench

mainVars == <<cfg, main, running>>
loopVars == <<pc, i, or_idx, dc_idx, rounds>>
qpVars == <<sq, err, out_signaled>>
cntVars == <<counter, recv_cnt, flying_cnt>>
vars == <<mainVars, proc, loopVars, op, qpVars, cntVars>>

or_max == Depth \div 2

-----------------------------------------------------------------------------
(* Op and BenchOp: the fields of a work request.  The union wr.rdma /      *)
(* wr.atomic is kept as the memory it is: rdma.rkey shares its bytes with  *)
(* atomic.compare_add ("word1"), and atomic.rkey has its own ("key").      *)

NewOp == [opcode |-> "READ", addr |-> "null", word1 |-> "null", key |-> "null"]

set_rdma_rbuf(o) == [o EXCEPT !.addr = "remote", !.word1 = "rkey"]
set_atomic_rbuf(o) == [o EXCEPT !.addr = "remote", !.key = "rkey"]
set_cas(o) == [o EXCEPT !.word1 = "operand", !.opcode = "CAS"]
set_fetch_add(o) == [o EXCEPT !.word1 = "operand", !.opcode = "FAA"]

set_type(o, type) ==
    CASE type \in {"READ", "WRITE"} -> [o EXCEPT !.opcode = type]
      [] type = "CAS" -> set_cas(o)
      [] type = "FAA" -> set_fetch_add(o)

init_rbuf_Rdma(o, type) == set_rdma_rbuf(o)
init_rbuf(o, type) ==
    IF type \in {"READ", "WRITE"} THEN set_rdma_rbuf(o) ELSE set_atomic_rbuf(o)

(* A new address, and new operands for the atomics.                        *)
refresh(o, type) == [set_type(o, type) EXCEPT !.addr = "remote"]

(* or_bench and fly_bench set the address of their READ anew each time.    *)
NextOp(o) ==
    CASE cfg.program \in {"one", "db"} -> refresh(o, cfg.type)
      [] cfg.program \in {"or", "fly"} -> set_rdma_rbuf(o)
      [] cfg.program = "dc" -> o

-----------------------------------------------------------------------------
(* The send queue of a worker's current QP.                                *)

Request == [signaled : BOOLEAN, status : {"posted", "done", "failed"}]

Queue(w) == sq[w][dc_idx[w]]

(* The requests ibv_post_send is given: Op::execute posts one, and in      *)
(* execute_batch the last of the chain carries the flag.                   *)
Chain(w, signaled) ==
    [k \in 1 .. cfg.batch |->
        [signaled |-> signaled /\ k = cfg.batch,
         status   |-> IF <<w, dc_idx[w]>> \in err THEN "failed" ELSE "posted"]]

(* execute_batch looks at the first request only; DC::post_send does not   *)
(* count.  Polling counts down for every QP.  For dc the one counter here  *)
(* stands for those of all its QPs.                                        *)
CountSignaled(w, signaled) ==
    IF cfg.program # "dc" /\ Chain(w, signaled)[1].signaled
    THEN (out_signaled[w] + 1) % Usize ELSE out_signaled[w]

Full(w) == Len(Queue(w)) + cfg.batch > Depth

execute(w, signaled) ==
    /\ ~Full(w)
    /\ op' = [op EXCEPT ![w] = NextOp(@)]
    /\ sq' = [sq EXCEPT ![w][dc_idx[w]] = @ \o Chain(w, signaled)]
    /\ out_signaled' = [out_signaled EXCEPT ![w] = CountSignaled(w, signaled)]
    /\ UNCHANGED err

(* The requests with a completion in the CQ.                               *)
Completed(w) ==
    {k \in DOMAIN Queue(w) :
        \/ Queue(w)[k].status = "failed"
        \/ Queue(w)[k].signaled /\ Queue(w)[k].status = "done"}

(* wait_one_comp polls the oldest completion, and with it everything posted*)
(* before that request.                                                    *)
wait_one_comp(w, status) ==
    \E k \in Completed(w) :
        /\ \A l \in Completed(w) : k <= l
        /\ Queue(w)[k].status = status
        /\ sq' = [sq EXCEPT ![w][dc_idx[w]] = SubSeq(@, k + 1, Len(@))]
        /\ out_signaled' = [out_signaled EXCEPT ![w] = (@ - 1) % Usize]
        /\ UNCHANGED <<op, err>>

NicExecute(w) ==
    /\ \E d \in 0 .. cfg.qps - 1, k \in 1 .. Depth :
          /\ k \in DOMAIN sq[w][d]
          /\ sq[w][d][k].status = "posted"
          /\ \A l \in 1 .. k - 1 : sq[w][d][l].status # "posted"
          /\ sq' = [sq EXCEPT ![w][d][k].status = "done"]
    /\ UNCHANGED <<mainVars, proc, loopVars, op, err, out_signaled, cntVars>>

(* A request fails: the QP goes to its error state and flushes the rest.   *)
NicFail(w) ==
    /\ \E d \in 0 .. cfg.qps - 1 :
          /\ <<w, d>> \notin err
          /\ \E k \in DOMAIN sq[w][d] : sq[w][d][k].status = "posted"
          /\ err' = err \cup {<<w, d>>}
          /\ sq' = [sq EXCEPT ![w][d] =
                       [k \in DOMAIN @ |-> IF @[k].status = "posted"
                                           THEN [@[k] EXCEPT !.status = "failed"] ELSE @[k]]]
    /\ UNCHANGED <<mainVars, proc, loopVars, op, out_signaled, cntVars>>

-----------------------------------------------------------------------------
(* The workers.                                                            *)

Init ==
    /\ cfg \in Configs
    /\ main = "start" /\ running = TRUE /\ proc = "up"
    /\ pc = [w \in Workers |-> "unborn"]
    /\ i = [w \in Workers |-> 0]
    /\ or_idx = [w \in Workers |-> 0]
    /\ dc_idx = [w \in Workers |-> 0]
    /\ rounds = [w \in Workers |-> 0]
    /\ op = [w \in Workers |-> NewOp]
    /\ sq = [w \in Workers |-> [d \in 0 .. cfg.qps - 1 |-> <<>>]]
    /\ err = {}
    /\ out_signaled = [w \in Workers |-> 0]
    /\ counter = [w \in Workers |-> 0]
    /\ recv_cnt = [w \in Workers |-> 0]
    /\ flying_cnt = [w \in Workers |-> 0]

At(w, label) == proc = "up" /\ pc[w] = label
Goto(w, label) == pc' = [pc EXCEPT ![w] = label]

Abort(why) ==
    /\ proc' = why
    /\ UNCHANGED <<mainVars, loopVars, op, qpVars, cntVars>>

(* The first half of worker_fn: the NIC is opened, the QP created and      *)
(* connected, the remote memory fetched and the Op set up.  Whatever fails *)
(* is asserted.                                                            *)
Setup(w) ==
    /\ At(w, "setup")
    /\ op' = [op EXCEPT ![w] =
                 IF cfg.program \in {"one", "db"}
                 THEN init_rbuf(set_type(@, cfg.type), cfg.type) ELSE @]
    /\ Goto(w, "head")
    /\ UNCHANGED <<mainVars, proc, i, or_idx, dc_idx, rounds, qpVars, cntVars>>

SetupFails(w) == At(w, "setup") /\ Abort("setup")

(* while (running)                                                         *)
WhileRunning(w) ==
    /\ At(w, "head")
    /\ \/ /\ running
          /\ rounds[w] < MaxRounds
          /\ rounds' = [rounds EXCEPT ![w] = @ + 1]
          /\ i' = [i EXCEPT ![w] = 0]
          /\ or_idx' = [or_idx EXCEPT ![w] = 0]
          /\ dc_idx' = [dc_idx EXCEPT ![w] = (@ + 1) % cfg.qps]
          /\ Goto(w, "post")
       \/ /\ ~running
          /\ Goto(w, IF cfg.program = "fly" THEN "drain" ELSE "end")
          /\ UNCHANGED <<rounds, i, or_idx, dc_idx>>
    /\ UNCHANGED <<mainVars, proc, op, qpVars, cntVars>>

(* RDMA_ASSERT of the result of a post and of a poll.                      *)
PostRefused(w) ==
    /\ At(w, "post")
    /\ cfg.program = "fly" => i[w] < (cfg.factor - flying_cnt[w]) % U64
    /\ Full(w)
    /\ Abort("refused")

WaitFails(w) ==
    /\ proc = "up"
    /\ pc[w] \in {"wait", "final"}
    /\ wait_one_comp(w, "failed")
    /\ proc' = "failed"
    /\ UNCHANGED <<mainVars, loopVars, cntVars>>

(* bench_client and dc_bench: one signaled request, and its completion.    *)
PostOne(w) ==
    /\ At(w, "post")
    /\ cfg.program \in {"one", "dc"}
    /\ execute(w, TRUE)
    /\ Goto(w, "final")
    /\ UNCHANGED <<mainVars, proc, i, or_idx, dc_idx, rounds, cntVars>>

(* or_bench and db_bench: one request in or_max is signaled, and so is the *)
(* first of a round.                                                       *)
Signaled_OneLate(w) == or_idx[w] = 0 \/ or_idx[w] > or_max
Signaled_NotFirst(w) == or_idx[w] >= or_max
Signaled(w) == or_idx[w] = 0 \/ or_idx[w] >= or_max

Advance(w, idx) ==
    /\ i' = [i EXCEPT ![w] = @ + cfg.batch]
    /\ or_idx' = [or_idx EXCEPT ![w] = idx + cfg.batch]
    /\ Goto(w, IF i[w] + cfg.batch < cfg.factor THEN "post" ELSE "final")

PostWindow(w) ==
    LET idx == IF Signaled(w) THEN 0 ELSE or_idx[w]
    IN  /\ At(w, "post")
        /\ cfg.program \in {"or", "db"}
        /\ execute(w, Signaled(w))
        /\ \/ /\ Signaled(w) /\ i[w] # 0
              /\ Goto(w, "wait")
              /\ or_idx' = [or_idx EXCEPT ![w] = idx]
              /\ UNCHANGED i
           \/ /\ ~(Signaled(w) /\ i[w] # 0)
              /\ Advance(w, idx)
        /\ UNCHANGED <<mainVars, proc, dc_idx, rounds, cntVars>>

WaitWindow(w) ==
    /\ At(w, "wait")
    /\ wait_one_comp(w, "done")
    /\ Advance(w, or_idx[w])
    /\ UNCHANGED <<mainVars, proc, dc_idx, rounds, cntVars>>

(* The wait at the end of a round.                                         *)
EndRound(w) ==
    /\ At(w, "final")
    /\ wait_one_comp(w, "done")
    /\ counter' = [counter EXCEPT ![w] = @ + cfg.factor]
    /\ Goto(w, "head")
    /\ UNCHANGED <<mainVars, proc, i, or_idx, dc_idx, rounds, recv_cnt, flying_cnt>>

(* fly_bench: fill the window up to para_factor, in unsigned arithmetic.   *)
PostFly(w) ==
    /\ At(w, "post")
    /\ cfg.program = "fly"
    /\ \/ /\ i[w] < (cfg.factor - flying_cnt[w]) % U64
          /\ execute(w, TRUE)
          /\ counter' = [counter EXCEPT ![w] = @ + 1]
          /\ i' = [i EXCEPT ![w] = @ + 1]
          /\ UNCHANGED pc
       \/ /\ i[w] >= (cfg.factor - flying_cnt[w]) % U64
          /\ Goto(w, "try")
          /\ i' = [i EXCEPT ![w] = 0]
          /\ UNCHANGED <<op, qpVars, counter>>
    /\ UNCHANGED <<mainVars, proc, or_idx, dc_idx, rounds, recv_cnt, flying_cnt>>

(* wait_one_comp(0): a completion that is there, or none.  One that failed *)
(* is not counted.                                                         *)
TryOne(w) ==
    \/ /\ wait_one_comp(w, "done")
       /\ recv_cnt' = [recv_cnt EXCEPT ![w] = @ + 1]
    \/ /\ wait_one_comp(w, "failed")
       /\ UNCHANGED recv_cnt
    \/ /\ Completed(w) = {}
       /\ UNCHANGED <<op, qpVars, recv_cnt>>

Flying_Stale(w) == flying_cnt[w]
Flying(w) == (counter[w] - recv_cnt[w]) % U64

TryPoll(w) ==
    /\ At(w, "try")
    /\ \/ /\ i[w] < TryRounds
          /\ TryOne(w)
          /\ i' = [i EXCEPT ![w] = @ + 1]
          /\ UNCHANGED <<pc, flying_cnt>>
       \/ /\ i[w] >= TryRounds
          /\ flying_cnt' = [flying_cnt EXCEPT ![w] = Flying(w)]
          /\ Goto(w, "head")
          /\ UNCHANGED <<i, recv_cnt, op, qpVars>>
    /\ UNCHANGED <<mainVars, proc, or_idx, dc_idx, rounds, counter>>

Drain_OneMore(w) ==
    /\ At(w, "drain")
    /\ \/ /\ recv_cnt[w] <= counter[w]
          /\ TryOne(w)
          /\ UNCHANGED pc
       \/ /\ recv_cnt[w] > counter[w]
          /\ Goto(w, "end")
          /\ UNCHANGED <<recv_cnt, op, qpVars>>
    /\ UNCHANGED <<mainVars, proc, i, or_idx, dc_idx, rounds, counter, flying_cnt>>
Drain(w) ==
    /\ At(w, "drain")
    /\ \/ /\ recv_cnt[w] < counter[w]
          /\ TryOne(w)
          /\ UNCHANGED pc
       \/ /\ recv_cnt[w] >= counter[w]
          /\ Goto(w, "end")
          /\ UNCHANGED <<recv_cnt, op, qpVars>>
    /\ UNCHANGED <<mainVars, proc, i, or_idx, dc_idx, rounds, counter, flying_cnt>>

(* delete_remote_rc, whose result nobody looks at.  dc_bench instead runs  *)
(* off the end of worker_fn, which has no return statement: it may crash.  *)
End(w) ==
    /\ At(w, "end")
    /\ Goto(w, "exited")
    /\ UNCHANGED <<mainVars, proc, i, or_idx, dc_idx, rounds, op, qpVars, cntVars>>

EndsWithoutReturn(w) ==
    /\ At(w, "end")
    /\ cfg.program = "dc"
    /\ Abort("no return")

Work(w) ==
    \/ Setup(w) \/ SetupFails(w) \/ WhileRunning(w) \/ PostRefused(w) \/ WaitFails(w)
    \/ PostOne(w) \/ PostWindow(w) \/ WaitWindow(w) \/ EndRound(w)
    \/ PostFly(w) \/ TryPoll(w) \/ Drain(w)
    \/ End(w) \/ EndsWithoutReturn(w)

-----------------------------------------------------------------------------
(* The main thread.                                                        *)

(* Thread::start; a pthread_create that fails is asserted.                 *)
Start(w) ==
    /\ proc = "up" /\ main = "start"
    /\ pc[w] = "unborn"
    /\ Goto(w, "setup")
    /\ main' = IF \A v \in Workers \ {w} : pc[v] # "unborn" THEN "report" ELSE main
    /\ UNCHANGED <<cfg, running, proc, i, or_idx, dc_idx, rounds, op, qpVars, cntVars>>

StartFails(w) ==
    /\ main = "start" /\ At(w, "unborn")
    /\ Abort("setup")

(* report_thpt is over: running = false.                                   *)
Stop ==
    /\ proc = "up" /\ main = "report"
    /\ main' = "join" /\ running' = FALSE
    /\ UNCHANGED <<cfg, proc, loopVars, op, qpVars, cntVars>>

Join ==
    /\ proc = "up" /\ main = "join"
    /\ \A w \in Workers : pc[w] = "exited"
    /\ main' = "done"
    /\ UNCHANGED <<cfg, running, proc, loopVars, op, qpVars, cntVars>>

Ended == (main = "done" \/ proc # "up") /\ UNCHANGED vars

Next ==
    \/ \E w \in Workers :
          Start(w) \/ StartFails(w) \/ Work(w) \/ NicExecute(w) \/ NicFail(w)
    \/ Stop \/ Join \/ Ended

Spec == Init /\ [][Next]_vars

(* Threads run, the report ends after ten seconds, and the NIC executes.   *)
FairSpec ==
    /\ Spec
    /\ WF_vars(Stop) /\ WF_vars(Join)
    /\ \A w \in Workers : WF_vars(Start(w)) /\ WF_vars(Work(w)) /\ WF_vars(NicExecute(w))

-----------------------------------------------------------------------------
(* Properties.                                                             *)

TypeOK ==
    /\ cfg \in Configs
    /\ main \in {"start", "report", "join", "done"} /\ running \in BOOLEAN
    /\ proc \in {"up", "setup", "refused", "failed", "no return"}
    /\ \A w \in Workers :
          /\ pc[w] \in {"unborn", "setup", "head", "post", "wait", "final", "try",
                        "drain", "end", "exited"}
          /\ {i[w], or_idx[w], counter[w], recv_cnt[w]} \subseteq Nat
          /\ rounds[w] \in 0 .. MaxRounds
          /\ dc_idx[w] \in 0 .. cfg.qps - 1
          /\ op[w].opcode \in Types
          /\ \A d \in 0 .. cfg.qps - 1 : sq[w][d] \in Seq(Request)
          /\ out_signaled[w] \in 0 .. Usize - 1
          /\ flying_cnt[w] \in 0 .. U64 - 1
    /\ err \subseteq Workers \X (0 .. cfg.qps - 1)

(* What the arithmetic of or_bench and db_bench amounts to: the requests   *)
(* between two signaled ones, those a round leaves behind unpolled, and    *)
(* the most that are ever outstanding.                                     *)
Max2(a, b) == IF a > b THEN a ELSE b
Min2(a, b) == IF a < b THEN a ELSE b
Stride == cfg.batch * Max2(1, (or_max + cfg.batch - 1) \div cfg.batch)
Leftover == (cfg.factor - cfg.batch) % Stride
Peak ==
    IF cfg.program \in {"or", "db"}
    THEN Max2(Leftover + Min2(cfg.factor, Stride + cfg.batch),
              IF cfg.factor > 2 * Stride THEN 2 * Stride ELSE 0)
    ELSE cfg.factor

(* The window of every benchmark, over any number of rounds and with the   *)
(* unpolled rest of the round before.                                      *)
WindowBound ==
    \A w \in Workers, d \in 0 .. cfg.qps - 1 : Len(sq[w][d]) <= Peak

(* A post is refused, and the benchmark aborted, only when this window is  *)
(* larger than the send queue: never in or_bench, whatever or_factor is.   *)
RefusedOnlyIfTooWide ==
    proc = "refused" => Peak > Depth /\ cfg.program \in {"db", "fly"}

(* wait_one_comp without a timeout is called only when a signaled request  *)
(* is outstanding or its completion is waiting: it cannot hang.            *)
WaitHasSignal ==
    proc = "up" => \A w \in Workers : pc[w] \in {"wait", "final"} =>
        \E k \in DOMAIN Queue(w) : Queue(w)[k].signaled \/ Queue(w)[k].status = "failed"

(* A worker that leaves its loop has polled every signaled request, and    *)
(* what it leaves on the QP it deletes at the server is at most the        *)
(* unsignaled rest of one round, and nothing in fly_bench.                 *)
LeavesLittle ==
    \A w \in Workers : pc[w] = "exited" /\ err = {} =>
        \A d \in 0 .. cfg.qps - 1 :
            /\ \A k \in DOMAIN sq[w][d] : ~sq[w][d][k].signaled
            /\ Len(sq[w][d]) <= IF cfg.program \in {"or", "db"} THEN Leftover ELSE 0

(* fly_bench counts from the outside: while nothing has failed, flying_cnt *)
(* is what is outstanding when a round begins, and never above para_factor,*)
(* beyond which the unsigned loop bound would wrap.                        *)
FlyingExact ==
    \A w \in Workers : cfg.program = "fly" /\ pc[w] = "head" /\ err = {} =>
        flying_cnt[w] = Len(Queue(w)) /\ flying_cnt[w] <= cfg.factor

(* ongoing_signaled() is the number of signaled requests outstanding, as   *)
(* long as batches are not used: db_bench signals the last request of a    *)
(* batch, and execute_batch counts the first.                              *)
SignalsCounted ==
    \A w \in Workers : cfg.program \in {"one", "or", "fly"} /\ err = {} =>
        out_signaled[w] =
            Cardinality({k \in DOMAIN Queue(w) : Queue(w)[k].signaled}) % Usize

(* What the NIC reads of a request has been set for its opcode, although   *)
(* the setters of the atomics write over the key of the others.            *)
OpIsWhole ==
    \A w \in Workers :
        Queue(w) # <<>> /\ cfg.program # "dc" =>
            /\ op[w].addr = "remote"
            /\ op[w].opcode = cfg.type
            /\ (IF op[w].opcode \in {"CAS", "FAA"} THEN op[w].key ELSE op[w].word1) = "rkey"

(* Once main clears running it joins every worker, unless an assertion     *)
(* aborted the process or a request failed: fly_bench then drains for ever,*)
(* since it counts only successful completions.                            *)
Stops == main = "join" ~> main = "done" \/ proc # "up" \/ (cfg.program = "fly" /\ err # {})

(* The windows fit: what is outstanding is bounded by the arithmetic of    *)
(* each client, posts are refused only where that exceeds the send queue,  *)
(* and a worker leaves at most the rest of a round behind.                 *)
WindowInv == TypeOK /\ WindowBound /\ RefusedOnlyIfTooWide /\ LeavesLittle

(* The counters the code keeps beside the queues agree with them: those of *)
(* fly_bench and out_signaled.                                             *)
CountersExact == FlyingExact /\ SignalsCounted
=============================================================================
