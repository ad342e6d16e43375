----------------------------- MODULE TaskSystem -----------------------------
(***************************************************************************)
(* The task system and the driver of coelacanth: a global queue of tasks   *)
(* guarded by one mutex, consumer threads that pop and run tasks until     *)
(* they meet the sentinel, and the main thread, which creates the tasks    *)
(* level by level (typegraph, callgraph, variable assignments, control     *)
(* graphs), waits for their futures and finally pushes the sentinel.       *)
(*                                                                         *)
(* Code: tools/coelacanth/{tasksystem,coelacanth}.cc and                   *)
(* include/coelacanth/{tasksystem,coelacanth,fireonce}.h                   *)
(***************************************************************************)
EXTENDS Integers, Sequences, FiniteSets

CONSTANTS Consumers,   \* the consumer threads (PG::CONSUMERS of them)
          Main,        \* the main thread
          NoThread,    \* the owner of a free mutex
          MaxVar,      \* bound on PG::VAR, the variable assignments
          MaxSplits    \* bound on PG::SPLITS, the control graphs of each

ASSUME ThreadsAssumption ==
  Main \notin Consumers /\ NoThread \notin Consumers \cup {Main}
ASSUME BoundsAssumption == MaxVar \in Nat /\ MaxSplits \in Nat

-----------------------------------------------------------------------------
(* Tasks. A task is named by what it creates and for which randomization.  *)

task(kind, i, j) == [kind |-> kind, var |-> i, split |-> j]

Tg       == task("typegraph", 0, 0)
Cg       == task("callgraph", 0, 0)
Va(i)    == task("varassign", i, 0)
Cn(i, j) == task("controlgraph", i, j)
Sentinel == task("sentinel", 0, 0)
NoTask   == task("none", 0, 0)

Vars   == 0..(MaxVar - 1)
Splits == 0..(MaxSplits - 1)
VaTasks == {Va(i) : i \in Vars}
CnTasks == {Cn(i, j) : i \in Vars, j \in Splits}
Tasks   == {Tg, Cg} \cup VaTasks \cup CnTasks

\* The results a task is created with (the arguments of create_task).
Needs(t) ==
  CASE t.kind = "callgraph"    -> {Tg}
    [] t.kind = "varassign"    -> {Tg, Cg}
    [] t.kind = "controlgraph" -> {Tg, Cg, Va(t.var)}
    [] OTHER                   -> {}

Options == [usetg : BOOLEAN, stop_tg : BOOLEAN, stop_cg : BOOLEAN,
            stop_va : BOOLEAN, var : 0..MaxVar, splits : 0..MaxSplits]

\* The tasks that a run with options o asks for.
Planned(o) ==
  {Tg} \cup
  (IF o.stop_tg THEN {} ELSE {Cg} \cup
  (IF o.stop_cg THEN {} ELSE {t \in VaTasks : t.var < o.var} \cup
  (IF o.stop_va THEN {} ELSE {t \in CnTasks : t.var < o.var /\ t.split < o.splits})))

-----------------------------------------------------------------------------
VARIABLES opts,     \* default_config_: the options that steer the driver
          mpc,      \* where the main thread is
          nva,      \* loop counter of run_varassign
          ncn,      \* loop counter of run_controlgraph
          crashed,  \* a future rethrew its exception in main: terminate()
          queue,    \* task_queue
          mutex,    \* task_queue_mutex: its owner
          future,   \* shared state of each task's future
          cpc,      \* where each consumer is
          cur,      \* the local variable cur of each consumer
          seed,     \* of each task: which draw of the generator seeded it
          draws     \* numbers drawn by main from default_config_

mainVars     == <<mpc, nva, ncn>>
seedVars     == <<seed, draws>>
consumerVars == <<cpc, cur>>
vars == <<opts, mainVars, crashed, queue, mutex, future, consumerVars, seedVars>>

NoSeed   == -1

MainPCs == {"spawn", "tg.push", "tg.get", "cg.push", "cg.get", "va.push",
            "va.get", "cn.push", "cn.get", "sentinel", "join", "done"}
ConsumerPCs == {"unborn", "idle", "pop", "run", "ret", "resign", "push", "done"}

\* The queue, the futures and the threads' program counters keep their types.
TypeOK ==
  /\ opts \in Options
  /\ mpc \in MainPCs
  /\ nva \in 0..MaxVar
  /\ ncn \in 0..MaxSplits
  /\ crashed \in BOOLEAN
  /\ queue \in Seq(Tasks \cup {Sentinel})
  /\ mutex \in Consumers \cup {Main, NoThread}
  /\ future \in [Tasks -> {"none", "pending", "value", "exception"}]
  /\ cpc \in [Consumers -> ConsumerPCs]
  /\ cur \in [Consumers -> Tasks \cup {Sentinel, NoTask}]
  /\ seed \in [Tasks -> Nat \cup {NoSeed}]
  /\ draws \in Nat

Init ==
  /\ opts \in Options
  /\ mpc = "spawn" /\ nva = 0 /\ ncn = 0
  /\ crashed = FALSE
  /\ queue = <<>>
  /\ mutex = NoThread
  /\ future = [t \in Tasks |-> "none"]
  /\ cpc = [c \in Consumers |-> "unborn"]
  /\ cur = [c \in Consumers |-> NoTask]
  /\ seed = [t \in Tasks |-> NoSeed]
  /\ draws = 0

-----------------------------------------------------------------------------
(* The main thread                                                         *)

\* coerunner_t::run starts the consumers one by one; each one runs at once.
spawn(c) ==
  /\ mpc = "spawn"
  /\ cpc[c] = "unborn"
  /\ cpc' = [cpc EXCEPT ![c] = "idle"]
  /\ UNCHANGED <<opts, mainVars, crashed, queue, mutex, future, cur, seedVars>>

spawned ==
  /\ mpc = "spawn"
  /\ \A c \in Consumers : cpc[c] # "unborn"
  /\ mpc' = "tg.push"
  /\ UNCHANGED <<opts, nva, ncn, crashed, queue, mutex, future, consumerVars, seedVars>>

\* The main thread is about to call push_task or push_sentinel_task.
Pushing ==
  \/ mpc \in {"tg.push", "cg.push", "sentinel"}
  \/ mpc = "va.push" /\ nva < opts.var
  \/ mpc = "cn.push" /\ ncn < opts.splits

main_lock ==
  /\ Pushing
  /\ mutex = NoThread
  /\ mutex' = Main
  /\ UNCHANGED <<opts, mainVars, crashed, queue, future, consumerVars, seedVars>>

\* create_task and push_task: the task's future becomes pending, the task goes
\* to the back of the queue, and the lock_guard of push_task is released.
create_and_push(t) ==
  /\ mutex = Main
  /\ future' = [future EXCEPT ![t] = "pending"]
  /\ queue' = Append(queue, t)
  /\ mutex' = NoThread
  /\ UNCHANGED <<opts, crashed, consumerVars>>

\* default_config_->rand_positive() gives the task its seed.
draw_seed(t) ==
  /\ seed' = [seed EXCEPT ![t] = draws]
  /\ draws' = draws + 1

\* Mutant: the seed is drawn although the typegraph is read from a file.
run_typegraph_push_seeded ==
  /\ mpc = "tg.push"
  /\ create_and_push(Tg)
  /\ draw_seed(Tg)
  /\ mpc' = "tg.get"
  /\ UNCHANGED <<nva, ncn>>

\* decide_tg_task: a typegraph that is read from a file takes no seed.
run_typegraph_push ==
  /\ mpc = "tg.push"
  /\ create_and_push(Tg)
  /\ IF opts.usetg THEN UNCHANGED seedVars ELSE draw_seed(Tg)
  /\ mpc' = "tg.get"
  /\ UNCHANGED <<nva, ncn>>

run_typegraph_get ==
  /\ mpc = "tg.get"
  /\ future[Tg] = "value"
  /\ mpc' = IF opts.stop_tg THEN "sentinel" ELSE "cg.push"
  /\ UNCHANGED <<opts, nva, ncn, crashed, queue, mutex, future, consumerVars, seedVars>>

run_callgraph_push ==
  /\ mpc = "cg.push"
  /\ create_and_push(Cg)
  /\ draw_seed(Cg)
  /\ mpc' = "cg.get"
  /\ UNCHANGED <<nva, ncn>>

run_callgraph_get ==
  /\ mpc = "cg.get"
  /\ future[Cg] = "value"
  /\ mpc' = IF opts.stop_cg THEN "sentinel" ELSE "va.push"
  /\ UNCHANGED <<opts, nva, ncn, crashed, queue, mutex, future, consumerVars, seedVars>>

\* run_varassign: the first loop pushes every assignment task, ...
run_varassign_push ==
  /\ mpc = "va.push"
  /\ nva < opts.var
  /\ create_and_push(Va(nva))
  /\ draw_seed(Va(nva))
  /\ nva' = nva + 1
  /\ UNCHANGED <<mpc, ncn>>

run_varassign_pushed ==
  /\ mpc = "va.push"
  /\ nva = opts.var
  /\ nva' = 0
  /\ mpc' = "va.get"
  /\ UNCHANGED <<opts, ncn, crashed, queue, mutex, future, consumerVars, seedVars>>

\* Mutant: a failed assignment is taken for a finished one.
run_varassign_get_any ==
  /\ mpc = "va.get"
  /\ nva < opts.var
  /\ future[Va(nva)] \notin {"none", "pending"}
  /\ IF opts.stop_va THEN nva' = nva + 1 /\ UNCHANGED mpc
                     ELSE mpc' = "cn.push" /\ UNCHANGED nva
  /\ UNCHANGED <<opts, ncn, crashed, queue, mutex, future, consumerVars, seedVars>>

\* ... the second one collects them and runs the control graphs of each.
run_varassign_get ==
  /\ mpc = "va.get"
  /\ nva < opts.var
  /\ future[Va(nva)] = "value"
  /\ IF opts.stop_va THEN nva' = nva + 1 /\ UNCHANGED mpc
                     ELSE mpc' = "cn.push" /\ UNCHANGED nva
  /\ UNCHANGED <<opts, ncn, crashed, queue, mutex, future, consumerVars, seedVars>>

run_varassign_return ==
  /\ mpc = "va.get"
  /\ nva = opts.var
  /\ mpc' = "sentinel"
  /\ UNCHANGED <<opts, nva, ncn, crashed, queue, mutex, future, consumerVars, seedVars>>

run_controlgraph_push ==
  /\ mpc = "cn.push"
  /\ ncn < opts.splits
  /\ create_and_push(Cn(nva, ncn))
  /\ draw_seed(Cn(nva, ncn))
  /\ ncn' = ncn + 1
  /\ UNCHANGED <<mpc, nva>>

run_controlgraph_pushed ==
  /\ mpc = "cn.push"
  /\ ncn = opts.splits
  /\ ncn' = 0
  /\ mpc' = "cn.get"
  /\ UNCHANGED <<opts, nva, crashed, queue, mutex, future, consumerVars, seedVars>>

\* Mutant: the control graphs are counted, not waited for.
run_controlgraph_nowait ==
  /\ mpc = "cn.get"
  /\ ncn < opts.splits
  /\ ncn' = ncn + 1
  /\ UNCHANGED <<opts, mpc, nva, crashed, queue, mutex, future, consumerVars, seedVars>>

\* run_locir and run_exprir, called here, push no task yet.
run_controlgraph_get ==
  /\ mpc = "cn.get"
  /\ ncn < opts.splits
  /\ future[Cn(nva, ncn)] = "value"
  /\ ncn' = ncn + 1
  /\ UNCHANGED <<opts, mpc, nva, crashed, queue, mutex, future, consumerVars, seedVars>>

run_controlgraph_return ==
  /\ mpc = "cn.get"
  /\ ncn = opts.splits
  /\ ncn' = 0
  /\ nva' = nva + 1
  /\ mpc' = "va.get"
  /\ UNCHANGED <<opts, crashed, queue, mutex, future, consumerVars, seedVars>>

push_sentinel ==
  /\ mpc = "sentinel"
  /\ mutex = Main
  /\ queue' = Append(queue, Sentinel)
  /\ mutex' = NoThread
  /\ mpc' = "join"
  /\ UNCHANGED <<opts, nva, ncn, crashed, future, consumerVars, seedVars>>

\* Mutant: one consumer is joined instead of all.
join_one ==
  /\ mpc = "join"
  /\ \E c \in Consumers : cpc[c] = "done"
  /\ mpc' = "done"
  /\ UNCHANGED <<opts, nva, ncn, crashed, queue, mutex, future, consumerVars, seedVars>>

join ==
  /\ mpc = "join"
  /\ \A c \in Consumers : cpc[c] = "done"
  /\ mpc' = "done"
  /\ UNCHANGED <<opts, nva, ncn, crashed, queue, mutex, future, consumerVars, seedVars>>

\* The tasks whose future the main thread is blocked on (at most one).
Awaited ==
  CASE mpc = "tg.get" -> {Tg}
    [] mpc = "cg.get" -> {Cg}
    [] mpc = "va.get" /\ nva < opts.var -> {Va(nva)}
    [] mpc = "cn.get" /\ ncn < opts.splits -> {Cn(nva, ncn)}
    [] OTHER -> {}

\* get() rethrows what the task threw; nothing catches it in main.
get_rethrows ==
  /\ \E t \in Awaited : future[t] = "exception"
  /\ crashed' = TRUE
  /\ UNCHANGED <<opts, mainVars, queue, mutex, future, consumerVars, seedVars>>

MainNext ==
  \/ \E c \in Consumers : spawn(c)
  \/ spawned
  \/ main_lock
  \/ run_typegraph_push \/ run_typegraph_get
  \/ run_callgraph_push \/ run_callgraph_get
  \/ run_varassign_push \/ run_varassign_pushed
  \/ run_varassign_get  \/ run_varassign_return
  \/ run_controlgraph_push \/ run_controlgraph_pushed
  \/ run_controlgraph_get  \/ run_controlgraph_return
  \/ push_sentinel
  \/ join
  \/ get_rethrows

-----------------------------------------------------------------------------
(* A consumer: consumer_thread_func                                        *)

consumer_lock(c) ==
  /\ cpc[c] \in {"idle", "resign"}
  /\ mutex = NoThread
  /\ mutex' = c
  /\ cpc' = [cpc EXCEPT ![c] = IF cpc[c] = "idle" THEN "pop" ELSE "push"]
  /\ UNCHANGED <<opts, mainVars, crashed, queue, future, cur, seedVars>>

\* Mutant: the mutex is kept while the consumer yields.
poll_empty_locked(c) ==
  /\ cpc[c] = "pop"
  /\ queue = <<>>
  /\ cpc' = [cpc EXCEPT ![c] = "idle"]
  /\ UNCHANGED <<opts, mainVars, crashed, queue, mutex, future, cur, seedVars>>

\* An empty queue is polled: yield, and around the loop again.
poll_empty(c) ==
  /\ cpc[c] = "pop"
  /\ queue = <<>>
  /\ cpc' = [cpc EXCEPT ![c] = "idle"]
  /\ mutex' = NoThread
  /\ UNCHANGED <<opts, mainVars, crashed, queue, future, cur, seedVars>>

\* Mutant: the front of the queue is read but not popped.
pop_keeps_front(c) ==
  /\ cpc[c] = "pop"
  /\ queue # <<>>
  /\ cur' = [cur EXCEPT ![c] = Head(queue)]
  /\ cpc' = [cpc EXCEPT ![c] = "run"]
  /\ mutex' = NoThread
  /\ UNCHANGED <<opts, mainVars, crashed, queue, future, seedVars>>

pop(c) ==
  /\ cpc[c] = "pop"
  /\ queue # <<>>
  /\ cur' = [cur EXCEPT ![c] = Head(queue)]
  /\ queue' = Tail(queue)
  /\ cpc' = [cpc EXCEPT ![c] = "run"]
  /\ mutex' = NoThread
  /\ UNCHANGED <<opts, mainVars, crashed, future, seedVars>>

\* The packaged_task inside the task stores its value or its exception.
invoke(c) ==
  /\ cpc[c] = "run"
  /\ cur[c] # Sentinel
  /\ \E result \in {"value", "exception"} :
       future' = [future EXCEPT ![cur[c]] = result]
  /\ cpc' = [cpc EXCEPT ![c] = "ret"]
  /\ UNCHANGED <<opts, mainVars, crashed, queue, mutex, cur, seedVars>>

\* fire_once::clear destroys the closure; the task returned 0.
clear(c) ==
  /\ cpc[c] = "ret"
  /\ cur' = [cur EXCEPT ![c] = NoTask]
  /\ cpc' = [cpc EXCEPT ![c] = "idle"]
  /\ UNCHANGED <<opts, mainVars, crashed, queue, mutex, future, seedVars>>

\* The sentinel returns -1: the consumer leaves its loop.
invoke_sentinel(c) ==
  /\ cpc[c] = "run"
  /\ cur[c] = Sentinel
  /\ cur' = [cur EXCEPT ![c] = NoTask]
  /\ cpc' = [cpc EXCEPT ![c] = "resign"]
  /\ UNCHANGED <<opts, mainVars, crashed, queue, mutex, future, seedVars>>

\* Mutant: the sentinel is not passed on.
push_no_sentinel(c) ==
  /\ cpc[c] = "push"
  /\ cpc' = [cpc EXCEPT ![c] = "done"]
  /\ mutex' = NoThread
  /\ UNCHANGED <<opts, mainVars, crashed, queue, future, cur, seedVars>>

\* ... after it has pushed a sentinel for the consumers that are left.
push_sentinel_again(c) ==
  /\ cpc[c] = "push"
  /\ queue' = Append(queue, Sentinel)
  /\ cpc' = [cpc EXCEPT ![c] = "done"]
  /\ mutex' = NoThread
  /\ UNCHANGED <<opts, mainVars, crashed, future, cur, seedVars>>

ConsumerNext(c) ==
  \/ consumer_lock(c) \/ poll_empty(c) \/ pop(c)
  \/ invoke(c) \/ clear(c)
  \/ invoke_sentinel(c) \/ push_sentinel_again(c)

Ended == crashed \/ mpc = "done"

Next ==
  \/ ~crashed /\ MainNext
  \/ ~crashed /\ \E c \in Consumers : ConsumerNext(c)
  \/ Ended /\ UNCHANGED vars

Spec == Init /\ [][Next]_vars

-----------------------------------------------------------------------------
(* Fairness: every thread is scheduled. The mutex is taken and given back  *)
(* by polling consumers for ever, so a thread that wants it gets it only   *)
(* if the mutex is fair to it (strong fairness of the two lock actions).   *)

FairSpec ==
  /\ Spec
  /\ WF_vars(~crashed /\ MainNext)
  /\ SF_vars(~crashed /\ main_lock)
  /\ \A c \in Consumers : WF_vars(~crashed /\ ConsumerNext(c))
                       /\ SF_vars(~crashed /\ consumer_lock(c))
-----------------------------------------------------------------------------
(* Safety                                                                  *)

Settled == {"value", "exception"}

\* A task (or the sentinel) is in the queue.
Queued(t) == \E k \in DOMAIN queue : queue[k] = t

\* A task is in the hands of a consumer that has still to run it; so is the
\* sentinel until the consumer has pushed the next one.
Holds(c, t) == \/ cpc[c] = "run" /\ cur[c] = t
               \/ cpc[c] \in {"resign", "push"} /\ t = Sentinel

\* No task is lost or doubled between create_task and its execution: a task
\* with a pending future is once in the queue or with one consumer, and no
\* other task is there (push_task, consumer_thread_func).
NothingLost ==
  \A t \in Tasks :
    Cardinality({k \in DOMAIN queue : queue[k] = t})
    + Cardinality({c \in Consumers : Holds(c, t)})
      = IF future[t] = "pending" THEN 1 ELSE 0

\* When a task is handed to the consumers, the results it was created with
\* exist: main has got them from their futures (run_typegraph ...
\* run_controlgraph), even while other tasks fail.
InputsReady ==
  \A t \in Tasks :
    (Queued(t) \/ \E c \in Consumers : Holds(c, t))
      => \A n \in Needs(t) : future[n] = "value"

\* Consumers leave their loop only after the last task: where the sentinel is
\* seen, or a consumer has ended, every planned task has its value.
SentinelLast ==
  \/ Queued(Sentinel)
  \/ \E c \in Consumers : Holds(c, Sentinel) \/ cpc[c] = "done"
  => \A t \in Planned(opts) : future[t] = "value"

\* run returns with all the work done, every consumer joined and nothing but
\* the last consumer's sentinel in the queue.
CleanShutdown ==
  mpc = "done" =>
    /\ \A t \in Planned(opts) : future[t] = "value"
    /\ \A c \in Consumers : cpc[c] = "done"
    /\ queue = <<Sentinel>>

FirstSeed == IF opts.usetg THEN 0 ELSE 1

SeedOf(t) ==
  CASE t.kind = "typegraph" -> 0
    [] t.kind = "callgraph" -> FirstSeed
    [] t.kind = "varassign" -> FirstSeed + 1 + t.var
    [] OTHER -> FirstSeed + 1 + opts.var + t.var * opts.splits + t.split

\* However the consumers are scheduled, the i-th assignment and the j-th control
\* graph of an assignment are seeded by the same draws of the global generator
\* (the seeds are drawn by main, in run_varassign and run_controlgraph).
SeedsReproducible == \A t \in Tasks : seed[t] \in {NoSeed, SeedOf(t)}

\* A result that a future holds is never overwritten: no task runs twice
\* (fire_once, and the single pop of each task).
SettledOnce ==
  [][\A t \in Tasks : future[t] \in Settled => future'[t] = future[t]]_vars

-----------------------------------------------------------------------------
(* Liveness, under FairSpec                                                *)

\* The program ends, also when the consumers only pass the sentinel on.
Termination == <>Ended

\* An exception in any task, awaited or not, ends the program: it is not lost
\* in a future that nobody looks at.
ExceptionsSurface ==
  \A t \in Tasks : future[t] = "exception" ~> crashed

-----------------------------------------------------------------------------
(* The task system implements Pipeline.                                    *)

outcome == IF crashed THEN "aborted" ELSE IF mpc = "done" THEN "done" ELSE "running"

Abstract == INSTANCE Pipeline WITH plan <- Planned(opts), status <- future

\* Every step of the threads is a step of the plan or changes nothing it shows.
ImplementsPipeline == Abstract!Spec

\* ... and the threads carry the plan out with the fairness it asks for.
ImplementsFairPipeline == Abstract!FairSpec

-----------------------------------------------------------------------------
(* The inductive invariant                                                 *)

VaFirst(n) == {t \in VaTasks : t.var < n}
CnFirst(n) == {t \in CnTasks : t.var < n /\ t.split < opts.splits}
CnOf(i, n) == {t \in CnTasks : t.var = i /\ t.split < n}

\* The tasks main has pushed, as a function of where it is.
Submitted ==
  CASE mpc \in {"spawn", "tg.push"} -> {}
    [] mpc \in {"tg.get", "cg.push"} -> {Tg}
    [] mpc = "cg.get"  -> {Tg, Cg}
    [] mpc = "va.push" -> {Tg, Cg} \cup VaFirst(nva)
    [] mpc = "va.get"  -> {Tg, Cg} \cup VaFirst(opts.var)
                          \cup (IF opts.stop_va THEN {} ELSE CnFirst(nva))
    [] mpc = "cn.push" -> {Tg, Cg} \cup VaFirst(opts.var) \cup CnFirst(nva) \cup CnOf(nva, ncn)
    [] mpc = "cn.get"  -> {Tg, Cg} \cup VaFirst(opts.var) \cup CnFirst(nva + 1)
    [] OTHER -> Planned(opts)

\* The tasks whose value main has got.
Collected ==
  CASE mpc \in {"spawn", "tg.push", "tg.get"} -> {}
    [] mpc \in {"cg.push", "cg.get"} -> {Tg}
    [] mpc = "va.push" -> {Tg, Cg}
    [] mpc = "va.get"  -> {Tg, Cg} \cup VaFirst(nva)
                          \cup (IF opts.stop_va THEN {} ELSE CnFirst(nva))
    [] mpc = "cn.push" -> {Tg, Cg} \cup VaFirst(nva + 1) \cup CnFirst(nva)
    [] mpc = "cn.get"  -> {Tg, Cg} \cup VaFirst(nva + 1) \cup CnFirst(nva) \cup CnOf(nva, ncn)
    [] OTHER -> Planned(opts)

\* The mutex is held by the thread that is at the queue, and by main to push.
Locking ==
  /\ \A c \in Consumers : mutex = c <=> cpc[c] \in {"pop", "push"}
  /\ mutex = Main => Pushing

\* Where main is follows from the options and from the loop counters.
Progress ==
  /\ mpc \in {"cg.push", "cg.get", "va.push", "va.get", "cn.push", "cn.get"} => ~opts.stop_tg
  /\ mpc \in {"va.push", "va.get", "cn.push", "cn.get"} => ~opts.stop_cg
  /\ mpc \in {"cn.push", "cn.get"} => ~opts.stop_va /\ nva < opts.var
  /\ nva <= opts.var /\ ncn <= opts.splits
  /\ mpc \notin {"cn.push", "cn.get"} => ncn = 0
  /\ mpc \in {"spawn", "tg.push", "tg.get", "cg.push", "cg.get"} => nva = 0

\* A future exists once its task was submitted; what get returned has a value.
Results ==
  /\ \A t \in Tasks : future[t] # "none" <=> t \in Submitted
  /\ \A t \in Collected : future[t] = "value"

\* A consumer that runs has something to run, and what it ran is settled.
Holding ==
  \A c \in Consumers :
    /\ cpc[c] = "run" => cur[c] # NoTask
    /\ cpc[c] = "ret" => cur[c] \in Tasks /\ future[cur[c]] \in Settled

\* Every task and the sentinel is in at most one place ...
OnePlace ==
  /\ \A k, m \in DOMAIN queue : queue[k] = queue[m] => k = m
  /\ \A t \in Tasks \cup {Sentinel} :
       /\ \A c \in Consumers : ~(Queued(t) /\ Holds(c, t))
       /\ \A c, d \in Consumers : Holds(c, t) /\ Holds(d, t) => c = d

Somewhere(t) == Queued(t) \/ \E c \in Consumers : Holds(c, t)

\* ... and in some place exactly while it is pending.
SomePlace ==
  /\ \A t \in Tasks : future[t] = "pending" <=> Somewhere(t)
  /\ Somewhere(Sentinel) <=> mpc \in {"join", "done"}
  /\ \A c \in Consumers : cpc[c] = "done" => mpc \in {"join", "done"}
  /\ mpc = "done" => \A c \in Consumers : cpc[c] = "done"

\* The inductive invariant: what main's position says of futures, queue and
\* consumers, from which the properties above follow.
IndInv ==
  TypeOK /\ Locking /\ Progress /\ Results /\ Holding /\ OnePlace /\ SomePlace
=============================================================================
