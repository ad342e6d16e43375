-------------------------- MODULE TaskSystemProofs --------------------------
(***************************************************************************)
(* Proofs about TaskSystem, for any set of consumers and any number of     *)
(* randomizations.                                                         *)
(***************************************************************************)
EXTENDS TaskSystem, FiniteSetTheorems, TLAPS

-----------------------------------------------------------------------------
(* Tasks are told apart by their kind and counters.                        *)

\* A task carries its kind and counters.
LEMMA TaskFields ==
  /\ Tg.kind = "typegraph" /\ Cg.kind = "callgraph"
  /\ Sentinel.kind = "sentinel" /\ NoTask.kind = "none"
  /\ \A i : Va(i).kind = "varassign" /\ Va(i).var = i
  /\ \A i, j : Cn(i, j).kind = "controlgraph" /\ Cn(i, j).var = i /\ Cn(i, j).split = j
  BY DEF Sentinel, NoTask, Tg, Cg, Va, Cn, task

\* The tasks of each kind are those of the driver's loops.
LEMMA TaskShapes ==
  /\ Tasks = {Tg, Cg} \cup VaTasks \cup CnTasks
  /\ \A t : t \in VaTasks <=> \E i \in Vars : t = Va(i)
  /\ \A t : t \in CnTasks <=> \E i \in Vars, j \in Splits : t = Cn(i, j)
<1>1. Tasks = {Tg, Cg} \cup VaTasks \cup CnTasks
  BY DEF Tasks
<1>2. ASSUME NEW t PROVE t \in VaTasks <=> \E i \in Vars : t = Va(i)
  BY DEF VaTasks
<1>3. ASSUME NEW t PROVE t \in CnTasks <=> \E i \in Vars, j \in Splits : t = Cn(i, j)
  BY DEF CnTasks
<1> QED BY <1>1, <1>2, <1>3

\* The sentinel and the empty closure are none of the driver's tasks, and the
\* kinds are disjoint.
LEMMA TasksDiffer ==
  /\ Sentinel \notin Tasks /\ NoTask \notin Tasks /\ NoTask # Sentinel /\ Tg # Cg
  /\ \A t \in VaTasks : t \notin {Tg, Cg} \cup CnTasks
  /\ \A t \in CnTasks : t \notin {Tg, Cg} \cup VaTasks
  BY TaskFields, TaskShapes

-----------------------------------------------------------------------------
(* What a push and a pop do to the contents of the queue.                  *)

\* push_task puts a new element in the queue and keeps the others.
LEMMA QueueAfterPush ==
  ASSUME NEW S, queue \in Seq(S), NEW x \in S, queue' = Append(queue, x)
  PROVE  /\ queue' \in Seq(S)
         /\ \A y : Queued(y)' <=> Queued(y) \/ y = x
<1>1. queue' \in Seq(S) /\ Len(queue') = Len(queue) + 1 /\ Len(queue) \in Nat
  OBVIOUS
<1>2. /\ \A k \in 1..Len(queue) : queue'[k] = queue[k]
      /\ queue'[Len(queue) + 1] = x
  OBVIOUS
<1>3. ASSUME NEW y PROVE Queued(y)' <=> Queued(y) \/ y = x
  BY <1>1, <1>2 DEF Queued
<1> QED BY <1>1, <1>3

\* pop removes the front and, where no element is twice, nothing but the front.
LEMMA QueueAfterPop ==
  ASSUME NEW S, queue \in Seq(S), queue # <<>>, queue' = Tail(queue),
         \A k, m \in DOMAIN queue : queue[k] = queue[m] => k = m
  PROVE  /\ queue' \in Seq(S) /\ Head(queue) \in S /\ Queued(Head(queue))
         /\ \A y : Queued(y)' <=> Queued(y) /\ y # Head(queue)
         /\ \A k, m \in DOMAIN queue' : queue'[k] = queue'[m] => k = m
<1>1. /\ queue' \in Seq(S) /\ Len(queue') = Len(queue) - 1
      /\ Len(queue) \in Nat \ {0} /\ Head(queue) = queue[1]
      /\ queue[1] \in S
  OBVIOUS
<1>2. \A k \in 1..(Len(queue) - 1) : queue'[k] = queue[k + 1]
  OBVIOUS
<1>3. ASSUME NEW y PROVE Queued(y)' <=> Queued(y) /\ y # Head(queue)
  <2>1. ASSUME Queued(y)' PROVE Queued(y) /\ y # Head(queue)
    BY <2>1, <1>1, <1>2 DEF Queued
  <2>2. ASSUME Queued(y), y # Head(queue) PROVE Queued(y)'
    <3>1. PICK k \in DOMAIN queue : queue[k] = y
      BY <2>2 DEF Queued
    <3>2. k - 1 \in 1..(Len(queue) - 1) /\ queue'[k - 1] = y
      BY <3>1, <2>2, <1>1, <1>2
    <3> QED BY <3>2, <1>1 DEF Queued
  <2> QED BY <2>1, <2>2
<1>4. \A k, m \in DOMAIN queue' : queue'[k] = queue'[m] => k = m
  <2> SUFFICES ASSUME NEW k \in DOMAIN queue', NEW m \in DOMAIN queue', queue'[k] = queue'[m]
               PROVE  k = m
    OBVIOUS
  <2>1. queue[k + 1] = queue[m + 1] /\ k + 1 \in DOMAIN queue /\ m + 1 \in DOMAIN queue
    BY <1>1, <1>2
  <2> QED BY <2>1, <1>1
<1>5. Queued(Head(queue))
  BY <1>1 DEF Queued
<1> QED BY <1>1, <1>3, <1>4, <1>5
-----------------------------------------------------------------------------
(* How the steps move tasks between the queue and the consumers.           *)

Places == Holding /\ OnePlace /\ SomePlace

\* Steps of main that touch neither queue nor future move no task.
LEMMA PlacesKept ==
  ASSUME Places, UNCHANGED <<queue, future, cpc, cur>>,
         mpc' \in {"join", "done"} <=> mpc \in {"join", "done"},
         mpc' = "done" => \A c \in Consumers : cpc[c] = "done"
  PROVE  Places'
<1>1. \A t : Queued(t)' <=> Queued(t)
  BY DEF Queued
<1>2. \A c, t : Holds(c, t)' <=> Holds(c, t)
  BY DEF Holds
<1>3. \A t : Somewhere(t)' <=> Somewhere(t)
  BY <1>1, <1>2 DEF Somewhere
<1>4. Holding'
  BY DEF Places, Holding
<1>5. OnePlace'
  BY <1>1, <1>2 DEF Places, OnePlace
<1>6. SomePlace'
  BY <1>3 DEF Places, SomePlace
<1> QED BY <1>4, <1>5, <1>6 DEF Places

\* A new element goes to the queue and is nowhere else.
LEMMA PlacesPush ==
  ASSUME TypeOK, Places, NEW x \in Tasks \cup {Sentinel}, ~Somewhere(x),
         queue' = Append(queue, x), UNCHANGED <<cpc, cur>>
  PROVE  /\ OnePlace'
         /\ \A t : Somewhere(t)' <=> Somewhere(t) \/ t = x
<1>1. /\ queue' \in Seq(Tasks \cup {Sentinel})
      /\ \A y : Queued(y)' <=> Queued(y) \/ y = x
  BY QueueAfterPush DEF TypeOK
<1>2. \A c, t : Holds(c, t)' <=> Holds(c, t)
  BY DEF Holds
<1>3. \A t : Somewhere(t)' <=> Somewhere(t) \/ t = x
  BY <1>1, <1>2 DEF Somewhere
<1>4. \A k, m \in DOMAIN queue' : queue'[k] = queue'[m] => k = m
  <2>1. /\ Len(queue') = Len(queue) + 1 /\ Len(queue) \in Nat /\ queue \in Seq(Tasks \cup {Sentinel})
        /\ \A k \in 1..Len(queue) : queue'[k] = queue[k]
        /\ queue'[Len(queue) + 1] = x
    BY DEF TypeOK
  <2>2. \A k \in 1..Len(queue) : queue[k] # x
    BY <2>1 DEF Somewhere, Queued
  <2>3. \A k, m \in 1..Len(queue) : queue[k] = queue[m] => k = m
    BY <2>1 DEF Places, OnePlace
  <2>4. DOMAIN queue' = 1..(Len(queue) + 1)
    BY <1>1, <2>1
  <2> QED BY <2>1, <2>2, <2>3, <2>4
<1>5. OnePlace'
  BY <1>1, <1>2, <1>4 DEF Places, OnePlace, Somewhere
<1> QED BY <1>3, <1>5

\* create_task and push_task: the task becomes pending where it is queued.
LEMMA PlacesCreate ==
  ASSUME TypeOK, Places, NEW t \in Tasks, future[t] = "none", create_and_push(t),
         mpc \notin {"join", "done"}, mpc' \notin {"join", "done"}
  PROVE  Places'
<1>1. ~Somewhere(t)
  BY DEF Places, SomePlace
<1>2. /\ OnePlace'
      /\ \A y : Somewhere(y)' <=> Somewhere(y) \/ y = t
  BY <1>1, PlacesPush DEF create_and_push, consumerVars
<1>3. future' = [future EXCEPT ![t] = "pending"] /\ future \in [Tasks -> {"none", "pending", "value", "exception"}]
  BY DEF create_and_push, TypeOK
<1>4. Holding'
  BY <1>3 DEF create_and_push, consumerVars, Places, Holding, Settled
<1>5. SomePlace'
  BY <1>2, <1>3, TasksDiffer DEF create_and_push, consumerVars, Places, SomePlace
<1> QED BY <1>2, <1>4, <1>5 DEF Places
\* Steps of a consumer that neither take nor give a task.
LEMMA PlacesStay ==
  ASSUME TypeOK, Places, UNCHANGED <<queue, future, mpc>>,
         NEW c \in Consumers,
         \/ spawn(c) \/ consumer_lock(c) \/ poll_empty(c) \/ clear(c) \/ invoke_sentinel(c)
  PROVE  Places'
<1>1. \A t : Queued(t)' <=> Queued(t)
  BY DEF Queued
<1>2. ASSUME NEW d \in Consumers, NEW t \in Tasks \cup {Sentinel}
      PROVE  Holds(d, t)' <=> Holds(d, t)
  BY <1>2 DEF TypeOK, Holds, spawn, consumer_lock, poll_empty, clear, invoke_sentinel
<1>3. \A t \in Tasks \cup {Sentinel} : Somewhere(t)' <=> Somewhere(t)
  BY <1>1, <1>2 DEF Somewhere
<1>4. Holding'
  BY DEF Places, Holding, TypeOK, spawn, consumer_lock, poll_empty, clear, invoke_sentinel
<1>5. OnePlace'
  BY <1>1, <1>2 DEF Places, OnePlace
<1>6. \A d \in Consumers : cpc'[d] = "done" <=> cpc[d] = "done"
  BY DEF TypeOK, spawn, consumer_lock, poll_empty, clear, invoke_sentinel
<1>7. SomePlace'
  BY <1>3, <1>6 DEF Places, SomePlace
<1> QED BY <1>4, <1>5, <1>7 DEF Places

\* pop hands the front of the queue over to the consumer.
LEMMA PlacesPop ==
  ASSUME TypeOK, Places, NEW c \in Consumers, pop(c)
  PROVE  Places'
<1>1. /\ queue \in Seq(Tasks \cup {Sentinel}) /\ queue # <<>> /\ queue' = Tail(queue)
      /\ \A k, m \in DOMAIN queue : queue[k] = queue[m] => k = m
  BY DEF TypeOK, Places, OnePlace, pop
<1> DEFINE x == Head(queue)
<1>2. /\ x \in Tasks \cup {Sentinel} /\ Queued(x)
      /\ \A y : Queued(y)' <=> Queued(y) /\ y # x
      /\ \A k, m \in DOMAIN queue' : queue'[k] = queue'[m] => k = m
  BY <1>1, QueueAfterPop
<1>3. /\ cpc[c] = "pop" /\ cpc' = [cpc EXCEPT ![c] = "run"] /\ cur' = [cur EXCEPT ![c] = x]
      /\ UNCHANGED <<future, mpc>>
  BY DEF pop, mainVars
<1>4. \A d \in Consumers : \A t : Holds(d, t)' <=> Holds(d, t) \/ (d = c /\ t = x)
  BY <1>3 DEF Holds, TypeOK
<1>5. \A d \in Consumers : ~Holds(d, x)
  BY <1>2 DEF Places, OnePlace
<1>6. \A t \in Tasks \cup {Sentinel} : Somewhere(t)' <=> Somewhere(t)
  BY <1>2, <1>4 DEF Somewhere
<1>7. Holding'
  BY <1>2, <1>3, TasksDiffer DEF Places, Holding, TypeOK
<1>8. OnePlace'
  <2> HIDE DEF x
  <2>1. ASSUME NEW t \in Tasks \cup {Sentinel}, NEW d \in Consumers, Queued(t)', Holds(d, t)'
        PROVE  FALSE
    BY <2>1, <1>2, <1>4 DEF Places, OnePlace
  <2>2. ASSUME NEW t \in Tasks \cup {Sentinel}, NEW d \in Consumers, NEW e \in Consumers,
               Holds(d, t)', Holds(e, t)'
        PROVE  d = e
    BY <2>2, <1>4, <1>5 DEF Places, OnePlace
  <2> QED BY <2>1, <2>2, <1>2 DEF OnePlace
<1>9. SomePlace'
  BY <1>3, <1>6 DEF Places, SomePlace, TypeOK
<1> QED BY <1>7, <1>8, <1>9 DEF Places

\* The task that a consumer runs leaves its hands with its result.
LEMMA PlacesInvoke ==
  ASSUME TypeOK, Places, NEW c \in Consumers, invoke(c)
  PROVE  /\ Places'
         /\ cur[c] \in Tasks /\ future[cur[c]] = "pending"
         /\ \E result \in Settled : future' = [future EXCEPT ![cur[c]] = result]
<1> DEFINE x == cur[c]
<1>1. /\ cpc[c] = "run" /\ x # Sentinel /\ cpc' = [cpc EXCEPT ![c] = "ret"]
      /\ UNCHANGED <<queue, cur, mpc>>
      /\ \E result \in Settled : future' = [future EXCEPT ![x] = result]
  BY DEF invoke, mainVars, Settled
<1>2. x \in Tasks /\ Holds(c, x)
  BY <1>1 DEF Places, Holding, TypeOK, Holds
<1>3. future[x] = "pending"
  BY <1>2 DEF Places, SomePlace, Somewhere
<1>4. \A t : Queued(t)' <=> Queued(t)
  BY <1>1 DEF Queued
<1>5. \A d \in Consumers, t \in Tasks \cup {Sentinel} :
        Holds(d, t)' <=> Holds(d, t) /\ ~(d = c /\ t = x)
  BY <1>1, TasksDiffer DEF Holds, TypeOK
<1>6. PICK result \in Settled : future' = [future EXCEPT ![x] = result]
  BY <1>1
<1> HIDE DEF x
<1>7. \A t \in Tasks \cup {Sentinel} : Somewhere(t)' <=> Somewhere(t) /\ t # x
  BY <1>2, <1>4, <1>5 DEF Places, OnePlace, Somewhere
<1>8. \A t \in Tasks : future'[t] = IF t = x THEN result ELSE future[t]
  BY <1>2, <1>6 DEF TypeOK
<1>9. Holding'
  BY <1>1, <1>2, <1>6, <1>8 DEF Places, Holding, TypeOK, x
<1>10. OnePlace'
  BY <1>1, <1>4, <1>5 DEF Places, OnePlace
<1>11. SomePlace'
  BY <1>1, <1>2, <1>3, <1>6, <1>7, <1>8, TasksDiffer DEF Places, SomePlace, Settled, TypeOK
<1> QED BY <1>2, <1>3, <1>6, <1>9, <1>10, <1>11 DEF Places, x

\* The sentinel goes from the hands of the consumer that resigns to the queue.
LEMMA PlacesResign ==
  ASSUME TypeOK, Places, NEW c \in Consumers, push_sentinel_again(c)
  PROVE  Places'
<1>1. /\ cpc[c] = "push" /\ cpc' = [cpc EXCEPT ![c] = "done"]
      /\ queue' = Append(queue, Sentinel)
      /\ UNCHANGED <<future, cur, mpc>>
  BY DEF push_sentinel_again, mainVars
<1>2. Holds(c, Sentinel) /\ \A t \in Tasks : ~Holds(c, t)
  BY <1>1, TasksDiffer DEF Holds
<1>3. /\ ~Queued(Sentinel)
      /\ \A d \in Consumers : Holds(d, Sentinel) => d = c
      /\ mpc \in {"join", "done"}
  BY <1>2 DEF Places, OnePlace, SomePlace, Somewhere
<1>4. /\ queue' \in Seq(Tasks \cup {Sentinel})
      /\ \A y : Queued(y)' <=> Queued(y) \/ y = Sentinel
  BY <1>1, QueueAfterPush DEF TypeOK
<1>5. \A d \in Consumers, t \in Tasks \cup {Sentinel} : Holds(d, t)' <=> Holds(d, t) /\ d # c
  BY <1>1, <1>2 DEF Holds, TypeOK
<1>6. \A t \in Tasks \cup {Sentinel} : Somewhere(t)' <=> Somewhere(t)
  BY <1>2, <1>4, <1>5 DEF Somewhere
<1>7. Holding'
  BY <1>1 DEF Places, Holding, TypeOK
<1>8. \A k, m \in DOMAIN queue' : queue'[k] = queue'[m] => k = m
  <2>1. /\ Len(queue') = Len(queue) + 1 /\ Len(queue) \in Nat /\ queue \in Seq(Tasks \cup {Sentinel})
        /\ \A k \in 1..Len(queue) : queue'[k] = queue[k]
        /\ queue'[Len(queue) + 1] = Sentinel
    BY <1>1 DEF TypeOK
  <2>2. \A k \in 1..Len(queue) : queue[k] # Sentinel
    BY <1>3, <2>1 DEF Queued
  <2>3. \A k, m \in 1..Len(queue) : queue[k] = queue[m] => k = m
    BY <2>1 DEF Places, OnePlace
  <2>4. DOMAIN queue' = 1..(Len(queue) + 1)
    BY <1>4, <2>1
  <2> QED BY <2>1, <2>2, <2>3, <2>4
<1>9. OnePlace'
  BY <1>3, <1>4, <1>5, <1>8 DEF Places, OnePlace
<1>10. SomePlace'
  BY <1>1, <1>3, <1>6 DEF Places, SomePlace, TypeOK
<1> QED BY <1>7, <1>9, <1>10 DEF Places
-----------------------------------------------------------------------------
(* How the loops of the driver count through the plan.                     *)

\* What the loops of run_varassign and run_controlgraph have gone through grows
\* by one task, or by the control graphs of one assignment, at a time.
LEMMA LoopSets ==
  ASSUME TypeOK
  PROVE  /\ VaFirst(0) = {} /\ CnFirst(0) = {}
         /\ \A i : CnOf(i, 0) = {}
         /\ \A n \in Vars : VaFirst(n + 1) = VaFirst(n) \cup {Va(n)}
         /\ \A i \in Vars, n \in Splits : CnOf(i, n + 1) = CnOf(i, n) \cup {Cn(i, n)}
         /\ \A n \in Vars : CnFirst(n + 1) = CnFirst(n) \cup CnOf(n, opts.splits)
<1>0. /\ \A t \in VaTasks : t.var \in Nat /\ t = Va(t.var)
      /\ \A t \in CnTasks : t.var \in Nat /\ t.split \in Nat /\ t = Cn(t.var, t.split)
      /\ \A n \in Vars \cup Splits : n \in Nat
      /\ opts.splits \in Nat
  BY TaskShapes, TaskFields, BoundsAssumption DEF Vars, Splits, TypeOK, Options
<1>1. VaFirst(0) = {} /\ CnFirst(0) = {} /\ \A i : CnOf(i, 0) = {}
  <2>1. \A m \in Nat : ~(m < 0)
    OBVIOUS
  <2> QED BY <1>0, <2>1 DEF VaFirst, CnFirst, CnOf
<1>2. ASSUME NEW n \in Vars PROVE VaFirst(n + 1) = VaFirst(n) \cup {Va(n)}
  <2>1. Va(n) \in VaTasks /\ Va(n).var = n /\ n < n + 1
    BY TaskShapes, TaskFields, <1>0
  <2>2. \A m \in Nat : m < n + 1 <=> m < n \/ m = n
    BY <1>0
  <2> QED BY <1>0, <2>1, <2>2 DEF VaFirst
<1>3. ASSUME NEW i \in Vars, NEW n \in Splits
      PROVE  CnOf(i, n + 1) = CnOf(i, n) \cup {Cn(i, n)}
  <2>1. Cn(i, n) \in CnTasks /\ Cn(i, n).var = i /\ Cn(i, n).split = n /\ n < n + 1
    BY TaskShapes, TaskFields, <1>0
  <2>2. \A m \in Nat : m < n + 1 <=> m < n \/ m = n
    BY <1>0
  <2> QED BY <1>0, <2>1, <2>2 DEF CnOf
<1>4. ASSUME NEW n \in Vars PROVE CnFirst(n + 1) = CnFirst(n) \cup CnOf(n, opts.splits)
  <2>1. \A m \in Nat : m < n + 1 <=> m < n \/ m = n
    BY <1>0
  <2> QED BY <1>0, <2>1 DEF CnFirst, CnOf
<1> QED BY <1>1, <1>2, <1>3, <1>4

\* The plan in terms of the loops.
LEMMA PlanSets ==
  ASSUME TypeOK
  PROVE  /\ opts.stop_tg => Planned(opts) = {Tg}
         /\ ~opts.stop_tg /\ opts.stop_cg => Planned(opts) = {Tg, Cg}
         /\ ~opts.stop_tg /\ ~opts.stop_cg =>
              Planned(opts) = {Tg, Cg} \cup VaFirst(opts.var)
                              \cup (IF opts.stop_va THEN {} ELSE CnFirst(opts.var))
         /\ Submitted \subseteq Tasks /\ Collected \subseteq Tasks
<1>1. /\ opts.stop_tg => Planned(opts) = {Tg}
      /\ ~opts.stop_tg /\ opts.stop_cg => Planned(opts) = {Tg, Cg}
      /\ ~opts.stop_tg /\ ~opts.stop_cg =>
           Planned(opts) = {Tg, Cg} \cup VaFirst(opts.var)
                           \cup (IF opts.stop_va THEN {} ELSE CnFirst(opts.var))
  BY DEF Planned, VaFirst, CnFirst, TypeOK, Options
<1>2. /\ {Tg, Cg} \subseteq Tasks
      /\ \A n : VaFirst(n) \subseteq Tasks
      /\ \A n : CnFirst(n) \subseteq Tasks
      /\ \A i, n : CnOf(i, n) \subseteq Tasks
  BY TaskShapes DEF VaFirst, CnFirst, CnOf
<1>3. Planned(opts) \subseteq Tasks
  BY <1>1, <1>2
<1>4. Submitted \subseteq Tasks
  BY <1>2, <1>3 DEF Submitted
<1>5. Collected \subseteq Tasks
  BY <1>2, <1>3 DEF Collected
<1> QED BY <1>1, <1>4, <1>5

\* The loop counters are numbers within their bounds.
LEMMA CounterTypes ==
  ASSUME TypeOK, Progress
  PROVE  /\ opts.var \in Nat /\ opts.var <= MaxVar /\ opts.splits \in Nat /\ opts.splits <= MaxSplits
         /\ opts.usetg \in BOOLEAN /\ opts.stop_tg \in BOOLEAN /\ opts.stop_cg \in BOOLEAN
         /\ opts.stop_va \in BOOLEAN /\ MaxVar \in Nat /\ MaxSplits \in Nat
         /\ nva \in Nat /\ ncn \in Nat /\ nva <= opts.var /\ ncn <= opts.splits
  BY BoundsAssumption DEF TypeOK, Options, Progress

\* Main never creates a task that it has created before.
LEMMA PushIsNew ==
  ASSUME TypeOK, Progress
  PROVE  /\ run_typegraph_push => Tg \in Tasks /\ Tg \notin Submitted
         /\ run_callgraph_push => Cg \in Tasks /\ Cg \notin Submitted
         /\ run_varassign_push => Va(nva) \in Tasks /\ Va(nva) \notin Submitted
         /\ run_controlgraph_push => Cn(nva, ncn) \in Tasks /\ Cn(nva, ncn) \notin Submitted
<1>a. /\ opts.var \in Nat /\ opts.var <= MaxVar /\ opts.splits \in Nat /\ opts.splits <= MaxSplits
      /\ nva \in Nat /\ ncn \in Nat /\ MaxVar \in Nat /\ MaxSplits \in Nat
  BY CounterTypes
<1>1. ASSUME run_typegraph_push PROVE Tg \in Tasks /\ Tg \notin Submitted
  BY <1>1, TaskShapes DEF run_typegraph_push, Submitted
<1>2. ASSUME run_callgraph_push PROVE Cg \in Tasks /\ Cg \notin Submitted
  BY <1>2, TaskShapes, TasksDiffer DEF run_callgraph_push, Submitted
<1>3. ASSUME run_varassign_push PROVE Va(nva) \in Tasks /\ Va(nva) \notin Submitted
  <2>1. nva \in Vars /\ mpc = "va.push"
    BY <1>a, <1>3 DEF run_varassign_push, Vars
  <2>2. Va(nva) \in VaTasks /\ Va(nva) \in Tasks /\ Va(nva).var = nva
    BY <2>1, TaskShapes, TaskFields
  <2>3. Va(nva) \notin {Tg, Cg} \cup VaFirst(nva)
    BY <1>a, <2>2, TasksDiffer DEF VaFirst
  <2> QED BY <2>1, <2>2, <2>3 DEF Submitted
<1>4. ASSUME run_controlgraph_push PROVE Cn(nva, ncn) \in Tasks /\ Cn(nva, ncn) \notin Submitted
  <2>1. nva \in Vars /\ ncn \in Splits /\ mpc = "cn.push"
    BY <1>a, <1>4 DEF run_controlgraph_push, Progress, Vars, Splits
  <2>2. /\ Cn(nva, ncn) \in CnTasks /\ Cn(nva, ncn) \in Tasks
        /\ Cn(nva, ncn).var = nva /\ Cn(nva, ncn).split = ncn
    BY <2>1, TaskShapes, TaskFields
  <2>3. Cn(nva, ncn) \notin {Tg, Cg} \cup VaTasks
    BY <2>2, TasksDiffer
  <2>4. Cn(nva, ncn) \notin CnFirst(nva) /\ Cn(nva, ncn) \notin CnOf(nva, ncn)
    BY <1>a, <2>2 DEF CnFirst, CnOf
  <2> QED BY <2>1, <2>2, <2>3, <2>4 DEF Submitted, VaFirst
<1> QED BY <1>1, <1>2, <1>3, <1>4

\* create_task keeps the agreement of futures with what was submitted.
LEMMA ResultsCreate ==
  ASSUME TypeOK, Results, NEW t \in Tasks, create_and_push(t),
         t \notin Submitted, Submitted' = Submitted \cup {t}, Collected' = Collected
  PROVE  Results'
<1>1. Collected \subseteq Tasks
  BY PlanSets
<1>2. future[t] = "none" /\ t \notin Collected
  BY <1>1 DEF Results
<1>3. \A u \in Tasks : future'[u] = IF u = t THEN "pending" ELSE future[u]
  BY DEF create_and_push, TypeOK
<1> QED BY <1>1, <1>2, <1>3 DEF Results

\* So does a step that leaves the futures alone and collects values only.
LEMMA ResultsKept ==
  ASSUME Results, UNCHANGED future, Submitted' = Submitted,
         \A t \in Collected' : t \in Collected \/ future[t] = "value"
  PROVE  Results'
  BY DEF Results
-----------------------------------------------------------------------------
(* The inductive invariant                                                 *)

\* The invariant holds before the consumers are started.
LEMMA InitIndInv == Init => IndInv
<1> SUFFICES ASSUME Init PROVE IndInv
  OBVIOUS
<1>1. \A t : ~Queued(t)
  BY DEF Init, Queued
<1>2. \A c \in Consumers : \A t : ~Holds(c, t)
  BY DEF Init, Holds
<1>3. TypeOK
  <2>1. queue \in Seq(Tasks \cup {Sentinel})
    BY DEF Init
  <2>2. /\ future \in [Tasks -> {"none", "pending", "value", "exception"}]
        /\ cpc \in [Consumers -> ConsumerPCs]
        /\ cur \in [Consumers -> Tasks \cup {Sentinel, NoTask}]
        /\ seed \in [Tasks -> Nat \cup {NoSeed}]
    BY DEF Init, ConsumerPCs
  <2>3. opts \in Options /\ mpc \in MainPCs /\ nva \in 0..MaxVar /\ ncn \in 0..MaxSplits
    BY BoundsAssumption DEF Init, MainPCs
  <2> QED BY <2>1, <2>2, <2>3 DEF Init, TypeOK
<1>4. Locking
  BY ThreadsAssumption DEF Init, Locking
<1>5. Progress
  BY BoundsAssumption DEF Init, Progress, Options
<1>6. Results
  BY DEF Init, Results, Submitted, Collected
<1>7. Holding
  BY DEF Init, Holding
<1>8. OnePlace
  BY <1>1, <1>2 DEF Init, OnePlace
<1>9. SomePlace
  BY <1>1, <1>2 DEF Init, SomePlace, Somewhere
<1> QED BY <1>3, <1>4, <1>5, <1>6, <1>7, <1>8, <1>9 DEF IndInv

\* The parts of the invariant that say where main is.
Control == TypeOK /\ Locking /\ Progress

\* Every step of coerunner_t keeps the invariant.
LEMMA MainStep ==
  ASSUME IndInv, MainNext
  PROVE  IndInv'
<1>0. Control /\ Places /\ Results /\ Progress /\ Locking /\ TypeOK
  BY DEF Control, Places, IndInv
<1>a. /\ opts.var \in Nat /\ opts.var <= MaxVar /\ opts.splits \in Nat /\ opts.splits <= MaxSplits
      /\ opts.usetg \in BOOLEAN /\ opts.stop_tg \in BOOLEAN /\ opts.stop_cg \in BOOLEAN
      /\ opts.stop_va \in BOOLEAN /\ MaxVar \in Nat /\ MaxSplits \in Nat
      /\ nva \in Nat /\ ncn \in Nat /\ nva <= opts.var /\ ncn <= opts.splits
  BY <1>0, CounterTypes
<1>b. /\ \A n \in Nat : n < opts.var => n \in Vars
      /\ \A n \in Nat : n < opts.splits => n \in Splits
  BY <1>a DEF Vars, Splits
<1>1. ASSUME spawned PROVE IndInv'
  <2>1. TypeOK'
    BY <1>0, <1>a, <1>1 DEF spawned, mainVars, consumerVars, seedVars, TypeOK, MainPCs
  <2>2. Locking'
    BY <1>0, <1>a, <1>1, ThreadsAssumption DEF spawned, mainVars, consumerVars, seedVars, Locking, Pushing, TypeOK
  <2>3. Progress'
    BY <1>0, <1>a, <1>1 DEF spawned, mainVars, consumerVars, seedVars, Progress
  <2>4. Results'
    <3>1. Submitted' = Submitted
      BY <1>0, <1>a, <1>b, <1>1, LoopSets, PlanSets
         DEF spawned, mainVars, consumerVars, seedVars, Submitted, Progress, VaFirst, CnFirst, CnOf
    <3>2. \A t \in Collected' : t \in Collected \/ future[t] = "value"
      BY <1>0, <1>a, <1>b, <1>1, LoopSets, PlanSets
         DEF spawned, mainVars, consumerVars, seedVars, Collected, Progress, VaFirst, CnFirst, CnOf
    <3> QED BY <1>0, <1>1, <3>1, <3>2, ResultsKept DEF spawned, mainVars, consumerVars, seedVars
  <2>5. Places'
    BY <1>0, <1>1, PlacesKept DEF spawned, mainVars, consumerVars, seedVars
  <2> QED BY <2>1, <2>2, <2>3, <2>4, <2>5 DEF Places, IndInv
<1>2. ASSUME main_lock PROVE IndInv'
  <2>1. TypeOK'
    BY <1>0, <1>a, <1>2 DEF main_lock, mainVars, consumerVars, seedVars, TypeOK, MainPCs
  <2>2. Locking'
    BY <1>0, <1>a, <1>2, ThreadsAssumption DEF main_lock, mainVars, consumerVars, seedVars, Locking, Pushing, TypeOK
  <2>3. Progress'
    BY <1>0, <1>a, <1>2 DEF main_lock, mainVars, consumerVars, seedVars, Progress
  <2>4. Results'
    <3>1. Submitted' = Submitted
      BY <1>0, <1>a, <1>b, <1>2, LoopSets, PlanSets
         DEF main_lock, mainVars, consumerVars, seedVars, Submitted, Progress, VaFirst, CnFirst, CnOf
    <3>2. \A t \in Collected' : t \in Collected \/ future[t] = "value"
      BY <1>0, <1>a, <1>b, <1>2, LoopSets, PlanSets
         DEF main_lock, mainVars, consumerVars, seedVars, Collected, Progress, VaFirst, CnFirst, CnOf
    <3> QED BY <1>0, <1>2, <3>1, <3>2, ResultsKept DEF main_lock, mainVars, consumerVars, seedVars
  <2>5. Places'
    BY <1>0, <1>2, PlacesKept DEF main_lock, mainVars, consumerVars, seedVars, Places, SomePlace
  <2> QED BY <2>1, <2>2, <2>3, <2>4, <2>5 DEF Places, IndInv
<1>3. ASSUME run_typegraph_push PROVE IndInv'
  <2>1. Tg \in Tasks /\ Tg \notin Submitted
    BY <1>0, <1>3, PushIsNew
  <2>2. Submitted' = Submitted \cup {Tg}
    BY <1>0, <1>a, <1>b, <1>3, LoopSets
       DEF run_typegraph_push, create_and_push, Submitted, VaFirst, CnFirst, CnOf
  <2>3. Collected' = Collected
    BY <1>0, <1>a, <1>3 DEF run_typegraph_push, create_and_push, Collected, VaFirst, CnFirst, CnOf
  <2>4. TypeOK'
    <3>1. queue' \in Seq(Tasks \cup {Sentinel})
      BY <1>0, <1>3, <2>1, QueueAfterPush DEF run_typegraph_push, create_and_push, TypeOK
    <3> QED BY <1>0, <1>a, <1>b, <1>3, <2>1, <3>1
            DEF run_typegraph_push, create_and_push, draw_seed, mainVars, consumerVars, seedVars, TypeOK, MainPCs, Vars, Splits
  <2>5. Locking'
    BY <1>0, <1>3, ThreadsAssumption DEF run_typegraph_push, create_and_push, mainVars, consumerVars, seedVars, Locking, TypeOK
  <2>6. Progress'
    BY <1>0, <1>a, <1>3 DEF run_typegraph_push, create_and_push, Progress
  <2>7. Results'
    BY <1>0, <1>3, <2>1, <2>2, <2>3, ResultsCreate DEF run_typegraph_push
  <2>8. Places'
    BY <1>0, <1>3, <2>1, PlacesCreate DEF run_typegraph_push, Results
  <2> QED BY <2>4, <2>5, <2>6, <2>7, <2>8 DEF Places, IndInv
<1>4. ASSUME run_typegraph_get PROVE IndInv'
  <2>1. TypeOK'
    BY <1>0, <1>a, <1>4 DEF run_typegraph_get, mainVars, consumerVars, seedVars, TypeOK, MainPCs
  <2>2. Locking'
    BY <1>0, <1>a, <1>4, ThreadsAssumption DEF run_typegraph_get, mainVars, consumerVars, seedVars, Locking, Pushing, TypeOK
  <2>3. Progress'
    BY <1>0, <1>a, <1>4 DEF run_typegraph_get, mainVars, consumerVars, seedVars, Progress
  <2>4. Results'
    <3>1. Submitted' = Submitted
      BY <1>0, <1>a, <1>b, <1>4, LoopSets, PlanSets
         DEF run_typegraph_get, mainVars, consumerVars, seedVars, Submitted, Progress, VaFirst, CnFirst, CnOf
    <3>2. \A t \in Collected' : t \in Collected \/ future[t] = "value"
      BY <1>0, <1>a, <1>b, <1>4, LoopSets, PlanSets
         DEF run_typegraph_get, mainVars, consumerVars, seedVars, Collected, Progress, VaFirst, CnFirst, CnOf
    <3> QED BY <1>0, <1>4, <3>1, <3>2, ResultsKept DEF run_typegraph_get, mainVars, consumerVars, seedVars
  <2>5. Places'
    BY <1>0, <1>4, PlacesKept DEF run_typegraph_get, mainVars, consumerVars, seedVars
  <2> QED BY <2>1, <2>2, <2>3, <2>4, <2>5 DEF Places, IndInv
<1>5. ASSUME run_callgraph_push PROVE IndInv'
  <2>1. Cg \in Tasks /\ Cg \notin Submitted
    BY <1>0, <1>5, PushIsNew
  <2>2. Submitted' = Submitted \cup {Cg}
    BY <1>0, <1>a, <1>b, <1>5, LoopSets
       DEF run_callgraph_push, create_and_push, Submitted, VaFirst, CnFirst, CnOf
  <2>3. Collected' = Collected
    BY <1>0, <1>a, <1>5 DEF run_callgraph_push, create_and_push, Collected, VaFirst, CnFirst, CnOf
  <2>4. TypeOK'
    <3>1. queue' \in Seq(Tasks \cup {Sentinel})
      BY <1>0, <1>5, <2>1, QueueAfterPush DEF run_callgraph_push, create_and_push, TypeOK
    <3> QED BY <1>0, <1>a, <1>b, <1>5, <2>1, <3>1
            DEF run_callgraph_push, create_and_push, draw_seed, mainVars, consumerVars, seedVars, TypeOK, MainPCs, Vars, Splits
  <2>5. Locking'
    BY <1>0, <1>5, ThreadsAssumption DEF run_callgraph_push, create_and_push, mainVars, consumerVars, seedVars, Locking, TypeOK
  <2>6. Progress'
    BY <1>0, <1>a, <1>5 DEF run_callgraph_push, create_and_push, Progress
  <2>7. Results'
    BY <1>0, <1>5, <2>1, <2>2, <2>3, ResultsCreate DEF run_callgraph_push
  <2>8. Places'
    BY <1>0, <1>5, <2>1, PlacesCreate DEF run_callgraph_push, Results
  <2> QED BY <2>4, <2>5, <2>6, <2>7, <2>8 DEF Places, IndInv
<1>6. ASSUME run_callgraph_get PROVE IndInv'
  <2>1. TypeOK'
    BY <1>0, <1>a, <1>6 DEF run_callgraph_get, mainVars, consumerVars, seedVars, TypeOK, MainPCs
  <2>2. Locking'
    BY <1>0, <1>a, <1>6, ThreadsAssumption DEF run_callgraph_get, mainVars, consumerVars, seedVars, Locking, Pushing, TypeOK
  <2>3. Progress'
    BY <1>0, <1>a, <1>6 DEF run_callgraph_get, mainVars, consumerVars, seedVars, Progress
  <2>4. Results'
    <3>1. Submitted' = Submitted
      BY <1>0, <1>a, <1>b, <1>6, LoopSets, PlanSets
         DEF run_callgraph_get, mainVars, consumerVars, seedVars, Submitted, Progress, VaFirst, CnFirst, CnOf
    <3>2. \A t \in Collected' : t \in Collected \/ future[t] = "value"
      BY <1>0, <1>a, <1>b, <1>6, LoopSets, PlanSets
         DEF run_callgraph_get, mainVars, consumerVars, seedVars, Collected, Progress, VaFirst, CnFirst, CnOf
    <3> QED BY <1>0, <1>6, <3>1, <3>2, ResultsKept DEF run_callgraph_get, mainVars, consumerVars, seedVars
  <2>5. Places'
    BY <1>0, <1>6, PlacesKept DEF run_callgraph_get, mainVars, consumerVars, seedVars
  <2> QED BY <2>1, <2>2, <2>3, <2>4, <2>5 DEF Places, IndInv
<1>7. ASSUME run_varassign_push PROVE IndInv'
  <2>1. Va(nva) \in Tasks /\ Va(nva) \notin Submitted
    BY <1>0, <1>7, PushIsNew
  <2>2. Submitted' = Submitted \cup {Va(nva)}
    BY <1>0, <1>a, <1>b, <1>7, LoopSets
       DEF run_varassign_push, create_and_push, Submitted, VaFirst, CnFirst, CnOf
  <2>3. Collected' = Collected
    BY <1>0, <1>a, <1>7 DEF run_varassign_push, create_and_push, Collected, VaFirst, CnFirst, CnOf
  <2>4. TypeOK'
    <3>1. queue' \in Seq(Tasks \cup {Sentinel})
      BY <1>0, <1>7, <2>1, QueueAfterPush DEF run_varassign_push, create_and_push, TypeOK
    <3> QED BY <1>0, <1>a, <1>b, <1>7, <2>1, <3>1
            DEF run_varassign_push, create_and_push, draw_seed, mainVars, consumerVars, seedVars, TypeOK, MainPCs, Vars, Splits
  <2>5. Locking'
    BY <1>0, <1>7, ThreadsAssumption DEF run_varassign_push, create_and_push, mainVars, consumerVars, seedVars, Locking, TypeOK
  <2>6. Progress'
    BY <1>0, <1>a, <1>7 DEF run_varassign_push, create_and_push, Progress
  <2>7. Results'
    BY <1>0, <1>7, <2>1, <2>2, <2>3, ResultsCreate DEF run_varassign_push
  <2>8. Places'
    BY <1>0, <1>7, <2>1, PlacesCreate DEF run_varassign_push, Results
  <2> QED BY <2>4, <2>5, <2>6, <2>7, <2>8 DEF Places, IndInv
<1>8. ASSUME run_varassign_pushed PROVE IndInv'
  <2>1. TypeOK'
    BY <1>0, <1>a, <1>8 DEF run_varassign_pushed, mainVars, consumerVars, seedVars, TypeOK, MainPCs
  <2>2. Locking'
    BY <1>0, <1>a, <1>8, ThreadsAssumption DEF run_varassign_pushed, mainVars, consumerVars, seedVars, Locking, Pushing, TypeOK
  <2>3. Progress'
    BY <1>0, <1>a, <1>8 DEF run_varassign_pushed, mainVars, consumerVars, seedVars, Progress
  <2>4. Results'
    <3>1. Submitted' = Submitted
      BY <1>0, <1>a, <1>b, <1>8, LoopSets, PlanSets
         DEF run_varassign_pushed, mainVars, consumerVars, seedVars, Submitted, Progress, VaFirst, CnFirst, CnOf
    <3>2. \A t \in Collected' : t \in Collected \/ future[t] = "value"
      BY <1>0, <1>a, <1>b, <1>8, LoopSets, PlanSets
         DEF run_varassign_pushed, mainVars, consumerVars, seedVars, Collected, Progress, VaFirst, CnFirst, CnOf
    <3> QED BY <1>0, <1>8, <3>1, <3>2, ResultsKept DEF run_varassign_pushed, mainVars, consumerVars, seedVars
  <2>5. Places'
    BY <1>0, <1>8, PlacesKept DEF run_varassign_pushed, mainVars, consumerVars, seedVars
  <2> QED BY <2>1, <2>2, <2>3, <2>4, <2>5 DEF Places, IndInv
<1>9. ASSUME run_varassign_get PROVE IndInv'
  <2>1. TypeOK'
    BY <1>0, <1>a, <1>9 DEF run_varassign_get, mainVars, consumerVars, seedVars, TypeOK, MainPCs
  <2>2. Locking'
    BY <1>0, <1>a, <1>9, ThreadsAssumption DEF run_varassign_get, mainVars, consumerVars, seedVars, Locking, Pushing, TypeOK
  <2>3. Progress'
    BY <1>0, <1>a, <1>9 DEF run_varassign_get, mainVars, consumerVars, seedVars, Progress
  <2>4. Results'
    <3>1. Submitted' = Submitted
      BY <1>0, <1>a, <1>b, <1>9, LoopSets, PlanSets
         DEF run_varassign_get, mainVars, consumerVars, seedVars, Submitted, Progress, VaFirst, CnFirst, CnOf
    <3>2. \A t \in Collected' : t \in Collected \/ future[t] = "value"
      BY <1>0, <1>a, <1>b, <1>9, LoopSets, PlanSets
         DEF run_varassign_get, mainVars, consumerVars, seedVars, Collected, Progress, VaFirst, CnFirst, CnOf
    <3> QED BY <1>0, <1>9, <3>1, <3>2, ResultsKept DEF run_varassign_get, mainVars, consumerVars, seedVars
  <2>5. Places'
    BY <1>0, <1>9, PlacesKept DEF run_varassign_get, mainVars, consumerVars, seedVars
  <2> QED BY <2>1, <2>2, <2>3, <2>4, <2>5 DEF Places, IndInv
<1>10. ASSUME run_varassign_return PROVE IndInv'
  <2>1. TypeOK'
    BY <1>0, <1>a, <1>10 DEF run_varassign_return, mainVars, consumerVars, seedVars, TypeOK, MainPCs
  <2>2. Locking'
    BY <1>0, <1>a, <1>10, ThreadsAssumption DEF run_varassign_return, mainVars, consumerVars, seedVars, Locking, Pushing, TypeOK
  <2>3. Progress'
    BY <1>0, <1>a, <1>10 DEF run_varassign_return, mainVars, consumerVars, seedVars, Progress
  <2>4. Results'
    <3>1. Submitted' = Submitted
      BY <1>0, <1>a, <1>b, <1>10, LoopSets, PlanSets
         DEF run_varassign_return, mainVars, consumerVars, seedVars, Submitted, Progress, VaFirst, CnFirst, CnOf
    <3>2. \A t \in Collected' : t \in Collected \/ future[t] = "value"
      BY <1>0, <1>a, <1>b, <1>10, LoopSets, PlanSets
         DEF run_varassign_return, mainVars, consumerVars, seedVars, Collected, Progress, VaFirst, CnFirst, CnOf
    <3> QED BY <1>0, <1>10, <3>1, <3>2, ResultsKept DEF run_varassign_return, mainVars, consumerVars, seedVars
  <2>5. Places'
    BY <1>0, <1>10, PlacesKept DEF run_varassign_return, mainVars, consumerVars, seedVars
  <2> QED BY <2>1, <2>2, <2>3, <2>4, <2>5 DEF Places, IndInv
<1>11. ASSUME run_controlgraph_push PROVE IndInv'
  <2>0. nva \in Vars /\ ncn \in Splits /\ mpc = "cn.push" /\ nva < opts.var /\ ncn < opts.splits
    BY <1>0, <1>a, <1>b, <1>11 DEF run_controlgraph_push, Progress
  <2>1. Cn(nva, ncn) \in Tasks /\ Cn(nva, ncn) \notin Submitted
    BY <1>0, <1>11, PushIsNew
  <2>2. Submitted' = Submitted \cup {Cn(nva, ncn)}
    <3>1. CnOf(nva, ncn + 1) = CnOf(nva, ncn) \cup {Cn(nva, ncn)}
      BY <1>0, <2>0, LoopSets
    <3> QED BY <1>0, <2>0, <1>11, <3>1
            DEF run_controlgraph_push, create_and_push, Submitted, VaFirst, CnFirst, CnOf
  <2>3. Collected' = Collected
    BY <1>0, <1>a, <1>11 DEF run_controlgraph_push, create_and_push, Collected, VaFirst, CnFirst, CnOf
  <2>4. TypeOK'
    <3>1. queue' \in Seq(Tasks \cup {Sentinel})
      BY <1>0, <1>11, <2>1, QueueAfterPush DEF run_controlgraph_push, create_and_push, TypeOK
    <3> QED BY <1>0, <1>a, <1>b, <1>11, <2>1, <3>1
            DEF run_controlgraph_push, create_and_push, draw_seed, mainVars, consumerVars, seedVars, TypeOK, MainPCs, Vars, Splits
  <2>5. Locking'
    BY <1>0, <1>11, ThreadsAssumption DEF run_controlgraph_push, create_and_push, mainVars, consumerVars, seedVars, Locking, TypeOK
  <2>6. Progress'
    BY <1>0, <1>a, <1>11 DEF run_controlgraph_push, create_and_push, Progress
  <2>7. Results'
    BY <1>0, <1>11, <2>1, <2>2, <2>3, ResultsCreate DEF run_controlgraph_push
  <2>8. Places'
    BY <1>0, <1>11, <2>1, PlacesCreate DEF run_controlgraph_push, Results
  <2> QED BY <2>4, <2>5, <2>6, <2>7, <2>8 DEF Places, IndInv
<1>12. ASSUME run_controlgraph_pushed PROVE IndInv'
  <2>1. TypeOK'
    BY <1>0, <1>a, <1>12 DEF run_controlgraph_pushed, mainVars, consumerVars, seedVars, TypeOK, MainPCs
  <2>2. Locking'
    BY <1>0, <1>a, <1>12, ThreadsAssumption DEF run_controlgraph_pushed, mainVars, consumerVars, seedVars, Locking, Pushing, TypeOK
  <2>3. Progress'
    BY <1>0, <1>a, <1>12 DEF run_controlgraph_pushed, mainVars, consumerVars, seedVars, Progress
  <2>4. Results'
    <3>1. Submitted' = Submitted
      BY <1>0, <1>a, <1>b, <1>12, LoopSets, PlanSets
         DEF run_controlgraph_pushed, mainVars, consumerVars, seedVars, Submitted, Progress, VaFirst, CnFirst, CnOf
    <3>2. \A t \in Collected' : t \in Collected \/ future[t] = "value"
      BY <1>0, <1>a, <1>b, <1>12, LoopSets, PlanSets
         DEF run_controlgraph_pushed, mainVars, consumerVars, seedVars, Collected, Progress, VaFirst, CnFirst, CnOf
    <3> QED BY <1>0, <1>12, <3>1, <3>2, ResultsKept DEF run_controlgraph_pushed, mainVars, consumerVars, seedVars
  <2>5. Places'
    BY <1>0, <1>12, PlacesKept DEF run_controlgraph_pushed, mainVars, consumerVars, seedVars
  <2> QED BY <2>1, <2>2, <2>3, <2>4, <2>5 DEF Places, IndInv
<1>13. ASSUME run_controlgraph_get PROVE IndInv'
  <2>1. TypeOK'
    BY <1>0, <1>a, <1>13 DEF run_controlgraph_get, mainVars, consumerVars, seedVars, TypeOK, MainPCs
  <2>2. Locking'
    BY <1>0, <1>a, <1>13, ThreadsAssumption DEF run_controlgraph_get, mainVars, consumerVars, seedVars, Locking, Pushing, TypeOK
  <2>3. Progress'
    BY <1>0, <1>a, <1>13 DEF run_controlgraph_get, mainVars, consumerVars, seedVars, Progress
  <2>4. Results'
    <3>1. Submitted' = Submitted
      BY <1>0, <1>a, <1>b, <1>13, LoopSets, PlanSets
         DEF run_controlgraph_get, mainVars, consumerVars, seedVars, Submitted, Progress, VaFirst, CnFirst, CnOf
    <3>2. \A t \in Collected' : t \in Collected \/ future[t] = "value"
      BY <1>0, <1>a, <1>b, <1>13, LoopSets, PlanSets
         DEF run_controlgraph_get, mainVars, consumerVars, seedVars, Collected, Progress, VaFirst, CnFirst, CnOf
    <3> QED BY <1>0, <1>13, <3>1, <3>2, ResultsKept DEF run_controlgraph_get, mainVars, consumerVars, seedVars
  <2>5. Places'
    BY <1>0, <1>13, PlacesKept DEF run_controlgraph_get, mainVars, consumerVars, seedVars
  <2> QED BY <2>1, <2>2, <2>3, <2>4, <2>5 DEF Places, IndInv
<1>14. ASSUME run_controlgraph_return PROVE IndInv'
  <2>1. TypeOK'
    BY <1>0, <1>a, <1>14 DEF run_controlgraph_return, mainVars, consumerVars, seedVars, TypeOK, MainPCs, Progress
  <2>2. Locking'
    BY <1>0, <1>a, <1>14, ThreadsAssumption DEF run_controlgraph_return, mainVars, consumerVars, seedVars, Locking, Pushing, TypeOK
  <2>3. Progress'
    BY <1>0, <1>a, <1>14 DEF run_controlgraph_return, mainVars, consumerVars, seedVars, Progress
  <2>4. Results'
    <3>1. Submitted' = Submitted
      BY <1>0, <1>a, <1>b, <1>14, LoopSets, PlanSets
         DEF run_controlgraph_return, mainVars, consumerVars, seedVars, Submitted, Progress, VaFirst, CnFirst, CnOf
    <3>2. \A t \in Collected' : t \in Collected \/ future[t] = "value"
      BY <1>0, <1>a, <1>b, <1>14, LoopSets, PlanSets
         DEF run_controlgraph_return, mainVars, consumerVars, seedVars, Collected, Progress, VaFirst, CnFirst, CnOf
    <3> QED BY <1>0, <1>14, <3>1, <3>2, ResultsKept DEF run_controlgraph_return, mainVars, consumerVars, seedVars
  <2>5. Places'
    BY <1>0, <1>14, PlacesKept DEF run_controlgraph_return, mainVars, consumerVars, seedVars
  <2> QED BY <2>1, <2>2, <2>3, <2>4, <2>5 DEF Places, IndInv
<1>15. ASSUME join PROVE IndInv'
  <2>1. TypeOK'
    BY <1>0, <1>a, <1>15 DEF join, mainVars, consumerVars, seedVars, TypeOK, MainPCs
  <2>2. Locking'
    BY <1>0, <1>a, <1>15, ThreadsAssumption DEF join, mainVars, consumerVars, seedVars, Locking, Pushing, TypeOK
  <2>3. Progress'
    BY <1>0, <1>a, <1>15 DEF join, mainVars, consumerVars, seedVars, Progress
  <2>4. Results'
    <3>1. Submitted' = Submitted
      BY <1>0, <1>a, <1>b, <1>15, LoopSets, PlanSets
         DEF join, mainVars, consumerVars, seedVars, Submitted, Progress, VaFirst, CnFirst, CnOf
    <3>2. \A t \in Collected' : t \in Collected \/ future[t] = "value"
      BY <1>0, <1>a, <1>b, <1>15, LoopSets, PlanSets
         DEF join, mainVars, consumerVars, seedVars, Collected, Progress, VaFirst, CnFirst, CnOf
    <3> QED BY <1>0, <1>15, <3>1, <3>2, ResultsKept DEF join, mainVars, consumerVars, seedVars
  <2>5. Places'
    BY <1>0, <1>15, PlacesKept DEF join, mainVars, consumerVars, seedVars
  <2> QED BY <2>1, <2>2, <2>3, <2>4, <2>5 DEF Places, IndInv
<1>16. ASSUME get_rethrows PROVE IndInv'
  <2>1. TypeOK'
    BY <1>0, <1>a, <1>16 DEF get_rethrows, mainVars, consumerVars, seedVars, TypeOK, MainPCs
  <2>2. Locking'
    BY <1>0, <1>a, <1>16, ThreadsAssumption DEF get_rethrows, mainVars, consumerVars, seedVars, Locking, Pushing, TypeOK
  <2>3. Progress'
    BY <1>0, <1>a, <1>16 DEF get_rethrows, mainVars, consumerVars, seedVars, Progress
  <2>4. Results'
    <3>1. Submitted' = Submitted
      BY <1>0, <1>a, <1>b, <1>16, LoopSets, PlanSets
         DEF get_rethrows, mainVars, consumerVars, seedVars, Submitted, Progress, VaFirst, CnFirst, CnOf
    <3>2. \A t \in Collected' : t \in Collected \/ future[t] = "value"
      BY <1>0, <1>a, <1>b, <1>16, LoopSets, PlanSets
         DEF get_rethrows, mainVars, consumerVars, seedVars, Collected, Progress, VaFirst, CnFirst, CnOf
    <3> QED BY <1>0, <1>16, <3>1, <3>2, ResultsKept DEF get_rethrows, mainVars, consumerVars, seedVars
  <2>5. Places'
    BY <1>0, <1>16, PlacesKept DEF get_rethrows, mainVars, consumerVars, seedVars, Places, SomePlace
  <2> QED BY <2>1, <2>2, <2>3, <2>4, <2>5 DEF Places, IndInv
<1>17. ASSUME NEW c \in Consumers, spawn(c) PROVE IndInv'
  <2>1. TypeOK'
    BY <1>0, <1>17 DEF spawn, mainVars, seedVars, TypeOK, ConsumerPCs
  <2>2. Locking'
    BY <1>0, <1>17 DEF spawn, mainVars, Locking, Pushing, TypeOK
  <2>3. Progress'
    BY <1>0, <1>17 DEF spawn, mainVars, Progress
  <2>4. Results'
    BY <1>0, <1>17 DEF spawn, mainVars, Results, Submitted, Collected, CnFirst, VaFirst, CnOf
  <2>5. Places'
    BY <1>0, <1>17, PlacesStay DEF spawn, mainVars
  <2> QED BY <2>1, <2>2, <2>3, <2>4, <2>5 DEF Places, IndInv
<1>18. ASSUME push_sentinel PROVE IndInv'
  <2>1. ~Somewhere(Sentinel)
    BY <1>0, <1>18 DEF push_sentinel, Places, SomePlace
  <2>2. TypeOK'
    <3>1. queue' \in Seq(Tasks \cup {Sentinel})
      BY <1>0, <1>18, QueueAfterPush DEF push_sentinel, TypeOK
    <3> QED BY <1>0, <1>18, <3>1 DEF push_sentinel, consumerVars, seedVars, TypeOK, MainPCs
  <2>3. Locking'
    BY <1>0, <1>18, ThreadsAssumption DEF push_sentinel, consumerVars, Locking, TypeOK
  <2>4. Progress'
    BY <1>0, <1>a, <1>18 DEF push_sentinel, Progress
  <2>5. Results'
    <3>1. Submitted' = Submitted /\ Collected' = Collected
      BY <1>18 DEF push_sentinel, Submitted, Collected
    <3> QED BY <1>0, <1>18, <3>1 DEF push_sentinel, Results
  <2>6. /\ OnePlace'
        /\ \A t : Somewhere(t)' <=> Somewhere(t) \/ t = Sentinel
    BY <1>0, <1>18, <2>1, PlacesPush DEF push_sentinel, consumerVars
  <2>7. Holding'
    BY <1>0, <1>18 DEF push_sentinel, consumerVars, Places, Holding
  <2>8. SomePlace'
    BY <1>0, <1>18, <2>6, TasksDiffer DEF push_sentinel, consumerVars, Places, SomePlace
  <2> QED BY <2>2, <2>3, <2>4, <2>5, <2>6, <2>7, <2>8 DEF Places, IndInv
<1> QED
  BY <1>1, <1>2, <1>3, <1>4, <1>5, <1>6, <1>7, <1>8, <1>9, <1>10, <1>11, <1>12, <1>13, <1>14,
     <1>15, <1>16, <1>17, <1>18 DEF MainNext

\* Every step of consumer_thread_func keeps the invariant.
LEMMA ConsumerStep ==
  ASSUME IndInv, NEW c \in Consumers, ConsumerNext(c)
  PROVE  IndInv'
<1>0. Places /\ Results /\ Progress /\ Locking /\ TypeOK
  BY DEF Places, IndInv
<1>1. UNCHANGED <<opts, mpc, nva, ncn, crashed, seed, draws>>
  BY DEF ConsumerNext, consumer_lock, poll_empty, pop, invoke, clear, invoke_sentinel,
         push_sentinel_again, mainVars, seedVars
<1>2. Progress' /\ Submitted' = Submitted /\ Collected' = Collected
  BY <1>0, <1>1 DEF Progress, Submitted, Collected, VaFirst, CnFirst, CnOf
<1>3. Locking'
  BY <1>0, <1>1, ThreadsAssumption
     DEF ConsumerNext, consumer_lock, poll_empty, pop, invoke, clear, invoke_sentinel,
         push_sentinel_again, Locking, Pushing, TypeOK
<1>4. CASE consumer_lock(c) \/ poll_empty(c) \/ clear(c) \/ invoke_sentinel(c)
  <2>1. UNCHANGED <<queue, future>>
    BY <1>4 DEF consumer_lock, poll_empty, clear, invoke_sentinel
  <2>2. TypeOK'
    BY <1>0, <1>1, <1>4, <2>1
       DEF consumer_lock, poll_empty, clear, invoke_sentinel, TypeOK, ConsumerPCs
  <2>3. Results'
    BY <1>0, <1>2, <2>1 DEF Results
  <2>4. Places'
    BY <1>0, <1>1, <1>4, <2>1, PlacesStay
  <2> QED BY <1>2, <1>3, <2>2, <2>3, <2>4 DEF Places, IndInv
<1>5. CASE pop(c)
  <2>1. queue' \in Seq(Tasks \cup {Sentinel}) /\ Head(queue) \in Tasks \cup {Sentinel}
    BY <1>0, <1>5, QueueAfterPop DEF pop, TypeOK, Places, OnePlace
  <2>2. TypeOK'
    BY <1>0, <1>1, <1>5, <2>1 DEF pop, TypeOK, ConsumerPCs
  <2>3. Results'
    BY <1>0, <1>2, <1>5 DEF Results, pop
  <2>4. Places'
    BY <1>0, <1>5, PlacesPop
  <2> QED BY <1>2, <1>3, <2>2, <2>3, <2>4 DEF Places, IndInv
<1>6. CASE invoke(c)
  <2>1. /\ Places'
        /\ cur[c] \in Tasks /\ future[cur[c]] = "pending"
        /\ \E result \in Settled : future' = [future EXCEPT ![cur[c]] = result]
    BY <1>0, <1>6, PlacesInvoke
  <2>2. PICK result \in Settled : future' = [future EXCEPT ![cur[c]] = result]
    BY <2>1
  <2>3. \A t \in Tasks : future'[t] = IF t = cur[c] THEN result ELSE future[t]
    BY <1>0, <2>1, <2>2 DEF TypeOK
  <2>4. TypeOK'
    BY <1>0, <1>1, <1>6, <2>1, <2>2 DEF invoke, TypeOK, ConsumerPCs, Settled
  <2>5. Results'
    BY <1>0, <1>2, <2>1, <2>2, <2>3, PlanSets DEF Results, Settled
  <2> QED BY <1>2, <1>3, <2>1, <2>4, <2>5 DEF Places, IndInv
<1>7. CASE push_sentinel_again(c)
  <2>1. queue' \in Seq(Tasks \cup {Sentinel})
    BY <1>0, <1>7, QueueAfterPush DEF push_sentinel_again, TypeOK
  <2>2. TypeOK'
    BY <1>0, <1>1, <1>7, <2>1 DEF push_sentinel_again, TypeOK, ConsumerPCs
  <2>3. Results'
    BY <1>0, <1>2, <1>7 DEF Results, push_sentinel_again
  <2>4. Places'
    BY <1>0, <1>7, PlacesResign
  <2> QED BY <1>2, <1>3, <2>2, <2>3, <2>4 DEF Places, IndInv
<1> QED BY <1>4, <1>5, <1>6, <1>7 DEF ConsumerNext

\* So does a step of nobody.
LEMMA StutterStep == IndInv /\ UNCHANGED vars => IndInv'
  BY DEF vars, mainVars, consumerVars, seedVars, IndInv, TypeOK, Locking, Pushing, Progress,
         Results, Holding, OnePlace, SomePlace, Submitted, Collected, VaFirst, CnFirst, CnOf,
         Queued, Holds, Somewhere

\* Every reachable state satisfies the inductive invariant.
THEOREM Invariance == Spec => []IndInv
<1>1. IndInv /\ [Next]_vars => IndInv'
  BY MainStep, ConsumerStep, StutterStep DEF Next
<1> QED BY InitIndInv, <1>1, PTL DEF Spec
-----------------------------------------------------------------------------
(* What follows from the invariant                                         *)

\* In every reachable state the variables have their types.
THEOREM TypeCorrect == Spec => []TypeOK
<1>1. IndInv => TypeOK
  BY DEF IndInv
<1> QED BY <1>1, Invariance, PTL

\* Main pushes a task only after it has got the values the task needs.
LEMMA NeedsCollected ==
  ASSUME TypeOK, Progress
  PROVE  \A t \in Submitted : Needs(t) \subseteq Collected
<1>0. /\ Needs(Tg) = {} /\ Needs(Cg) = {Tg}
      /\ \A t \in VaTasks : Needs(t) = {Tg, Cg}
      /\ \A t \in CnTasks : Needs(t) = {Tg, Cg, Va(t.var)} /\ t.var \in Vars
  BY TaskFields, TaskShapes DEF Needs
<1>1. opts.var \in Nat /\ nva \in Nat /\ \A n \in Vars : n \in Nat
  BY BoundsAssumption DEF TypeOK, Options, Vars
<1>2. \A i \in Vars, n \in Nat : i < n => Va(i) \in VaFirst(n)
  BY TaskFields, TaskShapes DEF VaFirst
<1>3. \A t \in CnTasks, n \in Nat : t.var < n => Va(t.var) \in VaFirst(n)
  BY <1>0, <1>2
<1>4. \A n \in Nat : \A t \in CnFirst(n) : Needs(t) \subseteq {Tg, Cg} \cup VaFirst(n)
  BY <1>0, <1>3 DEF CnFirst
<1>5. \A n, m : \A t \in VaFirst(n) : Needs(t) \subseteq {Tg, Cg} \cup VaFirst(m)
  BY <1>0 DEF VaFirst
<1>6. \A n : \A t \in CnOf(nva, n) : Needs(t) \subseteq {Tg, Cg} \cup VaFirst(nva + 1)
  <2>1. nva \in Vars => Va(nva) \in VaFirst(nva + 1)
    BY <1>1, <1>2
  <2> QED BY <1>0, <2>1 DEF CnOf
<1>7. CASE mpc \in {"spawn", "tg.push", "tg.get", "cg.push", "cg.get"}
  BY <1>0, <1>7 DEF Submitted, Collected
<1>8. CASE mpc = "va.push"
  BY <1>0, <1>8 DEF Submitted, Collected, VaFirst
<1>9. CASE mpc = "va.get"
  BY <1>0, <1>1, <1>4, <1>5, <1>9 DEF Submitted, Collected
<1>10. CASE mpc \in {"cn.push", "cn.get"}
  <2>1. \A t \in CnFirst(nva) : Needs(t) \subseteq {Tg, Cg} \cup VaFirst(nva + 1)
    <3>1. \A t \in VaTasks : t.var \in Nat
      BY <1>1, TaskShapes, TaskFields
    <3>2. VaFirst(nva) \subseteq VaFirst(nva + 1)
      BY <1>1, <3>1 DEF VaFirst
    <3> QED BY <1>1, <1>4, <3>2
  <2>2. \A t \in CnFirst(nva + 1) : Needs(t) \subseteq {Tg, Cg} \cup VaFirst(nva + 1)
    BY <1>1, <1>4
  <2> QED BY <1>0, <1>5, <1>6, <1>10, <2>1, <2>2 DEF Submitted, Collected
<1>11. CASE mpc \in {"sentinel", "join", "done"}
  <2>1. Submitted = Planned(opts) /\ Collected = Planned(opts)
    BY <1>11 DEF Submitted, Collected
  <2> QED BY <1>0, <1>1, <1>4, <1>5, <2>1, PlanSets DEF TypeOK, Options
<1> QED BY <1>7, <1>8, <1>9, <1>10, <1>11 DEF TypeOK, MainPCs

\* A held task was submitted when its inputs had been collected.
LEMMA InputsReadyInv == IndInv => InputsReady
<1> SUFFICES ASSUME IndInv, NEW t \in Tasks, Somewhere(t), NEW n \in Needs(t)
             PROVE  future[n] = "value"
  BY DEF InputsReady, Somewhere
<1>1. future[t] = "pending"
  BY DEF IndInv, SomePlace
<1>2. t \in Submitted
  BY <1>1 DEF IndInv, Results
<1>3. n \in Collected
  BY <1>2, NeedsCollected DEF IndInv
<1> QED BY <1>3 DEF IndInv, Results

\* A task that the consumers have was created from results that exist.
THEOREM InputsAreReady == Spec => []InputsReady
  BY InputsReadyInv, Invariance, PTL

\* When main is past the last level, the plan is executed.
LEMMA PlanDone ==
  ASSUME IndInv, mpc \in {"join", "done"}
  PROVE  \A t \in Planned(opts) : future[t] = "value"
  BY DEF IndInv, Results, Collected

\* The sentinel is in some place only from push_sentinel_task on.
LEMMA SentinelLastInv == IndInv => SentinelLast
<1> SUFFICES ASSUME IndInv,
                    \/ Queued(Sentinel)
                    \/ \E c \in Consumers : Holds(c, Sentinel) \/ cpc[c] = "done"
             PROVE  \A t \in Planned(opts) : future[t] = "value"
  BY DEF SentinelLast
<1>1. mpc \in {"join", "done"}
  BY DEF IndInv, SomePlace, Somewhere
<1> QED BY <1>1, PlanDone

\* A consumer that ends, or that is about to, leaves no work behind.
THEOREM SentinelIsLast == Spec => []SentinelLast
  BY SentinelLastInv, Invariance, PTL

\* When main has joined, nothing but one sentinel is in any place.
LEMMA CleanShutdownInv == IndInv => CleanShutdown
<1> SUFFICES ASSUME IndInv, mpc = "done"
             PROVE  /\ \A t \in Planned(opts) : future[t] = "value"
                    /\ \A c \in Consumers : cpc[c] = "done"
                    /\ queue = <<Sentinel>>
  BY DEF CleanShutdown
<1>1. /\ \A t \in Planned(opts) : future[t] = "value"
      /\ \A c \in Consumers : cpc[c] = "done"
  BY PlanDone DEF IndInv, SomePlace
<1>2. \A t \in Tasks : future[t] # "pending"
  BY <1>1 DEF IndInv, Results, Submitted
<1>3. \A t \in Tasks : ~Queued(t)
  BY <1>2 DEF IndInv, SomePlace, Somewhere
<1>4. Queued(Sentinel)
  BY <1>1 DEF IndInv, SomePlace, Somewhere, Holds
<1>5. /\ queue \in Seq(Tasks \cup {Sentinel})
      /\ \A k \in 1..Len(queue) : queue[k] = Sentinel
      /\ Len(queue) \in Nat /\ Len(queue) # 0
  BY <1>3, <1>4 DEF IndInv, TypeOK, Queued
<1>6. \A k, m \in 1..Len(queue) : k = m
  BY <1>5 DEF IndInv, OnePlace
<1>7. Len(queue) = 1
  BY <1>5, <1>6
<1>8. queue = <<Sentinel>>
  BY <1>5, <1>7
<1> QED BY <1>1, <1>8

\* run returns with every planned value, all consumers joined and one sentinel left.
THEOREM ShutdownIsClean == Spec => []CleanShutdown
  BY CleanShutdownInv, Invariance, PTL
\* A pending task is in one place: the conjuncts OnePlace and SomePlace.
LEMMA NothingLostInv == IndInv => NothingLost
<1> SUFFICES ASSUME IndInv, NEW t \in Tasks
             PROVE  Cardinality({k \in DOMAIN queue : queue[k] = t})
                    + Cardinality({c \in Consumers : Holds(c, t)})
                      = IF future[t] = "pending" THEN 1 ELSE 0
  BY DEF NothingLost
<1> DEFINE Q == {k \in DOMAIN queue : queue[k] = t}
           H == {c \in Consumers : Holds(c, t)}
<1>1. /\ \A k, m \in Q : k = m
      /\ \A c, d \in H : c = d
      /\ Q = {} \/ H = {}
      /\ future[t] = "pending" <=> Q # {} \/ H # {}
  BY DEF IndInv, OnePlace, SomePlace, Somewhere, Queued
<1> HIDE DEF Q, H
<1>2. \A S : (\A x, y \in S : x = y) => Cardinality(S) = IF S = {} THEN 0 ELSE 1
  <2> SUFFICES ASSUME NEW S, \A x, y \in S : x = y, S # {} PROVE Cardinality(S) = 1
    BY FS_EmptySet
  <2>1. PICK x \in S : TRUE
    OBVIOUS
  <2>2. S = {x}
    BY <2>1
  <2> QED BY <2>2, FS_Singleton
<1>3. /\ Cardinality(Q) = IF Q = {} THEN 0 ELSE 1
      /\ Cardinality(H) = IF H = {} THEN 0 ELSE 1
  BY <1>1, <1>2
<1>4. Cardinality(Q) + Cardinality(H) = IF future[t] = "pending" THEN 1 ELSE 0
  BY <1>1, <1>3
<1> QED BY <1>4 DEF Q, H

\* No task is lost or run twice: a pending task is in exactly one place.
THEOREM NothingIsLost == Spec => []NothingLost
  BY NothingLostInv, Invariance, PTL

-----------------------------------------------------------------------------
(* What a step may do to the futures                                       *)

\* What is submitted is planned.
LEMMA SubmittedPlanned ==
  ASSUME TypeOK, Progress
  PROVE  Submitted \subseteq Planned(opts)
<1>a. opts.var \in Nat /\ nva \in Nat /\ nva <= opts.var /\ opts.splits \in Nat /\ ncn \in Nat /\ ncn <= opts.splits
  BY CounterTypes
<1>b. \A t \in CnTasks : t.var \in Nat /\ t.split \in Nat
  BY BoundsAssumption, TaskShapes, TaskFields DEF Vars, Splits
<1>c. \A t \in VaTasks : t.var \in Nat
  BY BoundsAssumption, TaskShapes, TaskFields DEF Vars
<1>1. \A n \in Nat : n <= opts.var => VaFirst(n) \subseteq VaFirst(opts.var)
  BY <1>a, <1>c DEF VaFirst
<1>2. \A n \in Nat : n <= opts.var => CnFirst(n) \subseteq CnFirst(opts.var)
  BY <1>a, <1>b DEF CnFirst
<1>3. nva < opts.var => CnOf(nva, ncn) \subseteq CnFirst(opts.var)
  BY <1>a, <1>b DEF CnOf, CnFirst
<1>4. /\ {Tg} \subseteq Planned(opts)
      /\ ~opts.stop_tg => {Tg, Cg} \subseteq Planned(opts)
      /\ ~opts.stop_tg /\ ~opts.stop_cg => {Tg, Cg} \cup VaFirst(opts.var) \subseteq Planned(opts)
      /\ ~opts.stop_tg /\ ~opts.stop_cg /\ ~opts.stop_va => CnFirst(opts.var) \subseteq Planned(opts)
  BY DEF Planned, VaFirst, CnFirst
<1>5. CASE mpc \in {"spawn", "tg.push", "tg.get", "cg.push", "cg.get"}
  BY <1>4, <1>5 DEF Submitted, Progress
<1>6. CASE mpc \in {"va.push", "va.get"}
  BY <1>a, <1>1, <1>2, <1>4, <1>6 DEF Submitted, Progress
<1>7. CASE mpc \in {"cn.push", "cn.get"}
  <2>1. nva < opts.var /\ nva + 1 \in Nat /\ nva + 1 <= opts.var
    BY <1>a, <1>7 DEF Progress
  <2> QED BY <1>a, <1>2, <1>3, <1>4, <1>7, <2>1 DEF Submitted, Progress
<1>8. CASE mpc \in {"sentinel", "join", "done"}
  BY <1>8 DEF Submitted
<1> QED BY <1>5, <1>6, <1>7, <1>8 DEF TypeOK, MainPCs

\* A task that was created has its inputs, and it is one of the plan.
Created ==
  \A t \in Tasks : future[t] # "none" =>
    t \in Planned(opts) /\ \A n \in Needs(t) : future[n] = "value"

\* What was submitted belongs to the plan, and its inputs have values.
LEMMA CreatedInv == IndInv => Created
  BY NeedsCollected, SubmittedPlanned DEF IndInv, Results, Created

\* create_task is Submit.
LEMMA CreateSubmits ==
  ASSUME IndInv, IndInv', ~crashed, NEW t \in Tasks, t \notin Submitted, create_and_push(t),
         mpc # "done", mpc' # "done"
  PROVE  Abstract!Submit(t)
<1>1. future[t] = "none"
  BY DEF IndInv, Results
<1>2. /\ future' = [future EXCEPT ![t] = "pending"] /\ UNCHANGED <<opts, crashed>>
      /\ \A n \in Tasks : future'[n] = IF n = t THEN "pending" ELSE future[n]
  BY DEF create_and_push, IndInv, TypeOK
<1>3. Created'
  BY CreatedInv, PTL
<1>4. Needs(t) \subseteq Tasks
  BY TaskShapes, TaskFields DEF Needs
<1>5. t \in Planned(opts) /\ \A n \in Needs(t) : future[n] = "value"
  BY <1>2, <1>3, <1>4 DEF Created
<1> QED BY <1>1, <1>2, <1>5 DEF Abstract!Submit, outcome

\* Every step of main is a step of the plan, or changes nothing of it.
LEMMA MainImplements ==
  ASSUME IndInv, IndInv', ~crashed, MainNext
  PROVE  Abstract!Next \/ UNCHANGED Abstract!vars
<1>0. TypeOK /\ Progress
  BY DEF IndInv
<1>1. CASE run_typegraph_push
  BY <1>0, <1>1, PushIsNew, CreateSubmits DEF run_typegraph_push, Abstract!Next
<1>2. CASE run_callgraph_push
  BY <1>0, <1>2, PushIsNew, CreateSubmits DEF run_callgraph_push, Abstract!Next
<1>3. CASE run_varassign_push
  BY <1>0, <1>3, PushIsNew, CreateSubmits DEF run_varassign_push, Abstract!Next
<1>4. CASE run_controlgraph_push
  BY <1>0, <1>4, PushIsNew, CreateSubmits DEF run_controlgraph_push, Abstract!Next
<1>5. CASE join
  <2>1. \A t \in Planned(opts) : future[t] = "value"
    BY <1>5, PlanDone DEF join
  <2> QED BY <1>5, <2>1 DEF join, outcome, Abstract!Next, Abstract!Finish
<1>6. CASE get_rethrows
  <2>1. PICK t \in Awaited : future[t] = "exception"
    BY <1>6 DEF get_rethrows
  <2>2. t \in Tasks /\ mpc # "done"
    BY <1>0, <2>1, CounterTypes, TaskShapes DEF Awaited, Progress, Vars, Splits
  <2>3. t \in Planned(opts)
    BY <2>1, <2>2, CreatedInv DEF Created
  <2> QED BY <1>6, <2>1, <2>2, <2>3 DEF get_rethrows, mainVars, outcome, Abstract!Next, Abstract!Abort
<1>7. CASE \/ \E c \in Consumers : spawn(c)
           \/ spawned \/ main_lock \/ run_typegraph_get \/ run_callgraph_get
           \/ run_varassign_pushed \/ run_varassign_get \/ run_varassign_return
           \/ run_controlgraph_pushed \/ run_controlgraph_get \/ run_controlgraph_return
           \/ push_sentinel
  <2>1. UNCHANGED <<opts, future, crashed>>
    BY <1>7 DEF spawn, spawned, main_lock, run_typegraph_get, run_callgraph_get,
       run_varassign_pushed, run_varassign_get, run_varassign_return, run_controlgraph_pushed,
       run_controlgraph_get, run_controlgraph_return, push_sentinel
  <2>2. mpc # "done" /\ mpc' # "done"
    BY <1>7 DEF spawn, spawned, main_lock, Pushing, run_typegraph_get, run_callgraph_get,
       run_varassign_pushed, run_varassign_get, run_varassign_return, run_controlgraph_pushed,
       run_controlgraph_get, run_controlgraph_return, push_sentinel, mainVars
  <2> QED BY <2>1, <2>2 DEF outcome, Abstract!vars
<1> QED BY <1>1, <1>2, <1>3, <1>4, <1>5, <1>6, <1>7 DEF MainNext

\* A step of a consumer settles a task, or changes nothing of the plan.
LEMMA ConsumerImplements ==
  ASSUME IndInv, ~crashed, NEW c \in Consumers, ConsumerNext(c)
  PROVE  Abstract!Next \/ UNCHANGED Abstract!vars
<1>1. UNCHANGED <<opts, mpc, crashed>>
  BY DEF ConsumerNext, consumer_lock, poll_empty, pop, invoke, clear, invoke_sentinel,
         push_sentinel_again, mainVars
<1>2. CASE invoke(c)
  <2>1. /\ cur[c] \in Tasks /\ future[cur[c]] = "pending"
        /\ \E result \in Settled : future' = [future EXCEPT ![cur[c]] = result]
    BY <1>2, PlacesInvoke DEF IndInv, Places
  <2>2. mpc # "done"
    BY <1>2 DEF invoke, IndInv, SomePlace
  <2>3. \E result \in {"value", "exception"} : Abstract!Settle(cur[c], result)
    BY <1>1, <2>1, <2>2 DEF Settled, Abstract!Settle, outcome
  <2> QED BY <2>1, <2>3 DEF Abstract!Next
<1>3. CASE ~invoke(c)
  <2>1. UNCHANGED future
    BY <1>3 DEF ConsumerNext, consumer_lock, poll_empty, pop, clear, invoke_sentinel, push_sentinel_again
  <2> QED BY <1>1, <2>1 DEF outcome, Abstract!vars
<1> QED BY <1>2, <1>3

\* Every step of the task system is a step of Pipeline or a stutter.
LEMMA StepImplements ==
  ASSUME IndInv, IndInv', [Next]_vars
  PROVE  Abstract!Next \/ UNCHANGED Abstract!vars
<1>1. CASE UNCHANGED vars
  BY <1>1 DEF vars, mainVars, outcome, Abstract!vars
<1>2. CASE ~crashed /\ MainNext
  BY <1>2, MainImplements
<1>3. CASE ~crashed /\ \E c \in Consumers : ConsumerNext(c)
  BY <1>3, ConsumerImplements
<1> QED BY <1>1, <1>2, <1>3 DEF Next

\* The threads, the queue and the mutex implement the plan of Pipeline.
THEOREM Refinement == Spec => ImplementsPipeline
<1>1. Init => Abstract!Init
  <2> SUFFICES ASSUME Init PROVE Abstract!Init
    OBVIOUS
  <2>1. TypeOK
    BY InitIndInv DEF IndInv
  <2>2. Planned(opts) \subseteq Tasks
    BY TaskShapes DEF Planned
  <2> QED BY <2>2 DEF Init, Abstract!Init, outcome
<1>2. IndInv /\ IndInv' /\ [Next]_vars => [Abstract!Next]_(Abstract!vars)
  BY StepImplements
<1> QED BY <1>1, <1>2, Invariance, PTL DEF Spec, ImplementsPipeline, Abstract!Spec

\* The result of a task is final: no task is run twice.
THEOREM ResultsAreFinal == Spec => SettledOnce
<1>1. ASSUME IndInv, IndInv', [Next]_vars, NEW t \in Tasks, future[t] \in Settled
      PROVE  future'[t] = future[t]
  <2>1. Abstract!Next \/ UNCHANGED Abstract!vars
    BY <1>1, StepImplements
  <2>2. ASSUME NEW u \in Tasks, Abstract!Submit(u) PROVE future'[t] = future[t]
    BY <1>1, <2>2 DEF Abstract!Submit, IndInv, TypeOK, Settled
  <2>3. ASSUME NEW u \in Tasks, NEW result \in {"value", "exception"}, Abstract!Settle(u, result)
        PROVE  future'[t] = future[t]
    BY <1>1, <2>3 DEF Abstract!Settle, IndInv, TypeOK, Settled
  <2>4. CASE Abstract!Finish \/ Abstract!Abort \/ UNCHANGED Abstract!vars
    BY <2>4 DEF Abstract!Finish, Abstract!Abort, Abstract!vars
  <2> QED BY <2>1, <2>2, <2>3, <2>4 DEF Abstract!Next
<1>2. IndInv /\ IndInv' /\ [Next]_vars
        => [\A t \in Tasks : future[t] \in Settled => future'[t] = future[t]]_vars
  BY <1>1
<1> QED BY <1>2, Invariance, PTL DEF Spec, SettledOnce
-----------------------------------------------------------------------------
(* The seeds do not depend on the schedule.                                *)

\* How many seeds main has drawn, as a function of where it is.
Drawn ==
  CASE mpc \in {"spawn", "tg.push"} -> 0
    [] mpc \in {"tg.get", "cg.push"} -> FirstSeed
    [] mpc = "cg.get"  -> FirstSeed + 1
    [] mpc = "va.push" -> FirstSeed + 1 + nva
    [] mpc = "va.get"  -> FirstSeed + 1 + opts.var + (IF opts.stop_va THEN 0 ELSE nva * opts.splits)
    [] mpc = "cn.push" -> FirstSeed + 1 + opts.var + nva * opts.splits + ncn
    [] mpc = "cn.get"  -> FirstSeed + 1 + opts.var + nva * opts.splits + opts.splits
    [] OTHER -> draws

SeedInv == draws = Drawn /\ SeedsReproducible

\* Only the four pushes draw.
LEMMA SeedDraw ==
  ASSUME TypeOK, SeedInv, opts' = opts, NEW t \in Tasks, SeedOf(t) = draws, draw_seed(t)
  PROVE  SeedsReproducible'
<1>1. \A u : SeedOf(u)' = SeedOf(u)
  BY DEF SeedOf, FirstSeed
<1>2. \A u \in Tasks : seed'[u] = IF u = t THEN draws ELSE seed[u]
  BY DEF draw_seed, TypeOK
<1> QED BY <1>1, <1>2 DEF SeedInv, SeedsReproducible

\* Steps that draw no seed keep the seeds reproducible.
LEMMA SeedKept ==
  ASSUME SeedInv, UNCHANGED <<opts, seed>>
  PROVE  SeedsReproducible'
<1>1. \A u : SeedOf(u)' = SeedOf(u)
  BY DEF SeedOf, FirstSeed
<1> QED BY <1>1 DEF SeedInv, SeedsReproducible

\* So do those that draw one: the number of draws is counted by the loops.
LEMMA SeedStep ==
  ASSUME IndInv, SeedInv, [Next]_vars
  PROVE  SeedInv'
<1>0. TypeOK /\ Progress
  BY DEF IndInv
<1>a. /\ opts.var \in Nat /\ opts.splits \in Nat /\ nva \in Nat /\ ncn \in Nat /\ draws \in Nat
      /\ FirstSeed \in Nat /\ opts.usetg \in BOOLEAN /\ opts.stop_va \in BOOLEAN
  BY <1>0, CounterTypes DEF TypeOK, FirstSeed
<1>b. /\ nva * opts.splits \in Nat /\ 0 * opts.splits = 0
      /\ (nva + 1) * opts.splits = nva * opts.splits + opts.splits
  BY <1>a
<1>1. CASE run_typegraph_push
  <2>1. opts' = opts /\ SeedsReproducible'
    BY <1>0, <1>1, SeedDraw, SeedKept, TaskShapes, TaskFields
       DEF run_typegraph_push, create_and_push, seedVars, SeedOf, SeedInv, Drawn
  <2>2. draws' = Drawn'
    BY <1>0, <1>1, <2>1 DEF run_typegraph_push, seedVars, draw_seed, SeedInv, Drawn, FirstSeed
  <2> QED BY <2>1, <2>2 DEF SeedInv
<1>2. CASE run_callgraph_push
  <2>1. opts' = opts /\ SeedsReproducible'
    BY <1>0, <1>2, SeedDraw, TaskShapes, TaskFields DEF run_callgraph_push, create_and_push, SeedOf, SeedInv, Drawn
  <2>2. draws' = Drawn'
    BY <1>0, <1>a, <1>2, <2>1 DEF run_callgraph_push, draw_seed, SeedInv, Drawn, FirstSeed
  <2> QED BY <2>1, <2>2 DEF SeedInv
<1>3. CASE run_varassign_push
  <2>1. Va(nva) \in Tasks /\ SeedOf(Va(nva)) = draws
    BY <1>0, <1>3, PushIsNew, TaskFields DEF run_varassign_push, SeedOf, SeedInv, Drawn
  <2>2. opts' = opts /\ SeedsReproducible'
    BY <1>0, <1>3, <2>1, SeedDraw DEF run_varassign_push, create_and_push
  <2>3. draws' = Drawn'
    BY <1>a, <1>3, <2>2 DEF run_varassign_push, draw_seed, SeedInv, Drawn, FirstSeed
  <2> QED BY <2>2, <2>3 DEF SeedInv
<1>4. CASE run_controlgraph_push
  <2>1. Cn(nva, ncn) \in Tasks /\ SeedOf(Cn(nva, ncn)) = draws
    BY <1>0, <1>4, PushIsNew, TaskFields DEF run_controlgraph_push, SeedOf, SeedInv, Drawn
  <2>2. opts' = opts /\ SeedsReproducible'
    BY <1>0, <1>4, <2>1, SeedDraw DEF run_controlgraph_push, create_and_push
  <2>3. draws' = Drawn'
    BY <1>a, <1>b, <1>4, <2>2 DEF run_controlgraph_push, draw_seed, SeedInv, Drawn, FirstSeed
  <2> QED BY <2>2, <2>3 DEF SeedInv
<1>5. CASE run_varassign_pushed \/ run_varassign_get \/ run_controlgraph_pushed
           \/ run_controlgraph_get \/ run_controlgraph_return
  <2>1. UNCHANGED <<opts, seed, draws>>
    BY <1>5 DEF run_varassign_pushed, run_varassign_get, run_controlgraph_pushed,
                run_controlgraph_get, run_controlgraph_return, seedVars
  <2>2. draws' = Drawn'
    <3>1. CASE run_varassign_pushed
      BY <1>a, <1>b, <2>1, <3>1 DEF run_varassign_pushed, SeedInv, Drawn, FirstSeed
    <3>2. CASE run_varassign_get
      BY <1>a, <1>b, <1>0, <2>1, <3>2 DEF run_varassign_get, SeedInv, Drawn, FirstSeed, Progress
    <3>3. CASE run_controlgraph_pushed
      BY <1>a, <1>b, <2>1, <3>3 DEF run_controlgraph_pushed, SeedInv, Drawn, FirstSeed
    <3>4. CASE run_controlgraph_get
      BY <1>a, <1>b, <2>1, <3>4 DEF run_controlgraph_get, SeedInv, Drawn, FirstSeed
    <3>5. CASE run_controlgraph_return
      BY <1>0, <1>a, <1>b, <2>1, <3>5 DEF run_controlgraph_return, SeedInv, Drawn, FirstSeed, Progress
    <3> QED BY <1>5, <3>1, <3>2, <3>3, <3>4, <3>5
  <2> QED BY <2>1, <2>2, SeedKept DEF SeedInv
<1>6. CASE \/ UNCHANGED vars \/ \E c \in Consumers : spawn(c) \/ ConsumerNext(c)
           \/ spawned \/ main_lock \/ run_typegraph_get \/ run_callgraph_get
           \/ run_varassign_return \/ push_sentinel \/ join \/ get_rethrows
  <2>1. UNCHANGED <<opts, seed, draws>>
    BY <1>6 DEF vars, spawn, ConsumerNext, consumer_lock, poll_empty, pop, invoke, clear,
       invoke_sentinel, push_sentinel_again, spawned, main_lock, run_typegraph_get,
       run_callgraph_get, run_varassign_return, push_sentinel, join, get_rethrows, seedVars
  <2>2. \/ UNCHANGED <<mpc, nva, ncn>>
        \/ mpc' \in {"sentinel", "join", "done"}
        \/ mpc = "spawn" /\ mpc' = "tg.push"
        \/ mpc = "tg.get" /\ mpc' = "cg.push"
        \/ mpc = "cg.get" /\ mpc' = "va.push" /\ nva' = nva
    BY <1>6 DEF vars, spawn, ConsumerNext, consumer_lock, poll_empty, pop, invoke, clear,
       invoke_sentinel, push_sentinel_again, spawned, main_lock, run_typegraph_get,
       run_callgraph_get, run_varassign_return, push_sentinel, join, get_rethrows, mainVars
  <2>3. draws' = Drawn'
    BY <1>0, <1>a, <2>1, <2>2 DEF SeedInv, Drawn, FirstSeed, Progress
  <2> QED BY <2>1, <2>3, SeedKept DEF SeedInv
<1> QED BY <1>1, <1>2, <1>3, <1>4, <1>5, <1>6 DEF Next, MainNext

\* Which draw seeds a task is settled by the options alone, not by the threads.
THEOREM SeedsAreReproducible == Spec => []SeedsReproducible
<1>1. Init => SeedInv
  BY DEF Init, SeedInv, Drawn, SeedsReproducible
<1>2. IndInv /\ SeedInv /\ [Next]_vars => SeedInv'
  BY SeedStep
<1>3. SeedInv => SeedsReproducible
  BY DEF SeedInv
<1> QED BY <1>1, <1>2, <1>3, Invariance, PTL DEF Spec
=============================================================================
