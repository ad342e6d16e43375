------------------------------- MODULE Config -------------------------------
(***************************************************************************)
(* The configuration: options are registered with defaults, overridden     *)
(* from the command line one after another, and from then on answer get()  *)
(* with a fixed value or a random one. The numbers come from a generator   *)
(* that all threads holding the configuration share under its mutex.       *)
(*                                                                         *)
(* Code: lib/config/configs.cc, include/config/{configs,options}.h         *)
(***************************************************************************)
EXTENDS Integers, Sequences, FiniteSets

CONSTANTS Registered,  \* the options with their defaults, in the order of ids
          Border,      \* probf_borders: entries of a probf, total of a pflag
          Lines,       \* command lines: what is given for every option
          Ints,        \* the values of int
          Threads,     \* who draws from the configuration
          Nobody,      \* the owner of a free mutex
          MaxDraws     \* bound on the numbers drawn

Options == DOMAIN Registered

\* The kinds of options. A bool is 0 or 1; strings are left out.
IsOption(o) ==
  \/ o \in [kind : {"single", "single_bool"}, val : Ints]
  \/ o \in [kind : {"diap"}, from : Ints, to : Ints]
  \/ o \in [kind : {"pflag"}, prob : Ints, total : Ints]
  \/ o \in [kind : {"probf"}, probs : Seq(Ints)]

\* What is given under a name: nothing or one value.
optional(x, S) == x = <<>> \/ (x = <<x[1]>> /\ x[1] \in S)

ASSUME OptionsAssumption ==
  /\ Options \subseteq Nat \ {0}
  /\ Registered \in Seq({Registered[i] : i \in Options})
  /\ Ints \subseteq Int /\ {0, 1} \subseteq Ints
  /\ Border \in [Options -> Ints \cap Nat]
  /\ \A i \in Options : IsOption(Registered[i])
  /\ \A l \in Lines, i \in Options :
       /\ optional(l[i].val, Ints) /\ optional(l[i].min, Ints) /\ optional(l[i].max, Ints)
       /\ optional(l[i].probs, Seq(Ints))
ASSUME ThreadsAssumption == Nobody \notin Threads /\ MaxDraws \in Nat

VARIABLES cmdline,   \* the command line
          registry,  \* option_registry, which becomes cfg_
          at,        \* the option that is read next
          status,    \* "reading", "ready", or "refused" after an exception
          mutex,     \* mt_mutex
          drawing,   \* of every thread, the option it draws and the number it has
          numbers,   \* the numbers the generator gave out, by their place in its sequence
          last       \* the last answer of get: the option and its value, or an exception

reading == <<cmdline, registry, at, status>>
asking  == <<mutex, drawing, numbers, last>>
config_vars == <<reading, asking>>

-----------------------------------------------------------------------------
(* Reading                                                                 *)

count(x) == Len(x)
given_or(x, default) == IF x = <<>> THEN <<default>> ELSE x

\* The variables map: what was given, or the default that register_option put
\* there. Only probability functions have none. "-no-x" is stored under a name
\* of its own that nobody reads.
vm(i) ==
  LET o == Registered[i]
      a == cmdline[i]
      none == [val |-> <<>>, min |-> <<>>, max |-> <<>>, probs |-> <<>>]
  IN  CASE o.kind \in {"single", "single_bool"} -> [none EXCEPT !.val = given_or(a.val, o.val)]
        [] o.kind = "diap"  -> [none EXCEPT !.min = given_or(a.min, o.from),
                                            !.max = given_or(a.max, o.to)]
        [] o.kind = "pflag" -> [none EXCEPT !.val = given_or(a.val, o.prob)]
        [] o.kind = "probf" -> [none EXCEPT !.probs = a.probs]

absent(i) == count(vm(i).val) + count(vm(i).probs) = 0 /\ count(vm(i).min) = 0 /\ count(vm(i).max) = 0

\* One bound of a diapason without the other: the defaults hide it.
one_sided(i) == count(vm(i).min) # count(vm(i).max)

\* Mutant: a list that is too long is taken.
refused_short(i) ==
  \/ one_sided(i)
  \/ Registered[i].kind = "probf" /\ Len(vm(i).probs[1]) < Border[i]

\* The exceptions of the loop: only one bound, and a probability function with a
\* wrong number of entries, which is stored before it is looked at.
refused(i) ==
  \/ one_sided(i)
  \/ Registered[i].kind = "probf" /\ Len(vm(i).probs[1]) # Border[i]

\* Mutant: the bounds are mixed up.
overridden_swapped(i) ==
  CASE Registered[i].kind = "diap"  ->
         [Registered[i] EXCEPT !.from = vm(i).max[1], !.to = vm(i).min[1]]
    [] Registered[i].kind = "pflag" ->
         [Registered[i] EXCEPT !.prob = vm(i).val[1], !.total = Border[i]]
    [] Registered[i].kind = "probf" -> [Registered[i] EXCEPT !.probs = vm(i).probs[1]]
    [] OTHER -> [Registered[i] EXCEPT !.val = vm(i).val[1]]

overridden(i) ==
  CASE Registered[i].kind = "diap"  ->
         [Registered[i] EXCEPT !.from = vm(i).min[1], !.to = vm(i).max[1]]
    [] Registered[i].kind = "pflag" ->
         [Registered[i] EXCEPT !.prob = vm(i).val[1], !.total = Border[i]]
    [] Registered[i].kind = "probf" -> [Registered[i] EXCEPT !.probs = vm(i).probs[1]]
    [] OTHER -> [Registered[i] EXCEPT !.val = vm(i).val[1]]

idle == [opt |-> 0, num |-> 0]

ConfigInit ==
  /\ cmdline \in Lines
  /\ registry = Registered
  /\ at = 1
  /\ status = "reading"
  /\ mutex = Nobody
  /\ drawing = [t \in Threads |-> idle]
  /\ numbers = <<>>
  /\ last = [opt |-> 0, ret |-> 0, threw |-> FALSE]

skip_option ==
  /\ status = "reading" /\ at \in Options
  /\ absent(at)
  /\ at' = at + 1
  /\ UNCHANGED <<cmdline, registry, status, asking>>

refuse_option ==
  /\ status = "reading" /\ at \in Options
  /\ ~absent(at) /\ refused(at)
  /\ status' = "refused"
  /\ registry' = IF one_sided(at) THEN registry ELSE [registry EXCEPT ![at] = overridden(at)]
  /\ UNCHANGED <<cmdline, at, asking>>

read_option ==
  /\ status = "reading" /\ at \in Options
  /\ ~absent(at) /\ ~refused(at)
  /\ registry' = [registry EXCEPT ![at] = overridden(at)]
  /\ at' = at + 1
  /\ UNCHANGED <<cmdline, status, asking>>

\* The configuration is built from the registry; postverify does nothing.
finish_reading ==
  /\ status = "reading" /\ at \notin Options
  /\ status' = "ready"
  /\ UNCHANGED <<cmdline, registry, at, asking>>

-----------------------------------------------------------------------------
(* Answers                                                                 *)

\* What uniform_int_distribution may return; inverted bounds break its
\* precondition and may give anything.
values(min, max) == IF min <= max THEN min..max ELSE Ints

sum(probs) == probs[Len(probs)]

\* Mutant: an entry that equals the value is taken, too.
pick_equal(probs, v) ==
  {k \in 0..Len(probs) : /\ \A j \in 1..k : probs[j] < v
                         /\ k < Len(probs) => probs[k + 1] >= v}

\* The loop of from_probf: the number of entries before the first above v.
pick(probs, v) ==
  {k \in 0..Len(probs) : /\ \A j \in 1..k : probs[j] <= v
                         /\ k < Len(probs) => probs[k + 1] > v}

\* Is flag o 1 for value v?
flag(o, v) == IF v < o.prob THEN 1 ELSE 0

\* from_probf throws for these.
throws(o) == o.kind = "probf" /\ (o.probs = <<>> \/ sum(o.probs) = 0)

\* The arguments of rand_from.
bounds(o) ==
  CASE o.kind = "diap"  -> <<o.from, o.to>>
    [] o.kind = "pflag" -> <<0, o.total>>
    [] o.kind = "probf" -> <<0, sum(o.probs) - 1>>

\* What get makes of the random value v.
answers(o, v) ==
  CASE o.kind = "diap"  -> {v}
    [] o.kind = "pflag" -> {flag(o, v)}
    [] o.kind = "probf" -> pick(o.probs, v)

random(o) == o.kind \in {"diap", "pflag", "probf"}

\* get of an option that has one value.
get_single(i) ==
  /\ status = "ready" /\ ~random(registry[i])
  /\ last' = [opt |-> i, ret |-> registry[i].val, threw |-> FALSE]
  /\ UNCHANGED <<reading, mutex, drawing, numbers>>

\* from_probf throws before it locks anything.
get_throws(i) ==
  /\ status = "ready" /\ throws(registry[i])
  /\ last' = [opt |-> i, ret |-> 0, threw |-> TRUE]
  /\ UNCHANGED <<reading, mutex, drawing, numbers>>

\* Mutant: rand_from without the lock.
rand_from_unlocked(t, i) ==
  /\ status = "ready" /\ random(registry[i]) /\ ~throws(registry[i])
  /\ drawing[t] = idle /\ Len(numbers) < MaxDraws
  /\ mutex' = t
  /\ drawing' = [drawing EXCEPT ![t] = [opt |-> i, num |-> Len(numbers) + 1]]
  /\ UNCHANGED <<reading, numbers, last>>

\* rand_from locks the mutex and reads the state of the generator.
rand_from(t, i) ==
  /\ status = "ready" /\ random(registry[i]) /\ ~throws(registry[i])
  /\ drawing[t] = idle /\ Len(numbers) < MaxDraws
  /\ mutex = Nobody
  /\ mutex' = t
  /\ drawing' = [drawing EXCEPT ![t] = [opt |-> i, num |-> Len(numbers) + 1]]
  /\ UNCHANGED <<reading, numbers, last>>

\* The generator moves on, the mutex is released and get returns. That a
\* distribution may consume several numbers for one value is left out.
get_random(t) ==
  /\ drawing[t] # idle
  /\ LET o == registry[drawing[t].opt]
     IN  \E v \in values(bounds(o)[1], bounds(o)[2]) : \E r \in answers(o, v) :
           last' = [opt |-> drawing[t].opt, ret |-> r, threw |-> FALSE]
  /\ numbers' = Append(numbers, drawing[t].num)
  /\ drawing' = [drawing EXCEPT ![t] = idle]
  /\ mutex' = Nobody
  /\ UNCHANGED reading

Stopped == status = "refused" \/ (status = "ready" /\ Len(numbers) = MaxDraws)
ConfigEnd == Stopped /\ UNCHANGED config_vars

ConfigNext ==
  \/ skip_option \/ refuse_option \/ read_option \/ finish_reading
  \/ \E i \in Options : get_single(i) \/ get_throws(i)
  \/ \E t \in Threads : get_random(t) \/ \E i \in Options : rand_from(t, i)
  \/ ConfigEnd

ConfigSpec == ConfigInit /\ [][ConfigNext]_config_vars

-----------------------------------------------------------------------------
ConfigTypeOK ==
  /\ cmdline \in Lines
  /\ DOMAIN registry = Options
  /\ \A i \in Options : registry[i].kind = Registered[i].kind /\ IsOption(registry[i])
  /\ at \in Nat \ {0}
  /\ status \in {"reading", "ready", "refused"}
  /\ mutex \in Threads \cup {Nobody}
  /\ drawing \in [Threads -> [opt : Options \cup {0}, num : Nat]]
  /\ numbers \in Seq(Nat)
  /\ last.opt \in Options \cup {0}

\* What the user wants of option i: the value given or the default.
wanted(x, default) == IF x = <<>> THEN default ELSE x[1]

\* What the error messages of the loop name: a probability function with a wrong
\* number of entries, and one bound of a diapason without the other.
MisfitProbf(i) ==
  /\ Registered[i].kind = "probf" /\ cmdline[i].probs # <<>>
  /\ Len(cmdline[i].probs[1]) # Border[i]
OneBound(i) ==
  /\ Registered[i].kind = "diap"
  /\ (cmdline[i].min = <<>>) # (cmdline[i].max = <<>>)

\* A command line is refused only for what the messages name, and never taken
\* with a probability function of the wrong length, whatever else was given and
\* in any order of options: the generators index their choices with its entries.
\* That one bound alone is refused, too, is BoundsGivenTogether.
RefusedForCause ==
  /\ status = "refused" => \E i \in Options : MisfitProbf(i) \/ OneBound(i)
  /\ status = "ready" => ~ \E i \in Options : MisfitProbf(i)

\* "You shall specify both options or none of them": no command line with one
\* bound of a diapason makes a configuration. It does not hold: vm.count counts
\* the default of the other bound, so nothing is ever one_sided.
BoundsGivenTogether == status = "ready" => ~ \E i \in Options : OneBound(i)

\* Every answer is what the user asked for: a given value or else the default,
\* a number between the bounds, a flag that is never set without a chance and
\* always with more chances than there are, an entry of a probability function
\* that has a chance. Only bounds given in the wrong order, which are not checked,
\* and a last entry below zero let any number through, and only a last entry of
\* zero (or no entry) makes get throw. Of a flag with exactly as many chances as
\* there are nothing is said: the code may answer 0 (see README.md).
Honoured ==
  LET i == last.opt
      r == last.ret
      o == Registered[i]
      a == cmdline[i]
  IN  i # 0 =>
        CASE o.kind \in {"single", "single_bool"} -> r = wanted(a.val, o.val)
          [] o.kind = "diap" ->
               LET min == wanted(a.min, o.from)
                   max == wanted(a.max, o.to)
               IN  min <= max => min <= r /\ r <= max
          [] o.kind = "pflag" ->
               LET prob == wanted(a.val, o.prob)
               IN  r \in {0, 1} /\ (prob <= 0 => r = 0) /\ (prob > Border[i] => r = 1)
          [] o.kind = "probf" ->
               LET probs == wanted(a.probs, o.probs)
               IN  IF last.threw THEN probs = <<>> \/ sum(probs) = 0
                   ELSE sum(probs) > 0 => /\ r \in 0..(Len(probs) - 1)
                                          /\ probs[r + 1] > 0
                                          /\ r > 0 => probs[r] < probs[r + 1]

\* The comment on from_probf: of the functions that grow, every entry is drawn
\* for as many values of the generator as it exceeds the one before, whatever
\* was read from the command line.
ChancesAsWritten ==
  \A i \in Options :
    LET p == registry[i].probs
        grows == \A j \in 1..(Len(p) - 1) : p[j] <= p[j + 1]
        before(k) == IF k = 0 THEN 0 ELSE p[k]
    IN  registry[i].kind = "probf" /\ p # <<>> =>
        (p[1] >= 0 /\ grows /\ sum(p) > 0 =>
           \A k \in 0..(Len(p) - 1) :
             Cardinality({v \in values(0, sum(p) - 1) : k \in pick(p, v)}) = p[k + 1] - before(k))

\* However the threads interleave, the generator gives out every number of its
\* sequence once and in order: none is lost and no two threads get the same.
EachNumberOnce == \A k \in 1..Len(numbers) : numbers[k] = k
=============================================================================
