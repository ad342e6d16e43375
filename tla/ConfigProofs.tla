---------------------------- MODULE ConfigProofs ----------------------------
(***************************************************************************)
(* For every registry, every command line and any number of threads: no    *)
(* ill-sized probability function is taken and nothing is refused without  *)
(* a cause, every answer is what the user asked for, and the generator     *)
(* gives out its numbers one by one.                                       *)
(***************************************************************************)
EXTENDS Config, FiniteSetTheorems, WellFoundedInduction, TLAPS

\* What the command line and the defaults ask of option i is in the registry.
Asked(i) ==
  LET o == registry[i]
      d == Registered[i]
      a == cmdline[i]
  IN  /\ o.kind = d.kind
      /\ o.kind \in {"single", "single_bool"} => o.val = wanted(a.val, d.val)
      /\ o.kind = "diap" => o.from = wanted(a.min, d.from) /\ o.to = wanted(a.max, d.to)
      /\ o.kind = "pflag" => o.prob = wanted(a.val, d.prob) /\ o.total = Border[i]
      /\ o.kind = "probf" => o.probs = wanted(a.probs, d.probs)

\* Options before at are read, those behind it still have their defaults.
ReadUpTo ==
  /\ at \in 1..(Len(Registered) + 1)
  /\ \A i \in Options : i < at => Asked(i) /\ ~MisfitProbf(i)
  /\ \A i \in Options : at <= i /\ status = "reading" => registry[i] = Registered[i]
  /\ status = "ready" => at \notin Options
  /\ status = "refused" => \E i \in Options : MisfitProbf(i)

\* Whoever draws holds the mutex and the next number of the generator.
Locked ==
  /\ \A t \in Threads : drawing[t] # idle =>
       /\ mutex = t /\ status = "ready"
       /\ drawing[t].opt \in Options
       /\ random(registry[drawing[t].opt]) /\ ~throws(registry[drawing[t].opt])
       /\ drawing[t].num = Len(numbers) + 1

Answered == last.opt # 0 => status = "ready"

IndInv == ConfigTypeOK /\ ReadUpTo /\ Locked /\ Answered /\ EachNumberOnce /\ Honoured

-----------------------------------------------------------------------------
\* Options are numbered from one.
LEMMA OptionIds == Options = 1..Len(Registered)
BY OptionsAssumption DEF Options

\* The value stored for a name that has a default is the wanted one.
LEMMA Stored ==
  ASSUME NEW x, NEW d \in Ints, optional(x, Ints)
  PROVE  /\ given_or(x, d)[1] = wanted(x, d) /\ wanted(x, d) \in Ints
         /\ Len(given_or(x, d)) = 1
<1>1. CASE x = <<>>  BY <1>1 DEF given_or, wanted
<1>2. CASE x # <<>> /\ x = <<x[1]>> /\ x[1] \in Ints
  BY <1>2 DEF given_or, wanted
<1> QED  BY <1>1, <1>2 DEF optional

\* What the variables map holds for an option of every kind.
LEMMA Map ==
  ASSUME NEW i \in Options, cmdline \in Lines
  PROVE  LET d == Registered[i]
             a == cmdline[i]
         IN  /\ d.kind \in {"single", "single_bool"} =>
                  /\ vm(i).val = given_or(a.val, d.val) /\ vm(i).probs = <<>>
                  /\ vm(i).min = <<>> /\ vm(i).max = <<>>
             /\ d.kind = "diap" =>
                  /\ vm(i).val = <<>> /\ vm(i).probs = <<>>
                  /\ vm(i).min = given_or(a.min, d.from) /\ vm(i).max = given_or(a.max, d.to)
             /\ d.kind = "pflag" =>
                  /\ vm(i).val = given_or(a.val, d.prob) /\ vm(i).probs = <<>>
                  /\ vm(i).min = <<>> /\ vm(i).max = <<>>
             /\ d.kind = "probf" =>
                  /\ vm(i).val = <<>> /\ vm(i).probs = a.probs
                  /\ vm(i).min = <<>> /\ vm(i).max = <<>>
BY DEF vm

\* One bound without the other never shows: defaults stand in for both.
LEMMA NeverOneSided ==
  ASSUME NEW i \in Options, cmdline \in Lines
  PROVE  ~one_sided(i)
<1> USE OptionsAssumption
<1>1. CASE Registered[i].kind = "diap"
  <2>1. Registered[i].from \in Ints /\ Registered[i].to \in Ints
    BY <1>1 DEF IsOption
  <2>2. Len(vm(i).min) = 1
    <3>1. optional(cmdline[i].min, Ints)  OBVIOUS
    <3>2. vm(i).min = given_or(cmdline[i].min, Registered[i].from)
      BY <1>1, Map
    <3>3. Len(given_or(cmdline[i].min, Registered[i].from)) = 1  BY <2>1, <3>1, Stored
    <3> QED  BY <3>2, <3>3
  <2>3. Len(vm(i).max) = 1
    <3>1. optional(cmdline[i].max, Ints)  OBVIOUS
    <3>2. vm(i).max = given_or(cmdline[i].max, Registered[i].to)
      BY <1>1, Map
    <3>3. Len(given_or(cmdline[i].max, Registered[i].to)) = 1  BY <2>1, <3>1, Stored
    <3> QED  BY <3>2, <3>3
  <2> QED  BY <2>2, <2>3 DEF one_sided, count
<1>2. CASE Registered[i].kind # "diap"
  <2>1. vm(i).min = <<>> /\ vm(i).max = <<>>
    BY <1>2, Map DEF IsOption
  <2> QED  BY <2>1 DEF one_sided, count
<1> QED  BY <1>1, <1>2

\* Only probability functions can be absent, and then none was given.
LEMMA Absent ==
  ASSUME NEW i \in Options, cmdline \in Lines
  PROVE  absent(i) <=> Registered[i].kind = "probf" /\ cmdline[i].probs = <<>>
<1> USE OptionsAssumption
<1>1. CASE Registered[i].kind \in {"single", "single_bool"}
  <2>1. Registered[i].val \in Ints  BY <1>1 DEF IsOption
  <2>2. Len(vm(i).val) = 1
    <3>1. optional(cmdline[i].val, Ints)  OBVIOUS
    <3>2. vm(i).val = given_or(cmdline[i].val, Registered[i].val)
      BY <1>1, Map
    <3>3. Len(given_or(cmdline[i].val, Registered[i].val)) = 1  BY <2>1, <3>1, Stored
    <3> QED  BY <3>2, <3>3
  <2>3. Len(vm(i).probs) = 0  BY <1>1, Map
  <2> QED  BY <1>1, <2>2, <2>3 DEF absent, count
<1>2. CASE Registered[i].kind = "diap"
  <2>1. Registered[i].from \in Ints  BY <1>2 DEF IsOption
  <2>2. Len(vm(i).min) = 1
    <3>1. optional(cmdline[i].min, Ints)  OBVIOUS
    <3>2. vm(i).min = given_or(cmdline[i].min, Registered[i].from)
      BY <1>2, Map
    <3>3. Len(given_or(cmdline[i].min, Registered[i].from)) = 1  BY <2>1, <3>1, Stored
    <3> QED  BY <3>2, <3>3
  <2> QED  BY <1>2, <2>2 DEF absent, count
<1>3. CASE Registered[i].kind = "pflag"
  <2>1. Registered[i].prob \in Ints  BY <1>3 DEF IsOption
  <2>2. Len(vm(i).val) = 1
    <3>1. optional(cmdline[i].val, Ints)  OBVIOUS
    <3>2. vm(i).val = given_or(cmdline[i].val, Registered[i].prob)
      BY <1>3, Map
    <3>3. Len(given_or(cmdline[i].val, Registered[i].prob)) = 1  BY <2>1, <3>1, Stored
    <3> QED  BY <3>2, <3>3
  <2>3. Len(vm(i).probs) = 0  BY <1>3, Map
  <2> QED  BY <1>3, <2>2, <2>3 DEF absent, count
<1>4. CASE Registered[i].kind = "probf"
  <2>1. Len(vm(i).val) = 0 /\ Len(vm(i).min) = 0 /\ Len(vm(i).max) = 0
    BY <1>4, Map
  <2>2. Len(vm(i).probs) = 0 <=> cmdline[i].probs = <<>>
    <3>1. vm(i).probs = cmdline[i].probs  BY <1>4, Map
    <3>2. CASE cmdline[i].probs = <<>>  BY <3>1, <3>2
    <3>3. CASE cmdline[i].probs = <<cmdline[i].probs[1]>>  BY <3>1, <3>3
    <3> QED  BY <3>2, <3>3 DEF optional
  <2>3. Len(vm(i).probs) \in Nat
    <3>1. vm(i).probs = cmdline[i].probs  BY <1>4, Map
    <3> QED  BY <3>1 DEF optional
  <2> QED  BY <1>4, <2>1, <2>2, <2>3 DEF absent, count
<1> QED  BY <1>1, <1>2, <1>3, <1>4 DEF IsOption

-----------------------------------------------------------------------------
\* What is read for an option that is neither absent nor refused.
LEMMA Overridden ==
  ASSUME NEW i \in Options, cmdline \in Lines, ~absent(i),
         NEW o, o = overridden(i)
  PROVE  LET d == Registered[i]
             a == cmdline[i]
         IN  /\ o.kind = d.kind /\ IsOption(o)
             /\ o.kind \in {"single", "single_bool"} => o.val = wanted(a.val, d.val)
             /\ o.kind = "diap" => o.from = wanted(a.min, d.from) /\ o.to = wanted(a.max, d.to)
             /\ o.kind = "pflag" => o.prob = wanted(a.val, d.prob) /\ o.total = Border[i]
             /\ o.kind = "probf" => /\ o.probs = wanted(a.probs, d.probs)
                                     /\ vm(i).probs[1] = cmdline[i].probs[1]
                                     /\ a.probs # <<>>
<1> USE OptionsAssumption
<1> DEFINE d == Registered[i]
           a == cmdline[i]
<1>1. CASE d.kind \in {"single", "single_bool"}
  <2>0. d \in [kind : {"single", "single_bool"}, val : Ints]  BY <1>1 DEF IsOption
  <2>1. d.val \in Ints /\ optional(a.val, Ints)  BY <2>0
  <2>2. given_or(a.val, d.val)[1] = wanted(a.val, d.val) /\ wanted(a.val, d.val) \in Ints
    BY <2>1, Stored
  <2>3. vm(i).val = given_or(a.val, d.val)  BY <1>1, Map
  <2>4. o = [d EXCEPT !.val = vm(i).val[1]]  BY <1>1 DEF overridden
  <2>5. /\ o \in [kind : {"single", "single_bool"}, val : Ints]
        /\ o.kind = d.kind /\ o.val = wanted(a.val, d.val)
    BY <2>0, <2>2, <2>3, <2>4
  <2> QED  BY <1>1, <2>2, <2>5 DEF IsOption
<1>2. CASE d.kind = "diap"
  <2>1. d \in [kind : {"diap"}, from : Ints, to : Ints]  BY <1>2 DEF IsOption
  <2>2. optional(a.min, Ints) /\ optional(a.max, Ints)  OBVIOUS
  <2>3. given_or(a.min, d.from)[1] = wanted(a.min, d.from) /\ wanted(a.min, d.from) \in Ints
    BY <2>1, <2>2, Stored
  <2>4. given_or(a.max, d.to)[1] = wanted(a.max, d.to) /\ wanted(a.max, d.to) \in Ints
    BY <2>1, <2>2, Stored
  <2>5. vm(i).min = given_or(a.min, d.from) /\ vm(i).max = given_or(a.max, d.to)
    BY <1>2, Map
  <2>6. o = [d EXCEPT !.from = vm(i).min[1], !.to = vm(i).max[1]]
    BY <1>2 DEF overridden
  <2>7. /\ o \in [kind : {"diap"}, from : Ints, to : Ints]
        /\ o.from = wanted(a.min, d.from) /\ o.to = wanted(a.max, d.to)
    BY <2>1, <2>3, <2>4, <2>5, <2>6
  <2> QED  BY <1>2, <2>7 DEF IsOption
<1>3. CASE d.kind = "pflag"
  <2>1. d \in [kind : {"pflag"}, prob : Ints, total : Ints]  BY <1>3 DEF IsOption
  <2>2. optional(a.val, Ints)  OBVIOUS
  <2>3. given_or(a.val, d.prob)[1] = wanted(a.val, d.prob) /\ wanted(a.val, d.prob) \in Ints
    BY <2>1, <2>2, Stored
  <2>4. vm(i).val = given_or(a.val, d.prob)  BY <1>3, Map
  <2>5. o = [d EXCEPT !.prob = vm(i).val[1], !.total = Border[i]]
    BY <1>3 DEF overridden
  <2>6. /\ o \in [kind : {"pflag"}, prob : Ints, total : Ints]
        /\ o.prob = wanted(a.val, d.prob) /\ o.total = Border[i]
    BY <2>1, <2>3, <2>4, <2>5
  <2> QED  BY <1>3, <2>6 DEF IsOption
<1>4. CASE d.kind = "probf"
  <2>1. d \in [kind : {"probf"}, probs : Seq(Ints)]  BY <1>4 DEF IsOption
  <2>2. a.probs # <<>>  BY <1>4, Absent
  <2>3. a.probs[1] \in Seq(Ints)  BY <2>2 DEF optional
  <2>4. vm(i).probs = a.probs  BY <1>4, Map
  <2>5. o = [d EXCEPT !.probs = vm(i).probs[1]]  BY <1>4 DEF overridden
  <2>6. /\ o \in [kind : {"probf"}, probs : Seq(Ints)]
        /\ o.probs = wanted(a.probs, d.probs)
    BY <2>1, <2>2, <2>3, <2>4, <2>5 DEF wanted
  <2> QED  BY <1>4, <2>2, <2>4, <2>6 DEF IsOption
<1> QED  BY <1>1, <1>2, <1>3, <1>4 DEF IsOption

\* An option that is taken fits: no list of a wrong length passes.
LEMMA TakenFits ==
  ASSUME NEW i \in Options, cmdline \in Lines, ~absent(i)
  PROVE  refused(i) <=> MisfitProbf(i)
<1>1. ~one_sided(i)  BY NeverOneSided
<1>2. CASE Registered[i].kind = "probf"
  <2>1. cmdline[i].probs # <<>> /\ vm(i).probs = cmdline[i].probs
    BY <1>2, Absent, Map
  <2> QED  BY <1>1, <1>2, <2>1 DEF refused, MisfitProbf
<1>3. CASE Registered[i].kind # "probf"
  BY <1>1, <1>3 DEF refused, MisfitProbf
<1> QED  BY <1>2, <1>3

\* What get makes of a random value is what was asked for.
LEMMA AnswerHonoured ==
  ASSUME NEW o, IsOption(o), random(o), ~throws(o),
         NEW v \in values(bounds(o)[1], bounds(o)[2]), NEW r \in answers(o, v)
  PROVE  /\ o.kind = "diap" => (o.from <= o.to => o.from <= r /\ r <= o.to)
         /\ o.kind = "pflag" => /\ r \in {0, 1}
                                /\ o.total >= 0 /\ o.prob <= 0 => r = 0
                                /\ o.total >= 0 /\ o.prob > o.total => r = 1
         /\ o.kind = "probf" => (sum(o.probs) > 0 =>
                                   /\ r \in 0..(Len(o.probs) - 1)
                                   /\ o.probs[r + 1] > 0
                                   /\ r > 0 => o.probs[r] < o.probs[r + 1])
<1> USE OptionsAssumption
<1>1. CASE o.kind = "diap"
  BY <1>1 DEF IsOption, values, bounds, answers
<1>2. CASE o.kind = "pflag"
  <2>1. o \in [kind : {"pflag"}, prob : Ints, total : Ints]  BY <1>2 DEF IsOption
  <2>2. r = flag(o, v)  BY <1>2 DEF answers
  <2>3. bounds(o)[1] = 0 /\ bounds(o)[2] = o.total  BY <1>2 DEF bounds
  <2>4. o.total >= 0 => v \in 0..o.total  BY <2>1, <2>3 DEF values
  <2>5. r \in {0, 1}  BY <2>2 DEF flag
  <2>6. ASSUME o.total >= 0, o.prob <= 0 PROVE r = 0
    <3>1. o.prob \in Int /\ o.total \in Int  BY <2>1
    <3>2. v \in 0..o.total  BY <2>4, <2>6
    <3>3. ~(v < o.prob)  BY <3>1, <3>2, <2>6
    <3> QED  BY <2>2, <3>3 DEF flag
  <2>7. ASSUME o.total >= 0, o.prob > o.total PROVE r = 1
    <3>1. o.prob \in Int /\ o.total \in Int  BY <2>1
    <3>2. v \in 0..o.total  BY <2>4, <2>7
    <3>3. v < o.prob  BY <3>1, <3>2, <2>7
    <3> QED  BY <2>2, <3>3 DEF flag
  <2> QED  BY <1>2, <2>5, <2>6, <2>7
<1>3. CASE o.kind = "probf"
  <2> SUFFICES ASSUME sum(o.probs) > 0
               PROVE  /\ r \in 0..(Len(o.probs) - 1)
                      /\ o.probs[r + 1] > 0
                      /\ r > 0 => o.probs[r] < o.probs[r + 1]
    BY <1>3
  <2> DEFINE p == o.probs
  <2>1. p \in Seq(Ints) /\ p # <<>>  BY <1>3 DEF IsOption, throws
  <2>2. Len(p) \in Nat /\ Len(p) > 0 /\ \A j \in 1..Len(p) : p[j] \in Int
    <3>1. Len(p) \in Nat /\ p \in [1..Len(p) -> Ints]  BY <2>1
    <3>2. Len(p) # 0  BY <2>1
    <3> QED  BY <3>1, <3>2
  <2>3. v \in 0..(p[Len(p)] - 1)
    <3>1. p[Len(p)] \in Int /\ p[Len(p)] > 0  BY <2>2 DEF sum
    <3>2. bounds(o)[1] = 0 /\ bounds(o)[2] = p[Len(p)] - 1
      BY <1>3 DEF bounds, sum
    <3> QED  BY <3>1, <3>2 DEF values
  <2>4. r \in pick(p, v)  BY <1>3 DEF answers
  <2>5. /\ r \in 0..Len(p)
        /\ \A j \in 1..r : p[j] <= v
        /\ r < Len(p) => p[r + 1] > v
    BY <2>4 DEF pick
  <2>6. r # Len(p)  BY <2>2, <2>3, <2>5
  <2>7. p[r + 1] \in Int  BY <2>2, <2>5, <2>6
  <2>9. r > 0 => p[r] \in Int  BY <2>2, <2>5
  <2>8. r > 0 => p[r] <= v  BY <2>5
  <2> QED  BY <2>2, <2>3, <2>5, <2>6, <2>7, <2>8, <2>9
<1> QED  BY <1>1, <1>2, <1>3 DEF random

-----------------------------------------------------------------------------
(* The invariant                                                           *)

\* The invariant holds before anything is read.
LEMMA InitInv == ConfigInit => IndInv
<1> SUFFICES ASSUME ConfigInit PROVE IndInv  OBVIOUS
<1> USE OptionsAssumption, ThreadsAssumption, OptionIds DEF ConfigInit
<1>1. ConfigTypeOK  BY DEF ConfigTypeOK, idle
<1>2. ReadUpTo
  <2>1. Len(Registered) \in Nat  BY DEF Options
  <2> QED  BY <2>1 DEF ReadUpTo
<1>3. Locked /\ Answered /\ EachNumberOnce  BY DEF Locked, Answered, EachNumberOnce
<1>4. Honoured  BY DEF Honoured
<1> QED  BY <1>1, <1>2, <1>3, <1>4 DEF IndInv

\* While options are read nobody has asked for any.
LEMMA NobodyAsks ==
  ASSUME IndInv, status = "reading"
  PROVE  last.opt = 0 /\ \A t \in Threads : drawing[t] = idle
BY DEF IndInv, Answered, Locked

\* The steps of reading keep the parts of the invariant about asking.
LEMMA ReadingKeeps ==
  ASSUME IndInv, status = "reading", UNCHANGED asking
  PROVE  (Locked /\ Answered /\ EachNumberOnce /\ Honoured)'
<1> USE NobodyAsks DEF asking
<1>1. Locked'  BY DEF Locked
<1>2. Answered'  BY DEF Answered
<1>3. EachNumberOnce'  BY DEF IndInv, EachNumberOnce
<1>4. Honoured'  BY DEF Honoured
<1> QED  BY <1>1, <1>2, <1>3, <1>4

\* An absent option keeps its default, which is what is asked.
LEMMA SkipInv == IndInv /\ skip_option => IndInv'
<1> SUFFICES ASSUME IndInv, skip_option PROVE IndInv'  OBVIOUS
<1> USE OptionIds DEF skip_option, reading
<1>1. ConfigTypeOK'  BY DEF IndInv, ConfigTypeOK, asking
<1>2. cmdline \in Lines /\ at \in Options  BY DEF IndInv, ConfigTypeOK
<1>3. Registered[at].kind = "probf" /\ cmdline[at].probs = <<>>
  BY <1>2, Absent
<1>4. Asked(at) /\ ~MisfitProbf(at)
  BY <1>2, <1>3 DEF IndInv, ReadUpTo, Asked, MisfitProbf, wanted
<1>5. ReadUpTo'
  BY <1>2, <1>4 DEF IndInv, ReadUpTo, Asked, MisfitProbf
<1> QED  BY <1>1, <1>5, ReadingKeeps DEF IndInv

\* An option is refused because its list does not fit.
LEMMA RefuseInv == IndInv /\ refuse_option => IndInv'
<1> SUFFICES ASSUME IndInv, refuse_option PROVE IndInv'  OBVIOUS
<1> USE OptionIds DEF refuse_option
<1>1. cmdline \in Lines /\ at \in Options  BY DEF IndInv, ConfigTypeOK
<1>2. MisfitProbf(at)  BY <1>1, TakenFits
<1>3. registry' = [registry EXCEPT ![at] = overridden(at)]
  BY <1>1, NeverOneSided
<1>4. ConfigTypeOK'
  BY <1>1, <1>3, Overridden DEF IndInv, ConfigTypeOK, asking
<1>5. ReadUpTo'
  BY <1>1, <1>2, <1>3 DEF IndInv, ConfigTypeOK, ReadUpTo, Asked, MisfitProbf
<1> QED  BY <1>4, <1>5, ReadingKeeps DEF IndInv

\* An option that is read becomes what is asked.
LEMMA ReadInv == IndInv /\ read_option => IndInv'
<1> SUFFICES ASSUME IndInv, read_option PROVE IndInv'  OBVIOUS
<1> USE OptionIds DEF read_option
<1>1. cmdline \in Lines /\ at \in Options  BY DEF IndInv, ConfigTypeOK
<1>2. ~MisfitProbf(at)  BY <1>1, TakenFits
<1>3. ConfigTypeOK'
  BY <1>1, Overridden DEF IndInv, ConfigTypeOK, asking
<1>4. registry'[at] = overridden(at) /\ \A i \in Options : i # at => registry'[i] = registry[i]
  BY <1>1 DEF IndInv, ConfigTypeOK
<1>5. PICK k \in Options : k = at  BY <1>1
<1>6. Asked(k)'
  BY <1>1, <1>4, <1>5, Overridden DEF Asked
<1>7. ReadUpTo'
  <2>1. at' \in 1..(Len(Registered) + 1)  BY <1>1 DEF IndInv, ReadUpTo
  <2>2. ASSUME NEW i \in Options, i < at' PROVE (Asked(i) /\ ~MisfitProbf(i))'
    <3>1. CASE i = k  BY <1>2, <1>5, <1>6, <3>1 DEF MisfitProbf
    <3>2. CASE i # k
      <4>1. i < at  BY <1>1, <1>5, <2>2, <3>2
      <4> QED  BY <1>4, <1>5, <3>2, <4>1 DEF IndInv, ReadUpTo, Asked, MisfitProbf
    <3> QED  BY <3>1, <3>2
  <2>3. \A i \in Options : at' <= i => registry'[i] = Registered[i]
    BY <1>1, <1>4 DEF IndInv, ReadUpTo
  <2> QED  BY <2>1, <2>2, <2>3 DEF ReadUpTo
<1> QED  BY <1>3, <1>7, ReadingKeeps DEF IndInv

\* When no option is left the configuration is ready.
LEMMA FinishInv == IndInv /\ finish_reading => IndInv'
<1> SUFFICES ASSUME IndInv, finish_reading PROVE IndInv'  OBVIOUS
<1> USE DEF finish_reading
<1>1. ConfigTypeOK'  BY DEF IndInv, ConfigTypeOK, asking
<1>2. ReadUpTo'  BY DEF IndInv, ReadUpTo, Asked, MisfitProbf
<1> QED  BY <1>1, <1>2, ReadingKeeps DEF IndInv

\* What is asked of option i holds when the configuration is ready.
LEMMA ReadyAsked ==
  ASSUME IndInv, status = "ready", NEW i \in Options
  PROVE  Asked(i) /\ IsOption(registry[i])
BY OptionIds DEF IndInv, ConfigTypeOK, ReadUpTo

\* The steps of asking keep what was read.
LEMMA AskingKeeps ==
  ASSUME IndInv, UNCHANGED reading
  PROVE  ReadUpTo' /\ (cmdline \in Lines)'
BY DEF IndInv, ConfigTypeOK, reading, ReadUpTo, Asked, MisfitProbf

\* get of an option with one value answers with it.
LEMMA SingleInv ==
  ASSUME IndInv, NEW i \in Options, get_single(i)
  PROVE  IndInv'
<1> USE DEF get_single
<1>1. Asked(i) /\ IsOption(registry[i])  BY ReadyAsked
<1>2. registry[i].kind \in {"single", "single_bool"}
  BY <1>1 DEF random, IsOption
<1>3. ConfigTypeOK'  BY DEF IndInv, ConfigTypeOK, reading
<1>4. Locked'  BY DEF IndInv, Locked, reading
<1>5. Honoured'  BY <1>1, <1>2 DEF Honoured, Asked, reading
<1>6. EachNumberOnce' /\ Answered'
  BY DEF IndInv, EachNumberOnce, Answered, reading
<1> QED  BY <1>3, <1>4, <1>5, <1>6, AskingKeeps DEF IndInv

\* get throws only where no entry can be drawn.
LEMMA ThrowsInv ==
  ASSUME IndInv, NEW i \in Options, get_throws(i)
  PROVE  IndInv'
<1> USE DEF get_throws
<1>1. Asked(i) /\ IsOption(registry[i])  BY ReadyAsked
<1>2. registry[i].kind = "probf"
  BY DEF throws
<1>3. ConfigTypeOK'  BY DEF IndInv, ConfigTypeOK, reading
<1>4. Locked'  BY DEF IndInv, Locked, reading
<1>5. Honoured'
  <2>1. registry[i].probs = wanted(cmdline[i].probs, Registered[i].probs)
        /\ Registered[i].kind = "probf"
    BY <1>1, <1>2 DEF Asked
  <2>2. registry[i].probs = <<>> \/ sum(registry[i].probs) = 0  BY DEF throws
  <2>3. last'.opt = i /\ last'.threw /\ cmdline' = cmdline  BY DEF reading
  <2> QED  BY <2>1, <2>2, <2>3 DEF Honoured
<1>6. EachNumberOnce' /\ Answered'
  BY DEF IndInv, EachNumberOnce, Answered, reading
<1> QED  BY <1>3, <1>4, <1>5, <1>6, AskingKeeps DEF IndInv

\* Taking the lock: nobody else draws, and the number is the next one.
LEMMA RandFromInv ==
  ASSUME IndInv, NEW t \in Threads, NEW i \in Options, rand_from(t, i)
  PROVE  IndInv'
<1> USE ThreadsAssumption DEF rand_from
<1>1. numbers \in Seq(Nat) /\ Len(numbers) \in Nat  BY DEF IndInv, ConfigTypeOK
<1>2. drawing' \in [Threads -> [opt : Options \cup {0}, num : Nat]]
  BY <1>1 DEF IndInv, ConfigTypeOK
<1>3. ConfigTypeOK'  BY <1>2 DEF IndInv, ConfigTypeOK, reading
<1>4. ASSUME NEW u \in Threads, drawing'[u] # idle
      PROVE  u = t
  BY <1>4 DEF IndInv, ConfigTypeOK, Locked
<1>5. Locked'
  <2>1. drawing'[t] = [opt |-> i, num |-> Len(numbers) + 1]  BY DEF IndInv, ConfigTypeOK
  <2> QED  BY <1>4, <2>1 DEF Locked, reading
<1>6. Honoured' /\ EachNumberOnce' /\ Answered'
  BY DEF IndInv, Honoured, EachNumberOnce, Answered, reading
<1> QED  BY <1>3, <1>5, <1>6, AskingKeeps DEF IndInv

\* Releasing the lock: the number is given out and the answer is honoured.
LEMMA RandomInv ==
  ASSUME IndInv, NEW t \in Threads, get_random(t)
  PROVE  IndInv'
<1> USE ThreadsAssumption DEF get_random
<1> DEFINE i == drawing[t].opt
           o == registry[i]
<1>1. /\ mutex = t /\ status = "ready" /\ i \in Options
      /\ random(o) /\ ~throws(o)
      /\ drawing[t].num = Len(numbers) + 1
  BY DEF IndInv, Locked
<1>2. Asked(i) /\ IsOption(o)  BY <1>1, ReadyAsked
<1>3. numbers \in Seq(Nat) /\ Len(numbers) \in Nat  BY DEF IndInv, ConfigTypeOK
<1>4. PICK v \in values(bounds(o)[1], bounds(o)[2]) : \E r \in answers(o, v) :
        last' = [opt |-> i, ret |-> r, threw |-> FALSE]
  OBVIOUS
<1>5. PICK r \in answers(o, v) : last' = [opt |-> i, ret |-> r, threw |-> FALSE]
  BY <1>4
<1>6. drawing' \in [Threads -> [opt : Options \cup {0}, num : Nat]]
  BY DEF IndInv, ConfigTypeOK, idle
<1>7. numbers' \in Seq(Nat)  BY <1>1, <1>3
<1>8. ConfigTypeOK'  BY <1>1, <1>5, <1>6, <1>7 DEF IndInv, ConfigTypeOK, reading
<1>9. Locked'
  <2>1. ASSUME NEW u \in Threads PROVE drawing'[u] = idle
    BY <1>1 DEF IndInv, ConfigTypeOK, Locked
  <2> QED  BY <2>1 DEF Locked
<1>10. EachNumberOnce'
  BY <1>1, <1>3 DEF IndInv, EachNumberOnce
<1>11. Answered'  BY <1>1 DEF Answered, reading
<1>12. Honoured'
  <2>1. last'.opt = i /\ last'.ret = r /\ last'.threw = FALSE /\ cmdline' = cmdline
    BY <1>5 DEF reading
  <2>2. o.kind = Registered[i].kind  BY <1>2 DEF Asked
  <2>3. CASE o.kind = "diap"
    <3>1. o.from <= o.to => o.from <= r /\ r <= o.to
      BY <1>1, <1>2, <1>4, <1>5, <2>3, AnswerHonoured DEF throws
    <3> QED  BY <1>2, <2>1, <2>2, <2>3, <3>1 DEF Honoured, Asked
  <2>4. CASE o.kind = "pflag"
    <3>1. /\ r \in {0, 1} /\ (o.total >= 0 /\ o.prob <= 0 => r = 0)
          /\ o.total >= 0 /\ o.prob > o.total => r = 1
      BY <1>1, <1>2, <1>4, <1>5, <2>4, AnswerHonoured DEF throws
    <3>2. /\ o.total = Border[i] /\ o.total \in Nat
          /\ o.prob = wanted(cmdline[i].val, Registered[i].prob)
      <4>1. Border[i] \in Nat  BY <1>1, OptionsAssumption
      <4> QED  BY <1>2, <2>4, <4>1 DEF Asked
    <3>3. r \in {0, 1}  BY <3>1
    <3>4. /\ wanted(cmdline[i].val, Registered[i].prob) <= 0 => r = 0
          /\ wanted(cmdline[i].val, Registered[i].prob) > Border[i] => r = 1
      <4>1. o.total >= 0  BY <3>2
      <4> QED  BY <3>1, <3>2, <4>1
    <3> QED  BY <2>1, <2>2, <2>4, <3>3, <3>4 DEF Honoured
  <2>5. CASE o.kind = "probf"
    <3>1. sum(o.probs) > 0 => /\ r \in 0..(Len(o.probs) - 1)
                              /\ o.probs[r + 1] > 0
                              /\ r > 0 => o.probs[r] < o.probs[r + 1]
      BY <1>1, <1>2, <1>4, <1>5, <2>5, AnswerHonoured
    <3>2. o.probs = wanted(cmdline[i].probs, Registered[i].probs)
      BY <1>2, <2>5 DEF Asked
    <3> QED  BY <2>1, <2>2, <2>5, <3>1, <3>2 DEF Honoured
  <2> QED  BY <1>1, <2>3, <2>4, <2>5 DEF random
<1> QED  BY <1>8, <1>9, <1>10, <1>11, <1>12, AskingKeeps DEF IndInv

\* Nothing to do is done without harm.
LEMMA StutterInv == IndInv /\ UNCHANGED config_vars => IndInv'
<1> SUFFICES ASSUME IndInv, UNCHANGED config_vars PROVE IndInv'  OBVIOUS
<1> USE DEF config_vars, reading, asking
<1>1. ConfigTypeOK'  BY DEF IndInv, ConfigTypeOK
<1>2. Locked' /\ Answered' /\ EachNumberOnce'
  BY DEF IndInv, Locked, Answered, EachNumberOnce
<1>3. Honoured'  BY DEF IndInv, Honoured
<1> QED  BY <1>1, <1>2, <1>3, AskingKeeps DEF IndInv

\* The invariant: what was read so far is what the command line asks, whoever
\* draws holds the mutex and the next number, and the last answer is honoured.
THEOREM Invariance == ConfigSpec => []IndInv
<1>1. IndInv /\ [ConfigNext]_config_vars => IndInv'
  <2> SUFFICES ASSUME IndInv, [ConfigNext]_config_vars PROVE IndInv'  OBVIOUS
  <2>1. CASE skip_option  BY <2>1, SkipInv
  <2>2. CASE refuse_option  BY <2>2, RefuseInv
  <2>3. CASE read_option  BY <2>3, ReadInv
  <2>4. CASE finish_reading  BY <2>4, FinishInv
  <2>5. ASSUME NEW i \in Options, get_single(i) \/ get_throws(i) PROVE IndInv'
    BY <2>5, SingleInv, ThrowsInv
  <2>6. ASSUME NEW t \in Threads, get_random(t) PROVE IndInv'
    BY <2>6, RandomInv
  <2>7. ASSUME NEW t \in Threads, NEW i \in Options, rand_from(t, i) PROVE IndInv'
    BY <2>7, RandFromInv
  <2>8. CASE ConfigEnd \/ UNCHANGED config_vars  BY <2>8, StutterInv DEF ConfigEnd
  <2> QED  BY <2>1, <2>2, <2>3, <2>4, <2>5, <2>6, <2>7, <2>8 DEF ConfigNext
<1> QED  BY InitInv, <1>1, PTL DEF ConfigSpec

\* A command line is refused only for what the error messages name, and none with
\* a probability function of the wrong length gets through (read_global_config),
\* for every registry.
THEOREM RefusalsHaveCause == ConfigSpec => []RefusedForCause
<1>1. IndInv => RefusedForCause
  BY OptionIds DEF IndInv, ConfigTypeOK, ReadUpTo, RefusedForCause
<1> QED  BY Invariance, <1>1, PTL

\* get answers what the user asked for, for every registry and command line.
THEOREM AnswersHonoured == ConfigSpec => []Honoured
<1>1. IndInv => Honoured  BY DEF IndInv
<1> QED  BY Invariance, <1>1, PTL

\* The mutex in rand_from gives every number to one draw, however many threads.
THEOREM NumbersOnce == ConfigSpec => []EachNumberOnce
<1>1. IndInv => EachNumberOnce  BY DEF IndInv
<1> QED  BY Invariance, <1>1, PTL

-----------------------------------------------------------------------------
(* Chances                                                                 *)

\* A function that grows from entry to entry grows all over.
LEMMA Grows ==
  ASSUME NEW p, \A j \in 1..Len(p) : p[j] \in Int, Len(p) \in Nat,
         \A j \in 1..(Len(p) - 1) : p[j] <= p[j + 1],
         NEW a \in 1..Len(p), NEW b \in a..Len(p)
  PROVE  p[a] <= p[b]
<1> SUFFICES ASSUME ~(p[a] <= p[b]) PROVE FALSE
  OBVIOUS
<1> DEFINE T == {x \in Nat : x \in a..Len(p) /\ ~(p[a] <= p[x])}
<1>1. T \subseteq Nat /\ b \in T
  OBVIOUS
<1>2. PICK m \in T : \A x \in T : ~ (<<x, m>> \in OpToRel(<, Nat))
  <2>1. IsWellFoundedOn(OpToRel(<, Nat), Nat)
    BY NatLessThanWellFounded
  <2> HIDE DEF T
  <2> QED
    BY <1>1, <2>1, WFMin
<1>3. m \in a..Len(p) /\ ~(p[a] <= p[m]) /\ p[a] \in Int /\ p[m] \in Int /\ m \in Nat
  <2>1. m \in a..Len(p) /\ ~(p[a] <= p[m]) /\ m \in Nat
    OBVIOUS
  <2>2. m \in 1..Len(p)
    BY <2>1
  <2> QED
    BY <2>1, <2>2
<1>4. m # a
  BY <1>3
<1>5. m - 1 \in a..Len(p) /\ m - 1 \in 1..(Len(p) - 1) /\ m - 1 \in Nat
  BY <1>3, <1>4
<1>6. p[m - 1] <= p[m]
  <2>1. p[m - 1] <= p[m - 1 + 1] /\ m - 1 + 1 = m
    BY <1>3, <1>5
  <2> QED
    BY <2>1
<1>7. p[m - 1] \in Int
  BY <1>5
<1>8. m - 1 \in T
  BY <1>3, <1>5, <1>6, <1>7
<1>9. <<m - 1, m>> \in OpToRel(<, Nat)
  BY <1>3, <1>5 DEF OpToRel
<1> QED
  BY <1>2, <1>8, <1>9

\* So entry k is picked for the numbers from the entry before up to it.
LEMMA PickedFor ==
  ASSUME NEW p \in Seq(Ints), p # <<>>, p[1] >= 0, sum(p) > 0,
         \A j \in 1..(Len(p) - 1) : p[j] <= p[j + 1],
         NEW k \in 0..(Len(p) - 1), NEW low, low = IF k = 0 THEN 0 ELSE p[k]
  PROVE  Cardinality({v \in values(0, sum(p) - 1) : k \in pick(p, v)}) = p[k + 1] - low
<1>1. Len(p) \in Nat \ {0} /\ \A j \in 1..Len(p) : p[j] \in Int
  <2>1. Len(p) \in Nat \ {0} /\ \A j \in 1..Len(p) : p[j] \in Ints
    OBVIOUS
  <2>2. Ints \subseteq Int
    BY OptionsAssumption
  <2> QED
    BY <2>1, <2>2
<1>2. \A a \in 1..Len(p) : \A b \in a..Len(p) : p[a] <= p[b]
  BY <1>1, Grows
<1> DEFINE high == p[k + 1]
           n == sum(p)
<1>3. n \in Int /\ n = p[Len(p)] /\ high \in Int /\ low \in Int /\ k + 1 \in 1..Len(p)
  BY <1>1 DEF sum
<1>4. high <= n
  <2>1. Len(p) \in (k + 1)..Len(p)
    BY <1>1
  <2> QED
    BY <1>2, <1>3, <2>1
<1>5. 0 <= low /\ low <= high
  <2>1. CASE k = 0
    BY <1>3, <2>1
  <2>2. CASE k # 0
    <3>1. k \in 1..Len(p) /\ 1 \in 1..Len(p) /\ k \in 1..Len(p) /\ k + 1 \in k..Len(p)
      BY <1>1, <2>2
    <3>2. p[1] <= p[k] /\ p[k] <= p[k + 1] /\ p[1] \in Int /\ p[k] \in Int
      BY <1>1, <1>2, <3>1
    <3> QED
      BY <1>3, <2>2, <3>2
  <2> QED
    BY <2>1, <2>2
<1>6. values(0, n - 1) = 0..(n - 1)
  BY <1>3 DEF values
<1> HIDE DEF n, high
<1>7. ASSUME NEW v \in 0..(n - 1)
      PROVE  k \in pick(p, v) <=> low <= v /\ v < high
  <2>1. v \in Int /\ v >= 0
    BY <1>3
  <2>2. k \in pick(p, v) <=> (\A j \in 1..k : p[j] <= v) /\ high > v
    BY <1>1 DEF pick, high
  <2>3. (\A j \in 1..k : p[j] <= v) <=> low <= v
    <3>1. CASE k = 0
      BY <2>1, <3>1
    <3>2. CASE k # 0
      <4>1. k \in 1..k /\ k \in 1..Len(p) /\ low = p[k]
        BY <1>1, <3>2
      <4>2. ASSUME NEW j \in 1..k, low <= v
            PROVE  p[j] <= v
        <5>1. j \in 1..Len(p) /\ k \in j..Len(p)
          BY <1>1, <4>1
        <5>2. p[j] <= p[k] /\ p[j] \in Int /\ p[k] \in Int
          BY <1>1, <1>2, <4>1, <5>1
        <5> QED
          BY <2>1, <4>1, <4>2, <5>2
      <4> QED
        BY <4>1, <4>2
    <3> QED
      BY <3>1, <3>2
  <2> QED
    BY <1>3, <2>1, <2>2, <2>3
<1>8. {v \in 0..(n - 1) : k \in pick(p, v)} = low..(high - 1)
  <2>1. ASSUME NEW v
        PROVE  v \in 0..(n - 1) /\ k \in pick(p, v) <=> v \in low..(high - 1)
    <3>1. CASE v \in 0..(n - 1)
      BY <1>3, <1>7, <3>1
    <3>2. CASE v \notin 0..(n - 1)
      BY <1>3, <1>4, <1>5, <3>2
    <3> QED
      BY <3>1, <3>2
  <2> QED
    BY <2>1
<1>9. Cardinality(low..(high - 1)) = high - low
  <2>1. Cardinality(low..(high - 1)) = IF low > high - 1 THEN 0 ELSE (high - 1) - low + 1
    <3>1. low \in Int /\ high - 1 \in Int
      BY <1>3
    <3> QED
      BY <3>1, FS_Interval
  <2>2. CASE low = high
    BY <1>3, <2>1, <2>2
  <2>3. CASE low # high
    BY <1>3, <1>5, <2>1, <2>3
  <2> QED
    BY <2>2, <2>3
<1> QED
  BY <1>6, <1>8, <1>9 DEF n, high

\* Of the functions that grow, every entry is drawn for as many values of the
\* generator as it exceeds the one before, for every registry and command line.
THEOREM ChancesAreAsWritten == ConfigSpec => []ChancesAsWritten
<1>1. IndInv => ChancesAsWritten
  <2> SUFFICES ASSUME IndInv, NEW i \in Options, registry[i].kind = "probf", NEW p, p = registry[i].probs,
                      p # <<>>, p[1] >= 0, sum(p) > 0,
                      \A j \in 1..(Len(p) - 1) : p[j] <= p[j + 1],
                      NEW k \in 0..(Len(p) - 1)
               PROVE  Cardinality({v \in values(0, sum(p) - 1) : k \in pick(p, v)})
                        = p[k + 1] - (IF k = 0 THEN 0 ELSE p[k])
    BY DEF ChancesAsWritten
  <2>1. p \in Seq(Ints)
    <3>1. IsOption(registry[i])
      BY DEF IndInv, ConfigTypeOK
    <3> QED
      BY <3>1 DEF IsOption
  <2> QED
    BY <2>1, PickedFor
<1> QED  BY Invariance, <1>1, PTL
=============================================================================
