----------------------------- MODULE WshProofs -----------------------------
(***************************************************************************)
(* Proofs about Wsh, for all sessions, numbers of stages and sizes of a    *)
(* pipe: the variables hold what was assigned, and the prompt comes back   *)
(* when the pipeline is reaped and has printed everything, in order.       *)
(***************************************************************************)
EXTENDS Wsh, FiniteSetTheorems, SequenceTheorems, TLAPS, WellFoundedInduction

-----------------------------------------------------------------------------
(* The inductive invariant *)

\* The provers do not know that "" is in STRING.
Strings == STRING \cup {"", "unset"}
WordSet == [k : {"word", "var", "assign", "pipe"}, n : Strings, v : Strings]

\* A line of words, in which each variable is one of Names
GoodLine(l) ==
    /\ l \in Seq(WordSet)
    /\ \A i \in DOMAIN l : l[i].k \in {"var", "assign"} => l[i].n \in Names

\* The history may be linked in any way: its nodes hold lines.
NodeOK(e) == /\ e = [cmd |-> e.cmd, prev |-> e.prev, next |-> e.next]
             /\ GoodLine(e.cmd)
HistoryOK(h) ==
    /\ h = [node |-> h.node, head |-> h.head, tail |-> h.tail,
            count |-> h.count, maxCount |-> h.maxCount]
    /\ h.node = [d \in NodeIds |-> h.node[d]]
    /\ \A d \in NodeIds : NodeOK(h.node[d])

\* The array sv has each variable that local gives a value, once, and no other.
Table == Seq([name : Names, value : Strings])
TableOf(sv, local) ==
    /\ sv \in Table
    /\ \A i, j \in DOMAIN sv : sv[i].name = sv[j].name => i = j
    /\ \A i \in DOMAIN sv : sv[i].value # "" /\ sv[i].value = local[sv[i].name]
    /\ \A x \in Names : local[x] # "" => \E i \in DOMAIN sv : sv[i].name = x

VarsOK ==
    /\ environ \in [Names -> Strings]
    /\ shell_variables \in Table
    /\ lines \in Sessions
AssignedOK ==
    /\ assigned = [local |-> assigned.local, env |-> environ]
    /\ assigned.local \in [Names -> Strings]
    /\ TableOf(shell_variables, assigned.local)

Stages == [pc : {"none", "forked", "running", "stray", "zombie", "reaped"},
           pgid : {0, 1}, has : Nat, done : Nat]
Ran(j) == stage[j].pc \in {"zombie", "reaped"}
Spawned == IF shell.pc = "spawn" THEN 1..(shell.i - 1)
           ELSE IF shell.pc = "close" THEN 1..shell.i ELSE 1..(shell.n + 1)
Reaped == {j \in 1..shell.n : stage[j].pc = "reaped"}
AllInstalled == \A j \in DOMAIN stage : shell.prog[j] \in Installed

\* fork_pipes: which stages there are, what they hold, which ones were waited for
ShellOK ==
    /\ shell = [pc |-> shell.pc, n |-> shell.n, i |-> shell.i, waited |-> shell.waited,
                record |-> shell.record, line |-> shell.line, prog |-> shell.prog]
    /\ shell.pc \in {"spawn", "close", "waitlast", "waitrest"}
    /\ shell.n \in Nat \ {0} /\ shell.waited \in Nat
    /\ shell.i \in 1..(shell.n + 1) /\ (shell.pc = "close" => shell.i <= shell.n)
    /\ shell.pc # "waitrest" => shell.waited = 0
    /\ GoodLine(shell.line)
\* A stage is there once it is spawned, and reaped only by the waits.
StagesOK ==
    /\ stage \in [1..(shell.n + 1) -> Stages]
    /\ \A j \in 1..(shell.n + 1) : stage[j].pc # "none" <=> j \in Spawned
    /\ \A j \in 1..(shell.n + 1) : stage[j].pc = "reaped" => shell.pc = "waitrest"
    /\ shell.pc = "waitrest" => /\ stage[shell.n + 1].pc = "reaped"
                                /\ shell.waited = Cardinality(Reaped)
\* A stage that has not ended holds the write end of its pipe.
EndsOK ==
    /\ wr = [p \in 0..(shell.n + 1) |-> wr[p]]
    /\ shell.pc = "close" => shell.i \in wr[0]
    /\ \A j \in 1..shell.n : stage[j].pc \in {"forked", "running", "stray"} => j \in wr[j]

\* f[j] is the number of items that stage j has handed on.
Held(j) == IF stage[j].has = 0 THEN 0 ELSE 1
Counts(f) ==
    /\ f \in [1..(shell.n + 1) -> Nat]
    /\ Len(out) = f[shell.n + 1] /\ \A m \in 1..Len(out) : out[m] = m
    /\ \A q \in 1..shell.n :
        /\ f[q] = f[q + 1] + Held(q + 1) + Len(buf[q])
        /\ \A m \in 1..Len(buf[q]) : buf[q][m] = f[q + 1] + Held(q + 1) + m
    /\ \A j \in 1..(shell.n + 1) : stage[j].has # 0 => stage[j].has = f[j] + 1
    /\ stage[1].done = f[1] + Held(1) /\ stage[1].done <= Items
\* When all programs exist, a stage ends only after it has handed on everything.
Complete(f) ==
    AllInstalled => \A j \in 1..(shell.n + 1) : Ran(j) => f[j] = Items /\ stage[j].has = 0
FlowOK ==
    /\ buf \in [1..shell.n -> Seq(Nat)] /\ out \in Seq(Nat)
    /\ \E f \in [1..(shell.n + 1) -> Nat] : Counts(f) /\ Complete(f)

PipelineOK == ShellOK /\ StagesOK /\ EndsOK /\ FlowOK
\* What the loop finds after a pipeline
PromptOK ==
    /\ fd0 = "input"
    /\ \A j \in DOMAIN stage : stage[j].pc = "reaped"
    /\ (stage # <<>> /\ AllInstalled) => out = [m \in 1..Items |-> m]

Inv == /\ HistoryOK(history) /\ VarsOK
       /\ mode = "pipeline" => PipelineOK
       /\ mode = "prompt" => PromptOK

-----------------------------------------------------------------------------
(* Numbers *)

\* A set of numbers that is not empty has a smallest one.
LEMMA SmallestNat ==
    ASSUME NEW S, S \subseteq Nat, S # {}
    PROVE  \E x \in S : \A y \in S : x <= y
  <1> DEFINE R == {ss \in Nat \X Nat : ss[1] < ss[2]}
  <1>1. IsWellFoundedOn(R, Nat)
    <2>1. R = OpToRel(<, Nat)
      BY DEF OpToRel
    <2>. QED
      BY <2>1, NatLessThanWellFounded
  <1>. HIDE DEF R
  <1>2. \E x \in S : \A y \in S : ~(<<y, x>> \in R)
    BY <1>1, WFMin
  <1>3. PICK x \in S : \A y \in S : ~(<<y, x>> \in R)
    BY <1>2
  <1>4. \A y \in S : ~(y < x)
    BY <1>3 DEF R
  <1>. QED
    BY <1>4

\* First gives the smallest of a set of positions.
LEMMA FirstIs ==
    ASSUME NEW S, S \subseteq Nat, S # {}
    PROVE  First(S) \in S /\ \A y \in S : First(S) <= y
  <1>1. \E x \in S : \A y \in S : x <= y
    BY SmallestNat
  <1>. QED
    BY <1>1 DEF First

\* The m-th smallest element of a finite set of positions exists.
LEMMA NthElement ==
    ASSUME NEW l \in Nat, NEW K \in SUBSET (1..l), NEW m \in 1..Cardinality(K)
    PROVE  \E i \in K : Cardinality({j \in K : j <= i}) = m
  <1> DEFINE Low(i) == {j \in K : j <= i}
  <1>1. IsFiniteSet(K) /\ Cardinality(K) \in Nat
    <2>1. IsFiniteSet(1..l)
      BY FS_Interval
    <2>. QED
      BY <2>1, FS_Subset, FS_CardinalityType
  <1>0. \A j \in K : j \in Nat /\ 1 <= j /\ j <= l
    OBVIOUS
  <1>2. \A i \in 0..l : IsFiniteSet(Low(i)) /\ Cardinality(Low(i)) \in Nat
    <2>. TAKE i \in 0..l
    <2>1. Low(i) \in SUBSET K
      OBVIOUS
    <2>. QED
      BY <2>1, <1>1, FS_Subset, FS_CardinalityType
  <1>3. Low(l) = K /\ Low(0) = {}
    <2>1. Low(l) = K
      BY <1>0
    <2>2. \A j \in K : ~(j <= 0)
      BY <1>0
    <2>. QED
      BY <2>1, <2>2
  <1> DEFINE B == {i \in 0..l : Cardinality(Low(i)) >= m}
  <1>. HIDE DEF Low
  <1>4. B \subseteq Nat /\ B # {}
    BY <1>3, <1>1
  <1>5. PICK i \in B : \A y \in B : i <= y
    BY <1>4, SmallestNat
  <1>6. i # 0
    BY <1>3, <1>5, FS_EmptySet
  <1>7. i \in 1..l /\ i - 1 \in 0..l /\ i - 1 \notin B
    BY <1>5, <1>6
  <1>8. Cardinality(Low(i)) >= m /\ Cardinality(Low(i - 1)) < m
    BY <1>7, <1>5, <1>2
  <1>9. CASE i \in K
    <2>0. /\ \A j \in K : j <= i <=> j <= i - 1 \/ j = i
          /\ ~(i <= i - 1)
      BY <1>7, <1>0
    <2>1. Low(i) = Low(i - 1) \cup {i} /\ i \notin Low(i - 1)
      BY <2>0, <1>9 DEF Low
    <2>2. Cardinality(Low(i)) = Cardinality(Low(i - 1)) + 1
      BY <2>1, <1>2, <1>7, FS_AddElement
    <2>3. Cardinality(Low(i)) = m
      BY <2>2, <1>8, <1>2, <1>7, <1>1
    <2>. QED
      BY <2>3, <1>9 DEF Low
  <1>10. CASE i \notin K
    <2>0. \A j \in K : j <= i <=> j <= i - 1
      BY <1>10, <1>7, <1>0
    <2>1. Low(i) = Low(i - 1)
      BY <2>0 DEF Low
    <2>. QED
      BY <2>1, <1>8, <1>2, <1>7, <1>1
  <1>. QED
    BY <1>9, <1>10

-----------------------------------------------------------------------------
(* The array of variables *)

\* An array with entries of different names is not longer than Names, and
\* shorter when it lacks one.
LEMMA TableFits ==
    ASSUME NEW sv \in Table, \A i, j \in DOMAIN sv : sv[i].name = sv[j].name => i = j
    PROVE  /\ Len(sv) <= Cardinality(Names)
           /\ \A x \in Names : (\A i \in DOMAIN sv : sv[i].name # x) => Len(sv) < Cardinality(Names)
  <1>1. Len(sv) \in Nat /\ DOMAIN sv = 1..Len(sv) /\ \A i \in 1..Len(sv) : sv[i].name \in Names
    <2> DEFINE Rec == [name : Names, value : Strings]
    <2>1. \A r \in Rec : r.name \in Names
      OBVIOUS
    <2>2. sv \in Seq(Rec)
      BY DEF Table
    <2>. HIDE DEF Rec
    <2>3. Len(sv) \in Nat /\ DOMAIN sv = 1..Len(sv) /\ \A i \in 1..Len(sv) : sv[i] \in Rec
      BY <2>2
    <2>. QED
      BY <2>1, <2>3
  <1>2. \A T \in SUBSET Names : (\A i \in 1..Len(sv) : sv[i].name \in T) => Len(sv) <= Cardinality(T)
    <2>. SUFFICES ASSUME NEW T \in SUBSET Names, \A i \in 1..Len(sv) : sv[i].name \in T
                  PROVE  Len(sv) <= Cardinality(T)
      OBVIOUS
    <2> DEFINE g == [i \in 1..Len(sv) |-> sv[i].name]
    <2>1. IsFiniteSet(T)
      BY FS_Subset, SizesAssumption
    <2>2. g \in Injection(1..Len(sv), T)
      BY <1>1 DEF Injection, IsInjective
    <2>3. Cardinality(1..Len(sv)) <= Cardinality(T)
      BY <2>1, <2>2, FS_Injection
    <2>4. Cardinality(1..Len(sv)) = Len(sv)
      <3>1. 0 \in Nat /\ 1 \in Int /\ Len(sv) \in Int
        BY <1>1
      <3>2. Cardinality(1..Len(sv)) = IF 1 > Len(sv) THEN 0 ELSE Len(sv) - 1 + 1
        BY <3>1, FS_Interval
      <3>. QED
        BY <3>2, <1>1
    <2>. QED
      BY <2>3, <2>4
  <1>3. ASSUME NEW x \in Names, \A i \in DOMAIN sv : sv[i].name # x
        PROVE  Len(sv) < Cardinality(Names)
    <2>1. \A i \in 1..Len(sv) : sv[i].name \in Names \ {x}
      BY <1>1, <1>3
    <2>2. Len(sv) <= Cardinality(Names \ {x})
      BY <2>1, <1>2
    <2>3. Cardinality(Names \ {x}) = Cardinality(Names) - 1 /\ Cardinality(Names) \in Nat
      BY FS_RemoveElement, FS_CardinalityType, SizesAssumption
    <2>. QED
      BY <2>2, <2>3, <1>1
  <1>. QED
    BY <1>1, <1>2, <1>3

\* Taking out position i moves what is behind it one place down.
LEMMA Shifted ==
    ASSUME NEW S, NEW sv \in Seq(S), NEW i \in DOMAIN sv
    PROVE  /\ RemoveAt(sv, i) \in Seq(S) /\ Len(RemoveAt(sv, i)) = Len(sv) - 1
           /\ \A j \in 1..(Len(sv) - 1) : RemoveAt(sv, i)[j] = sv[IF j < i THEN j ELSE j + 1]
  <1>1. i \in 1..Len(sv) /\ Len(sv) \in Nat
    OBVIOUS
  <1> DEFINE a == SubSeq(sv, 1, i - 1)
             b == SubSeq(sv, i + 1, Len(sv))
  <1>2. a \in Seq(S) /\ Len(a) = i - 1 /\ \A j \in 1..(i - 1) : a[j] = sv[j]
    BY <1>1
  <1>3. b \in Seq(S) /\ Len(b) = Len(sv) - i /\ \A j \in 1..(Len(sv) - i) : b[j] = sv[i + j]
    BY <1>1
  <1>4. RemoveAt(sv, i) = a \o b
    BY DEF RemoveAt
  <1>. HIDE DEF a, b
  <1>5. a \o b \in Seq(S) /\ Len(a \o b) = Len(sv) - 1
    BY <1>1, <1>2, <1>3
  <1>6. ASSUME NEW j \in 1..(Len(sv) - 1) PROVE (a \o b)[j] = sv[IF j < i THEN j ELSE j + 1]
    <2>1. CASE j < i
      BY <2>1, <1>1, <1>2, <1>3, <1>6
    <2>2. CASE ~(j < i)
      <3>0. j \in (i..(Len(sv) - 1)) /\ j - (i - 1) \in 1..(Len(sv) - i)
        BY <2>2, <1>1, <1>6
      <3>1. (a \o b)[j] = b[j - (i - 1)]
        <4>1. (a \o b)[j] = IF j <= Len(a) THEN a[j] ELSE b[j - Len(a)]
          BY <1>1, <1>2, <1>3, ConcatProperties
        <4>2. Len(a) = i - 1 /\ ~(j <= i - 1)
          BY <1>1, <1>2, <3>0
        <4>. QED
          BY <4>1, <4>2
      <3>2. i + (j - (i - 1)) = j + 1
        BY <1>1, <1>6
      <3>3. b[j - (i - 1)] = sv[j + 1]
        BY <3>0, <3>2, <1>3
      <3>4. (IF j < i THEN j ELSE j + 1) = j + 1
        BY <2>2
      <3>. QED
        BY <3>1, <3>3, <3>4
    <2>. QED
      BY <2>1, <2>2
  <1>. QED
    BY <1>4, <1>5, <1>6

\* The array without the entries of a name
Without(sv, name) == IF Entries(sv, name) = {} THEN sv ELSE RemoveAt(sv, First(Entries(sv, name)))

\* The array without the first entry of a name keeps the others, in order.
LEMMA WithoutType ==
    ASSUME NEW sv \in Table, NEW name
    PROVE  /\ Without(sv, name) \in Table
           /\ Entries(sv, name) # {} =>
                LET i == First(Entries(sv, name)) IN
                /\ i \in 1..Len(sv) /\ sv[i].name = name
                /\ Len(Without(sv, name)) = Len(sv) - 1
                /\ \A j \in 1..(Len(sv) - 1) : Without(sv, name)[j] = sv[IF j < i THEN j ELSE j + 1]
  <1> DEFINE Rec == [name : Names, value : Strings]
             i == First(Entries(sv, name))
  <1>1. sv \in Seq(Rec) /\ Table = Seq(Rec)
    BY DEF Table
  <1>. HIDE DEF Rec
  <1>2. DOMAIN sv = 1..Len(sv) /\ Len(sv) \in Nat
    BY <1>1
  <1>3. CASE Entries(sv, name) = {}
    BY <1>3, <1>1 DEF Without
  <1>4. CASE Entries(sv, name) # {}
    <2>1. Entries(sv, name) \subseteq DOMAIN sv /\ \A h \in Entries(sv, name) : sv[h].name = name
      BY DEF Entries
    <2>2. Entries(sv, name) \subseteq Nat
      BY <2>1, <1>2
    <2>3. i \in Entries(sv, name)
      BY <2>2, <1>4, FirstIs
    <2>4. i \in DOMAIN sv /\ sv[i].name = name
      BY <2>1, <2>3
    <2>5. Without(sv, name) = RemoveAt(sv, i)
      BY <1>4 DEF Without
    <2>. HIDE DEF i
    <2>6. /\ RemoveAt(sv, i) \in Seq(Rec) /\ Len(RemoveAt(sv, i)) = Len(sv) - 1
          /\ \A j \in 1..(Len(sv) - 1) : RemoveAt(sv, i)[j] = sv[IF j < i THEN j ELSE j + 1]
      BY <1>1, <2>4, Shifted
    <2>7. /\ i \in 1..Len(sv) /\ sv[i].name = name
          /\ Without(sv, name) \in Table /\ Len(Without(sv, name)) = Len(sv) - 1
          /\ \A j \in 1..(Len(sv) - 1) : Without(sv, name)[j] = sv[IF j < i THEN j ELSE j + 1]
      BY <2>4, <2>5, <2>6, <1>1, <1>2
    <2>. QED
      BY <2>7 DEF i
  <1>. QED
    BY <1>3, <1>4

\* Taking a variable out leaves a table of the other ones.
LEMMA WithoutIsTable ==
    ASSUME NEW sv, NEW local \in [Names -> Strings], TableOf(sv, local), NEW name \in Names
    PROVE  LET rest == Without(sv, name) IN
           /\ TableOf(rest, [local EXCEPT ![name] = ""])
           /\ \A i \in DOMAIN rest : rest[i].name # name
  <1> DEFINE rest == Without(sv, name)
             cleared == [local EXCEPT ![name] = ""]
             i == First(Entries(sv, name))
  <1>. SUFFICES TableOf(rest, cleared) /\ \A j \in DOMAIN rest : rest[j].name # name
    OBVIOUS
  <1>1. sv \in Table /\ rest \in Table
    BY WithoutType DEF TableOf
  <1>2. /\ DOMAIN sv = 1..Len(sv) /\ Len(sv) \in Nat /\ DOMAIN rest = 1..Len(rest) /\ Len(rest) \in Nat
        /\ \A j \in DOMAIN sv : sv[j].name \in Names
    <2> DEFINE Rec == [name : Names, value : Strings]
    <2>1. \A r \in Rec : r.name \in Names
      OBVIOUS
    <2>2. sv \in Seq(Rec) /\ rest \in Seq(Rec)
      BY <1>1 DEF Table
    <2>. HIDE DEF Rec, rest
    <2>3. /\ DOMAIN sv = 1..Len(sv) /\ Len(sv) \in Nat /\ DOMAIN rest = 1..Len(rest) /\ Len(rest) \in Nat
          /\ \A j \in DOMAIN sv : sv[j] \in Rec
      BY <2>2
    <2>. QED
      BY <2>1, <2>3
  <1>3. /\ cleared[name] = "" /\ \A x \in Names : x # name => cleared[x] = local[x]
    OBVIOUS
  <1>4. /\ \A h, j \in DOMAIN sv : sv[h].name = sv[j].name => h = j
        /\ \A h \in DOMAIN sv : sv[h].value # "" /\ sv[h].value = local[sv[h].name]
        /\ \A x \in Names : local[x] # "" => \E h \in DOMAIN sv : sv[h].name = x
    BY DEF TableOf
  <1>5. CASE Entries(sv, name) = {}
    <2>1. rest = sv
      BY <1>5 DEF Without
    <2>2. \A h \in DOMAIN sv : sv[h].name # name
      BY <1>5 DEF Entries
    <2>. HIDE DEF rest, cleared
    <2>. QED
      BY <2>1, <2>2, <1>1, <1>2, <1>3, <1>4 DEF TableOf
  <1>6. CASE Entries(sv, name) # {}
    <2>1. /\ i \in 1..Len(sv) /\ sv[i].name = name /\ Len(rest) = Len(sv) - 1
          /\ \A j \in 1..(Len(sv) - 1) : rest[j] = sv[IF j < i THEN j ELSE j + 1]
      BY <1>6, <1>1, WithoutType
    <2> DEFINE at(j) == IF j < i THEN j ELSE j + 1
    <2>. HIDE DEF rest, cleared, i
    <2>2. \A j \in DOMAIN rest : at(j) \in DOMAIN sv /\ at(j) # i /\ rest[j] = sv[at(j)]
      BY <2>1, <1>2
    <2>3. \A g, h \in DOMAIN rest : at(g) = at(h) => g = h
      BY <2>1, <1>2
    <2>4. \A h \in DOMAIN sv : h # i => \E j \in DOMAIN rest : at(j) = h
      <3>. TAKE h \in DOMAIN sv
      <3>. HAVE h # i
      <3>1. CASE h < i
        <4>1. h \in DOMAIN rest /\ at(h) = h
          BY <3>1, <2>1, <1>2
        <4>. QED
          BY <4>1
      <3>2. CASE h > i
        <4>1. h - 1 \in DOMAIN rest /\ at(h - 1) = h
          BY <3>2, <2>1, <1>2
        <4>. QED
          BY <4>1
      <3>. QED
        BY <3>1, <3>2, <2>1, <1>2
    <2>. HIDE DEF at
    <2>5. \A j \in DOMAIN rest : rest[j].name # name
      BY <2>1, <2>2, <1>2, <1>4
    <2>6. ASSUME NEW g \in DOMAIN rest, NEW h \in DOMAIN rest, rest[g].name = rest[h].name
          PROVE  g = h
      <3>1. sv[at(g)].name = sv[at(h)].name /\ at(g) \in DOMAIN sv /\ at(h) \in DOMAIN sv
        BY <2>2, <2>6
      <3>2. at(g) = at(h)
        BY <3>1, <1>4
      <3>. QED
        BY <3>2, <2>3
    <2>7. ASSUME NEW h \in DOMAIN rest
          PROVE  rest[h].value # "" /\ rest[h].value = cleared[rest[h].name]
      <3>1. rest[h] = sv[at(h)] /\ at(h) \in DOMAIN sv
        BY <2>2
      <3>2. sv[at(h)].name \in Names /\ sv[at(h)].name # name
        BY <3>1, <2>5, <1>2
      <3>3. cleared[sv[at(h)].name] = local[sv[at(h)].name]
        BY <3>2, <1>3
      <3>4. sv[at(h)].value # "" /\ sv[at(h)].value = local[sv[at(h)].name]
        BY <3>1, <1>4
      <3>. QED
        BY <3>1, <3>3, <3>4
    <2>8. ASSUME NEW x \in Names, cleared[x] # ""
          PROVE  \E h \in DOMAIN rest : rest[h].name = x
      <3>1. x # name /\ local[x] # ""
        BY <2>8, <1>3
      <3>2. PICK h \in DOMAIN sv : sv[h].name = x
        BY <3>1, <1>4
      <3>3. PICK j \in DOMAIN rest : at(j) = h
        BY <3>1, <3>2, <2>1, <2>4
      <3>4. rest[j] = sv[h]
        BY <3>3, <2>2
      <3>. QED
        BY <3>2, <3>4
    <2>. QED
      BY <1>1, <2>5, <2>6, <2>7, <2>8 DEF TableOf
  <1>. QED
    BY <1>5, <1>6

\* An assignment by local: one entry with the value, or none for the empty one.
LEMMA LocalAssigns ==
    ASSUME NEW sv, NEW local \in [Names -> Strings], TableOf(sv, local), NEW name \in Names,
           NEW value \in Strings, Cardinality(Names) <= MAX_VARIABLES
    PROVE  TableOf(wsh_local(sv, name, value), [local EXCEPT ![name] = value])
  <1> DEFINE rest == Without(sv, name)
             cleared == [local EXCEPT ![name] = ""]
             new == [local EXCEPT ![name] = value]
             entry == [name |-> name, value |-> value]
  <1>1. TableOf(rest, cleared) /\ \A i \in DOMAIN rest : rest[i].name # name
    BY WithoutIsTable
  <1>2. wsh_local(sv, name, value) = IF value # "" /\ Len(rest) < MAX_VARIABLES
                                     THEN Append(rest, entry) ELSE rest
    BY DEF wsh_local, Without
  <1>. HIDE DEF rest
  <1>3. /\ rest \in Table
        /\ \A i, j \in DOMAIN rest : rest[i].name = rest[j].name => i = j
        /\ \A i \in DOMAIN rest : rest[i].value # "" /\ rest[i].value = cleared[rest[i].name]
        /\ \A x \in Names : cleared[x] # "" => \E i \in DOMAIN rest : rest[i].name = x
    BY <1>1 DEF TableOf
  <1>4. CASE value = ""
    BY <1>1, <1>2, <1>4
  <1>5. CASE value # ""
    <2>1. Len(rest) < Cardinality(Names)
      BY <1>1, <1>3, TableFits
    <2>2. Len(rest) < MAX_VARIABLES
      <3>1. Cardinality(Names) \in Nat /\ MAX_VARIABLES \in Nat
        BY SizesAssumption, FS_CardinalityType
      <3>2. Len(rest) \in Nat
        <4> DEFINE Rec == [name : Names, value : Strings]
        <4>1. rest \in Seq(Rec)
          BY <1>3 DEF Table
        <4>. HIDE DEF Rec
        <4>. QED
          BY <4>1
      <3>. QED
        BY <3>1, <3>2, <2>1
    <2>3. wsh_local(sv, name, value) = Append(rest, entry)
      BY <1>2, <1>5, <2>2
    <2> DEFINE Rec == [name : Names, value : Strings]
               more == Append(rest, entry)
    <2>4. entry \in Rec /\ rest \in Seq(Rec) /\ entry.name = name /\ entry.value = value
          /\ \A r \in Rec : r.name \in Names
      BY <1>3 DEF Table
    <2>5. /\ new[name] = value /\ \A x \in Names : x # name => new[x] = cleared[x]
      OBVIOUS
    <2>. HIDE DEF Rec, entry, new, cleared
    <2>6. /\ more \in Seq(Rec) /\ DOMAIN more = DOMAIN rest \cup {Len(rest) + 1}
          /\ Len(rest) + 1 \notin DOMAIN rest /\ more[Len(rest) + 1] = entry
          /\ \A i \in DOMAIN rest : more[i] = rest[i] /\ rest[i] \in Rec
      <3>1. DOMAIN rest = 1..Len(rest) /\ Len(rest) \in Nat /\ more \in Seq(Rec)
            /\ DOMAIN more = 1..(Len(rest) + 1)
        BY <2>4
      <3>2. \A i \in 1..Len(rest) : more[i] = rest[i] /\ rest[i] \in Rec
        BY <2>4
      <3>3. more[Len(rest) + 1] = entry
        BY <2>4
      <3>. QED
        BY <3>1, <3>2, <3>3
    <2>. HIDE DEF more
    <2>7. more \in Table
      BY <2>6 DEF Table, Rec
    <2>8. ASSUME NEW i \in DOMAIN more, NEW j \in DOMAIN more, more[i].name = more[j].name
          PROVE  i = j
      <3>1. \A h \in DOMAIN rest : more[h].name # more[Len(rest) + 1].name
        BY <2>6, <2>4, <1>1
      <3>2. CASE i \in DOMAIN rest /\ j \in DOMAIN rest
        BY <3>2, <2>6, <2>8, <1>3
      <3>. QED
        BY <3>1, <3>2, <2>6, <2>8
    <2>9. ASSUME NEW i \in DOMAIN more
          PROVE  more[i].value # "" /\ more[i].value = new[more[i].name]
      <3>1. CASE i \in DOMAIN rest
        <4>1. more[i] = rest[i] /\ rest[i].name \in Names /\ rest[i].name # name
          BY <3>1, <2>4, <2>6, <1>1
        <4>. QED
          BY <4>1, <3>1, <2>5, <1>3
      <3>2. CASE i = Len(rest) + 1
        BY <3>2, <2>4, <2>5, <2>6, <1>5
      <3>. QED
        BY <3>1, <3>2, <2>6
    <2>10. \A x \in Names : new[x] # "" => \E i \in DOMAIN more : more[i].name = x
      BY <2>4, <2>5, <2>6, <1>3
    <2>11. TableOf(more, new)
      BY <2>7, <2>8, <2>9, <2>10 DEF TableOf
    <2>. QED
      BY <2>3, <2>11 DEF more, new
  <1>. QED
    BY <1>4, <1>5

\* Also when it is full the array has entries of their type.
LEMMA LocalType ==
    ASSUME NEW sv \in Table, NEW name \in Names, NEW value \in Strings
    PROVE  wsh_local(sv, name, value) \in Table
  <1> DEFINE rest == Without(sv, name)
             entry == [name |-> name, value |-> value]
             Rec == [name : Names, value : Strings]
  <1>1. wsh_local(sv, name, value) = IF value # "" /\ Len(rest) < MAX_VARIABLES
                                     THEN Append(rest, entry) ELSE rest
    BY DEF wsh_local, Without
  <1>2. rest \in Table
    BY WithoutType
  <1>. HIDE DEF rest
  <1>3. rest \in Seq(Rec) /\ entry \in Rec
    BY <1>2 DEF Table
  <1>. HIDE DEF Rec, entry
  <1>4. Append(rest, entry) \in Seq(Rec)
    BY <1>3
  <1>. QED
    BY <1>1, <1>2, <1>4 DEF Table, Rec

-----------------------------------------------------------------------------
(* Words and lines *)

\* What a variable expands to is a string.
LEMMA ValueIsString ==
    ASSUME environ \in [Names -> Strings], shell_variables \in Table, NEW name \in Names
    PROVE  ValueOf(name) \in Strings
  <1> DEFINE Rec == [name : Names, value : Strings]
             hits == Entries(shell_variables, name)
  <1>0. \A r \in Rec : r.value \in Strings
    OBVIOUS
  <1>1. shell_variables \in Seq(Rec)
    BY DEF Table
  <1>. HIDE DEF Rec
  <1>2. hits \subseteq DOMAIN shell_variables /\ DOMAIN shell_variables \subseteq Nat
    BY <1>1 DEF Entries
  <1>. HIDE DEF hits
  <1>3. hits # {} => First(hits) \in DOMAIN shell_variables
    BY <1>2, FirstIs
  <1>4. hits # {} => shell_variables[First(hits)].value \in Strings
    BY <1>0, <1>1, <1>3
  <1>. QED
    BY <1>4 DEF ValueOf, hits

\* The word that replaces a variable is a plain word.
LEMMA PlainWord ==
    ASSUME NEW x \in Strings
    PROVE  Word(x) \in WordSet /\ Word(x).k = "word"
  <1>1. Word(x) = [k |-> "word", n |-> x, v |-> ""]
    BY DEF Word
  <1>2. "" \in Strings
    BY DEF Strings
  <1>. HIDE DEF Strings
  <1>3. [k |-> "word", n |-> x, v |-> ""] \in WordSet
    BY <1>2 DEF WordSet
  <1>4. [k |-> "word", n |-> x, v |-> ""].k = "word"
    OBVIOUS
  <1>5. Word(x) \in WordSet
    BY <1>1, <1>3, Zenon
  <1>6. Word(x).k = "word"
    BY <1>1, <1>4, Zenon
  <1>. QED
    BY <1>5, <1>6

\* Substitution gives words again; an assignment among them is one of the line.
LEMMA SubstitutedIsGood ==
    ASSUME environ \in [Names -> Strings], shell_variables \in Table, NEW line, GoodLine(line)
    PROVE  GoodLine(Substituted(line))
  <1> DEFINE Kept == {i \in DOMAIN line : line[i].k # "var" \/ ValueOf(line[i].n) # "unset"}
             at(m) == CHOOSE i \in Kept : Cardinality({j \in Kept : j <= i}) = m
             word(w) == IF w.k = "var" THEN Word(ValueOf(w.n)) ELSE w
             args == [m \in 1..Cardinality(Kept) |-> word(line[at(m)])]
  <1>1. Substituted(line) = args
    BY DEF Substituted
  <1>2. line \in Seq(WordSet) /\ DOMAIN line = 1..Len(line) /\ Len(line) \in Nat
    BY DEF GoodLine
  <1>3. Kept \in SUBSET (1..Len(line))
    BY <1>2
  <1>4. Cardinality(Kept) \in Nat
    <2>1. IsFiniteSet(1..Len(line))
      BY <1>2, FS_Interval
    <2>. HIDE DEF Kept
    <2>. QED
      BY <2>1, <1>3, FS_Subset, FS_CardinalityType
  <1>5. \A m \in 1..Cardinality(Kept) : at(m) \in DOMAIN line
    <2>. HIDE DEF Kept
    <2>. TAKE m \in 1..Cardinality(Kept)
    <2>1. \E i \in Kept : Cardinality({j \in Kept : j <= i}) = m
      BY <1>2, <1>3, NthElement
    <2>2. at(m) \in Kept
      BY <2>1
    <2>. QED
      BY <2>2, <1>2, <1>3
  <1>6. ASSUME NEW i \in DOMAIN line
        PROVE  /\ word(line[i]) \in WordSet
               /\ word(line[i]).k \in {"var", "assign"} => word(line[i]).n \in Names
    <2>1. line[i] \in WordSet /\ (line[i].k \in {"var", "assign"} => line[i].n \in Names)
      BY <1>2, <1>6 DEF GoodLine
    <2>2. CASE line[i].k = "var"
      <3>1. ValueOf(line[i].n) \in Strings
        BY <2>1, <2>2, ValueIsString
      <3>2. word(line[i]) = Word(ValueOf(line[i].n))
        BY <2>2
      <3>3. Word(ValueOf(line[i].n)) \in WordSet /\ Word(ValueOf(line[i].n)).k = "word"
        BY <3>1, PlainWord
      <3>. QED
        BY <3>2, <3>3
    <2>3. CASE line[i].k # "var"
      BY <2>1, <2>3
    <2>. QED
      BY <2>2, <2>3
  <1>. HIDE DEF Kept, at, word
  <1>7. args \in [1..Cardinality(Kept) -> WordSet] /\ DOMAIN args = 1..Cardinality(Kept)
    BY <1>5, <1>6
  <1>8. args \in Seq(WordSet)
    BY <1>4, <1>7
  <1>9. \A m \in DOMAIN args : args[m].k \in {"var", "assign"} => args[m].n \in Names
    BY <1>5, <1>6
  <1>. QED
    BY <1>1, <1>8, <1>9 DEF GoodLine

\* The number of pipes is a number.
LEMMA PipesCounted ==
    ASSUME NEW args, GoodLine(args)
    PROVE  NumPipes(args) \in Nat
  <1>1. DOMAIN args = 1..Len(args) /\ Len(args) \in Nat
    BY DEF GoodLine
  <1>2. IsFiniteSet(DOMAIN args)
    BY <1>1, FS_Interval
  <1> DEFINE S == {i \in DOMAIN args : args[i].k = "pipe"}
  <1>3. S \in SUBSET DOMAIN args
    OBVIOUS
  <1>4. IsFiniteSet(S)
    BY <1>2, <1>3, FS_Subset
  <1>5. Cardinality(S) \in Nat
    BY <1>4, FS_CardinalityType
  <1>. QED
    BY <1>5 DEF NumPipes

-----------------------------------------------------------------------------
(* The history *)

\* The fields of a node may be changed: it still holds a line.
LEMMA NodeFields ==
    ASSUME NEW e, NodeOK(e), NEW x
    PROVE  /\ NodeOK([e EXCEPT !.next = x]) /\ NodeOK([e EXCEPT !.prev = x])
           /\ GoodLine(x) => NodeOK([e EXCEPT !.cmd = x])
  <1>1. e = [cmd |-> e.cmd, prev |-> e.prev, next |-> e.next] /\ GoodLine(e.cmd)
    BY DEF NodeOK
  <1>2. /\ [e EXCEPT !.next = x] = [cmd |-> e.cmd, prev |-> e.prev, next |-> x]
        /\ [e EXCEPT !.prev = x] = [cmd |-> e.cmd, prev |-> x, next |-> e.next]
        /\ [e EXCEPT !.cmd = x] = [cmd |-> x, prev |-> e.prev, next |-> e.next]
    BY <1>1
  <1>3. \A c, p, n : GoodLine(c) => NodeOK([cmd |-> c, prev |-> p, next |-> n])
    BY DEF NodeOK
  <1>. QED
    BY <1>1, <1>2, <1>3

\* The node table, and what a change of one node leaves of it
NodesOK(f) == f = [d \in NodeIds |-> f[d]] /\ \A d \in NodeIds : NodeOK(f[d])

\* A change of one node keeps the others.
LEMMA NodeChanged ==
    ASSUME NEW f, NodesOK(f), NEW a, NEW x
    PROVE  /\ NodesOK([f EXCEPT ![a].next = x]) /\ NodesOK([f EXCEPT ![a].prev = x])
           /\ GoodLine(x) => NodesOK([f EXCEPT ![a].cmd = x])
           /\ NodeOK(x) => NodesOK([f EXCEPT ![a] = x])
  <1>1. ASSUME NEW e, a \in NodeIds => NodeOK(e) PROVE NodesOK([f EXCEPT ![a] = e])
    BY <1>1 DEF NodesOK
  <1>2. a \in NodeIds =>
           /\ NodeOK([f[a] EXCEPT !.next = x]) /\ NodeOK([f[a] EXCEPT !.prev = x])
           /\ GoodLine(x) => NodeOK([f[a] EXCEPT !.cmd = x])
    BY NodeFields DEF NodesOK
  <1>. HIDE DEF NodesOK
  <1>3. NodesOK([f EXCEPT ![a].next = x])
    BY <1>1, <1>2
  <1>4. NodesOK([f EXCEPT ![a].prev = x])
    BY <1>1, <1>2
  <1>5. GoodLine(x) => NodesOK([f EXCEPT ![a].cmd = x])
    BY <1>1, <1>2
  <1>6. NodeOK(x) => NodesOK([f EXCEPT ![a] = x])
    BY <1>1
  <1>. QED
    BY <1>3, <1>4, <1>5, <1>6

\* The free node holds an empty line.
LEMMA EmptyNode == NodeOK(NoNode)
  <1>1. GoodLine(<<>>)
    BY DEF GoodLine
  <1>. QED
    BY <1>1 DEF NodeOK, NoNode

\* The fields of a history, all set
LEMMA SetFields ==
    ASSUME NEW h, h = [node |-> h.node, head |-> h.head, tail |-> h.tail,
                       count |-> h.count, maxCount |-> h.maxCount],
           NEW n, NEW hd, NEW t, NEW c, NEW m
    PROVE  [h EXCEPT !.node = n, !.head = hd, !.count = c, !.maxCount = m, !.tail = t]
             = [node |-> n, head |-> hd, tail |-> t, count |-> c, maxCount |-> m]
  <1> DEFINE R(a, b, d, e, f) == [node |-> a, head |-> b, tail |-> d, count |-> e, maxCount |-> f]
             h1 == [h EXCEPT !.node = n]
             h2 == [h1 EXCEPT !.head = hd]
             h3 == [h2 EXCEPT !.count = c]
             h4 == [h3 EXCEPT !.maxCount = m]
             h5 == [h4 EXCEPT !.tail = t]
  <1>1. [h EXCEPT !.node = n, !.head = hd, !.count = c, !.maxCount = m, !.tail = t] = h5
    OBVIOUS
  <1>2. \A a, b, d, e, f, x :
           /\ [R(a, b, d, e, f) EXCEPT !.node = x] = R(x, b, d, e, f)
           /\ [R(a, b, d, e, f) EXCEPT !.head = x] = R(a, x, d, e, f)
           /\ [R(a, b, d, e, f) EXCEPT !.tail = x] = R(a, b, x, e, f)
           /\ [R(a, b, d, e, f) EXCEPT !.count = x] = R(a, b, d, x, f)
           /\ [R(a, b, d, e, f) EXCEPT !.maxCount = x] = R(a, b, d, e, x)
    OBVIOUS
  <1>3. h = R(h.node, h.head, h.tail, h.count, h.maxCount)
    OBVIOUS
  <1>. HIDE DEF R
  <1>4. h1 = R(n, h.head, h.tail, h.count, h.maxCount)
    BY <1>2, <1>3
  <1>. HIDE DEF h1
  <1>5. h2 = R(n, hd, h.tail, h.count, h.maxCount)
    BY <1>2, <1>4
  <1>. HIDE DEF h2
  <1>6. h3 = R(n, hd, h.tail, c, h.maxCount)
    BY <1>2, <1>5
  <1>. HIDE DEF h3
  <1>7. h4 = R(n, hd, h.tail, c, m)
    BY <1>2, <1>6
  <1>. HIDE DEF h4
  <1>8. h5 = R(n, hd, t, c, m)
    BY <1>2, <1>7
  <1>. QED
    BY <1>1, <1>8 DEF R, h1, h2, h3, h4

\* The fields that addCommandToHistory sets
LEMMA FourFields ==
    ASSUME NEW h, h = [node |-> h.node, head |-> h.head, tail |-> h.tail,
                       count |-> h.count, maxCount |-> h.maxCount],
           NEW n, NEW hd, NEW t, NEW c
    PROVE  [h EXCEPT !.head = hd, !.tail = t, !.count = c, !.node = n]
             = [node |-> n, head |-> hd, tail |-> t, count |-> c, maxCount |-> h.maxCount]
  <1> DEFINE R(a, b, d, e, f) == [node |-> a, head |-> b, tail |-> d, count |-> e, maxCount |-> f]
             h1 == [h EXCEPT !.head = hd]
             h2 == [h1 EXCEPT !.tail = t]
             h3 == [h2 EXCEPT !.count = c]
             h4 == [h3 EXCEPT !.node = n]
  <1>1. [h EXCEPT !.head = hd, !.tail = t, !.count = c, !.node = n] = h4
    OBVIOUS
  <1>2. \A a, b, d, e, f, x :
           /\ [R(a, b, d, e, f) EXCEPT !.node = x] = R(x, b, d, e, f)
           /\ [R(a, b, d, e, f) EXCEPT !.head = x] = R(a, x, d, e, f)
           /\ [R(a, b, d, e, f) EXCEPT !.tail = x] = R(a, b, x, e, f)
           /\ [R(a, b, d, e, f) EXCEPT !.count = x] = R(a, b, d, x, f)
    OBVIOUS
  <1>3. h = R(h.node, h.head, h.tail, h.count, h.maxCount)
    OBVIOUS
  <1>. HIDE DEF R
  <1>4. h1 = R(h.node, hd, h.tail, h.count, h.maxCount)
    BY <1>2, <1>3
  <1>. HIDE DEF h1
  <1>5. h2 = R(h.node, hd, t, h.count, h.maxCount)
    BY <1>2, <1>4
  <1>. HIDE DEF h2
  <1>6. h3 = R(h.node, hd, t, c, h.maxCount)
    BY <1>2, <1>5
  <1>. HIDE DEF h3
  <1>7. h4 = R(n, hd, t, c, h.maxCount)
    BY <1>2, <1>6
  <1>. QED
    BY <1>1, <1>7 DEF R, h1, h2, h3

\* Dropping the oldest command
LEMMA DropIsOK ==
    ASSUME NEW h, HistoryOK(h)
    PROVE  HistoryOK(DropHead(h))
  <1> DEFINE new == h.node[h.head].next
             node == [h.node EXCEPT ![h.head] = NoNode]
             node1 == IF new = 0 THEN node ELSE [node EXCEPT ![new].prev = 0]
  <1>1. h = [node |-> h.node, head |-> h.head, tail |-> h.tail, count |-> h.count, maxCount |-> h.maxCount]
        /\ NodesOK(h.node)
    BY DEF HistoryOK, NodesOK
  <1>2. NodesOK(node)
    BY <1>1, NodeChanged, EmptyNode
  <1>. HIDE DEF node, new
  <1>3. NodesOK(node1)
    BY <1>2, NodeChanged
  <1>. HIDE DEF node1
  <1>4. DropHead(h) = [node |-> node1, head |-> new, tail |-> h.tail, count |-> h.count - 1,
                       maxCount |-> h.maxCount]
    BY <1>1 DEF DropHead, node1, node, new
  <1>. QED
    BY <1>3, <1>4 DEF HistoryOK, NodesOK

\* history set leaves nodes of the list, or empty ones.
LEMMA SetIsOK ==
    ASSUME NEW h, HistoryOK(h), NEW size
    PROVE  HistoryOK(historySet(h, size))
  <1>1. h = [node |-> h.node, head |-> h.head, tail |-> h.tail, count |-> h.count, maxCount |-> h.maxCount]
        /\ NodesOK(h.node)
    BY DEF HistoryOK, NodesOK
  <1> DEFINE toRemove == h.count - size
             removed  == IF toRemove < 0 \/ toRemove > h.count THEN h.count ELSE toRemove
             at[i \in Nat] == IF i <= 1 THEN h.head ELSE h.node[at[i - 1]].next
             old  == {at[i] : i \in 1..removed}
             head == at[removed + 1]
             node == [d \in NodeIds |-> IF d \in old THEN NoNode
                                        ELSE IF d = head THEN [h.node[d] EXCEPT !.prev = 0]
                                        ELSE h.node[d]]
             count == h.count - removed
             tail == IF h.count = removed THEN 0 ELSE h.tail
  <1>3. historySet(h, size) =
           IF size >= h.maxCount \/ h.tail = 0 THEN [h EXCEPT !.maxCount = size]
           ELSE [h EXCEPT !.node = node, !.head = head, !.count = count,
                          !.maxCount = size, !.tail = tail]
    BY DEF historySet
  <1>. HIDE DEF removed, toRemove, at, old, head, count, tail
  <1>4. NodesOK(node)
    <2>1. \A d \in NodeIds : NodeOK(h.node[d]) /\ NodeOK([h.node[d] EXCEPT !.prev = 0])
      BY <1>1, NodeFields DEF NodesOK
    <2>. QED
      BY <2>1, EmptyNode DEF NodesOK
  <1>5. CASE size >= h.maxCount \/ h.tail = 0
    <2>1. historySet(h, size) = [node |-> h.node, head |-> h.head, tail |-> h.tail,
                                 count |-> h.count, maxCount |-> size]
      BY <1>1, <1>3, <1>5
    <2>. QED
      BY <2>1, <1>1 DEF HistoryOK, NodesOK
  <1>6. CASE ~(size >= h.maxCount \/ h.tail = 0)
    <2>1. historySet(h, size) = [h EXCEPT !.node = node, !.head = head, !.count = count,
                                          !.maxCount = size, !.tail = tail]
      BY <1>3, <1>6
    <2>. HIDE DEF node
    <2>2. historySet(h, size) = [node |-> node, head |-> head, tail |-> tail,
                                 count |-> count, maxCount |-> size]
      BY <1>1, <2>1, SetFields
    <2>. QED
      BY <2>2, <1>4 DEF HistoryOK, NodesOK
  <1>. QED
    BY <1>5, <1>6

\* strtok leaves the first word of a stored command.
LEMMA CutIsOK ==
    ASSUME NEW h, HistoryOK(h), NEW d \in NodeIds
    PROVE  /\ GoodLine(h.node[d].cmd)
           /\ HistoryOK([h EXCEPT !.node[d].cmd = SubSeq(h.node[d].cmd, 1, 1)])
  <1> DEFINE cmd == h.node[d].cmd
             first == SubSeq(cmd, 1, 1)
             node == [h.node EXCEPT ![d].cmd = first]
  <1>1. h = [node |-> h.node, head |-> h.head, tail |-> h.tail, count |-> h.count, maxCount |-> h.maxCount]
        /\ NodesOK(h.node)
    BY DEF HistoryOK, NodesOK
  <1>2. GoodLine(cmd)
    BY <1>1 DEF NodesOK, NodeOK
  <1>. HIDE DEF cmd
  <1>3. GoodLine(first)
    <2>1. cmd \in Seq(WordSet) /\ \A i \in DOMAIN cmd : cmd[i].k \in {"var", "assign"} => cmd[i].n \in Names
      BY <1>2 DEF GoodLine
    <2>2. CASE Len(cmd) = 0
      <3>1. first = <<>>
        BY <2>1, <2>2
      <3>2. \A i \in DOMAIN <<>> : FALSE
        OBVIOUS
      <3>3. <<>> \in Seq(WordSet)
        OBVIOUS
      <3>. QED
        BY <3>1, <3>2, <3>3 DEF GoodLine
    <2>3. CASE Len(cmd) # 0
      <3>1. first \in Seq(WordSet) /\ DOMAIN first = {1} /\ first[1] = cmd[1] /\ 1 \in DOMAIN cmd
        BY <2>1, <2>3
      <3>. QED
        BY <3>1, <2>1 DEF GoodLine
    <2>. QED
      BY <2>2, <2>3
  <1>. HIDE DEF first
  <1>4. NodesOK(node)
    BY <1>1, <1>3, NodeChanged
  <1>5. [h EXCEPT !.node[d].cmd = first] =
           [node |-> node, head |-> h.head, tail |-> h.tail, count |-> h.count, maxCount |-> h.maxCount]
    BY <1>1
  <1>. HIDE DEF node
  <1>6. HistoryOK([h EXCEPT !.node[d].cmd = first])
    BY <1>4, <1>5 DEF HistoryOK, NodesOK
  <1>. QED
    BY <1>2, <1>6 DEF first, cmd

\* Recording a command keeps the nodes in order.
LEMMA AddIsOK ==
    ASSUME NEW h, HistoryOK(h), NEW cmd, GoodLine(cmd)
    PROVE  HistoryOK(addCommandToHistory(h, cmd))
  <1> DEFINE new  == CHOOSE d \in NodeIds : d \notin Live(h)
             entry == [cmd |-> cmd, prev |-> h.tail, next |-> 0]
             node == [h.node EXCEPT ![new] = entry]
             node1 == IF h.head = 0 THEN node ELSE [node EXCEPT ![h.tail].next = new]
             h1   == [h EXCEPT !.head = IF @ = 0 THEN new ELSE @, !.tail = new, !.count = @ + 1,
                               !.node = node1]
  <1>0. h = [node |-> h.node, head |-> h.head, tail |-> h.tail, count |-> h.count, maxCount |-> h.maxCount]
        /\ NodesOK(h.node)
    BY DEF HistoryOK, NodesOK
  <1>1. addCommandToHistory(h, cmd) =
           IF h.maxCount = 0 \/ (h.count # 0 /\ h.node[h.tail].cmd = cmd) THEN h
           ELSE IF h1.count > h1.maxCount THEN DropHead(h1) ELSE h1
    BY DEF addCommandToHistory
  <1>2. NodeOK(entry)
    BY DEF NodeOK
  <1>. HIDE DEF entry, new
  <1>3. NodesOK(node)
    BY <1>0, <1>2, NodeChanged
  <1>. HIDE DEF node
  <1>4. NodesOK(node1)
    BY <1>3, NodeChanged
  <1>. HIDE DEF node1
  <1>5. h1 = [node |-> node1, head |-> IF h.head = 0 THEN new ELSE h.head, tail |-> new,
              count |-> h.count + 1, maxCount |-> h.maxCount]
    <2>1. h1 = [h EXCEPT !.head = IF h.head = 0 THEN new ELSE h.head, !.tail = new,
                         !.count = h.count + 1, !.node = node1]
      OBVIOUS
    <2>. HIDE DEF h1
    <2>. QED
      BY <1>0, <2>1, FourFields
  <1>. HIDE DEF h1
  <1>6. HistoryOK(h1)
    BY <1>4, <1>5 DEF HistoryOK, NodesOK
  <1>7. HistoryOK(DropHead(h1))
    BY <1>6, DropIsOK
  <1>. QED
    BY <1>1, <1>6, <1>7

-----------------------------------------------------------------------------
(* The command loop *)

\* The lines of a session are good lines.
LEMMA SessionLine ==
    ASSUME lines \in Sessions, NEW line \in lines
    PROVE  GoodLine(line)
  <1>1. /\ line \in Seq(Words)
        /\ \A i \in DOMAIN line : line[i].k \in {"var", "assign"} => line[i].n \in Names
    BY SessionsAssumption
  <1>2. STRING \subseteq Strings
    BY DEF Strings
  <1>3. Words \subseteq WordSet
    <2>. HIDE DEF Strings
    <2>. QED
      BY <1>2 DEF Words, WordSet
  <1>4. line \in Seq(WordSet)
    BY <1>1, <1>3
  <1>. QED
    BY <1>1, <1>4 DEF GoodLine

\* A pipeline that begins has no stage and no item yet.
LEMMA StartOK ==
    ASSUME NEW line, GoodLine(line), NEW args, NumPipes(args) \in Nat \ {0}, NEW record,
           StartPipeline(line, args, record)
    PROVE  PipelineOK'
  <1> DEFINE n == NumPipes(args)
             none == [pc |-> "none", pgid |-> 0, has |-> 0, done |-> 0]
             f == [j \in 1..(n + 1) |-> 0]
  <1>1. /\ shell' = [pc |-> "spawn", n |-> n, i |-> 1, waited |-> 0, record |-> record,
                     line |-> line, prog |-> [j \in 1..(n + 1) |-> StageProgram(args, j)]]
        /\ stage' = [j \in 1..(n + 1) |-> none]
        /\ wr' = [p \in 0..(n + 1) |-> {}]
        /\ buf' = [q \in 1..n |-> <<>>]
        /\ out' = <<>>
    BY DEF StartPipeline
  <1>2. n \in Nat \ {0}
    OBVIOUS
  <1>. HIDE DEF n
  <1>3. /\ shell'.pc = "spawn" /\ shell'.n = n /\ shell'.i = 1 /\ shell'.waited = 0
        /\ shell'.line = line
    BY <1>1
  <1>4. ShellOK'
    <2>1. shell' = [pc |-> shell'.pc, n |-> shell'.n, i |-> shell'.i, waited |-> shell'.waited,
                    record |-> shell'.record, line |-> shell'.line, prog |-> shell'.prog]
      BY <1>1
    <2>. QED
      BY <1>2, <1>3, <2>1 DEF ShellOK
  <1>5. none \in Stages /\ none.pc = "none" /\ none.has = 0 /\ none.done = 0
    BY DEF Stages
  <1>. HIDE DEF none
  <1>6. StagesOK'
    <2>1. \A j \in 1..(n + 1) : j \notin 1..(1 - 1)
      BY <1>2
    <2>. QED
      BY <1>1, <1>2, <1>3, <1>5, <2>1 DEF StagesOK, Spawned
  <1>7. EndsOK'
    BY <1>1, <1>2, <1>3, <1>5 DEF EndsOK
  <1>8. FlowOK'
    <2>1. f \in [1..(n + 1) -> Nat] /\ \A j \in 1..(n + 1) : f[j] = 0
      BY <1>2
    <2>. HIDE DEF f
    <2>2. \A j \in 1..(n + 1) : stage'[j].has = 0 /\ stage'[j].done = 0 /\ stage'[j].pc = "none"
      BY <1>1, <1>5
    <2>3. \A q \in 1..n : buf'[q] = <<>> /\ q \in 1..(n + 1) /\ q + 1 \in 1..(n + 1)
      BY <1>1, <1>2
    <2>4. 1 \in 1..(n + 1) /\ n + 1 \in 1..(n + 1)
      BY <1>2
    <2>5. buf' \in [1..n -> Seq(Nat)] /\ out' \in Seq(Nat) /\ out' = <<>>
      BY <1>1, <1>2
    <2>6. Counts(f)'
      BY <1>3, <2>1, <2>2, <2>3, <2>4, <2>5, SizesAssumption DEF Counts, Held
    <2>7. Complete(f)'
      BY <1>3, <2>2 DEF Complete, Ran
    <2>. QED
      BY <1>3, <2>1, <2>5, <2>6, <2>7 DEF FlowOK
  <1>. QED
    BY <1>4, <1>6, <1>7, <1>8 DEF PipelineOK

\* What a line that the loop has read can lead to
Outcome == \/ mode' = "pipeline" /\ PipelineOK'
           \/ mode' \in {"prompt", "crashed"} /\ UNCHANGED pipeVars

\* Recording a line keeps the history, and the loop goes on or crashes.
LEMMA RecordOK ==
    ASSUME HistoryOK(history), mode = "prompt", NEW line, GoodLine(line), NEW args, Record(line, args)
    PROVE  HistoryOK(history)' /\ mode' \in {"prompt", "crashed"}
  <1>1. HistoryOK(addCommandToHistory(history, line))
    BY AddIsOK
  <1>2. history' \in {history, addCommandToHistory(history, line)} /\ mode' \in {"prompt", "crashed"}
    BY DEF Record
  <1>3. HistoryOK(history')
    BY <1>1, <1>2
  <1>. QED
    BY <1>2, <1>3

\* A line that is not a builtin opens a pipeline or is recorded.
LEMMA RunOK ==
    ASSUME Inv, mode = "prompt", NEW line, GoodLine(line), NEW args, GoodLine(args), Run(line, args)
    PROVE  HistoryOK(history)' /\ Outcome
  <1>. USE DEF Inv
  <1>1. NumPipes(args) \in Nat
    BY PipesCounted
  <1>2. CASE NumPipes(args) > 0 /\ StartPipeline(line, args, TRUE) /\ UNCHANGED <<history, wanted>>
    <2>1. NumPipes(args) \in Nat \ {0}
      BY <1>1, <1>2
    <2>2. PipelineOK'
      BY <1>2, <2>1, StartOK
    <2>3. mode' = "pipeline" /\ history' = history
      BY <1>2 DEF StartPipeline
    <2>. QED
      BY <2>2, <2>3 DEF Outcome
  <1>3. CASE Launch(line, args) /\ UNCHANGED pipeVars
    <2>1. \/ UNCHANGED <<history, mode>>
          \/ Record(line, args)
      BY <1>3 DEF Launch
    <2>2. HistoryOK(history)' /\ mode' \in {"prompt", "crashed"}
      BY <2>1, RecordOK
    <2>. QED
      BY <1>3, <2>2 DEF Outcome
  <1>. QED
    BY <1>2, <1>3 DEF Run

\* "history n" cuts the stored command and runs it, or crashes.
LEMMA FromHistoryOK ==
    ASSUME Inv, mode = "prompt", NEW index, executeFromHistory(index)
    PROVE  HistoryOK(history)' /\ Outcome
  <1>. USE DEF Inv
  <1> DEFINE d == HistoryNode(history, index)
             cmd == history.node[d].cmd
             args == Substituted(cmd)
             cut == [history EXCEPT !.node[d].cmd = SubSeq(cmd, 1, 1)]
  <1>1. CASE UNCHANGED <<history, pipeVars>> /\ mode' \in {mode, "crashed"}
    BY <1>1 DEF Outcome
  <1>2. CASE d \in Live(history) /\ history' = cut
    <2>1. d \in NodeIds
      BY <1>2 DEF Live
    <2>. HIDE DEF d
    <2>2. GoodLine(cmd) /\ HistoryOK(cut)
      BY <2>1, CutIsOK
    <2>3. HistoryOK(history)'
      BY <1>2, <2>2
    <2>4. GoodLine(args) /\ NumPipes(args) \in Nat
      BY <2>2, SubstitutedIsGood, PipesCounted DEF VarsOK
    <2>5. \/ UNCHANGED <<mode, pipeVars>>
          \/ NumPipes(args) > 0 /\ StartPipeline(cmd, args, FALSE)
      BY <1>2 DEF executeFromHistory, d
    <2>. HIDE DEF cmd, args, cut
    <2>6. CASE NumPipes(args) > 0 /\ StartPipeline(cmd, args, FALSE)
      <3>0. NumPipes(args) \in Nat \ {0}
        BY <2>4, <2>6
      <3>1. PipelineOK'
        BY <2>2, <2>6, <3>0, StartOK
      <3>2. mode' = "pipeline"
        BY <2>6 DEF StartPipeline
      <3>. QED
        BY <2>3, <3>1, <3>2 DEF Outcome
    <2>. QED
      BY <2>3, <2>5, <2>6 DEF Outcome
  <1>3. \/ UNCHANGED <<history, pipeVars>> /\ mode' \in {mode, "crashed"}
        \/ d \in Live(history) /\ history' = cut
    BY DEF executeFromHistory
  <1>. QED
    BY <1>1, <1>2, <1>3

\* What a builtin makes of the variables
Assigning(arg) ==
    /\ arg.k = "assign" => arg.n \in Names
    /\ arg.v \in Strings
    /\ \/ /\ arg.k = "assign"
          /\ shell_variables' = wsh_local(shell_variables, arg.n, arg.v)
          /\ assigned' = [assigned EXCEPT !.local[arg.n] = arg.v]
          /\ environ' = environ
       \/ /\ environ' = [environ EXCEPT ![arg.n] = arg.v]
          /\ assigned' = [assigned EXCEPT !.env[arg.n] = arg.v]
          /\ shell_variables' = shell_variables
       \/ UNCHANGED <<environ, shell_variables, assigned>>

\* A builtin, with what it makes of the variables
LEMMA BuiltinOK ==
    ASSUME Inv, mode = "prompt", NEW args, GoodLine(args), Builtin(args)
    PROVE  HistoryOK(history)' /\ Outcome /\ \E arg : Assigning(arg)
  <1> DEFINE arg == IF Len(args) > 1 THEN args[2] ELSE Word("")
  <1>0. HistoryOK(history)
    BY DEF Inv
  <1>1. arg.v \in Strings /\ (arg.k = "assign" => arg.n \in Names)
    <2>1. /\ args \in Seq(WordSet)
          /\ \A i \in DOMAIN args : args[i].k \in {"var", "assign"} => args[i].n \in Names
      BY DEF GoodLine
    <2>2. \A w \in WordSet : w.v \in Strings
      BY DEF WordSet
    <2>3. CASE Len(args) > 1
      <3>. HIDE DEF WordSet
      <3>1. 2 \in DOMAIN args /\ args[2] \in WordSet
        BY <2>1, <2>3
      <3>. QED
        BY <2>1, <2>2, <2>3, <3>1
    <2>4. CASE ~(Len(args) > 1)
      <3>1. "" \in Strings
        BY DEF Strings
      <3>2. Word("") \in WordSet /\ Word("").k = "word"
        BY <3>1, PlainWord
      <3>. QED
        BY <2>2, <2>4, <3>2
    <2>. QED
      BY <2>3, <2>4
  <1>2. \/ arg.k = "assign" /\ shell_variables' = wsh_local(shell_variables, arg.n, arg.v)
           /\ assigned' = [assigned EXCEPT !.local[arg.n] = arg.v]
           /\ UNCHANGED <<mode, history, environ, pipeVars>>
        \/ environ' = [environ EXCEPT ![arg.n] = arg.v]
           /\ assigned' = [assigned EXCEPT !.env[arg.n] = arg.v]
           /\ UNCHANGED <<mode, history, shell_variables, pipeVars>>
        \/ history' = historySet(history, strtol(args[3]))
           /\ UNCHANGED <<mode, shell_variables, environ, assigned, pipeVars>>
        \/ executeFromHistory(strtol(arg))
        \/ UNCHANGED <<mode, dataVars, pipeVars>>
    BY DEF Builtin
  <1>. HIDE DEF arg
  <1>3. CASE executeFromHistory(strtol(arg))
    <2>1. UNCHANGED <<environ, shell_variables, assigned>>
      BY <1>3 DEF executeFromHistory
    <2>2. Assigning(arg)
      BY <1>1, <2>1 DEF Assigning
    <2>3. HistoryOK(history)' /\ Outcome
      BY <1>3, FromHistoryOK
    <2>. QED
      BY <2>2, <2>3
  <1>4. CASE history' = historySet(history, strtol(args[3]))
             /\ UNCHANGED <<mode, shell_variables, environ, assigned, pipeVars>>
    <2>1. HistoryOK(historySet(history, strtol(args[3])))
      BY <1>0, SetIsOK
    <2>2. HistoryOK(history)'
      BY <1>4, <2>1
    <2>3. Assigning(arg)
      BY <1>1, <1>4 DEF Assigning
    <2>. QED
      BY <1>4, <2>2, <2>3 DEF Outcome
  <1>5. CASE UNCHANGED <<mode, dataVars, pipeVars>>
    BY <1>0, <1>1, <1>5 DEF Outcome, Assigning, dataVars
  <1>6. CASE arg.k = "assign" /\ shell_variables' = wsh_local(shell_variables, arg.n, arg.v)
             /\ assigned' = [assigned EXCEPT !.local[arg.n] = arg.v]
             /\ UNCHANGED <<mode, history, environ, pipeVars>>
    <2>1. Assigning(arg)
      BY <1>1, <1>6 DEF Assigning
    <2>. QED
      BY <1>0, <1>6, <2>1 DEF Outcome
  <1>7. CASE environ' = [environ EXCEPT ![arg.n] = arg.v]
             /\ assigned' = [assigned EXCEPT !.env[arg.n] = arg.v]
             /\ UNCHANGED <<mode, history, shell_variables, pipeVars>>
    <2>1. Assigning(arg)
      BY <1>1, <1>7 DEF Assigning
    <2>. QED
      BY <1>0, <1>7, <2>1 DEF Outcome
  <1>. QED
    BY <1>2, <1>3, <1>4, <1>5, <1>6, <1>7

\* The variables keep their types.
LEMMA AssigningTypes ==
    ASSUME VarsOK, lines' = lines, NEW arg, Assigning(arg)
    PROVE  VarsOK'
  <1>1. environ \in [Names -> Strings] /\ shell_variables \in Table /\ lines \in Sessions
    BY DEF VarsOK
  <1>2. arg.v \in Strings /\ (arg.k = "assign" => arg.n \in Names)
    BY DEF Assigning
  <1>3. [environ EXCEPT ![arg.n] = arg.v] \in [Names -> Strings]
    BY <1>1, <1>2
  <1>4. arg.k = "assign" => wsh_local(shell_variables, arg.n, arg.v) \in Table
    BY <1>1, <1>2, LocalType
  <1>5. environ' \in [Names -> Strings] /\ shell_variables' \in Table
    BY <1>1, <1>3, <1>4 DEF Assigning
  <1>. QED
    BY <1>1, <1>5 DEF VarsOK

\* One turn of the loop
LEMMA ReadLineOK ==
    ASSUME Inv, ReadLine
    PROVE  Inv' /\ \E arg : Assigning(arg)
  <1>1. /\ mode = "prompt" /\ lines' = lines /\ HistoryOK(history) /\ VarsOK /\ PromptOK
    BY DEF ReadLine, Inv
  <1>2. PICK line \in lines :
          LET args == Substituted(line)
          IN  \/ mode' = "exited" /\ UNCHANGED <<dataVars, pipeVars>>
              \/ UNCHANGED <<mode, dataVars, pipeVars>>
              \/ Builtin(args)
              \/ Run(line, args)
    BY DEF ReadLine
  <1> DEFINE args == Substituted(line)
  <1>3. GoodLine(line) /\ GoodLine(args)
    BY <1>1, SessionLine, SubstitutedIsGood DEF VarsOK
  <1>. HIDE DEF args
  <1>4. UNCHANGED <<environ, shell_variables, assigned>> => \E arg : Assigning(arg)
    <2>1. "" \in Strings
      BY DEF Strings
    <2> DEFINE w == Word("")
    <2>2. w.k = "word" /\ w.v = ""
      BY DEF Word
    <2>. HIDE DEF w
    <2>3. UNCHANGED <<environ, shell_variables, assigned>> => Assigning(w)
      BY <2>1, <2>2 DEF Assigning
    <2>. QED
      BY <2>3
  <1>5. ASSUME HistoryOK(history)', \E arg : Assigning(arg), Outcome \/ (mode' = "exited" /\ UNCHANGED pipeVars)
        PROVE  Inv'
    <2>1. VarsOK'
      BY <1>1, <1>5, AssigningTypes
    <2>2. mode' = "pipeline" => PipelineOK'
      BY <1>5 DEF Outcome
    <2>3. mode' = "prompt" => PromptOK'
      <3>. SUFFICES ASSUME mode' = "prompt" PROVE PromptOK'
        OBVIOUS
      <3>1. UNCHANGED <<fd0, stage, shell, out>>
        BY <1>5 DEF Outcome, pipeVars
      <3>. QED
        BY <1>1, <3>1 DEF PromptOK, AllInstalled
    <2>. QED
      BY <1>5, <2>1, <2>2, <2>3 DEF Inv
  <1>6. CASE mode' = "exited" /\ UNCHANGED <<dataVars, pipeVars>>
    BY <1>1, <1>4, <1>5, <1>6 DEF dataVars
  <1>7. CASE UNCHANGED <<mode, dataVars, pipeVars>>
    BY <1>1, <1>4, <1>5, <1>7 DEF dataVars, Outcome
  <1>8. CASE Builtin(args)
    <2>1. HistoryOK(history)' /\ Outcome /\ \E arg : Assigning(arg)
      BY <1>1, <1>3, <1>8, BuiltinOK
    <2>. QED
      BY <2>1, <1>5
  <1>9. CASE Run(line, args)
    <2>1. HistoryOK(history)' /\ Outcome
      BY <1>1, <1>3, <1>9, RunOK
    <2>2. UNCHANGED <<environ, shell_variables, assigned>>
      BY <1>9 DEF Run
    <2>. QED
      BY <2>1, <2>2, <1>4, <1>5
  <1>. QED
    BY <1>2, <1>6, <1>7, <1>8, <1>9 DEF args

-----------------------------------------------------------------------------
(* The shell's steps of a pipeline *)

\* The numbers of stages and pipes
LEMMA StageNumbers ==
    ASSUME ShellOK
    PROVE  /\ shell.n \in Nat /\ shell.n >= 1 /\ 1 \in 1..(shell.n + 1) /\ shell.n + 1 \in 1..(shell.n + 1)
           /\ \A q \in 1..shell.n : q \in 1..(shell.n + 1) /\ q + 1 \in 1..(shell.n + 1) /\ q # shell.n + 1
           /\ \A j \in 1..(shell.n + 1) : j = shell.n + 1 \/ j \in 1..shell.n
           /\ \A j \in 1..(shell.n + 1) : j = 1 \/ j - 1 \in 1..shell.n
  BY DEF ShellOK

\* No item moves: the counts stay as they are.
LEMMA CountsKept ==
    ASSUME ShellOK, NEW f \in [1..(shell.n + 1) -> Nat], Counts(f), shell'.n = shell.n,
           buf' = buf, out' = out,
           \A j \in 1..(shell.n + 1) : stage'[j].has = stage[j].has /\ stage'[j].done = stage[j].done
    PROVE  Counts(f)'
  <1>1. \A j \in 1..(shell.n + 1) : Held(j)' = Held(j)
    BY DEF Held
  <1>2. /\ Len(out) = f[shell.n + 1] /\ \A m \in 1..Len(out) : out[m] = m
        /\ \A q \in 1..shell.n :
              /\ f[q] = f[q + 1] + Held(q + 1) + Len(buf[q])
              /\ \A m \in 1..Len(buf[q]) : buf[q][m] = f[q + 1] + Held(q + 1) + m
        /\ \A j \in 1..(shell.n + 1) : stage[j].has # 0 => stage[j].has = f[j] + 1
        /\ stage[1].done = f[1] + Held(1) /\ stage[1].done <= Items
    BY DEF Counts
  <1>3. 1 \in 1..(shell.n + 1) /\ \A q \in 1..shell.n : q + 1 \in 1..(shell.n + 1)
    BY StageNumbers
  <1>4. \A q \in 1..shell.n :
              /\ f[q] = f[q + 1] + Held(q + 1)' + Len(buf[q])
              /\ \A m \in 1..Len(buf[q]) : buf[q][m] = f[q + 1] + Held(q + 1)' + m
    BY <1>1, <1>2, <1>3
  <1>5. \A j \in 1..(shell.n + 1) : stage'[j].has # 0 => stage'[j].has = f[j] + 1
    BY <1>2
  <1>6. stage'[1].done = f[1] + Held(1)' /\ stage'[1].done <= Items
    BY <1>1, <1>2, <1>3
  <1>. QED
    BY <1>2, <1>4, <1>5, <1>6 DEF Counts

\* Nothing but the state of a stage changes, and no stage ends that ran.
LEMMA FlowKept ==
    ASSUME ShellOK, StagesOK, FlowOK, shell'.n = shell.n, shell'.prog = shell.prog,
           buf' = buf, out' = out, DOMAIN stage' = DOMAIN stage,
           \A j \in 1..(shell.n + 1) : stage'[j].has = stage[j].has /\ stage'[j].done = stage[j].done,
           \A j \in 1..(shell.n + 1) : stage'[j].pc \in {"zombie", "reaped"} =>
              Ran(j) \/ ~ AllInstalled
    PROVE  FlowOK'
  <1>1. PICK f \in [1..(shell.n + 1) -> Nat] : Counts(f) /\ Complete(f)
    BY DEF FlowOK
  <1>2. AllInstalled' <=> AllInstalled
    BY DEF AllInstalled
  <1>3. Counts(f)'
    BY <1>1, CountsKept
  <1>4. Complete(f)'
    BY <1>1, <1>2 DEF Complete, Ran
  <1>. QED
    BY <1>3, <1>4 DEF FlowOK

\* Setting the pc of a stage
PcSet(j, pc) == [stage EXCEPT ![j].pc = pc]

\* The stages after one of them got a new state
LEMMA PcIsSet ==
    ASSUME NEW m, stage \in [1..m -> Stages], NEW j \in 1..m,
           NEW pc \in {"forked", "running", "stray", "zombie", "reaped"}
    PROVE  /\ PcSet(j, pc) \in [1..m -> Stages]
           /\ PcSet(j, pc)[j].pc = pc
           /\ PcSet(j, pc)[j].has = stage[j].has /\ PcSet(j, pc)[j].done = stage[j].done
           /\ \A h \in 1..m : h # j => PcSet(j, pc)[h] = stage[h]
  BY DEF PcSet, Stages

\* pipe and fork
LEMMA SpawnOK ==
    ASSUME PipelineOK, Spawn
    PROVE  PipelineOK'
  <1> DEFINE i == shell.i
  <1>1. /\ shell.pc = "spawn" /\ i <= shell.n
        /\ wr' = [wr EXCEPT ![0] = {i}, ![i] = {i}]
        /\ stage' = PcSet(i, "forked") /\ shell' = [shell EXCEPT !.pc = "close"]
        /\ UNCHANGED <<buf, out>>
    BY DEF Spawn, PcSet
  <1>2. ShellOK /\ StagesOK /\ EndsOK /\ FlowOK
    BY DEF PipelineOK
  <1>3. /\ shell' = [pc |-> "close", n |-> shell.n, i |-> i, waited |-> shell.waited,
                     record |-> shell.record, line |-> shell.line, prog |-> shell.prog]
        /\ shell'.pc = "close" /\ shell'.n = shell.n /\ shell'.i = i /\ shell'.waited = shell.waited
        /\ shell'.prog = shell.prog /\ shell'.line = shell.line
    BY <1>1, <1>2 DEF ShellOK
  <1>4. i \in 1..shell.n /\ i \in 1..(shell.n + 1) /\ i # 0
    BY <1>1, <1>2 DEF ShellOK
  <1>5. ShellOK'
    BY <1>1, <1>2, <1>3, <1>4 DEF ShellOK
  <1>6. /\ stage \in [1..(shell.n + 1) -> Stages] /\ stage' \in [1..(shell.n + 1) -> Stages]
        /\ stage'[i].pc = "forked" /\ stage'[i].has = stage[i].has /\ stage'[i].done = stage[i].done
        /\ \A h \in 1..(shell.n + 1) : h # i => stage'[h] = stage[h]
    BY <1>1, <1>2, <1>4, PcIsSet DEF StagesOK
  <1>7. StagesOK'
    <2>1. \A h \in 1..(shell.n + 1) : h \in 1..i <=> h \in 1..(i - 1) \/ h = i
      BY <1>4, StageNumbers, <1>2
    <2>2. \A h \in 1..(shell.n + 1) : h \in Spawned' <=> h \in Spawned \/ h = i
      BY <1>1, <1>3, <2>1 DEF Spawned
    <2>. QED
      BY <1>1, <1>2, <1>3, <1>6, <2>2 DEF StagesOK
  <1>8. EndsOK'
    <2>1. /\ wr' = [p \in 0..(shell.n + 1) |-> wr'[p]]
          /\ wr'[0] = {i} /\ wr'[i] = {i} /\ \A h \in 1..shell.n : h # i => wr'[h] = wr[h]
      <3>1. DOMAIN wr = 0..(shell.n + 1) /\ 0 \in DOMAIN wr /\ i \in DOMAIN wr /\ wr = [p \in DOMAIN wr |-> wr[p]]
        <4>1. wr = [p \in 0..(shell.n + 1) |-> wr[p]]
          BY <1>2 DEF EndsOK
        <4>2. DOMAIN wr = 0..(shell.n + 1)
          BY <4>1
        <4>. QED
          BY <4>1, <4>2, <1>2, <1>4, StageNumbers
      <3>2. DOMAIN wr' = DOMAIN wr /\ wr' = [p \in DOMAIN wr |-> wr'[p]]
        BY <1>1, <3>1
      <3>3. wr'[0] = {i} /\ wr'[i] = {i} /\ \A h \in DOMAIN wr : h # i /\ h # 0 => wr'[h] = wr[h]
        BY <1>1, <1>4, <3>1
      <3>4. \A h \in 1..shell.n : h \in DOMAIN wr /\ h # 0
        BY <3>1, <1>2, StageNumbers
      <3>. QED
        BY <3>1, <3>2, <3>3, <3>4
    <2>. QED
      BY <1>2, <1>3, <1>6, <2>1, StageNumbers DEF EndsOK
  <1>9. FlowOK'
    <2>1. DOMAIN stage' = DOMAIN stage
      BY <1>6
    <2>2. \A h \in 1..(shell.n + 1) : stage'[h].has = stage[h].has /\ stage'[h].done = stage[h].done
      BY <1>6
    <2>3. \A h \in 1..(shell.n + 1) : stage'[h].pc \in {"zombie", "reaped"} => Ran(h)
      BY <1>6 DEF Ran
    <2>. QED
      BY <1>1, <1>2, <1>3, <2>1, <2>2, <2>3, FlowKept
  <1>. QED
    BY <1>5, <1>7, <1>8, <1>9 DEF PipelineOK

\* close of the write end: the next stage is due.
LEMMA CloseWriteEndOK ==
    ASSUME PipelineOK, CloseWriteEnd
    PROVE  PipelineOK'
  <1>1. /\ shell.pc = "close" /\ wr' = [wr EXCEPT ![0] = {}]
        /\ shell' = [shell EXCEPT !.pc = "spawn", !.i = @ + 1]
        /\ UNCHANGED <<stage, buf, out>>
    BY DEF CloseWriteEnd
  <1>2. ShellOK /\ StagesOK /\ EndsOK /\ FlowOK
    BY DEF PipelineOK
  <1>3. /\ shell' = [pc |-> "spawn", n |-> shell.n, i |-> shell.i + 1, waited |-> shell.waited,
                     record |-> shell.record, line |-> shell.line, prog |-> shell.prog]
        /\ shell'.pc = "spawn" /\ shell'.n = shell.n /\ shell'.i = shell.i + 1
        /\ shell'.waited = shell.waited /\ shell'.prog = shell.prog /\ shell'.line = shell.line
    BY <1>1, <1>2 DEF ShellOK
  <1>4. shell.i \in 1..shell.n /\ shell.i + 1 \in 1..(shell.n + 1) /\ (shell.i + 1) - 1 = shell.i
    BY <1>1, <1>2 DEF ShellOK
  <1>5. ShellOK'
    BY <1>1, <1>2, <1>3, <1>4 DEF ShellOK
  <1>6. StagesOK'
    <2>1. Spawned' = Spawned
      BY <1>1, <1>3, <1>4 DEF Spawned
    <2>. QED
      BY <1>1, <1>2, <1>3, <2>1 DEF StagesOK
  <1>7. EndsOK'
    <2>1. /\ wr' = [p \in 0..(shell.n + 1) |-> wr'[p]]
          /\ \A h \in 1..shell.n : wr'[h] = wr[h]
      <3>1. wr = [p \in 0..(shell.n + 1) |-> wr[p]]
        BY <1>2 DEF EndsOK
      <3>2. DOMAIN wr = 0..(shell.n + 1)
        BY <3>1
      <3>3. \A h \in 1..shell.n : h \in 0..(shell.n + 1) /\ h # 0
        BY <1>2, StageNumbers
      <3>4. \A h \in 0..(shell.n + 1) : h # 0 => wr'[h] = wr[h]
        BY <1>1, <3>2
      <3>5. wr' = [p \in 0..(shell.n + 1) |-> wr'[p]]
        BY <1>1, <3>1, <3>2
      <3>. QED
        BY <3>3, <3>4, <3>5
    <2>. QED
      BY <1>1, <1>2, <1>3, <2>1 DEF EndsOK
  <1>8. FlowOK'
    <2>1. \A j \in 1..(shell.n + 1) : stage[j].pc \in {"zombie", "reaped"} => Ran(j)
      BY DEF Ran
    <2>. QED
      BY <1>1, <1>2, <1>3, <2>1, FlowKept
  <1>. QED
    BY <1>5, <1>6, <1>7, <1>8 DEF PipelineOK

\* fork of the last stage
LEMMA SpawnLastOK ==
    ASSUME PipelineOK, SpawnLast
    PROVE  PipelineOK'
  <1> DEFINE l == shell.n + 1
  <1>1. /\ shell.pc = "spawn" /\ shell.i = l
        /\ stage' = PcSet(l, "forked") /\ shell' = [shell EXCEPT !.pc = "waitlast"]
        /\ UNCHANGED <<wr, buf, out>>
    BY DEF SpawnLast, PcSet
  <1>2. ShellOK /\ StagesOK /\ EndsOK /\ FlowOK
    BY DEF PipelineOK
  <1>3. /\ shell' = [pc |-> "waitlast", n |-> shell.n, i |-> shell.i, waited |-> shell.waited,
                     record |-> shell.record, line |-> shell.line, prog |-> shell.prog]
        /\ shell'.pc = "waitlast" /\ shell'.n = shell.n /\ shell'.i = shell.i
        /\ shell'.waited = shell.waited /\ shell'.prog = shell.prog /\ shell'.line = shell.line
    BY <1>1, <1>2 DEF ShellOK
  <1>4. ShellOK'
    BY <1>1, <1>2, <1>3 DEF ShellOK
  <1>5. /\ stage \in [1..(shell.n + 1) -> Stages] /\ stage' \in [1..(shell.n + 1) -> Stages]
        /\ stage'[l].pc = "forked" /\ stage'[l].has = stage[l].has /\ stage'[l].done = stage[l].done
        /\ \A h \in 1..(shell.n + 1) : h # l => stage'[h] = stage[h]
    BY <1>1, <1>2, StageNumbers, PcIsSet DEF StagesOK
  <1>6. StagesOK'
    <2>1. \A h \in 1..(shell.n + 1) : h \in 1..(l - 1) \/ h = l
      BY <1>2, StageNumbers
    <2>2. \A h \in 1..(shell.n + 1) : h \in Spawned' /\ (h \in Spawned \/ h = l)
      BY <1>1, <1>3, <2>1 DEF Spawned
    <2>. QED
      BY <1>1, <1>2, <1>3, <1>5, <2>2 DEF StagesOK
  <1>7. EndsOK'
    <2>1. \A h \in 1..shell.n : stage'[h] = stage[h]
      BY <1>2, <1>5, StageNumbers
    <2>. QED
      BY <1>1, <1>2, <1>3, <2>1 DEF EndsOK
  <1>8. FlowOK'
    <2>1. DOMAIN stage' = DOMAIN stage
      BY <1>5
    <2>2. \A h \in 1..(shell.n + 1) : stage'[h].has = stage[h].has /\ stage'[h].done = stage[h].done
      BY <1>5
    <2>3. \A h \in 1..(shell.n + 1) : stage'[h].pc \in {"zombie", "reaped"} => Ran(h)
      BY <1>5 DEF Ran
    <2>. QED
      BY <1>1, <1>2, <1>3, <2>1, <2>2, <2>3, FlowKept
  <1>. QED
    BY <1>4, <1>6, <1>7, <1>8 DEF PipelineOK

\* The wait for the last stage
LEMMA WaitLastOK ==
    ASSUME PipelineOK, WaitLast
    PROVE  PipelineOK'
  <1> DEFINE l == shell.n + 1
  <1>1. /\ shell.pc = "waitlast" /\ stage[l].pc = "zombie"
        /\ stage' = PcSet(l, "reaped") /\ shell' = [shell EXCEPT !.pc = "waitrest"]
        /\ UNCHANGED <<wr, buf, out>>
    BY DEF WaitLast, PcSet
  <1>2. ShellOK /\ StagesOK /\ EndsOK /\ FlowOK
    BY DEF PipelineOK
  <1>3. /\ shell' = [pc |-> "waitrest", n |-> shell.n, i |-> shell.i, waited |-> shell.waited,
                     record |-> shell.record, line |-> shell.line, prog |-> shell.prog]
        /\ shell'.pc = "waitrest" /\ shell'.n = shell.n /\ shell'.i = shell.i
        /\ shell'.waited = shell.waited /\ shell'.prog = shell.prog /\ shell'.line = shell.line
    BY <1>1, <1>2 DEF ShellOK
  <1>4. ShellOK'
    BY <1>2, <1>3 DEF ShellOK
  <1>5. /\ stage \in [1..(shell.n + 1) -> Stages] /\ stage' \in [1..(shell.n + 1) -> Stages]
        /\ stage'[l].pc = "reaped" /\ stage'[l].has = stage[l].has /\ stage'[l].done = stage[l].done
        /\ \A h \in 1..(shell.n + 1) : h # l => stage'[h] = stage[h]
    BY <1>1, <1>2, StageNumbers, PcIsSet DEF StagesOK
  <1>6. \A h \in 1..shell.n : stage'[h] = stage[h]
    BY <1>2, <1>5, StageNumbers
  <1>7. StagesOK'
    <2>1. Spawned' = Spawned
      BY <1>1, <1>3 DEF Spawned
    <2>2. \A h \in 1..(shell.n + 1) : stage'[h].pc # "none" <=> h \in Spawned
      BY <1>1, <1>2, <1>5 DEF StagesOK
    <2>3. Reaped' = {}
      <3>1. \A h \in 1..shell.n : stage[h].pc # "reaped"
        BY <1>1, <1>2, StageNumbers DEF StagesOK
      <3>. QED
        BY <3>1, <1>3, <1>6 DEF Reaped
    <2>4. shell'.waited = Cardinality(Reaped')
      BY <1>1, <1>2, <1>3, <2>3, FS_EmptySet DEF ShellOK
    <2>. QED
      BY <1>3, <1>5, <2>1, <2>2, <2>4 DEF StagesOK
  <1>8. EndsOK'
    BY <1>1, <1>2, <1>3, <1>6 DEF EndsOK
  <1>9. FlowOK'
    <2>1. DOMAIN stage' = DOMAIN stage
      BY <1>5
    <2>2. \A h \in 1..(shell.n + 1) : stage'[h].has = stage[h].has /\ stage'[h].done = stage[h].done
      BY <1>5
    <2>3. \A h \in 1..(shell.n + 1) : stage'[h].pc \in {"zombie", "reaped"} => Ran(h)
      BY <1>1, <1>5 DEF Ran
    <2>. QED
      BY <1>1, <1>2, <1>3, <2>1, <2>2, <2>3, FlowKept
  <1>. QED
    BY <1>4, <1>7, <1>8, <1>9 DEF PipelineOK

\* The wait for any child takes a stage that was not taken yet.
LEMMA WaitAnyOK ==
    ASSUME PipelineOK, WaitAny
    PROVE  PipelineOK'
  <1>1. /\ shell.pc = "waitrest" /\ shell' = [shell EXCEPT !.waited = @ + 1]
        /\ UNCHANGED <<wr, buf, out>>
    BY DEF WaitAny
  <1>2. ShellOK /\ StagesOK /\ EndsOK /\ FlowOK
    BY DEF PipelineOK
  <1>a. stage \in [1..(shell.n + 1) -> Stages]
    BY <1>2 DEF StagesOK
  <1>b. PICK j \in 1..(shell.n + 1) : stage[j].pc = "zombie" /\ stage' = PcSet(j, "reaped")
    BY <1>a DEF WaitAny, PcSet
  <1>3. /\ shell' = [pc |-> "waitrest", n |-> shell.n, i |-> shell.i, waited |-> shell.waited + 1,
                     record |-> shell.record, line |-> shell.line, prog |-> shell.prog]
        /\ shell'.pc = "waitrest" /\ shell'.n = shell.n /\ shell'.i = shell.i
        /\ shell'.waited = shell.waited + 1 /\ shell'.prog = shell.prog /\ shell'.line = shell.line
    BY <1>1, <1>2 DEF ShellOK
  <1>4. ShellOK'
    BY <1>1, <1>2, <1>3 DEF ShellOK
  <1>5. /\ stage' \in [1..(shell.n + 1) -> Stages]
        /\ stage'[j].pc = "reaped" /\ stage'[j].has = stage[j].has /\ stage'[j].done = stage[j].done
        /\ \A h \in 1..(shell.n + 1) : h # j => stage'[h] = stage[h]
    BY <1>a, <1>b, PcIsSet
  <1>6. j # shell.n + 1 /\ j \in 1..shell.n
    BY <1>1, <1>2, <1>b, StageNumbers DEF StagesOK
  <1>7. StagesOK'
    <2>1. Spawned' = Spawned
      BY <1>1, <1>3 DEF Spawned
    <2>2. \A h \in 1..(shell.n + 1) : stage'[h].pc # "none" <=> h \in Spawned
      BY <1>b, <1>2, <1>5 DEF StagesOK
    <2>3. Reaped' = Reaped \cup {j} /\ j \notin Reaped
      <3>1. \A h \in 1..shell.n : h \in 1..(shell.n + 1)
        BY <1>2, StageNumbers
      <3>2. \A h \in 1..shell.n : stage'[h].pc = "reaped" <=> stage[h].pc = "reaped" \/ h = j
        BY <1>5, <3>1
      <3>. QED
        BY <3>2, <1>b, <1>3, <1>6 DEF Reaped
    <2>4. IsFiniteSet(Reaped)
      <3>1. IsFiniteSet(1..shell.n)
        BY <1>2, FS_Interval DEF ShellOK
      <3>2. Reaped \in SUBSET (1..shell.n)
        BY DEF Reaped
      <3>. QED
        BY <3>1, <3>2, FS_Subset
    <2>5. Cardinality(Reaped') = Cardinality(Reaped) + 1
      BY <2>3, <2>4, FS_AddElement
    <2>6. shell'.waited = Cardinality(Reaped')
      BY <1>1, <1>2, <1>3, <2>5 DEF StagesOK
    <2>7. stage'[shell.n + 1].pc = "reaped"
      BY <1>1, <1>2, <1>5, <1>6, StageNumbers DEF StagesOK
    <2>. QED
      BY <1>3, <1>5, <2>1, <2>2, <2>6, <2>7 DEF StagesOK
  <1>8. EndsOK'
    <2>1. \A h \in 1..shell.n : stage'[h].pc \in {"forked", "running", "stray"} =>
             stage[h].pc \in {"forked", "running", "stray"}
      BY <1>2, <1>5, StageNumbers
    <2>. QED
      BY <1>1, <1>2, <1>3, <2>1 DEF EndsOK
  <1>9. FlowOK'
    <2>1. DOMAIN stage' = DOMAIN stage
      BY <1>a, <1>5
    <2>2. \A h \in 1..(shell.n + 1) : stage'[h].has = stage[h].has /\ stage'[h].done = stage[h].done
      BY <1>5
    <2>3. \A h \in 1..(shell.n + 1) : stage'[h].pc \in {"zombie", "reaped"} => Ran(h)
      BY <1>b, <1>5 DEF Ran
    <2>. QED
      BY <1>1, <1>2, <1>3, <2>1, <2>2, <2>3, FlowKept
  <1>. QED
    BY <1>4, <1>7, <1>8, <1>9 DEF PipelineOK

\* Back to the prompt: as many waits as stages, so that all were reaped.
LEMMA RestoreStdinOK ==
    ASSUME PipelineOK, HistoryOK(history), RestoreStdin
    PROVE  HistoryOK(history)' /\ PromptOK' /\ mode' \in {"prompt", "crashed"}
  <1>1. /\ shell.pc = "waitrest" /\ shell.waited = shell.n /\ fd0' = "input"
        /\ shell' = [shell EXCEPT !.pc = "idle"] /\ UNCHANGED <<stage, out>>
        /\ mode' \in {"prompt", "crashed"}
        /\ history' \in {history, addCommandToHistory(history, shell.line)}
    BY DEF RestoreStdin
  <1>2. ShellOK /\ StagesOK /\ FlowOK
    BY DEF PipelineOK
  <1>3. HistoryOK(history)'
    <2>1. HistoryOK(addCommandToHistory(history, shell.line))
      BY <1>2, AddIsOK DEF ShellOK
    <2>2. HistoryOK(history')
      BY <1>1, <2>1
    <2>. QED
      BY <2>2
  <1>4. \A j \in DOMAIN stage : stage[j].pc = "reaped"
    <2>1. Reaped = 1..shell.n
      <3>1. shell.n \in Nat /\ shell.n \in Int /\ 1 \in Int
        BY <1>2 DEF ShellOK
      <3>2. IsFiniteSet(1..shell.n) /\ Cardinality(1..shell.n) = shell.n
        <4>1. IsFiniteSet(1..shell.n) /\ Cardinality(1..shell.n) = IF 1 > shell.n THEN 0 ELSE shell.n - 1 + 1
          BY <3>1, FS_Interval
        <4>. QED
          BY <4>1, <3>1
      <3>3. Reaped \in SUBSET (1..shell.n) /\ Cardinality(Reaped) = shell.n
        BY <1>1, <1>2 DEF Reaped, StagesOK
      <3>. QED
        BY <3>2, <3>3, FS_Subset
    <2>2. \A j \in 1..shell.n : stage[j].pc = "reaped"
      BY <2>1 DEF Reaped
    <2>3. stage[shell.n + 1].pc = "reaped" /\ DOMAIN stage = 1..(shell.n + 1)
      BY <1>1, <1>2 DEF StagesOK
    <2>. QED
      BY <2>2, <2>3, <1>2, StageNumbers
  <1>5. AllInstalled => out = [m \in 1..Items |-> m]
    <2>. SUFFICES ASSUME AllInstalled PROVE out = [m \in 1..Items |-> m]
      OBVIOUS
    <2>1. PICK f \in [1..(shell.n + 1) -> Nat] : Counts(f) /\ Complete(f)
      BY <1>2 DEF FlowOK
    <2>2. shell.n + 1 \in 1..(shell.n + 1) /\ DOMAIN stage = 1..(shell.n + 1)
      BY <1>2, StageNumbers DEF StagesOK
    <2>3. f[shell.n + 1] = Items
      BY <1>4, <2>1, <2>2 DEF Complete, Ran
    <2>4. Len(out) = Items /\ \A m \in 1..Len(out) : out[m] = m
      BY <2>1, <2>3 DEF Counts
    <2>5. out \in Seq(Nat)
      BY <1>2 DEF FlowOK
    <2>. QED
      BY <2>4, <2>5
  <1>6. AllInstalled' <=> AllInstalled
    <2>1. shell'.prog = shell.prog
      BY <1>1, <1>2 DEF ShellOK
    <2>. QED
      BY <2>1, <1>1 DEF AllInstalled
  <1>7. PromptOK'
    BY <1>1, <1>4, <1>5, <1>6 DEF PromptOK
  <1>. QED
    BY <1>1, <1>3, <1>7

-----------------------------------------------------------------------------
(* The steps of the stages *)

\* A stage that is not reaped changes, alone, and may give up its pipe ends.
LEMMA StageMoves ==
    ASSUME PipelineOK, NEW j \in 1..(shell.n + 1), shell' = shell,
           stage[j].pc \in {"forked", "running"},
           stage' \in [1..(shell.n + 1) -> Stages],
           \A h \in 1..(shell.n + 1) : h # j => stage'[h] = stage[h],
           stage'[j].pc \in {"running", "stray", "zombie"},
           wr' = wr \/ (stage'[j].pc = "zombie" /\ wr' = NoEnds(wr, j))
    PROVE  ShellOK' /\ StagesOK' /\ EndsOK'
  <1>1. ShellOK /\ StagesOK /\ EndsOK
    BY DEF PipelineOK
  <1>2. ShellOK'
    BY <1>1 DEF ShellOK
  <1>3. StagesOK'
    <2>1. Spawned' = Spawned
      BY DEF Spawned
    <2>2. \A h \in 1..(shell.n + 1) : stage'[h].pc # "none" <=> stage[h].pc # "none"
      OBVIOUS
    <2>3. \A h \in 1..(shell.n + 1) : stage'[h].pc = "reaped" <=> stage[h].pc = "reaped"
      OBVIOUS
    <2>4. Reaped' = Reaped
      BY <2>3, <1>1, StageNumbers DEF Reaped
    <2>5. shell.n + 1 \in 1..(shell.n + 1)
      BY <1>1, StageNumbers
    <2>. QED
      BY <1>1, <2>1, <2>2, <2>3, <2>4, <2>5 DEF StagesOK
  <1>4. EndsOK'
    <2>1. wr = [p \in 0..(shell.n + 1) |-> wr[p]]
      BY <1>1 DEF EndsOK
    <2>2. DOMAIN wr = 0..(shell.n + 1)
      BY <2>1
    <2>3. j # 0 /\ 0 \in DOMAIN wr /\ j \in DOMAIN wr
      BY <1>1, <2>2 DEF ShellOK
    <2>4. wr' = [p \in 0..(shell.n + 1) |-> wr'[p]]
      BY <2>1, <2>2 DEF NoEnds
    <2>5. wr'[0] = wr[0]
      BY <2>3 DEF NoEnds
    <2>6. \A h \in 1..shell.n : h \in DOMAIN wr /\ h \in 1..(shell.n + 1)
      BY <1>1, <2>2 DEF ShellOK
    <2>7. ASSUME NEW h \in 1..shell.n, stage'[h].pc \in {"forked", "running", "stray"}
          PROVE  h \in wr'[h]
      <3>1. h \in wr[h]
        BY <1>1, <2>6, <2>7 DEF EndsOK
      <3>2. wr'[h] = wr[h]
        BY <2>6, <2>7 DEF NoEnds
      <3>. QED
        BY <3>1, <3>2
    <2>. QED
      BY <1>1, <2>4, <2>5, <2>7 DEF EndsOK
  <1>. QED
    BY <1>2, <1>3, <1>4

\* execvp, or an end without having run
LEMMA StageStartOK ==
    ASSUME PipelineOK, NEW j \in DOMAIN stage, StageStart(j)
    PROVE  PipelineOK'
  <1> DEFINE found == shell.prog[j] \in Installed
             pc == IF found THEN "running" ELSE IF ~found /\ ~shell.record THEN "stray" ELSE "zombie"
  <1>1. ShellOK /\ StagesOK /\ EndsOK /\ FlowOK
    BY DEF PipelineOK
  <1>2. stage \in [1..(shell.n + 1) -> Stages] /\ j \in 1..(shell.n + 1)
    BY <1>1 DEF StagesOK
  <1>3. PICK group \in {0, 1} : stage' = [stage EXCEPT ![j].pgid = group, ![j].pc = pc]
    BY DEF StageStart
  <1>4. /\ stage[j].pc = "forked" /\ UNCHANGED <<shell, buf, out>>
        /\ wr' = wr \/ (pc = "zombie" /\ wr' = NoEnds(wr, j))
    BY DEF StageStart
  <1>5. pc \in {"running", "stray", "zombie"} /\ (pc = "zombie" => ~found)
    OBVIOUS
  <1>. HIDE DEF pc
  <1>6. /\ stage' \in [1..(shell.n + 1) -> Stages]
        /\ stage'[j].pc = pc /\ stage'[j].has = stage[j].has /\ stage'[j].done = stage[j].done
        /\ \A h \in 1..(shell.n + 1) : h # j => stage'[h] = stage[h]
    <2> DEFINE mid == [stage EXCEPT ![j].pgid = group]
    <2>1. /\ mid \in [1..(shell.n + 1) -> Stages]
          /\ mid[j].has = stage[j].has /\ mid[j].done = stage[j].done
          /\ \A h \in 1..(shell.n + 1) : h # j => mid[h] = stage[h]
      BY <1>2 DEF Stages
    <2>2. stage' = [mid EXCEPT ![j].pc = pc]
      BY <1>3
    <2>. HIDE DEF mid
    <2>3. /\ [mid EXCEPT ![j].pc = pc] \in [1..(shell.n + 1) -> Stages]
          /\ [mid EXCEPT ![j].pc = pc][j].pc = pc
          /\ [mid EXCEPT ![j].pc = pc][j].has = mid[j].has /\ [mid EXCEPT ![j].pc = pc][j].done = mid[j].done
          /\ \A h \in 1..(shell.n + 1) : h # j => [mid EXCEPT ![j].pc = pc][h] = mid[h]
      BY <1>2, <1>5, <2>1 DEF Stages
    <2>. QED
      BY <2>1, <2>2, <2>3
  <1>7. ShellOK' /\ StagesOK' /\ EndsOK'
    BY <1>2, <1>4, <1>5, <1>6, StageMoves
  <1>8. FlowOK'
    <2>1. DOMAIN stage' = DOMAIN stage
      BY <1>2, <1>6
    <2>2. \A h \in 1..(shell.n + 1) : stage'[h].has = stage[h].has /\ stage'[h].done = stage[h].done
      BY <1>6
    <2>3. \A h \in 1..(shell.n + 1) : stage'[h].pc \in {"zombie", "reaped"} => Ran(h) \/ ~ AllInstalled
      <3>1. pc = "zombie" => ~ AllInstalled
        BY <1>5 DEF AllInstalled
      <3>. QED
        BY <1>5, <1>6, <3>1 DEF Ran
    <2>. QED
      BY <1>1, <1>4, <2>1, <2>2, <2>3, FlowKept
  <1>. QED
    BY <1>7, <1>8 DEF PipelineOK

\* The end of the input: the stage before has ended too, and has handed on all.
LEMMA StageEndOK ==
    ASSUME PipelineOK, NEW j \in DOMAIN stage, StageEnd(j)
    PROVE  PipelineOK'
  <1>1. ShellOK /\ StagesOK /\ EndsOK /\ FlowOK
    BY DEF PipelineOK
  <1>2. stage \in [1..(shell.n + 1) -> Stages] /\ j \in 1..(shell.n + 1)
    BY <1>1 DEF StagesOK
  <1>3. /\ stage[j].pc = "running" /\ stage[j].has = 0
        /\ IF j = 1 THEN stage[1].done = Items ELSE buf[j - 1] = <<>> /\ Holders(wr, j - 1) = {}
        /\ stage' = PcSet(j, "zombie") /\ wr' = NoEnds(wr, j) /\ UNCHANGED <<shell, buf, out>>
    BY DEF StageEnd, Ended, PcSet
  <1>4. /\ stage' \in [1..(shell.n + 1) -> Stages]
        /\ stage'[j].pc = "zombie" /\ stage'[j].has = stage[j].has /\ stage'[j].done = stage[j].done
        /\ \A h \in 1..(shell.n + 1) : h # j => stage'[h] = stage[h]
    BY <1>2, <1>3, PcIsSet
  <1>5. ShellOK' /\ StagesOK' /\ EndsOK'
    BY <1>2, <1>3, <1>4, StageMoves
  <1>6. PICK f \in [1..(shell.n + 1) -> Nat] : Counts(f) /\ Complete(f)
    BY <1>1 DEF FlowOK
  <1>7. AllInstalled => f[j] = Items
    <2>. SUFFICES ASSUME AllInstalled PROVE f[j] = Items
      OBVIOUS
    <2>1. CASE j = 1
      <3>1. stage[1].done = f[1] + Held(1) /\ Held(1) = 0 /\ f[1] \in Nat
        BY <1>2, <1>3, <1>6, <2>1 DEF Counts, Held
      <3>. QED
        BY <1>3, <2>1, <3>1
    <2>2. CASE j # 1
      <3> DEFINE q == j - 1
      <3>1. q \in 1..shell.n /\ q + 1 = j /\ q \in 1..(shell.n + 1) /\ q \in 0..(shell.n + 1)
        BY <1>1, <1>2, <2>2 DEF ShellOK
      <3>. HIDE DEF q
      <3>2. stage[q].pc # "none"
        <4>1. j \in Spawned
          BY <1>1, <1>2, <1>3 DEF StagesOK
        <4>2. q \in Spawned
          BY <1>1, <3>1, <4>1 DEF Spawned, ShellOK
        <4>. QED
          BY <1>1, <3>1, <4>2 DEF StagesOK
      <3>3. q \notin wr[q]
        <4>1. wr = [p \in 0..(shell.n + 1) |-> wr[p]]
          BY <1>1 DEF EndsOK
        <4>2. q \in DOMAIN wr
          BY <3>1, <4>1
        <4>. QED
          BY <1>3, <2>2, <4>2 DEF Holders, q
      <3>4. stage[q].pc \notin {"forked", "running", "stray"}
        BY <1>1, <3>1, <3>3 DEF EndsOK
      <3>5. Ran(q)
        <4>1. stage[q] \in Stages
          BY <1>2, <3>1
        <4>2. stage[q].pc \in {"none", "forked", "running", "stray", "zombie", "reaped"}
          BY <4>1 DEF Stages
        <4>. QED
          BY <3>2, <3>4, <4>2 DEF Ran
      <3>6. f[q] = Items
        BY <1>6, <3>1, <3>5 DEF Complete
      <3>7. f[q] = f[j] + Held(j) + Len(buf[q]) /\ Held(j) = 0 /\ buf[q] = <<>> /\ f[j] \in Nat
        BY <1>2, <1>3, <1>6, <2>2, <3>1 DEF Counts, Held, q
      <3>. QED
        BY <3>6, <3>7
    <2>. QED
      BY <2>1, <2>2
  <1>8. Counts(f)'
    <2>1. \A h \in 1..(shell.n + 1) : stage'[h].has = stage[h].has /\ stage'[h].done = stage[h].done
      BY <1>4
    <2>2. \A h \in 1..(shell.n + 1) : Held(h)' = Held(h)
      BY <2>1 DEF Held
    <2>. QED
      BY <1>1, <1>3, <1>6, <2>1, <2>2, CountsKept
  <1>9. Complete(f)'
    <2>1. AllInstalled' <=> AllInstalled
      BY <1>2, <1>3, <1>4 DEF AllInstalled
    <2>2. \A h \in 1..(shell.n + 1) : AllInstalled /\ Ran(h)' => f[h] = Items /\ stage'[h].has = 0
      BY <1>3, <1>4, <1>6, <1>7 DEF Complete, Ran
    <2>. QED
      BY <1>3, <2>1, <2>2 DEF Complete
  <1>10. FlowOK'
    BY <1>1, <1>3, <1>6, <1>8, <1>9 DEF FlowOK
  <1>. QED
    BY <1>5, <1>10 DEF PipelineOK

\* A stage takes an item: the first makes the next one, the others take the
\* oldest of their pipe.
LEMMA StageReadOK ==
    ASSUME PipelineOK, NEW j \in DOMAIN stage, StageRead(j)
    PROVE  PipelineOK'
  <1> DEFINE q == j - 1
  <1>1. ShellOK /\ StagesOK /\ EndsOK /\ FlowOK
    BY DEF PipelineOK
  <1>2. stage \in [1..(shell.n + 1) -> Stages] /\ j \in 1..(shell.n + 1)
    BY <1>1 DEF StagesOK
  <1>3. /\ stage[j].pc = "running" /\ stage[j].has = 0 /\ UNCHANGED <<shell, wr, out>>
        /\ \/ /\ j = 1 /\ stage[1].done < Items /\ buf' = buf
              /\ stage' = [stage EXCEPT ![1] = [stage[1] EXCEPT !.has = stage[1].done + 1, !.done = stage[1].done + 1]]
           \/ /\ j # 1 /\ buf[q] # <<>> /\ buf' = [buf EXCEPT ![q] = Tail(@)]
              /\ stage' = [stage EXCEPT ![j].has = Head(buf[q])]
    BY DEF StageRead
  <1>4. PICK f \in [1..(shell.n + 1) -> Nat] : Counts(f) /\ Complete(f)
    BY <1>1 DEF FlowOK
  <1>5. /\ Len(out) = f[shell.n + 1] /\ \A m \in 1..Len(out) : out[m] = m
        /\ \A p \in 1..shell.n :
              /\ f[p] = f[p + 1] + Held(p + 1) + Len(buf[p])
              /\ \A m \in 1..Len(buf[p]) : buf[p][m] = f[p + 1] + Held(p + 1) + m
        /\ \A h \in 1..(shell.n + 1) : stage[h].has # 0 => stage[h].has = f[h] + 1
        /\ stage[1].done = f[1] + Held(1) /\ stage[1].done <= Items
    BY <1>4 DEF Counts
  <1>6. buf \in [1..shell.n -> Seq(Nat)] /\ out \in Seq(Nat)
    BY <1>1 DEF FlowOK
  <1>7. Held(j) = 0 /\ f[j] \in Nat /\ f[j] + 1 # 0
    BY <1>2, <1>3, <1>4 DEF Held
  <1>8. j # 1 => /\ q \in 1..shell.n /\ q + 1 = j
                 /\ Head(buf[q]) = f[j] + 1 /\ Tail(buf[q]) \in Seq(Nat)
                 /\ f[q] = f[j] + 1 + Len(Tail(buf[q]))
                 /\ \A m \in 1..Len(Tail(buf[q])) : Tail(buf[q])[m] = f[j] + 1 + m
    <2>. SUFFICES ASSUME j # 1
                  PROVE  /\ q \in 1..shell.n /\ q + 1 = j
                         /\ Head(buf[q]) = f[j] + 1 /\ Tail(buf[q]) \in Seq(Nat)
                         /\ f[q] = f[j] + 1 + Len(Tail(buf[q]))
                         /\ \A m \in 1..Len(Tail(buf[q])) : Tail(buf[q])[m] = f[j] + 1 + m
      OBVIOUS
    <2>1. q \in 1..shell.n /\ q + 1 = j
      BY <1>1, <1>2, StageNumbers DEF ShellOK
    <2>2. buf[q] # <<>>
      BY <1>3
    <2>. HIDE DEF q
    <2> DEFINE b == buf[q]
    <2>3. b \in Seq(Nat) /\ b # <<>> /\ f[q] = f[j] + 0 + Len(b) /\ \A m \in 1..Len(b) : b[m] = f[j] + 0 + m
      BY <1>5, <1>6, <1>7, <2>1, <2>2
    <2>. HIDE DEF b
    <2>4. /\ Len(b) \in Nat \ {0} /\ Head(b) = b[1] /\ Tail(b) \in Seq(Nat) /\ Len(Tail(b)) = Len(b) - 1
          /\ \A m \in 1..(Len(b) - 1) : Tail(b)[m] = b[m + 1]
      BY <2>3
    <2>5. Head(b) = f[j] + 1 /\ f[q] = f[j] + 1 + Len(Tail(b))
      BY <1>7, <2>3, <2>4
    <2>6. \A m \in 1..Len(Tail(b)) : Tail(b)[m] = f[j] + 1 + m
      <3>. TAKE m \in 1..Len(Tail(b))
      <3>1. m + 1 \in 1..Len(b) /\ m \in 1..(Len(b) - 1) /\ m \in Nat
        BY <2>4
      <3>2. Tail(b)[m] = f[j] + 0 + (m + 1)
        BY <2>3, <2>4, <3>1
      <3>. QED
        BY <3>1, <3>2, <1>7
    <2>. QED
      BY <2>1, <2>4, <2>5, <2>6 DEF b
  <1>9. /\ stage' \in [1..(shell.n + 1) -> Stages]
        /\ stage'[j].pc = "running" /\ stage'[j].has = f[j] + 1
        /\ stage'[j].done = IF j = 1 THEN f[1] + 1 ELSE stage[j].done
        /\ \A h \in 1..(shell.n + 1) : h # j => stage'[h] = stage[h]
    <2> DEFINE e == stage[j]
               new == [pc |-> e.pc, pgid |-> e.pgid, has |-> f[j] + 1,
                       done |-> IF j = 1 THEN f[1] + 1 ELSE e.done]
    <2>1. e \in Stages /\ e = [pc |-> e.pc, pgid |-> e.pgid, has |-> e.has, done |-> e.done]
      BY <1>2 DEF Stages
    <2>2. new \in Stages /\ new.pc = "running" /\ new.has = f[j] + 1
          /\ new.done = IF j = 1 THEN f[1] + 1 ELSE e.done
      BY <1>3, <1>4, <1>7, <2>1 DEF Stages
    <2>3. stage' = [stage EXCEPT ![j] = new]
      <3>1. CASE j = 1
        <4>1. e.done = f[1]
          BY <1>5, <1>7, <3>1
        <4>2. stage' = [stage EXCEPT ![1] = [e EXCEPT !.has = e.done + 1, !.done = e.done + 1]]
          BY <1>3, <3>1
        <4>. HIDE DEF e
        <4>3. [e EXCEPT !.has = e.done + 1, !.done = e.done + 1]
                = [pc |-> e.pc, pgid |-> e.pgid, has |-> e.done + 1, done |-> e.done + 1]
          <5> DEFINE y == e.done + 1
                     held == [e EXCEPT !.has = y]
          <5>. HIDE DEF y
          <5>1. held = [pc |-> e.pc, pgid |-> e.pgid, has |-> y, done |-> e.done]
            BY <2>1
          <5>2. [e EXCEPT !.has = y, !.done = y] = [held EXCEPT !.done = y]
            OBVIOUS
          <5>. HIDE DEF held
          <5>3. [held EXCEPT !.done = y] = [pc |-> e.pc, pgid |-> e.pgid, has |-> y, done |-> y]
            BY <5>1
          <5>4. [e EXCEPT !.has = y, !.done = y] = [pc |-> e.pc, pgid |-> e.pgid, has |-> y, done |-> y]
            BY <5>2, <5>3
          <5>. QED
            BY <5>4 DEF y
        <4>. QED
          BY <3>1, <4>1, <4>2, <4>3
      <3>2. CASE j # 1
        BY <1>3, <1>8, <2>1, <3>2
      <3>. QED
        BY <3>1, <3>2
    <2>. HIDE DEF new
    <2>. QED
      BY <1>2, <2>2, <2>3
  <1>10. ShellOK' /\ StagesOK' /\ EndsOK'
    BY <1>2, <1>3, <1>9, StageMoves
  <1>11. Held(j)' = 1 /\ \A h \in 1..(shell.n + 1) : h # j => Held(h)' = Held(h)
    BY <1>7, <1>9 DEF Held
  <1>12. /\ buf' \in [1..shell.n -> Seq(Nat)]
         /\ \A p \in 1..shell.n : p # q => buf'[p] = buf[p]
         /\ j # 1 => buf'[q] = Tail(buf[q])
    BY <1>3, <1>6, <1>8
  <1>13. \A p \in 1..shell.n :
              /\ f[p] = f[p + 1] + Held(p + 1)' + Len(buf'[p])
              /\ \A m \in 1..Len(buf'[p]) : buf'[p][m] = f[p + 1] + Held(p + 1)' + m
    <2>. TAKE p \in 1..shell.n
    <2>0. p + 1 \in 1..(shell.n + 1) /\ (p = q <=> p + 1 = j)
      BY <1>1, <1>2, StageNumbers
    <2>1. CASE p = q
      <3>1. j # 1
        BY <1>1, <2>0, <2>1, StageNumbers
      <3>. HIDE DEF q
      <3>. QED
        BY <1>8, <1>11, <1>12, <2>0, <2>1, <3>1
    <2>2. CASE p # q
      <3>1. Held(p + 1)' = Held(p + 1) /\ buf'[p] = buf[p]
        BY <1>11, <1>12, <2>0, <2>2
      <3>. QED
        BY <1>5, <3>1
    <2>. QED
      BY <2>1, <2>2
  <1>14. \A h \in 1..(shell.n + 1) : stage'[h].has # 0 => stage'[h].has = f[h] + 1
    BY <1>5, <1>9
  <1>15. stage'[1].done = f[1] + Held(1)' /\ stage'[1].done <= Items
    <2>1. CASE j = 1
      <3>1. stage[1].done = f[1] /\ stage[1].done < Items
        BY <1>3, <1>5, <1>7, <2>1
      <3>. QED
        BY <1>7, <1>9, <1>11, <2>1, <3>1, SizesAssumption
    <2>2. CASE j # 1
      <3>1. 1 \in 1..(shell.n + 1)
        BY <1>1, StageNumbers
      <3>. QED
        BY <1>5, <1>9, <1>11, <2>2, <3>1
    <2>. QED
      BY <2>1, <2>2
  <1>16. Counts(f)'
    BY <1>3, <1>4, <1>5, <1>13, <1>14, <1>15 DEF Counts
  <1>17. Complete(f)'
    <2>1. AllInstalled' <=> AllInstalled
      BY <1>2, <1>3, <1>9 DEF AllInstalled
    <2>2. \A h \in 1..(shell.n + 1) : Ran(h)' => Ran(h) /\ stage'[h] = stage[h]
      BY <1>9 DEF Ran
    <2>. QED
      BY <1>3, <1>4, <2>1, <2>2 DEF Complete
  <1>18. FlowOK'
    BY <1>3, <1>4, <1>6, <1>12, <1>16, <1>17 DEF FlowOK
  <1>. QED
    BY <1>10, <1>18 DEF PipelineOK

\* A stage hands its item on: to the next pipe, or to the output.
LEMMA StageWriteOK ==
    ASSUME PipelineOK, NEW j \in DOMAIN stage, StageWrite(j)
    PROVE  PipelineOK'
  <1> DEFINE l == shell.n + 1
  <1>1. ShellOK /\ StagesOK /\ EndsOK /\ FlowOK
    BY DEF PipelineOK
  <1>2. stage \in [1..(shell.n + 1) -> Stages] /\ j \in 1..(shell.n + 1)
    BY <1>1 DEF StagesOK
  <1>3. /\ stage[j].pc = "running" /\ stage[j].has # 0 /\ UNCHANGED <<shell, wr>>
        /\ stage' = [stage EXCEPT ![j].has = 0]
        /\ \/ j = l /\ out' = Append(out, stage[j].has) /\ buf' = buf
           \/ j \in 1..shell.n /\ out' = out /\ buf' = [buf EXCEPT ![j] = Append(@, stage[j].has)]
    <2>1. j <= shell.n => j \in 1..shell.n
      BY <1>1, <1>2, StageNumbers
    <2>. QED
      BY <2>1 DEF StageWrite
  <1>4. PICK f \in [1..(shell.n + 1) -> Nat] : Counts(f) /\ Complete(f)
    BY <1>1 DEF FlowOK
  <1>5. /\ Len(out) = f[shell.n + 1] /\ \A m \in 1..Len(out) : out[m] = m
        /\ \A p \in 1..shell.n :
              /\ f[p] = f[p + 1] + Held(p + 1) + Len(buf[p])
              /\ \A m \in 1..Len(buf[p]) : buf[p][m] = f[p + 1] + Held(p + 1) + m
        /\ \A h \in 1..(shell.n + 1) : stage[h].has # 0 => stage[h].has = f[h] + 1
        /\ stage[1].done = f[1] + Held(1) /\ stage[1].done <= Items
    BY <1>4 DEF Counts
  <1>6. buf \in [1..shell.n -> Seq(Nat)] /\ out \in Seq(Nat)
    BY <1>1 DEF FlowOK
  <1>7. Held(j) = 1 /\ f[j] \in Nat /\ stage[j].has = f[j] + 1
    BY <1>2, <1>3, <1>4, <1>5 DEF Held
  <1> DEFINE g == [f EXCEPT ![j] = f[j] + 1]
  <1>8. /\ g \in [1..(shell.n + 1) -> Nat] /\ g[j] = f[j] + 1
        /\ \A h \in 1..(shell.n + 1) : h # j => g[h] = f[h]
    BY <1>2, <1>4, <1>7
  <1>. HIDE DEF g
  <1>9. /\ stage' \in [1..(shell.n + 1) -> Stages]
        /\ stage'[j].pc = "running" /\ stage'[j].has = 0 /\ stage'[j].done = stage[j].done
        /\ \A h \in 1..(shell.n + 1) : h # j => stage'[h] = stage[h]
    BY <1>2, <1>3 DEF Stages
  <1>10. ShellOK' /\ StagesOK' /\ EndsOK'
    BY <1>2, <1>3, <1>9, StageMoves
  <1>11. Held(j)' = 0 /\ \A h \in 1..(shell.n + 1) : h # j => Held(h)' = Held(h)
    BY <1>9 DEF Held
  <1>12. /\ buf' \in [1..shell.n -> Seq(Nat)]
         /\ \A p \in 1..shell.n : p # j => buf'[p] = buf[p]
         /\ j \in 1..shell.n => buf'[j] = Append(buf[j], f[j] + 1)
    <2>0. j = l => j \notin 1..shell.n
      BY <1>1, StageNumbers
    <2>1. CASE buf' = buf /\ j = l
      BY <1>6, <2>0, <2>1
    <2>2. CASE j \in 1..shell.n /\ buf' = [buf EXCEPT ![j] = Append(@, stage[j].has)]
      <3>1. buf' = [buf EXCEPT ![j] = Append(buf[j], f[j] + 1)]
        BY <1>7, <2>2
      <3>2. buf[j] \in Seq(Nat) /\ f[j] + 1 \in Nat
        BY <1>6, <1>7, <2>2
      <3>3. Append(buf[j], f[j] + 1) \in Seq(Nat)
        BY <3>2
      <3>. QED
        BY <1>6, <2>2, <3>1, <3>3
    <2>. QED
      BY <1>3, <2>1, <2>2
  <1>13. Len(out') = g[l] /\ out' \in Seq(Nat) /\ \A m \in 1..Len(out') : out'[m] = m
    <2>0. l \in 1..(shell.n + 1)
      BY <1>1, StageNumbers
    <2>1. CASE j = l
      <3>0. out' = Append(out, f[j] + 1)
        BY <1>1, <1>3, <1>7, <2>1, StageNumbers
      <3>1. Len(out) = f[j] /\ g[l] = f[j] + 1
        BY <1>5, <1>8, <2>1
      <3>2. /\ out' \in Seq(Nat) /\ Len(out') = Len(out) + 1 /\ out'[Len(out) + 1] = f[j] + 1
            /\ \A m \in 1..Len(out) : out'[m] = out[m]
        BY <1>6, <1>7, <3>0
      <3>3. \A m \in 1..Len(out') : m \in 1..Len(out) \/ m = Len(out) + 1
        BY <1>6, <3>2
      <3>. QED
        BY <1>5, <3>1, <3>2, <3>3
    <2>2. CASE j # l
      BY <1>3, <1>5, <1>6, <1>8, <2>0, <2>2
    <2>. QED
      BY <2>1, <2>2
  <1>14. \A p \in 1..shell.n :
              /\ g[p] = g[p + 1] + Held(p + 1)' + Len(buf'[p])
              /\ \A m \in 1..Len(buf'[p]) : buf'[p][m] = g[p + 1] + Held(p + 1)' + m
    <2>. TAKE p \in 1..shell.n
    <2>0. p \in 1..(shell.n + 1) /\ p + 1 \in 1..(shell.n + 1) /\ p # p + 1
      BY <1>1, StageNumbers
    <2>a. f[p + 1] \in Nat /\ f[p] \in Nat /\ Held(p + 1) \in Nat /\ Len(buf[p]) \in Nat /\ buf[p] \in Seq(Nat)
      BY <1>4, <1>6, <2>0 DEF Held
    <2>1. CASE p = j
      <3>1. g[p] = f[p] + 1 /\ g[p + 1] = f[p + 1] /\ Held(p + 1)' = Held(p + 1)
        BY <1>8, <1>11, <2>0, <2>1
      <3>2. f[p] = f[p + 1] + Held(p + 1) + Len(buf[p])
        BY <1>5
      <3>3. /\ Len(buf'[p]) = Len(buf[p]) + 1 /\ buf'[p][Len(buf[p]) + 1] = f[p] + 1
            /\ \A m \in 1..Len(buf[p]) : buf'[p][m] = buf[p][m]
        <4>1. buf'[p] = Append(buf[p], f[p] + 1)
          BY <1>12, <2>1
        <4>. QED
          BY <2>a, <4>1
      <3>4. \A m \in 1..Len(buf'[p]) : m \in 1..Len(buf[p]) \/ m = Len(buf[p]) + 1
        BY <2>a, <3>3
      <3>5. ASSUME NEW m \in 1..Len(buf'[p]) PROVE buf'[p][m] = f[p + 1] + Held(p + 1) + m
        <4>1. CASE m \in 1..Len(buf[p])
          BY <1>5, <3>3, <4>1
        <4>2. CASE m = Len(buf[p]) + 1
          BY <2>a, <3>2, <3>3, <4>2
        <4>. QED
          BY <3>4, <4>1, <4>2
      <3>6. f[p] + 1 = f[p + 1] + Held(p + 1) + (Len(buf[p]) + 1)
        BY <2>a, <3>2
      <3>. QED
        BY <3>1, <3>3, <3>5, <3>6
    <2>2. CASE p + 1 = j
      <3>1. /\ g[p] = f[p] /\ g[p + 1] = f[p + 1] + 1 /\ Held(p + 1)' = 0 /\ Held(p + 1) = 1
            /\ buf'[p] = buf[p]
        BY <1>7, <1>8, <1>11, <1>12, <2>0, <2>2
      <3>2. \A m \in 1..Len(buf[p]) : buf[p][m] = f[p + 1] + 1 + m
        BY <1>5, <3>1
      <3>3. f[p] = f[p + 1] + 1 + Len(buf[p])
        BY <1>5, <3>1
      <3>4. \A m \in 1..Len(buf[p]) : f[p + 1] + 1 + m = (f[p + 1] + 1) + 0 + m
        BY <2>a
      <3>5. f[p + 1] + 1 + Len(buf[p]) = (f[p + 1] + 1) + 0 + Len(buf[p])
        BY <2>a
      <3>. QED
        BY <3>1, <3>2, <3>3, <3>4, <3>5
    <2>3. CASE p # j /\ p + 1 # j
      <3>1. g[p] = f[p] /\ g[p + 1] = f[p + 1] /\ Held(p + 1)' = Held(p + 1) /\ buf'[p] = buf[p]
        BY <1>8, <1>11, <1>12, <2>0, <2>3
      <3>. QED
        BY <1>5, <3>1
    <2>. QED
      BY <2>1, <2>2, <2>3
  <1>15. \A h \in 1..(shell.n + 1) : stage'[h].has # 0 => stage'[h].has = g[h] + 1
    BY <1>5, <1>8, <1>9
  <1>16. stage'[1].done = g[1] + Held(1)' /\ stage'[1].done <= Items
    <2>0. 1 \in 1..(shell.n + 1)
      BY <1>1, StageNumbers
    <2>1. CASE j = 1
      BY <1>5, <1>7, <1>8, <1>9, <1>11, <2>1
    <2>2. CASE j # 1
      BY <1>5, <1>8, <1>9, <1>11, <2>0, <2>2
    <2>. QED
      BY <2>1, <2>2
  <1>17. Counts(g)'
    BY <1>3, <1>8, <1>13, <1>14, <1>15, <1>16 DEF Counts
  <1>18. Complete(g)'
    <2>1. AllInstalled' <=> AllInstalled
      BY <1>2, <1>3, <1>9 DEF AllInstalled
    <2>2. \A h \in 1..(shell.n + 1) : Ran(h)' => Ran(h) /\ stage'[h] = stage[h] /\ g[h] = f[h]
      BY <1>8, <1>9 DEF Ran
    <2>. QED
      BY <1>3, <1>4, <2>1, <2>2 DEF Complete
  <1>19. FlowOK'
    BY <1>3, <1>8, <1>12, <1>13, <1>17, <1>18 DEF FlowOK
  <1>. QED
    BY <1>10, <1>19 DEF PipelineOK

-----------------------------------------------------------------------------
(* The assignments *)

\* An assignment changes the variables and what the instructions ask alike.
LEMMA AssignedStep ==
    ASSUME AssignedOK, Cardinality(Names) <= MAX_VARIABLES, NEW arg, Assigning(arg)
    PROVE  AssignedOK'
  <1>1. /\ assigned = [local |-> assigned.local, env |-> environ]
        /\ assigned.local \in [Names -> Strings] /\ TableOf(shell_variables, assigned.local)
    BY DEF AssignedOK
  <1>2. arg.v \in Strings /\ (arg.k = "assign" => arg.n \in Names)
    BY DEF Assigning
  <1> DEFINE local == [assigned.local EXCEPT ![arg.n] = arg.v]
             env   == [assigned.env EXCEPT ![arg.n] = arg.v]
  <1>3. CASE /\ arg.k = "assign" /\ environ' = environ
             /\ shell_variables' = wsh_local(shell_variables, arg.n, arg.v)
             /\ assigned' = [assigned EXCEPT !.local[arg.n] = arg.v]
    <2>0. environ' = environ /\ arg.n \in Names
      BY <1>2, <1>3
    <2>1. local \in [Names -> Strings]
      BY <1>1, <1>2
    <2>2. assigned' = [assigned EXCEPT !.local = local]
      BY <1>3
    <2>3. TableOf(shell_variables', local)
      BY <1>1, <1>2, <1>3, LocalAssigns
    <2>. HIDE DEF local
    <2>4. assigned' = [local |-> local, env |-> environ]
      BY <1>1, <2>2
    <2>. QED
      BY <2>0, <2>1, <2>3, <2>4 DEF AssignedOK
  <1>4. CASE /\ environ' = [environ EXCEPT ![arg.n] = arg.v] /\ shell_variables' = shell_variables
             /\ assigned' = [assigned EXCEPT !.env[arg.n] = arg.v]
    <2>1. assigned' = [assigned EXCEPT !.env = env]
      BY <1>4
    <2>a. environ' = [environ EXCEPT ![arg.n] = arg.v] /\ shell_variables' = shell_variables
      BY <1>4
    <2>b. assigned.env = environ
      BY <1>1
    <2>2. env = environ'
      BY <2>a, <2>b
    <2>. HIDE DEF env
    <2>3. assigned' = [local |-> assigned.local, env |-> env]
      BY <1>1, <2>1
    <2>. QED
      BY <1>1, <2>a, <2>2, <2>3 DEF AssignedOK
  <1>5. CASE UNCHANGED <<environ, shell_variables, assigned>>
    BY <1>5 DEF AssignedOK
  <1>. QED
    BY <1>3, <1>4, <1>5 DEF Assigning

\* In a table each name that has a value has one entry, with it.
LEMMA TableMatches ==
    ASSUME AssignedOK
    PROVE  VarsMatch
  <1>1. /\ assigned = [local |-> assigned.local, env |-> environ]
        /\ TableOf(shell_variables, assigned.local)
    BY DEF AssignedOK
  <1>2. ASSUME NEW x \in Names
        PROVE  LET hits == {i \in DOMAIN shell_variables : shell_variables[i].name = x}
               IN  IF assigned.local[x] = "" THEN hits = {}
                   ELSE /\ Cardinality(hits) = 1
                        /\ \A i \in hits : shell_variables[i].value = assigned.local[x]
    <2> DEFINE hits == {i \in DOMAIN shell_variables : shell_variables[i].name = x}
    <2>1. CASE assigned.local[x] = ""
      <3>1. \A i \in DOMAIN shell_variables :
                shell_variables[i].value # "" /\ shell_variables[i].value = assigned.local[shell_variables[i].name]
        BY <1>1 DEF TableOf
      <3>2. hits = {}
        BY <2>1, <3>1
      <3>. QED
        BY <2>1, <3>2
    <2>2. CASE assigned.local[x] # ""
      <3>1. PICK i \in DOMAIN shell_variables : shell_variables[i].name = x
        BY <1>1, <2>2 DEF TableOf
      <3>2. hits = {i}
        BY <1>1, <3>1 DEF TableOf
      <3>3. Cardinality(hits) = 1
        BY <3>2, FS_Singleton
      <3>4. shell_variables[i].value = assigned.local[x]
        BY <1>1, <3>1 DEF TableOf
      <3>. QED
        BY <2>2, <3>2, <3>3, <3>4
    <2>. QED
      BY <2>1, <2>2
  <1>3. assigned.env = environ
    BY <1>1
  <1>. QED
    BY <1>2, <1>3 DEF VarsMatch

-----------------------------------------------------------------------------
(* The theorems *)

\* A step while a pipeline is open.
LEMMA PipelineStepOK ==
    ASSUME Inv, mode = "pipeline", ShellStep \/ \E j \in DOMAIN stage : StageStep(j)
    PROVE  Inv' /\ UNCHANGED <<environ, shell_variables, assigned>>
  <1>1. PipelineOK /\ HistoryOK(history) /\ VarsOK
    BY DEF Inv
  <1>2. ASSUME PipelineOK', UNCHANGED <<mode, lines, history, environ, shell_variables, assigned>>
        PROVE  Inv' /\ UNCHANGED <<environ, shell_variables, assigned>>
    BY <1>1, <1>2 DEF Inv, VarsOK
  <1>. USE DEF pipeDataSame, sessionVars, dataVars
  <1>3. CASE Spawn
    <2>1. UNCHANGED <<mode, lines, history, environ, shell_variables, assigned>>
      BY <1>3 DEF Spawn
    <2>. QED
      BY <1>1, <1>2, <1>3, <2>1, SpawnOK
  <1>4. CASE CloseWriteEnd
    <2>1. UNCHANGED <<mode, lines, history, environ, shell_variables, assigned>>
      BY <1>4 DEF CloseWriteEnd
    <2>. QED
      BY <1>1, <1>2, <1>4, <2>1, CloseWriteEndOK
  <1>5. CASE SpawnLast
    <2>1. UNCHANGED <<mode, lines, history, environ, shell_variables, assigned>>
      BY <1>5 DEF SpawnLast
    <2>. QED
      BY <1>1, <1>2, <1>5, <2>1, SpawnLastOK
  <1>6. CASE WaitLast
    <2>1. UNCHANGED <<mode, lines, history, environ, shell_variables, assigned>>
      BY <1>6 DEF WaitLast
    <2>. QED
      BY <1>1, <1>2, <1>6, <2>1, WaitLastOK
  <1>7. CASE WaitAny
    <2>1. UNCHANGED <<mode, lines, history, environ, shell_variables, assigned>>
      BY <1>7 DEF WaitAny
    <2>. QED
      BY <1>1, <1>2, <1>7, <2>1, WaitAnyOK
  <1>8. CASE RestoreStdin
    <2>1. UNCHANGED <<lines, environ, shell_variables, assigned>>
      BY <1>8 DEF RestoreStdin
    <2>2. HistoryOK(history)' /\ PromptOK' /\ mode' \in {"prompt", "crashed"}
      BY <1>1, <1>8, RestoreStdinOK
    <2>. QED
      BY <1>1, <2>1, <2>2 DEF Inv, VarsOK
  <1>9. ASSUME NEW j \in DOMAIN stage, StageStep(j)
        PROVE  Inv' /\ UNCHANGED <<environ, shell_variables, assigned>>
    <2>1. UNCHANGED <<mode, lines, history, environ, shell_variables, assigned>>
      BY <1>9 DEF StageStep, StageStart, StageRead, StageWrite, StageEnd
    <2>2. PipelineOK'
      BY <1>1, <1>9, StageStartOK, StageReadOK, StageWriteOK, StageEndOK DEF StageStep
    <2>. QED
      BY <1>2, <2>1, <2>2
  <1>. QED
    BY <1>3, <1>4, <1>5, <1>6, <1>7, <1>8, <1>9 DEF ShellStep

\* A new session: no variable, no command, no stage.
LEMMA InitOK ==
    ASSUME Init
    PROVE  Inv /\ AssignedOK
  <1>1. HistoryOK(history)
    <2>1. history = initHistoryList(DefaultHistory)
      BY DEF Init
    <2>2. history.node = [d \in NodeIds |-> NoNode]
      BY <2>1 DEF initHistoryList
    <2>3. \A d \in NodeIds : NodeOK(history.node[d])
      BY <2>2, EmptyNode
    <2>4. history = [node |-> history.node, head |-> history.head, tail |-> history.tail,
                     count |-> history.count, maxCount |-> history.maxCount]
      BY <2>1 DEF initHistoryList
    <2>5. history.node = [d \in NodeIds |-> history.node[d]]
      BY <2>2
    <2>. QED
      BY <2>3, <2>4, <2>5 DEF HistoryOK
  <1>2. "" \in Strings /\ "unset" \in Strings
    BY DEF Strings
  <1>. HIDE DEF Strings
  <1>3. /\ environ = [x \in Names |-> "unset"] /\ shell_variables = <<>> /\ lines \in Sessions
        /\ assigned = [local |-> [x \in Names |-> ""], env |-> [x \in Names |-> "unset"]]
        /\ mode = "prompt" /\ fd0 = "input" /\ stage = <<>>
    BY DEF Init
  <1>a. DOMAIN <<>> = {}
    <2>1. <<>> \in Seq({}) /\ Len(<<>>) = 0
      OBVIOUS
    <2>2. DOMAIN <<>> = 1..Len(<<>>)
      BY <2>1
    <2>. QED
      BY <2>1, <2>2
  <1>4. VarsOK
    <2>1. environ \in [Names -> Strings]
      BY <1>2, <1>3
    <2> DEFINE Rec == [name : Names, value : Strings]
    <2>2. Table = Seq(Rec)
      BY DEF Table
    <2>. HIDE DEF Rec
    <2>3. <<>> \in Seq(Rec)
      OBVIOUS
    <2>. QED
      BY <1>3, <2>1, <2>2, <2>3 DEF VarsOK
  <1>5. AssignedOK
    <2>1. assigned.local = [x \in Names |-> ""] /\ assigned = [local |-> assigned.local, env |-> environ]
      BY <1>3
    <2>2. assigned.local \in [Names -> Strings]
      BY <1>2, <2>1
    <2>3. TableOf(shell_variables, assigned.local)
      <3>1. shell_variables \in Table /\ DOMAIN shell_variables = {}
        BY <1>3, <1>a, <1>4 DEF VarsOK
      <3>2. \A x \in Names : assigned.local[x] = ""
        BY <2>1
      <3>. QED
        BY <3>1, <3>2 DEF TableOf
    <2>. QED
      BY <2>1, <2>2, <2>3 DEF AssignedOK
  <1>6. PromptOK
    <2>1. DOMAIN stage = {}
      BY <1>3, <1>a
    <2>. QED
      BY <1>3, <2>1 DEF PromptOK
  <1>. QED
    BY <1>1, <1>3, <1>4, <1>5, <1>6 DEF Inv

\* Every step keeps the invariant, and assigns to variables as a builtin does.
LEMMA StepOK ==
    ASSUME Inv, [Next]_vars
    PROVE  Inv' /\ (UNCHANGED <<environ, shell_variables, assigned>> \/ \E arg : Assigning(arg))
  <1>1. CASE ReadLine
    BY <1>1, ReadLineOK
  <1>2. CASE EndOfInput
    BY <1>2 DEF EndOfInput, Inv, VarsOK, sessionVars, dataVars
  <1>3. CASE mode = "pipeline" /\ (ShellStep \/ \E j \in DOMAIN stage : StageStep(j))
    BY <1>3, PipelineStepOK
  <1>4. CASE UNCHANGED vars
    <2>1. /\ UNCHANGED <<lines, mode, history, environ, shell_variables, assigned>>
          /\ UNCHANGED <<shell, fd0, stage, rd, wr, buf, out>>
      BY <1>4 DEF vars, sessionVars, dataVars, pipeVars
    <2>2. HistoryOK(history)' /\ VarsOK'
      BY <2>1 DEF Inv, VarsOK
    <2>3. mode' = "prompt" => PromptOK'
      BY <2>1 DEF Inv, PromptOK, AllInstalled
    <2>4. mode' = "pipeline" => PipelineOK'
      <3>. SUFFICES ASSUME mode' = "pipeline" PROVE PipelineOK'
        OBVIOUS
      <3>1. ShellOK /\ StagesOK /\ EndsOK /\ FlowOK
        BY <2>1 DEF Inv, PipelineOK
      <3>2. ShellOK'
        BY <2>1, <3>1 DEF ShellOK
      <3>3. StagesOK'
        BY <2>1, <3>1 DEF StagesOK, Spawned, Reaped
      <3>4. EndsOK'
        BY <2>1, <3>1 DEF EndsOK
      <3>5. FlowOK'
        BY <2>1, <3>1, FlowKept DEF Ran
      <3>. QED
        BY <3>2, <3>3, <3>4, <3>5 DEF PipelineOK
    <2>. QED
      BY <2>1, <2>2, <2>3, <2>4 DEF Inv
  <1>. QED
    BY <1>1, <1>2, <1>3, <1>4 DEF Next

\* The invariant holds throughout: in the loop descriptor 0 is the input and no
\* stage is left; in a pipeline the shell has waited for as many stages as are
\* reaped, a running stage keeps its write end, and each pipe holds, in order,
\* the items between what its writer and what its reader has handed on.
THEOREM WshInductive == Spec => []Inv
  <1>1. Init => Inv
    BY InitOK
  <1>2. Inv /\ [Next]_vars => Inv'
    BY StepOK
  <1>. QED
    BY <1>1, <1>2, PTL DEF Spec

\* As long as no child went on as a shell of its own, the shell reads a line
\* only with its input restored, every stage reaped, and the output complete.
THEOREM WshPromptClean == Spec => [](strays = 0 => PromptIsClean)
  <1>1. Inv => (strays = 0 => PromptIsClean)
    BY DEF Inv, PromptOK, PromptIsClean, AllInstalled
  <1>. QED
    BY <1>1, WshInductive, PTL

\* With room for every name, after any assignments and any history the array of
\* variables has one entry for each variable that has a value, with the last
\* one, and the environment has what was exported (VarsMatch).
THEOREM WshVarsMatch ==
    ASSUME Cardinality(Names) <= MAX_VARIABLES
    PROVE  Spec => []VarsMatch
  <1> DEFINE IInv == Inv /\ AssignedOK
  <1>1. Init => IInv
    BY InitOK
  <1>2. IInv /\ [Next]_vars => IInv'
    <2>. SUFFICES ASSUME Inv, AssignedOK, [Next]_vars PROVE Inv' /\ AssignedOK'
      OBVIOUS
    <2>1. Inv' /\ (UNCHANGED <<environ, shell_variables, assigned>> \/ \E arg : Assigning(arg))
      BY StepOK
    <2>2. CASE UNCHANGED <<environ, shell_variables, assigned>>
      BY <2>1, <2>2 DEF AssignedOK
    <2>3. ASSUME NEW arg, Assigning(arg) PROVE AssignedOK'
      BY <2>3, AssignedStep
    <2>. QED
      BY <2>1, <2>2, <2>3
  <1>3. IInv => VarsMatch
    BY TableMatches
  <1>. QED
    BY <1>1, <1>2, <1>3, PTL DEF Spec
=============================================================================
