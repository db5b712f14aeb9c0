-------------------------------- MODULE Wsh --------------------------------
(***************************************************************************)
(* The shell of project P3 (wsh.c): the command loop, the history list,    *)
(* variables, and pipelines down to the descriptors, the process group and *)
(* the waits.                                                              *)
(*                                                                         *)
(* A line is a sequence of words.  A word is [k, n, v]: a plain word n,    *)
(* "$n" (k = "var"), "n=v" (k = "assign") or "|" (k = "pipe").  Lines come *)
(* from a set that is fixed for a session.                                 *)
(*                                                                         *)
(* A command outside a pipeline runs while the shell waits for it, so it   *)
(* is part of the step that reads the line.  The stages of a pipeline run  *)
(* concurrently with each other and with the shell that starts them: stage *)
(* 1 produces Items items, the others pass on what they read, and the last *)
(* one prints it.                                                          *)
(***************************************************************************)
EXTENDS Integers, Sequences, FiniteSets, SequencesExt

CONSTANTS Sessions,       \* sets of lines; a session uses one of them
          Names,          \* names of variables
          Installed,      \* programs that execvp finds
          MAX_VARIABLES,  \* entries of shell_variables
          DefaultHistory, \* argument of initHistoryList
          MaxHistory,     \* bound: capacity of the node pool
          Items,          \* items that the first stage of a pipeline writes
          PipeSize,       \* items that a pipe holds
          MaxStages,      \* bound: stages of a pipeline
          MaxLines        \* bound: lines of a session

VARIABLES lines,     \* the lines of this session
          nread,     \* lines read so far
          mode,      \* "prompt", "pipeline", "exited", "crashed"
          history,   \* the list: [node, head, tail, count, maxCount]
          shell_variables, \* sequence of [name, value]
          environ,   \* [Names -> value], "unset" when there is none
          strays,    \* children that went on as shells of their own
          shell,     \* fork_pipes: [pc, n, i, waited, record, line]
          fd0,       \* what descriptor 0 of the shell is
          stage,     \* [1..n+1 -> [pc, pgid, has, done]]
          rd, wr,    \* pipes of which a process (0: the shell) holds an end
          buf,       \* contents of the pipes
          out,       \* what the last stage printed
          wanted,    \* history: the command history by the instructions
          assigned   \* history: the variables by the instructions

sessionVars == <<lines, nread>>
dataVars == <<history, shell_variables, environ, strays, wanted, assigned>>
pipeVars == <<shell, fd0, stage, rd, wr, buf, out>>
vars == <<sessionVars, mode, dataVars, pipeVars>>

Builtins == {"cd", "export", "local", "vars", "history", "exit"}
Word(n) == [k |-> "word", n |-> n, v |-> ""]
Var(n) == [k |-> "var", n |-> n, v |-> ""]
Assign(n, v) == [k |-> "assign", n |-> n, v |-> v]
Pipe == [k |-> "pipe", n |-> "|", v |-> ""]
Words == [k : {"word", "var", "assign", "pipe"}, n : STRING, v : STRING]

\* A line has a word; Names has the variables it speaks of.  A variable never
\* expands to the name of a builtin.
ASSUME SessionsAssumption ==
    \A s \in Sessions : \A line \in s :
        /\ line \in Seq(Words) /\ line # <<>>
        /\ \A i \in DOMAIN line : line[i].k \in {"var", "assign"} => line[i].n \in Names
ASSUME PlainValues == \A s \in Sessions : \A line \in s : \A i \in DOMAIN line :
                         line[i].k = "assign" => line[i].v \notin Builtins
ASSUME SizesAssumption == /\ IsFiniteSet(Names) /\ MAX_VARIABLES \in Nat
                          /\ Items \in Nat /\ PipeSize \in Nat \ {0}
\* strtol of a word: 0 when it is not a number
strtol(w) == LET num == [s \in {"1", "2", "3"} |->
                           IF s = "1" THEN 1 ELSE IF s = "2" THEN 2 ELSE 3]
             IN  IF w.n \in DOMAIN num THEN num[w.n] ELSE 0

-----------------------------------------------------------------------------
(* The history list: nodes 1..MaxHistory+1, 0 is NULL *)

NodeIds == 1..(MaxHistory + 1)
NoNode == [cmd |-> <<>>, prev |-> 0, next |-> 0]
Live(h) == {d \in NodeIds : h.node[d] # NoNode}

initHistoryList(maxCommands) ==
    [node |-> [d \in NodeIds |-> NoNode], head |-> 0, tail |-> 0,
     count |-> 0, maxCount |-> maxCommands]

\* Drop the head of a list that has one.
DropHead(h) ==
    LET old == h.head
        new == h.node[old].next
        cut == [h EXCEPT !.node[old] = NoNode, !.head = new, !.count = @ - 1]
    IN  IF new = 0 THEN cut ELSE [cut EXCEPT !.node[new].prev = 0]

\* A null dereference in addCommandToHistory: the list would lose its only node.
AddCrashes(h) == h.maxCount < 0

\* Variant: the tail is not compared with the command.
addAlways(h, cmd) ==
    LET new  == CHOOSE d \in NodeIds : d \notin Live(h)
        node == [h.node EXCEPT ![new] = [cmd |-> cmd, prev |-> h.tail, next |-> 0]]
        h1   == [h EXCEPT !.head = IF @ = 0 THEN new ELSE @, !.tail = new, !.count = @ + 1,
                          !.node = IF h.tail = 0 THEN node ELSE [node EXCEPT ![h.tail].next = new]]
    IN  IF h.maxCount = 0 THEN h
        ELSE IF h1.count > h1.maxCount THEN DropHead(h1) ELSE h1

addCommandToHistory(h, cmd) ==
    LET new  == CHOOSE d \in NodeIds : d \notin Live(h)
        node == [h.node EXCEPT ![new] = [cmd |-> cmd, prev |-> h.tail, next |-> 0]]
        h1   == [h EXCEPT !.head = IF @ = 0 THEN new ELSE @, !.tail = new, !.count = @ + 1,
                          !.node = IF h.head = 0 THEN node
                                   ELSE [node EXCEPT ![h.tail].next = new]]
    IN  IF h.maxCount = 0 \/ (h.count # 0 /\ h.node[h.tail].cmd = cmd) THEN h
        ELSE IF h1.count > h1.maxCount THEN DropHead(h1) ELSE h1

\* history set: toRemove is compared with a size_t, so a negative one removes
\* everything.
historySet(h, new_size) ==
    LET toRemove == h.count - new_size
        removed  == IF toRemove < 0 \/ toRemove > h.count THEN h.count ELSE toRemove
        at[i \in Nat] == IF i <= 1 THEN h.head ELSE h.node[at[i - 1]].next
        old  == {at[i] : i \in 1..removed}
        head == at[removed + 1]
        node == [d \in NodeIds |-> IF d \in old THEN NoNode
                                   ELSE IF d = head THEN [h.node[d] EXCEPT !.prev = 0]
                                   ELSE h.node[d]]
    IN  IF new_size >= h.maxCount \/ h.tail = 0 THEN [h EXCEPT !.maxCount = new_size]
        ELSE [h EXCEPT !.node = node, !.head = head, !.count = @ - removed,
                       !.maxCount = new_size, !.tail = IF h.count = removed THEN 0 ELSE @]

\* The node that executeFromHistory reaches from the tail
HistoryNode(h, index) ==
    LET at[i \in Nat] == IF i <= 1 THEN h.tail ELSE h.node[at[i - 1]].prev
    IN  at[index]

\* The list as printHistory shows it: from the tail, the newest first
printHistory(h) ==
    LET at[i \in Nat] == IF i = 1 THEN h.tail
                         ELSE IF at[i - 1] = 0 THEN 0 ELSE h.node[at[i - 1]].prev
        len == CHOOSE l \in 0..(MaxHistory + 1) : at[l + 1] = 0 /\ \A i \in 1..l : at[i] # 0
    IN  [i \in 1..len |-> h.node[at[i]].cmd]

-----------------------------------------------------------------------------
(* Variables and words *)

\* The entries of a name, and the first of them
Entries(sv, name) == {i \in DOMAIN sv : sv[i].name = name}
First(hits) == CHOOSE i \in hits : \A j \in hits : i <= j

\* wsh_local: the old entry is taken out, a value that is not empty goes to the end.
\* Variant: the old entry stays.
localKeepsOld(sv, name, value) ==
    IF value # "" /\ Len(sv) < MAX_VARIABLES
    THEN Append(sv, [name |-> name, value |-> value]) ELSE sv

wsh_local(sv, name, value) ==
    LET hits == Entries(sv, name)
        rest == IF hits = {} THEN sv ELSE RemoveAt(sv, First(hits))
    IN  IF value # "" /\ Len(rest) < MAX_VARIABLES
        THEN Append(rest, [name |-> name, value |-> value]) ELSE rest

\* The value that replaces $name: the environment first, then the shell's variables
ValueOf(name) ==
    LET hits == Entries(shell_variables, name)
    IN  IF environ[name] # "unset" THEN environ[name]
        ELSE IF hits = {} THEN "unset" ELSE shell_variables[First(hits)].value

\* Substitution in wsh_execute; an argument whose variable is not set goes away.
Substituted(line) ==
    LET kept  == {i \in DOMAIN line : line[i].k # "var" \/ ValueOf(line[i].n) # "unset"}
        at(m) == CHOOSE i \in kept : Cardinality({j \in kept : j <= i}) = m
    IN  [m \in 1..Cardinality(kept) |->
            LET w == line[at(m)] IN IF w.k = "var" THEN Word(ValueOf(w.n)) ELSE w]

NumPipes(args) == Cardinality({i \in DOMAIN args : args[i].k = "pipe"})
\* The program of each stage: the word after the beginning or after a pipe
StageProgram(args, j) ==
    LET start == CHOOSE i \in DOMAIN args :
                    /\ i = 1 \/ args[i - 1].k = "pipe"
                    /\ NumPipes(SubSeq(args, 1, i)) = j - 1
    IN  args[start].n

-----------------------------------------------------------------------------
(* What the instructions ask of the history and of the variables *)

NoteCommand(w, cmd) ==
    IF w.max = 0 \/ (w.list # <<>> /\ Head(w.list) = cmd) THEN w
    ELSE LET l == <<cmd>> \o w.list
         IN  [w EXCEPT !.list = SubSeq(l, 1, IF Len(l) <= w.max THEN Len(l) ELSE w.max)]
NoteSize(w, new) ==
    [max |-> new, list |-> SubSeq(w.list, 1, IF Len(w.list) <= new THEN Len(w.list) ELSE new)]

-----------------------------------------------------------------------------
Idle == [pc |-> "idle", n |-> 0, i |-> 0, waited |-> 0, record |-> FALSE, line |-> <<>>, prog |-> <<>>]

Init ==
    /\ lines \in Sessions /\ nread = 0
    /\ mode = "prompt"
    /\ history = initHistoryList(DefaultHistory)
    /\ shell_variables = <<>>
    /\ environ = [x \in Names |-> "unset"]
    /\ strays = 0
    /\ shell = Idle /\ fd0 = "input"
    /\ stage = <<>> /\ rd = <<>> /\ wr = <<>> /\ buf = <<>> /\ out = <<>>
    /\ wanted = [list |-> <<>>, max |-> DefaultHistory]
    /\ assigned = [local |-> [x \in Names |-> ""], env |-> [x \in Names |-> "unset"]]

\* After a command: wsh_loop records the line unless it was a builtin.
Record(line, args) ==
    IF Head(args).n \in Builtins THEN UNCHANGED <<history, wanted, mode>>
    ELSE /\ history' = IF AddCrashes(history) THEN history
                       ELSE addCommandToHistory(history, line)
         /\ mode' = IF AddCrashes(history) THEN "crashed" ELSE mode
         /\ wanted' = NoteCommand(wanted, line)

\* fork_pipes begins: no stage, no pipe
StartPipeline(line, args, record) ==
    LET n == NumPipes(args)
    IN  /\ mode' = "pipeline"
        /\ shell' = [pc |-> "spawn", n |-> n, i |-> 1, waited |-> 0, record |-> record,
                     line |-> line, prog |-> [j \in 1..(n + 1) |-> StageProgram(args, j)]]
        /\ stage' = [j \in 1..(n + 1) |-> [pc |-> "none", pgid |-> 0, has |-> 0, done |-> 0]]
        /\ rd' = [p \in 0..(n + 1) |-> {}]
        /\ wr' = [p \in 0..(n + 1) |-> {}]
        /\ buf' = [q \in 1..n |-> <<>>]
        /\ out' = <<>>
        /\ UNCHANGED fd0

\* wsh_launch by the loop: the child that execvp fails in returns to the loop,
\* which ends it.  The status 2560 is the exit code 10.
Launch(line, args) ==
    \E code \in IF Head(args).n \in Installed THEN {0, 10} ELSE {1} :
        IF code = 10 THEN UNCHANGED <<history, wanted, mode>> ELSE Record(line, args)

\* A line that is not a builtin, from the loop
Run(line, args) ==
    /\ UNCHANGED <<shell_variables, environ, strays, assigned>>
    /\ \/ /\ NumPipes(args) > 0
          /\ StartPipeline(line, args, TRUE)
          /\ UNCHANGED <<history, wanted>>
       \/ /\ NumPipes(args) = 0
          /\ Launch(line, args)
          /\ UNCHANGED pipeVars

\* history n: strtok cuts the stored command after its first word.  A child
\* in which execvp fails gets back to the loop and goes on reading lines.
executeFromHistory(index) ==
    LET d == HistoryNode(history, index)
        cmd == history.node[d].cmd
        args == Substituted(cmd)
    IN  /\ UNCHANGED <<shell_variables, environ, assigned, wanted>>
        /\ IF index > history.count
           THEN UNCHANGED <<history, mode, strays, pipeVars>>
           ELSE IF d \notin Live(history)
           THEN mode' = "crashed" /\ UNCHANGED <<history, strays, pipeVars>>
           ELSE /\ history' = [history EXCEPT !.node[d].cmd = SubSeq(cmd, 1, 1)]
                /\ IF args = <<>>
                   THEN UNCHANGED <<mode, strays, pipeVars>>
                   ELSE IF NumPipes(args) > 0
                   THEN StartPipeline(cmd, args, FALSE) /\ UNCHANGED strays
                   ELSE /\ strays' = strays + IF Head(args).n \in Installed THEN 0 ELSE 1
                        /\ UNCHANGED <<mode, pipeVars>>

Builtin(args) ==
    LET arg == IF Len(args) > 1 THEN args[2] ELSE Word("")
        b == Head(args).n
    IN  \/ /\ b = "local" /\ arg.k = "assign"
          /\ shell_variables' = wsh_local(shell_variables, arg.n, arg.v)
          /\ assigned' = [assigned EXCEPT !.local[arg.n] = arg.v]
          /\ UNCHANGED <<mode, history, environ, strays, wanted, pipeVars>>
       \/ /\ b = "export" /\ Len(args) > 1
          /\ environ' = [environ EXCEPT ![arg.n] = arg.v]
          /\ assigned' = [assigned EXCEPT !.env[arg.n] = arg.v]
          /\ UNCHANGED <<mode, history, shell_variables, strays, wanted, pipeVars>>
       \/ /\ b = "history" /\ arg.n = "set"
          /\ history' = historySet(history, strtol(args[3]))
          /\ wanted' = NoteSize(wanted, strtol(args[3]))
          /\ UNCHANGED <<mode, shell_variables, environ, strays, assigned, pipeVars>>
       \/ /\ b = "history" /\ arg.n \notin {"set", ""}
          /\ executeFromHistory(strtol(arg))
       \/ /\ \/ b \in {"cd", "vars"} \/ (b = "history" /\ arg.n = "")
             \/ b = "local" /\ arg.k # "assign"
             \/ b = "export" /\ Len(args) = 1
          /\ UNCHANGED <<mode, dataVars, pipeVars>>

\* One turn of wsh_loop
ReadLine ==
    /\ mode = "prompt" /\ nread < MaxLines
    /\ nread' = nread + 1
    /\ UNCHANGED lines
    /\ \E line \in lines :
        LET args == Substituted(line)
        IN  \/ /\ Head(line).n = "exit" /\ mode' = "exited"
              /\ UNCHANGED <<dataVars, pipeVars>>
           \/ /\ Head(line).n # "exit" /\ args = <<>>
              /\ UNCHANGED <<mode, dataVars, pipeVars>>
           \/ /\ Head(line).n # "exit" /\ args # <<>>
              /\ IF NumPipes(args) = 0 /\ Head(args).n \in Builtins
                 THEN Builtin(args) ELSE Run(line, args)

\* The input ends.
EndOfInput ==
    /\ mode = "prompt" /\ mode' = "exited"
    /\ UNCHANGED <<sessionVars, dataVars, pipeVars>>

-----------------------------------------------------------------------------
(* fork_pipes, step by step *)

pipeDataSame == UNCHANGED <<sessionVars, dataVars>>

\* pipe and fork of stage i: the child has every descriptor of the shell.
Spawn ==
    /\ shell.pc = "spawn" /\ shell.i <= shell.n
    /\ LET i == shell.i
       IN  /\ rd' = [rd EXCEPT ![0] = @ \cup {i}, ![i] = rd[0] \cup {i}]
           /\ wr' = [wr EXCEPT ![0] = {i}, ![i] = {i}]
           /\ stage' = [stage EXCEPT ![i].pc = "forked"]
    /\ shell' = [shell EXCEPT !.pc = "close"]
    /\ UNCHANGED <<mode, fd0, buf, out>> /\ pipeDataSame

\* close(fd[1]); the read end stays open for the next stage, and after it.
\* Variant: the write end stays open.
CloseNothing ==
    /\ shell.pc = "close"
    /\ shell' = [shell EXCEPT !.pc = "spawn", !.i = @ + 1]
    /\ UNCHANGED <<mode, fd0, stage, rd, wr, buf, out>> /\ pipeDataSame

CloseWriteEnd ==
    /\ shell.pc = "close"
    /\ wr' = [wr EXCEPT ![0] = {}]
    /\ shell' = [shell EXCEPT !.pc = "spawn", !.i = @ + 1]
    /\ UNCHANGED <<mode, fd0, stage, rd, buf, out>> /\ pipeDataSame

\* The last stage inherits the shell's own descriptor 0, turned to the pipe.
SpawnLast ==
    /\ shell.pc = "spawn" /\ shell.i = shell.n + 1
    /\ fd0' = "pipe"
    /\ rd' = [rd EXCEPT ![shell.n + 1] = rd[0]]
    /\ stage' = [stage EXCEPT ![shell.n + 1].pc = "forked"]
    /\ shell' = [shell EXCEPT !.pc = "waitlast"]
    /\ UNCHANGED <<mode, wr, buf, out>> /\ pipeDataSame

WaitLast ==
    /\ shell.pc = "waitlast" /\ stage[shell.n + 1].pc = "zombie"
    /\ stage' = [stage EXCEPT ![shell.n + 1].pc = "reaped"]
    /\ shell' = [shell EXCEPT !.pc = "waitrest"]
    /\ UNCHANGED <<mode, fd0, rd, wr, buf, out>> /\ pipeDataSame

WaitAny ==
    /\ shell.pc = "waitrest" /\ shell.waited < shell.n
    /\ \E j \in DOMAIN stage :
        /\ stage[j].pc = "zombie"
        /\ stage' = [stage EXCEPT ![j].pc = "reaped"]
    /\ shell' = [shell EXCEPT !.waited = @ + 1]
    /\ UNCHANGED <<mode, fd0, rd, wr, buf, out>> /\ pipeDataSame

\* Descriptor 0 gets its old meaning back; the loop records the line.
\* Variant: it does not.
LeaveStdin ==
    /\ shell.pc = "waitrest" /\ shell.waited = shell.n
    /\ shell' = [shell EXCEPT !.pc = "idle"]
    /\ mode' = "prompt"
    /\ UNCHANGED <<sessionVars, dataVars, fd0, stage, rd, wr, buf, out>>

RestoreStdin ==
    /\ shell.pc = "waitrest" /\ shell.waited = shell.n
    /\ fd0' = "input"
    /\ shell' = [shell EXCEPT !.pc = "idle"]
    /\ IF shell.record /\ shell.prog[1] \notin Builtins
       THEN /\ mode' = IF AddCrashes(history) THEN "crashed" ELSE "prompt"
            /\ history' = IF AddCrashes(history) THEN history
                          ELSE addCommandToHistory(history, shell.line)
            /\ wanted' = NoteCommand(wanted, shell.line)
       ELSE mode' = "prompt" /\ UNCHANGED <<history, wanted>>
    /\ UNCHANGED <<sessionVars, shell_variables, environ, strays, assigned,
                   stage, rd, wr, buf, out>>

ShellStep == Spawn \/ CloseWriteEnd \/ SpawnLast \/ WaitLast \/ WaitAny \/ RestoreStdin

Ended(j) == [stage EXCEPT ![j].pc = "zombie"]
NoEnds(f, j) == [f EXCEPT ![j] = {}]

\* The child before execvp: setpgid fails, silently, when the group of the
\* first stage does not exist yet.  Without the program the child ends, unless
\* the line came from "history n".
StageStart(j) ==
    LET group == IF j = 1 THEN 1
                 ELSE IF \E h \in DOMAIN stage : stage[h].pgid = 1 /\ stage[h].pc # "reaped"
                 THEN 1 ELSE 0
        found == shell.prog[j] \in Installed
        stray == ~found /\ ~shell.record
    IN  /\ stage[j].pc = "forked"
        /\ stage' = [stage EXCEPT ![j].pgid = group,
                                  ![j].pc = IF found THEN "running"
                                            ELSE IF stray THEN "stray" ELSE "zombie"]
        /\ strays' = strays + IF stray THEN 1 ELSE 0
        /\ rd' = IF found \/ stray THEN rd ELSE NoEnds(rd, j)
        /\ wr' = IF found \/ stray THEN wr ELSE NoEnds(wr, j)
        /\ UNCHANGED <<sessionVars, mode, history, shell_variables, environ, wanted,
                       assigned, shell, fd0, buf, out>>

Holders(f, q) == {p \in DOMAIN f : q \in f[p]}

\* A stage takes an item: the first makes it, the others read it.
StageRead(j) ==
    /\ stage[j].pc = "running" /\ stage[j].has = 0
    /\ IF j = 1
       THEN LET e == stage[1]
            IN  /\ e.done < Items
                /\ stage' = [stage EXCEPT ![1] = [e EXCEPT !.has = e.done + 1, !.done = e.done + 1]]
                /\ UNCHANGED buf
       ELSE /\ buf[j - 1] # <<>>
            /\ stage' = [stage EXCEPT ![j].has = Head(buf[j - 1])]
            /\ buf' = [buf EXCEPT ![j - 1] = Tail(@)]
    /\ UNCHANGED <<mode, shell, fd0, rd, wr, out>> /\ pipeDataSame

\* ... and hands it on.  The shell keeps every read end, so a writer is never
\* killed for want of a reader: it waits while the pipe is full.
StageWrite(j) ==
    /\ stage[j].pc = "running" /\ stage[j].has # 0
    /\ \/ /\ j = shell.n + 1
          /\ out' = Append(out, stage[j].has)
          /\ stage' = [stage EXCEPT ![j].has = 0]
          /\ UNCHANGED <<rd, wr, buf>>
       \/ /\ j <= shell.n /\ Len(buf[j]) < PipeSize
          /\ buf' = [buf EXCEPT ![j] = Append(@, stage[j].has)]
          /\ stage' = [stage EXCEPT ![j].has = 0]
          /\ UNCHANGED <<rd, wr, out>>
    /\ UNCHANGED <<mode, shell, fd0>> /\ pipeDataSame

\* The end of the input: all items made, or an empty pipe without writers
StageEnd(j) ==
    /\ stage[j].pc = "running" /\ stage[j].has = 0
    /\ IF j = 1 THEN stage[1].done = Items
       ELSE buf[j - 1] = <<>> /\ Holders(wr, j - 1) = {}
    /\ stage' = Ended(j) /\ rd' = NoEnds(rd, j) /\ wr' = NoEnds(wr, j)
    /\ UNCHANGED <<mode, shell, fd0, buf, out>> /\ pipeDataSame

StageStep(j) == StageStart(j) \/ StageRead(j) \/ StageWrite(j) \/ StageEnd(j)

Next == \/ ReadLine \/ EndOfInput
        \/ mode = "pipeline" /\ (ShellStep \/ \E j \in DOMAIN stage : StageStep(j))

Fairness == /\ WF_vars(mode = "pipeline" /\ ShellStep)
            /\ \A j \in 1..MaxStages :
                 WF_vars(mode = "pipeline" /\ j \in DOMAIN stage /\ StageStep(j))
Spec == Init /\ [][Next]_vars /\ Fairness

-----------------------------------------------------------------------------
(* Properties *)

\* Type invariant of the shell's state.
TypeOK ==
    /\ mode \in {"prompt", "pipeline", "exited", "crashed"}
    /\ nread \in 0..MaxLines /\ strays \in 0..MaxLines
    /\ history.count \in 0..history.maxCount /\ history.maxCount \in 0..MaxHistory
    /\ history.head \in NodeIds \cup {0} /\ history.tail \in NodeIds \cup {0}
    /\ shell_variables \in Seq([name : Names, value : STRING])
    /\ DOMAIN environ = Names
    /\ fd0 \in {"input", "pipe"}
    /\ \A j \in DOMAIN stage :
        /\ stage[j].pc \in {"none", "forked", "running", "stray", "zombie", "reaped"}
        /\ stage[j].pgid \in {0, 1} /\ stage[j].has \in 0..Items

\* The linked list always shows what the instructions ask of the history: the
\* last maxCount commands that were not builtins, without immediate repeats
\* and without programs that exited with code 10, the newest first,
\* however adds, "history set" and pipelines follow each other; and its links
\* agree in both directions, so that every node is reached and freed once.
HistoryMatches ==
    /\ printHistory(history) = wanted.list
    /\ history.maxCount = wanted.max /\ history.count = Cardinality(Live(history))
    /\ history.count = Len(wanted.list)
    /\ \A d \in Live(history) :
        /\ history.node[d].next = 0 <=> d = history.tail
        /\ history.node[d].prev = 0 <=> d = history.head
        /\ d # history.tail => history.node[history.node[d].next].prev = d

\* After any sequence of assignments, clearings and updates that shift the
\* array, each variable of wsh_local has one entry with the last value given to
\* it; the environment has what wsh_export gave it, also for the children.
VarsMatch ==
    /\ \A x \in Names :
        LET hits == {i \in DOMAIN shell_variables : shell_variables[i].name = x}
        IN  IF assigned.local[x] = "" THEN hits = {}
            ELSE /\ Cardinality(hits) = 1
                 /\ \A i \in hits : shell_variables[i].value = assigned.local[x]
    /\ environ = assigned.env

\* The shell reads its next line only when descriptor 0 is its input again, no
\* stage of the pipeline before is left, running or as a zombie (the wait for
\* any child never took the place of the wait for a stage), and a pipeline of
\* programs that exist has printed all that its first stage wrote, in order.
PromptIsClean ==
    mode = "prompt" =>
        /\ fd0 = "input" /\ strays = 0
        /\ \A j \in DOMAIN stage : stage[j].pc = "reaped"
        /\ (stage # <<>> /\ \A j \in DOMAIN stage : shell.prog[j] \in Installed)
               => out = [k \in 1..Items |-> k]

\* Every pipeline ends and the shell gets back to its loop: each reader sees the
\* end of its input, since no process keeps a write end open.
PipelineEnds == (mode = "pipeline") ~> (mode # "pipeline")

\* Between two lines the shell is in a clean state.
PromptSafe == TypeOK /\ PromptIsClean
=============================================================================
