--------------------------- MODULE StateFilesProofs ---------------------------
(***************************************************************************)
(* Theorems about StateFiles, for any number of processes, operations and  *)
(* faults.                                                                 *)
(***************************************************************************)
EXTENDS StateFiles, TLAPS

-----------------------------------------------------------------------------
(* What the operators of the model return *)

\* There is a first file still to be written, and it is one of them.
LEMMA NextFileIsPlanned ==
  ASSUME NEW p \in Procs, todo[p] \in SUBSET StateFileSet, todo[p] # {}
  PROVE  NextFile(p) \in todo[p]
<1> DEFINE First(i) == /\ StateFileNames[i] \in todo[p]
                       /\ \A k \in 1 .. i - 1 : StateFileNames[k] \notin todo[p]
<1>1. DOMAIN StateFileNames = 1 .. 5
  BY DEF StateFileNames
<1>2. PICK j \in 1 .. 5 : StateFileNames[j] \in todo[p]
  BY <1>1 DEF StateFileSet
<1>3. \E i \in 1 .. 5 : First(i)
  <2>1. CASE First(1)
    BY <2>1
  <2>2. CASE ~First(1) /\ First(2)
    BY <2>2
  <2>3. CASE ~First(1) /\ ~First(2) /\ First(3)
    BY <2>3
  <2>4. CASE ~First(1) /\ ~First(2) /\ ~First(3) /\ First(4)
    BY <2>4
  <2>5. CASE ~First(1) /\ ~First(2) /\ ~First(3) /\ ~First(4)
    <3>1. \A k \in 1 .. 4 : StateFileNames[k] \notin todo[p]
      BY <2>5
    <3>2. j = 5
      BY <1>2, <3>1
    <3> QED
      BY <1>2, <3>1, <3>2
  <2> QED
    BY <2>1, <2>2, <2>3, <2>4, <2>5
<1>4. NextFile(p) = StateFileNames[CHOOSE i \in 1 .. 5 : First(i)]
  BY <1>1 DEF NextFile
<1> HIDE DEF First
<1>5. First(CHOOSE i \in 1 .. 5 : First(i))
  BY <1>3
<1> QED
  BY <1>4, <1>5 DEF First

\* A change of status leaves the rest of the operations alone.
LEMMA StatusOnly ==
  ASSUME ops \in Seq(Operation), NEW n \in DOMAIN ops, NEW s \in {"completed", "failed"}
  PROVE  LET u == [ops EXCEPT ![n].status = s]
         IN  /\ u \in Seq(Operation)
             /\ Len(u) = Len(ops)
             /\ DOMAIN u = DOMAIN ops
             /\ u[n].status = s
             /\ \A k \in DOMAIN ops : k # n => u[k] = ops[k]
<1> DEFINE r == [ops[n] EXCEPT !.status = s]
<1>1. ops[n] \in Operation
  OBVIOUS
<1>2. r \in Operation /\ r.status = s
  BY <1>1 DEF Operation
<1>3. [ops EXCEPT ![n].status = s] = [ops EXCEPT ![n] = r]
  OBVIOUS
<1> HIDE DEF r
<1> QED
  BY <1>2, <1>3

\* The log stays a sequence of lines.
LEMMA WrittenType ==
  ASSUME log \in Seq(Line), NEW reach \in {"fragment", "event", "line"}, NEW n \in Nat
  PROVE  Written(reach, n) \in Seq(Line)
<1>0. log # <<>> => Len(log) \in DOMAIN log /\ log[Len(log)] \in Line
  OBVIOUS
<1>1. NextSequence \in Nat
  BY <1>0 DEF NextSequence, Line
<1> DEFINE line == [text |-> IF reach = "fragment" THEN "fragment" ELSE "event",
                    sequence |-> NextSequence, op |-> n, ended |-> reach = "line"]
           joined == [text |-> "junk", sequence |-> log[Len(log)].sequence,
                      op |-> log[Len(log)].op, ended |-> line.ended]
<1>2. line \in Line
  BY <1>1 DEF Line
<1>3. CASE log # <<>> /\ ~log[Len(log)].ended
  <2>1. Len(log) \in DOMAIN log /\ log[Len(log)] \in Line
    BY <1>0, <1>3
  <2>2. joined \in Line
    BY <1>2, <2>1 DEF Line
  <2>3. Written(reach, n) = [log EXCEPT ![Len(log)] = joined]
    BY <1>3 DEF Written
  <2> HIDE DEF joined
  <2> QED
    BY <2>1, <2>2, <2>3
<1>4. CASE ~(log # <<>> /\ ~log[Len(log)].ended)
  <2>1. Written(reach, n) = Append(log, line)
    BY <1>4 DEF Written
  <2> HIDE DEF line
  <2> QED
    BY <1>2, <2>1
<1> QED
  BY <1>3, <1>4

-----------------------------------------------------------------------------
(* Types, and who is inside the lock *)

Inside == {"replan", "begin", "create", "write-page-registry", "append-change-log",
           "complete", "return", "abort"}
Begun == {"create", "write-page-registry", "append-change-log", "complete"}

\* A process is inside a command exactly while it holds the lock.
HolderInv == \A p \in Procs : pc[p] \in Inside <=> lock = p

\* What a command that was begun has: its operation, and a file of the plan.
BegunInv ==
  \A p \in Procs :
    /\ cur[p] \in 0 .. Len(ops)
    /\ pc[p] \in Begun => cur[p] # 0
    /\ checked[p] => pc[p] = "create" /\ todo[p] # {} /\ NextFile(p) \notin present

TypeInv == TypeOK /\ HolderInv /\ BegunInv

LEMMA TypeInit == Init => TypeInv
BY NamesAssumption
DEF Init, TypeInv, TypeOK, HolderInv, BegunInv, Inside, Begun, Kinds, StateFileSet, StateFileNames

\* No step of one process moves another that is inside the lock.
OthersOutside(p) == \A q \in Procs : q # p => pc[q] \notin Inside /\ ~checked[q]

LEMMA HolderIsAlone ==
  ASSUME TypeInv, NEW p \in Procs, pc[p] \in Inside
  PROVE  lock = p /\ OthersOutside(p)
BY DEF TypeInv, HolderInv, BegunInv, OthersOutside, Inside

\* NextFile depends only on the plan of its process.
LEMMA SameNextFile ==
  ASSUME NEW p \in Procs, todo'[p] = todo[p]
  PROVE  NextFile(p)' = NextFile(p)
BY DEF NextFile

\* Abandon, whoever calls it from inside the lock.
LEMMA AbandonType ==
  ASSUME TypeInv, NEW p \in Procs, pc[p] \in Inside, Abandon(p),
         present' \in SUBSET StateFileSet, registry' = registry, log' \in Seq(Line), faults' \in Nat
  PROVE  TypeInv' /\ Len(ops') = Len(ops)
<1>1. ops' \in Seq(Operation) /\ Len(ops') = Len(ops)
  <2>1. CASE ops' = ops
    BY <2>1 DEF TypeInv, TypeOK
  <2>2. CASE cur[p] # 0 /\ ops' = [ops EXCEPT ![cur[p]].status = "failed"]
    <3>1. cur[p] \in DOMAIN ops /\ ops \in Seq(Operation)
      BY <2>2 DEF TypeInv, TypeOK, BegunInv
    <3> QED
      BY <2>2, <3>1, StatusOnly
  <2> QED
    BY <2>1, <2>2 DEF Abandon
<1>2. lock = p /\ OthersOutside(p)
  BY HolderIsAlone
<1>3. TypeOK'
  BY <1>1 DEF Abandon, TypeInv, TypeOK
<1>4. HolderInv'
  BY <1>2 DEF Abandon, TypeInv, TypeOK, HolderInv, OthersOutside, Inside
<1>5. BegunInv'
  BY <1>1, <1>2 DEF Abandon, TypeInv, TypeOK, BegunInv, OthersOutside, Begun, Inside
<1> QED
  BY <1>1, <1>3, <1>4, <1>5 DEF TypeInv

\* A process that dies inside the lock leaves it behind.
LEMMA DeathType ==
  ASSUME TypeInv, NEW p \in Procs, lock = p, lock' = "orphan",
         pc' = [pc EXCEPT ![p] = "idle"], cur' = [cur EXCEPT ![p] = 0],
         todo' = [todo EXCEPT ![p] = {}], checked' = [checked EXCEPT ![p] = FALSE],
         UNCHANGED <<kind, read, registry, ops>>,
         present' \in SUBSET StateFileSet, log' \in Seq(Line), faults' \in Nat
  PROVE  TypeInv'
<1>1. pc[p] \in Inside /\ OthersOutside(p)
  BY HolderIsAlone DEF TypeInv, HolderInv
<1>2. TypeOK'
  BY DEF TypeInv, TypeOK
<1>3. HolderInv'
  BY <1>1, NamesAssumption DEF TypeInv, TypeOK, HolderInv, OthersOutside, Inside
<1>4. BegunInv'
  BY <1>1 DEF TypeInv, TypeOK, BegunInv, OthersOutside, Begun, Inside
<1> QED
  BY <1>2, <1>3, <1>4 DEF TypeInv

LEMMA TypeNext == TypeInv /\ [Next]_vars => TypeInv'
<1> SUFFICES ASSUME TypeInv, [Next]_vars PROVE TypeInv'
  OBVIOUS
<1> USE NamesAssumption
<1>1. CASE UNCHANGED vars
  BY <1>1, SameNextFile
  DEF vars, TypeInv, TypeOK, HolderInv, BegunInv, Inside, Begun
<1>2. ASSUME NEW p \in Procs, NEW k \in Kinds, Start(p, k) PROVE TypeInv'
  BY <1>2, SameNextFile
  DEF Start, fileVars, TypeInv, TypeOK, HolderInv, BegunInv, Inside, Begun
<1>3. ASSUME NEW p \in Procs, Acquire(p) \/ Timeout(p) PROVE TypeInv'
  <2>1. \A q \in Procs : NextFile(q)' = NextFile(q)
    BY <1>3, SameNextFile DEF Acquire, Timeout, procVars
  <2>2. TypeOK' /\ BegunInv'
    BY <1>3, <2>1 DEF Acquire, Timeout, procVars, fileVars, TypeInv, TypeOK, BegunInv, Begun
  <2>3. HolderInv'
    BY <1>3 DEF Acquire, Timeout, TypeInv, TypeOK, HolderInv, Inside
  <2> QED
    BY <2>2, <2>3 DEF TypeInv
<1>4. ASSUME NEW p \in Procs, pc[p] \in Inside,
             Release(p) \/ Replan(p) \/ CreateOperations(p) \/ Begin(p) \/ CheckAbsent(p) \/ Create(p)
             \/ Created(p) \/ WritePageRegistry(p) \/ AppendChangeLog(p) \/ Complete(p)
      PROVE  TypeInv'
  <2>1. lock = p /\ OthersOutside(p)
    BY <1>4, HolderIsAlone
  <2>2. /\ Len(ops') >= Len(ops) /\ ops' \in Seq(Operation)
        /\ log' \in Seq(Line)
        /\ cur' \in [Procs -> Nat] /\ cur'[p] \in 0 .. Len(ops')
    <3>1. CASE Begin(p)
      BY <1>4, <3>1 DEF Begin, TypeInv, TypeOK, BegunInv, Operation
    <3>2. CASE AppendChangeLog(p)
      <4>1. Written("line", cur[p]) \in Seq(Line)
        BY WrittenType DEF TypeInv, TypeOK
      <4> QED
        BY <3>2, <4>1 DEF AppendChangeLog, procVars, TypeInv, TypeOK, BegunInv
    <3>3. CASE Complete(p)
      <4>1. cur[p] \in DOMAIN ops /\ ops \in Seq(Operation)
        BY <3>3 DEF Complete, TypeInv, TypeOK, BegunInv, Begun
      <4>2. ops' \in Seq(Operation) /\ Len(ops') = Len(ops)
        BY <3>3, <4>1, StatusOnly DEF Complete
      <4> QED
        BY <3>3, <4>2 DEF Complete, procVars, TypeInv, TypeOK, BegunInv
    <3>4. CASE ~Begin(p) /\ ~AppendChangeLog(p) /\ ~Complete(p)
      <4>1. ops' = ops /\ (log' = log \/ log' = <<>>)
        BY <1>4, <3>4
        DEF Release, Replan, CreateOperations, CheckAbsent, Create, Created, WritePageRegistry, fileVars
      <4>2. cur' = cur \/ cur' = [cur EXCEPT ![p] = 0]
        BY <1>4, <3>4
        DEF Release, Replan, CreateOperations, CheckAbsent, Create, Created, WritePageRegistry, procVars
      <4>3. Len(ops) \in Nat /\ cur \in [Procs -> Nat] /\ cur[p] \in 0 .. Len(ops)
        BY DEF TypeInv, TypeOK, BegunInv
      <4>4. cur' \in [Procs -> Nat] /\ cur'[p] \in {cur[p], 0}
        BY <4>2, <4>3
      <4>5. log \in Seq(Line) /\ <<>> \in Seq(Line) /\ ops \in Seq(Operation)
        BY DEF TypeInv, TypeOK
      <4>6. log' \in Seq(Line) /\ ops' \in Seq(Operation) /\ Len(ops') = Len(ops)
        BY <4>1, <4>5
      <4> QED
        BY <4>3, <4>4, <4>6
    <3> QED
      BY <3>1, <3>2, <3>3, <3>4
  <2>3. Create(p) => NextFile(p) \in StateFileSet
    BY NextFileIsPlanned DEF Create, TypeInv, TypeOK, BegunInv
  <2>4. CreateOperations(p) \/ Begin(p) => "operations.json" \in StateFileSet
    BY DEF StateFileSet, StateFileNames
  <2>5. AppendChangeLog(p) => "change-log.jsonl" \in StateFileSet
    BY DEF StateFileSet, StateFileNames
  <2>6. /\ present' \in SUBSET StateFileSet
        /\ todo' \in [Procs -> SUBSET StateFileSet]
    <3>1. \/ present' = present
          \/ \E f \in StateFileSet : present' = present \cup {f}
      BY <1>4, <2>3, <2>4, <2>5
      DEF Release, Replan, CreateOperations, Begin, CheckAbsent, Create, Created, WritePageRegistry,
          AppendChangeLog, Complete, procVars, fileVars
    <3>2. \/ todo' = todo
          \/ \E S : todo' = [todo EXCEPT ![p] = todo[p] \ S]
          \/ todo' = [todo EXCEPT ![p] = {}]
          \/ todo' = [todo EXCEPT ![p] = Missing]
      BY <1>4
      DEF Release, Replan, CreateOperations, Begin, CheckAbsent, Create, Created, WritePageRegistry,
          AppendChangeLog, Complete, procVars
    <3>3. todo \in [Procs -> SUBSET StateFileSet] /\ Missing \in SUBSET StateFileSet
      BY DEF TypeInv, TypeOK, Missing
    <3>4. present' \in SUBSET StateFileSet
      BY <3>1 DEF TypeInv, TypeOK
    <3>5. \E T \in SUBSET StateFileSet : todo' = todo \/ todo' = [todo EXCEPT ![p] = T]
      <4>1. \A S : todo[p] \ S \in SUBSET StateFileSet
        BY <3>3
      <4> QED
        BY <3>2, <3>3, <4>1
    <3> QED
      BY <3>3, <3>4, <3>5
  <2>7. /\ lock' \in Procs \cup {"free", "orphan"}
        /\ kind' = kind /\ faults' = faults
        /\ pc' \in [Procs -> {"idle", "waiting", "replan", "begin", "create", "write-page-registry",
                              "append-change-log", "complete", "return", "abort"}]
    BY <1>4
    DEF Release, Replan, CreateOperations, Begin, CheckAbsent, Create, Created, WritePageRegistry,
        AppendChangeLog, Complete, procVars, fileVars, Kinds, TypeInv, TypeOK
  <2>8. /\ read' \in [Procs -> SUBSET Nat] /\ registry' \in SUBSET Nat
        /\ checked' \in [Procs -> BOOLEAN]
    <3>1. read' = read \/ read' = [read EXCEPT ![p] = registry]
      BY <1>4
      DEF Release, Replan, CreateOperations, Begin, CheckAbsent, Create, Created, WritePageRegistry,
          AppendChangeLog, Complete, procVars
    <3>2. registry' \in {registry, {}, read[p] \cup {cur[p]}}
      BY <1>4
      DEF Release, Replan, CreateOperations, Begin, CheckAbsent, Create, Created, WritePageRegistry,
          AppendChangeLog, Complete, fileVars
    <3>3. checked' \in {checked, [checked EXCEPT ![p] = TRUE], [checked EXCEPT ![p] = FALSE]}
      BY <1>4
      DEF Release, Replan, CreateOperations, Begin, CheckAbsent, Create, Created, WritePageRegistry,
          AppendChangeLog, Complete, procVars
    <3>4. registry' \in SUBSET Nat
      <4>1. registry \in SUBSET Nat /\ read[p] \in SUBSET Nat /\ cur[p] \in Nat
        BY DEF TypeInv, TypeOK
      <4> QED
        BY <3>2, <4>1
    <3>5. read' \in [Procs -> SUBSET Nat]
      BY <3>1 DEF TypeInv, TypeOK
    <3>6. checked' \in [Procs -> BOOLEAN]
      BY <3>3 DEF TypeInv, TypeOK
    <3> QED
      BY <3>4, <3>5, <3>6
  <2>9. TypeOK'
    BY <2>2, <2>6, <2>7, <2>8 DEF TypeInv, TypeOK
  <2>10. HolderInv'
    BY <1>4, <2>1
    DEF Release, Replan, CreateOperations, Begin, CheckAbsent, Create, Created, WritePageRegistry,
        AppendChangeLog, Complete, procVars, fileVars, Kinds, OthersOutside, TypeInv, TypeOK,
        HolderInv, Inside
  <2>11. BegunInv'
    <3>1. \A q \in Procs \ {p} : cur'[q] = cur[q] /\ pc'[q] = pc[q] /\ checked'[q] = checked[q]
      BY <1>4
      DEF Release, Replan, CreateOperations, Begin, CheckAbsent, Create, Created, WritePageRegistry,
          AppendChangeLog, Complete, procVars, fileVars, TypeInv, TypeOK
    <3>2. pc'[p] \in Begun => cur'[p] # 0
      BY <1>4
      DEF Release, Replan, CreateOperations, Begin, CheckAbsent, Create, Created, WritePageRegistry,
          AppendChangeLog, Complete, procVars, TypeInv, TypeOK, BegunInv, Begun
    <3>3. checked'[p] => pc'[p] = "create" /\ todo'[p] # {} /\ NextFile(p)' \notin present'
      <4>1. CASE CheckAbsent(p)
        BY <4>1, SameNextFile DEF CheckAbsent, fileVars, TypeInv, TypeOK
      <4>2. CASE ~CheckAbsent(p)
        BY <1>4, <4>2
        DEF Release, Replan, CreateOperations, Begin, Create, Created, WritePageRegistry,
            AppendChangeLog, Complete, procVars, TypeInv, TypeOK, BegunInv
      <4> QED
        BY <4>1, <4>2
    <3>4. ASSUME NEW q \in Procs PROVE cur'[q] \in 0 .. Len(ops')
      <4>1. Len(ops) \in Nat /\ Len(ops') \in Nat
        BY <2>2 DEF TypeInv, TypeOK
      <4>2. q # p => cur'[q] \in 0 .. Len(ops)
        BY <3>1 DEF TypeInv, BegunInv
      <4> QED
        BY <2>2, <4>1, <4>2
    <3> QED
      BY <2>1, <3>1, <3>2, <3>3, <3>4 DEF BegunInv, OthersOutside, Begun, Inside
  <2> QED
    BY <2>9, <2>10, <2>11 DEF TypeInv
<1>5. ASSUME NEW p \in Procs, Obstructed(p) \/ Fail(p) PROVE TypeInv'
  <2>1. /\ pc[p] \in Inside /\ Abandon(p)
        /\ UNCHANGED <<present, registry, log>> /\ faults' \in Nat
    BY <1>5 DEF Obstructed, Fail, Inside, TypeInv, TypeOK
  <2> QED
    BY <2>1, AbandonType DEF TypeInv, TypeOK
<1>6. ASSUME NEW p \in Procs, Tear(p) PROVE TypeInv'
  <2>1. pc[p] \in Inside /\ registry' = registry /\ faults' \in Nat
    BY <1>6 DEF Tear, Inside, TypeInv, TypeOK
  <2>2. log' \in Seq(Line)
    <3>1. PICK r \in Reach : log' = Written(r, cur[p])
      BY <1>6 DEF Tear
    <3> QED
      BY <3>1, WrittenType DEF Reach, TypeInv, TypeOK
  <2>3. present' \in SUBSET StateFileSet
    BY <1>6 DEF Tear, TypeInv, TypeOK, StateFileSet, StateFileNames
  <2>4. CASE Abandon(p)
    BY <2>1, <2>2, <2>3, <2>4, AbandonType
  <2>5. CASE ~Abandon(p)
    <3>1. lock = p /\ ~checked[p]
      BY <1>6, <2>1, HolderIsAlone DEF Tear, TypeInv, BegunInv
    <3>2. checked' = [checked EXCEPT ![p] = FALSE]
      BY <1>6, <2>5, <3>1 DEF Tear, TypeInv, TypeOK
    <3> QED
      BY <1>6, <2>1, <2>2, <2>3, <2>5, <3>1, <3>2, DeathType DEF Tear
  <2> QED
    BY <2>4, <2>5
<1>7. ASSUME NEW p \in Procs, Crash(p) PROVE TypeInv'
  <2>1. present' \in SUBSET StateFileSet /\ log' \in Seq(Line) /\ faults' \in Nat
    BY <1>7 DEF Crash, fileVars, TypeInv, TypeOK
  <2> QED
    BY <1>7, <2>1, DeathType DEF Crash, fileVars
<1>8. CASE IsolateLock
  BY <1>8, SameNextFile
  DEF IsolateLock, procVars, fileVars, TypeInv, TypeOK, HolderInv, BegunInv, Inside, Begun
<1>9. CASE TruncateTail
  <2>1. log' \in Seq(Line)
    BY <1>9 DEF TruncateTail, DoctorVerdict, LogValid, TypeInv, TypeOK
  <2> QED
    BY <1>9, <2>1, SameNextFile
    DEF TruncateTail, procVars, TypeInv, TypeOK, HolderInv, BegunInv, Inside, Begun
<1> QED
  <2>1. \A p \in Procs :
          Release(p) \/ Replan(p) \/ CreateOperations(p) \/ Begin(p) \/ CheckAbsent(p) \/ Create(p)
          \/ Created(p) \/ WritePageRegistry(p) \/ AppendChangeLog(p) \/ Complete(p)
            => pc[p] \in Inside
    BY DEF Release, Replan, CreateOperations, Begin, CheckAbsent, Create, Created,
       WritePageRegistry, AppendChangeLog, Complete, Inside
  <2> QED
    BY <1>1, <1>2, <1>3, <1>4, <1>5, <1>6, <1>7, <1>8, <1>9, <2>1 DEF Next, Advance

\* Every variable keeps its shape, a process is inside a command exactly while
\* lock.json names it, and what it is about to create is not there yet.
THEOREM TypeCorrect == Spec => []TypeInv
<1> QED
  BY TypeInit, TypeNext, PTL DEF Spec

-----------------------------------------------------------------------------
(* The page registry *)

\* Between its plan and its write a command has in hand every record there is,
\* and the file they are in exists.
RegistryInv ==
  /\ registry # {} => "pages.json" \in present
  /\ \A p \in Procs :
       /\ pc[p] = "write-page-registry" => kind[p] = "page-apply"
       /\ pc[p] \in {"begin", "write-page-registry"} /\ kind[p] = "page-apply" =>
            "pages.json" \in present /\ registry \subseteq read[p]

\* Steps that have no part in this.
Quiet ==
  /\ registry' = registry
  /\ present \subseteq present'
  /\ \A p \in Procs : pc'[p] \in {"begin", "write-page-registry"} =>
       pc'[p] = pc[p] /\ kind'[p] = kind[p] /\ read'[p] = read[p]

LEMMA QuietSteps ==
  ASSUME TypeInv, [Next]_vars
  PROVE  Quiet \/ \E p \in Procs : Replan(p) \/ Begin(p) \/ Create(p) \/ WritePageRegistry(p)
<1>1. CASE UNCHANGED vars
  BY <1>1 DEF vars, Quiet
<1>2. ASSUME NEW p \in Procs, NEW k \in Kinds, Start(p, k) PROVE Quiet
  BY <1>2 DEF Start, fileVars, Quiet, TypeInv, TypeOK
<1>3. ASSUME NEW p \in Procs, Acquire(p) \/ Timeout(p) \/ Release(p) PROVE Quiet
  BY <1>3 DEF Acquire, Timeout, Release, procVars, fileVars, Quiet, TypeInv, TypeOK
<1>4. ASSUME NEW p \in Procs,
             CreateOperations(p) \/ CheckAbsent(p) \/ Created(p) \/ AppendChangeLog(p) \/ Complete(p)
      PROVE  Quiet
  BY <1>4 DEF CreateOperations, CheckAbsent, Created, AppendChangeLog, Complete, procVars, fileVars,
     Quiet, TypeInv, TypeOK
<1>5. ASSUME NEW p \in Procs, Obstructed(p) \/ Fail(p) PROVE Quiet
  BY <1>5 DEF Obstructed, Fail, Abandon, Quiet, TypeInv, TypeOK
<1>6. ASSUME NEW p \in Procs, Tear(p) \/ Crash(p) PROVE Quiet
  BY <1>6 DEF Tear, Crash, Abandon, fileVars, Quiet, TypeInv, TypeOK
<1>7. CASE IsolateLock \/ TruncateTail
  BY <1>7 DEF IsolateLock, TruncateTail, procVars, fileVars, Quiet
<1> QED
  BY <1>1, <1>2, <1>3, <1>4, <1>5, <1>6, <1>7 DEF Next, Advance

LEMMA RegistryNext ==
  ASSUME TypeInv, RegistryInv, [Next]_vars
  PROVE  RegistryInv' /\ registry \subseteq registry'
<1>1. CASE Quiet
  BY <1>1 DEF Quiet, RegistryInv
<1>2. ASSUME NEW p \in Procs, Replan(p) PROVE RegistryInv' /\ registry \subseteq registry'
  <2>1. pc'[p] = "begin" /\ kind'[p] = "page-apply" => "pages.json" \in present
    BY <1>2 DEF Replan, Plannable, RegistriesPresent, TypeInv, TypeOK
  <2> QED
    BY <1>2, <2>1 DEF Replan, fileVars, RegistryInv, TypeInv, TypeOK
<1>3. ASSUME NEW p \in Procs, Begin(p) PROVE RegistryInv' /\ registry \subseteq registry'
  BY <1>3 DEF Begin, RegistryInv, TypeInv, TypeOK, Kinds
<1>4. ASSUME NEW p \in Procs, Create(p) PROVE RegistryInv' /\ registry \subseteq registry'
  <2>1. OthersOutside(p)
    BY <1>4, HolderIsAlone DEF Create, Inside
  <2>2. NextFile(p) \notin present
    BY <1>4 DEF Create, TypeInv, BegunInv
  <2>3. registry' = registry
    BY <1>4, <2>2 DEF Create, RegistryInv
  <2> QED
    BY <1>4, <2>1, <2>3 DEF Create, RegistryInv, OthersOutside, Inside
<1>5. ASSUME NEW p \in Procs, WritePageRegistry(p) PROVE RegistryInv' /\ registry \subseteq registry'
  <2>1. OthersOutside(p)
    BY <1>5, HolderIsAlone DEF WritePageRegistry, Inside
  <2>2. "pages.json" \in present /\ registry \subseteq registry'
    BY <1>5 DEF WritePageRegistry, RegistryInv
  <2> QED
    BY <1>5, <2>1, <2>2
    DEF WritePageRegistry, procVars, RegistryInv, OthersOutside, Inside, TypeInv, TypeOK
<1> QED
  BY QuietSteps, <1>1, <1>2, <1>3, <1>4, <1>5

\* `state init`, repeated, concurrent or resumed after a crash, takes no record
\* away: it creates pages.json only while no command can have written one, and
\* the commands that do write it hold all its records since they planned.
THEOREM Records == Spec => RecordsKept
<1>1. Init => RegistryInv
  BY DEF Init, RegistryInv
<1>2. TypeInv /\ RegistryInv /\ [Next]_vars => RegistryInv'
  BY RegistryNext
<1>3. TypeInv /\ RegistryInv /\ [Next]_vars => [registry \subseteq registry']_vars
  BY RegistryNext
<1> QED
  BY TypeCorrect, <1>1, <1>2, <1>3, PTL DEF Spec, RecordsKept

-----------------------------------------------------------------------------
(* The change log, when a cut write does not end right before its newline *)

\* Line i has number i; every line but the last is an event, and a line is
\* ended just when it is one.
LogShape ==
  \A i \in DOMAIN log :
    /\ log[i].sequence = i
    /\ log[i].text \in {"event", "fragment"}
    /\ log[i].ended <=> Parses(log[i])
    /\ i < Len(log) => Parses(log[i])

LogInv == LogShape /\ ("change-log.jsonl" \notin present => log = <<>>)

HasEvent(n) == \E i \in DOMAIN log : Parses(log[i]) /\ log[i].op = n

\* The log holds the same events as before, at the same places.
SameEvents ==
  /\ \A i \in DOMAIN log : Parses(log[i]) => i \in DOMAIN log' /\ log'[i] = log[i]
  /\ \A i \in DOMAIN log' : Parses(log'[i]) => i \in DOMAIN log /\ log'[i] = log[i]

\* It holds one event more, of operation n.
OneMore(n) ==
  log' = Append(log, [text |-> "event", sequence |-> Len(log) + 1, op |-> n, ended |-> TRUE])

\* On a log that can be appended to, what is written becomes a line of its own.
LEMMA WrittenIsLine ==
  ASSUME TypeInv, LogShape, Appendable, NEW reach \in {"fragment", "line"}, NEW n
  PROVE  Written(reach, n) =
           Append(log, [text |-> IF reach = "fragment" THEN "fragment" ELSE "event",
                        sequence |-> Len(log) + 1, op |-> n, ended |-> reach = "line"])
<1>1. log \in Seq(Line)
  BY DEF TypeInv, TypeOK
<1>2. log # <<>> => Len(log) \in DOMAIN log
  BY <1>1
<1>3. log # <<>> => log[Len(log)].ended /\ log[Len(log)].sequence = Len(log)
  BY <1>2 DEF Appendable, LogShape
<1>4. log = <<>> => Len(log) = 0
  OBVIOUS
<1>5. NextSequence = Len(log) + 1
  BY <1>3, <1>4 DEF NextSequence
<1> QED
  BY <1>3, <1>5 DEF Written

LEMMA FragmentStep ==
  ASSUME TypeInv, LogShape, Appendable, NEW n \in Nat, log' = Written("fragment", n)
  PROVE  LogShape' /\ SameEvents
<1> DEFINE line == [text |-> "fragment", sequence |-> Len(log) + 1, op |-> n, ended |-> FALSE]
<1>1. log' = Append(log, line)
  BY WrittenIsLine
<1>2. log \in Seq(Line)
  BY DEF TypeInv, TypeOK
<1>3. Len(log') = Len(log) + 1 /\ log'[Len(log) + 1] = line /\ \A i \in DOMAIN log : log'[i] = log[i]
  BY <1>1, <1>2
<1>4. DOMAIN log = 1 .. Len(log) /\ DOMAIN log' = 1 .. Len(log) + 1 /\ Len(log) \in Nat
  BY <1>1, <1>2
<1>5. \A i \in DOMAIN log : Parses(log[i])
  BY <1>2, <1>4 DEF LogShape, Appendable
<1>6. SameEvents
  BY <1>3, <1>4 DEF SameEvents, Parses
<1> QED
  BY <1>3, <1>4, <1>5, <1>6 DEF LogShape, Parses

LEMMA EventStep ==
  ASSUME TypeInv, LogShape, Appendable, NEW n \in Nat, log' = Written("line", n)
  PROVE  LogShape' /\ OneMore(n) /\ (LogValid => LogValid')
<1>1. OneMore(n)
  BY WrittenIsLine DEF OneMore
<1> DEFINE line == [text |-> "event", sequence |-> Len(log) + 1, op |-> n, ended |-> TRUE]
<1>2. log \in Seq(Line)
  BY DEF TypeInv, TypeOK
<1>3. Len(log') = Len(log) + 1 /\ log'[Len(log) + 1] = line /\ \A i \in DOMAIN log : log'[i] = log[i]
  BY <1>1, <1>2 DEF OneMore
<1>4. DOMAIN log = 1 .. Len(log) /\ DOMAIN log' = 1 .. Len(log) + 1 /\ Len(log) \in Nat
  BY <1>1, <1>2 DEF OneMore
<1>5. \A i \in DOMAIN log : Parses(log[i])
  BY <1>2, <1>4 DEF LogShape, Appendable
<1>6. LogShape'
  BY <1>3, <1>4, <1>5 DEF LogShape, Parses
<1>7. LogValid'
  BY <1>3, <1>4, <1>5 DEF LogValid, Parses
<1> QED
  BY <1>1, <1>6, <1>7

LEMMA CutStep ==
  ASSUME TypeInv, LogShape, TruncateTail
  PROVE  LogShape' /\ SameEvents
<1>1. log \in Seq(Line) /\ ~LogValid /\ ~Parses(log[Len(log)])
  BY DEF TypeInv, TypeOK, TruncateTail, DoctorVerdict
<1>2. Len(log) \in Nat /\ Len(log) > 0 /\ DOMAIN log = 1 .. Len(log)
  BY <1>1 DEF LogValid
<1>3. /\ DOMAIN log' = 1 .. Len(log) - 1 /\ Len(log') = Len(log) - 1
      /\ \A i \in DOMAIN log' : log'[i] = log[i]
  BY <1>1, <1>2 DEF TruncateTail
<1>4. LogShape'
  BY <1>2, <1>3 DEF LogShape, Parses
<1>5. SameEvents
  BY <1>1, <1>2, <1>3 DEF SameEvents
<1> QED
  BY <1>4, <1>5

LEMMA LogNext ==
  ASSUME ~CutNewline, TypeInv, LogInv, [Next]_vars
  PROVE  /\ LogInv'
         /\ \/ SameEvents
            \/ \E p \in Procs : (AppendChangeLog(p) \/ Tear(p)) /\ OneMore(cur[p])
<1>1. CASE UNCHANGED <<log, present>>
  BY <1>1 DEF LogInv, LogShape, SameEvents
<1>2. ASSUME NEW p \in Procs, CreateOperations(p) \/ Begin(p) PROVE LogInv' /\ SameEvents
  BY <1>2 DEF CreateOperations, Begin, LogInv, LogShape, SameEvents
<1>3. ASSUME NEW p \in Procs, Create(p) PROVE LogInv' /\ SameEvents
  <2>1. NextFile(p) \notin present
    BY <1>3 DEF Create, TypeInv, BegunInv
  <2>2. log' = log /\ present \subseteq present'
    BY <1>3, <2>1 DEF Create, LogInv
  <2> QED
    BY <2>2 DEF LogInv, LogShape, SameEvents
<1>4. ASSUME NEW p \in Procs, AppendChangeLog(p) PROVE LogInv' /\ OneMore(cur[p])
  <2>1. cur[p] \in Nat
    BY DEF TypeInv, TypeOK
  <2> QED
    BY <1>4, <2>1, EventStep DEF AppendChangeLog, LogInv
<1>5. ASSUME NEW p \in Procs, Tear(p)
      PROVE  LogInv' /\ (SameEvents \/ OneMore(cur[p]))
  <2>1. cur[p] \in Nat
    BY DEF TypeInv, TypeOK
  <2>2. Appendable /\ present' = present \cup {"change-log.jsonl"}
    BY <1>5 DEF Tear
  <2>3. CASE log' = Written("fragment", cur[p])
    BY <2>1, <2>2, <2>3, FragmentStep DEF LogInv
  <2>4. CASE log' = Written("line", cur[p])
    BY <2>1, <2>2, <2>4, EventStep DEF LogInv
  <2> QED
    BY <1>5, <2>3, <2>4 DEF Tear, Reach
<1>6. CASE TruncateTail
  BY <1>6, CutStep DEF TruncateTail, LogInv, LogShape
<1>7. ASSUME NEW p \in Procs,
             \/ \E k \in Kinds : Start(p, k)
             \/ Acquire(p) \/ Timeout(p) \/ Release(p) \/ Replan(p) \/ CheckAbsent(p) \/ Created(p)
             \/ WritePageRegistry(p) \/ Complete(p) \/ Obstructed(p) \/ Fail(p) \/ Crash(p)
      PROVE  UNCHANGED <<log, present>>
  BY <1>7 DEF Start, Acquire, Timeout, Release, Replan, CheckAbsent, Created, WritePageRegistry, Complete,
     Obstructed, Fail, Crash, procVars, fileVars
<1>8. IsolateLock \/ UNCHANGED vars => UNCHANGED <<log, present>>
  BY DEF IsolateLock, fileVars, vars
<1> QED
  BY <1>1, <1>2, <1>3, <1>4, <1>5, <1>6, <1>7, <1>8 DEF Next, Advance

LEMMA LogInit == Init => LogInv
BY DEF Init, LogInv, LogShape

\* What the same events, and one more, mean for those who read them.
OneEach == \A i, k \in DOMAIN log : Parses(log[i]) /\ Parses(log[k]) /\ log[i].op = log[k].op => i = k

LEMMA SameEventsMeans ==
  ASSUME SameEvents
  PROVE  /\ Events' = Events
         /\ \A n : HasEvent(n)' <=> HasEvent(n)
         /\ OneEach => OneEach'
<1>1. \A i : (i \in DOMAIN log' /\ Parses(log'[i])) <=> (i \in DOMAIN log /\ Parses(log[i]))
  BY DEF SameEvents
<1>2. \A i \in DOMAIN log : Parses(log[i]) => log'[i] = log[i]
  BY DEF SameEvents
<1>3. {i \in DOMAIN log' : Parses(log'[i])} = {i \in DOMAIN log : Parses(log[i])}
  BY <1>1
<1>4. Events' = Events
  BY <1>2, <1>3 DEF Events, Parses
<1>5. \A n : HasEvent(n)' <=> HasEvent(n)
  BY <1>1, <1>2 DEF HasEvent, Parses
<1>6. OneEach => OneEach'
  BY <1>1, <1>2 DEF OneEach, Parses
<1> QED
  BY <1>4, <1>5, <1>6

LEMMA OneMoreMeans ==
  ASSUME TypeInv, LogShape, NEW n \in Nat, OneMore(n)
  PROVE  /\ Events \subseteq Events'
         /\ \A e \in Events' \ Events : \A f \in Events : f.sequence < e.sequence
         /\ \A m : HasEvent(m)' <=> HasEvent(m) \/ m = n
         /\ OneEach /\ ~HasEvent(n) => OneEach'
<1> DEFINE line == [text |-> "event", sequence |-> Len(log) + 1, op |-> n, ended |-> TRUE]
           event == [sequence |-> Len(log) + 1, op |-> n]
<1>1. log \in Seq(Line)
  BY DEF TypeInv, TypeOK
<1>2. /\ DOMAIN log = 1 .. Len(log) /\ DOMAIN log' = 1 .. Len(log) + 1 /\ Len(log) \in Nat
      /\ log'[Len(log) + 1] = line /\ \A i \in DOMAIN log : log'[i] = log[i]
  BY <1>1 DEF OneMore
<1>3. Parses(line) /\ line.op = n
  BY DEF Parses
<1>4. Events' = Events \cup {event}
  <2>1. \A e : e \in Events <=> \E i \in DOMAIN log :
                                  Parses(log[i]) /\ e = [sequence |-> log[i].sequence, op |-> log[i].op]
    BY DEF Events
  <2>2. \A e : e \in Events' <=> \E i \in DOMAIN log' :
                                  Parses(log'[i]) /\ e = [sequence |-> log'[i].sequence, op |-> log'[i].op]
    BY DEF Events
  <2>3. \A e : e \in Events' <=> e \in Events \/ e = [sequence |-> line.sequence, op |-> line.op]
    BY <1>2, <1>3, <2>1, <2>2
  <2>4. event = [sequence |-> line.sequence, op |-> line.op]
    OBVIOUS
  <2> QED
    BY <2>3, <2>4
<1>5. \A f \in Events : f.sequence < event.sequence
  BY <1>2 DEF Events, LogShape
<1>6. \A m : HasEvent(m)' <=> HasEvent(m) \/ m = n
  BY <1>2, <1>3 DEF HasEvent, Parses
<1>7. OneEach /\ ~HasEvent(n) => OneEach'
  BY <1>2, <1>3 DEF HasEvent, OneEach, Parses
<1> QED
  BY <1>4, <1>5, <1>6, <1>7

\* Where a cut write does not end right before its newline, an event that could
\* be read once can be read for ever, under a number no later event gets: only a
\* last line that is no event is ever cut off, and nothing is written onto one.
THEOREM Kept == ~CutNewline => (Spec => EventsKept)
<1> SUFFICES ASSUME ~CutNewline PROVE Spec => EventsKept
  OBVIOUS
<1> DEFINE Step == /\ Events \subseteq Events'
                   /\ \A e \in Events' \ Events : \A f \in Events : f.sequence < e.sequence
<1>1. TypeInv /\ LogInv /\ [Next]_vars => LogInv'
  BY LogNext
<1>2. TypeInv /\ LogInv /\ [Next]_vars => [Step]_vars
  <2> SUFFICES ASSUME TypeInv, LogInv, [Next]_vars PROVE Step
    OBVIOUS
  <2>1. CASE SameEvents
    BY <2>1, SameEventsMeans
  <2>2. ASSUME NEW p \in Procs, OneMore(cur[p]) PROVE Step
    <3>1. cur[p] \in Nat
      BY DEF TypeInv, TypeOK
    <3> QED
      BY <2>2, <3>1, OneMoreMeans DEF LogInv
  <2> QED
    BY <2>1, <2>2, LogNext
<1> QED
  BY TypeCorrect, LogInit, <1>1, <1>2, PTL DEF Spec, EventsKept

-----------------------------------------------------------------------------
(* What a command that completed, or a state init that succeeded, can rely on *)

\* Before its append a command has no event; from then on it has one.
EventInv ==
  /\ \A n : HasEvent(n) => n \in DOMAIN ops
  /\ OneEach
  /\ \A n \in DOMAIN ops : ops[n].status = "completed" => HasEvent(n)
  /\ \A p \in Procs :
       /\ pc[p] \in Begun \ {"complete"} => ~HasEvent(cur[p])
       /\ pc[p] = "complete" => HasEvent(cur[p])

\* Steps that have no part in this.
Unheard ==
  /\ SameEvents
  /\ DOMAIN ops' = DOMAIN ops
  /\ \A n \in DOMAIN ops : ops'[n].status = "completed" => ops[n].status = "completed"
  /\ \A p \in Procs :
       pc'[p] \in Begun => /\ cur'[p] = cur[p] /\ pc[p] \in Begun
                           /\ pc'[p] = "complete" <=> pc[p] = "complete"

\* Abandon marks at most its own operation, as failed.
LEMMA AbandonOps ==
  ASSUME TypeInv, NEW p \in Procs, Abandon(p)
  PROVE  /\ DOMAIN ops' = DOMAIN ops
         /\ \A n \in DOMAIN ops : ops'[n].status = "completed" => ops[n].status = "completed"
<1>1. CASE ops' = ops
  BY <1>1
<1>2. CASE cur[p] # 0 /\ ops' = [ops EXCEPT ![cur[p]].status = "failed"]
  <2>1. cur[p] \in DOMAIN ops /\ ops \in Seq(Operation)
    BY <1>2 DEF TypeInv, TypeOK, BegunInv
  <2> QED
    BY <1>2, <2>1, StatusOnly
<1> QED
  BY <1>1, <1>2 DEF Abandon

LEMMA UnheardSteps ==
  ASSUME ~CutNewline, TypeInv, LogInv, [Next]_vars
  PROVE  Unheard \/ \E p \in Procs : Begin(p) \/ AppendChangeLog(p) \/ Complete(p) \/ Tear(p)
<1>1. SameEvents \/ \E p \in Procs : AppendChangeLog(p) \/ Tear(p)
  BY LogNext
<1>2. ASSUME SameEvents, UNCHANGED ops,
             \A p \in Procs : pc'[p] \in Begun =>
               /\ cur'[p] = cur[p] /\ pc[p] \in Begun
               /\ pc'[p] = "complete" <=> pc[p] = "complete"
      PROVE  Unheard
  BY <1>2 DEF Unheard
<1>3. ASSUME SameEvents,
             \/ UNCHANGED vars
             \/ \E p \in Procs :
                  \/ \E k \in Kinds : Start(p, k)
                  \/ Acquire(p) \/ Timeout(p) \/ Release(p) \/ Replan(p) \/ CreateOperations(p)
                  \/ CheckAbsent(p) \/ Create(p) \/ Created(p) \/ WritePageRegistry(p) \/ Crash(p)
             \/ IsolateLock \/ TruncateTail
      PROVE  Unheard
  <2>1. UNCHANGED ops
    BY <1>3 DEF Start, Acquire, Timeout, Release, Replan, CreateOperations, CheckAbsent, Create, Created,
       WritePageRegistry, Crash, IsolateLock, TruncateTail, procVars, fileVars, vars
  <2>2. ASSUME NEW p \in Procs, pc'[p] \in Begun
        PROVE  cur'[p] = cur[p] /\ pc[p] \in Begun /\ (pc'[p] = "complete" <=> pc[p] = "complete")
    BY <1>3, <2>2 DEF Start, Acquire, Timeout, Release, Replan, CreateOperations, CheckAbsent, Create,
       Created, WritePageRegistry, Crash, IsolateLock, TruncateTail, procVars, fileVars, vars, Begun,
       TypeInv, TypeOK
  <2> QED
    BY <1>2, <1>3, <2>1, <2>2
<1>4. ASSUME SameEvents, NEW p \in Procs, Obstructed(p) \/ Fail(p) PROVE Unheard
  <2>1. Abandon(p)
    BY <1>4 DEF Obstructed, Fail
  <2>2. \A q \in Procs : pc'[q] \in Begun => pc'[q] = pc[q] /\ cur'[q] = cur[q]
    BY <2>1 DEF Abandon, Begun, TypeInv, TypeOK
  <2> QED
    BY <1>4, <2>1, <2>2, AbandonOps DEF Unheard
<1> QED
  BY <1>1, <1>3, <1>4 DEF Next, Advance

LEMMA EventNext ==
  ASSUME ~CutNewline, TypeInv, LogInv, EventInv, [Next]_vars
  PROVE  EventInv'
<1>1. CASE Unheard
  <2>1. ASSUME NEW q \in Procs, pc'[q] \in Begun PROVE HasEvent(cur[q])' <=> HasEvent(cur[q])
    BY <1>1, <2>1 DEF Unheard, SameEvents, HasEvent, Parses
  <2>2. \A q \in Procs : /\ pc'[q] \in Begun \ {"complete"} => ~HasEvent(cur[q])'
                         /\ pc'[q] = "complete" => HasEvent(cur[q])'
    BY <1>1, <2>1 DEF Unheard, EventInv, Begun
  <2>3. /\ \A n : HasEvent(n)' <=> HasEvent(n)
        /\ OneEach'
    BY <1>1, SameEventsMeans DEF Unheard, EventInv
  <2>4. \A n \in DOMAIN ops' : ops'[n].status = "completed" => HasEvent(n)'
    BY <1>1, <2>3 DEF Unheard, EventInv
  <2>5. \A n : HasEvent(n)' => n \in DOMAIN ops'
    BY <1>1, <2>3 DEF Unheard, EventInv
  <2> QED
    BY <2>2, <2>3, <2>4, <2>5 DEF EventInv
<1>2. ASSUME NEW p \in Procs, Begin(p) PROVE EventInv'
  <2>1. SameEvents /\ OthersOutside(p)
    BY <1>2, HolderIsAlone DEF Begin, SameEvents, Inside
  <2>2. /\ ops \in Seq(Operation) /\ DOMAIN ops = 1 .. Len(ops) /\ Len(ops) \in Nat
        /\ DOMAIN ops' = 1 .. Len(ops) + 1
        /\ \A n \in DOMAIN ops : ops'[n] = ops[n]
        /\ ops'[Len(ops) + 1].status = "running" /\ cur'[p] = Len(ops) + 1
    BY <1>2 DEF Begin, TypeInv, TypeOK
  <2>3. ~HasEvent(cur'[p])
    BY <2>2 DEF EventInv
  <2>4. pc'[p] # "complete" /\ \A q \in Procs : q # p => pc'[q] \notin Begun
    BY <1>2, <2>1 DEF Begin, OthersOutside, Inside, Begun, Kinds, TypeInv, TypeOK
  <2>5. \A q \in Procs : /\ pc'[q] \in Begun \ {"complete"} => ~HasEvent(cur'[q])
                         /\ pc'[q] # "complete"
    BY <2>3, <2>4 DEF Begun
  <2>6. \A n : HasEvent(n)' <=> HasEvent(n)
    BY <2>1, SameEventsMeans
  <2>7. \A q \in Procs : HasEvent(cur[q])' <=> HasEvent(cur'[q])
    BY <1>2 DEF Begin, HasEvent
  <2> QED
    BY <2>1, <2>2, <2>5, <2>6, <2>7, SameEventsMeans DEF EventInv
<1>3. ASSUME NEW p \in Procs, AppendChangeLog(p) \/ Tear(p), OneMore(cur[p]) PROVE EventInv'
  <2>1. OthersOutside(p) /\ cur[p] \in Nat /\ cur[p] \in DOMAIN ops /\ ~HasEvent(cur[p])
    BY <1>3, HolderIsAlone
    DEF AppendChangeLog, Tear, Inside, Begun, TypeInv, TypeOK, BegunInv, EventInv
  <2>2. \A m : HasEvent(m)' <=> HasEvent(m) \/ m = cur[p]
    BY <1>3, <2>1, OneMoreMeans DEF LogInv
  <2>3. OneEach'
    BY <1>3, <2>1, OneMoreMeans DEF LogInv, EventInv
  <2>4. /\ DOMAIN ops' = DOMAIN ops
        /\ \A n \in DOMAIN ops : ops'[n].status = "completed" => ops[n].status = "completed"
    BY <1>3, AbandonOps DEF AppendChangeLog, Tear
  <2>5. \A q \in Procs : pc'[q] \in Begun => q = p /\ pc'[p] = "complete" /\ cur'[p] = cur[p]
    BY <1>3, <2>1
    DEF AppendChangeLog, Tear, Abandon, procVars, OthersOutside, Inside, Begun, TypeInv, TypeOK
  <2>6. \A q \in Procs : pc'[q] \in Begun => HasEvent(cur[q])'
    <3> SUFFICES ASSUME NEW q \in Procs, pc'[q] \in Begun PROVE HasEvent(cur[q])'
      OBVIOUS
    <3>1. q = p /\ cur'[q] = cur[p]
      BY <2>5
    <3>2. HasEvent(cur[p])' <=> HasEvent(cur[q])'
      BY <3>1
    <3> QED
      BY <2>2, <3>1 DEF HasEvent
  <2> QED
    BY <2>2, <2>3, <2>4, <2>5, <2>6, <2>1 DEF EventInv, Begun
<1>4. ASSUME NEW p \in Procs, Tear(p), SameEvents PROVE EventInv'
  <2>1. OthersOutside(p)
    BY <1>4, HolderIsAlone DEF Tear, Inside
  <2>2. /\ DOMAIN ops' = DOMAIN ops
        /\ \A n \in DOMAIN ops : ops'[n].status = "completed" => ops[n].status = "completed"
    BY <1>4, AbandonOps DEF Tear
  <2>3. \A q \in Procs : pc'[q] \notin Begun
    BY <1>4, <2>1 DEF Tear, Abandon, OthersOutside, Inside, Begun, TypeInv, TypeOK
  <2> QED
    BY <1>4, <2>2, <2>3, SameEventsMeans DEF EventInv, Begun
<1>5. ASSUME NEW p \in Procs, Complete(p) PROVE EventInv'
  <2>1. OthersOutside(p) /\ SameEvents /\ HasEvent(cur[p]) /\ cur[p] \in DOMAIN ops
    BY <1>5, HolderIsAlone
    DEF Complete, SameEvents, Inside, Begun, TypeInv, TypeOK, BegunInv, EventInv
  <2>2. /\ DOMAIN ops' = DOMAIN ops
        /\ \A n \in DOMAIN ops : n # cur[p] => ops'[n] = ops[n]
    BY <1>5, <2>1, StatusOnly DEF Complete, TypeInv, TypeOK
  <2>3. \A q \in Procs : pc'[q] \notin Begun
    BY <1>5, <2>1 DEF Complete, OthersOutside, Inside, Begun, TypeInv, TypeOK
  <2> QED
    BY <2>1, <2>2, <2>3, SameEventsMeans DEF EventInv, Begun
<1>6. ASSUME NEW p \in Procs, AppendChangeLog(p) PROVE OneMore(cur[p])
  <2>1. cur[p] \in Nat
    BY DEF TypeInv, TypeOK
  <2> QED
    BY <1>6, <2>1, EventStep DEF AppendChangeLog, LogInv
<1>7. ASSUME NEW p \in Procs, Tear(p) PROVE SameEvents \/ OneMore(cur[p])
  <2>1. cur[p] \in Nat /\ Appendable
    BY <1>7 DEF Tear, TypeInv, TypeOK
  <2> QED
    BY <1>7, <2>1, EventStep, FragmentStep DEF Tear, Reach, LogInv
<1> QED
  BY UnheardSteps, <1>1, <1>2, <1>3, <1>4, <1>5, <1>6, <1>7

\* Doctor finds such a log valid, or calls its tail torn.
LEMMA NeverInvalid ==
  ASSUME TypeInv, LogShape
  PROVE  DoctorVerdict # "invalid-state-file"
<1>1. log \in Seq(Line)
  BY DEF TypeInv, TypeOK
<1>2. CASE LogValid
  BY <1>2 DEF DoctorVerdict
<1>3. CASE ~LogValid
  <2>1. PICK i \in DOMAIN log : ~Parses(log[i])
    BY <1>3 DEF LogValid
  <2>2. i = Len(log) /\ DOMAIN log = 1 .. Len(log) /\ Len(log) \in Nat
    BY <1>1, <2>1 DEF LogShape
  <2>3. /\ ~Parses(log[Len(log)]) /\ ~log[Len(log)].ended
        /\ \A k \in 1 .. Len(log) - 1 : Parses(log[k])
    BY <2>1, <2>2 DEF LogShape
  <2> QED
    BY <1>3, <2>3 DEF DoctorVerdict
<1> QED
  BY <1>2, <1>3

\* Of every command called completed the log holds one event that can be read,
\* and Doctor never finds the log beyond repair, where a cut write does not end
\* right before its newline.
THEOREM Completed == ~CutNewline => (Spec => []CompletedIsReadable)
<1> SUFFICES ASSUME ~CutNewline PROVE Spec => []CompletedIsReadable
  OBVIOUS
<1>1. Init => EventInv
  BY DEF Init, EventInv, OneEach, HasEvent, Begun
<1>2. TypeInv /\ LogInv /\ [Next]_vars => LogInv'
  BY LogNext
<1>3. TypeInv /\ LogInv /\ EventInv /\ [Next]_vars => EventInv'
  BY EventNext
<1>4. TypeInv /\ LogInv /\ EventInv => CompletedIsReadable
  BY NeverInvalid DEF LogInv, EventInv, OneEach, HasEvent, CompletedIsReadable
<1> QED
  BY TypeCorrect, LogInit, <1>1, <1>2, <1>3, <1>4, PTL DEF Spec

\* From its second plan on, a state init has a log that can be read and in its
\* plan every file that is missing.
InitInv ==
  \A p \in Procs : kind[p] = "state-init" =>
    /\ pc[p] \in {"begin", "create", "append-change-log", "complete", "return"} => LogValid
    /\ pc[p] \in {"begin", "create"} => StateFileSet \subseteq present \cup todo[p]
    /\ pc[p] \in {"append-change-log", "complete", "return"} => StateFileSet \subseteq present

Critical == {"begin", "create", "append-change-log", "complete", "return"}

\* The step of one process is the only one that counts inside the lock.
LEMMA OnlyHolder ==
  ASSUME TypeInv, NEW p \in Procs, OthersOutside(p),
         \A q \in Procs : q # p => pc'[q] = pc[q],
         kind'[p] = "state-init" =>
           /\ pc'[p] \in Critical => LogValid'
           /\ pc'[p] \in {"begin", "create"} => StateFileSet \subseteq present' \cup todo'[p]
           /\ pc'[p] \in {"append-change-log", "complete", "return"} => StateFileSet \subseteq present'
  PROVE  InitInv'
BY DEF OthersOutside, InitInv, Inside, Critical

LEMMA InitNext ==
  ASSUME ~CutNewline, TypeInv, LogInv, RegistryInv, InitInv, [Next]_vars
  PROVE  InitInv'
<1>1. CASE UNCHANGED vars
  BY <1>1 DEF vars, InitInv, LogValid
<1>2. ASSUME NEW p \in Procs,
             (\E k \in Kinds : Start(p, k)) \/ Acquire(p) \/ Timeout(p) \/ Release(p)
      PROVE  InitInv'
  <2>1. UNCHANGED <<log, present>>
    BY <1>2 DEF Start, Acquire, Timeout, Release, fileVars
  <2>2. \A q \in Procs : pc'[q] \in Critical =>
          pc'[q] = pc[q] /\ kind'[q] = kind[q] /\ todo'[q] = todo[q]
    BY <1>2 DEF Start, Acquire, Timeout, Release, procVars, Critical, TypeInv, TypeOK
  <2> QED
    BY <2>1, <2>2 DEF InitInv, LogValid, Critical
<1>3. ASSUME NEW p \in Procs,
             \/ Replan(p) \/ CreateOperations(p) \/ Begin(p) \/ CheckAbsent(p) \/ Created(p)
             \/ WritePageRegistry(p) \/ Complete(p)
      PROVE  InitInv'
  <2>1. OthersOutside(p)
    BY <1>3, HolderIsAlone
    DEF Replan, CreateOperations, Begin, CheckAbsent, Created, WritePageRegistry, Complete, Inside
  <2>2. log' = log /\ \A q \in Procs : q # p => pc'[q] = pc[q]
    BY <1>3
    DEF Replan, CreateOperations, Begin, CheckAbsent, Created, WritePageRegistry, Complete,
        procVars, fileVars, TypeInv, TypeOK
  <2>3. LogValid' <=> LogValid
    BY <2>2 DEF LogValid
  <2>4. CASE Replan(p)
    BY <2>1, <2>2, <2>3, <2>4, OnlyHolder
    DEF Replan, Plannable, Missing, fileVars, Critical, TypeInv, TypeOK
  <2>5. CASE CreateOperations(p)
    BY <2>1, <2>2, <2>3, <2>5, OnlyHolder
    DEF CreateOperations, InitInv, Critical, TypeInv, TypeOK
  <2>6. CASE Begin(p)
    BY <2>1, <2>2, <2>3, <2>6, OnlyHolder DEF Begin, InitInv, Critical, TypeInv, TypeOK
  <2>7. CASE CheckAbsent(p) \/ Created(p)
    BY <2>1, <2>2, <2>3, <2>7, OnlyHolder
    DEF CheckAbsent, Created, procVars, fileVars, InitInv, Critical, TypeInv, TypeOK
  <2>8. CASE WritePageRegistry(p)
    <3>1. kind'[p] # "state-init"
      BY <2>8 DEF WritePageRegistry, procVars, RegistryInv
    <3> QED
      BY <2>1, <2>2, <3>1, OnlyHolder
  <2>9. CASE Complete(p)
    BY <2>1, <2>2, <2>3, <2>9, OnlyHolder
    DEF Complete, procVars, InitInv, Critical, TypeInv, TypeOK
  <2> QED
    BY <1>3, <2>4, <2>5, <2>6, <2>7, <2>8, <2>9
<1>4. ASSUME NEW p \in Procs, Create(p) PROVE InitInv'
  <2>1. OthersOutside(p)
    BY <1>4, HolderIsAlone DEF Create, Inside
  <2>2. NextFile(p) \notin present
    BY <1>4 DEF Create, TypeInv, BegunInv
  <2>3. log' = log
    BY <1>4, <2>2 DEF Create, LogInv
  <2>4. LogValid' <=> LogValid
    BY <2>3 DEF LogValid
  <2>5. /\ present' = present \cup {NextFile(p)} /\ todo'[p] = todo[p] \ {NextFile(p)}
        /\ pc[p] = "create" /\ pc' = pc /\ kind' = kind
    BY <1>4 DEF Create, TypeInv, TypeOK
  <2> QED
    BY <2>1, <2>4, <2>5, OnlyHolder DEF InitInv, Critical
<1>5. ASSUME NEW p \in Procs, AppendChangeLog(p) PROVE InitInv'
  <2>1. OthersOutside(p) /\ cur[p] \in Nat
    BY <1>5, HolderIsAlone DEF AppendChangeLog, Inside, TypeInv, TypeOK
  <2>2. LogValid => LogValid'
    BY <1>5, <2>1, EventStep DEF AppendChangeLog, LogInv
  <2>3. /\ pc[p] = "append-change-log" /\ pc'[p] = "complete" /\ kind'[p] = kind[p]
        /\ present \subseteq present' /\ \A q \in Procs : q # p => pc'[q] = pc[q]
    BY <1>5 DEF AppendChangeLog, procVars, TypeInv, TypeOK
  <2> QED
    BY <2>1, <2>2, <2>3, OnlyHolder DEF InitInv, Critical
<1>6. ASSUME NEW p \in Procs, Obstructed(p) \/ Fail(p) \/ Tear(p) \/ Crash(p) PROVE InitInv'
  <2>1. OthersOutside(p)
    BY <1>6, HolderIsAlone DEF Obstructed, Fail, Tear, Crash, Inside, TypeInv, HolderInv
  <2>2. pc'[p] \notin Critical /\ \A q \in Procs : q # p => pc'[q] = pc[q]
    BY <1>6 DEF Obstructed, Fail, Tear, Crash, Abandon, Critical, TypeInv, TypeOK
  <2> QED
    BY <2>1, <2>2, OnlyHolder DEF Critical
<1>7. CASE IsolateLock
  BY <1>7 DEF IsolateLock, procVars, fileVars, InitInv, LogValid
<1>8. CASE TruncateTail
  <2>1. \A q \in Procs : pc'[q] \notin Critical
    BY <1>8, NamesAssumption DEF TruncateTail, TypeInv, HolderInv, Inside, Critical
  <2> QED
    BY <2>1 DEF InitInv, Critical
<1> QED
  BY <1>1, <1>2, <1>3, <1>4, <1>5, <1>6, <1>7, <1>8 DEF Next, Advance

\* When state init reports success every state file exists and the log can be
\* planned from, also after an earlier run that died half way, where a cut write
\* does not end right before its newline.
THEOREM InitCompletes == ~CutNewline => (Spec => []InitSuccessIsComplete)
<1> SUFFICES ASSUME ~CutNewline PROVE Spec => []InitSuccessIsComplete
  OBVIOUS
<1>1. Init => RegistryInv /\ InitInv
  BY DEF Init, RegistryInv, InitInv
<1>2. TypeInv /\ RegistryInv /\ [Next]_vars => RegistryInv'
  BY RegistryNext
<1>3. TypeInv /\ LogInv /\ [Next]_vars => LogInv'
  BY LogNext
<1>4. TypeInv /\ LogInv /\ RegistryInv /\ InitInv /\ [Next]_vars => InitInv'
  BY InitNext
<1>5. InitInv => InitSuccessIsComplete
  BY DEF InitInv, InitSuccessIsComplete
<1> QED
  BY TypeCorrect, LogInit, <1>1, <1>2, <1>3, <1>4, <1>5, PTL DEF Spec
=============================================================================
