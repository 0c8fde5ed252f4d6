---------------------------- MODULE VaultLockProofs ----------------------------
(***************************************************************************)
(* Theorems about VaultLock, for any number of processes, hosts, commands  *)
(* and crashes: the lock file excludes and implements VaultMutex, and what *)
(* Doctor concludes from three files it reads one after the other is true. *)
(***************************************************************************)
EXTENDS VaultLock, TLAPS

-----------------------------------------------------------------------------
(* Types *)

\* A process that is not idle is in a run of its own, one that writes has begun
\* an operation; the lock file and the operations name runs, and Doctor has read
\* no operation that is not there.
RunsOK ==
  /\ file.id \in 0 .. Len(runs) /\ (file # NoFile => file.id # 0)
  /\ \A p \in Procs : (pc[p] = "idle" <=> mine[p] = 0) /\ (mine[p] # 0 => runs[mine[p]].proc = p)
  /\ \A p \in Procs : pc[p] \in {"writing", "logged"} => ops # <<>>
  /\ \A n \in DOMAIN ops : ops[n].run \in DOMAIN runs
  /\ DOMAIN snapshot \subseteq DOMAIN ops

TypeInv == TypeOK /\ RunsOK

\* Settling an operation changes its status only.
LEMMA SettleType ==
  ASSUME ops \in Seq(Operation), ops # <<>>, NEW s \in {"completed", "failed"}, Settle(s)
  PROVE  /\ ops' \in Seq(Operation) /\ Len(ops') = Len(ops) /\ DOMAIN ops' = DOMAIN ops
         /\ \A n \in DOMAIN ops : ops'[n].run = ops[n].run /\ (n # Len(ops) => ops'[n] = ops[n])
         /\ ops'[Len(ops)].status = s
<1> DEFINE r == [ops[Len(ops)] EXCEPT !.status = s]
<1>1. Len(ops) \in DOMAIN ops /\ ops[Len(ops)] \in Operation
  OBVIOUS
<1>2. r \in Operation /\ r.status = s /\ r.run = ops[Len(ops)].run
  BY <1>1 DEF Operation
<1>3. ops' = [ops EXCEPT ![Len(ops)] = r]
  BY DEF Settle
<1> HIDE DEF r
<1> QED
  BY <1>1, <1>2, <1>3

LEMMA TypeInit == Init => TypeInv
BY DEF Init, TypeInv, TypeOK, RunsOK, NoFile, LockFile, Held

LEMMA TypeNext == TypeInv /\ [Next]_vars => TypeInv'
<1> SUFFICES ASSUME TypeInv, [Next]_vars PROVE TypeInv'
  OBVIOUS
<1>0. /\ pc \in [Procs -> {"idle", "waiting", "created"} \cup Held] /\ mine \in [Procs -> 0 .. Len(runs)]
      /\ runs \in Seq(Run) /\ ops \in Seq(Operation) /\ file \in LockFile
      /\ Len(runs) \in Nat /\ DOMAIN runs = 1 .. Len(runs)
      /\ Len(ops) \in Nat /\ DOMAIN ops = 1 .. Len(ops)
  BY DEF TypeInv, TypeOK
<1>1. CASE UNCHANGED vars
  BY <1>1 DEF vars, doctorVars, TypeInv, TypeOK, RunsOK
<1>2. ASSUME NEW p \in Procs, NEW kind \in Kinds, Start(p, kind) PROVE TypeInv'
  <2> DEFINE r == [proc |-> p, kind |-> kind, before |-> Len(ops)]
  <2>1. r \in Run /\ r.proc = p
    BY <1>0 DEF Run
  <2>2. runs' = Append(runs, r)
    BY <1>2 DEF Start
  <2> HIDE DEF r
  <2>3. /\ runs' \in Seq(Run) /\ Len(runs') = Len(runs) + 1 /\ runs'[Len(runs) + 1].proc = p
        /\ \A i \in DOMAIN runs : runs'[i] = runs[i]
        /\ DOMAIN runs' = 1 .. Len(runs) + 1
    BY <1>0, <2>1, <2>2
  <2>4. /\ mine' = [mine EXCEPT ![p] = Len(runs) + 1] /\ pc' = [pc EXCEPT ![p] = "waiting"]
        /\ UNCHANGED <<file, ops, events, doctorVars, crashes>>
    BY <1>2 DEF Start, Goto
  <2>5. TypeOK'
    BY <1>0, <2>3, <2>4 DEF TypeInv, TypeOK, doctorVars
  <2>6. RunsOK'
    BY <1>0, <2>3, <2>4 DEF TypeInv, RunsOK, doctorVars
  <2> QED
    BY <2>5, <2>6 DEF TypeInv
<1>3. ASSUME NEW p \in Procs,
             \/ Create(p) \/ Timeout(p) \/ WritePayload(p) \/ FailPayload(p) \/ Refuse(p)
             \/ CheckOwner(p) \/ Unlink(p) \/ Crash(p)
      PROVE  TypeInv'
  <2>1. UNCHANGED <<runs, ops, events, doctorVars>> /\ (crashes' = crashes \/ crashes' = crashes + 1)
    BY <1>3 DEF Create, Timeout, WritePayload, FailPayload, Refuse, CheckOwner, Unlink, Crash
  <2>2. /\ pc' \in [Procs -> {"idle", "waiting", "created"} \cup Held]
        /\ mine' = mine \/ mine' = [mine EXCEPT ![p] = 0]
        /\ \A q \in Procs : pc'[q] = "idle" <=> mine'[q] = 0
    BY <1>0, <1>3, SMTT(40)
    DEF Create, Timeout, WritePayload, FailPayload, Refuse, CheckOwner, Unlink, Crash, Leave, Goto, Held,
        TypeInv, RunsOK
  <2>3. file' \in LockFile /\ file'.id \in 0 .. Len(runs) /\ (file' # NoFile => file'.id # 0)
    <3>1. CASE Create(p)
      <4>1. mine[p] \in Nat /\ mine[p] # 0 /\ mine[p] \in 0 .. Len(runs)
        BY <1>0, <3>1 DEF Create, TypeInv, RunsOK
      <4> QED
        BY <3>1, <4>1 DEF Create, LockFile
    <3>2. CASE WritePayload(p)
      <4>1. mine[p] # 0
        BY <3>2 DEF WritePayload, TypeInv, RunsOK
      <4>2. CASE file.id = mine[p]
        BY <1>0, <3>2, <4>1, <4>2 DEF WritePayload, LockFile, TypeInv, RunsOK
      <4>3. CASE file.id # mine[p]
        BY <1>0, <3>2, <4>3 DEF WritePayload, TypeInv, RunsOK
      <4> QED
        BY <4>2, <4>3
    <3>3. CASE file' = NoFile
      BY <1>0, <3>3 DEF NoFile, LockFile
    <3>4. CASE file' = file
      BY <1>0, <3>4 DEF TypeInv, RunsOK
    <3> QED
      BY <1>3, <3>1, <3>2, <3>3, <3>4 DEF Timeout, FailPayload, Refuse, CheckOwner, Unlink, Crash
  <2>4. mine' \in [Procs -> 0 .. Len(runs)] /\ \A q \in Procs : mine'[q] # 0 => mine'[q] = mine[q]
    BY <1>0, <2>2
  <2>5. TypeOK'
    BY <2>1, <2>2, <2>3, <2>4 DEF TypeInv, TypeOK, doctorVars
  <2>6. \A q \in Procs : pc'[q] \in {"writing", "logged"} => pc[q] = pc'[q]
    BY <1>0, <1>3
    DEF Create, Timeout, WritePayload, FailPayload, Refuse, CheckOwner, Unlink, Crash, Leave, Goto
  <2> QED
    BY <2>1, <2>2, <2>3, <2>4, <2>5, <2>6 DEF TypeInv, RunsOK, doctorVars
<1>4. ASSUME NEW p \in Procs, BeginOperation(p) PROVE TypeInv'
  <2> DEFINE o == [run |-> mine[p], status |-> "running"]
  <2>1. o \in Operation /\ o.run \in DOMAIN runs
    BY <1>0, <1>4 DEF Operation, BeginOperation, TypeInv, RunsOK
  <2>2. ops' = Append(ops, o)
    BY <1>4 DEF BeginOperation
  <2> HIDE DEF o
  <2>3. /\ ops' \in Seq(Operation) /\ DOMAIN ops' = 1 .. Len(ops) + 1
        /\ \A n \in DOMAIN ops : ops'[n] = ops[n]
        /\ ops'[Len(ops) + 1] = o
    BY <1>0, <2>1, <2>2
  <2>4. /\ pc' = [pc EXCEPT ![p] = "writing"] /\ pc[p] = "holding"
        /\ UNCHANGED <<file, mine, runs, events, doctorVars, crashes>>
    BY <1>4 DEF BeginOperation, Goto
  <2>5. TypeOK'
    BY <1>0, <2>3, <2>4 DEF TypeInv, TypeOK, doctorVars, Held
  <2>6. ops' # <<>> /\ \A n \in DOMAIN ops' : ops'[n].run \in DOMAIN runs
    BY <1>0, <2>1, <2>3, SMTT(40) DEF TypeInv, RunsOK
  <2>7. \A q \in Procs : pc'[q] = "idle" <=> pc[q] = "idle"
    BY <1>0, <2>4
  <2>8. DOMAIN snapshot' \subseteq DOMAIN ops'
    BY <1>0, <2>3, <2>4 DEF TypeInv, RunsOK, doctorVars
  <2>9. RunsOK'
    BY <2>4, <2>6, <2>7, <2>8 DEF TypeInv, RunsOK
  <2> QED
    BY <2>5, <2>9 DEF TypeInv
<1>5. ASSUME NEW p \in Procs, AppendEvent(p) PROVE TypeInv'
  <2>1. /\ pc' = [pc EXCEPT ![p] = "logged"] /\ pc[p] = "writing"
        /\ events' = events \cup {Len(ops)} /\ Len(ops) \in DOMAIN ops
        /\ UNCHANGED <<file, mine, runs, ops, doctorVars, crashes>>
    BY <1>0, <1>5 DEF AppendEvent, Goto, TypeInv, RunsOK
  <2>2. TypeOK'
    BY <1>0, <2>1 DEF TypeInv, TypeOK, doctorVars, Held
  <2> QED
    BY <1>0, <2>1, <2>2 DEF TypeInv, RunsOK, doctorVars
<1>6. ASSUME NEW p \in Procs, Complete(p) \/ Fail(p) PROVE TypeInv'
  <2>1. /\ pc[p] \in {"writing", "logged"} /\ pc' = [pc EXCEPT ![p] = "done"]
        /\ UNCHANGED <<file, mine, runs, events, doctorVars, crashes>>
    BY <1>6 DEF Complete, Fail, Goto
  <2>2. /\ ops' \in Seq(Operation) /\ DOMAIN ops' = DOMAIN ops
        /\ \A n \in DOMAIN ops : ops'[n].run = ops[n].run
    BY <1>0, <1>6, <2>1, SettleType DEF Complete, Fail, TypeInv, RunsOK
  <2>3. TypeOK'
    BY <1>0, <2>1, <2>2 DEF TypeInv, TypeOK, doctorVars, Held
  <2> QED
    BY <1>0, <2>1, <2>2, <2>3 DEF TypeInv, RunsOK, doctorVars
<1>7. CASE Doctor
  <2>1. UNCHANGED <<file, pc, mine, runs, ops, events, crashes>>
    BY <1>7 DEF Doctor, ReadOperations, ReadEvents, ReadLock, Again
  <2>2. /\ snapshot' \in {snapshot, ops, <<>>} /\ logged' \in {logged, events, {}}
        /\ dpc' \in {"operations", "events", "lock", "report"}
    BY <1>7 DEF Doctor, ReadOperations, ReadEvents, ReadLock, Again
  <2>3. DOMAIN verdict' \subseteq DOMAIN ops /\ stale' \in 0 .. Len(runs)
    <3>1. CASE ReadLock
      <4>1. DOMAIN verdict' = DOMAIN snapshot /\ stale' \in {file.id, 0}
        BY <3>1 DEF ReadLock
      <4> QED
        BY <1>0, <4>1 DEF TypeInv, RunsOK
    <3>2. CASE Again
      BY <1>0, <3>2 DEF Again
    <3>3. CASE ReadOperations \/ ReadEvents
      BY <3>3 DEF ReadOperations, ReadEvents, TypeInv, TypeOK
    <3> QED
      BY <1>7, <3>1, <3>2, <3>3 DEF Doctor
  <2>4. snapshot' \in Seq(Operation) /\ DOMAIN snapshot' \subseteq DOMAIN ops /\ logged' \subseteq DOMAIN ops
    <3>1. snapshot \in Seq(Operation) /\ DOMAIN snapshot \subseteq DOMAIN ops
      BY DEF TypeInv, TypeOK, RunsOK
    <3>2. <<>> \in Seq(Operation) /\ DOMAIN <<>> = {}
      OBVIOUS
    <3>3. snapshot' \in Seq(Operation) /\ DOMAIN snapshot' \subseteq DOMAIN ops
      BY <1>0, <2>2, <3>1, <3>2
    <3> QED
      BY <2>2, <3>3 DEF TypeInv, TypeOK
  <2>5. TypeOK'
    BY <2>1, <2>2, <2>3, <2>4 DEF TypeInv, TypeOK
  <2> QED
    BY <2>1, <2>4, <2>5 DEF TypeInv, RunsOK
<1>8. CASE Age \/ Isolate
  <2>1. file' \in LockFile /\ file'.id \in 0 .. Len(runs) /\ (file' # NoFile => file'.id # 0)
    <3>1. CASE Age
      BY <1>0, <3>1 DEF Age, LockFile, TypeInv, RunsOK
    <3>2. CASE Isolate
      BY <1>0, <3>2 DEF Isolate, LockFile, NoFile
    <3> QED
      BY <1>8, <3>1, <3>2
  <2>2. UNCHANGED <<pc, mine, runs, ops, events, doctorVars, crashes>>
    BY <1>8 DEF Age, Isolate
  <2>3. TypeOK'
    BY <2>1, <2>2 DEF TypeInv, TypeOK, doctorVars
  <2> QED
    BY <1>0, <2>1, <2>2, <2>3 DEF TypeInv, RunsOK, doctorVars
<1> QED
  BY <1>1, <1>2, <1>3, <1>4, <1>5, <1>6, <1>7, <1>8 DEF Next, Writer

\* Every variable keeps its shape, and files, processes and operations name
\* runs that were started.
THEOREM TypeCorrect == Spec => []TypeInv
<1> QED
  BY TypeInit, TypeNext, PTL DEF Spec

-----------------------------------------------------------------------------
(* The lock excludes *)

\* From its creation to its removal the lock file is that of the process in
\* between, written once the lock is held.
HolderInv ==
  \A p \in Procs :
    /\ pc[p] \in Held \cup {"created"} => file.id = mine[p]
    /\ pc[p] \in Held => file.written

LockInv == HolderInv /\ StaleIsDead

LEMMA LockNext == TypeInv /\ LockInv /\ [Next]_vars => LockInv'
<1> SUFFICES ASSUME TypeInv, LockInv, [Next]_vars PROVE LockInv'
  OBVIOUS
<1>0. /\ pc \in [Procs -> {"idle", "waiting", "created"} \cup Held] /\ mine \in [Procs -> 0 .. Len(runs)]
      /\ runs \in Seq(Run) /\ Len(runs) \in Nat /\ file \in LockFile /\ stale \in 0 .. Len(runs)
  BY DEF TypeInv, TypeOK
\* Runs tell processes apart.
<1>a. \A p, q \in Procs : mine[p] = mine[q] /\ mine[p] # 0 => p = q
  BY DEF TypeInv, RunsOK
<1>b. \A p \in Procs : pc[p] # "idle" => mine[p] # 0
  BY DEF TypeInv, RunsOK
<1>c. \A p, q \in Procs : pc[p] \in Held \cup {"created"} /\ pc[q] \in Held \cup {"created"} => p = q
  BY <1>a, <1>b DEF LockInv, HolderInv, Held
\* The file of a holder, or of one about to hold, is there.
<1>d. \A p \in Procs : pc[p] \in Held \cup {"created"} => file.id # 0
  BY <1>b DEF LockInv, HolderInv, Held
<1>1. CASE UNCHANGED <<file, pc, mine, stale>>
  BY <1>1 DEF LockInv, HolderInv, StaleIsDead
<1>2. ASSUME NEW p \in Procs, NEW kind \in Kinds, Start(p, kind) PROVE LockInv'
  <2>1. HolderInv'
    BY <1>0, <1>2 DEF Start, Goto, LockInv, HolderInv, Held
  <2>2. StaleIsDead'
    BY <1>0, <1>2 DEF Start, LockInv, StaleIsDead, doctorVars
  <2> QED
    BY <2>1, <2>2 DEF LockInv
<1>3. ASSUME NEW p \in Procs, Create(p) PROVE LockInv'
  <2>1. \A q \in Procs : pc[q] \notin Held \cup {"created"}
    BY <1>3, <1>d DEF Create, NoFile
  <2> QED
    BY <1>0, <1>3, <2>1 DEF Create, Goto, LockInv, HolderInv, StaleIsDead, Held, doctorVars
<1>4. ASSUME NEW p \in Procs, WritePayload(p) PROVE LockInv'
  BY <1>0, <1>4, <1>c
  DEF WritePayload, Goto, LockInv, HolderInv, StaleIsDead, Held, doctorVars, LockFile
<1>5. ASSUME NEW p \in Procs, FailPayload(p) \/ Unlink(p) PROVE LockInv'
  <2>1. /\ pc[p] \in Held \cup {"created"} /\ pc' = [pc EXCEPT ![p] = "idle"]
        /\ mine' = [mine EXCEPT ![p] = 0] /\ stale' = stale
    BY <1>5 DEF FailPayload, Unlink, Leave, Goto, Held, doctorVars
  <2>2. \A q \in Procs : pc'[q] \notin Held \cup {"created"}
    BY <1>0, <1>c, <2>1 DEF Held
  <2> QED
    BY <1>0, <2>1, <2>2 DEF LockInv, HolderInv, StaleIsDead
<1>6. ASSUME NEW p \in Procs, Timeout(p) \/ CheckOwner(p) \/ Crash(p) PROVE LockInv'
  <2>1. /\ file' = file /\ stale' = stale
        /\ \A q \in Procs : mine'[q] = mine[q] \/ mine'[q] = 0
        /\ \A q \in Procs : pc'[q] \in Held \cup {"created"} =>
             mine'[q] = mine[q] /\ pc[q] \in Held \cup {"created"} /\ (pc'[q] \in Held => pc[q] \in Held)
    BY <1>0, <1>6 DEF Timeout, CheckOwner, Crash, Leave, Goto, Held, doctorVars
  <2> QED
    BY <2>1 DEF LockInv, HolderInv, StaleIsDead
<1>7. ASSUME NEW p \in Procs,
             BeginOperation(p) \/ AppendEvent(p) \/ Complete(p) \/ Fail(p) \/ Refuse(p)
      PROVE  LockInv'
  <2>1. /\ file' = file /\ mine' = mine /\ stale' = stale
        /\ \A q \in Procs : pc'[q] \in Held \cup {"created"} =>
             pc[q] \in Held \cup {"created"} /\ (pc'[q] \in Held => pc[q] \in Held)
    BY <1>0, <1>7 DEF BeginOperation, AppendEvent, Complete, Fail, Refuse, Goto, Held, doctorVars
  <2> QED
    BY <2>1 DEF LockInv, HolderInv, StaleIsDead
<1>8. CASE ReadLock
  <2>1. PICK pid_exists \in BOOLEAN :
          /\ (\E p \in Procs : mine[p] = file.id) => pid_exists
          /\ stale' = IF Classify(pid_exists) = "stale" THEN file.id ELSE 0
    BY <1>8 DEF ReadLock
  <2>2. Classify(pid_exists) = "stale" => ~pid_exists
    BY DEF Classify
  <2> QED
    BY <1>8, <2>1, <2>2 DEF ReadLock, LockInv, HolderInv, StaleIsDead
<1>9. CASE Again
  BY <1>9 DEF Again, LockInv, HolderInv, StaleIsDead
<1>10. CASE Age
  BY <1>0, <1>10 DEF Age, LockInv, HolderInv, StaleIsDead, LockFile, doctorVars
<1>11. CASE Isolate
  <2>1. \A q \in Procs : pc[q] \notin Held \cup {"created"}
    BY <1>11 DEF Isolate, LockInv, HolderInv, StaleIsDead
  <2> QED
    BY <1>11, <2>1 DEF Isolate, LockInv, HolderInv, StaleIsDead, doctorVars
<1>12. CASE ReadOperations \/ ReadEvents \/ UNCHANGED vars
  BY <1>1, <1>12 DEF ReadOperations, ReadEvents, vars, doctorVars
<1> QED
  BY <1>2, <1>3, <1>4, <1>5, <1>6, <1>7, <1>8, <1>9, <1>10, <1>11, <1>12 DEF Next, Writer, Doctor

LEMMA LockInit == Init => LockInv
BY DEF Init, LockInv, HolderInv, StaleIsDead, Held

\* A process is inside a command exactly while lock.json carries its lock_id,
\* and what Doctor knows of a lock it found stale stays true.
THEOREM LockInvariant == Spec => [](TypeInv /\ LockInv)
<1> QED
  BY TypeInit, TypeNext, LockInit, LockNext, PTL DEF Spec

\* Two processes never hold the lock, although stale locks are moved out of the
\* way, and failing acquisitions and releases remove a file by its name.
THEOREM Exclusion == Spec => []MutualExclusion
<1>1. TypeInv /\ LockInv => MutualExclusion
  <2> SUFFICES ASSUME TypeInv, LockInv, NEW p \in Procs, NEW q \in Procs, pc[p] \in Held, pc[q] \in Held
               PROVE  p = q
    BY DEF MutualExclusion
  <2>1. mine[p] = mine[q]
    BY DEF LockInv, HolderInv
  <2>2. mine[p] # 0
    BY DEF TypeInv, RunsOK, Held
  <2> QED
    BY <2>1, <2>2 DEF TypeInv, RunsOK
<1> QED
  BY <1>1, LockInvariant, PTL

\* What Doctor calls stale is the lock of a dead process until it is moved.
THEOREM Stale == Spec => []StaleIsDead
<1>1. LockInv => StaleIsDead
  BY DEF LockInv
<1> QED
  BY <1>1, LockInvariant, PTL

-----------------------------------------------------------------------------
(* The lock file implements the lock *)

Within == {p \in Procs : pc[p] \in Held}

\* Holder, as a function of the file and of the runs processes are in.
HolderIn(f, m) ==
  IF f = NoFile THEN "free"
  ELSE IF \E p \in Procs : m[p] = f.id THEN CHOOSE p \in Procs : m[p] = f.id
  ELSE "orphan"

\* A file belongs to the process whose run it names.
LEMMA HolderIs ==
  ASSUME NEW f, NEW m, NEW p \in Procs, f # NoFile, m[p] = f.id,
         \A q \in Procs : m[q] = m[p] => q = p
  PROVE  HolderIn(f, m) = p
BY DEF HolderIn

\* Which process that is depends on nobody else's run.
LEMMA HolderSame ==
  ASSUME NEW f, NEW g, NEW m, NEW n, f = NoFile <=> g = NoFile, f.id = g.id,
         f # NoFile => \A p \in Procs : m[p] = f.id <=> n[p] = f.id
  PROVE  HolderIn(f, m) = HolderIn(g, n)
<1>1. CASE f = NoFile
  BY <1>1 DEF HolderIn
<1>2. CASE f # NoFile
  <2>1. (CHOOSE p \in Procs : m[p] = f.id) = (CHOOSE p \in Procs : n[p] = g.id)
    BY <1>2
  <2> QED
    BY <1>2, <2>1 DEF HolderIn
<1> QED
  BY <1>1, <1>2

LEMMA HolderNow ==
  ASSUME TypeInv
  PROVE  /\ Holder = HolderIn(file, mine)
         /\ \A p \in Procs : mine[p] # 0 /\ mine[p] = file.id => file # NoFile /\ Holder = p
<1>1. Holder = HolderIn(file, mine)
  BY DEF Holder, HolderIn
<1>2. ASSUME NEW p \in Procs, mine[p] # 0, mine[p] = file.id PROVE file # NoFile /\ Holder = p
  <2>1. \A q \in Procs : mine[q] = mine[p] => q = p
    BY <1>2 DEF TypeInv, RunsOK
  <2>2. file # NoFile
    BY <1>2 DEF NoFile
  <2> QED
    BY <1>1, <1>2, <2>1, <2>2, HolderIs
<1> QED
  BY <1>1, <1>2

\* A process that leaves, and leaves the file as it is, leaves its own behind.
LEMMA LeaveReturns ==
  ASSUME TypeInv, LockInv, NEW p \in Procs, Leave(p), file' = file
  PROVE  [Mutex!Return(p)]_<<Holder, Within>>
<1>0. /\ pc \in [Procs -> {"idle", "waiting", "created"} \cup Held] /\ mine \in [Procs -> 0 .. Len(runs)]
      /\ file # NoFile => file.id # 0
  BY DEF TypeInv, TypeOK, RunsOK
<1>1. /\ pc' = [pc EXCEPT ![p] = "idle"] /\ mine' = [mine EXCEPT ![p] = 0]
      /\ Holder = HolderIn(file, mine) /\ Holder' = HolderIn(file, mine')
  BY DEF Leave, Goto, Holder, HolderIn
<1>2. Within' = Within \ {p}
  BY <1>0, <1>1 DEF Within, Held
<1>3. CASE file # NoFile /\ mine[p] = file.id
  <2>1. Holder = p
    BY <1>0, <1>3, HolderNow
  <2>2. \A q \in Procs : mine'[q] # file.id
    BY <1>0, <1>1, <1>3 DEF TypeInv, RunsOK
  <2>3. Holder' = "orphan"
    BY <1>1, <1>3, <2>2 DEF HolderIn
  <2> QED
    BY <1>2, <2>1, <2>3 DEF Mutex!Return, Within
<1>4. CASE ~(file # NoFile /\ mine[p] = file.id)
  <2>1. Holder' = Holder
    <3>1. file # NoFile => \A q \in Procs : mine[q] = file.id <=> mine'[q] = file.id
      BY <1>0, <1>1, <1>4
    <3>2. HolderIn(file, mine) = HolderIn(file, mine')
      BY <3>1, HolderSame
    <3> QED
      BY <1>1, <3>2
  <2>2. pc[p] \notin Held
    BY <1>0, <1>4 DEF LockInv, HolderInv, TypeInv, RunsOK, Held, NoFile
  <2>3. Within' = Within
    BY <1>2, <2>2 DEF Within
  <2> QED
    BY <2>1, <2>3
<1> QED
  BY <1>3, <1>4

\* The lock file that is removed is the remover's.
LEMMA RemoveReturns ==
  ASSUME TypeInv, LockInv, NEW p \in Procs, pc[p] \in Held \cup {"created"}, Leave(p), file' = NoFile
  PROVE  Mutex!Return(p)
<1>0. pc \in [Procs -> {"idle", "waiting", "created"} \cup Held]
  BY DEF TypeInv, TypeOK
<1>1. mine[p] # 0 /\ mine[p] = file.id
  BY DEF LockInv, HolderInv, TypeInv, RunsOK, Held
<1>2. Holder = p /\ Holder' = "free"
  BY <1>1, HolderNow DEF Holder
<1>3. Within' = Within \ {p}
  BY <1>0 DEF Leave, Goto, Within, Held
<1> QED
  BY <1>2, <1>3 DEF Mutex!Return, Within

\* Every step of the lock file is a step of the lock, or none.
LEMMA MutexStep ==
  ASSUME TypeInv, LockInv, TypeInv', [Next]_vars
  PROVE  [Mutex!Next]_<<Holder, Within>>
<1>0. /\ pc \in [Procs -> {"idle", "waiting", "created"} \cup Held] /\ mine \in [Procs -> 0 .. Len(runs)]
      /\ file \in LockFile /\ file.id \in 0 .. Len(runs) /\ (file # NoFile => file.id # 0)
      /\ Len(runs) \in Nat
  BY DEF TypeInv, TypeOK, RunsOK
<1>1. Holder = HolderIn(file, mine) /\ Holder' = HolderIn(file', mine')
  BY DEF Holder, HolderIn
<1>2. CASE UNCHANGED <<file, pc, mine>>
  BY <1>2 DEF Holder, Within
<1>3. ASSUME NEW p \in Procs, NEW kind \in Kinds, Start(p, kind) PROVE UNCHANGED <<Holder, Within>>
  <2>1. /\ file' = file /\ pc[p] = "idle" /\ pc' = [pc EXCEPT ![p] = "waiting"]
        /\ mine' = [mine EXCEPT ![p] = Len(runs) + 1] /\ mine[p] = 0
    BY <1>3 DEF Start, Goto, TypeInv, RunsOK
  <2>2. file # NoFile => \A q \in Procs : mine[q] = file.id <=> mine'[q] = file.id
    BY <1>0, <2>1
  <2>3. HolderIn(file, mine) = HolderIn(file, mine')
    BY <2>2, HolderSame
  <2>4. Within' = Within
    BY <1>0, <2>1 DEF Within, Held
  <2> QED
    BY <1>1, <2>1, <2>3, <2>4
<1>4. ASSUME NEW p \in Procs, Create(p) PROVE Mutex!Take(p)
  <2>1. /\ Holder = "free" /\ file'.id = mine[p] /\ mine' = mine /\ mine[p] # 0
        /\ pc[p] = "waiting" /\ pc' = [pc EXCEPT ![p] = "created"]
    BY <1>4 DEF Create, Goto, Holder, TypeInv, RunsOK
  <2>2. \A q \in Procs : mine'[q] = mine'[p] => q = p
    BY <2>1 DEF TypeInv, RunsOK
  <2>3. file' # NoFile
    BY <2>1 DEF NoFile
  <2>4. Holder' = p
    BY <1>1, <2>1, <2>2, <2>3, HolderIs
  <2>5. Within' = Within
    BY <1>0, <2>1 DEF Within, Held
  <2> QED
    BY <2>1, <2>4, <2>5 DEF Mutex!Take, Within
<1>5. ASSUME NEW p \in Procs, WritePayload(p) PROVE Mutex!Enter(p)
  <2>1. /\ pc[p] = "created" /\ pc' = [pc EXCEPT ![p] = "holding"] /\ mine' = mine
        /\ mine[p] = file.id /\ mine[p] # 0
        /\ file' = [file EXCEPT !.written = TRUE]
    BY <1>5 DEF WritePayload, Goto, LockInv, HolderInv, TypeInv, RunsOK
  <2>2. Holder = p /\ file # NoFile
    BY <2>1, HolderNow
  <2>3. file'.id = file.id /\ file' # NoFile
    BY <1>0, <2>1 DEF LockFile, NoFile
  <2>4. HolderIn(file, mine) = HolderIn(file', mine)
    BY <2>2, <2>3, HolderSame
  <2>5. Within' = Within \cup {p}
    BY <1>0, <2>1 DEF Within, Held
  <2> QED
    BY <1>1, <2>1, <2>2, <2>4, <2>5 DEF Mutex!Enter, Within
<1>6. ASSUME NEW p \in Procs, FailPayload(p) \/ Unlink(p) PROVE Mutex!Return(p)
  <2>1. pc[p] \in Held \cup {"created"} /\ Leave(p) /\ file' = NoFile
    BY <1>6 DEF FailPayload, Unlink, Held
  <2> QED
    BY <2>1, RemoveReturns
<1>7. ASSUME NEW p \in Procs, Timeout(p) \/ (CheckOwner(p) /\ Leave(p)) \/ Crash(p)
      PROVE  [Mutex!Return(p)]_<<Holder, Within>>
  BY <1>7, LeaveReturns DEF Timeout, CheckOwner, Crash
<1>8. ASSUME NEW p \in Procs,
             \/ BeginOperation(p) \/ AppendEvent(p) \/ Complete(p) \/ Fail(p) \/ Refuse(p)
             \/ (CheckOwner(p) /\ ~Leave(p))
      PROVE  UNCHANGED <<Holder, Within>>
  <2>1. /\ file' = file /\ mine' = mine /\ pc[p] \in Held
        /\ \E step \in Held : pc' = [pc EXCEPT ![p] = step]
    BY <1>8 DEF BeginOperation, AppendEvent, Complete, Fail, Refuse, CheckOwner, Goto, Held
  <2> QED
    BY <1>0, <2>1 DEF Holder, Within
<1>9. CASE Age
  <2>1. /\ UNCHANGED <<pc, mine>> /\ file # NoFile /\ file' = [file EXCEPT !.old = TRUE]
    BY <1>9 DEF Age
  <2>2. file'.id = file.id /\ file # NoFile /\ file' # NoFile
    BY <1>0, <2>1 DEF LockFile, NoFile
  <2>3. HolderIn(file, mine) = HolderIn(file', mine)
    BY <2>2, HolderSame
  <2> QED
    BY <1>1, <2>1, <2>3 DEF Within
<1>10. CASE Isolate
  <2>1. /\ file.id # 0 /\ \A p \in Procs : mine[p] # file.id
        /\ file' = NoFile /\ UNCHANGED <<pc, mine>>
    BY <1>10 DEF Isolate, LockInv, StaleIsDead
  <2>2. Holder = "orphan" /\ Holder' = "free"
    BY <2>1 DEF Holder, NoFile
  <2> QED
    BY <2>1, <2>2 DEF Mutex!Next, Mutex!Clear, Within
<1>11. CASE Doctor \/ UNCHANGED vars
  BY <1>2, <1>11 DEF Doctor, ReadOperations, ReadEvents, ReadLock, Again, vars
<1>12. ASSUME NEW p \in Procs, Writer(p) PROVE [Mutex!Next]_<<Holder, Within>>
  <2>1. CASE \E kind \in Kinds : Start(p, kind)
    BY <2>1, <1>3
  <2>2. CASE Create(p) \/ WritePayload(p) \/ FailPayload(p) \/ Unlink(p)
    BY <2>2, <1>4, <1>5, <1>6 DEF Mutex!Next
  <2>3. CASE Timeout(p) \/ CheckOwner(p) \/ Crash(p)
    BY <2>3, <1>7, <1>8 DEF Mutex!Next
  <2>4. CASE BeginOperation(p) \/ AppendEvent(p) \/ Complete(p) \/ Fail(p) \/ Refuse(p)
    BY <2>4, <1>8
  <2> QED
    BY <1>12, <2>1, <2>2, <2>3, <2>4 DEF Writer
<1> QED
  BY <1>9, <1>10, <1>11, <1>12 DEF Next

\* The lock file, created, written, compared and unlinked in steps and moved away
\* by hand, is a lock: taken when it is free, given back by its holder or left
\* by its death, and cleared only then.
THEOREM Implements == Spec => ImplementsMutex
<1>1. Init => Mutex!Init
  BY DEF Init, Mutex!Init, Holder, Held
<1>2. /\ TypeInv /\ LockInv
      /\ (TypeInv /\ LockInv)'
      /\ [Next]_vars
      => [Mutex!Next]_<<Holder, Within>>
  BY MutexStep
<1>3. Spec => Mutex!Init /\ [][Mutex!Next]_<<Holder, Within>>
  BY <1>1, <1>2, LockInvariant, PTL DEF Spec
<1> QED
  BY <1>3, PTL DEF ImplementsMutex, Mutex!Spec, Within

-----------------------------------------------------------------------------
(* What Doctor makes of operations, events and lock read at different times *)

\* A run begins one operation at most, after it started; who writes, writes the
\* last one; a completed one has its event, unless its kind has none.
Audited(n) == runs[ops[n].run].kind \notin Unaudited

BeginsLater ==
  /\ \A i \in DOMAIN runs : runs[i].before \in 0 .. Len(ops)
  /\ \A n \in DOMAIN ops : runs[ops[n].run].before < n

OneOperation ==
  /\ \A n, m \in DOMAIN ops : ops[n].run = ops[m].run => n = m
  /\ \A p \in Procs, n \in DOMAIN ops :
       pc[p] \in {"waiting", "created", "holding"} => ops[n].run # mine[p]

WritesLast ==
  \A p \in Procs :
    /\ pc[p] \in {"writing", "logged"} => ops[Len(ops)].run = mine[p]
    /\ pc[p] = "logged" => Len(ops) \in events

CompletedHasEvent == \A n \in DOMAIN ops : ops[n].status = "completed" /\ Audited(n) => n \in events

OpsInv == BeginsLater /\ OneOperation /\ WritesLast /\ CompletedHasEvent

\* What Doctor has read is what there was: operations under their numbers, and
\* of those it saw completed the event, once it has read the log.
SeenInv ==
  \A n \in DOMAIN snapshot :
    /\ snapshot[n].run = ops[n].run
    /\ snapshot[n].status = "completed" /\ Audited(n) =>
         n \in events /\ (dpc = "lock" => n \in logged)

\* Runs and operations of before are still what they were.
LEMMA RunsKept ==
  ASSUME TypeInv, [Next]_vars
  PROVE  /\ \A i \in DOMAIN runs : i \in DOMAIN runs' /\ runs'[i] = runs[i]
         /\ \A n \in DOMAIN ops : n \in DOMAIN ops' /\ ops'[n].run = ops[n].run
         /\ \A n \in DOMAIN ops : (Audited(n))' <=> Audited(n)
         /\ events \subseteq events'
<1>0. /\ runs \in Seq(Run) /\ ops \in Seq(Operation)
      /\ \A p \in Procs : pc[p] \in {"writing", "logged"} => ops # <<>>
  BY DEF TypeInv, TypeOK, RunsOK
<1>1. \A i \in DOMAIN runs : i \in DOMAIN runs' /\ runs'[i] = runs[i]
  <2>1. ASSUME NEW p \in Procs, NEW kind \in Kinds, Start(p, kind)
        PROVE  \A i \in DOMAIN runs : i \in DOMAIN runs' /\ runs'[i] = runs[i]
    BY <1>0, <2>1 DEF Start
  <2>2. runs' = runs \/ \E p \in Procs, kind \in Kinds : Start(p, kind)
    BY DEF Next, Writer, Doctor, Create, Timeout, WritePayload, FailPayload, BeginOperation, AppendEvent,
       Complete, Fail, Refuse, CheckOwner, Unlink, Crash, Age, Isolate, ReadOperations, ReadEvents,
       ReadLock, Again, vars
  <2> QED
    BY <2>1, <2>2
<1>2. (\A n \in DOMAIN ops : n \in DOMAIN ops' /\ ops'[n].run = ops[n].run) /\ events \subseteq events'
  <2>1. ASSUME NEW p \in Procs, BeginOperation(p)
        PROVE  (\A n \in DOMAIN ops : n \in DOMAIN ops' /\ ops'[n].run = ops[n].run) /\ events' = events
    BY <1>0, <2>1 DEF BeginOperation
  <2>2. ASSUME NEW p \in Procs, Complete(p) \/ Fail(p)
        PROVE  (\A n \in DOMAIN ops : n \in DOMAIN ops' /\ ops'[n].run = ops[n].run) /\ events' = events
    <3>1. ops # <<>>
      BY <1>0, <2>2 DEF Complete, Fail
    <3> QED
      BY <1>0, <2>2, <3>1, SettleType DEF Complete, Fail
  <2>3. \/ ops' = ops /\ events \subseteq events'
        \/ \E p \in Procs : BeginOperation(p) \/ Complete(p) \/ Fail(p)
    BY DEF Next, Writer, Doctor, Start, Create, Timeout, WritePayload, FailPayload, AppendEvent,
       Refuse, CheckOwner, Unlink, Crash, Age, Isolate, ReadOperations, ReadEvents,
       ReadLock, Again, vars
  <2> QED
    BY <2>1, <2>2, <2>3
<1>3. \A n \in DOMAIN ops : ops[n].run \in DOMAIN runs
  BY DEF TypeInv, RunsOK
<1> QED
  BY <1>1, <1>2, <1>3 DEF Audited

LEMMA OpsNext == TypeInv /\ TypeInv' /\ LockInv /\ OpsInv /\ [Next]_vars => OpsInv'
<1> SUFFICES ASSUME TypeInv, TypeInv', LockInv, OpsInv, [Next]_vars PROVE OpsInv'
  OBVIOUS
<1>0. /\ pc \in [Procs -> {"idle", "waiting", "created"} \cup Held] /\ mine \in [Procs -> 0 .. Len(runs)]
      /\ runs \in Seq(Run) /\ ops \in Seq(Operation)
      /\ Len(runs) \in Nat /\ DOMAIN runs = 1 .. Len(runs)
      /\ Len(ops) \in Nat /\ DOMAIN ops = 1 .. Len(ops)
      /\ \A n \in DOMAIN ops : ops[n].run \in DOMAIN runs
  BY DEF TypeInv, TypeOK, RunsOK
\* Only one process at a time writes or is about to.
<1>a. \A p, q \in Procs : pc[p] \in Held /\ pc[q] \in Held => p = q
  <2> SUFFICES ASSUME NEW p \in Procs, NEW q \in Procs, pc[p] \in Held, pc[q] \in Held PROVE p = q
    OBVIOUS
  <2>1. mine[p] = mine[q] /\ mine[p] # 0
    BY DEF LockInv, HolderInv, TypeInv, RunsOK, Held
  <2> QED
    BY <2>1 DEF TypeInv, RunsOK
<1> USE DEF OpsInv
<1>1. CASE UNCHANGED <<pc, mine, runs, ops, events>>
  BY <1>1 DEF BeginsLater, OneOperation, WritesLast, CompletedHasEvent, Audited
<1>2. ASSUME NEW p \in Procs, NEW kind \in Kinds, Start(p, kind) PROVE OpsInv'
  <2> DEFINE r == [proc |-> p, kind |-> kind, before |-> Len(ops)]
  <2>1. /\ runs' = Append(runs, r)
        /\ mine' = [mine EXCEPT ![p] = Len(runs) + 1] /\ pc' = [pc EXCEPT ![p] = "waiting"]
        /\ UNCHANGED <<ops, events>>
    BY <1>2 DEF Start, Goto
  <2>2. r.before = Len(ops) /\ r \in Run
    BY <1>0 DEF Run
  <2> HIDE DEF r
  <2>3. /\ DOMAIN runs' = 1 .. Len(runs) + 1 /\ runs'[Len(runs) + 1] = r
        /\ \A i \in DOMAIN runs : runs'[i] = runs[i]
    BY <1>0, <2>1, <2>2
  <2>4. BeginsLater'
    BY <1>0, <2>1, <2>2, <2>3 DEF BeginsLater
  <2>5. \A n \in DOMAIN ops : ops[n].run # Len(runs) + 1
    BY <1>0
  <2>6. OneOperation' /\ WritesLast'
    BY <1>0, <2>1, <2>5 DEF OneOperation, WritesLast
  <2>7. CompletedHasEvent'
    BY <1>0, <2>1, <2>3 DEF CompletedHasEvent, Audited
  <2> QED
    BY <2>4, <2>6, <2>7
<1>3. ASSUME NEW p \in Procs,
             \/ Create(p) \/ Timeout(p) \/ WritePayload(p) \/ FailPayload(p) \/ Refuse(p)
             \/ CheckOwner(p) \/ Unlink(p) \/ Crash(p)
      PROVE  OpsInv'
  <2>1. /\ UNCHANGED <<runs, ops, events>>
        /\ \A q \in Procs : \/ pc'[q] \in {"idle", "done", "releasing"}
                            \/ mine'[q] = mine[q] /\ pc'[q] = pc[q]
                            \/ /\ mine'[q] = mine[q] /\ pc[q] \in {"waiting", "created", "holding"}
                               /\ pc'[q] \in {"created", "holding"}
    BY <1>0, <1>3
    DEF Create, Timeout, WritePayload, FailPayload, Refuse, CheckOwner, Unlink, Crash, Leave, Goto
  <2> QED
    BY <2>1 DEF BeginsLater, OneOperation, WritesLast, CompletedHasEvent, Audited
<1>4. ASSUME NEW p \in Procs, BeginOperation(p) PROVE OpsInv'
  <2> DEFINE o == [run |-> mine[p], status |-> "running"]
  <2>1. /\ pc[p] = "holding" /\ pc' = [pc EXCEPT ![p] = "writing"]
        /\ ops' = Append(ops, o)
        /\ UNCHANGED <<runs, mine, events>>
    BY <1>4 DEF BeginOperation, Goto
  <2>2. o.run = mine[p] /\ o.status = "running"
    OBVIOUS
  <2> HIDE DEF o
  <2>3. /\ DOMAIN ops' = 1 .. Len(ops) + 1 /\ Len(ops') = Len(ops) + 1
        /\ \A n \in DOMAIN ops : ops'[n] = ops[n]
        /\ ops'[Len(ops) + 1] = o
    BY <1>0, <2>1
  <2>4. mine[p] \in DOMAIN runs
    BY <1>0, <2>1 DEF TypeInv, RunsOK
  <2>5. BeginsLater'
    BY <1>0, <2>1, <2>2, <2>3, <2>4 DEF BeginsLater
  <2>6. \A q \in Procs : q # p /\ pc[q] # "idle" => mine[q] # mine[p]
    BY DEF TypeInv, RunsOK
  <2>7. \A q \in Procs : q # p => pc'[q] = pc[q] /\ pc[q] \notin Held
    BY <1>0, <1>a, <2>1 DEF Held
  <2>8. OneOperation'
    BY <1>0, <2>1, <2>2, <2>3, <2>6, <2>7 DEF OneOperation
  <2>9. WritesLast'
    BY <1>0, <2>1, <2>2, <2>3, <2>7 DEF WritesLast, Held
  <2>10. CompletedHasEvent'
    BY <1>0, <2>1, <2>2, <2>3 DEF CompletedHasEvent, Audited
  <2> QED
    BY <2>5, <2>8, <2>9, <2>10
<1>5. ASSUME NEW p \in Procs, AppendEvent(p) PROVE OpsInv'
  <2>1. /\ pc[p] = "writing" /\ pc' = [pc EXCEPT ![p] = "logged"]
        /\ events' = events \cup {Len(ops)}
        /\ UNCHANGED <<runs, mine, ops>>
    BY <1>5 DEF AppendEvent, Goto
  <2> QED
    BY <1>0, <2>1 DEF BeginsLater, OneOperation, WritesLast, CompletedHasEvent, Audited
<1>6. ASSUME NEW p \in Procs, Complete(p) \/ Fail(p) PROVE OpsInv'
  <2>1. /\ pc[p] \in {"writing", "logged"} /\ pc' = [pc EXCEPT ![p] = "done"]
        /\ UNCHANGED <<mine, runs, events>>
        /\ (ops' = ops \/ Settle("failed") \/ Settle("completed"))
    BY <1>6 DEF Complete, Fail, Goto
  <2>2. ops # <<>>
    BY <2>1 DEF TypeInv, RunsOK
  <2>3. /\ DOMAIN ops' = DOMAIN ops /\ Len(ops') = Len(ops)
        /\ \A n \in DOMAIN ops : ops'[n].run = ops[n].run
        /\ \A n \in DOMAIN ops : n # Len(ops) => ops'[n] = ops[n]
    BY <1>0, <2>1, <2>2, SettleType
  <2>4. \A q \in Procs : q # p => pc'[q] = pc[q]
    BY <1>0, <2>1
  <2>5. BeginsLater' /\ OneOperation' /\ WritesLast'
    <3>1. BeginsLater'
      BY <2>1, <2>3 DEF BeginsLater
    <3>2. OneOperation'
      BY <1>0, <2>1, <2>3, <2>4 DEF OneOperation
    <3>3. \A q \in Procs : pc'[q] \notin {"writing", "logged"}
      BY <1>0, <1>a, <2>1, <2>4 DEF Held
    <3>4. WritesLast'
      BY <3>3 DEF WritesLast
    <3> QED
      BY <3>1, <3>2, <3>4
  <2>6. ops'[Len(ops)].status = "completed" /\ Audited(Len(ops)) =>
          ops[Len(ops)].status = "completed" \/ Len(ops) \in events
    <3>1. CASE Fail(p)
      BY <1>0, <2>2, <3>1, SettleType DEF Fail
    <3>2. CASE Complete(p)
      BY <1>0, <2>2, <3>2 DEF Complete, WritesLast, Audited
    <3> QED
      BY <1>6, <3>1, <3>2
  <2>7. CompletedHasEvent'
    BY <1>0, <2>1, <2>2, <2>3, <2>6 DEF CompletedHasEvent, Audited
  <2> QED
    BY <2>5, <2>7
<1>7. CASE Doctor \/ Age \/ Isolate \/ UNCHANGED vars
  BY <1>1, <1>7 DEF Doctor, ReadOperations, ReadEvents, ReadLock, Again, Age, Isolate, vars
<1> QED
  BY <1>2, <1>3, <1>4, <1>5, <1>6, <1>7 DEF Next, Writer

LEMMA SeenNext == TypeInv /\ OpsInv /\ SeenInv /\ [Next]_vars => SeenInv'
<1> SUFFICES ASSUME TypeInv, OpsInv, SeenInv, [Next]_vars PROVE SeenInv'
  OBVIOUS
<1>0. DOMAIN snapshot \subseteq DOMAIN ops /\ events \subseteq DOMAIN ops
  BY DEF TypeInv, TypeOK, RunsOK
<1>1. CASE UNCHANGED doctorVars
  BY <1>0, <1>1, RunsKept DEF doctorVars, SeenInv
<1>2. CASE ReadOperations
  <2>1. snapshot' = ops /\ dpc' = "events" /\ UNCHANGED <<runs, ops, events>>
    BY <1>2 DEF ReadOperations
  <2> QED
    BY <2>1 DEF SeenInv, OpsInv, CompletedHasEvent, Audited
<1>3. CASE ReadEvents
  BY <1>3 DEF ReadEvents, SeenInv, Audited
<1>4. CASE ReadLock \/ Again
  <2>1. /\ dpc' # "lock" /\ UNCHANGED <<runs, ops, events>>
        /\ snapshot' = snapshot \/ snapshot' = <<>>
    BY <1>4 DEF ReadLock, Again
  <2> QED
    BY <2>1 DEF SeenInv, Audited
<1> QED
  BY <1>1, <1>2, <1>3, <1>4 DEF Next, Writer, Doctor, Start, Create, Timeout, WritePayload, FailPayload,
     BeginOperation, AppendEvent, Complete, Fail, Refuse, CheckOwner, Unlink, Crash, Age, Isolate, vars

LEMMA OpsInit == Init => OpsInv /\ SeenInv
BY DEF Init, OpsInv, BeginsLater, OneOperation, WritesLast, CompletedHasEvent, SeenInv

\* Operations and events follow their writers, and what Doctor read of them is
\* what was there when it did.
THEOREM DoctorInvariant == Spec => [](TypeInv /\ LockInv /\ OpsInv /\ SeenInv)
<1>1. TypeInv /\ LockInv /\ OpsInv /\ SeenInv /\ [Next]_vars /\ TypeInv' => OpsInv' /\ SeenInv'
  BY OpsNext, SeenNext
<1> QED
  BY <1>1, LockInvariant, OpsInit, PTL DEF Spec

\* Doctor never misses the event of an operation it saw completed, although it
\* reads the log later, with the writer at work.
THEOREM NoneMissed == Spec => []NoEventMissed
<1>1. Init => NoEventMissed
  BY DEF Init, NoEventMissed
<1>2. TypeInv /\ SeenInv /\ NoEventMissed /\ [Next]_vars => NoEventMissed'
  <2> SUFFICES ASSUME TypeInv, SeenInv, NoEventMissed, [Next]_vars PROVE NoEventMissed'
    OBVIOUS
  <2>1. CASE ReadLock
    <3>1. PICK lock : verdict' = [n \in DOMAIN snapshot |-> Verdict(n, lock)]
      BY <2>1 DEF ReadLock
    <3>2. dpc = "lock" /\ DOMAIN snapshot \subseteq DOMAIN ops
      BY <2>1 DEF ReadLock, TypeInv, RunsOK
    <3>3. \A n \in DOMAIN snapshot : snapshot[n].status \in {"running", "completed", "failed"}
      <4>1. \A n \in DOMAIN snapshot : snapshot[n] \in Operation
        BY DEF TypeInv, TypeOK
      <4> QED
        BY <4>1 DEF Operation
    <3>4. ASSUME NEW n \in DOMAIN snapshot PROVE Verdict(n, lock) # "missing-completion-event"
      <4>1. CASE snapshot[n].status = "completed"
        <5>1. runs[snapshot[n].run].kind \notin Unaudited => n \in logged
          BY <3>2, <4>1 DEF SeenInv, Audited
        <5> QED
          BY <4>1, <5>1 DEF Verdict
      <4>2. CASE snapshot[n].status # "completed"
        BY <3>3, <4>2 DEF Verdict
      <4> QED
        BY <4>1, <4>2
    <3> QED
      BY <3>1, <3>4 DEF NoEventMissed
  <2>2. CASE Again
    BY <2>2 DEF Again, NoEventMissed
  <2>3. CASE verdict' = verdict
    BY <2>3 DEF NoEventMissed
  <2> QED
    BY <2>1, <2>2, <2>3 DEF Next, Writer, Doctor, Start, Create, Timeout, WritePayload, FailPayload,
       BeginOperation, AppendEvent, Complete, Fail, Refuse, CheckOwner, Unlink, Crash, Age, Isolate,
       ReadOperations, ReadEvents, vars, doctorVars
<1> QED
  BY <1>1, <1>2, DoctorInvariant, PTL DEF Spec

-----------------------------------------------------------------------------
(* An operation Doctor calls orphaned is over *)

\* Nobody is in the middle of an operation it calls orphaned when it reads the
\* lock: the lock is that of its writer, who lives and began it last.
LEMMA OrphanOnRead ==
  ASSUME TypeInv, LockInv, OpsInv, SeenInv, ReadLock
  PROVE  OrphanIsOver'
<1>1. PICK pid_exists \in BOOLEAN :
        /\ (\E p \in Procs : mine[p] = file.id) => pid_exists
        /\ verdict' = [n \in DOMAIN snapshot |-> Verdict(n, Classify(pid_exists))]
  BY DEF ReadLock
<1>2. UNCHANGED <<file, pc, mine, runs, ops, events>>
  BY DEF ReadLock
<1> SUFFICES ASSUME NEW n \in DOMAIN snapshot, NEW p \in Procs,
                    Verdict(n, Classify(pid_exists)) = "orphan-running-operation",
                    mine[p] = ops[n].run, pc[p] \in {"writing", "logged"}
             PROVE  FALSE
  BY <1>1, <1>2 DEF OrphanIsOver
<1>3. /\ DOMAIN snapshot \subseteq DOMAIN ops /\ snapshot[n].run = ops[n].run
      /\ snapshot[n].status \in {"running", "completed", "failed"}
      /\ ops \in Seq(Operation) /\ Len(ops) \in Nat /\ DOMAIN ops = 1 .. Len(ops)
  <2>1. snapshot \in Seq(Operation) /\ ops \in Seq(Operation)
    BY DEF TypeInv, TypeOK
  <2>2. snapshot[n] \in Operation
    BY <2>1
  <2>3. DOMAIN snapshot \subseteq DOMAIN ops /\ snapshot[n].run = ops[n].run
    BY DEF SeenInv, TypeInv, RunsOK
  <2> QED
    BY <2>1, <2>2, <2>3 DEF Operation
<1>4. snapshot[n].status = "running"
  BY <1>3 DEF Verdict
<1>5. file.id = mine[p] /\ file.written /\ mine[p] # 0 /\ pid_exists
  BY <1>1 DEF LockInv, HolderInv, Held, TypeInv, RunsOK
<1>6. file # NoFile
  BY <1>5 DEF NoFile
<1>7. Classify(pid_exists) \in {"cross-host", "active"}
  BY <1>5, <1>6 DEF Classify
<1>8. Matches(n)
  BY <1>3, <1>4, <1>5 DEF Matches, OpsInv, BeginsLater
<1>9. n = Len(ops)
  BY <1>3 DEF OpsInv, WritesLast, OneOperation
<1>10. \A m \in DOMAIN snapshot : Matches(m) => m <= n
  BY <1>3, <1>9
<1> QED
  BY <1>4, <1>7, <1>8, <1>10 DEF Verdict

\* Who is told that nobody carries on an operation may rely on it: no process
\* is in the middle of it, then or later.
THEOREM Orphans == Spec => []OrphanIsOver
<1>1. Init => OrphanIsOver
  BY DEF Init, OrphanIsOver
<1>2. TypeInv /\ LockInv /\ OpsInv /\ SeenInv /\ OrphanIsOver /\ [Next]_vars => OrphanIsOver'
  <2> SUFFICES ASSUME TypeInv, LockInv, OpsInv, SeenInv, OrphanIsOver, [Next]_vars PROVE OrphanIsOver'
    OBVIOUS
  <2>1. CASE ReadLock
    BY <2>1, OrphanOnRead
  <2>2. CASE Again
    BY <2>2 DEF Again, OrphanIsOver
  <2>3. CASE verdict' = verdict
    <3>1. DOMAIN verdict \subseteq DOMAIN ops /\ \A n \in DOMAIN ops : ops'[n].run = ops[n].run
      BY RunsKept DEF TypeInv, TypeOK
    <3>2. ASSUME NEW p \in Procs, NEW n \in DOMAIN ops,
                 pc'[p] \in {"writing", "logged"}, mine'[p] = ops[n].run
          PROVE  pc[p] \in {"writing", "logged"} /\ mine[p] = ops[n].run
      <4>1. mine'[p] = mine[p] /\ pc[p] \in {"holding", "writing", "logged"}
        BY <3>2, ZenonT(60) DEF Next, Writer, Doctor, Start, Create, Timeout, WritePayload, FailPayload,
           BeginOperation, AppendEvent, Complete, Fail, Refuse, CheckOwner, Unlink, Crash, Age, Isolate,
           ReadOperations, ReadEvents, ReadLock, Again, Leave, Goto, vars, TypeInv, TypeOK
      <4> QED
        BY <3>2, <4>1 DEF OpsInv, OneOperation
    <3> QED
      BY <2>3, <3>1, <3>2 DEF OrphanIsOver
  <2> QED
    BY <2>1, <2>2, <2>3 DEF Next, Writer, Doctor, Start, Create, Timeout, WritePayload, FailPayload,
       BeginOperation, AppendEvent, Complete, Fail, Refuse, CheckOwner, Unlink, Crash, Age, Isolate,
       ReadOperations, ReadEvents, vars, doctorVars
<1> QED
  BY <1>1, <1>2, DoctorInvariant, PTL DEF Spec

=============================================================================
