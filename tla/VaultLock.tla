------------------------------ MODULE VaultLock ------------------------------
(***************************************************************************)
(* The lock file of a vault and the Doctor that judges it.  VaultLock      *)
(* creates .meta/lock.json exclusively and writes its payload afterwards,  *)
(* releases only a file with its own lock_id, and may die at any moment.   *)
(* Doctor takes no lock: it reads operations.json, then the change log,    *)
(* then lock.json, and reports which operations nobody carries on and      *)
(* whether the lock is stale.  Maintain, an agent, moves a stale lock out  *)
(* of the way once the user has confirmed it.                              *)
(*                                                                         *)
(* What a writer does under its lock is reduced to what Doctor reads: an   *)
(* operation is begun, its event appended, its status settled.  The whole  *)
(* of it is VaultTransaction, where the lock is one variable.              *)
(***************************************************************************)
EXTENDS Naturals, Sequences

CONSTANTS Procs, Hosts,
          HostOf,      \* the host of each process
          DoctorHost,  \* the host Doctor runs on
          Kinds,       \* commands
          Unaudited,   \* kinds that leave no event: projection-rebuild
          MaxRuns, MaxCrashes  \* bounds on commands started and processes killed

ASSUME HostsAssumption == /\ HostOf \in [Procs -> Hosts]
                          /\ DoctorHost \in Hosts
                          /\ Unaudited \subseteq Kinds

\* A run of a command: its lock_id is its number.  acquired_at is taken when the
\* wait begins; before stands for it: the operations begun by then.
Run == [proc : Procs, kind : Kinds, before : Nat]
LockFile == [id : Nat, written : BOOLEAN, old : BOOLEAN]
NoFile == [id |-> 0, written |-> FALSE, old |-> FALSE]
Operation == [run : Nat, status : {"running", "completed", "failed"}]

VARIABLES
  file,     \* .meta/lock.json; old once it is older than the TTL
  pc, mine, \* where each process is, and the run it is in, 0 if none
  runs,     \* the commands started
  ops,      \* .meta/operations.json
  events,   \* the operations that have a completed event
  dpc,      \* what Doctor reads next
  snapshot, \* the operations it read
  logged,   \* the events it read
  verdict,  \* what it says of each operation
  stale,    \* the lock_id it reported as stale, 0 if none
  crashes

doctorVars == <<dpc, snapshot, logged, verdict, stale>>
vars == <<file, pc, mine, runs, ops, events, doctorVars, crashes>>

Init ==
  /\ file = NoFile
  /\ pc = [p \in Procs |-> "idle"]
  /\ mine = [p \in Procs |-> 0]
  /\ runs = <<>>
  /\ ops = <<>>
  /\ events = {}
  /\ dpc = "operations"
  /\ snapshot = <<>>
  /\ logged = {}
  /\ verdict = <<>>
  /\ stale = 0
  /\ crashes = 0

-----------------------------------------------------------------------------
(* Writers *)

Goto(p, step) == pc' = [pc EXCEPT ![p] = step]

Leave(p) == Goto(p, "idle") /\ mine' = [mine EXCEPT ![p] = 0]

\* acquire() prepares the payload, then tries until its deadline.
Start(p, kind) ==
  /\ pc[p] = "idle"
  /\ Len(runs) < MaxRuns
  /\ runs' = Append(runs, [proc |-> p, kind |-> kind, before |-> Len(ops)])
  /\ mine' = [mine EXCEPT ![p] = Len(runs) + 1]
  /\ Goto(p, "waiting")
  /\ UNCHANGED <<file, ops, events, doctorVars, crashes>>

\* O_CREAT | O_EXCL: the file is there, and empty.
Create(p) ==
  /\ pc[p] = "waiting"
  /\ file = NoFile
  /\ file' = [id |-> mine[p], written |-> FALSE, old |-> FALSE]
  /\ Goto(p, "created")
  /\ UNCHANGED <<mine, runs, ops, events, doctorVars, crashes>>

Timeout(p) ==
  /\ pc[p] = "waiting"
  /\ file # NoFile
  /\ Leave(p)
  /\ UNCHANGED <<file, runs, ops, events, doctorVars, crashes>>

\* The payload goes to the file that was opened, wherever it is now.
WritePayload(p) ==
  /\ pc[p] = "created"
  /\ file' = IF file.id = mine[p] THEN [file EXCEPT !.written = TRUE] ELSE file
  /\ Goto(p, "holding")
  /\ UNCHANGED <<mine, runs, ops, events, doctorVars, crashes>>

\* The payload cannot be written: whatever has the name is removed.
FailPayload(p) ==
  /\ pc[p] = "created"
  /\ file' = NoFile
  /\ Leave(p)
  /\ UNCHANGED <<runs, ops, events, doctorVars, crashes>>

BeginOperation(p) ==
  /\ pc[p] = "holding"
  /\ ops' = Append(ops, [run |-> mine[p], status |-> "running"])
  /\ Goto(p, "writing")
  /\ UNCHANGED <<file, mine, runs, events, doctorVars, crashes>>

\* The operation of p: the last one, since p alone writes.
Settle(status) == ops' = [ops EXCEPT ![Len(ops)].status = status]

AppendEvent(p) ==
  /\ pc[p] = "writing"
  /\ runs[mine[p]].kind \notin Unaudited
  /\ events' = events \cup {Len(ops)}
  /\ Goto(p, "logged")
  /\ UNCHANGED <<file, mine, runs, ops, doctorVars, crashes>>

\* Seeded fault: the operation is completed before its event is appended.
CompleteEarly(p) ==
  /\ pc[p] \in {"writing", "logged"}
  /\ Settle("completed")
  /\ IF pc[p] = "logged" THEN Goto(p, "done") ELSE pc' = pc
  /\ UNCHANGED <<file, mine, runs, events, doctorVars, crashes>>

Complete(p) ==
  /\ \/ pc[p] = "logged"
     \/ pc[p] = "writing" /\ runs[mine[p]].kind \in Unaudited
  /\ Settle("completed")
  /\ Goto(p, "done")
  /\ UNCHANGED <<file, mine, runs, events, doctorVars, crashes>>

\* A step fails, and perhaps the write that should record it too.
Fail(p) ==
  /\ pc[p] \in {"writing", "logged"}
  /\ Settle("failed") \/ ops' = ops
  /\ Goto(p, "done")
  /\ UNCHANGED <<file, mine, runs, events, doctorVars, crashes>>

\* The command ends without an operation: the plan is refused.
Refuse(p) ==
  /\ pc[p] = "holding"
  /\ Goto(p, "done")
  /\ UNCHANGED <<file, mine, runs, ops, events, doctorVars, crashes>>

\* release() reads the file and compares the lock_id ...
CheckOwner(p) ==
  /\ pc[p] = "done"
  /\ IF file.id = mine[p] /\ file.written THEN Goto(p, "releasing") /\ mine' = mine
     ELSE Leave(p)
  /\ UNCHANGED <<file, runs, ops, events, doctorVars, crashes>>

\* ... and unlinks what has the name then.
Unlink(p) ==
  /\ pc[p] = "releasing"
  /\ file' = NoFile
  /\ Leave(p)
  /\ UNCHANGED <<runs, ops, events, doctorVars, crashes>>

Crash(p) ==
  /\ pc[p] # "idle"
  /\ crashes < MaxCrashes
  /\ crashes' = crashes + 1
  /\ Leave(p)
  /\ UNCHANGED <<file, runs, ops, events, doctorVars>>

\* Ten minutes pass.
Age ==
  /\ file # NoFile
  /\ file' = [file EXCEPT !.old = TRUE]
  /\ UNCHANGED <<pc, mine, runs, ops, events, doctorVars, crashes>>

-----------------------------------------------------------------------------
(* Doctor *)

\* Seeded fault: an old lock is stale, whoever holds it.
ClassifyByAge(pid_exists) ==
  IF file = NoFile THEN "absent"
  ELSE IF ~file.written THEN "invalid"
  ELSE IF file.old THEN "stale"
  ELSE "active"

\* _load_lock and classify_lock.
Classify(pid_exists) ==
  IF file = NoFile THEN "absent"
  ELSE IF ~file.written THEN "invalid"
  ELSE IF HostOf[runs[file.id].proc] # DoctorHost THEN "cross-host"
  ELSE IF file.old /\ ~pid_exists THEN "stale"
  ELSE "active"

\* Seeded fault: the operation must be older than the lock.
MatchesBefore(n) ==
  /\ snapshot[n].status = "running"
  /\ runs[snapshot[n].run].kind = runs[file.id].kind
  /\ n <= runs[file.id].before

\* _lock_matches_operation: the same command, begun after acquired_at.
Matches(n) ==
  /\ snapshot[n].status = "running"
  /\ runs[snapshot[n].run].kind = runs[file.id].kind
  /\ n > runs[file.id].before

\* What _check_operations says of operation n, most serious first.
Verdict(n, lock) ==
  LET newest == \A m \in DOMAIN snapshot : Matches(m) => m <= n
      audited == runs[snapshot[n].run].kind \notin Unaudited
  IN  CASE snapshot[n].status = "running" ->
             IF lock = "active" /\ Matches(n) /\ newest THEN "active-operation"
             ELSE IF lock = "stale" /\ Matches(n) THEN "running-operation-with-stale-lock"
             ELSE IF lock = "cross-host" /\ Matches(n) THEN "none"
             ELSE "orphan-running-operation"
        [] snapshot[n].status = "completed" ->
             IF audited /\ n \notin logged THEN "missing-completion-event" ELSE "none"
        [] snapshot[n].status = "failed" -> "failed-operation"

ReadOperations ==
  /\ dpc = "operations"
  /\ snapshot' = ops
  /\ dpc' = "events"
  /\ UNCHANGED <<file, pc, mine, runs, ops, events, logged, verdict, stale, crashes>>

ReadEvents ==
  /\ dpc = "events"
  /\ logged' = events
  /\ dpc' = "lock"
  /\ UNCHANGED <<file, pc, mine, runs, ops, events, snapshot, verdict, stale, crashes>>

\* The pid of a dead process may be another process's by now.
ReadLock ==
  /\ dpc = "lock"
  /\ \E pid_exists \in BOOLEAN :
       /\ (\E p \in Procs : mine[p] = file.id) => pid_exists
       /\ LET lock == Classify(pid_exists)
          IN  /\ verdict' = [n \in DOMAIN snapshot |-> Verdict(n, lock)]
              /\ stale' = IF lock = "stale" THEN file.id ELSE 0
  /\ dpc' = "report" /\ snapshot' = <<>> /\ logged' = {}
  /\ UNCHANGED <<file, pc, mine, runs, ops, events, crashes>>

\* Doctor is run again.
Again ==
  /\ dpc = "report"
  /\ dpc' = "operations" /\ verdict' = <<>> /\ stale' = 0
  /\ UNCHANGED <<file, pc, mine, runs, ops, events, snapshot, logged, crashes>>

\* Maintain renames the lock Doctor called stale, once the user confirmed it.
Isolate ==
  /\ stale # 0
  /\ file.id = stale
  /\ file' = NoFile
  /\ UNCHANGED <<pc, mine, runs, ops, events, doctorVars, crashes>>

-----------------------------------------------------------------------------

Writer(p) ==
  \/ \E kind \in Kinds : Start(p, kind)
  \/ Create(p) \/ Timeout(p) \/ WritePayload(p) \/ FailPayload(p) \/ BeginOperation(p)
  \/ AppendEvent(p) \/ Complete(p) \/ Fail(p) \/ Refuse(p) \/ CheckOwner(p) \/ Unlink(p)
  \/ Crash(p)

Doctor == ReadOperations \/ ReadEvents \/ ReadLock \/ Again

Next == (\E p \in Procs : Writer(p)) \/ Age \/ Doctor \/ Isolate

Spec == Init /\ [][Next]_vars

-----------------------------------------------------------------------------
(* The lock without its file: VaultMutex *)

Held == {"holding", "writing", "logged", "done", "releasing"}

\* The lock of a living process, of a dead one, or none.
Holder ==
  IF file = NoFile THEN "free"
  ELSE IF \E p \in Procs : mine[p] = file.id THEN CHOOSE p \in Procs : mine[p] = file.id
  ELSE "orphan"

Mutex == INSTANCE VaultMutex WITH holder <- Holder, inside <- {p \in Procs : pc[p] \in Held}

-----------------------------------------------------------------------------
(* Properties *)

\* Every variable keeps its shape.
TypeOK ==
  /\ file \in LockFile
  /\ pc \in [Procs -> {"idle", "waiting", "created"} \cup Held]
  /\ mine \in [Procs -> 0..Len(runs)]
  /\ runs \in Seq(Run)
  /\ ops \in Seq(Operation)
  /\ events \subseteq DOMAIN ops
  /\ dpc \in {"operations", "events", "lock", "report"}
  /\ snapshot \in Seq(Operation)
  /\ logged \subseteq DOMAIN ops
  /\ DOMAIN verdict \subseteq DOMAIN ops
  /\ stale \in 0..Len(runs)
  /\ crashes \in Nat

\* Two processes never hold the lock, although a dead holder's file is moved
\* out of the way, an acquisition that fails removes whatever has the name, and
\* so does a release some time after it looked.
MutualExclusion == \A p, q \in Procs : pc[p] \in Held /\ pc[q] \in Held => p = q

\* The lock file, created, written, compared and unlinked in steps and moved away
\* by hand, is a lock: taken when it is free, given back by its holder or left
\* by its death, and cleared only then.
ImplementsMutex == Mutex!Spec

\* A lock Doctor calls stale is the lock of a dead process, and remains so
\* until the user has confirmed that it is moved.
StaleIsDead == stale # 0 => \A p \in Procs : mine[p] # stale

\* Who is told that nobody carries on an operation may rely on it: no process
\* is in the middle of it, although Doctor looks at the operations first and at
\* the lock some time later.
OrphanIsOver ==
  \A n \in DOMAIN verdict, p \in Procs :
    verdict[n] = "orphan-running-operation" =>
      ~(mine[p] = ops[n].run /\ pc[p] \in {"writing", "logged"})

\* Doctor never misses the event of an operation it saw completed, although the
\* writer is at work while it reads.
NoEventMissed == \A n \in DOMAIN verdict : verdict[n] # "missing-completion-event"

=============================================================================
