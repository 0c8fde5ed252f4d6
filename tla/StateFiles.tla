----------------------------- MODULE StateFiles -----------------------------
(***************************************************************************)
(* The machine state under .meta: how `state init` creates its files, one  *)
(* after the other, how every audited command extends change-log.jsonl,    *)
(* and what planning, appending and Doctor make of a log whose last write  *)
(* was cut short.                                                          *)
(*                                                                         *)
(* Three kinds of commands differ here in what they read and write:        *)
(* `state init`; "page-apply", for the commands that read the whole log    *)
(* when they plan and rewrite a registry (ingest and page apply); and      *)
(* "inventory", for those that never read the log but extend it.  Their    *)
(* other writes are in VaultTransaction and Inventory.                     *)
(***************************************************************************)
EXTENDS Naturals, Sequences, FiniteSets

CONSTANTS Procs,        \* processes that run llm_wiki.py
          CutNewline,   \* whether a write may be cut right before its newline
          MaxOps,       \* bound on operations
          MaxFaults     \* bound on failed writes and dead processes

ASSUME BoundsAssumption == MaxOps \in Nat /\ MaxFaults \in Nat /\ CutNewline \in BOOLEAN

ASSUME NamesAssumption == {"free", "orphan"} \cap Procs = {}

Kinds == {"state-init", "page-apply", "inventory"}

\* STATE_FILES, in the order in which they are planned and written.
StateFileNames ==
  <<"schema.json", "sources.json", "pages.json", "operations.json", "change-log.jsonl">>
StateFileSet == {StateFileNames[i] : i \in DOMAIN StateFileNames}

\* A line of the change log: a fragment of an event, an event, or text that is
\* no JSON although it is longer than a fragment (two events on one line).
Line == [text : {"fragment", "event", "junk"}, sequence : Nat, op : Nat, ended : BOOLEAN]
Operation == [kind : Kinds, status : {"running", "completed", "failed"}]

VARIABLES
  lock,       \* .meta/lock.json: "free", its living holder, or "orphan"
  pc,         \* where each process is in its command
  kind,       \* the command it runs
  todo,       \* state init: the files still to be written
  read,       \* the page registry read when the command planned
  checked,    \* the file to be created was seen absent, and is not yet there
  cur,        \* the operation of the command, 0 if none
  present,    \* the files of .meta that exist
  registry,   \* the records of pages.json, named by the operation that wrote them
  ops,        \* .meta/operations.json
  log,        \* .meta/change-log.jsonl, line by line
  faults      \* counter for the bound

vars == <<lock, pc, kind, todo, read, checked, cur, present, registry, ops, log, faults>>

-----------------------------------------------------------------------------
(* Reading the change log *)

Parses(line) == line.text = "event"
Events == {[sequence |-> log[i].sequence, op |-> log[i].op] : i \in {k \in DOMAIN log : Parses(log[k])}}

\* validate_state_file and read_change_events: every line must be an event.
LogValid == \A i \in DOMAIN log : Parses(log[i])

\* Doctor: only a last line without a line ending may be torn; the events
\* before it stay usable.  Any other bad line makes the file invalid.
DoctorVerdict ==
  CASE LogValid -> "valid"
    [] /\ ~LogValid
       /\ ~Parses(log[Len(log)]) /\ ~log[Len(log)].ended
       /\ \A i \in 1 .. Len(log) - 1 : Parses(log[i]) -> "torn-change-log-tail"
    [] OTHER -> "invalid-state-file"

\* append_change_event parses the last line, and only that one.
Appendable == log # <<>> => Parses(log[Len(log)])

\* Seeded fault: the completed operations are counted instead of the events.
NextSequenceByOps == Cardinality({n \in DOMAIN ops : ops[n].status = "completed"}) + 1

NextSequence == IF log = <<>> THEN 1 ELSE log[Len(log)].sequence + 1

\* What the file holds after the text of an event was written up to `reach`.
\* Without a newline before it the text continues the last line.
Written(reach, n) ==
  LET line == [text |-> IF reach = "fragment" THEN "fragment" ELSE "event",
               sequence |-> NextSequence, op |-> n, ended |-> reach = "line"]
  IN  IF log # <<>> /\ ~log[Len(log)].ended
      THEN [log EXCEPT ![Len(log)] = [text |-> "junk", sequence |-> @.sequence, op |-> @.op,
                                      ended |-> line.ended]]
      ELSE Append(log, line)

-----------------------------------------------------------------------------
(* plan_state_init *)

\* Seeded fault: where there is a schema, nothing is missing.
MissingBySchema == IF "schema.json" \in present THEN {} ELSE StateFileSet \ present

Missing == StateFileSet \ present

\* What the other commands need to plan at all: both registries.
\* operations.json and the change log may be missing; they are created.
RegistriesPresent == {"sources.json", "pages.json"} \subseteq present

\* Why a command stops in its planning: an unreadable file.
Plannable(k) ==
  CASE k = "state-init" -> LogValid
    [] k = "page-apply" -> RegistriesPresent /\ LogValid
    [] k = "inventory" -> RegistriesPresent

-----------------------------------------------------------------------------

Init ==
  /\ lock = "free"
  /\ pc = [p \in Procs |-> "idle"]
  /\ kind = [p \in Procs |-> "state-init"]
  /\ todo = [p \in Procs |-> {}]
  /\ read = [p \in Procs |-> {}]
  /\ checked = [p \in Procs |-> FALSE]
  /\ cur = [p \in Procs |-> 0]
  /\ present = {}
  /\ registry = {}
  /\ ops = <<>>
  /\ log = <<>>
  /\ faults = 0

fileVars == <<present, registry, ops, log>>
procVars == <<kind, todo, read, checked, cur>>

\* The command planned outside the lock and was confirmed; `state init` goes
\* no further when nothing is missing.
Start(p, k) ==
  /\ pc[p] = "idle"
  /\ Len(ops) < MaxOps
  /\ Plannable(k)
  /\ k = "state-init" => Missing # {}
  /\ pc' = [pc EXCEPT ![p] = "waiting"]
  /\ kind' = [kind EXCEPT ![p] = k]
  /\ UNCHANGED <<lock, todo, read, checked, cur, fileVars, faults>>

\* Seeded fault: the lock file is opened without O_EXCL.
AcquireAnyway(p) ==
  /\ pc[p] = "waiting"
  /\ lock' = p
  /\ pc' = [pc EXCEPT ![p] = "replan"]
  /\ UNCHANGED <<procVars, fileVars, faults>>

Acquire(p) ==
  /\ pc[p] = "waiting"
  /\ lock = "free"
  /\ lock' = p
  /\ pc' = [pc EXCEPT ![p] = "replan"]
  /\ UNCHANGED <<procVars, fileVars, faults>>

Timeout(p) ==
  /\ pc[p] = "waiting"
  /\ lock # "free"
  /\ pc' = [pc EXCEPT ![p] = "idle"]
  /\ UNCHANGED <<lock, procVars, fileVars, faults>>

Release(p) ==
  /\ pc[p] \in {"return", "abort"}
  /\ lock' = IF lock = p THEN "free" ELSE lock
  /\ pc' = [pc EXCEPT ![p] = "idle"]
  /\ cur' = [cur EXCEPT ![p] = 0]
  /\ todo' = [todo EXCEPT ![p] = {}]
  /\ UNCHANGED <<kind, read, checked, fileVars, faults>>

\* Planned again under the lock: an invalid state file, or nothing to create.
Replan(p) ==
  /\ pc[p] = "replan"
  /\ pc' = [pc EXCEPT ![p] =
       CASE ~Plannable(kind[p]) -> "abort"
         [] Plannable(kind[p]) /\ kind[p] = "state-init" /\ Missing = {} -> "return"
         [] OTHER -> "begin"]
  /\ todo' = [todo EXCEPT ![p] = IF kind[p] = "state-init" THEN Missing ELSE {}]
  /\ read' = [read EXCEPT ![p] = registry]
  /\ UNCHANGED <<lock, kind, checked, cur, fileVars, faults>>

\* operations.json comes first, whatever its place in the list; it is empty
\* when the operation is still to be written into it.
CreateOperations(p) ==
  /\ pc[p] = "begin"
  /\ "operations.json" \in todo[p]
  /\ "operations.json" \notin present
  /\ present' = present \cup {"operations.json"}
  /\ todo' = [todo EXCEPT ![p] = @ \ {"operations.json"}]
  /\ UNCHANGED <<lock, pc, kind, read, checked, cur, registry, ops, log, faults>>

\* begin_operation.
Begin(p) ==
  /\ pc[p] = "begin"
  /\ "operations.json" \notin todo[p]
  /\ ops' = Append(ops, [kind |-> kind[p], status |-> "running"])
  /\ cur' = [cur EXCEPT ![p] = Len(ops) + 1]
  /\ present' = present \cup {"operations.json"}
  /\ pc' = [pc EXCEPT ![p] =
       CASE kind[p] = "state-init" -> "create"
         [] kind[p] = "page-apply" -> "write-page-registry"
         [] kind[p] = "inventory" -> "append-change-log"]
  /\ UNCHANGED <<lock, kind, todo, read, checked, registry, log, faults>>

-----------------------------------------------------------------------------
(* The writes *)

\* The next file of STATE_FILES that the plan creates.
NextFile(p) ==
  StateFileNames[CHOOSE i \in DOMAIN StateFileNames :
                   /\ StateFileNames[i] \in todo[p]
                   /\ \A k \in 1 .. i - 1 : StateFileNames[k] \notin todo[p]]

\* atomic_write_text refuses to replace a file it was given no checksum for ...
CheckAbsent(p) ==
  /\ pc[p] = "create"
  /\ todo[p] # {}
  /\ ~checked[p]
  /\ NextFile(p) \notin present
  /\ checked' = [checked EXCEPT ![p] = TRUE]
  /\ UNCHANGED <<lock, pc, kind, todo, read, cur, fileVars, faults>>

\* ... and puts the new, empty one in its place some time later.
Create(p) ==
  /\ pc[p] = "create"
  /\ checked[p]
  /\ checked' = [checked EXCEPT ![p] = FALSE]
  /\ present' = present \cup {NextFile(p)}
  /\ registry' = IF NextFile(p) = "pages.json" THEN {} ELSE registry
  /\ log' = IF NextFile(p) = "change-log.jsonl" THEN <<>> ELSE log
  /\ todo' = [todo EXCEPT ![p] = @ \ {NextFile(p)}]
  /\ UNCHANGED <<lock, pc, kind, read, cur, ops, faults>>

Created(p) ==
  /\ pc[p] = "create"
  /\ todo[p] = {}
  /\ pc' = [pc EXCEPT ![p] = "append-change-log"]
  /\ UNCHANGED <<lock, procVars, fileVars, faults>>

\* pages.json is rewritten from the records the command read.
WritePageRegistry(p) ==
  /\ pc[p] = "write-page-registry"
  /\ registry' = read[p] \cup {cur[p]}
  /\ pc' = [pc EXCEPT ![p] = "append-change-log"]
  /\ UNCHANGED <<lock, procVars, present, ops, log, faults>>

\* Seeded fault: an event is appended without a look at the last line.
AppendBlindly(p) ==
  /\ pc[p] = "append-change-log"
  /\ log' = Written("line", cur[p])
  /\ present' = present \cup {"change-log.jsonl"}
  /\ pc' = [pc EXCEPT ![p] = "complete"]
  /\ UNCHANGED <<lock, procVars, registry, ops, faults>>

\* append_change_event; it creates the file if need be.
AppendChangeLog(p) ==
  /\ pc[p] = "append-change-log"
  /\ Appendable
  /\ log' = Written("line", cur[p])
  /\ present' = present \cup {"change-log.jsonl"}
  /\ pc' = [pc EXCEPT ![p] = "complete"]
  /\ UNCHANGED <<lock, procVars, registry, ops, faults>>

Complete(p) ==
  /\ pc[p] = "complete"
  /\ ops' = [ops EXCEPT ![cur[p]].status = "completed"]
  /\ pc' = [pc EXCEPT ![p] = "return"]
  /\ UNCHANGED <<lock, procVars, present, registry, log, faults>>

-----------------------------------------------------------------------------
(* Failures *)

\* The except clauses: the operation, if it was begun, is marked failed.
Abandon(p) ==
  /\ \/ ops' = ops
     \/ cur[p] # 0 /\ ops' = [ops EXCEPT ![cur[p]].status = "failed"]
  /\ checked' = [checked EXCEPT ![p] = FALSE]
  /\ pc' = [pc EXCEPT ![p] = "abort"]
  /\ UNCHANGED <<lock, kind, todo, read, cur>>

\* Seeded fault: an append to a torn log is waited for instead of given up.
ObstructedButLog(p) ==
  /\ \/ pc[p] = "begin" /\ "operations.json" \in todo[p] \cap present
     \/ pc[p] = "create" /\ todo[p] # {} /\ ~checked[p] /\ NextFile(p) \in present
  /\ Abandon(p)
  /\ UNCHANGED <<present, registry, log, faults>>

\* SnapshotConflict: the file to create is there by now; or the last line of
\* the log does not parse.
Obstructed(p) ==
  /\ \/ pc[p] = "begin" /\ "operations.json" \in todo[p] \cap present
     \/ pc[p] = "create" /\ todo[p] # {} /\ ~checked[p] /\ NextFile(p) \in present
     \/ pc[p] = "append-change-log" /\ ~Appendable
  /\ Abandon(p)
  /\ UNCHANGED <<present, registry, log, faults>>

\* A write fails and leaves the file alone; or the user interrupts a command
\* that only has its reply left to give.
Fail(p) ==
  /\ pc[p] \in {"begin", "create", "write-page-registry", "append-change-log", "complete", "return"}
  /\ faults < MaxFaults
  /\ faults' = faults + 1
  /\ Abandon(p)
  /\ UNCHANGED <<present, registry, log>>

\* How far the text of an event may get: part of the JSON, all of it, or all of
\* the line although fsync fails.
Reach == {"fragment", "line"} \cup IF CutNewline THEN {"event"} ELSE {}

\* The append fails, or the process dies in it, with part of the text written.
Tear(p) ==
  /\ pc[p] = "append-change-log"
  /\ Appendable
  /\ faults < MaxFaults
  /\ faults' = faults + 1
  /\ \E r \in Reach : log' = Written(r, cur[p])
  /\ present' = present \cup {"change-log.jsonl"}
  /\ \/ Abandon(p)
     \/ /\ lock' = "orphan"
        /\ pc' = [pc EXCEPT ![p] = "idle"]
        /\ cur' = [cur EXCEPT ![p] = 0]
        /\ todo' = [todo EXCEPT ![p] = {}]
        /\ UNCHANGED <<kind, read, checked, ops>>
  /\ UNCHANGED registry

Crash(p) ==
  /\ lock = p
  /\ faults < MaxFaults
  /\ faults' = faults + 1
  /\ lock' = "orphan"
  /\ pc' = [pc EXCEPT ![p] = "idle"]
  /\ cur' = [cur EXCEPT ![p] = 0]
  /\ todo' = [todo EXCEPT ![p] = {}]
  /\ checked' = [checked EXCEPT ![p] = FALSE]
  /\ UNCHANGED <<kind, read, fileVars>>

-----------------------------------------------------------------------------
(* Maintain, on what Doctor reported and the user confirmed *)

IsolateLock ==
  /\ lock = "orphan"
  /\ lock' = "free"
  /\ UNCHANGED <<pc, procVars, fileVars, faults>>

\* The incomplete tail is cut off.
TruncateTail ==
  /\ lock = "free"
  /\ DoctorVerdict = "torn-change-log-tail"
  /\ log' = SubSeq(log, 1, Len(log) - 1)
  /\ UNCHANGED <<lock, pc, procVars, present, registry, ops, faults>>

-----------------------------------------------------------------------------

Advance(p) ==
  \/ Acquire(p) \/ Timeout(p) \/ Replan(p) \/ CreateOperations(p) \/ Begin(p)
  \/ CheckAbsent(p) \/ Create(p) \/ Created(p) \/ WritePageRegistry(p)
  \/ AppendChangeLog(p) \/ Complete(p) \/ Obstructed(p) \/ Release(p)

Next ==
  \/ \E p \in Procs :
       \/ \E k \in Kinds : Start(p, k)
       \/ Advance(p) \/ Fail(p) \/ Tear(p) \/ Crash(p)
  \/ IsolateLock
  \/ TruncateTail

Spec == Init /\ [][Next]_vars

\* A command that runs goes on running; nobody has to start one, to clear a lock
\* or to repair the log.
FairSpec == Spec /\ \A p \in Procs : WF_vars(Advance(p))

-----------------------------------------------------------------------------
(* Properties *)

\* Every variable keeps its shape.
TypeOK ==
  /\ lock \in Procs \cup {"free", "orphan"}
  /\ pc \in [Procs -> {"idle", "waiting", "replan", "begin", "create", "write-page-registry",
                       "append-change-log", "complete", "return", "abort"}]
  /\ kind \in [Procs -> Kinds]
  /\ todo \in [Procs -> SUBSET StateFileSet]
  /\ read \in [Procs -> SUBSET Nat]
  /\ checked \in [Procs -> BOOLEAN]
  /\ cur \in [Procs -> Nat]
  /\ present \in SUBSET StateFileSet
  /\ registry \in SUBSET Nat
  /\ ops \in Seq(Operation)
  /\ log \in Seq(Line)
  /\ faults \in Nat

\* Of every command that was called completed the change log holds one event
\* that everybody can read: Doctor's missing-completion-event never arises,
\* whatever was torn, cut off and tried again before.  It holds if no tear loses
\* the newline alone (~CutNewline): an append then continues that line.
CompletedIsReadable ==
  \A n \in DOMAIN ops :
    ops[n].status = "completed" =>
      /\ DoctorVerdict # "invalid-state-file"
      /\ \E i \in DOMAIN log :
           /\ Parses(log[i]) /\ log[i].op = n
           /\ \A k \in DOMAIN log : Parses(log[k]) /\ log[k].op = n => k = i

\* An event that could be read once can be read for ever: neither a torn write
\* on top of it, nor the repair of the tail, nor another `state init` takes it
\* away, and no later event gets a number that was given before.  This too holds
\* if no tear loses the newline alone (~CutNewline).
EventsKept ==
  [][/\ Events \subseteq Events'
     /\ \A e \in Events' \ Events : \A f \in Events : f.sequence < e.sequence]_vars

\* `state init` only supplies what is missing: no initialisation, repeated,
\* concurrent or resumed after a crash, empties a registry other commands have
\* written to by then.
RecordsKept == [][registry \subseteq registry']_vars

\* A successful reply of `state init` means that all state files exist and the
\* log can be planned from, also when an earlier run died half way.
InitSuccessIsComplete ==
  \A p \in Procs :
    pc[p] = "return" /\ kind[p] = "state-init" => StateFileSet \subseteq present /\ LogValid

\* No command hangs: it gets the lock or times out, even behind the lock of a
\* dead process, and whoever took the lock leaves it, although the log cannot be
\* appended to, a file is there that should be created, or writes fail.
CommandsEnd == \A p \in Procs : pc[p] # "idle" ~> pc[p] = "idle"

=============================================================================
