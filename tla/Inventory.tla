------------------------------ MODULE Inventory ------------------------------
(***************************************************************************)
(* The inventory baseline: which documents of the vault were there before  *)
(* the wiki, which the user chose to ignore, which are new.  `inventory    *)
(* initialize`, `configure`, `ignore` and `unignore` rewrite               *)
(* .meta/inventory.json as a locked transaction confirmed by a plan        *)
(* checksum; `inspect` derives a finding per document from the baseline,   *)
(* the vault, the wiki graph and the sources already processed.            *)
(*                                                                         *)
(* A scope is the set of documents it admits; documents that a scope only  *)
(* counts (sensitive aliases) have no record and are left out.             *)
(***************************************************************************)
EXTENDS Naturals, Sequences

CONSTANTS Procs,      \* processes that run llm_wiki.py
          Docs,       \* vault documents outside the control center
          Scopes,     \* scopes a command may name, sets of documents
          Reasons,    \* reasons for ignoring
          Versions,   \* observed signatures of a document are 1..Versions
          MaxOps, MaxEdits, MaxFaults  \* bounds, as in VaultTransaction

ASSUME ScopesAssumption == Scopes \subseteq SUBSET Docs /\ Scopes # {}
ASSUME BoundsAssumption == Versions \in Nat \ {0} /\ MaxOps \in Nat
                             /\ MaxEdits \in Nat /\ MaxFaults \in Nat

None == "none"

\* What stands for no lock and no reason is not one of the others.
ASSUME NamesAssumption == Procs \cap {"free", "orphan"} = {} /\ None \notin Reasons

Dispositions == {"known-existing", "unverified", "discovered", "ignored"}
DocRecord == [disposition : Dispositions \cup {None}, signature : 0..Versions,
              reason : Reasons \cup {None}]
NoRecord == [disposition |-> None, signature |-> 0, reason |-> None]

Baseline == [exists : BOOLEAN, scope : SUBSET Docs, docs : [Docs -> DocRecord]]
NoBaseline == [exists |-> FALSE, scope |-> {}, docs |-> [d \in Docs |-> NoRecord]]

\* A command names a scope (initialize, configure) or the documents under a
\* path (ignore, unignore).
Commands ==
  [action : {"initialize", "configure"}, docs : Scopes, reason : {None}]
    \cup [action : {"ignore"}, docs : {{d} : d \in Docs}, reason : Reasons]
    \cup [action : {"unignore"}, docs : {{d} : d \in Docs}, reason : {None}]

\* What a plan checksum stands for: the action, the baseline to be written,
\* the baseline it was computed from, and for `initialize` the registries.
Plans == [action : {None, "initialize", "configure", "ignore", "unignore"},
          baseline : Baseline, over : Baseline, registries : [Docs -> 0..Versions]]
NoPlan == [action |-> None, baseline |-> NoBaseline, over |-> NoBaseline,
           registries |-> [d \in Docs |-> 0]]

VARIABLES
  lock,       \* .meta/lock.json: "free", its living holder, or "orphan"
  pc,         \* where each process is in its command
  command,    \* the command each process runs
  plan,       \* the plan the user confirmed, NoPlan if none
  since,      \* how many operations there were when that plan was shown
  cur,        \* the operation a process runs, 0 if none
  tree,       \* signature of each document in the vault, 0 if it is not there
  linked,     \* documents the wiki graph reaches from its index
  processed,  \* signature each document was ingested with, 0 if it never was
  removed,    \* documents the user took out of the vault at some time (history)
  inventory,  \* .meta/inventory.json
  ops,        \* the inventory operations of .meta/operations.json
  events,     \* their events in .meta/change-log.jsonl
  edits, faults

procVars == <<pc, command, plan, since, cur>>
vaultVars == <<tree, linked, processed, removed>>
vars == <<lock, procVars, vaultVars, inventory, ops, events, edits, faults>>

-----------------------------------------------------------------------------
(* Planning *)

Observed(scope) == {d \in scope : tree[d] # 0}

\* plan_inventory_initialize: history is known when the wiki reaches it.  So say
\* the preview, the README and the tests too; the inventory design says that
\* initial files without evidence are discovered.  No property rests on which.
FirstRecords(scope) ==
  [d \in Docs |->
     IF d \notin Observed(scope) THEN NoRecord
     ELSE [disposition |-> IF d \in linked THEN "known-existing" ELSE "unverified",
           signature |-> tree[d], reason |-> None]]

\* Seeded fault: a document that changed is taken for a new one.
RescanByContent(scope) ==
  [d \in Docs |->
     IF d \notin Observed(scope) THEN NoRecord
     ELSE IF inventory.docs[d].signature = tree[d] THEN inventory.docs[d]
     ELSE [disposition |-> "discovered", signature |-> tree[d], reason |-> None]]

\* _current_baseline_with_scope: what is still there keeps its disposition,
\* what is new, or back, is discovered.
Rescan(scope) ==
  [d \in Docs |->
     IF d \notin Observed(scope) THEN NoRecord
     ELSE LET old == inventory.docs[d]
          IN  [disposition |-> IF old.disposition = None THEN "discovered"
                               ELSE old.disposition,
               signature |-> tree[d], reason |-> old.reason]]

Recorded(records) == {d \in Docs : records[d].disposition # None}

Ignored(record, reason) == [record EXCEPT !.disposition = "ignored", !.reason = reason]

\* Whatever it was before it was ignored, it is a candidate now.
Unignored(record) ==
  IF record.disposition = "ignored"
  THEN [record EXCEPT !.disposition = "discovered", !.reason = None] ELSE record

\* The baseline a command asks for.
Planned(c) ==
  LET scope == IF c.action \in {"initialize", "configure"} THEN c.docs ELSE inventory.scope
      now == Rescan(scope)
      hits == c.docs \cap Recorded(now)
  IN  [exists |-> TRUE, scope |-> scope,
       docs |->
         CASE c.action = "initialize" -> FirstRecords(scope)
           [] c.action = "configure" -> now
           [] c.action = "ignore" ->
                [d \in Docs |-> IF d \in hits THEN Ignored(now[d], c.reason) ELSE now[d]]
           [] c.action = "unignore" ->
                [d \in Docs |-> IF d \in hits THEN Unignored(now[d]) ELSE now[d]]]

\* `initialize` makes the only baseline; the others need one, and a path that
\* matches a document.
Plannable(c) ==
  /\ inventory.exists <=> c.action # "initialize"
  /\ c.action \in {"ignore", "unignore"} =>
       c.docs \cap Recorded(Rescan(inventory.scope)) # {}

PlanOf(c) ==
  [action |-> c.action, baseline |-> Planned(c), over |-> inventory,
   registries |-> IF c.action = "initialize" THEN processed ELSE NoPlan.registries]

Completed(key) == {n \in DOMAIN ops : ops[n].key = key /\ ops[n].status = "completed"}

-----------------------------------------------------------------------------
(* State *)

Steps == {"write-inventory", "append-change-log", "complete"}
Operation == [key : Plans, status : {"running", "completed", "failed"},
              step : Steps \cup {"start"}]
Event == [op : Nat, old : Baseline, new : Baseline]

Init ==
  /\ lock = "free"
  /\ pc = [p \in Procs |-> "idle"]
  /\ command = [p \in Procs |-> CHOOSE c \in Commands : c.action = "initialize"]
  /\ plan = [p \in Procs |-> NoPlan]
  /\ since = [p \in Procs |-> 0]
  /\ cur = [p \in Procs |-> 0]
  /\ tree \in [Docs -> {0, 1}]
  /\ linked \in SUBSET Docs
  /\ processed = [d \in Docs |-> 0]
  /\ removed = {}
  /\ inventory = NoBaseline
  /\ ops = <<>>
  /\ events = <<>>
  /\ edits = 0
  /\ faults = 0

-----------------------------------------------------------------------------
(* The vault changes by itself, the user asks and confirms *)

\* A document is created, changed, removed or brought back.
EditDoc(d) ==
  /\ edits < MaxEdits
  /\ edits' = edits + 1
  /\ \E v \in (0..Versions) \ {tree[d]} :
       /\ tree' = [tree EXCEPT ![d] = v]
       /\ removed' = IF v = 0 THEN removed \cup {d} ELSE removed
  /\ UNCHANGED <<lock, procVars, linked, processed, inventory, ops, events, faults>>

\* A wiki page starts or stops to lead to a document.
EditLink(d) ==
  /\ edits < MaxEdits
  /\ edits' = edits + 1
  /\ linked' = IF d \in linked THEN linked \ {d} ELSE linked \cup {d}
  /\ UNCHANGED <<lock, procVars, tree, processed, removed, inventory, ops, events, faults>>

\* An `ingest apply` of a document, all of it, under the same lock.
Ingest(d) ==
  /\ edits < MaxEdits
  /\ edits' = edits + 1
  /\ lock = "free"
  /\ tree[d] # 0
  /\ processed' = [processed EXCEPT ![d] = tree[d]]
  /\ UNCHANGED <<lock, procVars, tree, linked, removed, inventory, ops, events, faults>>

\* Dry run: the plan is shown, and its checksum is what --confirm will repeat.
Preview(p, c) ==
  /\ pc[p] = "idle"
  /\ Plannable(c)
  /\ command' = [command EXCEPT ![p] = c]
  /\ plan' = [plan EXCEPT ![p] = PlanOf(c)]
  /\ since' = [since EXCEPT ![p] = Len(ops)]
  /\ UNCHANGED <<lock, pc, cur, vaultVars, inventory, ops, events, edits, faults>>

\* The command is run with --confirm, perhaps again, and gets the lock; when
\* it does not, it leaves no trace.
Acquire(p) ==
  /\ pc[p] = "idle"
  /\ plan[p] # NoPlan
  /\ Len(ops) < MaxOps
  /\ lock = "free"
  /\ lock' = p
  /\ pc' = [pc EXCEPT ![p] = "replan"]
  /\ UNCHANGED <<command, plan, since, cur, vaultVars, inventory, ops, events, edits, faults>>

-----------------------------------------------------------------------------
(* Under the lock *)

\* An operation with the confirmed checksum completed before: that is the
\* answer, whatever has happened since.
Repeat(p) ==
  /\ pc[p] = "replan"
  /\ Completed(plan[p]) # {}
  /\ pc' = [pc EXCEPT ![p] = "repeat"]
  /\ UNCHANGED <<lock, command, plan, since, cur, vaultVars, inventory, ops, events,
                 edits, faults>>

\* The plan cannot be made any more, or is not the confirmed one.
Refuse(p) ==
  /\ pc[p] = "replan"
  /\ Completed(plan[p]) = {}
  /\ ~Plannable(command[p]) \/ PlanOf(command[p]) # plan[p]
  /\ pc' = [pc EXCEPT ![p] = "abort"]
  /\ UNCHANGED <<lock, command, plan, since, cur, vaultVars, inventory, ops, events,
                 edits, faults>>

Begin(p) ==
  /\ pc[p] = "replan"
  /\ Completed(plan[p]) = {}
  /\ Plannable(command[p])
  /\ PlanOf(command[p]) = plan[p]
  /\ ops' = Append(ops, [key |-> plan[p], status |-> "running", step |-> "start"])
  /\ cur' = [cur EXCEPT ![p] = Len(ops) + 1]
  /\ pc' = [pc EXCEPT ![p] = "write-inventory"]
  /\ UNCHANGED <<lock, command, plan, since, vaultVars, inventory, events, edits, faults>>

\* The step is recorded before it runs.
Enter(p) ==
  /\ pc[p] \in {"write-inventory", "append-change-log"}
  /\ ops[cur[p]].step # pc[p]
  /\ ops' = [ops EXCEPT ![cur[p]].step = pc[p]]
  /\ UNCHANGED <<lock, procVars, vaultVars, inventory, events, edits, faults>>

At(p, step) == pc[p] = step /\ ops[cur[p]].step = step

\* The baseline of the plan that was made under the lock, which is the
\* confirmed one, if the file is still the one it was planned from.
WriteInventory(p) ==
  /\ At(p, "write-inventory")
  /\ inventory = plan[p].over
  /\ inventory' = plan[p].baseline
  /\ pc' = [pc EXCEPT ![p] = "append-change-log"]
  /\ UNCHANGED <<lock, command, plan, since, cur, vaultVars, ops, events, edits, faults>>

AppendChangeLog(p) ==
  /\ At(p, "append-change-log")
  /\ events' = Append(events, [op |-> cur[p], old |-> plan[p].over, new |-> inventory])
  /\ pc' = [pc EXCEPT ![p] = "complete"]
  /\ UNCHANGED <<lock, command, plan, since, cur, vaultVars, inventory, ops, edits, faults>>

Complete(p) ==
  /\ pc[p] = "complete"
  /\ ops' = [ops EXCEPT ![cur[p]].status = "completed", ![cur[p]].step = "complete"]
  /\ pc' = [pc EXCEPT ![p] = "return"]
  /\ UNCHANGED <<lock, command, plan, since, cur, vaultVars, inventory, events, edits, faults>>

\* Seeded fault: a failure is recorded as the outcome the step was heading for.
FailAsCompleted(p) ==
  /\ pc[p] \in Steps \cup {"return"}
  /\ faults < MaxFaults
  /\ faults' = faults + 1
  /\ ops' = [ops EXCEPT ![cur[p]].status = "completed"]
  /\ pc' = [pc EXCEPT ![p] = "abort"]
  /\ UNCHANGED <<lock, command, plan, since, cur, vaultVars, inventory, events, edits>>

\* Seeded fault: the failed command puts the former baseline back, also when the
\* interrupt comes after the operation completed.
FailRollsBack(p) ==
  /\ pc[p] \in Steps \cup {"return"}
  /\ faults < MaxFaults
  /\ faults' = faults + 1
  /\ \/ ops' = ops
     \/ ops' = [ops EXCEPT ![cur[p]].status = "failed"]
  /\ inventory' = plan[p].over
  /\ pc' = [pc EXCEPT ![p] = "abort"]
  /\ UNCHANGED <<lock, command, plan, since, cur, vaultVars, events, edits>>

\* A write fails, or an interrupt comes: the operation is marked failed at the
\* step that was named last, unless that write fails too.
Fail(p) ==
  /\ pc[p] \in Steps \cup {"return"}
  /\ faults < MaxFaults
  /\ faults' = faults + 1
  /\ \/ ops' = ops
     \/ LET step == IF pc[p] \in {"complete", "return"} THEN "append-change-log" ELSE pc[p]
        IN  ops' = [ops EXCEPT ![cur[p]].status = "failed", ![cur[p]].step = step]
  /\ pc' = [pc EXCEPT ![p] = "abort"]
  /\ UNCHANGED <<lock, command, plan, since, cur, vaultVars, inventory, events, edits>>

Release(p) ==
  /\ pc[p] \in {"return", "repeat", "abort"}
  /\ lock' = "free"
  /\ pc' = [pc EXCEPT ![p] = "idle"]
  /\ cur' = [cur EXCEPT ![p] = 0]
  /\ UNCHANGED <<command, plan, since, vaultVars, inventory, ops, events, edits, faults>>

\* The process dies; its lock file stays until the user clears it.
Crash(p) ==
  /\ lock = p
  /\ faults < MaxFaults
  /\ faults' = faults + 1
  /\ lock' = "orphan"
  /\ pc' = [pc EXCEPT ![p] = "idle"]
  /\ cur' = [cur EXCEPT ![p] = 0]
  /\ UNCHANGED <<command, plan, since, vaultVars, inventory, ops, events, edits>>

IsolateLock ==
  /\ lock = "orphan"
  /\ lock' = "free"
  /\ UNCHANGED <<procVars, vaultVars, inventory, ops, events, edits, faults>>

Step(p) ==
  \/ Acquire(p) \/ Repeat(p) \/ Refuse(p) \/ Begin(p) \/ Enter(p) \/ WriteInventory(p)
  \/ AppendChangeLog(p) \/ Complete(p) \/ Fail(p) \/ Release(p) \/ Crash(p)

Next ==
  \/ \E p \in Procs : Step(p) \/ \E c \in Commands : Preview(p, c)
  \/ \E d \in Docs : EditDoc(d) \/ EditLink(d) \/ Ingest(d)
  \/ IsolateLock

Spec == Init /\ [][Next]_vars

-----------------------------------------------------------------------------
(* What `inventory inspect` and Doctor report of a document in scope *)

Finding(d) ==
  LET record == inventory.docs[d]
  IN  CASE processed[d] = tree[d] -> None
        [] processed[d] \notin {0, tree[d]} -> "stale-ingested-source"
        [] processed[d] = 0 /\ record.disposition = "ignored" -> None
        [] processed[d] = 0 /\ record.disposition \in {"known-existing", "unverified"} ->
             IF d \in linked THEN None
             ELSE IF record.disposition = "known-existing" THEN "source-coverage-lost"
             ELSE "source-island"
        [] processed[d] = 0 /\ record.disposition \in {None, "discovered"} ->
             "uningested-source"

-----------------------------------------------------------------------------
(* Properties *)

\* Every variable keeps its shape; an ignored record, and no other, has a
\* reason (InventoryDocument).
TypeOK ==
  /\ lock \in Procs \cup {"free", "orphan"}
  /\ pc \in [Procs -> {"idle", "replan", "return", "repeat", "abort"} \cup Steps]
  /\ command \in [Procs -> Commands]
  /\ plan \in [Procs -> Plans]
  /\ since \in [Procs -> Nat]
  /\ cur \in [Procs -> Nat]
  /\ tree \in [Docs -> 0..Versions]
  /\ linked \subseteq Docs
  /\ processed \in [Docs -> 0..Versions]
  /\ removed \subseteq Docs
  /\ inventory \in Baseline
  /\ \A d \in Docs : inventory.docs[d].reason # None <=> inventory.docs[d].disposition = "ignored"
  /\ ops \in Seq(Operation)
  /\ events \in Seq(Event)
  /\ edits \in Nat /\ faults \in Nat

\* A completed operation has one event, the baseline in force is the one of the
\* last event unless an operation that is not completed wrote it, and where the
\* events do not follow from each other such an operation lies between.
AuditTrail ==
  /\ \A n \in DOMAIN ops :
       ops[n].status = "completed" =>
         /\ \E i \in DOMAIN events : events[i].op = n /\ events[i].new = ops[n].key.baseline
         /\ \A i, k \in DOMAIN events : events[i].op = n /\ events[k].op = n => i = k
  /\ \A i \in DOMAIN events :
       LET next == IF i = Len(events) THEN inventory ELSE events[i + 1].old
           limit == IF i = Len(events) THEN Len(ops) ELSE events[i + 1].op - 1
       IN  next # events[i].new =>
             \E n \in (events[i].op + 1)..limit : ops[n].status # "completed"

\* A document is ignored only for the reason an `ignore` gave it that did not
\* have it before, and no `unignore` of it has completed since.
IgnoreIsAccounted ==
  \A d \in Docs :
    LET record == inventory.docs[d]
    IN  record.disposition = "ignored" =>
          \E n \in DOMAIN ops :
            /\ ops[n].key.action = "ignore"
            /\ ops[n].key.baseline.docs[d].reason = record.reason
            /\ ops[n].key.over.docs[d].reason # record.reason
            /\ \A m \in (n + 1)..Len(ops) :
                 ops[m].status = "completed" /\ ops[m].key.action = "unignore" =>
                   ops[m].key.baseline.docs[d].disposition = "ignored"

\* What `initialize` made of a document stays, through every rescan and whatever
\* fails, until the user ignores it: it becomes a candidate only by an unignore
\* of what was ignored, and once an `ignore` of it completed it is never again
\* what it was, nor reported as history.  So it is for every document that was
\* never taken out of the vault, while every later baseline has it in scope.
HistoryIsKept ==
  \A d \in Docs \ removed, n \in DOMAIN ops :
    LET was   == ops[n].key.baseline.docs[d].disposition
        now   == inventory.docs[d].disposition
        later == (n + 1)..Len(ops)
    IN  /\ inventory.exists
        /\ ops[n].key.action = "initialize" /\ was # None
        /\ \A m \in later : ops[m].key.action # "initialize" /\ d \in ops[m].key.baseline.scope
        =>
        /\ \/ now \in {was, "ignored"}
           \/ /\ now = "discovered"
              /\ \E m \in later : /\ ops[m].key.action = "unignore"
                                  /\ ops[m].key.over.docs[d].disposition = "ignored"
        /\ \A m \in later :
             ops[m].status = "completed" /\ ops[m].key.baseline.docs[d].disposition = "ignored" =>
               now # was /\ Finding(d) \notin {"source-island", "source-coverage-lost"}

\* Inventory design, "unignore": once confirmed, the disposition is discovered
\* again.  Whoever previews an `unignore` that changes the baseline, confirms
\* it and is told it completed has had it carried out since the preview.
ConfirmedTakesEffect ==
  \A p \in Procs :
    /\ pc[p] \in {"return", "repeat"}
    /\ plan[p].action = "unignore"
    /\ plan[p].baseline # plan[p].over
    => \E n \in (since[p] + 1)..Len(ops) : ops[n].key = plan[p]

=============================================================================
