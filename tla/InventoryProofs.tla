--------------------------- MODULE InventoryProofs ---------------------------
(***************************************************************************)
(* Proofs about Inventory, for every number of processes, documents,       *)
(* scopes and operations: the baseline is what the events and the          *)
(* operations say, whatever fails in between.                              *)
(***************************************************************************)
EXTENDS Inventory, TLAPS

(* Baselines and plans *)

\* Exactly the ignored records have a reason.
BaselineOK(b) ==
  /\ b \in Baseline
  /\ \A d \in Docs : b.docs[d].reason # None <=> b.docs[d].disposition = "ignored"

\* How the baseline of a plan follows from the one it is planned over.
Follows(pl) ==
  /\ pl.baseline.exists
  /\ pl.over.exists <=> pl.action # "initialize"
  /\ \A d \in Docs :
       LET old == pl.over.docs[d]
           new == pl.baseline.docs[d]
       IN  /\ new.disposition = "ignored" /\ pl.action # "ignore" =>
                old.disposition = "ignored" /\ old.reason = new.reason
           /\ pl.action = "initialize" =>
                new.disposition \in {None, "known-existing", "unverified"}
           /\ pl.action # "initialize" /\ old.disposition # None /\ new.disposition # None =>
                \/ new.disposition = old.disposition
                \/ pl.action = "ignore" /\ new.disposition = "ignored"
                \/ /\ pl.action = "unignore"
                   /\ old.disposition = "ignored" /\ new.disposition = "discovered"

\* A plan records the documents of its scope that are in the vault.
Records(pl) ==
  \A d \in Docs :
    pl.baseline.docs[d].disposition # None <=> d \in pl.baseline.scope /\ tree[d] # 0

LEMMA RecordTypes ==
  /\ NoRecord \in DocRecord
  /\ NoBaseline \in Baseline
  /\ BaselineOK(NoBaseline)
  /\ NoPlan \in Plans
<1>1. NoRecord \in DocRecord
  BY BoundsAssumption DEF NoRecord, DocRecord
<1>2. NoBaseline \in Baseline
  BY <1>1 DEF NoBaseline, Baseline
<1>3. NoPlan \in Plans
  BY <1>2, BoundsAssumption DEF NoPlan, Plans
<1>4. BaselineOK(NoBaseline)
  BY <1>2 DEF BaselineOK, NoBaseline, NoRecord, None
<1> QED BY <1>1, <1>2, <1>3, <1>4

LEMMA PlanFollows ==
  ASSUME BaselineOK(inventory), tree \in [Docs -> 0..Versions], processed \in [Docs -> 0..Versions],
         NEW c \in Commands, Plannable(c)
  PROVE  /\ PlanOf(c) \in Plans
         /\ BaselineOK(PlanOf(c).baseline)
         /\ Follows(PlanOf(c))
         /\ Records(PlanOf(c))
         /\ PlanOf(c).over = inventory
<1> DEFINE scope == IF c.action \in {"initialize", "configure"} THEN c.docs ELSE inventory.scope
           now == Rescan(scope)
           hits == c.docs \cap Recorded(now)
           b == Planned(c)
<1>1. /\ c.action \in {"initialize", "configure", "ignore", "unignore"}
      /\ scope \subseteq Docs
      /\ c.reason \in Reasons \cup {None}
      /\ c.action = "ignore" => c.reason \in Reasons
  BY ScopesAssumption DEF Commands, BaselineOK, Baseline
<1>2. \A d \in Docs : inventory.docs[d] \in DocRecord
  BY DEF BaselineOK, Baseline
<1>3. ASSUME NEW d \in Docs
      PROVE  /\ now[d] \in DocRecord
             /\ now[d].reason # None <=> now[d].disposition = "ignored"
             /\ now[d].disposition = "ignored" =>
                  /\ inventory.docs[d].disposition = "ignored"
                  /\ now[d].reason = inventory.docs[d].reason
             /\ inventory.docs[d].disposition # None /\ now[d].disposition # None =>
                  now[d].disposition = inventory.docs[d].disposition
             /\ now[d].disposition # None <=> d \in scope /\ tree[d] # 0
  <2>1. CASE d \notin Observed(scope)
    BY <2>1, RecordTypes DEF Rescan, NoRecord, None, Observed
  <2>2. CASE d \in Observed(scope)
    <3>1. now[d] = [disposition |-> IF inventory.docs[d].disposition = None THEN "discovered"
                                    ELSE inventory.docs[d].disposition,
                    signature |-> tree[d], reason |-> inventory.docs[d].reason]
      BY <2>2 DEF Rescan
    <3>2. inventory.docs[d].reason # None <=> inventory.docs[d].disposition = "ignored"
      BY DEF BaselineOK
    <3> HIDE DEF now
    <3> QED BY <1>2, <2>2, <3>1, <3>2 DEF DocRecord, Dispositions, None, Observed
  <2> QED BY <2>1, <2>2
<1> HIDE DEF now
<1>4. b.exists = TRUE /\ b.scope = scope
  BY DEF Planned
<1>5. CASE c.action = "initialize"
  <2>1. b = [exists |-> TRUE, scope |-> scope, docs |-> FirstRecords(scope)]
    BY <1>5 DEF Planned
  <2>2. ASSUME NEW d \in Docs
        PROVE  /\ FirstRecords(scope)[d] \in DocRecord
               /\ FirstRecords(scope)[d].reason = None
               /\ FirstRecords(scope)[d].disposition \in {None, "known-existing", "unverified"}
    BY RecordTypes DEF FirstRecords, NoRecord, DocRecord, Dispositions
  <2>3. b \in Baseline
    BY <1>1, <2>1, <2>2 DEF Baseline, FirstRecords
  <2>4. BaselineOK(b)
    BY <2>1, <2>2, <2>3 DEF BaselineOK, None
  <2>5. \A d \in Docs : FirstRecords(scope)[d].disposition # None <=> d \in scope /\ tree[d] # 0
    BY DEF FirstRecords, NoRecord, None, Observed
  <2>6. Records(PlanOf(c))
    BY <1>5, <2>1, <2>5 DEF PlanOf, Records
  <2> QED BY <1>5, <2>1, <2>2, <2>4, <2>6 DEF PlanOf, Plans, BaselineOK, Plannable, Follows, None
<1>6. CASE c.action # "initialize"
  <2>1. b.docs \in [Docs -> DocRecord]
        /\ \A d \in Docs :
             /\ b.docs[d].reason # None <=> b.docs[d].disposition = "ignored"
             /\ b.docs[d].disposition = "ignored" /\ c.action # "ignore" =>
                  /\ inventory.docs[d].disposition = "ignored"
                  /\ inventory.docs[d].reason = b.docs[d].reason
             /\ inventory.docs[d].disposition # None /\ b.docs[d].disposition # None =>
                  \/ b.docs[d].disposition = inventory.docs[d].disposition
                  \/ c.action = "ignore" /\ b.docs[d].disposition = "ignored"
                  \/ /\ c.action = "unignore"
                     /\ inventory.docs[d].disposition = "ignored" /\ b.docs[d].disposition = "discovered"
             /\ b.docs[d].disposition # None <=> d \in scope /\ tree[d] # 0
    <3>1. CASE c.action = "configure"
      <4>1. b.docs = now
        BY <3>1 DEF Planned, now
      <4> QED BY <1>3, <3>1, <4>1, ZenonT(60) DEF Rescan, now
    <3>2. CASE c.action = "ignore"
      <4>1. b.docs = [d \in Docs |-> IF d \in hits THEN Ignored(now[d], c.reason) ELSE now[d]]
        BY <3>2 DEF Planned, now
      <4>2. ASSUME NEW d \in Docs
            PROVE  /\ Ignored(now[d], c.reason) \in DocRecord
                   /\ Ignored(now[d], c.reason).reason = c.reason
                   /\ Ignored(now[d], c.reason).disposition = "ignored"
        BY <1>1, <1>3 DEF Ignored, DocRecord, Dispositions
      <4> HIDE DEF b, hits
      <4>3. \A d \in hits : now[d].disposition # None
        BY DEF Recorded, hits
      <4>4. ASSUME NEW d \in Docs, d \in hits
            PROVE  /\ b.docs[d].reason # None /\ b.docs[d].disposition = "ignored"
                   /\ d \in scope /\ tree[d] # 0
        BY <1>1, <1>3, <3>2, <4>1, <4>2, <4>3, <4>4, NamesAssumption
      <4>5. ASSUME NEW d \in Docs, d \notin hits PROVE b.docs[d] = now[d]
        BY <4>1, <4>5
      <4>6. b.docs \in [Docs -> DocRecord]
        BY <1>3, <4>1, <4>2
      <4> QED BY <1>3, <3>2, <4>4, <4>5, <4>6 DEF None
    <3>3. CASE c.action = "unignore"
      <4>1. b.docs = [d \in Docs |-> IF d \in hits THEN Unignored(now[d]) ELSE now[d]]
        BY <3>3 DEF Planned, now
      <4>2. ASSUME NEW d \in Docs
            PROVE  /\ Unignored(now[d]) \in DocRecord
                   /\ Unignored(now[d]).reason = None
                   /\ Unignored(now[d]).disposition =
                        IF now[d].disposition = "ignored" THEN "discovered" ELSE now[d].disposition
        BY <1>3 DEF Unignored, DocRecord, Dispositions
      <4> HIDE DEF b, hits
      <4> QED BY <1>3, <3>3, <4>1, <4>2 DEF None
    <3> QED BY <1>1, <1>6, <3>1, <3>2, <3>3
  <2>2. b \in Baseline
    <3>1. PICK docs : b = [exists |-> TRUE, scope |-> scope, docs |-> docs]
      BY Zenon DEF Planned
    <3>2. b.docs = docs
      BY <3>1
    <3> HIDE DEF b
    <3> QED BY <1>1, <2>1, <3>1, <3>2 DEF Baseline
  <2>3. BaselineOK(b)
    BY <2>1, <2>2 DEF BaselineOK
  <2>4. PlanOf(c) = [action |-> c.action, baseline |-> b, over |-> inventory,
                     registries |-> NoPlan.registries]
    BY <1>6 DEF PlanOf
  <2>5. NoPlan.registries \in [Docs -> 0..Versions]
    BY BoundsAssumption DEF NoPlan
  <2> HIDE DEF b
  <2>6. Records(PlanOf(c))
    BY <1>4, <2>1, <2>4 DEF Records
  <2> QED BY <1>1, <1>4, <1>6, <2>6, <2>1, <2>2, <2>3, <2>4, <2>5 DEF Plans, BaselineOK, Plannable, Follows
<1> QED BY <1>5, <1>6

-----------------------------------------------------------------------------
(* Operations *)

\* ops with the status and step of operation n changed.
LEMMA Settled ==
  ASSUME ops \in Seq(Operation), NEW n \in 1..Len(ops),
         NEW status \in {"running", "completed", "failed"}, NEW step \in Steps \cup {"start"},
         ops' = [ops EXCEPT ![n].status = status, ![n].step = step]
  PROVE  /\ ops' \in Seq(Operation)
         /\ Len(ops') = Len(ops)
         /\ \A m \in 1..Len(ops) : ops'[m].key = ops[m].key
         /\ \A m \in 1..Len(ops) : m # n => ops'[m] = ops[m]
         /\ ops'[n].status = status
<1> DEFINE new == [[ops[n] EXCEPT !.status = status] EXCEPT !.step = step]
<1>1. ops[n] \in Operation
  OBVIOUS
<1>2. new \in Operation /\ new.key = ops[n].key /\ new.status = status
  BY <1>1 DEF Operation
<1>3. ops' = [ops EXCEPT ![n] = new]
  OBVIOUS
<1> HIDE DEF new
<1>4. ops' \in Seq(Operation)
  BY <1>2, <1>3
<1>5. Len(ops') = Len(ops)
  <2>1. DOMAIN ops' = 1..Len(ops) /\ Len(ops) \in Nat
    BY <1>3
  <2>2. DOMAIN ops' = 1..Len(ops') /\ Len(ops') \in Nat
    BY <1>4
  <2> QED BY <2>1, <2>2
<1>6. ops'[n] = new /\ \A m \in 1..Len(ops) : m # n => ops'[m] = ops[m]
  <2>1. DOMAIN ops = 1..Len(ops)
    OBVIOUS
  <2>2. ops' = [m \in DOMAIN ops |-> IF m = n THEN new ELSE ops[m]]
    BY <1>3
  <2> QED BY <2>1, <2>2
<1> QED BY <1>2, <1>4, <1>5, <1>6

LEMMA Entered ==
  ASSUME ops \in Seq(Operation), NEW n \in 1..Len(ops), NEW step \in Steps \cup {"start"},
         ops' = [ops EXCEPT ![n].step = step]
  PROVE  /\ ops' \in Seq(Operation)
         /\ Len(ops') = Len(ops)
         /\ \A m \in 1..Len(ops) : ops'[m].key = ops[m].key /\ ops'[m].status = ops[m].status
<1>1. ops[n] \in Operation
  OBVIOUS
<1>2. [ops[n] EXCEPT !.step = step] \in Operation
  BY <1>1 DEF Operation
<1>3. [ops[n] EXCEPT !.step = step].key = ops[n].key
      /\ [ops[n] EXCEPT !.step = step].status = ops[n].status
  BY <1>1 DEF Operation
<1> QED BY <1>2, <1>3

-----------------------------------------------------------------------------
(* The lock, plans and the operation at work *)

Inside == {"replan", "return", "repeat", "abort"} \cup Steps
Busy == Steps \cup {"return"}

HolderInv == \A p \in Procs : pc[p] \in Inside <=> lock = p

PlansInv ==
  \A p \in Procs : /\ BaselineOK(plan[p].baseline)
                   /\ plan[p] # NoPlan => Follows(plan[p])

InventoryInv == BaselineOK(inventory) /\ (~inventory.exists => inventory = NoBaseline)

\* The operation at work is the last one; the baseline is the one it was
\* planned over until it is written, and then its own.
WorkOf(p) ==
  /\ pc[p] # "idle" => plan[p] # NoPlan
  /\ pc[p] \in Busy =>
       cur[p] = Len(ops) /\ Len(ops) # 0 /\ ops[Len(ops)].key = plan[p]
  /\ pc[p] \in Steps => ops[Len(ops)].status # "completed"
  /\ pc[p] = "write-inventory" => inventory = plan[p].over
  /\ pc[p] \in {"append-change-log", "complete", "return"} => inventory = plan[p].baseline

WorkInv == \A p \in Procs : WorkOf(p)

TypeInv == TypeOK /\ HolderInv /\ PlansInv /\ InventoryInv /\ WorkInv

LEMMA TypeInit == Init => TypeInv
<1> SUFFICES ASSUME Init PROVE TypeInv
  OBVIOUS
<1> USE DEF Init
<1>1. \E c \in Commands : c.action = "initialize"
  <2>1. PICK s \in Scopes : TRUE
    BY ScopesAssumption
  <2>2. [action |-> "initialize", docs |-> s, reason |-> None] \in Commands
    BY DEF Commands
  <2> QED BY <2>2
<1>2. (CHOOSE c \in Commands : c.action = "initialize") \in Commands
  BY <1>1
<1>3. tree \in [Docs -> 0..Versions] /\ processed \in [Docs -> 0..Versions]
  BY BoundsAssumption
<1>4. \A d \in Docs : inventory.docs[d].reason # None <=> inventory.docs[d].disposition = "ignored"
  BY RecordTypes DEF BaselineOK
<1>5. /\ command \in [Procs -> Commands] /\ plan \in [Procs -> Plans]
      /\ since \in [Procs -> Nat] /\ cur \in [Procs -> Nat] /\ inventory \in Baseline
  <2> HIDE DEF Init
  <2>1. command = [p \in Procs |-> CHOOSE c \in Commands : c.action = "initialize"]
    BY DEF Init
  <2> DEFINE first == CHOOSE c \in Commands : c.action = "initialize"
  <2>2. first \in Commands
    BY <1>2
  <2> HIDE DEF first
  <2>3. command \in [Procs -> Commands]
    BY <2>1, <2>2 DEF first
  <2> QED BY <2>3, RecordTypes DEF Init
<1>10. ops \in Seq(Operation) /\ events \in Seq(Event)
  OBVIOUS
<1>9. TypeOK
  BY <1>3, <1>4, <1>5, <1>10 DEF TypeOK
<1>6. HolderInv
  BY NamesAssumption DEF HolderInv, Inside, Steps
<1>7. PlansInv /\ InventoryInv
  BY RecordTypes DEF PlansInv, InventoryInv, NoPlan, NoBaseline
<1>8. WorkInv
  BY DEF WorkInv, WorkOf, Busy, Steps
<1> QED BY <1>9, <1>6, <1>7, <1>8 DEF TypeInv

\* Who is busy is alone.
LEMMA Alone ==
  ASSUME HolderInv, NEW p \in Procs, pc[p] \in Inside
  PROVE  lock = p /\ \A o \in Procs : o # p => pc[o] \notin Inside
  BY DEF HolderInv

\* Steps of p that keep the others out of the lock, and what p relies on.
LEMMA WorkStep ==
  ASSUME WorkInv, NEW p \in Procs,
         \A o \in Procs : o # p => pc'[o] = pc[o] /\ plan'[o] = plan[o] /\ pc[o] \notin Inside,
         WorkOf(p)'
  PROVE  WorkInv'
  BY DEF WorkInv, WorkOf, Inside, Busy, Steps

LEMMA TypeNext == TypeInv /\ [Next]_vars => TypeInv'
<1> SUFFICES ASSUME TypeInv, [Next]_vars PROVE TypeInv'
  OBVIOUS
<1> USE DEF TypeInv
<1>a. /\ pc = [p \in Procs |-> pc[p]] /\ plan = [p \in Procs |-> plan[p]]
      /\ cur = [p \in Procs |-> cur[p]] /\ ops \in Seq(Operation) /\ Len(ops) \in Nat
  BY DEF TypeOK
<1>b. "idle" \notin Inside /\ Busy \subseteq Inside /\ Steps \subseteq Inside
      /\ {"replan", "return", "repeat", "abort"} \subseteq Inside
      /\ {"write-inventory", "append-change-log", "complete"} = Steps
  BY DEF Inside, Busy, Steps
<1>1. CASE UNCHANGED vars
  BY <1>1 DEF vars, procVars, vaultVars, TypeOK, HolderInv, PlansInv, InventoryInv, WorkInv, WorkOf
<1>2. ASSUME NEW p \in Procs, NEW c \in Commands, Preview(p, c) PROVE TypeInv'
  <2>1. PlanOf(c) \in Plans /\ BaselineOK(PlanOf(c).baseline) /\ Follows(PlanOf(c))
    BY <1>2, PlanFollows DEF Preview, InventoryInv, TypeOK
  <2>2. TypeOK'
    BY <1>2, <2>1 DEF Preview, vaultVars, TypeOK
  <2>3. HolderInv' /\ InventoryInv'
    BY <1>2 DEF Preview, HolderInv, InventoryInv
  <2>4. PlansInv'
    BY <1>2, <2>1, <1>a DEF Preview, PlansInv
  <2>5. WorkInv'
    BY <1>2, <1>a DEF Preview, WorkInv, WorkOf, Busy, Steps
  <2> QED BY <2>2, <2>3, <2>4, <2>5
<1>3. ASSUME NEW p \in Procs, Acquire(p) PROVE TypeInv'
  <2>1. TypeOK'
    BY <1>3 DEF Acquire, vaultVars, TypeOK
  <2>2. HolderInv'
    BY <1>3, <1>a, <1>b, NamesAssumption DEF Acquire, HolderInv
  <2>3. PlansInv' /\ InventoryInv'
    BY <1>3 DEF Acquire, PlansInv, InventoryInv
  <2>4. WorkInv'
    BY <1>3, <1>a DEF Acquire, WorkInv, WorkOf, Busy, Steps
  <2> QED BY <2>1, <2>2, <2>3, <2>4
<1>4. ASSUME NEW p \in Procs, Repeat(p) \/ Refuse(p) PROVE TypeInv'
  <2>1. TypeOK'
    BY <1>4 DEF Repeat, Refuse, vaultVars, TypeOK
  <2>2. HolderInv'
    BY <1>4, <1>a, <1>b DEF Repeat, Refuse, HolderInv
  <2>3. PlansInv' /\ InventoryInv'
    BY <1>4 DEF Repeat, Refuse, PlansInv, InventoryInv
  <2>4. WorkInv'
    BY <1>4, <1>a DEF Repeat, Refuse, WorkInv, WorkOf, Busy, Steps
  <2> QED BY <2>1, <2>2, <2>3, <2>4
<1>5. ASSUME NEW p \in Procs, Begin(p) PROVE TypeInv'
  <2>1. [key |-> plan[p], status |-> "running", step |-> "start"] \in Operation
    BY DEF Operation, TypeOK
  <2>2. ops' \in Seq(Operation) /\ Len(ops') = Len(ops) + 1
        /\ ops'[Len(ops) + 1] = [key |-> plan[p], status |-> "running", step |-> "start"]
    BY <1>5, <2>1, <1>a DEF Begin
  <2>3. TypeOK'
    BY <1>5, <2>2 DEF Begin, vaultVars, TypeOK, Steps
  <2>4. HolderInv'
    BY <1>5, <1>a, <1>b DEF Begin, HolderInv
  <2>5. PlansInv' /\ InventoryInv'
    BY <1>5 DEF Begin, PlansInv, InventoryInv
  <2>6. plan[p].over = inventory /\ plan[p] # NoPlan
    BY <1>5 DEF Begin, PlanOf, WorkInv, WorkOf
  <2>7. WorkOf(p)'
    BY <1>5, <2>2, <2>6, <1>a DEF Begin, WorkOf, Busy, Steps
  <2>8. WorkInv'
    BY <1>5, <2>7, <1>a, <1>b, Alone, WorkStep DEF Begin
  <2> QED BY <2>3, <2>4, <2>5, <2>8
<1>6. ASSUME NEW p \in Procs, Enter(p) PROVE TypeInv'
  <2>1. pc[p] \in Steps /\ cur[p] = Len(ops) /\ Len(ops) \in 1..Len(ops)
    BY <1>6, <1>a DEF Enter, WorkInv, WorkOf, Busy, Steps
  <2>2. /\ ops' \in Seq(Operation) /\ Len(ops') = Len(ops)
        /\ ops'[Len(ops)].key = ops[Len(ops)].key /\ ops'[Len(ops)].status = ops[Len(ops)].status
    BY <1>6, <1>a, <2>1, Entered DEF Enter
  <2>3. TypeOK'
    BY <1>6, <2>2 DEF Enter, procVars, vaultVars, TypeOK
  <2>4. HolderInv' /\ PlansInv' /\ InventoryInv'
    BY <1>6 DEF Enter, procVars, HolderInv, PlansInv, InventoryInv
  <2>5. WorkInv'
    BY <1>6, <2>2 DEF Enter, procVars, WorkInv, WorkOf
  <2> QED BY <2>3, <2>4, <2>5
<1>7. ASSUME NEW p \in Procs, WriteInventory(p) PROVE TypeInv'
  <2>1. pc[p] = "write-inventory" /\ BaselineOK(plan[p].baseline) /\ Follows(plan[p])
    BY <1>7 DEF WriteInventory, At, PlansInv, WorkInv, WorkOf
  <2>2. InventoryInv'
    BY <1>7, <2>1 DEF WriteInventory, InventoryInv, BaselineOK, Follows
  <2>3. TypeOK'
    BY <1>7, <2>1, <2>2 DEF WriteInventory, vaultVars, TypeOK, InventoryInv, BaselineOK, Steps
  <2>4. HolderInv'
    BY <1>7, <2>1, <1>a, <1>b DEF WriteInventory, HolderInv
  <2>5. PlansInv'
    BY <1>7 DEF WriteInventory, PlansInv
  <2>6. WorkOf(p)'
    BY <1>7, <2>1, <1>a DEF WriteInventory, WorkInv, WorkOf, Busy, Steps
  <2>7. WorkInv'
    BY <1>7, <2>1, <2>6, <1>a, <1>b, Alone, WorkStep DEF WriteInventory
  <2> QED BY <2>2, <2>3, <2>4, <2>5, <2>7
<1>8. ASSUME NEW p \in Procs, AppendChangeLog(p) PROVE TypeInv'
  <2>1. pc[p] = "append-change-log" /\ cur[p] \in Nat /\ plan[p].over \in Baseline /\ inventory \in Baseline
    BY <1>8 DEF AppendChangeLog, At, TypeOK, Plans
  <2>2. [op |-> cur[p], old |-> plan[p].over, new |-> inventory] \in Event
    BY <2>1 DEF Event
  <2>3. events' \in Seq(Event)
    BY <1>8, <2>2 DEF AppendChangeLog, TypeOK
  <2>4. TypeOK'
    BY <1>8, <2>3 DEF AppendChangeLog, vaultVars, TypeOK, Steps
  <2>5. HolderInv'
    BY <1>8, <2>1, <1>a, <1>b DEF AppendChangeLog, HolderInv
  <2>6. PlansInv' /\ InventoryInv'
    BY <1>8 DEF AppendChangeLog, PlansInv, InventoryInv
  <2>7. WorkInv'
    BY <1>8, <2>1, <1>a DEF AppendChangeLog, WorkInv, WorkOf, Busy, Steps
  <2> QED BY <2>4, <2>5, <2>6, <2>7
<1>9. ASSUME NEW p \in Procs, Complete(p) PROVE TypeInv'
  <2>1. pc[p] = "complete" /\ cur[p] = Len(ops) /\ Len(ops) \in 1..Len(ops)
    BY <1>9, <1>a, SMTT(40) DEF Complete, WorkInv, WorkOf, Busy, Steps
  <2>2. /\ ops' \in Seq(Operation) /\ Len(ops') = Len(ops)
        /\ ops'[Len(ops)].key = ops[Len(ops)].key
    BY <1>9, <1>a, <2>1, Settled DEF Complete, Steps
  <2>3. TypeOK'
    BY <1>9, <2>2 DEF Complete, vaultVars, TypeOK
  <2>4. HolderInv'
    BY <1>9, <1>a, <1>b DEF Complete, HolderInv
  <2>5. PlansInv' /\ InventoryInv'
    BY <1>9 DEF Complete, PlansInv, InventoryInv
  <2>6. WorkOf(p)'
    BY <1>9, <2>1, <2>2, <1>a DEF Complete, WorkInv, WorkOf, Busy, Steps
  <2>7. WorkInv'
    BY <1>9, <2>1, <2>6, <1>a, <1>b, Alone, WorkStep DEF Complete
  <2> QED BY <2>3, <2>4, <2>5, <2>7
<1>10. ASSUME NEW p \in Procs, Fail(p) PROVE TypeInv'
  <2>1. pc[p] \in Busy /\ pc[p] \in Inside /\ cur[p] = Len(ops) /\ Len(ops) \in 1..Len(ops)
    BY <1>10, <1>a, <1>b DEF Fail, WorkInv, WorkOf, Busy
  <2>2. PICK step \in Steps :
          ops' = ops \/ ops' = [ops EXCEPT ![cur[p]].status = "failed", ![cur[p]].step = step]
    BY <1>10 DEF Fail, Steps
  <2>3. ops' \in Seq(Operation)
    BY <2>1, <2>2, <1>a, Settled
  <2>4. TypeOK'
    <3>1. /\ UNCHANGED <<lock, command, plan, since, cur, vaultVars, inventory, events, edits>>
          /\ pc' = [pc EXCEPT ![p] = "abort"] /\ faults' = faults + 1
      BY <1>10 DEF Fail
    <3> QED BY <2>3, <3>1 DEF vaultVars, TypeOK
  <2>5. HolderInv'
    BY <1>10, <2>1, <1>a, <1>b DEF Fail, HolderInv
  <2>6. PlansInv' /\ InventoryInv'
    BY <1>10 DEF Fail, PlansInv, InventoryInv
  <2>7. WorkOf(p)'
    BY <1>10, <2>1, <1>a DEF Fail, WorkInv, WorkOf, Busy, Steps
  <2>8. WorkInv'
    BY <1>10, <2>1, <2>7, <1>a, Alone, WorkStep DEF Fail
  <2> QED BY <2>4, <2>5, <2>6, <2>8
<1>11. ASSUME NEW p \in Procs, Release(p) \/ Crash(p) PROVE TypeInv'
  <2>1. lock = p /\ pc' = [pc EXCEPT ![p] = "idle"] /\ lock' \in {"free", "orphan"}
    BY <1>11, <1>b DEF Release, Crash, HolderInv
  <2>2. TypeOK'
    <3>1. /\ UNCHANGED <<command, plan, since, vaultVars, inventory, ops, events, edits>>
          /\ cur' = [cur EXCEPT ![p] = 0] /\ faults' \in {faults, faults + 1}
      BY <1>11 DEF Release, Crash
    <3>2. pc' \in [Procs -> {"idle", "replan", "return", "repeat", "abort"} \cup Steps]
      BY <2>1 DEF TypeOK
    <3>3. faults' \in Nat /\ cur' \in [Procs -> Nat]
      BY <3>1 DEF TypeOK
    <3> QED BY <2>1, <3>1, <3>2, <3>3 DEF vaultVars, TypeOK
  <2>3. HolderInv'
    BY <2>1, <1>a, <1>b, NamesAssumption DEF HolderInv
  <2>4. PlansInv' /\ InventoryInv'
    BY <1>11 DEF Release, Crash, PlansInv, InventoryInv
  <2>5. WorkInv'
    BY <1>11, <2>1, <1>a DEF Release, Crash, WorkInv, WorkOf, Busy, Steps
  <2> QED BY <2>2, <2>3, <2>4, <2>5
<1>12. ASSUME NEW d \in Docs, EditDoc(d) \/ EditLink(d) \/ Ingest(d) PROVE TypeInv'
  <2>1. TypeOK'
    <3>1. tree' \in [Docs -> 0..Versions]
      BY <1>12 DEF EditDoc, EditLink, Ingest, TypeOK
    <3>2. linked' \subseteq Docs
      BY <1>12 DEF EditDoc, EditLink, Ingest, TypeOK
    <3>3. processed' \in [Docs -> 0..Versions]
      BY <1>12 DEF EditDoc, EditLink, Ingest, TypeOK
    <3>4. UNCHANGED <<lock, procVars, inventory, ops, events, faults>> /\ edits' = edits + 1
      BY <1>12 DEF EditDoc, EditLink, Ingest
    <3>5. removed' \subseteq Docs
      BY <1>12 DEF EditDoc, EditLink, Ingest, TypeOK
    <3> QED BY <3>1, <3>2, <3>3, <3>4, <3>5 DEF procVars, TypeOK
  <2> QED BY <1>12, <2>1 DEF EditDoc, EditLink, Ingest, procVars, HolderInv, PlansInv,
                             InventoryInv, WorkInv, WorkOf
<1>13. CASE IsolateLock
  <2>1. TypeOK' /\ HolderInv'
    BY <1>13, NamesAssumption DEF IsolateLock, procVars, vaultVars, TypeOK, HolderInv
  <2> QED BY <1>13, <2>1 DEF IsolateLock, procVars, PlansInv, InventoryInv, WorkInv, WorkOf
<1> QED BY <1>1, <1>2, <1>3, <1>4, <1>5, <1>6, <1>7, <1>8, <1>9, <1>10, <1>11, <1>12, <1>13
        DEF Next, Step

LEMMA TypeInvariant == Spec => []TypeInv
  BY TypeInit, TypeNext, PTL DEF Spec

\* Every variable of the inventory keeps its shape, and an ignored record, and
\* no other, has a reason.
THEOREM TypeCorrect == Spec => []TypeOK
<1>1. TypeInv => TypeOK
  BY DEF TypeInv
<1> QED BY <1>1, TypeInvariant, PTL

-----------------------------------------------------------------------------
(* The audit trail *)

\* Where a baseline does not follow from an event, an operation in between did
\* not complete.
Gap(i, next, limit) ==
  next # events[i].new =>
    \E n \in (events[i].op + 1)..limit : ops[n].status # "completed"

\* Events are of different operations, in their order.
EventsInv ==
  /\ \A i \in DOMAIN events : events[i].op \in 1..Len(ops)
  /\ \A i, k \in DOMAIN events : i < k => events[i].op < events[k].op

ChainInv ==
  \A i \in DOMAIN events :
    IF i = Len(events) THEN Gap(i, inventory, Len(ops))
    ELSE Gap(i, events[i + 1].old, events[i + 1].op - 1)

LoggedInv ==
  \A n \in DOMAIN ops : ops[n].status = "completed" =>
    \E i \in DOMAIN events : events[i].op = n /\ events[i].new = ops[n].key.baseline

\* The operation at work has no event yet, and would close the gap the last
\* one leaves; or it has the last event, which tells of the baseline in force.
AtWork(p) ==
  /\ pc[p] \in {"write-inventory", "append-change-log"} =>
       /\ \A i \in DOMAIN events : events[i].op < Len(ops)
       /\ Len(events) # 0 => Gap(Len(events), plan[p].over, Len(ops) - 1)
  /\ pc[p] \in {"complete", "return"} =>
       /\ Len(events) # 0
       /\ events[Len(events)].op = Len(ops)
       /\ events[Len(events)].new = inventory

AuditInv == EventsInv /\ ChainInv /\ LoggedInv /\ \A p \in Procs : AtWork(p)

LEMMA EventOps ==
  ASSUME TypeInv
  PROVE  /\ DOMAIN events = 1..Len(events) /\ Len(events) \in Nat
         /\ \A i \in DOMAIN events : events[i].op \in Nat
<1>1. events \in Seq(Event)
  BY DEF TypeInv, TypeOK
<1>2. DOMAIN events = 1..Len(events) /\ Len(events) \in Nat /\ \A i \in DOMAIN events : events[i] \in Event
  BY <1>1
<1> QED BY <1>2 DEF Event

\* Steps after which at most p is at work.
LEMMA AtWorkAlone ==
  ASSUME TypeInv, NEW p \in Procs, pc[p] \in Inside,
         \A o \in Procs : o # p => pc'[o] = pc[o], AtWork(p)'
  PROVE  \A o \in Procs : AtWork(o)'
<1>1. \A o \in Procs : o # p => pc[o] \notin Inside
  BY Alone DEF TypeInv
<1> QED BY <1>1 DEF AtWork, Inside, Steps

LEMMA AuditQuiet ==
  ASSUME AuditInv, NEW p \in Procs, UNCHANGED <<ops, events, inventory>>,
         \A o \in Procs : o # p => pc'[o] = pc[o] /\ plan'[o] = plan[o],
         pc'[p] \notin Busy
  PROVE  AuditInv'
<1>1. EventsInv' /\ ChainInv' /\ LoggedInv'
  BY DEF AuditInv, EventsInv, ChainInv, Gap, LoggedInv
<1>2. \A o \in Procs : AtWork(o)'
  BY DEF AuditInv, AtWork, Gap, Busy, Steps
<1> QED BY <1>1, <1>2 DEF AuditInv

\* A change of the last operation alone, one that does not complete it.
LEMMA AuditUnsettled ==
  ASSUME TypeInv, TypeInv', AuditInv, NEW p \in Procs, pc[p] \in Busy,
         UNCHANGED <<events, inventory, plan>>, Len(ops') = Len(ops),
         \A n \in 1..Len(ops) : /\ ops'[n].key = ops[n].key
                                /\ ops'[n].status = "completed" => ops[n].status = "completed",
         \A o \in Procs : o # p => pc'[o] = pc[o],
         pc'[p] = pc[p] \/ pc'[p] \notin Busy
  PROVE  AuditInv'
<1>1. DOMAIN ops = 1..Len(ops) /\ DOMAIN ops' = 1..Len(ops) /\ Len(ops) \in Nat
  BY DEF TypeInv, TypeOK
<1>2. EventsInv'
  BY DEF AuditInv, EventsInv
<1>3. /\ \A i \in DOMAIN events : events[i].op \in Nat
      /\ DOMAIN events = 1..Len(events) /\ Len(events) \in Nat
  BY EventOps
<1>4. \A i \in DOMAIN events : \A n \in (events[i].op + 1)..Len(ops) :
        ops[n].status # "completed" => ops'[n].status # "completed"
  BY <1>1, <1>3
<1>5. ChainInv'
  <2>1. \A i \in DOMAIN events : i # Len(events) =>
          i + 1 \in DOMAIN events /\ events[i + 1].op - 1 \in Nat /\ events[i + 1].op - 1 <= Len(ops)
    <3>1. ASSUME NEW i \in DOMAIN events, i # Len(events) PROVE i + 1 \in DOMAIN events
      BY <1>3, <3>1
    <3>2. \A i \in DOMAIN events : events[i].op \in 1..Len(ops)
      BY DEF AuditInv, EventsInv
    <3> QED BY <1>1, <3>1, <3>2
  <2>2. ASSUME NEW i \in DOMAIN events, i = Len(events) PROVE Gap(i, inventory, Len(ops))'
    <3>1. Gap(i, inventory, Len(ops))
      BY <2>2 DEF AuditInv, ChainInv
    <3> QED BY <1>4, <3>1 DEF Gap
  <2>3. ASSUME NEW i \in DOMAIN events, i # Len(events)
        PROVE  Gap(i, events[i + 1].old, events[i + 1].op - 1)'
    <3>1. Gap(i, events[i + 1].old, events[i + 1].op - 1)
      BY <2>3 DEF AuditInv, ChainInv
    <3>2. \A n \in (events[i].op + 1)..(events[i + 1].op - 1) : n \in (events[i].op + 1)..Len(ops)
      BY <1>1, <1>3, <2>1, <2>3
    <3> QED BY <1>4, <3>1, <3>2 DEF Gap
  <2> QED BY <2>2, <2>3 DEF ChainInv
<1>6. LoggedInv'
  BY <1>1 DEF AuditInv, LoggedInv
<1>7. AtWork(p)'
  <2>1. CASE pc'[p] \notin Busy
    BY <2>1 DEF AtWork, Busy, Steps
  <2>2. CASE pc'[p] = pc[p]
    <3>1. Len(events) # 0 => Len(events) \in DOMAIN events
      BY DEF TypeInv, TypeOK
    <3>2. ASSUME Len(events) # 0, Gap(Len(events), plan[p].over, Len(ops) - 1)
          PROVE  Gap(Len(events), plan[p].over, Len(ops) - 1)'
      <4>1. \A n \in (events[Len(events)].op + 1)..(Len(ops) - 1) :
              n \in (events[Len(events)].op + 1)..Len(ops)
        BY <1>1, <1>3, <3>1, <3>2
      <4> QED BY <1>4, <3>1, <3>2, <4>1 DEF Gap
    <3> QED BY <2>2, <3>2 DEF AuditInv, AtWork
  <2> QED BY <2>1, <2>2
<1>8. \A o \in Procs : AtWork(o)'
  BY <1>7, AtWorkAlone DEF Busy, Inside
<1> QED BY <1>2, <1>5, <1>6, <1>8 DEF AuditInv

LEMMA AuditNext == TypeInv /\ TypeInv' /\ AuditInv /\ [Next]_vars => AuditInv'
<1> SUFFICES ASSUME TypeInv, TypeInv', AuditInv, [Next]_vars PROVE AuditInv'
  OBVIOUS
<1>a. /\ pc = [p \in Procs |-> pc[p]] /\ DOMAIN plan = Procs
      /\ ops \in Seq(Operation) /\ Len(ops) \in Nat /\ DOMAIN ops = 1..Len(ops)
      /\ events \in Seq(Event) /\ Len(events) \in Nat /\ DOMAIN events = 1..Len(events)
      /\ \A i \in DOMAIN events : events[i].op \in Nat
  <2>1. /\ pc = [p \in Procs |-> pc[p]] /\ DOMAIN plan = Procs
        /\ ops \in Seq(Operation) /\ events \in Seq(Event)
    BY DEF TypeInv, TypeOK
  <2>2. Len(ops) \in Nat /\ DOMAIN ops = 1..Len(ops)
    BY <2>1
  <2> QED BY <2>1, <2>2, EventOps
<1>b. \A p \in Procs : WorkOf(p) /\ AtWork(p)
  BY DEF TypeInv, WorkInv, AuditInv
<1>1. ASSUME UNCHANGED <<pc, plan, ops, events, inventory>> PROVE AuditInv'
  BY <1>1 DEF AuditInv, EventsInv, ChainInv, Gap, LoggedInv, AtWork
<1>2. ASSUME NEW p \in Procs, NEW c \in Commands, Preview(p, c) PROVE AuditInv'
  BY <1>2, <1>a, AuditQuiet DEF Preview, Busy, Steps
<1>3. ASSUME NEW p \in Procs, Acquire(p) \/ Repeat(p) \/ Refuse(p) \/ Release(p) \/ Crash(p)
      PROVE  AuditInv'
  BY <1>3, <1>a, AuditQuiet DEF Acquire, Repeat, Refuse, Release, Crash, Busy, Steps
<1>4. ASSUME NEW p \in Procs, Begin(p) PROVE AuditInv'
  <2>1. /\ Len(ops') = Len(ops) + 1 /\ DOMAIN ops' = 1..(Len(ops) + 1)
        /\ \A n \in 1..Len(ops) : ops'[n] = ops[n]
        /\ ops'[Len(ops) + 1].status = "running"
    BY <1>4, <1>a DEF Begin
  <2>2. UNCHANGED <<events, inventory, plan>> /\ plan[p].over = inventory
        /\ pc[p] \in Inside /\ pc'[p] = "write-inventory"
        /\ \A o \in Procs : o # p => pc'[o] = pc[o]
    BY <1>4, <1>a DEF Begin, PlanOf, Inside
  <2>3. EventsInv'
    BY <2>1, <2>2, <1>a DEF AuditInv, EventsInv
  <2>4. ChainInv'
    <3>1. ASSUME NEW i \in DOMAIN events, i = Len(events) PROVE Gap(i, inventory, Len(ops))'
      BY <2>1, <2>2, <3>1, <1>a DEF AuditInv, ChainInv, Gap
    <3>2. ASSUME NEW i \in DOMAIN events, i # Len(events)
          PROVE  Gap(i, events[i + 1].old, events[i + 1].op - 1)'
      <4>1. Gap(i, events[i + 1].old, events[i + 1].op - 1)
        BY <3>2 DEF AuditInv, ChainInv
      <4>2. i + 1 \in DOMAIN events /\ events[i + 1].op \in 1..Len(ops)
        BY <3>2, <1>a DEF AuditInv, EventsInv
      <4> QED BY <2>1, <2>2, <4>1, <4>2, <1>a DEF Gap
    <3> QED BY <2>2, <3>1, <3>2 DEF ChainInv
  <2>5. LoggedInv'
    BY <2>1, <2>2, <1>a DEF AuditInv, LoggedInv
  <2>6. AtWork(p)'
    <3>1. \A i \in DOMAIN events : events[i].op < Len(ops) + 1
      BY <1>a DEF AuditInv, EventsInv
    <3>2. Len(events) # 0 => Gap(Len(events), inventory, Len(ops))
      BY <1>a DEF AuditInv, ChainInv
    <3>3. Len(events) # 0 => Gap(Len(events), plan[p].over, Len(ops) - 1)'
      <4>1. Len(ops') - 1 = Len(ops)
        BY <2>1, <1>a
      <4>2. Len(events) # 0 => events[Len(events)].op \in Nat
        BY <1>a
      <4>3. \A n \in 1..Len(ops) : ops'[n].status = ops[n].status
        BY <2>1
      <4> QED BY <2>2, <3>2, <4>1, <4>2, <4>3, <1>a DEF Gap
    <3>4. \A i \in DOMAIN events' : events'[i].op < Len(ops')
      BY <2>1, <2>2, <3>1
    <3> QED BY <2>2, <3>3, <3>4 DEF AtWork
  <2> QED BY <2>2, <2>3, <2>4, <2>5, <2>6, AtWorkAlone DEF AuditInv
<1>5. ASSUME NEW p \in Procs, Enter(p) PROVE AuditInv'
  <2>1. pc[p] \in Steps /\ cur[p] = Len(ops) /\ Len(ops) \in 1..Len(ops)
    BY <1>5, <1>a, <1>b DEF Enter, WorkOf, Busy, Steps
  <2>2. /\ Len(ops') = Len(ops)
        /\ \A m \in 1..Len(ops) : ops'[m].key = ops[m].key /\ ops'[m].status = ops[m].status
    BY <1>5, <1>a, <2>1, Entered DEF Enter
  <2> QED BY <1>5, <2>1, <2>2, AuditUnsettled DEF Enter, procVars, Busy
<1>6. ASSUME NEW p \in Procs, Fail(p) PROVE AuditInv'
  <2>1. pc[p] \in Busy /\ cur[p] = Len(ops) /\ Len(ops) \in 1..Len(ops)
    BY <1>6, <1>a, <1>b DEF Fail, WorkOf, Busy
  <2>2. PICK step \in Steps :
          ops' = ops \/ ops' = [ops EXCEPT ![cur[p]].status = "failed", ![cur[p]].step = step]
    BY <1>6 DEF Fail, Steps
  <2>3. /\ Len(ops') = Len(ops)
        /\ \A n \in 1..Len(ops) : /\ ops'[n].key = ops[n].key
                                  /\ ops'[n].status = "completed" => ops[n].status = "completed"
    BY <2>1, <2>2, <1>a, Settled
  <2> QED BY <1>6, <2>1, <2>3, <1>a, AuditUnsettled DEF Fail, Busy, Steps
<1>7. ASSUME NEW p \in Procs, WriteInventory(p) PROVE AuditInv'
  <2>1. /\ pc[p] = "write-inventory" /\ pc'[p] = "append-change-log" /\ UNCHANGED <<ops, events, plan>>
        /\ \A o \in Procs : o # p => pc'[o] = pc[o]
    BY <1>7, <1>a DEF WriteInventory, At
  <2>2. ops[Len(ops)].status # "completed" /\ \A i \in DOMAIN events : events[i].op < Len(ops)
    BY <2>1, <1>b DEF WorkOf, AtWork, Steps
  <2>3. EventsInv' /\ LoggedInv'
    BY <2>1 DEF AuditInv, EventsInv, LoggedInv
  <2>4. ChainInv'
    <3>1. ASSUME NEW i \in DOMAIN events, i = Len(events) PROVE Gap(i, inventory, Len(ops))'
      <4>1. Len(ops) \in (events[i].op + 1)..Len(ops)
        BY <2>2, <1>a
      <4> QED BY <2>1, <2>2, <4>1 DEF Gap
    <3>2. ASSUME NEW i \in DOMAIN events, i # Len(events)
          PROVE  Gap(i, events[i + 1].old, events[i + 1].op - 1)'
      BY <2>1, <3>2 DEF AuditInv, ChainInv, Gap
    <3> QED BY <2>1, <3>1, <3>2 DEF ChainInv
  <2>5. AtWork(p)'
    BY <2>1, <1>b DEF AtWork, Gap
  <2> QED BY <2>1, <2>3, <2>4, <2>5, AtWorkAlone DEF AuditInv, Inside, Steps
<1>8. ASSUME NEW p \in Procs, AppendChangeLog(p) PROVE AuditInv'
  <2> DEFINE e == [op |-> cur[p], old |-> plan[p].over, new |-> inventory]
             last == Len(events) + 1
  <2>1. /\ pc[p] = "append-change-log" /\ pc'[p] = "complete" /\ UNCHANGED <<ops, inventory, plan>>
        /\ \A o \in Procs : o # p => pc'[o] = pc[o]
        /\ events' = Append(events, e)
    BY <1>8, <1>a DEF AppendChangeLog, At
  <2>2. /\ Len(events') = last /\ DOMAIN events' = 1..last
        /\ events'[last] = e /\ \A i \in DOMAIN events : events'[i] = events[i]
    BY <2>1, <1>a
  <2>3. /\ cur[p] = Len(ops) /\ Len(ops) # 0
        /\ \A i \in DOMAIN events : events[i].op < Len(ops)
        /\ Len(events) # 0 => Gap(Len(events), plan[p].over, Len(ops) - 1)
    BY <2>1, <1>b DEF WorkOf, AtWork, Busy, Steps
  <2>4. e.op = Len(ops) /\ e.old = plan[p].over /\ e.new = inventory
    BY <2>3
  <2> HIDE DEF e
  <2>5. EventsInv'
    BY <2>1, <2>2, <2>3, <2>4, <1>a DEF AuditInv, EventsInv
  <2>6. ChainInv'
    <3>1. ASSUME NEW i \in DOMAIN events', i = last PROVE Gap(i, inventory, Len(ops))'
      BY <2>1, <2>2, <2>4, <3>1 DEF Gap
    <3>2. ASSUME NEW i \in DOMAIN events', i # last
          PROVE  Gap(i, events[i + 1].old, events[i + 1].op - 1)'
      <4>1. i \in DOMAIN events /\ events'[i] = events[i]
        BY <2>2, <3>2, <1>a
      <4>2. CASE i = Len(events)
        <5>1. events'[i + 1] = e
          BY <2>2, <4>2
        <5> QED BY <2>1, <2>3, <2>4, <4>1, <4>2, <5>1, <1>a DEF Gap
      <4>3. CASE i # Len(events)
        <5>1. i + 1 \in DOMAIN events /\ events'[i + 1] = events[i + 1]
          BY <2>2, <4>1, <4>3, <1>a
        <5>2. Gap(i, events[i + 1].old, events[i + 1].op - 1)
          BY <4>1, <4>3 DEF AuditInv, ChainInv
        <5> QED BY <2>1, <4>1, <5>1, <5>2 DEF Gap
      <4> QED BY <4>2, <4>3
    <3> QED BY <2>2, <3>1, <3>2 DEF ChainInv
  <2>7. LoggedInv'
    BY <2>1, <2>2, <1>a DEF AuditInv, LoggedInv
  <2>8. AtWork(p)'
    BY <2>1, <2>2, <2>4, <1>a DEF AtWork
  <2> QED BY <2>1, <2>5, <2>6, <2>7, <2>8, AtWorkAlone DEF AuditInv, Inside, Steps
<1>9. ASSUME NEW p \in Procs, Complete(p) PROVE AuditInv'
  <2>1. /\ pc[p] = "complete" /\ pc'[p] = "return" /\ UNCHANGED <<events, inventory, plan>>
        /\ \A o \in Procs : o # p => pc'[o] = pc[o]
    BY <1>9, <1>a DEF Complete
  <2>2. /\ cur[p] = Len(ops) /\ Len(ops) \in 1..Len(ops) /\ ops[Len(ops)].key = plan[p]
        /\ inventory = plan[p].baseline /\ Len(events) # 0
        /\ events[Len(events)].op = Len(ops) /\ events[Len(events)].new = inventory
    BY <2>1, <1>a, <1>b, SMTT(40) DEF WorkOf, AtWork, Busy, Steps
  <2>3. /\ Len(ops') = Len(ops) /\ DOMAIN ops' = DOMAIN ops
        /\ \A m \in 1..Len(ops) : ops'[m].key = ops[m].key
        /\ \A m \in 1..Len(ops) : m # Len(ops) => ops'[m] = ops[m]
    <3>1. ops' = [ops EXCEPT ![Len(ops)].status = "completed", ![Len(ops)].step = "complete"]
      BY <1>9, <2>2, SMTT(40) DEF Complete
    <3> QED BY <2>2, <3>1, <1>a, Settled, ZenonT(60) DEF Steps
  <2>4. EventsInv'
    BY <2>1, <2>3 DEF AuditInv, EventsInv
  <2>5. ChainInv'
    <3>1. ASSUME NEW i \in DOMAIN events, i = Len(events) PROVE Gap(i, inventory, Len(ops))'
      BY <2>1, <2>2, <3>1 DEF Gap
    <3>2. ASSUME NEW i \in DOMAIN events, i # Len(events)
          PROVE  Gap(i, events[i + 1].old, events[i + 1].op - 1)'
      <4>1. Gap(i, events[i + 1].old, events[i + 1].op - 1)
        BY <3>2 DEF AuditInv, ChainInv
      <4>2. i + 1 \in DOMAIN events /\ events[i + 1].op \in 1..Len(ops)
        BY <3>2, <1>a DEF AuditInv, EventsInv
      <4> QED BY <2>1, <2>3, <4>1, <4>2, <1>a DEF Gap
    <3> QED BY <2>1, <3>1, <3>2 DEF ChainInv
  <2>6. LoggedInv'
    <3>1. Len(events) \in DOMAIN events
      BY <2>2, <1>a, SMTT(40)
    <3> QED BY <2>1, <2>2, <2>3, <3>1, <1>a, SMTT(40) DEF AuditInv, LoggedInv
  <2>7. AtWork(p)'
    BY <2>1, <2>2, <2>3 DEF AtWork
  <2> QED BY <2>1, <2>4, <2>5, <2>6, <2>7, AtWorkAlone DEF AuditInv, Inside, Steps
<1>10. ASSUME NEW d \in Docs, EditDoc(d) \/ EditLink(d) \/ Ingest(d) PROVE AuditInv'
  BY <1>1, <1>10 DEF EditDoc, EditLink, Ingest, procVars
<1>11. CASE IsolateLock \/ UNCHANGED vars
  BY <1>1, <1>11 DEF IsolateLock, vars, procVars
<1> QED BY <1>2, <1>3, <1>4, <1>5, <1>6, <1>7, <1>8, <1>9, <1>10, <1>11 DEF Next, Step

\* The log accounts for the baseline: a completed operation has one event, and
\* where the events or the baseline do not follow from each other, an operation
\* that did not complete lies between.
THEOREM Trail == Spec => []AuditTrail
<1>1. Init => AuditInv
  BY DEF Init, AuditInv, EventsInv, ChainInv, LoggedInv, AtWork
<1>2. TypeInv /\ AuditInv => AuditTrail
  <2> SUFFICES ASSUME TypeInv, AuditInv PROVE AuditTrail
    OBVIOUS
  <2>1. /\ DOMAIN events = 1..Len(events) /\ Len(events) \in Nat
        /\ \A i \in DOMAIN events : events[i].op \in Nat
    BY EventOps
  <2>2. \A i, k \in DOMAIN events : events[i].op = events[k].op => i = k
    BY <2>1 DEF AuditInv, EventsInv
  <2>3. \A i \in DOMAIN events :
          LET next == IF i = Len(events) THEN inventory ELSE events[i + 1].old
              limit == IF i = Len(events) THEN Len(ops) ELSE events[i + 1].op - 1
          IN  Gap(i, next, limit)
    BY DEF AuditInv, ChainInv
  <2> QED BY <2>2, <2>3 DEF AuditInv, LoggedInv, AuditTrail, Gap
<1> QED BY <1>1, <1>2, AuditNext, TypeInvariant, PTL DEF Spec

-----------------------------------------------------------------------------
(* What the user asked for *)

\* Operation n ignored d for reason r, and no unignore of d completed since.
Accounts(n, d, r) ==
  /\ ops[n].key.action = "ignore"
  /\ ops[n].key.baseline.docs[d].reason = r
  /\ ops[n].key.over.docs[d].reason # r
  /\ \A m \in (n + 1)..Len(ops) :
       ops[m].status = "completed" /\ ops[m].key.action = "unignore" =>
         ops[m].key.baseline.docs[d].disposition = "ignored"

\* What was never removed and is in the baseline, or in one that is planned, is
\* in the vault.
PresentInv ==
  \A d \in Docs \ removed :
    tree[d] = 0 => /\ inventory.docs[d].disposition = None
                   /\ \A p \in Procs : plan[p].baseline.docs[d].disposition = None

\* An operation whose scope admits a document drops it only if it was removed.
Retains(key, gone) ==
  \A d \in Docs \ gone :
    key.action # "initialize" /\ key.over.docs[d].disposition # None /\ d \in key.baseline.scope =>
      key.baseline.docs[d].disposition # None

KeysInv == \A n \in 1..Len(ops) : Follows(ops[n].key) /\ Retains(ops[n].key, removed)

\* Operation n made the baseline, and later ones had d in scope.
MadeBy(n, d) ==
  /\ ops[n].key.action = "initialize" /\ ops[n].key.baseline.docs[d].disposition # None
  /\ \A m \in (n + 1)..Len(ops) :
       ops[m].key.action # "initialize" /\ d \in ops[m].key.baseline.scope

Unignores(key, d) == key.action = "unignore" /\ key.over.docs[d].disposition = "ignored"

\* What is left of the disposition operation n gave to d.
Kept(n, d) ==
  LET was == ops[n].key.baseline.docs[d].disposition
      now == inventory.docs[d].disposition
  IN  /\ \/ now \in {was, "ignored"}
         \/ now = "discovered" /\ \E m \in (n + 1)..Len(ops) : Unignores(ops[m].key, d)
      /\ \A m \in (n + 1)..Len(ops) :
           ops[m].status = "completed" /\ ops[m].key.baseline.docs[d].disposition = "ignored" =>
             now # was

KeptInv ==
  inventory.exists => \A n \in 1..Len(ops), d \in Docs \ removed : MadeBy(n, d) => Kept(n, d)

UserInv == IgnoreIsAccounted /\ PresentInv /\ KeysInv /\ KeptInv

\* Steps that change no baseline, and no operation but for its status; they may
\* complete one whose baseline is in force.
LEMMA UserQuiet ==
  ASSUME TypeInv, UserInv, ops' \in Seq(Operation), PresentInv',
         inventory' = inventory, removed \subseteq removed', Len(ops') = Len(ops),
         \A n \in 1..Len(ops) :
           /\ ops'[n].key = ops[n].key
           /\ ops'[n].status = "completed" =>
                ops[n].status = "completed" \/ inventory = ops[n].key.baseline
  PROVE  UserInv'
<1>1. /\ ops \in Seq(Operation)
      /\ DOMAIN ops = 1..Len(ops) /\ DOMAIN ops' = 1..Len(ops) /\ Len(ops) \in Nat
  BY DEF TypeInv, TypeOK
<1>2. \A n \in 1..Len(ops) : \A m \in (n + 1)..Len(ops) : m \in 1..Len(ops)
  BY <1>1
<1>3. IgnoreIsAccounted'
  <2> SUFFICES ASSUME NEW d \in Docs, inventory.docs[d].disposition = "ignored"
               PROVE  \E n \in DOMAIN ops' : Accounts(n, d, inventory.docs[d].reason)'
    BY DEF IgnoreIsAccounted, Accounts
  <2> DEFINE r == inventory.docs[d].reason
  <2>1. PICK n \in 1..Len(ops) : Accounts(n, d, r)
    BY <1>1 DEF UserInv, IgnoreIsAccounted, Accounts
  <2>3. ASSUME NEW m \in (n + 1)..Len(ops), ops'[m].status = "completed",
               ops'[m].key.action = "unignore"
        PROVE  ops'[m].key.baseline.docs[d].disposition = "ignored"
    <3>1. m \in 1..Len(ops) /\ ops'[m].key = ops[m].key
      BY <1>2
    <3>2. ops[m].status = "completed" \/ inventory = ops[m].key.baseline
      BY <2>3, <3>1
    <3> QED BY <2>1, <2>3, <3>1, <3>2 DEF Accounts
  <2>4. r' = r /\ Len(ops') = Len(ops) /\ ops'[n].key = ops[n].key
    BY <2>1
  <2> HIDE DEF r
  <2>2. Accounts(n, d, r)'
    BY <2>1, <2>3, <2>4, Zenon DEF Accounts
  <2> USE DEF r
  <2> QED BY <1>1, <2>2
<1>5. KeysInv'
  <2> SUFFICES ASSUME NEW n \in 1..Len(ops)
               PROVE  Follows(ops[n].key) /\ Retains(ops[n].key, removed')
    BY DEF KeysInv
  <2>1. Follows(ops[n].key) /\ Retains(ops[n].key, removed)
    BY SMTT(30) DEF UserInv, KeysInv
  <2> QED BY <2>1, SMTT(30) DEF Retains
<1>6. KeptInv'
  <2> SUFFICES ASSUME inventory.exists, NEW n \in 1..Len(ops), NEW d \in Docs \ removed', MadeBy(n, d)'
               PROVE  Kept(n, d)'
    BY DEF KeptInv
  <2>1. MadeBy(n, d) /\ d \in Docs \ removed
    BY <1>2 DEF MadeBy
  <2>2. Kept(n, d)
    BY <2>1 DEF UserInv, KeptInv
  <2>6. Follows(ops[n].key)
    BY DEF UserInv, KeysInv
  <2>3. ops[n].key.baseline.docs[d].disposition # "ignored"
    BY <2>1, <2>6, SMTT(30) DEF MadeBy, Follows, None
  <2>4. \A m \in (n + 1)..Len(ops) :
           ops'[m].status = "completed" /\ ops[m].key.baseline.docs[d].disposition = "ignored" =>
             inventory.docs[d].disposition # ops[n].key.baseline.docs[d].disposition
    BY <1>2, <2>2, <2>3 DEF Kept
  <2>5. (\E m \in (n + 1)..Len(ops) : Unignores(ops[m].key, d)) =>
           \E m \in (n + 1)..Len(ops) : Unignores(ops'[m].key, d)
    BY <1>2
  <2> QED BY <1>2, <2>2, <2>4, <2>5 DEF Kept, Unignores
<1> QED BY <1>3, <1>5, <1>6 DEF UserInv

\* A new operation: what it was planned over is the baseline in force, and what
\* that records and was never removed is in the vault.
LEMMA UserBegin ==
  ASSUME TypeInv, UserInv, NEW p \in Procs, Begin(p)
  PROVE  UserInv'
<1>1. ops \in Seq(Operation) /\ DOMAIN ops = 1..Len(ops) /\ Len(ops) \in Nat
  BY DEF TypeInv, TypeOK
<1>2. /\ Len(ops') = Len(ops) + 1 /\ DOMAIN ops' = 1..(Len(ops) + 1)
      /\ \A n \in 1..Len(ops) : ops'[n] = ops[n]
      /\ ops'[Len(ops) + 1].status = "running" /\ ops'[Len(ops) + 1].key = plan[p]
  BY <1>1 DEF Begin
<1>3. inventory' = inventory /\ plan' = plan /\ tree' = tree /\ removed' = removed
  BY DEF Begin, vaultVars
<1>4. /\ \A n \in 1..Len(ops) : \A m \in (n + 1)..Len(ops) :
            m \in 1..Len(ops) /\ m \in (n + 1)..(Len(ops) + 1)
      /\ \A n \in 1..(Len(ops) + 1) : n = Len(ops) + 1 \/ n \in 1..Len(ops)
      /\ \A n \in 1..Len(ops) : \A m \in (n + 1)..(Len(ops) + 1) :
            m = Len(ops) + 1 \/ m \in (n + 1)..Len(ops)
  BY <1>1
<1>5. /\ Follows(plan[p]) /\ Records(plan[p]) /\ plan[p].over = inventory
      /\ inventory.exists => plan[p].action # "initialize"
  <2>1. command[p] \in Commands /\ Plannable(command[p]) /\ PlanOf(command[p]) = plan[p]
    BY DEF Begin, TypeInv, TypeOK
  <2>2. PlanOf(command[p]).action = command[p].action
    BY DEF PlanOf
  <2> QED BY <2>1, <2>2, PlanFollows DEF Plannable, TypeInv, TypeOK, InventoryInv
<1>6. IgnoreIsAccounted'
  <2> SUFFICES ASSUME NEW d \in Docs, inventory.docs[d].disposition = "ignored"
               PROVE  \E n \in DOMAIN ops' : Accounts(n, d, inventory.docs[d].reason)'
    BY <1>3 DEF IgnoreIsAccounted, Accounts
  <2>1. PICK n \in 1..Len(ops) : Accounts(n, d, inventory.docs[d].reason)
    BY <1>1 DEF UserInv, IgnoreIsAccounted, Accounts
  <2>2. Accounts(n, d, inventory.docs[d].reason)'
    BY <1>2, <1>3, <1>4, <2>1 DEF Accounts
  <2> QED BY <1>1, <1>2, <2>2
<1>7. PresentInv'
  BY <1>3 DEF UserInv, PresentInv
<1>8. KeysInv'
  <2>1. Retains(plan[p], removed)
    BY <1>5 DEF Retains, Records, UserInv, PresentInv
  <2>2. \A n \in 1..Len(ops) : Follows(ops[n].key) /\ Retains(ops[n].key, removed)
    BY DEF UserInv, KeysInv
  <2>3. \A n \in 1..(Len(ops) + 1) : Follows(ops'[n].key) /\ Retains(ops'[n].key, removed)
    BY <1>2, <1>4, <1>5, <2>1, <2>2, SMTT(30)
  <2> QED BY <1>2, <1>3, <2>3, SMTT(30) DEF KeysInv
<1>9. KeptInv'
  <2> SUFFICES ASSUME inventory.exists, NEW n \in 1..(Len(ops) + 1), NEW d \in Docs \ removed,
                      MadeBy(n, d)'
               PROVE  Kept(n, d)'
    BY <1>2, <1>3 DEF KeptInv
  <2>1. n \in 1..Len(ops)
    BY <1>2, <1>4, <1>5 DEF MadeBy
  <2>2. MadeBy(n, d)
    BY <1>2, <1>4, <2>1 DEF MadeBy
  <2>3. Kept(n, d)
    BY <2>1, <2>2 DEF UserInv, KeptInv
  <2>4. (\E m \in (n + 1)..Len(ops) : Unignores(ops[m].key, d)) =>
           \E m \in (n + 1)..(Len(ops) + 1) : Unignores(ops'[m].key, d)
    BY <1>2, <1>4, <2>1, SMTT(30)
  <2>5. \A m \in (n + 1)..(Len(ops) + 1) :
           ops'[m].status = "completed" /\ ops'[m].key.baseline.docs[d].disposition = "ignored" =>
             inventory.docs[d].disposition # ops[n].key.baseline.docs[d].disposition
    BY <1>2, <1>4, <2>1, <2>3 DEF Kept
  <2> QED BY <1>2, <1>3, <2>1, <2>3, <2>4, <2>5 DEF Kept, Unignores
<1> QED BY <1>6, <1>7, <1>8, <1>9 DEF UserInv

\* The baseline of the last operation, the one of p, comes in force.
LEMMA UserWrite ==
  ASSUME TypeInv, UserInv, NEW p \in Procs, WriteInventory(p)
  PROVE  UserInv'
<1>1. ops \in Seq(Operation) /\ DOMAIN ops = 1..Len(ops) /\ Len(ops) \in Nat
  BY DEF TypeInv, TypeOK
<1>2. /\ ops' = ops /\ inventory = plan[p].over /\ inventory' = plan[p].baseline
      /\ plan' = plan /\ tree' = tree /\ removed' = removed /\ pc[p] = "write-inventory"
  BY DEF WriteInventory, At, vaultVars
<1>3. Len(ops) \in 1..Len(ops) /\ ops[Len(ops)].key = plan[p] /\ plan[p] # NoPlan
  BY <1>1, <1>2 DEF TypeInv, WorkInv, WorkOf, Busy, Steps
<1>4. Follows(plan[p]) /\ BaselineOK(plan[p].baseline) /\ BaselineOK(inventory)
  BY <1>3 DEF TypeInv, PlansInv, InventoryInv
<1>5. IgnoreIsAccounted'
  <2> SUFFICES ASSUME NEW d \in Docs, plan[p].baseline.docs[d].disposition = "ignored"
               PROVE  \E n \in DOMAIN ops : Accounts(n, d, plan[p].baseline.docs[d].reason)
    BY <1>2 DEF IgnoreIsAccounted, Accounts
  <2>1. CASE plan[p].action = "ignore"
             /\ inventory.docs[d].reason # plan[p].baseline.docs[d].reason
    <3>1. ~ \E m \in (Len(ops) + 1)..Len(ops) : TRUE
      BY <1>1
    <3>2. Accounts(Len(ops), d, plan[p].baseline.docs[d].reason)
      BY <1>2, <1>3, <2>1, <3>1 DEF Accounts
    <3> QED BY <1>1, <1>3, <3>2
  <2>2. CASE ~(plan[p].action = "ignore"
               /\ inventory.docs[d].reason # plan[p].baseline.docs[d].reason)
    <3>1. /\ inventory.docs[d].disposition = "ignored"
          /\ inventory.docs[d].reason = plan[p].baseline.docs[d].reason
      <4>1. CASE plan[p].action = "ignore"
        BY <1>4, <2>2, <4>1 DEF BaselineOK
      <4>2. CASE plan[p].action # "ignore"
        BY <1>2, <1>4, <4>2 DEF Follows
      <4> QED BY <4>1, <4>2
    <3> QED BY <3>1 DEF UserInv, IgnoreIsAccounted, Accounts
  <2> QED BY <2>1, <2>2
<1>6. PresentInv'
  BY <1>2 DEF UserInv, PresentInv
<1>7. KeysInv'
  BY <1>2 DEF UserInv, KeysInv
<1>8. KeptInv'
  <2> SUFFICES ASSUME NEW n \in 1..Len(ops), NEW d \in Docs \ removed, MadeBy(n, d)
               PROVE  Kept(n, d)'
    BY <1>2 DEF KeptInv, MadeBy
  <2> DEFINE was == ops[n].key.baseline.docs[d].disposition
             old == plan[p].over.docs[d].disposition
             new == plan[p].baseline.docs[d].disposition
  <2>1. Follows(ops[n].key)
    BY DEF UserInv, KeysInv
  <2>2. was \in {"known-existing", "unverified"}
    BY <2>1 DEF MadeBy, Follows
  <2>3. CASE n = Len(ops)
    <3>1. new = was
      BY <1>3, <2>3, SMTT(30)
    <3>2. ~ \E m \in (n + 1)..Len(ops) : TRUE
      BY <1>1, <2>3, SMTT(30)
    <3> QED BY <1>2, <3>1, <3>2 DEF Kept
  <2>4. CASE n # Len(ops)
    <3>1. Len(ops) \in (n + 1)..Len(ops)
      <4>1. Len(ops) \in Nat
        BY <1>1
      <4> QED BY <4>1, <2>4
    <3>2. plan[p].action # "initialize" /\ d \in plan[p].baseline.scope
      BY <1>3, <3>1 DEF MadeBy
    <3>3. inventory.exists
      <4>1. plan[p].over.exists <=> plan[p].action # "initialize"
        BY <1>4, Zenon DEF Follows
      <4> QED BY <4>1, <1>2, <3>2, Zenon
    <3>4. Kept(n, d)
      BY <3>3, SMTT(30) DEF UserInv, KeptInv
    <3>5. \/ old \in {was, "ignored"}
          \/ old = "discovered" /\ \E m \in (n + 1)..Len(ops) : Unignores(ops[m].key, d)
      BY <1>2, <3>4, ZenonT(40) DEF Kept
    <3>6. old # None
      BY <2>2, <3>5 DEF None
    <3>7. new # None
      <4>1. Retains(plan[p], removed)
        BY <1>3 DEF UserInv, KeysInv
      <4> QED BY <3>2, <3>6, <4>1 DEF Retains
    <3>8. \/ new = old
          \/ new = "ignored"
          \/ new = "discovered" /\ Unignores(plan[p], d)
      BY <1>4, <3>2, <3>6, <3>7, SMTT(30) DEF Follows, Unignores
    <3>9. \/ new \in {was, "ignored"}
          \/ new = "discovered" /\ \E m \in (n + 1)..Len(ops) : Unignores(ops[m].key, d)
      BY <1>3, <3>1, <3>5, <3>8
    <3>10. new = was => old = was
      BY <2>2, <3>8, SMTT(30)
    <3>11. \A m \in (n + 1)..Len(ops) :
             ops[m].status = "completed" /\ ops[m].key.baseline.docs[d].disposition = "ignored" =>
               new # was
      BY <1>2, <3>4, <3>10 DEF Kept
    <3> HIDE DEF was, old, new
    <3> QED BY <1>2, <3>9, <3>11 DEF Kept, was, new
  <2> QED BY <2>3, <2>4
<1> QED BY <1>5, <1>6, <1>7, <1>8 DEF UserInv

LEMMA UserPreview ==
  ASSUME TypeInv, UserInv, NEW p \in Procs, NEW c \in Commands, Preview(p, c)
  PROVE  UserInv'
<1>1. /\ plan' = [plan EXCEPT ![p] = PlanOf(c)] /\ plan \in [Procs -> Plans]
      /\ inventory' = inventory /\ ops' = ops /\ tree' = tree /\ removed' = removed
  BY DEF Preview, vaultVars, TypeInv, TypeOK
<1>2. Records(PlanOf(c))
  BY PlanFollows DEF Preview, TypeInv, TypeOK, InventoryInv
<1>3. PresentInv'
  <2> SUFFICES ASSUME NEW d \in Docs \ removed, tree[d] = 0, NEW o \in Procs
               PROVE  /\ inventory.docs[d].disposition = None
                      /\ plan'[o].baseline.docs[d].disposition = None
    BY <1>1 DEF PresentInv
  <2>1. CASE o = p
    BY <1>1, <1>2, <2>1 DEF Records, UserInv, PresentInv
  <2>2. CASE o # p
    BY <1>1, <2>2 DEF UserInv, PresentInv
  <2> QED BY <2>1, <2>2
<1> QED BY <1>1, <1>3, UserQuiet DEF TypeInv, TypeOK

\* Whoever removes a document is on record.
LEMMA UserEdits ==
  ASSUME TypeInv, UserInv, NEW d \in Docs, EditDoc(d)
  PROVE  UserInv'
<1>1. PICK v \in 0..Versions : /\ tree' = [tree EXCEPT ![d] = v]
                               /\ removed' = IF v = 0 THEN removed \cup {d} ELSE removed
  BY DEF EditDoc
<1>2. UNCHANGED <<plan, inventory, ops>> /\ tree \in [Docs -> 0..Versions]
  BY DEF EditDoc, procVars, TypeInv, TypeOK
<1>3. removed \subseteq removed' /\ \A e \in Docs \ removed' : tree'[e] = 0 => tree[e] = 0
  BY <1>1, <1>2
<1>4. PresentInv'
  BY <1>2, <1>3 DEF UserInv, PresentInv
<1> QED BY <1>2, <1>3, <1>4, UserQuiet DEF TypeInv, TypeOK

LEMMA UserNext == TypeInv /\ TypeInv' /\ UserInv /\ [Next]_vars => UserInv'
<1> SUFFICES ASSUME TypeInv, TypeInv', UserInv, [Next]_vars PROVE UserInv'
  OBVIOUS
<1>a. ops \in Seq(Operation) /\ ops' \in Seq(Operation) /\ Len(ops) \in Nat
  BY DEF TypeInv, TypeOK
<1>1. ASSUME UNCHANGED <<ops, inventory, plan, tree, removed>> PROVE UserInv'
  <2>1. PresentInv'
    BY <1>1 DEF UserInv, PresentInv
  <2> QED BY <1>1, <1>a, <2>1, UserQuiet
<1>2. ASSUME NEW p \in Procs, Enter(p) PROVE UserInv'
  <2>1. cur[p] = Len(ops) /\ Len(ops) \in 1..Len(ops)
    BY <1>2, <1>a DEF Enter, TypeInv, WorkInv, WorkOf, Busy, Steps
  <2>2. /\ Len(ops') = Len(ops)
        /\ \A m \in 1..Len(ops) : ops'[m].key = ops[m].key /\ ops'[m].status = ops[m].status
    BY <1>2, <1>a, <2>1, Entered DEF Enter, Steps
  <2>5. UNCHANGED <<inventory, plan, tree, removed>>
    BY <1>2 DEF Enter, procVars, vaultVars
  <2>6. PresentInv'
    BY <2>5 DEF UserInv, PresentInv
  <2> QED BY <1>a, <2>2, <2>5, <2>6, UserQuiet
<1>3. ASSUME NEW p \in Procs, Fail(p) PROVE UserInv'
  <2>1. cur[p] = Len(ops) /\ Len(ops) \in 1..Len(ops)
    BY <1>3, <1>a DEF Fail, TypeInv, WorkInv, WorkOf, Busy
  <2>2. PICK step \in Steps :
          ops' = ops \/ ops' = [ops EXCEPT ![cur[p]].status = "failed", ![cur[p]].step = step]
    BY <1>3 DEF Fail, Steps
  <2>3. /\ Len(ops') = Len(ops)
        /\ \A n \in 1..Len(ops) : /\ ops'[n].key = ops[n].key
                                  /\ ops'[n].status = "completed" => ops[n].status = "completed"
    BY <2>1, <2>2, <1>a, Settled
  <2>5. UNCHANGED <<inventory, plan, tree, removed>>
    BY <1>3 DEF Fail, vaultVars
  <2>6. PresentInv'
    BY <2>5 DEF UserInv, PresentInv
  <2> QED BY <1>a, <2>3, <2>5, <2>6, UserQuiet
<1>4. ASSUME NEW p \in Procs, Complete(p) PROVE UserInv'
  <2>1. /\ cur[p] = Len(ops) /\ Len(ops) \in 1..Len(ops) /\ ops[Len(ops)].key = plan[p]
        /\ inventory = plan[p].baseline
    BY <1>4, <1>a DEF Complete, TypeInv, WorkInv, WorkOf, Busy, Steps
  <2>2. ops' = [ops EXCEPT ![Len(ops)].status = "completed", ![Len(ops)].step = "complete"]
    BY <1>4, <2>1, SMTT(30) DEF Complete
  <2>3. /\ Len(ops') = Len(ops)
        /\ \A m \in 1..Len(ops) : ops'[m].key = ops[m].key
        /\ \A m \in 1..Len(ops) : m # Len(ops) => ops'[m] = ops[m]
    BY <1>a, <2>1, <2>2, Settled DEF Steps
  <2>4. UNCHANGED <<inventory, plan, tree, removed>>
    BY <1>4 DEF Complete, vaultVars
  <2>5. PresentInv'
    BY <2>4 DEF UserInv, PresentInv
  <2> QED BY <1>a, <2>1, <2>3, <2>4, <2>5, UserQuiet
<1>5. ASSUME NEW p \in Procs,
             \/ Acquire(p) \/ Repeat(p) \/ Refuse(p) \/ AppendChangeLog(p) \/ Release(p) \/ Crash(p)
      PROVE  UserInv'
  BY <1>1, <1>5 DEF Acquire, Repeat, Refuse, AppendChangeLog, Release, Crash, vaultVars
<1>6. ASSUME NEW d \in Docs, EditLink(d) \/ Ingest(d) PROVE UserInv'
  BY <1>1, <1>6 DEF EditLink, Ingest, procVars
<1>7. CASE IsolateLock \/ UNCHANGED vars
  BY <1>1, <1>7 DEF IsolateLock, vars, procVars, vaultVars
<1> QED BY <1>2, <1>3, <1>4, <1>5, <1>6, <1>7, UserBegin, UserWrite, UserPreview, UserEdits
        DEF Next, Step

LEMMA UserInvariant == Spec => [](TypeInv /\ UserInv)
<1>1. Init => UserInv
  <2> SUFFICES ASSUME Init PROVE UserInv
    OBVIOUS
  <2>1. /\ ~inventory.exists /\ Len(ops) = 0
        /\ \A d \in Docs : inventory.docs[d].disposition = None
        /\ \A p \in Procs, d \in Docs : plan[p].baseline.docs[d].disposition = None
    BY DEF Init, NoPlan, NoBaseline, NoRecord
  <2> QED BY <2>1 DEF UserInv, IgnoreIsAccounted, PresentInv, KeysInv, KeptInv, None
<1> QED BY <1>1, UserNext, TypeInvariant, PTL DEF Spec

\* An ignored document is ignored for a reason the user gave, and stays so until
\* an unignore of it completes, whatever fails in between.
THEOREM Ignores == Spec => []IgnoreIsAccounted
<1>1. UserInv => IgnoreIsAccounted
  BY DEF UserInv
<1> QED BY <1>1, UserInvariant, PTL

\* What the first baseline says of a document stays until the user ignores it,
\* unless it was taken out of the vault or a later scope left it out.
THEOREM HistoryKept == Spec => []HistoryIsKept
<1>1. TypeInv /\ UserInv => HistoryIsKept
  <2> SUFFICES ASSUME TypeInv, UserInv, NEW d \in Docs \ removed, NEW n \in DOMAIN ops,
                      inventory.exists, MadeBy(n, d)
               PROVE  /\ Kept(n, d)
                      /\ \A m \in (n + 1)..Len(ops) :
                           /\ ops[m].status = "completed"
                           /\ ops[m].key.baseline.docs[d].disposition = "ignored"
                           => Finding(d) \notin {"source-island", "source-coverage-lost"}
    BY DEF HistoryIsKept, MadeBy, Kept, Unignores
  <2>1. n \in 1..Len(ops)
    BY DEF TypeInv, TypeOK
  <2>2. Kept(n, d)
    BY <2>1 DEF UserInv, KeptInv
  <2>3. ops[n].key.baseline.docs[d].disposition \in {"known-existing", "unverified"}
    BY <2>1 DEF MadeBy, UserInv, KeysInv, Follows
  <2>4. ASSUME NEW m \in (n + 1)..Len(ops), ops[m].status = "completed",
               ops[m].key.baseline.docs[d].disposition = "ignored"
        PROVE  Finding(d) \notin {"source-island", "source-coverage-lost"}
    <3>1. inventory.docs[d].disposition \in {"ignored", "discovered"}
      BY <2>2, <2>4 DEF Kept
    <3>5. tree[d] # 0
      BY <3>1 DEF UserInv, PresentInv, None
    <3>2. CASE processed[d] = tree[d]
      BY <3>2, <3>5 DEF Finding, None
    <3>3. CASE processed[d] \notin {0, tree[d]}
      BY <3>3 DEF Finding, None
    <3>4. CASE processed[d] = 0 /\ processed[d] # tree[d]
      BY <3>1, <3>4 DEF Finding, None
    <3> QED BY <3>2, <3>3, <3>4
  <2> QED BY <2>2, <2>4
<1> QED BY <1>1, UserInvariant, PTL

=============================================================================
