------------------------- MODULE SourceRegistryProofs -------------------------
(***************************************************************************)
(* Proofs about SourceRegistry: what two ingests that were prepared at the *)
(* same time may do to sources.json and to raw/, for every number of       *)
(* processes, files and runs.                                              *)
(***************************************************************************)
EXTENDS SourceRegistry, WellFoundedInduction, FiniteSetTheorems, TLAPS

(* The smallest number of a set; what is left of one source in a path *)

LEMMA NatLess == IsWellFoundedOn({ss \in Nat \X Nat : ss[1] < ss[2]}, Nat)
  BY NatLessThanWellFounded, Zenon DEF OpToRel

\* Min is the least element of a set of numbers that has one.
LEMMA MinIsLeast ==
  ASSUME NEW S \in SUBSET Nat, NEW n \in S
  PROVE  Min(S) \in S /\ \A k \in S : Min(S) <= k
<1>1. PICK x \in S : \A y \in S : ~ (<<y, x>> \in {ss \in Nat \X Nat : ss[1] < ss[2]})
  BY NatLess, WFMin, Zenon
<1>2. ASSUME NEW y \in S PROVE x <= y
  <2>1. ~ (<<y, x>> \in {ss \in Nat \X Nat : ss[1] < ss[2]})
    BY <1>1
  <2>2. y \in Nat /\ x \in Nat
    OBVIOUS
  <2>3. ~(y < x)
    BY <2>1, <2>2
  <2> QED BY <2>2, <2>3
<1> QED BY <1>2 DEF Min

-----------------------------------------------------------------------------
(* Resolution *)

\* The records of sources.json have their shape, there are finitely many, and
\* fewer archive ids were taken than commands were run.
RegistryOK ==
  /\ IsFiniteSet(DOMAIN registry)
  /\ \A i \in DOMAIN registry :
       /\ i \in Id /\ registry[i] \in SourceRecord
       /\ i.seed = "archive" => i.ordinal < runs
       /\ IF registry[i].mode = "archive" THEN registry[i].archive.id = i
          ELSE registry[i].archive = NoTarget

Source == [action : {"unchanged", "update", "create", "rebind"}, id : Id, revision : Nat \ {0}]

\* What source q is resolved to in the registry R: an archive takes over no
\* record but of its own content and path, unless the user rebinds it; a file
\* read in place takes over the only record there is of its path.
FitsIn(q, source, R) ==
  /\ q.mode = "archive" /\ source.id \in DOMAIN R =>
       /\ R[source.id].content = q.content
       /\ R[source.id].path # q.path => source.action = "rebind"
  /\ q.mode = "read" => \A i \in DOMAIN R : R[i].path = q.path => i = source.id

LEMMA NewIdIsFree ==
  ASSUME RegistryOK, runs \in Nat, runs < MaxRuns,
         NEW q, q.path \in Paths, q.content \in Contents, q.mode \in Modes
  PROVE  /\ NewId(q) \in Id
         /\ NewId(q).seed = "archive" => NewId(q).ordinal <= runs
         /\ q.mode = "archive" => NewId(q) \notin DOMAIN registry
<1>1. CASE q.mode = "archive"
  <2> DEFINE free == {n \in 0..MaxRuns : ArchiveSeed(q, n) \notin DOMAIN registry}
  <2>1. runs \in free
    <3>1. ArchiveSeed(q, runs).seed = "archive" /\ ArchiveSeed(q, runs).ordinal = runs
      BY DEF ArchiveSeed
    <3> QED BY <3>1, BoundsAssumption DEF RegistryOK
  <2>2. free \in SUBSET Nat
    BY BoundsAssumption
  <2>3. Min(free) \in free /\ Min(free) <= runs
    BY <2>1, <2>2, MinIsLeast
  <2>4. NewId(q) = ArchiveSeed(q, Min(free))
    BY <1>1 DEF NewId, archive_source_id
  <2>5. Min(free) \in 0..MaxRuns /\ ArchiveSeed(q, Min(free)) \notin DOMAIN registry
    BY <2>3
  <2> HIDE DEF free
  <2>6. ArchiveSeed(q, Min(free)) \in Id
    BY <2>5 DEF ArchiveSeed, Id
  <2>7. ArchiveSeed(q, Min(free)).ordinal = Min(free)
    BY DEF ArchiveSeed
  <2> QED BY <2>3, <2>4, <2>5, <2>6, <2>7
<1>2. CASE q.mode # "archive"
  BY <1>2, BoundsAssumption DEF NewId, Id
<1> QED BY <1>1, <1>2

\* A resolution without conflict fits the registry.
LEMMA ResolveFits ==
  ASSUME RegistryOK, runs \in Nat, runs < MaxRuns,
         NEW q, q.path \in Paths, q.content \in Contents, q.mode \in Modes,
         Resolve(q).action # "conflict"
  PROVE  /\ Resolve(q) \in Source
         /\ FitsIn(q, Resolve(q), registry)
         /\ Resolve(q).id.seed = "archive" => Resolve(q).id.ordinal <= runs
<1> DEFINE s == Resolve(q)
<1>a. Known(q) \subseteq DOMAIN registry /\ Candidates(q) \subseteq DOMAIN registry
  BY DEF Known, Candidates
<1>b. \A i \in DOMAIN registry :
        i \in Id /\ registry[i].revision \in Nat \ {0} /\ (i.seed = "archive" => i.ordinal < runs)
  BY DEF RegistryOK, SourceRecord
<1>c. \A i \in DOMAIN registry : i.seed = "archive" => i.ordinal \in Nat
  BY BoundsAssumption DEF RegistryOK, Id
<1>d. q.mode = "read" \/ q.mode = "archive"
  BY ModesAssumption
<1>e. \A i \in DOMAIN registry : q.mode = "read" /\ registry[i].path = q.path => i \in Known(q)
  BY DEF Known
<1>1. CASE Known(q) = {}
  <2>1. s = ResolveUnknown(q)
    BY <1>1, FS_EmptySet DEF Resolve
  <2>2. CASE q.resolution = "rebind"
    <3>1. q.rebind \in Candidates(q) /\ s = Is("rebind", q.rebind, registry[q.rebind].revision + 1)
      BY <2>1, <2>2 DEF ResolveUnknown, Conflict
    <3>2. registry[q.rebind].content = q.content
      BY <3>1 DEF Candidates
    <3> QED BY <3>1, <3>2, <1>1, <1>a, <1>b, <1>c, <1>e DEF Is, Source, FitsIn
  <2>3. CASE q.resolution # "rebind"
    <3>1. s = Is("create", NewId(q), 1)
      BY <2>1, <2>3 DEF ResolveUnknown, Conflict
    <3> QED BY <3>1, <1>1, <1>d, <1>e, NewIdIsFree DEF Is, Source, FitsIn
  <2> QED BY <2>2, <2>3
<1>2. CASE Known(q) # {}
  <2>1. Cardinality(Known(q)) = 1
    BY <1>2 DEF Resolve, Conflict
  <2>2. IsFiniteSet(Known(q))
    BY <1>a, FS_Subset DEF RegistryOK
  <2>3. PICK i : Known(q) = {i}
    BY <2>1, <2>2, FS_Singleton
  <2>4. s = ResolveKnown(q, i)
    <3>1. (CHOOSE k \in Known(q) : TRUE) = i
      BY <2>3
    <3> QED BY <1>2, <2>1, <3>1 DEF Resolve
  <2>5. i \in DOMAIN registry /\ registry[i].path = q.path
    BY <2>3 DEF Known
  <2>6. CASE registry[i].content = q.content
    <3>1. s = Is("unchanged", i, registry[i].revision)
      BY <2>4, <2>6 DEF ResolveKnown
    <3> QED BY <3>1, <2>3, <2>5, <2>6, <1>b, <1>c, <1>e DEF Is, Source, FitsIn
  <2>7. CASE registry[i].content # q.content /\ q.mode = "read"
    <3>1. s = Is("update", i, registry[i].revision + 1)
      BY <2>4, <2>7 DEF ResolveKnown
    <3> QED BY <3>1, <2>3, <2>5, <2>7, <1>b, <1>c, <1>e DEF Is, Source, FitsIn
  <2>8. CASE registry[i].content # q.content /\ q.mode # "read"
    <3>1. s = Is("create", NewId(q), 1)
      BY <2>4, <2>8 DEF ResolveKnown, Conflict
    <3> QED BY <3>1, <2>8, <1>d, NewIdIsFree DEF Is, Source, FitsIn
  <2> QED BY <2>6, <2>7, <2>8
<1> QED BY <1>1, <1>2

-----------------------------------------------------------------------------
(* Processes and the lock *)

Inside == {"replan"} \cup Steps \cup Exits

\* The shape of what processes hold, and the lock of whoever is inside it.
HoldersOK ==
  /\ lock \in Procs \cup {"free", "orphan"}
  /\ pc \in [Procs -> {"idle", "copying", "waiting"} \cup Inside]
  /\ DOMAIN payload = Procs /\ DOMAIN plan = Procs /\ DOMAIN prepared = Procs
  /\ \A p \in Procs : pc[p] \in Inside <=> lock = p

\* A command runs with a plan, and the plan has a target in raw/ if and only if
\* the payload is of an archive.
PlannedOK ==
  \A p \in Procs :
    /\ pc[p] # "idle" => plan[p] # NoPlan
    /\ plan[p] # NoPlan =>
         /\ payload[p].mode \in Modes
         /\ payload[p].content \in Contents
         /\ payload[p].mode = "read" => plan[p].target = NoTarget

HeldInv == HoldersOK /\ PlannedOK

LEMMA HeldInit == Init => HeldInv
  BY NamesAssumption DEF Init, HeldInv, HoldersOK, PlannedOK, Inside, Steps, Exits

-----------------------------------------------------------------------------
(* Every step keeps HeldInv *)

\* Steps of the world around the processes.
LEMMA HeldOutside ==
  ASSUME HeldInv, UNCHANGED procVars,
         lock' = lock \/ (lock = "orphan" /\ lock' = "free")
  PROVE  HeldInv'
  BY NamesAssumption DEF HeldInv, HoldersOK, PlannedOK, procVars

\* Steps of one process that keeps its payload and its plan.
LEMMA HeldStep ==
  ASSUME HeldInv, NEW p \in Procs, NEW to \in {"idle", "copying", "waiting"} \cup Inside,
         plan[p] # NoPlan, pc' = [pc EXCEPT ![p] = to],
         UNCHANGED <<payload, plan>>, DOMAIN prepared' = Procs,
         \/ lock' = lock /\ (to \in Inside <=> pc[p] \in Inside)
         \/ lock = "free" /\ lock' = p /\ to \in Inside
         \/ lock = p /\ lock' \in {"free", "orphan"} /\ to \notin Inside
  PROVE  HeldInv'
<1>1. HoldersOK'
  BY NamesAssumption DEF HeldInv, HoldersOK
<1>2. PlannedOK'
  BY DEF HeldInv, HoldersOK, PlannedOK
<1> QED BY <1>1, <1>2 DEF HeldInv

LEMMA HeldNext == HeldInv /\ [Next]_vars => HeldInv'
<1> SUFFICES ASSUME HeldInv, [Next]_vars PROVE HeldInv'
  OBVIOUS
<1> USE DEF HeldInv
<1>a. /\ "idle" \notin Inside /\ "copying" \notin Inside /\ "waiting" \notin Inside
      /\ "replan" \in Inside /\ Steps \subseteq Inside /\ Exits \subseteq Inside
      /\ "write-source-pending" \in Steps /\ "publish-archive" \in Steps
      /\ "write-source-processed" \in Steps /\ "append-change-log" \in Steps
      /\ "return" \in Exits /\ "abort" \in Exits
  BY DEF Inside, Steps, Exits
<1>b. \A p \in Procs : pc[p] # "idle" => plan[p] # NoPlan
  BY DEF PlannedOK
<1>c. DOMAIN prepared = Procs /\ \A p \in Procs : pc[p] \in Inside <=> lock = p
  BY DEF HoldersOK
<1>1. CASE UNCHANGED vars
  BY <1>1, HeldOutside DEF vars
<1>2. ASSUME NEW p \in Procs, NEW q \in Payloads, Preview(p, q) PROVE HeldInv'
  <2>1. q.mode \in Modes /\ q.content \in Contents
    BY DEF Payloads
  <2>2. q.mode = "read" => PlanOf(q).target = NoTarget
    BY DEF PlanOf, TargetOf
  <2>3. HoldersOK'
    BY <1>2 DEF Preview, HoldersOK
  <2>4. payload'[p] = q /\ plan'[p] = PlanOf(q) /\ pc' = pc /\ pc[p] = "idle"
    BY <1>2 DEF Preview, HoldersOK
  <2>5. \A o \in Procs : o # p => payload'[o] = payload[o] /\ plan'[o] = plan[o]
    BY <1>2 DEF Preview, HoldersOK
  <2>6. PlannedOK'
    BY <2>1, <2>2, <2>4, <2>5 DEF PlannedOK
  <2> QED BY <2>3, <2>6
<1>3. ASSUME NEW p \in Procs, Submit(p) PROVE HeldInv'
  <2>1. pc[p] = "idle" /\ plan[p] # NoPlan /\ UNCHANGED <<lock, payload, plan>>
    BY <1>3 DEF Submit
  <2>2. PICK to \in {"copying", "waiting"} : pc' = [pc EXCEPT ![p] = to]
    BY <1>3 DEF Submit, Goto
  <2>3. DOMAIN prepared' = Procs
    BY <1>3, <1>c DEF Submit, Prepare
  <2> QED BY <2>1, <2>2, <2>3, <1>a, HeldStep
<1>4. ASSUME NEW p \in Procs, Copied(p) PROVE HeldInv'
  BY <1>4, <1>a, <1>b, <1>c, HeldStep DEF Copied, Prepare, Goto
<1>5. ASSUME NEW p \in Procs, GiveUp(p) PROVE HeldInv'
  BY <1>5, <1>a, <1>b, <1>c, HeldStep DEF GiveUp, Prepare, Goto
<1>6. ASSUME NEW p \in Procs, Transaction(p) PROVE HeldInv'
  <2>1. CASE Acquire(p)
    BY <2>1, <1>a, <1>b, <1>c, HeldStep DEF Acquire, Goto
  <2>2. CASE Repeat(p)
    BY <2>2, <1>a, <1>b, <1>c, HeldStep DEF Repeat, Goto
  <2>3. CASE Refuse(p)
    BY <2>3, <1>a, <1>b, <1>c, HeldStep DEF Refuse, Goto
  <2>4. CASE Begin(p)
    BY <2>4, <1>a, <1>b, <1>c, HeldStep DEF Begin, Goto
  <2>5. CASE WriteSourcePending(p)
    <3>1. PICK to \in {"publish-archive", "write-source-processed"} : pc' = [pc EXCEPT ![p] = to]
      BY <2>5 DEF WriteSourcePending, Goto
    <3> QED BY <2>5, <3>1, <1>a, <1>b, <1>c, HeldStep DEF WriteSourcePending
  <2>6. CASE Publish(p)
    BY <2>6, <1>a, <1>b, <1>c, HeldStep DEF Publish, Prepare, Goto
  <2>7. CASE PublishRefused(p)
    BY <2>7, <1>a, <1>b, <1>c, HeldStep DEF PublishRefused, Goto
  <2>8. CASE WriteSourceProcessed(p)
    BY <2>8, <1>a, <1>b, <1>c, HeldStep DEF WriteSourceProcessed, Goto
  <2>9. CASE AppendChangeLog(p)
    BY <2>9, <1>a, <1>b, <1>c, HeldStep DEF AppendChangeLog, Goto
  <2>10. CASE Release(p)
    <3>1. CASE pc[p] = "abort"
      BY <2>10, <3>1, <1>a, <1>b, <1>c, HeldStep DEF Release, Prepare, Goto
    <3>2. CASE pc[p] # "abort"
      <4>1. HoldersOK'
        BY <2>10, <3>2, <1>a, <1>c, NamesAssumption DEF Release, Prepare, Goto, HoldersOK
      <4>2. PlannedOK'
        BY <2>10, <3>2 DEF Release, Goto, HoldersOK, PlannedOK
      <4> QED BY <4>1, <4>2
    <3> QED BY <3>1, <3>2
  <2> QED BY <1>6, <2>1, <2>2, <2>3, <2>4, <2>5, <2>6, <2>7, <2>8, <2>9, <2>10 DEF Transaction
<1>7. ASSUME NEW p \in Procs, Fail(p) PROVE HeldInv'
  BY <1>7, <1>a, <1>b, <1>c, HeldStep DEF Fail, Goto, Steps
<1>8. ASSUME NEW p \in Procs, Crash(p) PROVE HeldInv'
  <2>1. pc[p] # "idle" /\ pc' = [pc EXCEPT ![p] = "idle"] /\ DOMAIN prepared' = Procs
    BY <1>8, <1>c DEF Crash, Prepare, Goto
  <2>2. UNCHANGED <<payload, plan>> /\ lock' = IF lock = p THEN "orphan" ELSE lock
    BY <1>8 DEF Crash
  <2> QED BY <2>1, <2>2, <1>a, <1>b, <1>c, HeldStep
<1>9. ASSUME NEW f \in Paths, EditSource(f) \/ \E g \in Paths : MoveSource(f, g) PROVE HeldInv'
  BY <1>9, HeldOutside DEF EditSource, MoveSource
<1>10. ASSUME NEW t, EditRaw(t) PROVE HeldInv'
  BY <1>10, HeldOutside DEF EditRaw
<1>11. CASE IsolateLock
  BY <1>11, HeldOutside DEF IsolateLock
<1> QED BY <1>1, <1>2, <1>3, <1>4, <1>5, <1>6, <1>7, <1>8, <1>9, <1>10, <1>11 DEF Next

-----------------------------------------------------------------------------
(* Plans *)

\* What PlansOK asks of one process; ids taken by a running command count.
PlanOK(p) ==
  /\ payload[p] \in Payload
  /\ plan[p].source \in Source
  /\ plan[p].target = IF payload[p].mode = "read" THEN NoTarget
                      ELSE [id |-> plan[p].source.id, name |-> NameOf[payload[p].path]]
  /\ FitsIn(payload[p], plan[p].source, plan[p].registry)
  /\ plan[p].source.id.seed = "archive" =>
       /\ plan[p].source.id.ordinal <= runs
       /\ pc[p] # "idle" => plan[p].source.id.ordinal < runs

\* A copy is only made of an archive, and holds what its payload says.
CopyOK(p) ==
  /\ prepared[p] \in {None, "copying", "reuse"} \cup Contents
  /\ prepared[p] # None => pc[p] # "idle" /\ payload[p].mode = "archive"
  /\ prepared[p] \in Contents => prepared[p] = payload[p].content
  /\ pc[p] = "copying" <=> prepared[p] = "copying"
  /\ pc[p] = "publish-archive" => payload[p].mode = "archive"
  /\ pc[p] \in {"write-source-pending", "publish-archive"} /\ payload[p].mode = "archive" =>
       prepared[p] # None

PlansOK ==
  \A p \in Procs :
    /\ plan[p] # NoPlan => PlanOK(p)
    /\ plan[p] = NoPlan => payload[p] = NoPayload
    /\ CopyOK(p)

\* The rest of the types.
WorldOK ==
  /\ disk \in [Paths -> Contents \cup {None}]
  /\ \A t \in DOMAIN raw : t \in Target /\ raw[t] \in Contents
  /\ leftovers \subseteq Target /\ touched \subseteq Target
  /\ runs \in 0..MaxRuns /\ upsets \in 0..MaxUpsets

TypeInv == HeldInv /\ PlansOK /\ WorldOK /\ RegistryOK /\ NoSourceLost

LEMMA TypeInit == Init => TypeInv
<1> SUFFICES ASSUME Init PROVE TypeInv
  OBVIOUS
<1>1. HeldInv
  BY HeldInit
<1>2. PlansOK
  BY NamesAssumption DEF Init, PlansOK, CopyOK, None
<1>3. WorldOK
  BY BoundsAssumption DEF Init, WorldOK
<1>4. DOMAIN registry = {}
  BY DEF Init
<1>5. RegistryOK
  BY <1>4, FS_EmptySet DEF RegistryOK
<1>6. NoSourceLost
  BY DEF Init, NoSourceLost
<1> QED BY <1>1, <1>2, <1>3, <1>5, <1>6 DEF TypeInv

\* Steps of one process that keeps its payload and its plan.
LEMMA PlansStep ==
  ASSUME PlansOK, HeldInv, runs \in Nat, NEW p \in Procs, NEW to,
         UNCHANGED <<payload, plan>>, pc' = [pc EXCEPT ![p] = to],
         \A o \in Procs : o # p => prepared'[o] = prepared[o],
         runs' = runs \/ runs' = runs + 1,
         to = "idle" \/ pc[p] # "idle" \/ runs' = runs + 1,
         CopyOK(p)'
  PROVE  PlansOK'
<1>1. pc'[p] = to /\ \A o \in Procs : o # p => pc'[o] = pc[o]
  BY DEF HeldInv, HoldersOK
<1>2. ASSUME NEW o \in Procs, plan[o] # NoPlan PROVE PlanOK(o)'
  <2>1. PlanOK(o)
    BY <1>2 DEF PlansOK
  <2>2. plan[o].source.id \in Id
    BY <2>1 DEF PlanOK, Source
  <2>3. plan[o].source.id.ordinal \in Nat
    BY <2>2, BoundsAssumption DEF Id
  <2> QED BY <1>1, <2>1, <2>3 DEF PlanOK
<1>3. ASSUME NEW o \in Procs PROVE CopyOK(o)'
  BY <1>1, <1>3 DEF PlansOK, CopyOK
<1> QED BY <1>2, <1>3 DEF PlansOK

\* Steps that neither write sources.json nor come to rely on it.
LEMMA LostStep ==
  ASSUME NoSourceLost, HeldInv, NEW p \in Procs, NEW to, UNCHANGED <<payload, plan, registry>>,
         pc' = [pc EXCEPT ![p] = to],
         to \notin Steps \/ to = "append-change-log"
  PROVE  NoSourceLost'
<1>1. pc'[p] = to /\ \A o \in Procs : o # p => pc'[o] = pc[o]
  BY DEF HeldInv, HoldersOK
<1> QED BY <1>1 DEF NoSourceLost, Steps, RecordOf

\* sources.json after a write: one record is of the plan, the others stay.
LEMMA WriteMeans ==
  ASSUME TypeInv, NEW p \in Procs, NEW status, WriteSource(p, status),
         pc[p] = "write-source-pending" \/ pc[p] = "write-source-processed"
  PROVE  /\ DOMAIN registry' = DOMAIN registry \cup {plan[p].source.id}
         /\ registry'[plan[p].source.id] = RecordOf(payload[p], plan[p], status)
         /\ \A i \in DOMAIN registry : i # plan[p].source.id => registry'[i] = registry[i]
         /\ pc[p] = "write-source-processed" => plan[p].source.id \in DOMAIN registry
<1>1. CASE pc[p] = "write-source-pending"
  <2>1. plan[p].registry = registry
    BY <1>1 DEF TypeInv, NoSourceLost
  <2> QED BY <1>1, <2>1 DEF WriteSource, With
<1>2. CASE pc[p] = "write-source-processed"
  <2>1. registry = With(plan[p].registry, plan[p].source.id,
                        RecordOf(payload[p], plan[p], "pending"))
    BY <1>2 DEF TypeInv, NoSourceLost
  <2> QED BY <2>1 DEF WriteSource, With
<1> QED BY <1>1, <1>2

LEMMA RegistryWrite ==
  ASSUME TypeInv, NEW p \in Procs, NEW status \in {"pending", "processed"},
         WriteSource(p, status), runs' = runs,
         pc[p] = "write-source-pending" \/ pc[p] = "write-source-processed"
  PROVE  RegistryOK'
<1> DEFINE id == plan[p].source.id
<1>1. plan[p] # NoPlan
  BY DEF TypeInv, HeldInv, PlannedOK
<1>2. PlanOK(p)
  BY <1>1 DEF TypeInv, PlansOK
<1>3. id \in Id /\ plan[p].source.revision \in Nat \ {0}
  BY <1>2 DEF PlanOK, Source
<1>4. payload[p].path \in Paths /\ payload[p].content \in Contents /\ payload[p].mode \in Modes
  BY <1>2 DEF PlanOK, Payload
<1>5. plan[p].target \in Target \cup {NoTarget}
  BY <1>2, <1>3, <1>4 DEF PlanOK, Target
<1>6. RecordOf(payload[p], plan[p], status) \in SourceRecord
  BY <1>3, <1>4, <1>5 DEF RecordOf, SourceRecord
<1>7. IF payload[p].mode = "archive" THEN plan[p].target.id = id ELSE plan[p].target = NoTarget
  BY <1>2, <1>4, ModesAssumption DEF PlanOK
<1>8. id.seed = "archive" => id.ordinal < runs
  BY <1>2 DEF PlanOK
<1>9. IsFiniteSet(DOMAIN registry')
  <2>1. IsFiniteSet(DOMAIN registry \cup {id})
    BY FS_AddElement DEF TypeInv, RegistryOK
  <2> QED BY <2>1, WriteMeans
<1>10. ASSUME NEW i \in DOMAIN registry'
       PROVE  /\ i \in Id /\ registry'[i] \in SourceRecord
              /\ i.seed = "archive" => i.ordinal < runs
              /\ IF registry'[i].mode = "archive" THEN registry'[i].archive.id = i
                 ELSE registry'[i].archive = NoTarget
  <2>1. CASE i = id
    <3>1. registry'[i] = RecordOf(payload[p], plan[p], status)
      BY <2>1, WriteMeans
    <3>2. registry'[i].mode = payload[p].mode /\ registry'[i].archive = plan[p].target
      BY <3>1 DEF RecordOf
    <3> QED BY <2>1, <3>1, <3>2, <1>3, <1>6, <1>7, <1>8
  <2>2. CASE i # id
    <3>1. i \in DOMAIN registry /\ registry'[i] = registry[i]
      BY <2>2, WriteMeans
    <3> QED BY <3>1 DEF TypeInv, RegistryOK
  <2> QED BY <2>1, <2>2
<1> QED BY <1>9, <1>10 DEF RegistryOK

LEMMA RegistryStays ==
  ASSUME RegistryOK, registry' = registry, runs \in Nat, runs' = runs \/ runs' = runs + 1
  PROVE  RegistryOK'
<1>1. \A i \in DOMAIN registry : i.ordinal \in Nat
  BY BoundsAssumption DEF RegistryOK, Id
<1> QED BY <1>1 DEF RegistryOK

\* Steps of a process that writes neither sources.json nor raw/.
LEMMA QuietStep ==
  ASSUME TypeInv, HeldInv', NEW p \in Procs, NEW to,
         UNCHANGED <<payload, plan, disk, registry, raw, touched>>,
         pc' = [pc EXCEPT ![p] = to],
         \A o \in Procs : o # p => prepared'[o] = prepared[o],
         CopyOK(p)',
         leftovers' \subseteq Target,
         /\ runs' = runs \/ runs' = runs + 1
         /\ runs' \in 0..MaxRuns /\ upsets' \in 0..MaxUpsets,
         to = "idle" \/ pc[p] # "idle" \/ runs' = runs + 1,
         to \notin Steps \/ to = "append-change-log"
  PROVE  TypeInv'
<1> USE DEF TypeInv
<1>1. runs \in Nat
  BY BoundsAssumption DEF WorldOK
<1>2. PlansOK'
  BY <1>1, PlansStep
<1>3. WorldOK'
  BY DEF WorldOK
<1>4. RegistryOK'
  BY <1>1, RegistryStays
<1>5. NoSourceLost'
  BY LostStep
<1> QED BY <1>2, <1>3, <1>4, <1>5

\* Steps of the world around the processes.
LEMMA WorldStep ==
  ASSUME TypeInv, HeldInv', UNCHANGED <<procVars, registry, leftovers, runs>>, WorldOK'
  PROVE  TypeInv'
<1> USE DEF TypeInv, procVars
<1>1. PlansOK'
  BY DEF PlansOK, PlanOK, CopyOK
<1>2. RegistryOK'
  BY DEF RegistryOK
<1>3. NoSourceLost'
  BY DEF NoSourceLost, RecordOf
<1> QED BY <1>1, <1>2, <1>3

LEMMA TypeNext == TypeInv /\ [Next]_vars => TypeInv'
<1> SUFFICES ASSUME TypeInv, [Next]_vars PROVE TypeInv'
  OBVIOUS
<1> USE DEF TypeInv
<1>a. HeldInv'
  BY HeldNext
<1>b. runs \in Nat /\ upsets \in Nat /\ runs \in 0..MaxRuns /\ upsets \in 0..MaxUpsets
  BY BoundsAssumption DEF WorldOK
<1>c. \A p \in Procs : CopyOK(p) /\ (pc[p] # "idle" => PlanOK(p))
  BY DEF PlansOK, HeldInv, PlannedOK
<1>d. \A p \in Procs : pc[p] # "idle" => payload[p].content \in Contents
  BY <1>c DEF PlanOK, Payload
<1>e. Contents \cap {None, "copying", "reuse"} = {} /\ DOMAIN prepared = Procs
      /\ DOMAIN payload = Procs /\ DOMAIN plan = Procs /\ pc = [p \in Procs |-> pc[p]]
  BY NamesAssumption DEF HeldInv, HoldersOK
<1>f. leftovers \subseteq Target
  BY DEF WorldOK
<1>1. CASE UNCHANGED vars
  BY <1>1, <1>a, WorldStep DEF vars, wikiVars, boundVars, WorldOK
<1>2. ASSUME NEW p \in Procs, NEW q \in Payloads, Preview(p, q) PROVE TypeInv'
  <2>1. /\ q.path \in Paths /\ q.content \in Contents /\ q.mode \in Modes
        /\ runs < MaxRuns /\ Resolve(q).action # "conflict"
    BY <1>2 DEF Preview, Payloads, Confirmable
  <2>2. q \in Payload
    BY DEF Payloads, Payload, Resolutions, RegistryOK
  <2>3. /\ Resolve(q) \in Source /\ FitsIn(q, Resolve(q), registry)
        /\ Resolve(q).id.seed = "archive" => Resolve(q).id.ordinal <= runs
    BY <1>b, <2>1, ResolveFits
  <2>4. /\ payload'[p] = q /\ plan'[p] = PlanOf(q) /\ pc'[p] = "idle"
        /\ UNCHANGED <<pc, prepared, registry, runs>>
        /\ \A o \in Procs : o # p => payload'[o] = payload[o] /\ plan'[o] = plan[o]
    BY <1>2, <1>e DEF Preview, wikiVars, boundVars
  <2>5. /\ PlanOf(q).source = Resolve(q) /\ PlanOf(q).registry = registry
        /\ PlanOf(q).target = IF q.mode = "read" THEN NoTarget
                              ELSE [id |-> Resolve(q).id, name |-> NameOf[q.path]]
    BY <2>1 DEF PlanOf, TargetOf
  <2>6. PlanOK(p)'
    BY <2>2, <2>3, <2>4, <2>5 DEF PlanOK
  <2>7. CopyOK(p)'
    BY <2>4, <1>c, <1>e DEF CopyOK
  <2>8. plan'[p] # NoPlan
    BY <1>a, <2>4, <2>5, <2>3 DEF Source, NoPlan, None
  <2>9. PlansOK'
    BY <2>4, <2>6, <2>7, <2>8 DEF PlansOK, PlanOK, CopyOK
  <2>10. NoSourceLost'
    BY <2>4, <1>2 DEF NoSourceLost, Preview, RecordOf
  <2>11. RegistryOK' /\ WorldOK'
    BY <1>2 DEF Preview, wikiVars, boundVars, RegistryOK, WorldOK
  <2> QED BY <1>a, <2>9, <2>10, <2>11
<1>3. ASSUME NEW p \in Procs, Submit(p) PROVE TypeInv'
  <2>1. /\ pc[p] = "idle" /\ plan[p] # NoPlan /\ runs' = runs + 1 /\ runs < MaxRuns
        /\ UNCHANGED <<payload, plan, disk, registry, raw, leftovers, touched, upsets>>
    BY <1>3 DEF Submit, wikiVars
  <2>2. \E to \in {"copying", "waiting"}, how \in {None, "copying", "reuse"} :
          /\ pc' = [pc EXCEPT ![p] = to] /\ prepared' = [prepared EXCEPT ![p] = how]
          /\ to = "copying" <=> how = "copying"
          /\ how # None => payload[p].mode = "archive"
    BY <1>3, Zenon DEF Submit, Goto, Prepare, None
  <2>3. PICK to \in {"copying", "waiting"}, how \in {None, "copying", "reuse"} :
          /\ pc' = [pc EXCEPT ![p] = to] /\ prepared' = [prepared EXCEPT ![p] = how]
          /\ to = "copying" <=> how = "copying"
          /\ how # None => payload[p].mode = "archive"
    BY <2>2
  <2>4. CopyOK(p)'
    BY <2>1, <2>3, <1>e DEF CopyOK
  <2>5. runs' \in 0..MaxRuns
    BY <2>1, <1>b, BoundsAssumption
  <2>6. \A o \in Procs : o # p => prepared'[o] = prepared[o]
    BY <2>3, <1>e
  <2>7. to \notin Steps
    BY DEF Steps
  <2> QED BY <1>a, <1>b, <1>f, <2>1, <2>3, <2>4, <2>5, <2>6, <2>7, QuietStep
<1>4. ASSUME NEW p \in Procs, Copied(p) PROVE TypeInv'
  <2>1. CopyOK(p)'
    <3>1. payload[p].content \in Contents /\ payload[p].mode = "archive"
      BY <1>4, <1>c, <1>d DEF Copied, CopyOK, None
    <3>2. /\ prepared'[p] = payload[p].content /\ pc'[p] = "waiting"
          /\ payload' = payload
      BY <1>4, <1>e DEF Copied, Prepare, Goto, Intact
    <3> QED BY <3>1, <3>2, <1>e DEF CopyOK
  <2> QED BY <1>4, <1>a, <1>b, <1>e, <1>f, <2>1, QuietStep
          DEF Copied, Prepare, Goto, wikiVars, boundVars, Steps
<1>5. ASSUME NEW p \in Procs, GiveUp(p) PROVE TypeInv'
  <2>1. CopyOK(p)'
    BY <1>5, <1>e DEF GiveUp, Prepare, Goto, CopyOK, None
  <2> QED BY <1>5, <1>a, <1>b, <1>e, <1>f, <2>1, QuietStep
          DEF GiveUp, Prepare, Goto, wikiVars, boundVars, Steps
<1>6. ASSUME NEW p \in Procs, Transaction(p) PROVE TypeInv'
  <2>1. CASE Acquire(p)
    <3>1. CopyOK(p)'
      BY <2>1, <1>c, <1>e DEF Acquire, Goto, CopyOK
    <3> QED BY <2>1, <1>a, <1>b, <1>e, <1>f, <3>1, QuietStep
            DEF Acquire, Goto, wikiVars, boundVars, Steps
  <2>2. CASE Repeat(p)
    <3>1. CopyOK(p)'
      BY <2>2, <1>c, <1>e DEF Repeat, Goto, CopyOK
    <3> QED BY <2>2, <1>a, <1>b, <1>e, <1>f, <3>1, QuietStep
            DEF Repeat, Goto, wikiVars, boundVars, Steps
  <2>3. CASE Refuse(p)
    <3>1. CopyOK(p)'
      BY <2>3, <1>c, <1>e DEF Refuse, Goto, CopyOK
    <3> QED BY <2>3, <1>a, <1>b, <1>e, <1>f, <3>1, QuietStep
            DEF Refuse, Goto, wikiVars, boundVars, Steps
  <2>4. CASE Begin(p)
    <3>1. CopyOK(p)'
      <4>1. payload[p].mode = "archive" => prepared[p] # None
        BY <2>4 DEF Begin, Ready, PreparedHolds, None
      <4> QED BY <2>4, <4>1, <1>c, <1>e DEF Begin, Goto, CopyOK
    <3>2. pc[p] # "idle" /\ pc'[p] = "write-source-pending" /\ UNCHANGED <<payload, plan, registry>>
          /\ \A o \in Procs : o # p => pc'[o] = pc[o]
      BY <2>4, <1>e DEF Begin, Goto, wikiVars
    <3>3. plan[p].registry = registry
      BY <2>4 DEF Begin, Ready, PlanOf
    <3>4. NoSourceLost'
      BY <3>2, <3>3 DEF NoSourceLost, RecordOf
    <3>5. PlansOK'
      BY <2>4, <1>b, <3>1, <3>2, PlansStep DEF Begin, Goto, boundVars
    <3> QED BY <2>4, <1>a, <3>4, <3>5 DEF Begin, wikiVars, boundVars, RegistryOK, WorldOK
  <2>5. CASE WriteSourcePending(p)
    <3>1. CopyOK(p)'
      BY <2>5, <1>c, <1>e DEF WriteSourcePending, Goto, CopyOK
    <3>2. PICK to \in {"publish-archive", "write-source-processed"} : pc' = [pc EXCEPT ![p] = to]
      BY <2>5 DEF WriteSourcePending, Goto
    <3>3. PlansOK'
      BY <2>5, <1>b, <3>1, <3>2, PlansStep DEF WriteSourcePending, boundVars
    <3>4. RegistryOK'
      BY <2>5, RegistryWrite DEF WriteSourcePending, boundVars
    <3>5. NoSourceLost'
      <4>1. \A o \in Procs : o # p => pc'[o] \notin Steps
        BY <2>5, <3>2, <1>a, <1>e DEF WriteSourcePending, HeldInv, HoldersOK, Inside, Steps
      <4>2. pc'[p] # "write-source-pending" /\ UNCHANGED <<payload, plan>>
        BY <2>5, <3>2, <1>e DEF WriteSourcePending
      <4>3. registry' = With(plan[p].registry, plan[p].source.id,
                             RecordOf(payload[p], plan[p], "pending"))
        BY <2>5 DEF WriteSourcePending, WriteSource
      <4> QED BY <4>1, <4>2, <4>3 DEF NoSourceLost, Steps, RecordOf
    <3> QED BY <2>5, <1>a, <3>3, <3>4, <3>5 DEF WriteSourcePending, boundVars, WorldOK
  <2>6. CASE Publish(p)
    <3>1. CopyOK(p)'
      BY <2>6, <1>e DEF Publish, Prepare, Goto, CopyOK, None
    <3>2. PlansOK'
      BY <2>6, <1>b, <1>e, <3>1, PlansStep DEF Publish, Prepare, Goto, boundVars
    <3>3. RegistryOK'
      BY <2>6, <1>b, RegistryStays DEF Publish, boundVars
    <3>4. NoSourceLost'
      <4>1. /\ pc[p] = "publish-archive" /\ pc'[p] = "write-source-processed"
            /\ UNCHANGED <<payload, plan, registry>>
            /\ \A o \in Procs : o # p => pc'[o] = pc[o]
        BY <2>6, <1>e DEF Publish, Goto
      <4> QED BY <4>1 DEF NoSourceLost, RecordOf
    <3>5. \/ plan[p].target \in Target /\ prepared[p] \in Contents
          \/ raw' = raw /\ leftovers' = leftovers
      <4>1. PlanOK(p) /\ CopyOK(p) /\ payload[p].mode = "archive"
        BY <2>6, <1>c DEF Publish, CopyOK
      <4>2. plan[p].target \in Target
        BY <4>1 DEF PlanOK, Target, Payload, Source
      <4>3. pc[p] = "publish-archive" /\ prepared[p] # "copying" /\ prepared[p] # None
        BY <4>1, <2>6 DEF Publish, CopyOK
      <4>4. prepared[p] = "reuse" => raw' = raw /\ leftovers' = leftovers
        BY <2>6 DEF Publish
      <4> QED BY <4>1, <4>2, <4>3, <4>4 DEF CopyOK
    <3>6. WorldOK'
      BY <2>6, <3>5 DEF Publish, With, WorldOK, boundVars
    <3> QED BY <1>a, <3>2, <3>3, <3>4, <3>6
  <2>7. CASE PublishRefused(p)
    <3>1. CopyOK(p)'
      BY <2>7, <1>c, <1>e DEF PublishRefused, Goto, CopyOK
    <3> QED BY <2>7, <1>a, <1>b, <1>e, <1>f, <3>1, QuietStep
            DEF PublishRefused, Goto, wikiVars, boundVars, Steps
  <2>8. CASE WriteSourceProcessed(p)
    <3>1. CopyOK(p)'
      BY <2>8, <1>c, <1>e DEF WriteSourceProcessed, Goto, CopyOK
    <3>2. PlansOK'
      BY <2>8, <1>b, <3>1, PlansStep DEF WriteSourceProcessed, Goto, boundVars
    <3>3. RegistryOK'
      BY <2>8, RegistryWrite DEF WriteSourceProcessed, boundVars
    <3>4. NoSourceLost'
      <4>1. \A o \in Procs : o # p => pc'[o] \notin Steps
        BY <2>8, <1>a, <1>e DEF WriteSourceProcessed, Goto, HeldInv, HoldersOK, Inside, Steps
      <4>2. pc'[p] = "append-change-log"
        BY <2>8, <1>e DEF WriteSourceProcessed, Goto
      <4> QED BY <4>1, <4>2 DEF NoSourceLost, Steps
    <3> QED BY <2>8, <1>a, <3>2, <3>3, <3>4 DEF WriteSourceProcessed, boundVars, WorldOK
  <2>9. CASE AppendChangeLog(p)
    <3>1. CopyOK(p)'
      BY <2>9, <1>c, <1>e DEF AppendChangeLog, Goto, CopyOK
    <3> QED BY <2>9, <1>a, <1>b, <1>e, <1>f, <3>1, QuietStep
            DEF AppendChangeLog, Goto, boundVars, Steps
  <2>10. CASE Release(p)
    <3>1. CopyOK(p)'
      BY <2>10, <1>e DEF Release, Prepare, Goto, CopyOK, None
    <3>2. CASE pc[p] = "abort"
      BY <2>10, <3>1, <3>2, <1>a, <1>b, <1>e, <1>f, QuietStep
         DEF Release, Prepare, Goto, wikiVars, boundVars, Steps
    <3>3. CASE pc[p] # "abort"
      <4>1. /\ payload'[p] = NoPayload /\ plan'[p] = NoPlan /\ pc'[p] = "idle"
            /\ \A o \in Procs : o # p => /\ payload'[o] = payload[o] /\ plan'[o] = plan[o]
                                         /\ pc'[o] = pc[o] /\ prepared'[o] = prepared[o]
            /\ UNCHANGED <<registry, runs>>
        BY <2>10, <3>3, <1>e DEF Release, Prepare, Goto, wikiVars, boundVars
      <4>2. PlansOK'
        BY <3>1, <4>1 DEF PlansOK, PlanOK, CopyOK
      <4>3. NoSourceLost'
        BY <4>1 DEF NoSourceLost, RecordOf
      <4> QED BY <2>10, <1>a, <4>2, <4>3 DEF Release, wikiVars, boundVars, RegistryOK, WorldOK
    <3> QED BY <3>2, <3>3
  <2> QED BY <1>6, <2>1, <2>2, <2>3, <2>4, <2>5, <2>6, <2>7, <2>8, <2>9, <2>10 DEF Transaction
<1>7. ASSUME NEW p \in Procs, Fail(p) PROVE TypeInv'
  <2>1. CopyOK(p)'
    BY <1>7, <1>c, <1>e DEF Fail, Goto, Steps, CopyOK
  <2> QED BY <1>7, <1>a, <1>b, <1>e, <1>f, <2>1, BoundsAssumption, QuietStep
          DEF Fail, Goto, wikiVars, Steps
<1>8. ASSUME NEW p \in Procs, Crash(p) PROVE TypeInv'
  <2>1. CopyOK(p)'
    BY <1>8, <1>e DEF Crash, Prepare, Goto, CopyOK, None
  <2>2. leftovers' \subseteq Target
    <3>1. pc[p] # "idle" /\ PlanOK(p) /\ CopyOK(p)
      BY <1>8, <1>c DEF Crash
    <3>2. prepared[p] # None => plan[p].target \in Target
      BY <3>1 DEF PlanOK, CopyOK, Target, Payload, Source
    <3> QED BY <1>8, <1>f, <3>2 DEF Crash
  <2> QED BY <1>8, <1>a, <1>b, <1>e, <2>1, <2>2, BoundsAssumption, QuietStep
          DEF Crash, Prepare, Goto, Steps
<1>9. ASSUME NEW f \in Paths, EditSource(f) \/ \E g \in Paths : MoveSource(f, g) PROVE TypeInv'
  <2>1. WorldOK'
    BY <1>9, <1>b, BoundsAssumption DEF EditSource, MoveSource, WorldOK, wikiVars
  <2> QED BY <1>9, <1>a, <2>1, WorldStep DEF EditSource, MoveSource, wikiVars
<1>10. ASSUME NEW p \in Procs, plan[p] # NoPlan, plan[p].target # NoTarget, EditRaw(plan[p].target)
       PROVE  TypeInv'
  <2>1. plan[p].target \in Target
    <3>1. PlanOK(p)
      BY <1>10 DEF PlansOK
    <3> QED BY <3>1, <1>10 DEF PlanOK, Target, Payload, Source
  <2>2. WorldOK'
    BY <1>10, <1>b, <2>1, BoundsAssumption DEF EditRaw, With, WorldOK
  <2> QED BY <1>10, <1>a, <2>2, WorldStep DEF EditRaw
<1>11. CASE IsolateLock
  BY <1>11, <1>a, WorldStep DEF IsolateLock, wikiVars, boundVars, WorldOK
<1> QED BY <1>1, <1>2, <1>3, <1>4, <1>5, <1>6, <1>7, <1>8, <1>9, <1>10, <1>11 DEF Next

\* Every variable of the source registry keeps its shape: ids, records, plans
\* and copies are what the code takes them for, and a command inside the lock
\* is the one lock.json names.
LEMMA TypeInvariant == Spec => []TypeInv
  BY TypeInit, TypeNext, PTL DEF Spec

\* In particular no id runs out of ordinals, and an archive record is under the
\* id its target in raw/ is named after.
THEOREM TypeCorrect == Spec => []TypeOK
<1> SUFFICES TypeInv => TypeOK
  BY TypeInvariant, PTL
<1> SUFFICES ASSUME TypeInv PROVE TypeOK
  OBVIOUS
<1>1. /\ lock \in Procs \cup {"free", "orphan"}
      /\ pc \in [Procs -> {"idle", "copying", "waiting", "replan"} \cup Steps \cup Exits]
  BY DEF TypeInv, HeldInv, HoldersOK, Inside
<1>2. \A p \in Procs : /\ payload[p] \in Payload \cup {NoPayload}
                       /\ prepared[p] \in {None, "copying", "reuse"} \cup Contents
  BY DEF TypeInv, PlansOK, PlanOK, CopyOK
<1> QED BY <1>1, <1>2 DEF TypeInv, WorldOK, RegistryOK, TypeOK

\* What a command writes over sources.json is what is there but for its own
\* source, for any number of commands prepared at the same time.
THEOREM NoneLost == Spec => []NoSourceLost
<1>1. TypeInv => NoSourceLost
  BY DEF TypeInv
<1> QED BY <1>1, TypeInvariant, PTL

-----------------------------------------------------------------------------
(* What is in raw/ *)

\* A step of a process leaves every file that is in raw/ there.
LEMMA RawStays ==
  ASSUME TypeInv, Next, pc' # pc
  PROVE  \A t \in DOMAIN raw : t \in DOMAIN raw' /\ raw'[t] = raw[t]
<1> SUFFICES raw' = raw \/ \E t, c : t \notin DOMAIN raw /\ raw' = With(raw, t, c)
  BY DEF With
<1>1. ASSUME NEW p \in Procs, Transaction(p) PROVE raw' = raw \/ \E t, c : t \notin DOMAIN raw /\ raw' = With(raw, t, c)
  <2>1. CASE Publish(p)
    BY <2>1 DEF Publish
  <2>2. CASE ~Publish(p)
    BY <1>1, <2>2 DEF Transaction, Acquire, Repeat, Refuse, Begin, WriteSourcePending,
       PublishRefused, WriteSourceProcessed, AppendChangeLog, Release, wikiVars
  <2> QED BY <2>1, <2>2
<1>2. ASSUME NEW p \in Procs, Submit(p) \/ Copied(p) \/ GiveUp(p) \/ Fail(p) \/ Crash(p)
      PROVE  raw' = raw
  BY <1>2 DEF Submit, Copied, GiveUp, Fail, Crash, wikiVars
<1>3. ASSUME NEW p \in Procs, NEW q \in Payloads, Preview(p, q) PROVE raw' = raw
  BY <1>3 DEF Preview, wikiVars
<1>4. ASSUME \E f \in Paths : EditSource(f) \/ \E g \in Paths : MoveSource(f, g) PROVE raw' = raw
  BY <1>4 DEF EditSource, MoveSource, wikiVars
<1>5. ASSUME NEW t, EditRaw(t) PROVE FALSE
  BY <1>5 DEF EditRaw, procVars
<1>6. ASSUME IsolateLock PROVE raw' = raw
  BY <1>6 DEF IsolateLock, wikiVars
<1> QED BY <1>1, <1>2, <1>3, <1>4, <1>5, <1>6 DEF Next

\* The runtime neither replaces nor removes a file in raw/, not even one that
\* appears at the last moment.
THEOREM Immutable == Spec => RawImmutable
<1>1. TypeInv /\ [Next]_vars =>
        [pc' # pc => \A t \in DOMAIN raw : t \in DOMAIN raw' /\ raw'[t] = raw[t]]_vars
  BY RawStays DEF vars, procVars
<1> QED BY <1>1, TypeInvariant, PTL DEF Spec, RawImmutable

\* The file a command works towards is in raw/, unless somebody changed it.
AtTarget(p) ==
  plan[p].target \notin touched =>
    plan[p].target \in DOMAIN raw /\ raw[plan[p].target] = payload[p].content

\* A command that is to publish a copy or to reuse a file, and one that has.
PublishInv ==
  \A p \in Procs : payload[p].mode = "archive" =>
    /\ pc[p] \in {"write-source-pending", "publish-archive"} /\ prepared[p] = "reuse" => AtTarget(p)
    /\ pc[p] \in {"write-source-processed", "append-change-log"} => AtTarget(p)

ArchiveInv == PublishInv /\ ArchiveHolds

\* Whatever is in raw/ and not changed by hand stays.
LEMMA UntouchedStays ==
  ASSUME TypeInv, [Next]_vars
  PROVE  /\ touched \subseteq touched'
         /\ \A t \in DOMAIN raw : t \notin touched' => t \in DOMAIN raw' /\ raw'[t] = raw[t]
<1>1. CASE UNCHANGED vars
  BY <1>1 DEF vars, wikiVars
<1>2. ASSUME NEW p \in Procs, Transaction(p) PROVE touched' = touched
  BY <1>2 DEF Transaction, Acquire, Repeat, Refuse, Begin, WriteSourcePending, Publish,
     PublishRefused, WriteSourceProcessed, AppendChangeLog, Release
<1>3. ASSUME NEW p \in Procs, Transaction(p) PROVE raw' = raw \/ pc' # pc
  <2>1. pc = [o \in Procs |-> pc[o]]
    BY DEF TypeInv, HeldInv, HoldersOK
  <2>2. CASE Publish(p)
    BY <2>1, <2>2 DEF Publish, Goto
  <2>3. CASE ~Publish(p)
    BY <1>3, <2>3 DEF Transaction, Acquire, Repeat, Refuse, Begin, WriteSourcePending,
       PublishRefused, WriteSourceProcessed, AppendChangeLog, Release, wikiVars
  <2> QED BY <2>2, <2>3
<1>4. ASSUME NEW p \in Procs, Submit(p) \/ Copied(p) \/ GiveUp(p) \/ Fail(p) \/ Crash(p)
      PROVE  touched' = touched /\ raw' = raw
  BY <1>4 DEF Submit, Copied, GiveUp, Fail, Crash, wikiVars
<1>5. ASSUME NEW p \in Procs, NEW q \in Payloads, Preview(p, q)
      PROVE  touched' = touched /\ raw' = raw
  BY <1>5 DEF Preview, wikiVars
<1>6. ASSUME \E f \in Paths : EditSource(f) \/ \E g \in Paths : MoveSource(f, g)
      PROVE  touched' = touched /\ raw' = raw
  BY <1>6 DEF EditSource, MoveSource, wikiVars
<1>7. ASSUME NEW t, EditRaw(t)
      PROVE  \E c : touched' = touched \cup {t} /\ raw' = With(raw, t, c)
  BY <1>7 DEF EditRaw
<1>8. ASSUME IsolateLock PROVE touched' = touched /\ raw' = raw
  BY <1>8 DEF IsolateLock, wikiVars
<1>9. ASSUME NEW t, EditRaw(t)
      PROVE  /\ touched \subseteq touched'
             /\ \A u \in DOMAIN raw : u \notin touched' => u \in DOMAIN raw' /\ raw'[u] = raw[u]
  <2>1. PICK c : touched' = touched \cup {t} /\ raw' = With(raw, t, c)
    BY <1>7, <1>9
  <2> QED BY <2>1 DEF With
<1> QED BY <1>1, <1>2, <1>3, <1>4, <1>5, <1>6, <1>8, <1>9, RawStays DEF Next

\* Steps of p after which sources.json and the change log are as they were, and
\* what p relies on in raw/ is there.
LEMMA ArchiveStep ==
  ASSUME TypeInv, ArchiveInv, [Next]_vars, NEW p \in Procs, UNCHANGED <<registry, events>>,
         \A o \in Procs : o # p => /\ pc'[o] = pc[o] /\ prepared'[o] = prepared[o]
                                   /\ plan'[o] = plan[o] /\ payload'[o] = payload[o],
         \/ /\ pc'[p] \in {"write-source-pending", "publish-archive"}
            /\ prepared'[p] = "reuse" => AtTarget(p)'
         \/ /\ pc'[p] \in {"write-source-processed", "append-change-log"}
            /\ payload'[p].mode = "archive" => AtTarget(p)'
         \/ pc'[p] \notin Steps
  PROVE  ArchiveInv'
<1>1. ASSUME NEW o \in Procs, o # p, AtTarget(o) PROVE AtTarget(o)'
  BY <1>1, UntouchedStays DEF AtTarget
<1>2. PublishInv'
  BY <1>1 DEF ArchiveInv, PublishInv, Steps
<1>3. ArchiveHolds'
  BY UntouchedStays DEF ArchiveInv, ArchiveHolds
<1> QED BY <1>2, <1>3 DEF ArchiveInv

\* A file a command relies on stays while the command keeps its plan.
LEMMA TargetStays ==
  ASSUME TypeInv, [Next]_vars, NEW p \in Procs, plan'[p] = plan[p], payload'[p] = payload[p],
         AtTarget(p)
  PROVE  AtTarget(p)'
  BY UntouchedStays DEF AtTarget

LEMMA ArchiveNext == TypeInv /\ ArchiveInv /\ [Next]_vars => ArchiveInv'
<1> SUFFICES ASSUME TypeInv, ArchiveInv, [Next]_vars PROVE ArchiveInv'
  OBVIOUS
<1>a. /\ DOMAIN prepared = Procs /\ DOMAIN payload = Procs /\ DOMAIN plan = Procs
      /\ pc = [p \in Procs |-> pc[p]]
  BY DEF TypeInv, HeldInv, HoldersOK
<1>b. \A p \in Procs : CopyOK(p)
  BY DEF TypeInv, PlansOK
<1>c. Contents \cap {None, "copying", "reuse"} = {}
  BY NamesAssumption
<1>d. \A p \in Procs : pc[p] # "idle" => PlanOK(p)
  BY DEF TypeInv, PlansOK, HeldInv, PlannedOK
<1>1. ASSUME UNCHANGED <<procVars, registry, events>> PROVE ArchiveInv'
  <2>1. PublishInv'
    BY <1>1, TargetStays DEF ArchiveInv, PublishInv, procVars
  <2>2. ArchiveHolds'
    BY <1>1, UntouchedStays DEF ArchiveInv, ArchiveHolds
  <2> QED BY <2>1, <2>2 DEF ArchiveInv
<1>2. ASSUME NEW p \in Procs, NEW q \in Payloads, Preview(p, q) PROVE ArchiveInv'
  BY <1>2, <1>a, ArchiveStep DEF Preview, wikiVars, Steps
<1>3. ASSUME NEW p \in Procs, Submit(p) PROVE ArchiveInv'
  <2>1. UNCHANGED <<payload, plan, registry, events>>
    BY <1>3 DEF Submit, wikiVars
  <2>2. pc'[p] \notin Steps /\ \A o \in Procs : o # p => pc'[o] = pc[o] /\ prepared'[o] = prepared[o]
    BY <1>3, <1>a DEF Submit, Goto, Prepare, Steps
  <2> QED BY <2>1, <2>2, ArchiveStep
<1>4. ASSUME NEW p \in Procs, Copied(p) \/ GiveUp(p) PROVE ArchiveInv'
  BY <1>4, <1>a, ArchiveStep DEF Copied, GiveUp, Goto, Prepare, Steps, wikiVars
<1>5. ASSUME NEW p \in Procs, Transaction(p) PROVE ArchiveInv'
  <2>1. CASE Acquire(p) \/ Repeat(p) \/ Refuse(p) \/ PublishRefused(p)
    BY <2>1, <1>a, ArchiveStep DEF Acquire, Repeat, Refuse, PublishRefused, Goto, Steps, Exits, wikiVars
  <2>2. CASE Begin(p)
    <3>1. prepared[p] = "reuse" => AtTarget(p)
      <4>1. ASSUME prepared[p] = "reuse" PROVE PreparedHolds(p)
        BY <2>2, <4>1, <1>b, ModesAssumption DEF Begin, Ready, CopyOK, None
      <4> QED BY <4>1 DEF PreparedHolds, AtTarget, None
    <3>2. prepared'[p] = "reuse" => AtTarget(p)'
      BY <2>2, <3>1, TargetStays DEF Begin
    <3> QED BY <2>2, <3>2, <1>a, ArchiveStep DEF Begin, Goto, wikiVars
  <2>3. CASE WriteSourcePending(p)
    <3>1. /\ pc[p] = "write-source-pending" /\ UNCHANGED <<payload, plan, prepared, raw, events, touched>>
          /\ pc'[p] = IF payload[p].mode = "archive" THEN "publish-archive" ELSE "write-source-processed"
          /\ \A o \in Procs : o # p => pc'[o] = pc[o]
      BY <2>3, <1>a DEF WriteSourcePending, Goto
    <3>2. \A o \in Procs : AtTarget(o)' <=> AtTarget(o)
      BY <3>1 DEF AtTarget
    <3>3. PublishInv'
      BY <3>1, <3>2 DEF ArchiveInv, PublishInv
    <3>4. \A i \in DOMAIN registry' :
             \/ i \in DOMAIN registry /\ registry'[i] = registry[i]
             \/ registry'[i].status = "pending"
      <4>1. WriteSource(p, "pending")
        BY <2>3 DEF WriteSourcePending
      <4>2. /\ DOMAIN registry' = DOMAIN registry \cup {plan[p].source.id}
            /\ registry'[plan[p].source.id] = RecordOf(payload[p], plan[p], "pending")
            /\ \A i \in DOMAIN registry : i # plan[p].source.id => registry'[i] = registry[i]
        BY <3>1, <4>1, WriteMeans
      <4>3. RecordOf(payload[p], plan[p], "pending").status = "pending"
        BY DEF RecordOf
      <4> QED BY <4>2, <4>3
    <3>5. ArchiveHolds'
      BY <3>1, <3>4 DEF ArchiveInv, ArchiveHolds
    <3> QED BY <3>3, <3>5 DEF ArchiveInv
  <2>4. CASE Publish(p)
    <3>1. pc[p] = "publish-archive" /\ payload[p].mode = "archive" /\ PlanOK(p)
          /\ prepared[p] # None /\ prepared[p] # "copying"
      BY <2>4, <1>b, <1>d DEF Publish, CopyOK
    <3>2. CASE prepared[p] = "reuse"
      BY <2>4, <3>1, <3>2, <1>a, ArchiveStep, TargetStays
         DEF Publish, Goto, Prepare, ArchiveInv, PublishInv
    <3>3. CASE prepared[p] # "reuse"
      <4>1. prepared[p] = payload[p].content
        BY <3>1, <3>3, <1>b DEF CopyOK
      <4>2. AtTarget(p)'
        BY <2>4, <3>3, <4>1 DEF Publish, With, AtTarget
      <4> QED BY <2>4, <4>2, <1>a, ArchiveStep DEF Publish, Goto, Prepare
    <3> QED BY <3>2, <3>3
  <2>5. CASE WriteSourceProcessed(p)
    <3>1. /\ pc[p] = "write-source-processed" /\ UNCHANGED <<payload, plan, prepared, raw, events, touched>>
          /\ pc'[p] = "append-change-log" /\ \A o \in Procs : o # p => pc'[o] = pc[o]
      BY <2>5, <1>a DEF WriteSourceProcessed, Goto
    <3>2. \A o \in Procs : AtTarget(o)' <=> AtTarget(o)
      BY <3>1 DEF AtTarget
    <3>3. PublishInv'
      BY <3>1, <3>2 DEF ArchiveInv, PublishInv
    <3>4. \A i \in DOMAIN registry' :
             \/ i \in DOMAIN registry /\ registry'[i] = registry[i]
             \/ registry'[i] = RecordOf(payload[p], plan[p], "processed")
      BY <2>5, <3>1, WriteMeans DEF WriteSourceProcessed
    <3>5. payload[p].mode = "archive" => AtTarget(p)
      BY <3>1 DEF ArchiveInv, PublishInv
    <3>6. ArchiveHolds'
      BY <3>1, <3>4, <3>5 DEF ArchiveInv, ArchiveHolds, RecordOf, AtTarget
    <3> QED BY <3>3, <3>6 DEF ArchiveInv
  <2>6. CASE AppendChangeLog(p)
    <3>1. /\ pc[p] = "append-change-log" /\ UNCHANGED <<payload, plan, prepared, raw, registry, touched>>
          /\ events' = events \cup {KeyOf(payload[p], plan[p])}
          /\ pc'[p] = "return" /\ \A o \in Procs : o # p => pc'[o] = pc[o]
      BY <2>6, <1>a DEF AppendChangeLog, Goto
    <3>2. \A o \in Procs : AtTarget(o)' <=> AtTarget(o)
      BY <3>1 DEF AtTarget
    <3>3. PublishInv'
      BY <3>1, <3>2 DEF ArchiveInv, PublishInv
    <3>4. plan[p].target # NoTarget => AtTarget(p)
      BY <3>1, <1>d, ModesAssumption DEF ArchiveInv, PublishInv, PlanOK, Payload
    <3>5. ArchiveHolds'
      BY <3>1, <3>4 DEF ArchiveInv, ArchiveHolds, KeyOf, AtTarget
    <3> QED BY <3>3, <3>5 DEF ArchiveInv
  <2>7. CASE Release(p)
    <3>1. pc'[p] = "idle" /\ UNCHANGED <<registry, events>>
      BY <2>7, <1>a DEF Release, Goto, wikiVars
    <3>2. \A o \in Procs : o # p => /\ pc'[o] = pc[o] /\ prepared'[o] = prepared[o]
                                    /\ plan'[o] = plan[o] /\ payload'[o] = payload[o]
      BY <2>7, <1>a DEF Release, Goto, Prepare
    <3> QED BY <3>1, <3>2, ArchiveStep DEF Steps
  <2> QED BY <1>5, <2>1, <2>2, <2>3, <2>4, <2>5, <2>6, <2>7 DEF Transaction
<1>6. ASSUME NEW p \in Procs, Fail(p) \/ Crash(p) PROVE ArchiveInv'
  BY <1>6, <1>a, ArchiveStep DEF Fail, Crash, Goto, Prepare, Steps, wikiVars
<1>7. ASSUME \E f \in Paths : EditSource(f) \/ \E g \in Paths : MoveSource(f, g) PROVE ArchiveInv'
  BY <1>1, <1>7 DEF EditSource, MoveSource, wikiVars
<1>8. ASSUME NEW t, EditRaw(t) PROVE ArchiveInv'
  BY <1>1, <1>8 DEF EditRaw
<1>9. CASE IsolateLock \/ UNCHANGED vars
  BY <1>1, <1>9 DEF IsolateLock, vars, wikiVars
<1> QED BY <1>2, <1>3, <1>4, <1>5, <1>6, <1>7, <1>8, <1>9 DEF Next

\* A processed archive, and every archive the change log tells of, is in raw/
\* with the bytes that were confirmed, whatever became of its source while it
\* was copied and however often its ingest was interrupted.
THEOREM Archives == Spec => []ArchiveHolds
<1>1. Init => ArchiveInv
  BY DEF Init, ArchiveInv, PublishInv, ArchiveHolds
<1>2. ArchiveInv => ArchiveHolds
  BY DEF ArchiveInv
<1> QED BY <1>1, <1>2, ArchiveNext, TypeInvariant, PTL DEF Spec

-----------------------------------------------------------------------------
(* Identity *)

\* A write to sources.json, of a plan that fits what is there.
LEMMA WriteFits ==
  ASSUME TypeInv, NEW p \in Procs, NEW status, WriteSource(p, status),
         pc[p] = "write-source-pending" \/ pc[p] = "write-source-processed"
  PROVE  /\ FitsIn(payload[p], plan[p].source, registry)
         /\ pc[p] = "write-source-processed" =>
              /\ plan[p].source.id \in DOMAIN registry
              /\ registry[plan[p].source.id] = RecordOf(payload[p], plan[p], "pending")
<1>1. PlanOK(p)
  BY DEF TypeInv, PlansOK, HeldInv, PlannedOK
<1>2. CASE pc[p] = "write-source-pending"
  <2>1. plan[p].registry = registry
    BY <1>2 DEF TypeInv, NoSourceLost
  <2> QED BY <1>1, <1>2, <2>1 DEF PlanOK
<1>3. CASE pc[p] = "write-source-processed"
  <2>1. registry = With(plan[p].registry, plan[p].source.id,
                        RecordOf(payload[p], plan[p], "pending"))
    BY <1>3 DEF TypeInv, NoSourceLost
  <2>2. registry[plan[p].source.id] = RecordOf(payload[p], plan[p], "pending")
        /\ plan[p].source.id \in DOMAIN registry
    BY <2>1 DEF With
  <2>3. \A i \in DOMAIN registry : i # plan[p].source.id =>
          i \in DOMAIN plan[p].registry /\ registry[i] = plan[p].registry[i]
    BY <2>1 DEF With
  <2>4. FitsIn(payload[p], plan[p].source, plan[p].registry)
    BY <1>1 DEF PlanOK
  <2>5. FitsIn(payload[p], plan[p].source, registry)
    BY <2>2, <2>3, <2>4 DEF FitsIn, RecordOf
  <2> QED BY <2>2, <2>5
<1> QED BY <1>2, <1>3

\* Who writes sources.json holds the lock and is at one of the two writes.
LEMMA WhoWrites ==
  ASSUME TypeInv, [Next]_vars, registry' # registry
  PROVE  \E p \in Procs, status \in {"pending", "processed"} :
           /\ lock = p /\ WriteSource(p, status)
           /\ pc[p] = "write-source-pending" \/ pc[p] = "write-source-processed"
<1>1. ASSUME NEW p \in Procs, Transaction(p) PROVE WriteSourcePending(p) \/ WriteSourceProcessed(p)
  BY <1>1 DEF Transaction, Acquire, Repeat, Refuse, Begin, Publish, PublishRefused,
     AppendChangeLog, Release, wikiVars
<1>2. \E p \in Procs : WriteSourcePending(p) \/ WriteSourceProcessed(p)
  BY <1>1 DEF Next, vars, Preview, Submit, Copied, GiveUp, Fail, Crash, EditSource, MoveSource,
     EditRaw, IsolateLock, wikiVars
<1>3. PICK p \in Procs : WriteSourcePending(p) \/ WriteSourceProcessed(p)
  BY <1>2
<1>4. lock = p
  BY <1>3 DEF WriteSourcePending, WriteSourceProcessed, TypeInv, HeldInv, HoldersOK, Inside, Steps
<1> QED BY <1>3, <1>4 DEF WriteSourcePending, WriteSourceProcessed

LEMMA ReaderNext == TypeInv /\ OneReaderPerPath /\ [Next]_vars => OneReaderPerPath'
<1> SUFFICES ASSUME TypeInv, OneReaderPerPath, [Next]_vars, registry' # registry
             PROVE  OneReaderPerPath'
  BY DEF OneReaderPerPath
<1>1. PICK p \in Procs, status \in {"pending", "processed"} :
        /\ lock = p /\ WriteSource(p, status)
        /\ pc[p] = "write-source-pending" \/ pc[p] = "write-source-processed"
  BY WhoWrites
<1> DEFINE id == plan[p].source.id
<1>2. /\ DOMAIN registry' = DOMAIN registry \cup {id}
      /\ registry'[id] = RecordOf(payload[p], plan[p], status)
      /\ \A i \in DOMAIN registry : i # id => registry'[i] = registry[i]
  BY <1>1, WriteMeans
<1>3. FitsIn(payload[p], plan[p].source, registry)
  BY <1>1, WriteFits
<1>4. registry'[id].mode = payload[p].mode /\ registry'[id].path = payload[p].path
  BY <1>2 DEF RecordOf
<1>5. registry'[id].mode = "read" =>
        \A i \in DOMAIN registry : registry[i].path = registry'[id].path => i = id
  BY <1>3, <1>4 DEF FitsIn
<1> HIDE DEF id
<1> QED BY <1>2, <1>5 DEF OneReaderPerPath

\* A path is not recorded twice as a source read in place.
THEOREM OneReader == Spec => []OneReaderPerPath
<1>1. Init => OneReaderPerPath
  BY DEF Init, OneReaderPerPath
<1> QED BY <1>1, ReaderNext, TypeInvariant, PTL DEF Spec

LEMMA IdentityNext ==
  ASSUME TypeInv, [Next]_vars, NEW i \in DOMAIN registry,
         registry[i].mode = "archive", registry'[i].mode = "archive"
  PROVE  /\ registry'[i].content = registry[i].content
         /\ registry'[i].path # registry[i].path =>
              \E p \in Procs : lock = p /\ plan[p].source = [action |-> "rebind", id |-> i,
                                                            revision |-> registry'[i].revision]
<1>1. CASE registry' = registry
  BY <1>1
<1>2. CASE registry' # registry
  <2>1. PICK p \in Procs, status \in {"pending", "processed"} :
          /\ lock = p /\ WriteSource(p, status)
          /\ pc[p] = "write-source-pending" \/ pc[p] = "write-source-processed"
    BY <1>2, WhoWrites
  <2>2. /\ registry'[plan[p].source.id] = RecordOf(payload[p], plan[p], status)
        /\ i # plan[p].source.id => registry'[i] = registry[i]
    BY <2>1, WriteMeans
  <2>3. FitsIn(payload[p], plan[p].source, registry) /\ PlanOK(p)
    BY <2>1, WriteFits DEF TypeInv, PlansOK, HeldInv, PlannedOK
  <2>4. CASE i = plan[p].source.id
    <3>1. /\ registry'[i].content = payload[p].content /\ registry'[i].path = payload[p].path
          /\ registry'[i].mode = payload[p].mode /\ registry'[i].revision = plan[p].source.revision
      BY <2>2, <2>4 DEF RecordOf
    <3>2. /\ registry[i].content = payload[p].content
          /\ registry[i].path # payload[p].path => plan[p].source.action = "rebind"
      BY <2>3, <2>4, <3>1 DEF FitsIn
    <3>3. plan[p].source = [action |-> plan[p].source.action, id |-> plan[p].source.id,
                            revision |-> plan[p].source.revision]
      BY <2>3 DEF PlanOK, Source
    <3> QED BY <2>1, <2>4, <3>1, <3>2, <3>3
  <2>5. CASE i # plan[p].source.id
    BY <2>2, <2>5
  <2> QED BY <2>4, <2>5
<1> QED BY <1>1, <1>2

\* An archive id is of one content for good, and changes its origin only when
\* the user rebinds it.
THEOREM Identity == Spec => ArchiveIdentity
<1>1. TypeInv /\ [Next]_vars =>
        [\A i \in DOMAIN registry :
           registry[i].mode = "archive" /\ registry'[i].mode = "archive" =>
             /\ registry'[i].content = registry[i].content
             /\ registry'[i].path # registry[i].path =>
                  \E p \in Procs : lock = p /\ plan[p].source = [action |-> "rebind", id |-> i,
                                                                revision |-> registry'[i].revision]]_vars
  BY IdentityNext
<1> QED BY <1>1, TypeInvariant, PTL DEF Spec, ArchiveIdentity

=============================================================================
