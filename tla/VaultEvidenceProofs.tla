------------------------ MODULE VaultEvidenceProofs ------------------------
(***************************************************************************)
(* What the log, the steps of operations and the status of sources are     *)
(* evidence of, whatever fails or dies on the way, and what Doctor says of *)
(* a vault at rest: nothing while nothing fails, and after failures only   *)
(* what an operation that is not completed explains.  For every instance   *)
(* of VaultTransaction.                                                    *)
(***************************************************************************)
EXTENDS VaultTransactionProofs, DoctorChecks

-----------------------------------------------------------------------------
(* What is on disk when a transaction is at a step, and what remains of it.  *)

\* The pages of payload j are in the registry, in the second case as asked.
AllRegistered(j) == \A a \in Targets(j) : pages[a].rev # 0
PagesAsked(j) ==
  \A i \in DOMAIN j.pages :
    pages[j.pages[i].path].content = [text |-> j.pages[i].text, srcs |-> {j.source}]

InLog(n) == \E i \in DOMAIN events : events[i].op = n

\* Projection f shows the registries, these sources, and the log with these
\* entries more.
Shows(f, srcs, prospective) ==
  proj[f] = [exists |-> TRUE, shown |-> Rendered(f, srcs, pages, prospective)]

AfterRegistry == {"write-projections", "write-source-processed", "append-change-log", "complete"}

\* The payload of a process at work, by the step it is at ...
WorkEvidence(p) ==
  job[p].kind = "ingest" =>
    /\ pc[p] \in Steps \ {"write-source-pending"} => sources[job[p].source].verified = cur[p]
    /\ pc[p] \in AfterRegistry => PagesAsked(job[p]) /\ AllRegistered(job[p])
    /\ pc[p] \in {"append-change-log", "complete"} => sources[job[p].source].status = "processed"

\* ... and the projections.
WorkShows(p) ==
  /\ pc[p] = "write-projections" =>
       \A i \in 1..3 : i < at[p] =>
         Shows(ProjectionPaths[i], ProspectiveSources(p), ProspectiveEntries(p))
  /\ pc[p] = "write-source-processed" =>
       \A f \in Projections : Shows(f, ProspectiveSources(p), ProspectiveEntries(p))
  /\ pc[p] = "append-change-log" => \A f \in Projections : Shows(f, sources, ProspectiveEntries(p))
  /\ pc[p] = "complete" => \A f \in Projections : Shows(f, sources, {})

\* What the log, or its operation, says of the last payload, stays true however
\* the command ends.
LastLogged ==
  LET n == Len(ops)
      j == ops[n].key
  IN  n # 0 /\ InLog(n) /\ j.kind = "ingest" =>
        sources[j.source].verified = n /\ sources[j.source].status = "processed" /\ PagesAsked(j)

LastShown ==
  LET n == Len(ops)
  IN  n # 0 /\ (InLog(n) \/ ops[n].status = "completed") => \A f \in Projections : Shows(f, sources, {})

\* Payloads name a page once, the proxy is one of them, and a rebuild has none.
PayloadsOK ==
  \A p \in Procs :
    /\ \A i, k \in DOMAIN job[p].pages : job[p].pages[i].path = job[p].pages[k].path => i = k
    /\ job[p].kind = "ingest" => job[p].proxy \in Targets(job[p])
    /\ job[p].kind = "rebuild" => DOMAIN job[p].pages = {}

\* wiki/log.md, and the entries it has ahead of the log: one of an operation
\* without event at most.
ShownLog == proj["wiki/log.md"].shown
Ahead == ShownLog \ RenderWikiLog(events)

LeadInv ==
  /\ LogProjectionLead
  /\ \A e \in Ahead : e.op \in DOMAIN ops /\ ~InLog(e.op)
  /\ \A p \in Procs :
       /\ pc[p] \in {"write-source-processed", "append-change-log"} =>
            ShownLog = RenderWikiLog(events) \cup {LogEntry(NextSequence, cur[p])}
       /\ pc[p] = "complete" => Ahead = {}

\* What a processed source, and the step of the last operation, stand for.
SourceEvidence(s) ==
  LET n == sources[s].verified
      j == ops[n].key
  IN  /\ n \in DOMAIN ops
      /\ j.kind = "ingest" /\ j.source = s /\ j.version = sources[s].version
      /\ AllRegistered(j)
      /\ n = Len(ops) =>
           /\ PagesAsked(j)
           /\ [source |-> s, status |-> "processed", proxy |-> sources[s].proxy]
                \in proj["ingest/index.md"].shown

StepEvidence(n, j, step) ==
  /\ step # "start" /\ step # "write-source-pending" => sources[j.source].verified = n
  /\ step \in AfterRegistry => PagesAsked(j)
  /\ step \in {"append-change-log", "complete"} => sources[j.source].status = "processed"
  /\ step = "complete" => InLog(n)

EvidenceInv ==
  /\ \A p \in Procs : WorkEvidence(p) /\ WorkShows(p)
  /\ Len(ops) # 0 /\ ops[Len(ops)].key.kind = "ingest" =>
       StepEvidence(Len(ops), ops[Len(ops)].key, ops[Len(ops)].step)
  /\ LastLogged /\ LastShown
  /\ \A s \in Sources : sources[s].status = "processed" => SourceEvidence(s)

-----------------------------------------------------------------------------
(* Steps *)

\* Steps that write no registry, projection or event, and begin no operation;
\* as long as nobody edits, they leave the page files alone.
WritesNothing ==
  /\ UNCHANGED <<sources, pages, proj, events>>
  /\ edits' = 0 => edits = 0 /\ files' = files
  /\ DOMAIN ops' = DOMAIN ops /\ Len(ops') = Len(ops)
  /\ \A n \in DOMAIN ops :
       /\ ops'[n].key = ops[n].key
       /\ ops'[n].status = "completed" =>
            \/ ops[n].status = "completed" \/ InLog(n)
            \/ \E p \in Procs : pc[p] = "complete" /\ cur[p] = n
       /\ \/ ops'[n].step = ops[n].step
          \/ ops'[n].step = "complete" /\ InLog(n)
          \/ \E p \in Procs : pc[p] \in Steps /\ cur[p] = n /\ ops'[n].step = pc[p]
  /\ \A q \in Procs : pc'[q] \in Steps => UNCHANGED <<pc[q], job[q], plan[q], cur[q], at[q]>>

Writes(p) ==
  \/ Begin(p) \/ WriteSourcePending(p) \/ SkipPage(p) \/ ReplacePage(p) \/ WritePageRegistry(p)
  \/ WriteProjection(p) \/ WriteSourceProcessed(p) \/ AppendChangeLog(p)

\* Operations that do not change are the same one by one.
LEMMA SameOps ==
  ASSUME ops' = ops
  PROVE  /\ DOMAIN ops' = DOMAIN ops /\ Len(ops') = Len(ops)
         /\ \A n \in DOMAIN ops : ops'[n] = ops[n]
OBVIOUS

\* Every step is one that writes nothing, or one of the eight that write.
LEMMA StepKinds ==
  ASSUME TypeInv, [Next]_vars
  PROVE  WritesNothing \/ \E p \in Procs : Writes(p)
<1>0. /\ pc \in [Procs -> {"idle", "waiting"} \cup Inside] /\ cur \in [Procs -> Nat]
      /\ ops \in Seq(Operation) /\ at \in [Procs -> Nat] /\ job \in [Procs -> Job]
      /\ plan \in [Procs -> PlanRecord] /\ edits \in Nat
  BY DEF TypeInv, TypeOK
<1> USE <1>0 DEF procVars, vaultVars, boundVars
<1>1. ASSUME NEW p \in Procs,
             \/ \E r \in Requests : Draft(p, r)
             \/ Preview(p) \/ Submit(p) \/ Acquire(p) \/ Timeout(p) \/ Refuse(p) \/ Release(p)
             \/ FailBegin(p) \/ Crash(p) \/ CheckPage(p)
      PROVE  WritesNothing
  <2>1. ops' = ops /\ UNCHANGED <<sources, pages, proj, events, files, edits>>
    BY <1>1 DEF Draft, Preview, Submit, Acquire, Timeout, Refuse, Release, FailBegin, Crash, CheckPage
  <2>2. ASSUME NEW q \in Procs, pc'[q] \in Steps
        PROVE  UNCHANGED <<pc[q], job[q], plan[q], cur[q], at[q]>>
    <3>1. CASE CheckPage(p)
      BY <3>1 DEF CheckPage
    <3>2. CASE \E r \in Requests : Draft(p, r)
      BY <2>2, <3>2 DEF Draft, Steps
    <3>3. CASE Preview(p) \/ Submit(p) \/ Acquire(p) \/ Timeout(p) \/ Refuse(p) \/ FailBegin(p)
      BY <2>2, <3>3 DEF Preview, Submit, Acquire, Timeout, Refuse, FailBegin, Steps
    <3>4. CASE Release(p) \/ Crash(p)
      BY <2>2, <3>4 DEF Release, Crash, Steps
    <3> QED
      BY <1>1, <3>1, <3>2, <3>3, <3>4
  <2> QED
    BY <2>1, <2>2, SameOps DEF WritesNothing
<1>2. ASSUME NEW p \in Procs, AlreadyDone(p) PROVE WritesNothing
  <2>1. PICK i \in Completions(job[p]) :
          ops' = update_operation(events[i].op, "completed", "complete") \/ ops' = ops
    BY <1>2 DEF AlreadyDone
  <2>2. events[i].op \in DOMAIN ops /\ InLog(events[i].op)
    BY <2>1 DEF Completions, TypeInv, EventsOK, InLog
  <2>3. \A q \in Procs : pc'[q] \in Steps => UNCHANGED <<pc[q], job[q], plan[q], cur[q], at[q]>>
    BY <1>2 DEF AlreadyDone, Steps
  <2>4. UNCHANGED <<sources, pages, proj, events, files, edits>>
    BY <1>2 DEF AlreadyDone
  <2>5. CASE ops' = ops
    BY <2>3, <2>4, <2>5, SameOps DEF WritesNothing
  <2>6. CASE ops' = update_operation(events[i].op, "completed", "complete")
    <3>1. /\ DOMAIN ops' = DOMAIN ops /\ Len(ops') = Len(ops)
          /\ \A k \in DOMAIN ops : ops'[k].key = ops[k].key
          /\ \A k \in DOMAIN ops : k # events[i].op => ops'[k] = ops[k]
          /\ ops'[events[i].op].step = "complete"
      BY <2>2, <2>6, UpdateOperation DEF Steps
    <3> QED
      BY <2>2, <2>3, <2>4, <3>1 DEF WritesNothing
  <2> QED
    BY <2>1, <2>5, <2>6
<1>3. ASSUME NEW p \in Procs, Enter(p) \/ Complete(p) PROVE WritesNothing
  <2>1. /\ pc[p] \in Steps /\ cur[p] \in DOMAIN ops
        /\ UNCHANGED <<sources, pages, proj, events, job, cur, files, edits>>
    BY <1>3 DEF Enter, Complete, At, TypeInv, WhereOK, Steps
  <2>2. PICK status \in {"running", "completed"} :
          /\ ops' = update_operation(cur[p], status, pc[p])
          /\ status = "completed" => pc[p] = "complete"
    BY <1>3 DEF Enter, Complete, At
  <2>3. /\ DOMAIN ops' = DOMAIN ops /\ Len(ops') = Len(ops)
        /\ \A k \in DOMAIN ops : ops'[k].key = ops[k].key
        /\ \A k \in DOMAIN ops : k # cur[p] => ops'[k] = ops[k]
        /\ ops'[cur[p]].step = pc[p] /\ ops'[cur[p]].status = status
    BY <2>1, <2>2, UpdateOperation
  <2>4. \A q \in Procs : pc'[q] \in Steps => UNCHANGED <<pc[q], job[q], plan[q], cur[q], at[q]>>
    BY <1>3 DEF Enter, Complete, Goto, Steps
  <2> QED
    BY <2>1, <2>2, <2>3, <2>4 DEF WritesNothing
<1>4. ASSUME NEW p \in Procs, PageChanged(p) \/ Fail(p) PROVE WritesNothing
  <2>1. /\ FailOperation(p) /\ pc[p] \in Steps \cup {"return"} /\ cur[p] \in DOMAIN ops
    BY <1>4 DEF PageChanged, Fail, At, TypeInv, WhereOK, Steps
  <2>2. /\ UNCHANGED <<sources, pages, proj, events, files, edits>>
        /\ \A q \in Procs : pc'[q] \in Steps => UNCHANGED <<pc[q], job[q], plan[q], cur[q], at[q]>>
    BY <1>4, <2>1 DEF FailOperation, PageChanged, Fail, Steps
  <2>3. CASE ops' = ops
    BY <2>2, <2>3, SameOps DEF WritesNothing
  <2>4. CASE \E step \in {pc[p], ops[cur[p]].step} \ {"return", "start"} :
               ops' = update_operation(cur[p], "failed", step)
    <3>1. PICK step \in {pc[p], ops[cur[p]].step} \ {"return", "start"} :
               ops' = update_operation(cur[p], "failed", step)
      BY <2>4
    <3>2. step \in Steps /\ (step = ops[cur[p]].step \/ step = pc[p])
      <4>1. ops[cur[p]] \in Operation
        BY <2>1
      <4> QED
        BY <2>1, <3>1, <4>1 DEF Operation
    <3>3. /\ DOMAIN ops' = DOMAIN ops /\ Len(ops') = Len(ops)
          /\ \A k \in DOMAIN ops : ops'[k].key = ops[k].key
          /\ \A k \in DOMAIN ops : k # cur[p] => ops'[k] = ops[k]
          /\ ops'[cur[p]].step = step /\ ops'[cur[p]].status = "failed"
      BY <2>1, <3>1, <3>2, UpdateOperation
    <3> QED
      BY <2>2, <3>2, <3>3 DEF WritesNothing
  <2> QED
    BY <2>1, <2>3, <2>4 DEF FailOperation
<1>5. ASSUME \/ \E s \in Sources : EditSource(s)
             \/ \E a \in Pages : EditPage(a)
             \/ IsolateLock \/ UNCHANGED vars
      PROVE  WritesNothing
  <2>1. ops' = ops /\ UNCHANGED <<sources, pages, proj, events, pc, job, plan, cur, at>>
    BY <1>5 DEF EditSource, EditPage, IsolateLock, vars
  <2>2. edits' = 0 => edits = 0 /\ files' = files
    BY <1>5 DEF EditSource, EditPage, IsolateLock, vars
  <2> QED
    BY <2>1, <2>2, SameOps DEF WritesNothing
<1> QED
  BY <1>1, <1>2, <1>3, <1>4, <1>5 DEF Next, User, Advance, PageStep, Fault, Writes

\* Who writes is the only one at work, before the step and after it.
LEMMA WriterAlone ==
  ASSUME TypeInv, MutualExclusion, NEW p \in Procs, Writes(p)
  PROVE  /\ \A q \in Procs : q # p => pc[q] \notin Steps /\ pc'[q] \notin Steps
         /\ job' = job /\ plan' = plan
         /\ Begin(p) \/ (pc[p] \in Steps /\ cur' = cur /\ ops' = ops)
<1>0. pc \in [Procs -> {"idle", "waiting"} \cup Inside]
  BY DEF TypeInv, TypeOK
<1>1. pc[p] \in Inside
  BY DEF Writes, Begin, WriteSourcePending, SkipPage, ReplacePage, WritePageRegistry, WriteProjection,
     WriteSourceProcessed, AppendChangeLog, At, Inside, Steps
<1>2. \A q \in Procs : q # p => pc'[q] = pc[q]
  <2>1. CASE SkipPage(p) \/ ReplacePage(p)
    BY <2>1, AfterPageType DEF SkipPage, ReplacePage, At
  <2>2. CASE WriteProjection(p)
    BY <2>2, NextProjectionType
  <2>3. CASE \/ Begin(p) \/ WriteSourcePending(p) \/ WritePageRegistry(p)
             \/ WriteSourceProcessed(p) \/ AppendChangeLog(p)
    BY <1>0, <2>3 DEF Begin, WriteSourcePending, WritePageRegistry, WriteSourceProcessed,
       AppendChangeLog, Goto
  <2> QED
    BY <2>1, <2>2, <2>3 DEF Writes
<1>3. job' = job /\ plan' = plan /\ (Begin(p) \/ (pc[p] \in Steps /\ cur' = cur /\ ops' = ops))
  BY DEF Writes, Begin, WriteSourcePending, SkipPage, ReplacePage, WritePageRegistry, WriteProjection,
     WriteSourceProcessed, AppendChangeLog, At, Steps, vaultVars
<1> QED
  BY <1>1, <1>2, <1>3, OthersOut

-----------------------------------------------------------------------------
(* wiki/log.md *)

\* An event that is appended is the entry that was rendered for it.
LEMMA LogGrowsBy ==
  ASSUME TypeInv, NEW p \in Procs, AppendChangeLog(p)
  PROVE  /\ RenderWikiLog(events)' = RenderWikiLog(events) \cup {LogEntry(NextSequence, cur[p])}
         /\ \A n : InLog(n)' <=> InLog(n) \/ n = cur[p]
<1> DEFINE e == [sequence |-> NextSequence, op |-> cur[p], key |-> job[p]]
<1>1. events \in Seq(Event) /\ events' = Append(events, e)
  BY DEF TypeInv, TypeOK, AppendChangeLog
<1>2. e.op = cur[p] /\ e.sequence = NextSequence
  OBVIOUS
<1> HIDE DEF e
<1>3. /\ DOMAIN events' = DOMAIN events \cup {Len(events) + 1}
      /\ \A i \in DOMAIN events : events'[i] = events[i]
      /\ events'[Len(events) + 1] = e
  BY <1>1
<1>4. \A n : InLog(n)' <=> InLog(n) \/ n = cur[p]
  BY <1>2, <1>3 DEF InLog
<1>5. RenderWikiLog(events') = {LogEntry(events'[i].sequence, events'[i].op) : i \in DOMAIN events'}
  BY DEF RenderWikiLog
<1>6. RenderWikiLog(events') = RenderWikiLog(events) \cup {LogEntry(NextSequence, cur[p])}
  BY <1>2, <1>3, <1>5 DEF RenderWikiLog
<1> QED
  BY <1>4, <1>6

\* One step of any process, the user or a fault keeps wiki/log.md where it is.
LEMMA LeadNext ==
  TypeInv /\ MutualExclusion /\ LogInv /\ LatestInv /\ LeadInv /\ [Next]_vars => LeadInv'
<1> SUFFICES ASSUME TypeInv, MutualExclusion, LogInv, LatestInv, LeadInv, [Next]_vars PROVE LeadInv'
  OBVIOUS
<1> USE DEF LeadInv, LogProjectionLead, Ahead, ShownLog
<1>0. /\ pc \in [Procs -> {"idle", "waiting"} \cup Inside] /\ cur \in [Procs -> Nat]
      /\ ops \in Seq(Operation)
  BY DEF TypeInv, TypeOK
<1>1. ASSUME UNCHANGED <<proj, events>>,
             \A n \in DOMAIN ops : /\ n \in DOMAIN ops'
                                   /\ ops'[n].status = "completed" =>
                                        \/ ops[n].status = "completed" \/ InLog(n) \/ Ahead = {},
             \A q \in Procs :
               /\ pc'[q] \in {"write-source-processed", "append-change-log", "complete"} => cur'[q] = cur[q]
               /\ pc'[q] \in {"write-source-processed", "append-change-log"} =>
                    pc[q] \in {"write-source-processed", "append-change-log"}
               /\ pc'[q] = "complete" => pc[q] = "complete"
      PROVE  LeadInv'
  BY <1>1 DEF InLog, NextSequence
<1>2. CASE WritesNothing
  BY <1>1, <1>2 DEF WritesNothing, Steps
<1>3. ASSUME NEW p \in Procs, Writes(p) PROVE LeadInv'
  <2>0. /\ \A q \in Procs : q # p => pc[q] \notin Steps /\ pc'[q] \notin Steps
        /\ Begin(p) \/ (pc[p] \in Steps /\ cur' = cur /\ ops' = ops)
    BY <1>3, WriterAlone
  <2>1. CASE Begin(p)
    <3>1. /\ UNCHANGED <<proj, events>>
          /\ \A n \in DOMAIN ops : n \in DOMAIN ops' /\ ops'[n] = ops[n]
      BY <1>0, <2>1 DEF Begin
    <3>2. pc'[p] \in {"write-source-pending", "write-pages", "write-projections"}
      BY <1>0, <2>1 DEF Begin, Goto, FirstStep, TypeInv, JobsOK, Kinds
    <3> QED
      BY <1>1, <2>0, <3>1, <3>2 DEF Steps
  <2>2. CASE \/ WriteSourcePending(p) \/ WritePageRegistry(p) \/ WriteSourceProcessed(p)
             \/ SkipPage(p) \/ ReplacePage(p)
    <3>1. UNCHANGED <<proj, events, ops, cur>>
      BY <2>2 DEF WriteSourcePending, WritePageRegistry, WriteSourceProcessed, SkipPage, ReplacePage, vaultVars
    <3>2. \/ pc'[p] \in {"write-pages", "write-page-registry", "write-projections"}
          \/ pc[p] = "write-source-processed" /\ pc'[p] = "append-change-log"
      <4>1. CASE SkipPage(p) \/ ReplacePage(p)
        BY <4>1, AfterPageType DEF SkipPage, ReplacePage, At
      <4>2. CASE WriteSourcePending(p) \/ WritePageRegistry(p) \/ WriteSourceProcessed(p)
        BY <1>0, <4>2 DEF WriteSourcePending, WritePageRegistry, WriteSourceProcessed, At, Goto
      <4> QED
        BY <2>2, <4>1, <4>2
    <3> QED
      BY <1>1, <2>0, <3>1, <3>2 DEF Steps
  <2>3. CASE WriteProjection(p)
    <3>1. /\ pc[p] = "write-projections" /\ at[p] \in 1..3 /\ UNCHANGED <<events, ops, cur>>
          /\ cur[p] = Len(ops) /\ ops[cur[p]].status = "running" /\ ~InLog(cur[p])
          /\ cur[p] \in DOMAIN ops
      BY <2>3 DEF WriteProjection, At, TypeInv, WhereOK, LatestInv, InLog, Steps
    <3>2. CASE at[p] \in {1, 2}
      <4>1. pc' = pc
        BY <2>3, <3>2 DEF WriteProjection, ProjectionPaths
      <4>2. ProjectionPaths[at[p]] # "wiki/log.md"
        BY <3>2 DEF ProjectionPaths
      <4>3. proj'["wiki/log.md"] = proj["wiki/log.md"]
        BY <2>3, <4>2 DEF WriteProjection, TypeInv, TypeOK, Projections
      <4> QED
        BY <1>0, <2>0, <3>1, <4>1, <4>3 DEF InLog, NextSequence, Steps
    <3>3. CASE at[p] = 3
      <4>1. proj'["wiki/log.md"].shown = RenderWikiLog(events) \cup ProspectiveEntries(p)
        <5>1. ProjectionPaths[at[p]] = "wiki/log.md" /\ "wiki/log.md" \in DOMAIN proj
          BY <3>3 DEF ProjectionPaths, TypeInv, TypeOK, Projections
        <5>2. Rendered("wiki/log.md", ProspectiveSources(p), pages, ProspectiveEntries(p))
              = RenderWikiLog(events) \cup ProspectiveEntries(p)
          BY DEF Rendered
        <5> QED
          BY <2>3, <5>1, <5>2 DEF WriteProjection
      <4>2. LogEntry(NextSequence, cur[p]).op = cur[p] /\ NextSequence' = NextSequence
        BY <3>1 DEF LogEntry, NextSequence
      <4>3. pc'[p] \in {"write-source-processed", "append-change-log"} => job[p].kind # "rebuild"
        BY <2>3, NextProjectionType
      <4>4. pc'[p] = "complete" => job[p].kind = "rebuild"
        BY <2>3, NextProjectionType
      <4>5. \A n : InLog(n)' <=> InLog(n)
        BY <3>1 DEF InLog
      <4> QED
        BY <2>0, <3>1, <4>1, <4>2, <4>3, <4>4, <4>5 DEF ProspectiveEntries, Steps
    <3> QED
      BY <3>1, <3>2, <3>3
  <2>4. CASE AppendChangeLog(p)
    <3>1. /\ pc[p] = "append-change-log" /\ pc'[p] = "complete" /\ UNCHANGED <<proj, ops>>
      BY <1>0, <2>4 DEF AppendChangeLog, At, Goto
    <3>2. ShownLog = RenderWikiLog(events) \cup {LogEntry(NextSequence, cur[p])}
      BY <3>1
    <3>3. Ahead' = {} /\ (RenderWikiLog(events) \subseteq ShownLog)'
      BY <2>4, <3>1, <3>2, LogGrowsBy
    <3> QED
      BY <2>0, <3>1, <3>3 DEF Steps
  <2> QED
    BY <1>3, <2>1, <2>2, <2>3, <2>4 DEF Writes
<1> QED
  BY <1>2, <1>3, StepKinds

-----------------------------------------------------------------------------
(* Payloads *)

\* Payloads are drafted from requests, which are well formed.
LEMMA PayloadsNext == TypeInv /\ PayloadsOK /\ [Next]_vars => PayloadsOK'
<1> SUFFICES ASSUME TypeInv, PayloadsOK, [Next]_vars PROVE PayloadsOK'
  OBVIOUS
<1>1. CASE job' = job
  BY <1>1 DEF PayloadsOK, Targets
<1>2. ASSUME NEW p \in Procs, NEW r \in Requests, Draft(p, r) PROVE PayloadsOK'
  <2> DEFINE m == [i \in DOMAIN r.pages |->
                     [path |-> r.pages[i].path, text |-> r.pages[i].text,
                      takeover |-> r.pages[i].takeover,
                      expected |-> files[r.pages[i].path].content]]
             j == [kind |-> r.kind, source |-> r.source, proxy |-> r.proxy,
                   version |-> IF r.kind = "ingest" THEN disk[r.source] ELSE 0, pages |-> m]
  <2>1. job' = [job EXCEPT ![p] = j] /\ job \in [Procs -> Job]
    BY <1>2 DEF Draft, TypeInv, TypeOK
  <2>2. /\ \A i, k \in DOMAIN r.pages : r.pages[i].path = r.pages[k].path => i = k
        /\ r.kind = "ingest" => \E i \in DOMAIN r.pages : r.pages[i].path = r.proxy
        /\ r.kind = "rebuild" => DOMAIN r.pages = {}
    BY RequestsAssumption
  <2>3. DOMAIN m = DOMAIN r.pages /\ \A i \in DOMAIN r.pages : m[i].path = r.pages[i].path
    OBVIOUS
  <2>4. j.pages = m /\ j.kind = r.kind /\ j.proxy = r.proxy
    OBVIOUS
  <2> HIDE DEF m, j
  <2>5. \A q \in Procs : job'[q] = IF q = p THEN j ELSE job[q]
    BY <2>1
  <2>6. \A i, k \in DOMAIN j.pages : j.pages[i].path = j.pages[k].path => i = k
    BY <2>2, <2>3, <2>4
  <2>7. j.kind = "ingest" => j.proxy \in Targets(j)
    BY <2>2, <2>3, <2>4 DEF Targets
  <2>8. j.kind = "rebuild" => DOMAIN j.pages = {}
    BY <2>2, <2>3, <2>4
  <2>9. ASSUME NEW q \in Procs
        PROVE  /\ \A i, k \in DOMAIN job'[q].pages :
                    job'[q].pages[i].path = job'[q].pages[k].path => i = k
               /\ job'[q].kind = "ingest" => job'[q].proxy \in Targets(job'[q])
               /\ job'[q].kind = "rebuild" => DOMAIN job'[q].pages = {}
    <3>1. CASE q = p
      BY <2>5, <2>6, <2>7, <2>8, <3>1
    <3>2. CASE q # p
      BY <2>5, <3>2 DEF PayloadsOK
    <3> QED
      BY <3>1, <3>2
  <2> QED
    BY <2>9 DEF PayloadsOK, Targets
<1>3. job' = job \/ \E p \in Procs : \E r \in Requests : Draft(p, r)
  BY ZenonT(60) DEF Next, User, Advance, PageStep, Fault, Preview, Submit, Acquire, Timeout, Refuse,
     AlreadyDone, Begin, Enter, WriteSourcePending, SkipPage, CheckPage, ReplacePage, WritePageRegistry,
     PageChanged, WriteProjection, WriteSourceProcessed, AppendChangeLog, Complete,
     Release, FailBegin, Fail, FailOperation, Crash, EditSource, EditPage, IsolateLock, vars, procVars
<1> QED
  BY <1>1, <1>2, <1>3

\* The records of the pages of a payload are there, and are what it asks for.
LEMMA RecordsAsked ==
  ASSUME NEW j \in Job, NEW pgs \in [Pages -> PageRecord], NEW fs \in [Pages -> File],
         \A i, k \in DOMAIN j.pages : j.pages[i].path = j.pages[k].path => i = k,
         \A i \in DOMAIN j.pages :
           ~PageConflict(j.pages[i], fs[j.pages[i].path], pgs[j.pages[i].path]),
         NEW i \in DOMAIN j.pages
  PROVE  /\ j.pages[i].path \in Pages
         /\ RecordsAfter(j, pgs, fs)[j.pages[i].path].rev # 0
         /\ RecordsAfter(j, pgs, fs)[j.pages[i].path].content = Wanted(j, j.pages[i], pgs)
<1> DEFINE a == j.pages[i].path
           wanted == Wanted(j, j.pages[i], pgs)
<1>1. a \in Pages
  <2>1. j.pages[i] \in Mutation
    BY DEF Job
  <2> QED
    BY <2>1 DEF Mutation
<1>2. a \in Targets(j) /\ (CHOOSE k \in DOMAIN j.pages : j.pages[k].path = a) = i
  BY SMTT(40) DEF Targets
<1>3. RecordsAfter(j, pgs, fs)[a] =
        [content |-> wanted,
         rev |-> IF PageUnchanged(wanted, fs[a]) THEN pgs[a].rev ELSE pgs[a].rev + 1]
  BY <1>1, <1>2 DEF RecordsAfter
<1>4. pgs[a].rev \in Nat
  BY <1>1 DEF PageRecord
<1>5. PageUnchanged(wanted, fs[a]) => pgs[a].rev # 0
  BY DEF PageConflict, PageUnchanged
<1> HIDE DEF a, wanted
<1>6. RecordsAfter(j, pgs, fs)[a].rev # 0 /\ RecordsAfter(j, pgs, fs)[a].content = wanted
  BY <1>3, <1>4, <1>5
<1> QED
  BY <1>1, <1>6 DEF a, wanted

-----------------------------------------------------------------------------
(* Evidence *)

\* The operation of a process at work.
LEMMA AtWorkIs ==
  ASSUME TypeInv, LogInv, LatestInv, NEW p \in Procs, pc[p] \in Steps
  PROVE  /\ cur[p] = Len(ops) /\ cur[p] # 0 /\ cur[p] \in DOMAIN ops
         /\ ops[cur[p]].key = job[p] /\ ops[cur[p]].status = "running"
         /\ pc[p] # "complete" => ~InLog(cur[p])
<1>1. ops \in Seq(Operation) /\ cur[p] \in DOMAIN ops
  BY DEF TypeInv, TypeOK, WhereOK
<1> QED
  BY <1>1 DEF LatestInv, LogInv, OwnOperation, InLog

\* What only the step that stands in operations.json and the lock holder may
\* change stays.
LEMMA EvidenceQuiet ==
  ASSUME TypeInv, LogInv, LatestInv, EvidenceInv, WritesNothing
  PROVE  EvidenceInv'
<1> DEFINE n == Len(ops)
           j == ops[n].key
<1>0. ops \in Seq(Operation) /\ n \in Nat
  BY DEF TypeInv, TypeOK
<1>1. /\ UNCHANGED <<sources, pages, proj, events>>
      /\ DOMAIN ops' = DOMAIN ops /\ Len(ops') = Len(ops)
      /\ \A k \in DOMAIN ops : ops'[k].key = ops[k].key
  BY DEF WritesNothing
<1>2. /\ \A k \in DOMAIN ops : PagesAsked(ops[k].key)' <=> PagesAsked(ops[k].key)
      /\ \A k \in DOMAIN ops : AllRegistered(ops[k].key)' <=> AllRegistered(ops[k].key)
      /\ \A k : InLog(k)' <=> InLog(k)
      /\ \A f \in Projections : Shows(f, sources, {})' <=> Shows(f, sources, {})
  BY <1>1 DEF PagesAsked, AllRegistered, InLog, Shows, Rendered
<1>3. ASSUME NEW q \in Procs PROVE (WorkEvidence(q) /\ WorkShows(q))'
  <2>1. WorkEvidence(q) /\ WorkShows(q)
    BY DEF EvidenceInv
  <2>2. CASE pc'[q] \notin Steps
    BY <2>2 DEF WorkEvidence, WorkShows, Steps, AfterRegistry
  <2>3. CASE UNCHANGED <<pc[q], job[q], plan[q], cur[q], at[q]>>
    <3>1. /\ ProspectiveSources(q)' = ProspectiveSources(q)
          /\ ProspectiveEntries(q)' = ProspectiveEntries(q)
      BY <1>1, <2>3 DEF ProspectiveSources, ProspectiveEntries, NextSequence
    <3>2. WorkEvidence(q)'
      BY <1>1, <2>1, <2>3 DEF WorkEvidence, PagesAsked, AllRegistered
    <3>3. WorkShows(q)'
      BY <1>1, <2>1, <2>3, <3>1 DEF WorkShows, Shows, Rendered
    <3> QED
      BY <3>2, <3>3
  <2> QED
    BY <2>2, <2>3 DEF WritesNothing
<1>4. LastLogged'
  <2>1. n # 0 => n \in DOMAIN ops
    BY <1>0, SMTT(40)
  <2> QED
    BY <1>1, <1>2, <2>1 DEF EvidenceInv, LastLogged
<1>8. ASSUME NEW s \in Sources, sources'[s].status = "processed" PROVE SourceEvidence(s)'
  <2>1. sources' = sources /\ SourceEvidence(s)
    BY <1>1, <1>8 DEF EvidenceInv
  <2>2. ops'[sources[s].verified].key = ops[sources[s].verified].key
    BY <1>1, <2>1 DEF SourceEvidence
  <2> QED
    BY <1>1, <2>1, <2>2 DEF SourceEvidence, AllRegistered, PagesAsked
<1>5. ASSUME n # 0 PROVE \/ ops'[n].step = ops[n].step
                         \/ ops'[n].step = "complete" /\ InLog(n)
                         \/ \E p \in Procs : pc[p] \in Steps /\ cur[p] = n /\ ops'[n].step = pc[p]
  BY <1>0, <1>5 DEF WritesNothing
<1>6. ASSUME n # 0, j.kind = "ingest" PROVE StepEvidence(n, j, ops'[n].step)
  <2>1. CASE ops'[n].step = ops[n].step
    BY <1>6, <2>1 DEF EvidenceInv
  <2>2. CASE ops'[n].step = "complete" /\ InLog(n)
    BY <1>6, <2>2 DEF EvidenceInv, LastLogged, StepEvidence, AfterRegistry
  <2>3. ASSUME NEW p \in Procs, pc[p] \in Steps, cur[p] = n, ops'[n].step = pc[p]
        PROVE  StepEvidence(n, j, ops'[n].step)
    <3>1. job[p] = j /\ WorkEvidence(p)
      BY <2>3, AtWorkIs DEF EvidenceInv
    <3>2. pc[p] = "complete" => InLog(n)
      BY <1>6, <2>3, <3>1, SMTT(40) DEF LogInv, LoggedOnReturn, InLog
    <3> QED
      BY <1>6, <2>3, <3>1, <3>2 DEF WorkEvidence, StepEvidence
  <2> QED
    BY <1>5, <1>6, <2>1, <2>2, <2>3
<1>9. ASSUME n # 0, j.kind = "ingest" PROVE StepEvidence(n, j, ops[n].step)'
  BY <1>0, <1>1, <1>2, <1>6, <1>9, SMTT(40) DEF StepEvidence, PagesAsked
<1>7. LastShown'
  <2> SUFFICES ASSUME n # 0, InLog(n) \/ ops'[n].status = "completed"
               PROVE  \A f \in Projections : Shows(f, sources, {})
    BY <1>1, <1>2 DEF LastShown
  <2>1. CASE InLog(n) \/ ops[n].status = "completed"
    BY <2>1 DEF EvidenceInv, LastShown
  <2>2. ASSUME NEW p \in Procs, pc[p] = "complete"
        PROVE  \A f \in Projections : Shows(f, sources, {})
    BY <2>2 DEF EvidenceInv, WorkShows
  <2>3. n \in DOMAIN ops
    BY <1>0
  <2> QED
    BY <2>1, <2>2, <2>3 DEF WritesNothing
<1> QED
  BY <1>0, <1>1, <1>3, <1>4, <1>7, <1>8, <1>9 DEF EvidenceInv

\* A process that writes is the only one at work; as long as it begins no
\* operation and appends no event, there is nothing of its own to be seen yet.
LEMMA EvidenceOwn ==
  ASSUME TypeInv, MutualExclusion, LogInv, LatestInv,
         NEW p \in Procs, Writes(p), pc[p] \in Steps \ {"complete"}, UNCHANGED <<ops, events>>,
         WorkEvidence(p)', WorkShows(p)',
         job[p].kind = "ingest" => StepEvidence(cur[p], job[p], ops[cur[p]].step)',
         \A s \in Sources : sources'[s].status = "processed" => SourceEvidence(s)'
  PROVE  EvidenceInv'
<1>1. /\ \A q \in Procs : q # p => pc'[q] \notin Steps
      /\ job' = job /\ cur' = cur
  <2>1. ~Begin(p)
    BY DEF Begin, Steps
  <2> QED
    BY <2>1, WriterAlone
<1>2. /\ cur[p] = Len(ops) /\ cur[p] # 0 /\ ops[cur[p]].key = job[p]
      /\ ops[cur[p]].status = "running" /\ ~InLog(cur[p])
  BY AtWorkIs
<1>3. ~InLog(cur[p])' /\ Len(ops') = cur[p] /\ ops' = ops
  BY <1>1, <1>2 DEF InLog
<1>4. \A q \in Procs : (WorkEvidence(q) /\ WorkShows(q))'
  <2>1. ASSUME NEW q \in Procs, pc'[q] \notin Steps PROVE (WorkEvidence(q) /\ WorkShows(q))'
    BY <2>1 DEF WorkEvidence, WorkShows, Steps, AfterRegistry
  <2> QED
    BY <1>1, <2>1
<1>5. LastLogged' /\ LastShown'
  BY <1>1, <1>2, <1>3 DEF LastLogged, LastShown
<1>6. (Len(ops) # 0 /\ ops[Len(ops)].key.kind = "ingest" =>
        StepEvidence(Len(ops), ops[Len(ops)].key, ops[Len(ops)].step))'
  BY <1>1, <1>2, <1>3 DEF StepEvidence, PagesAsked, InLog
<1> QED
  BY <1>4, <1>5, <1>6 DEF EvidenceInv

\* The step in operations.json is the one an ingest is at.
LEMMA StepIsAt ==
  ASSUME NEW p \in Procs, NEW step \in Steps, At(p, step), job[p].kind = "ingest"
  PROVE  ops[cur[p]].step = step
BY DEF At, Recorded

\* The record an ingest writes for its source, which leaves the others.
LEMMA SourcesWithIs ==
  ASSUME NEW j \in Job, j.source \in Sources, NEW srcs \in [Sources -> SourceRecord],
         NEW status, NEW n, NEW new, new = SourcesWith(j, srcs, status, n)
  PROVE  /\ \A s \in Sources : s # j.source => new[s] = srcs[s]
         /\ new[j.source].status = status /\ new[j.source].version = j.version
         /\ new[j.source].proxy = j.proxy /\ new[j.source].verified = n
<1> DEFINE r == [status |-> status, version |-> j.version, proxy |-> j.proxy, verified |-> n]
<1>1. r.status = status /\ r.version = j.version /\ r.proxy = j.proxy /\ r.verified = n
  OBVIOUS
<1>2. new = [srcs EXCEPT ![j.source] = r]
  BY DEF SourcesWith
<1> HIDE DEF r
<1>3. new[j.source] = r /\ \A s \in Sources : s # j.source => new[s] = srcs[s]
  BY <1>2
<1> QED
  BY <1>1, <1>3

\* A new operation has nothing on disk yet; the ones before are not the last.
LEMMA EvidenceBegin ==
  ASSUME TypeInv, MutualExclusion, EvidenceInv, NEW p \in Procs, Begin(p)
  PROVE  EvidenceInv'
<1> DEFINE n == Len(ops) + 1
<1>0. pc \in [Procs -> {"idle", "waiting"} \cup Inside] /\ ops \in Seq(Operation)
      /\ at \in [Procs -> Nat] /\ cur \in [Procs -> Nat]
  BY DEF TypeInv, TypeOK
<1>1. /\ UNCHANGED <<sources, pages, proj, events, job>>
      /\ ops' = Append(ops, [key |-> job[p], status |-> "running", step |-> "start"])
  BY DEF Begin
<1>2. /\ Len(ops') = n /\ \A k \in DOMAIN ops : k \in DOMAIN ops' /\ ops'[k] = ops[k] /\ k # n
      /\ ops'[n].status = "running" /\ ops'[n].step = "start"
  BY <1>0, <1>1
<1>3. \A i \in DOMAIN events : events[i].op # n
  BY <1>2 DEF TypeInv, EventsOK
<1> HIDE DEF n
<1>4. \A q \in Procs : q # p => pc'[q] \notin Steps
  BY WriterAlone DEF Writes
<1>5. /\ pc'[p] = FirstStep(job[p].kind) /\ at'[p] = 1 /\ job[p].kind \in Kinds
  BY <1>0 DEF Begin, Goto, TypeInv, JobsOK
<1>6. /\ pc'[p] \in {"write-source-pending", "write-pages", "write-projections"}
      /\ job[p].kind = "ingest" => pc'[p] = "write-source-pending"
  BY <1>5 DEF FirstStep, Kinds
<1>7. \A q \in Procs : (WorkEvidence(q) /\ WorkShows(q))'
  <2>1. ASSUME NEW q \in Procs, pc'[q] \notin Steps PROVE (WorkEvidence(q) /\ WorkShows(q))'
    BY <2>1 DEF WorkEvidence, WorkShows, Steps, AfterRegistry
  <2>2. (WorkEvidence(p) /\ WorkShows(p))'
    BY <1>1, <1>5, <1>6 DEF WorkEvidence, WorkShows, AfterRegistry
  <2> QED
    BY <1>4, <2>1, <2>2
<1>8. LastLogged' /\ LastShown'
  BY <1>1, <1>2, <1>3 DEF LastLogged, LastShown, InLog
<1>9. StepEvidence(Len(ops), ops[Len(ops)].key, ops[Len(ops)].step)'
  <2>1. ops'[Len(ops')].step = "start"
    BY <1>2, SMTT(40)
  <2> QED
    BY <2>1 DEF StepEvidence, AfterRegistry
<1>10. ASSUME NEW s \in Sources, sources'[s].status = "processed" PROVE SourceEvidence(s)'
  <2>1. sources' = sources /\ SourceEvidence(s)
    BY <1>1, <1>10 DEF EvidenceInv
  <2> QED
    BY <1>1, <1>2, <2>1 DEF SourceEvidence, AllRegistered, PagesAsked
<1> QED
  BY <1>7, <1>8, <1>9, <1>10 DEF EvidenceInv

\* The pages of an operation are pages.
LEMMA OperationTargets ==
  ASSUME TypeInv, NEW n \in DOMAIN ops
  PROVE  Targets(ops[n].key) \subseteq Pages
<1>1. ops[n] \in Operation
  BY DEF TypeInv, TypeOK
<1>2. ops[n].key \in Job
  BY <1>1 DEF Operation
<1> DEFINE j == ops[n].key
<1> HIDE DEF j
<1>3. ASSUME NEW i \in DOMAIN j.pages, j \in Job PROVE j.pages[i].path \in Pages
  <2>1. j.pages[i] \in Mutation
    BY <1>3 DEF Job
  <2> QED
    BY <2>1 DEF Mutation
<1> QED
  BY <1>2, <1>3 DEF Targets, j

\* A source that the operation at work is not about stays what it stands for.
LEMMA OthersEvidence ==
  ASSUME TypeInv, LogInv, LatestInv, EvidenceInv, NEW p \in Procs, pc[p] \in Steps \ {"complete"},
         NEW s \in Sources, sources[s].status = "processed",
         job[p].kind # "ingest" \/ s # job[p].source,
         ops' = ops, sources'[s] = sources[s], \A a \in Pages : pages[a].rev # 0 => pages'[a].rev # 0
  PROVE  SourceEvidence(s)'
<1>1. SourceEvidence(s)
  BY DEF EvidenceInv
<1>2. sources[s].verified # Len(ops)
  BY <1>1, AtWorkIs DEF SourceEvidence
<1>3. Targets(ops[sources[s].verified].key) \subseteq Pages
  BY <1>1, OperationTargets DEF SourceEvidence
<1> QED
  BY <1>1, <1>2, <1>3 DEF SourceEvidence, AllRegistered, Targets

\* While a source is pending it is not a processed one.
LEMMA PendingIs ==
  ASSUME TypeInv, PlanInv, NEW p \in Procs, pc[p] \in WhilePending, job[p].kind = "ingest"
  PROVE  /\ job[p].source \in Sources /\ sources[job[p].source].status = "pending"
         /\ sources = SourcesWith(job[p], plan[p].sources, "pending", cur[p])
         /\ plan[p].sources \in [Sources -> SourceRecord] /\ job[p] \in Job
<1>1. job[p].source \in Sources /\ plan[p].sources \in [Sources -> SourceRecord] /\ job[p] \in Job
  BY DEF TypeInv, TypeOK, JobsOK, PlanRecord
<1>2. sources = SourcesWith(job[p], plan[p].sources, "pending", cur[p])
  BY DEF PlanInv, PlanHolds
<1> QED
  BY <1>1, <1>2, SourcesWithIs

\* The first step of an ingest names the operation in its source record.
LEMMA EvidencePending ==
  ASSUME TypeInv, MutualExclusion, LogInv, LatestInv, EvidenceInv,
         NEW p \in Procs, WriteSourcePending(p)
  PROVE  EvidenceInv'
<1>1. /\ pc[p] = "write-source-pending" /\ job[p].kind = "ingest" /\ pc'[p] = "write-pages"
      /\ UNCHANGED <<job, cur, pages, proj, ops, events>>
  BY DEF WriteSourcePending, At, Goto, TypeInv, TypeOK, WhereOK
<1>2. sources' = SourcesWith(job[p], sources, "pending", cur[p])
  BY DEF WriteSourcePending
<1>3. job[p] \in Job /\ job[p].source \in Sources /\ sources \in [Sources -> SourceRecord]
  BY <1>1 DEF TypeInv, TypeOK, JobsOK
<1>4. /\ sources'[job[p].source].verified = cur[p] /\ sources'[job[p].source].status = "pending"
      /\ \A s \in Sources : s # job[p].source => sources'[s] = sources[s]
  BY <1>2, <1>3, SourcesWithIs
<1>5. ops[cur[p]].step = "write-source-pending"
  BY <1>1, StepIsAt DEF WriteSourcePending, Steps
<1>6. WorkEvidence(p)' /\ WorkShows(p)'
  BY <1>1, <1>4 DEF WorkEvidence, WorkShows, AfterRegistry
<1>7. StepEvidence(cur[p], job[p], ops[cur[p]].step)'
  BY <1>1, <1>5 DEF StepEvidence, AfterRegistry
<1>8. \A s \in Sources : sources'[s].status = "processed" => SourceEvidence(s)'
  BY <1>1, <1>4, OthersEvidence DEF Steps
<1> QED
  BY <1>1, <1>6, <1>7, <1>8, EvidenceOwn DEF Writes, Steps

\* The page loop touches page files alone.
LEMMA EvidencePage ==
  ASSUME TypeInv, MutualExclusion, LogInv, LatestInv, EvidenceInv,
         NEW p \in Procs, SkipPage(p) \/ ReplacePage(p)
  PROVE  EvidenceInv'
<1>1. /\ pc[p] = "write-pages" /\ pc'[p] \in {"write-pages", "write-page-registry"}
      /\ UNCHANGED <<job, cur, sources, pages, proj, ops, events>>
  BY AfterPageType DEF SkipPage, ReplacePage, At, vaultVars
<1>2. cur[p] = Len(ops) /\ cur[p] # 0 /\ ops[cur[p]].key = job[p]
  BY <1>1, AtWorkIs DEF Steps
<1>3. WorkEvidence(p)' /\ WorkShows(p)'
  BY <1>1 DEF EvidenceInv, WorkEvidence, WorkShows, AfterRegistry, Steps
<1>4. job[p].kind = "ingest" => StepEvidence(cur[p], job[p], ops[cur[p]].step)'
  BY <1>1, <1>2, SMTT(40) DEF EvidenceInv, StepEvidence, PagesAsked, InLog
<1>5. ASSUME NEW s \in Sources, sources'[s].status = "processed" PROVE SourceEvidence(s)'
  <2>1. SourceEvidence(s)
    BY <1>1, <1>5 DEF EvidenceInv
  <2> QED
    BY <1>1, <2>1 DEF SourceEvidence, AllRegistered, PagesAsked
<1> QED
  BY <1>1, <1>3, <1>4, <1>5, EvidenceOwn DEF Writes, Steps

\* The page registry gets the pages as asked, and loses none.
LEMMA EvidencePageRegistry ==
  ASSUME TypeInv, MutualExclusion, LogInv, LatestInv, PlanInv, PayloadsOK, EvidenceInv,
         NEW p \in Procs, WritePageRegistry(p)
  PROVE  EvidenceInv'
<1>1. /\ pc[p] = "write-page-registry" /\ pc'[p] = "write-projections" /\ at'[p] = 1
      /\ job[p].kind \in {"ingest", "page"}
      /\ UNCHANGED <<job, cur, sources, proj, ops, events>>
      /\ pages' = RecordsAfter(job[p], plan[p].pages, plan[p].files)
  BY DEF WritePageRegistry, At, Goto, TypeInv, TypeOK, WhereOK
<1>2. /\ pages = plan[p].pages
      /\ \A i \in DOMAIN job[p].pages :
           ~PageConflict(job[p].pages[i], plan[p].files[job[p].pages[i].path],
                         plan[p].pages[job[p].pages[i].path])
  BY <1>1 DEF PlanInv, PlanHolds, BeforeRegistry
<1>3. /\ job[p] \in Job /\ plan[p].pages \in [Pages -> PageRecord]
      /\ plan[p].files \in [Pages -> File]
  BY DEF TypeInv, TypeOK, PlanRecord
<1>4. \A a \in Pages : pages[a].rev # 0 => pages'[a].rev # 0
  <2>1. \A a \in Pages : pages[a].rev \in Nat
    BY DEF TypeInv, TypeOK, PageRecord
  <2> QED
    BY <1>1, <1>2, <1>3, <2>1, RecordsAdvance, SMTT(40)
<1>5. job[p].kind = "ingest" => PagesAsked(job[p])' /\ AllRegistered(job[p])'
  <2> SUFFICES ASSUME job[p].kind = "ingest" PROVE PagesAsked(job[p])' /\ AllRegistered(job[p])'
    OBVIOUS
  <2>1. ASSUME NEW i \in DOMAIN job[p].pages
        PROVE  /\ pages'[job[p].pages[i].path].rev # 0
               /\ pages'[job[p].pages[i].path].content =
                    [text |-> job[p].pages[i].text, srcs |-> {job[p].source}]
    <3> DEFINE j == job[p]
               pgs == plan[p].pages
               fs == plan[p].files
    <3>1. \A k, l \in DOMAIN j.pages : j.pages[k].path = j.pages[l].path => k = l
      BY DEF PayloadsOK
    <3>2. \A k \in DOMAIN j.pages : ~PageConflict(j.pages[k], fs[j.pages[k].path], pgs[j.pages[k].path])
      BY <1>2
    <3>3. j \in Job /\ pgs \in [Pages -> PageRecord] /\ fs \in [Pages -> File] /\ i \in DOMAIN j.pages
      BY <1>3, <2>1
    <3>4. pages' = RecordsAfter(j, pgs, fs) /\ j.kind = "ingest"
      BY <1>1
    <3> HIDE DEF j, pgs, fs
    <3>5. /\ pages'[j.pages[i].path].rev # 0
          /\ pages'[j.pages[i].path].content = Wanted(j, j.pages[i], pgs)
      BY <3>1, <3>2, <3>3, <3>4, RecordsAsked
    <3>6. Wanted(j, j.pages[i], pgs) = [text |-> j.pages[i].text, srcs |-> {j.source}]
      BY <3>4 DEF Wanted
    <3> QED
      BY <3>5, <3>6 DEF j
  <2> QED
    BY <1>1, <2>1 DEF PagesAsked, AllRegistered, Targets
<1>6. WorkEvidence(p)' /\ WorkShows(p)'
  <2>1. WorkEvidence(p)'
    BY <1>1, <1>5 DEF EvidenceInv, WorkEvidence, AfterRegistry, Steps
  <2>2. WorkShows(p)'
    BY <1>1 DEF WorkShows
  <2> QED
    BY <2>1, <2>2
<1>7. ASSUME job[p].kind = "ingest" PROVE StepEvidence(cur[p], job[p], ops[cur[p]].step)'
  <2>1. ops[cur[p]].step = "write-page-registry"
    BY <1>1, <1>7, StepIsAt DEF WritePageRegistry, Steps
  <2>2. sources[job[p].source].verified = cur[p]
    BY <1>1, <1>7 DEF EvidenceInv, WorkEvidence, Steps
  <2> QED
    BY <1>1, <2>1, <2>2 DEF StepEvidence, AfterRegistry
<1>8. ASSUME NEW s \in Sources, sources'[s].status = "processed" PROVE SourceEvidence(s)'
  <2>1. job[p].kind # "ingest" \/ s # job[p].source
    BY <1>1, <1>8, PendingIs DEF WhilePending, PlanInv, PlanHolds
  <2> QED
    BY <1>1, <1>4, <1>8, <2>1, OthersEvidence, SMTT(40) DEF Steps
<1> QED
  BY <1>1, <1>6, <1>7, <1>8, EvidenceOwn DEF Writes, Steps

\* Writing projection at[p] leaves the ones before it, which are other files.
LEMMA ProjectionWritten ==
  ASSUME TypeInv, NEW p \in Procs, WriteProjection(p),
         \A i \in 1..3 : i < at[p] =>
           Shows(ProjectionPaths[i], ProspectiveSources(p), ProspectiveEntries(p))
  PROVE  \A i \in 1..3 : i <= at[p] =>
           Shows(ProjectionPaths[i], ProspectiveSources(p), ProspectiveEntries(p))'
<1> DEFINE srcs == ProspectiveSources(p)
           prospective == ProspectiveEntries(p)
           f == ProjectionPaths[at[p]]
           new == [exists |-> TRUE, shown |-> Rendered(f, srcs, pages, prospective)]
<1>1. /\ UNCHANGED <<job, cur, sources, pages, events>> /\ at[p] \in 1..3
      /\ proj \in [Projections -> Projection]
  BY DEF WriteProjection, At, TypeInv, TypeOK, WhereOK
<1>2. srcs' = srcs /\ prospective' = prospective
  BY <1>1 DEF ProspectiveSources, ProspectiveEntries, NextSequence
<1>3. proj' = [proj EXCEPT ![f] = new]
  BY DEF WriteProjection
<1>4. /\ \A i \in 1..3 : ProjectionPaths[i] \in Projections
      /\ \A i, k \in 1..3 : i # k => ProjectionPaths[i] # ProjectionPaths[k]
  BY DEF ProjectionPaths, Projections
<1>5. proj'[f] = new /\ \A i \in 1..3 : i < at[p] => proj'[ProjectionPaths[i]] = proj[ProjectionPaths[i]]
  BY <1>1, <1>3, <1>4
<1> QED
  <2> SUFFICES ASSUME NEW i \in 1..3, i <= at[p]
               PROVE  Shows(ProjectionPaths[i], ProspectiveSources(p), ProspectiveEntries(p))'
    BY <1>1
  <2> DEFINE shown == Rendered(ProjectionPaths[i], srcs, pages, prospective)
  <2>1. proj'[ProjectionPaths[i]] = [exists |-> TRUE, shown |-> shown]
    <3>1. CASE i = at[p]
      BY <1>5, <3>1
    <3>2. CASE i # at[p]
      <4>1. i < at[p]
        BY <1>1, <3>2
      <4> QED
        BY <1>5, <4>1 DEF Shows
    <3> QED
      BY <3>1, <3>2
  <2>2. shown' = shown
    BY <1>1, <1>2 DEF Rendered
  <2> HIDE DEF shown
  <2>3. proj'[ProjectionPaths[i]] = [exists |-> TRUE, shown |-> shown']
    BY <2>1, <2>2
  <2> QED
    BY <2>3 DEF Shows, shown

\* The projections are rendered from what the operation is about to write.
LEMMA EvidenceProjection ==
  ASSUME TypeInv, MutualExclusion, LogInv, LatestInv, PlanInv, EvidenceInv,
         NEW p \in Procs, WriteProjection(p)
  PROVE  EvidenceInv'
<1>1. /\ pc[p] = "write-projections" /\ at[p] \in 1..3 /\ at \in [Procs -> Nat]
      /\ UNCHANGED <<job, cur, sources, pages, ops, events>>
  BY DEF WriteProjection, At, TypeInv, TypeOK, WhereOK
<1>2. WorkEvidence(p) /\ WorkShows(p)
  BY DEF EvidenceInv
<1>3. WorkEvidence(p)'
  BY <1>1, <1>2, NextProjectionType DEF WorkEvidence, AfterRegistry, PagesAsked, AllRegistered, Steps
<1>4. \A i \in 1..3 : i <= at[p] =>
        Shows(ProjectionPaths[i], ProspectiveSources(p), ProspectiveEntries(p))'
  BY <1>1, <1>2, ProjectionWritten DEF WorkShows
<1>5. WorkShows(p)'
  <2>1. CASE at[p] \in {1, 2}
    <3>1. pc'[p] = "write-projections" /\ at'[p] = at[p] + 1
      BY <1>1, <2>1 DEF WriteProjection, ProjectionPaths
    <3>2. \A i \in 1..3 : i < at'[p] => i <= at[p]
      BY <1>1, <3>1
    <3> QED
      BY <1>4, <3>1, <3>2 DEF WorkShows
  <2>2. CASE at[p] = 3
    <3>1. \A f \in Projections : \E i \in 1..3 : i <= at[p] /\ f = ProjectionPaths[i]
      BY <2>2 DEF Projections, ProjectionPaths
    <3>2. \A f \in Projections : Shows(f, ProspectiveSources(p), ProspectiveEntries(p))'
      BY <1>4, <3>1
    <3>3. pc'[p] # "write-projections"
      <4>1. pc' = [pc EXCEPT ![p] = AfterProjections(job[p].kind)]
        BY <2>2 DEF WriteProjection, ProjectionPaths, Goto
      <4>2. job[p].kind \in Kinds /\ pc \in [Procs -> {"idle", "waiting"} \cup Inside]
        BY <1>1 DEF TypeInv, TypeOK, JobsOK
      <4> QED
        BY <4>1, <4>2 DEF AfterProjections, Kinds
    <3>4. job[p].kind # "ingest" => ProspectiveSources(p)' = sources'
      BY <1>1 DEF ProspectiveSources
    <3>5. job[p].kind = "rebuild" => ProspectiveEntries(p)' = {}
      BY <1>1 DEF ProspectiveEntries
    <3>6. pc'[p] = "append-change-log" => \A f \in Projections : Shows(f, sources, ProspectiveEntries(p))'
      BY <3>2, <3>4, NextProjectionType DEF Shows
    <3>7. pc'[p] = "complete" => \A f \in Projections : Shows(f, sources, {})'
      BY <3>2, <3>4, <3>5, NextProjectionType DEF Shows
    <3> QED
      BY <3>2, <3>3, <3>6, <3>7 DEF WorkShows
  <2> QED
    BY <1>1, <2>1, <2>2
<1>6. ASSUME job[p].kind = "ingest" PROVE StepEvidence(cur[p], job[p], ops[cur[p]].step)'
  <2>1. ops[cur[p]].step = "write-projections"
    BY <1>1, <1>6, StepIsAt DEF WriteProjection, Steps
  <2>2. sources[job[p].source].verified = cur[p] /\ PagesAsked(job[p])
    BY <1>1, <1>2, <1>6 DEF WorkEvidence, AfterRegistry, Steps
  <2> QED
    BY <1>1, <2>1, <2>2 DEF StepEvidence, PagesAsked
<1>7. ASSUME NEW s \in Sources, sources'[s].status = "processed" PROVE SourceEvidence(s)'
  <2>1. job[p].kind # "ingest" \/ s # job[p].source
    BY <1>1, <1>7, PendingIs DEF WhilePending
  <2> QED
    BY <1>1, <1>7, <2>1, OthersEvidence DEF Steps
<1> QED
  BY <1>1, <1>3, <1>5, <1>6, <1>7, EvidenceOwn DEF Writes, Steps

\* The source is marked processed as the projections have shown it.
LEMMA EvidenceProcessed ==
  ASSUME TypeInv, MutualExclusion, LogInv, LatestInv, PlanInv, PayloadsOK, EvidenceInv,
         NEW p \in Procs, WriteSourceProcessed(p)
  PROVE  EvidenceInv'
<1> DEFINE t == job[p].source
<1>1. /\ pc[p] = "write-source-processed" /\ pc'[p] = "append-change-log" /\ job[p].kind = "ingest"
      /\ UNCHANGED <<job, cur, pages, proj, ops, events>>
      /\ sources' = SourcesWith(job[p], plan[p].sources, "processed", cur[p])
  BY DEF WriteSourceProcessed, At, Goto, TypeInv, TypeOK, WhereOK
<1>2. /\ t \in Sources /\ sources = SourcesWith(job[p], plan[p].sources, "pending", cur[p])
      /\ plan[p].sources \in [Sources -> SourceRecord] /\ job[p] \in Job
  BY <1>1, PendingIs DEF WhilePending
<1>3. /\ sources'[t].status = "processed" /\ sources'[t].version = job[p].version
      /\ sources'[t].proxy = job[p].proxy /\ sources'[t].verified = cur[p]
      /\ \A s \in Sources : s # t => sources'[s] = sources[s]
  BY <1>1, <1>2, SourcesWithIs
<1>4. sources' = ProspectiveSources(p)
  BY <1>1, <1>2 DEF ProspectiveSources, SourcesWith
<1>5. WorkEvidence(p) /\ WorkShows(p)
  BY DEF EvidenceInv
<1>6. PagesAsked(job[p]) /\ AllRegistered(job[p])
  BY <1>1, <1>5, SMTT(40) DEF WorkEvidence, AfterRegistry
<1>7. WorkEvidence(p)'
  BY <1>1, <1>3, <1>6 DEF WorkEvidence, PagesAsked, AllRegistered
<1>8. \A f \in Projections :
        proj[f] = [exists |-> TRUE, shown |-> Rendered(f, sources', pages, ProspectiveEntries(p))]
  BY <1>1, <1>4, <1>5 DEF WorkShows, Shows
<1>9. WorkShows(p)'
  <2>1. ProspectiveEntries(p)' = ProspectiveEntries(p)
    BY <1>1 DEF ProspectiveEntries, NextSequence
  <2>2. \A f \in Projections : Shows(f, sources, ProspectiveEntries(p))'
    BY <1>1, <1>8, <2>1 DEF Shows, Rendered
  <2> QED
    BY <1>1, <2>2 DEF WorkShows
<1>10. StepEvidence(cur[p], job[p], ops[cur[p]].step)'
  <2>1. ops[cur[p]].step = "write-source-processed"
    BY <1>1, StepIsAt, SMTT(40) DEF WriteSourceProcessed, Steps
  <2> QED
    BY <1>1, <1>3, <1>6, <2>1 DEF StepEvidence, PagesAsked
<1>11. ASSUME NEW s \in Sources, s = t PROVE SourceEvidence(s)'
  <2>1. cur[p] \in DOMAIN ops /\ ops[cur[p]].key = job[p]
    BY <1>1, AtWorkIs DEF Steps
  <2>2. [source |-> s, status |-> "processed", proxy |-> job[p].proxy] \in proj["ingest/index.md"].shown
    <3>1. proj["ingest/index.md"].shown = RenderIngestIndex(sources', pages)
      <4>1. proj["ingest/index.md"] =
              [exists |-> TRUE, shown |-> Rendered("ingest/index.md", sources', pages, ProspectiveEntries(p))]
        BY <1>8 DEF Projections
      <4>2. Rendered("ingest/index.md", sources', pages, ProspectiveEntries(p))
              = RenderIngestIndex(sources', pages)
        BY DEF Rendered
      <4> QED
        BY <4>1, <4>2
    <3>2. job[p].proxy \in Targets(job[p]) /\ job[p].proxy \in Pages
      BY <1>1, <2>1, OperationTargets DEF PayloadsOK
    <3>3. ShownProxy(sources'[s].proxy, pages) = job[p].proxy
      BY <1>3, <1>6, <1>11, <3>2 DEF ShownProxy, AllRegistered
    <3> QED
      BY <1>3, <1>11, <3>1, <3>3 DEF RenderIngestIndex
  <2>4. /\ sources'[s].verified = cur[p] /\ sources'[s].version = job[p].version
        /\ sources'[s].proxy = job[p].proxy /\ job[p].source = s
    BY <1>3, <1>11
  <2>5. ops'[cur[p]].key = job[p] /\ cur[p] \in DOMAIN ops'
    BY <1>1, <2>1
  <2>6. /\ \A a \in Targets(job[p]) : pages'[a].rev # 0
        /\ \A i \in DOMAIN job[p].pages : pages'[job[p].pages[i].path].content =
             [text |-> job[p].pages[i].text, srcs |-> {job[p].source}]
    BY <1>1, <1>6 DEF AllRegistered, PagesAsked
  <2>7. [source |-> s, status |-> "processed", proxy |-> sources'[s].proxy]
          \in proj'["ingest/index.md"].shown
    BY <1>1, <2>2, <2>4
  <2>8. ops'[sources'[s].verified].key = job[p] /\ sources'[s].verified \in DOMAIN ops'
    BY <2>4, <2>5
  <2>9. AllRegistered(ops[sources[s].verified].key)' /\ PagesAsked(ops[sources[s].verified].key)'
    BY <2>6, <2>8 DEF AllRegistered, PagesAsked
  <2> QED
    BY <1>1, <2>4, <2>7, <2>8, <2>9 DEF SourceEvidence
<1>12. ASSUME NEW s \in Sources, sources'[s].status = "processed" PROVE SourceEvidence(s)'
  <2>1. CASE s = t
    BY <1>11, <2>1
  <2>2. CASE s # t
    BY <1>1, <1>3, <1>12, <2>2, OthersEvidence DEF Steps
  <2> QED
    BY <2>1, <2>2
<1> QED
  BY <1>1, <1>7, <1>9, <1>10, <1>12, EvidenceOwn DEF Writes, Steps

\* The event that is appended is the one the projections have shown.
LEMMA EvidenceAppend ==
  ASSUME TypeInv, MutualExclusion, LogInv, LatestInv, EvidenceInv,
         NEW p \in Procs, AppendChangeLog(p)
  PROVE  EvidenceInv'
<1>1. /\ pc[p] = "append-change-log" /\ pc'[p] = "complete" /\ job[p].kind \in {"ingest", "page"}
      /\ UNCHANGED <<job, cur, sources, pages, proj, ops>>
  BY DEF AppendChangeLog, At, Goto, TypeInv, TypeOK, WhereOK
<1>2. \A q \in Procs : q # p => pc'[q] \notin Steps
  BY WriterAlone DEF Writes
<1>3. cur[p] = Len(ops) /\ cur[p] # 0 /\ ops[cur[p]].key = job[p]
  BY <1>1, AtWorkIs DEF Steps
<1>4. WorkEvidence(p) /\ WorkShows(p)
  BY DEF EvidenceInv
<1>5. /\ RenderWikiLog(events)' = RenderWikiLog(events) \cup {LogEntry(NextSequence, cur[p])}
      /\ \A n : InLog(n)' <=> InLog(n) \/ n = cur[p]
  BY LogGrowsBy
<1>6. ASSUME NEW f \in Projections PROVE Shows(f, sources, {})'
  <2>1. proj[f] = [exists |-> TRUE, shown |-> Rendered(f, sources, pages, ProspectiveEntries(p))]
    BY <1>1, <1>4 DEF WorkShows, Shows
  <2>2. ProspectiveEntries(p) = {LogEntry(NextSequence, cur[p])}
    BY <1>1 DEF ProspectiveEntries
  <2>3. Rendered(f, sources, pages, {})' = Rendered(f, sources, pages, ProspectiveEntries(p))
    BY <1>1, <1>5, <2>2 DEF Rendered, Projections
  <2> QED
    BY <1>1, <2>1, <2>3 DEF Shows
<1>7. job[p].kind = "ingest" =>
        /\ sources[job[p].source].verified = cur[p] /\ sources[job[p].source].status = "processed"
        /\ PagesAsked(job[p]) /\ AllRegistered(job[p])
  BY <1>1, <1>4 DEF WorkEvidence, AfterRegistry, Steps
<1>8. \A q \in Procs : (WorkEvidence(q) /\ WorkShows(q))'
  <2>1. ASSUME NEW q \in Procs, pc'[q] \notin Steps PROVE (WorkEvidence(q) /\ WorkShows(q))'
    BY <2>1 DEF WorkEvidence, WorkShows, Steps, AfterRegistry
  <2>2. WorkEvidence(p)'
    BY <1>1, <1>7 DEF WorkEvidence, PagesAsked, AllRegistered
  <2>3. WorkShows(p)'
    BY <1>1, <1>6 DEF WorkShows
  <2> QED
    BY <1>2, <2>1, <2>2, <2>3
<1>9. LastLogged'
  BY <1>1, <1>3, <1>7, SMTT(40) DEF LastLogged, PagesAsked
<1>10. LastShown'
  BY <1>6 DEF LastShown
<1>11. (Len(ops) # 0 /\ ops[Len(ops)].key.kind = "ingest" =>
        StepEvidence(Len(ops), ops[Len(ops)].key, ops[Len(ops)].step))'
  <2> SUFFICES ASSUME job[p].kind = "ingest" PROVE StepEvidence(cur[p], job[p], ops[cur[p]].step)'
    BY <1>1, <1>3, SMTT(40) DEF StepEvidence, PagesAsked, InLog
  <2>1. ops[cur[p]].step = "append-change-log"
    BY <1>1, StepIsAt, SMTT(40) DEF AppendChangeLog, Steps
  <2> QED
    BY <1>1, <1>7, <2>1 DEF StepEvidence, PagesAsked
<1>12. ASSUME NEW s \in Sources, sources'[s].status = "processed" PROVE SourceEvidence(s)'
  <2>1. SourceEvidence(s)
    BY <1>1, <1>12 DEF EvidenceInv
  <2> QED
    BY <1>1, <2>1 DEF SourceEvidence, AllRegistered, PagesAsked
<1> QED
  BY <1>8, <1>9, <1>10, <1>11, <1>12 DEF EvidenceInv

\* One step of any process, the user or a fault keeps the evidence.
LEMMA EvidenceNext ==
  /\ TypeInv /\ MutualExclusion /\ LogInv /\ LatestInv /\ PlanInv /\ PayloadsOK /\ EvidenceInv
  /\ [Next]_vars
  => EvidenceInv'
BY StepKinds, EvidenceQuiet, EvidenceBegin, EvidencePending, EvidencePage, EvidencePageRegistry,
   EvidenceProjection, EvidenceProcessed, EvidenceAppend DEF Writes

\* A vault after `state init` has nothing to give evidence of.
LEMMA EvidenceInit == Init => LatestInv /\ PlanInv /\ PayloadsOK /\ LeadInv /\ EvidenceInv
<1> SUFFICES ASSUME Init PROVE LatestInv /\ PlanInv /\ PayloadsOK /\ LeadInv /\ EvidenceInv
  OBVIOUS
<1>1. /\ \A p \in Procs : pc[p] = "idle" /\ job[p] = NoJob
      /\ ops = <<>> /\ events = <<>> /\ DOMAIN ops = {} /\ DOMAIN events = {} /\ Len(ops) = 0
      /\ \A s \in Sources : sources[s].status = "none"
      /\ proj["wiki/log.md"].shown = {}
  BY DEF Init, NoProjection, NoSource, Projections
<1>2. PayloadsOK
  <2>1. NoJob.pages = <<>> /\ NoJob.kind = "none"
    BY DEF NoJob
  <2>2. DOMAIN NoJob.pages = {}
    BY <2>1
  <2> QED
    BY <1>1, <2>1, <2>2 DEF PayloadsOK
<1>3. RenderWikiLog(events) = {}
  BY <1>1 DEF RenderWikiLog
<1>4. LeadInv
  BY <1>1, <1>3 DEF LeadInv, LogProjectionLead, Ahead, ShownLog
<1>5. EvidenceInv
  BY <1>1 DEF EvidenceInv, WorkEvidence, WorkShows, LastLogged, LastShown, AfterRegistry, Steps
<1>6. LatestInv /\ PlanInv
  BY <1>1 DEF LatestInv, PlanInv, PlanHolds, BeforeRegistry, WhilePending, Steps
<1> QED
  BY <1>2, <1>4, <1>5, <1>6

\* What is on disk at every step of a transaction, and what the log, the step of
\* the last operation and the status of a source therefore stand for.
THEOREM EvidenceInvariant ==
  Spec => [](/\ TypeInv /\ MutualExclusion /\ LogInv /\ LatestInv /\ PlanInv /\ PayloadsOK
             /\ LeadInv /\ EvidenceInv)
<1>1. Init => MutualExclusion
  BY NamesAssumption DEF Init, MutualExclusion, Inside, Steps, Exits
<1> QED
  BY <1>1, TypeInit, LogInit, EvidenceInit, TypeNext, ExclusionNext, LogNext, LatestNext, PlanNext,
     PayloadsNext, LeadNext, EvidenceNext, PTL DEF Spec

\* wiki/log.md never misses an event, and is ahead of the log by the event of
\* one operation at most, which is not completed.
THEOREM LogLead == Spec => []LogProjectionLead
<1>1. LeadInv => LogProjectionLead
  BY DEF LeadInv
<1> QED
  BY <1>1, EvidenceInvariant, PTL

\* The step operations.json gives for the last operation tells what is on disk.
THEOREM StepEvident == Spec => []StepIsEvidence
<1>1. EvidenceInv => StepIsEvidence
  BY SMTT(40) DEF EvidenceInv, StepEvidence, StepIsEvidence, AfterRegistry, PagesAsked, InLog
<1> QED
  BY <1>1, EvidenceInvariant, PTL

\* A source is processed only once its pages are registered and the ingest
\* index shows it so.
THEOREM ProcessedEvident == Spec => []ProcessedIsEvidence
<1>1. EvidenceInv => ProcessedIsEvidence
  <2> SUFFICES ASSUME EvidenceInv, NEW s \in Sources, sources[s].status = "processed"
               PROVE  LET n == sources[s].verified
                          j == ops[n].key
                      IN  /\ n \in DOMAIN ops
                          /\ j.kind = "ingest" /\ j.source = s /\ j.version = sources[s].version
                          /\ \A a \in Targets(j) : pages[a].rev # 0
                          /\ n = Len(ops) =>
                               /\ \A i \in DOMAIN j.pages :
                                    pages[j.pages[i].path].content = [text |-> j.pages[i].text, srcs |-> {s}]
                               /\ [source |-> s, status |-> "processed", proxy |-> sources[s].proxy]
                                    \in proj["ingest/index.md"].shown
    BY DEF ProcessedIsEvidence
  <2>1. SourceEvidence(s)
    BY DEF EvidenceInv
  <2> DEFINE n == sources[s].verified
             j == ops[n].key
  <2>2. /\ n \in DOMAIN ops
        /\ j.kind = "ingest" /\ j.source = s /\ j.version = sources[s].version
        /\ AllRegistered(j)
        /\ n = Len(ops) =>
             /\ PagesAsked(j)
             /\ [source |-> s, status |-> "processed", proxy |-> sources[s].proxy]
                  \in proj["ingest/index.md"].shown
    BY <2>1, Zenon DEF SourceEvidence
  <2>3. \A a \in Targets(j) : pages[a].rev # 0
    BY <2>2, Zenon DEF AllRegistered
  <2>4. n = Len(ops) =>
          \A i \in DOMAIN j.pages :
            pages[j.pages[i].path].content = [text |-> j.pages[i].text, srcs |-> {s}]
    BY <2>2, Zenon DEF PagesAsked
  <2> QED
    BY <2>2, <2>3, <2>4, ZenonT(60)
<1> QED
  BY <1>1, EvidenceInvariant, PTL

\* When the last operation completed and nothing runs, the projections show
\* the registries and the log, whatever failed before.
THEOREM Current == Spec => []ProjectionsCurrent
<1>1. TypeInv /\ EvidenceInv => ProjectionsCurrent
  <2> SUFFICES ASSUME TypeInv, EvidenceInv, ops # <<>>, ops[Len(ops)].status = "completed"
               PROVE  \A f \in Projections :
                        proj[f] = [exists |-> TRUE, shown |-> Rendered(f, sources, pages, {})]
    BY DEF ProjectionsCurrent
  <2>1. Len(ops) # 0
    BY DEF TypeInv, TypeOK
  <2> QED
    BY <2>1 DEF EvidenceInv, LastShown, Shows
<1> QED
  BY <1>1, EvidenceInvariant, PTL

-----------------------------------------------------------------------------
(* As long as nobody edits a page, its file is what its record says, or the  *)
(* last operation on it has not reached the log.                             *)

AsRecorded(a) ==
  /\ Registered(a) => files[a].state = "managed" /\ files[a].content = pages[a].content
  /\ ~Registered(a) => files[a].state = "absent"

\* Operation n is the last one on page a.
LastOn(a, n) ==
  /\ n \in DOMAIN ops /\ a \in Targets(ops[n].key)
  /\ \A k \in DOMAIN ops : k > n => a \notin Targets(ops[k].key)

Owed(a) == \E n \in DOMAIN ops : LastOn(a, n) /\ ops[n].key.kind # "rebuild" /\ ~InLog(n)

\* The file of page i of the payload is the one that was planned, or the one
\* that was asked for.
AsPlanned(p, i) == files[job[p].pages[i].path] = plan[p].files[job[p].pages[i].path]
Written(p, i) ==
  LET m == job[p].pages[i]
  IN  files[m.path].state = "managed" /\ files[m.path].content = Wanted(job[p], m, plan[p].pages)

FileHolds(p, i) ==
  /\ pc[p] = "write-source-pending" => AsPlanned(p, i)
  /\ pc[p] = "write-pages" => IF i < at[p] THEN Written(p, i) ELSE AsPlanned(p, i)
  /\ pc[p] = "write-page-registry" => Written(p, i)
  /\ pc[p] \in AfterRegistry => AsRecorded(job[p].pages[i].path)

FilesInv ==
  edits = 0 =>
    /\ \A a \in Pages : Registered(a) => files[a].state = "managed"
    /\ \A a \in Pages : AsRecorded(a) \/ Owed(a)
    /\ \A p \in Procs : \A i \in DOMAIN job[p].pages : FileHolds(p, i)

\* Without failures every operation is completed, or somebody is at it.
AtWork(n) == \E p \in Procs : pc[p] \in Steps /\ cur[p] = n
Attended ==
  edits = 0 /\ faults = 0 => \A n \in DOMAIN ops : ops[n].status = "completed" \/ AtWork(n)

\* Whatever happens, the proxy of a processed source is registered, and nothing
\* is shown before there was an operation.
ProxiesRegistered ==
  \A s \in Sources : sources[s].status = "processed" =>
    sources[s].proxy \in Pages /\ Registered(sources[s].proxy)

NothingShown == ops = <<>> => \A f \in Projections : ~proj[f].exists

DoctorInv == FilesInv /\ Attended /\ ProxiesRegistered /\ NothingShown

-----------------------------------------------------------------------------
(* Files *)

\* What does not change when files, page registry and log stay.
LEMMA FilesStay ==
  ASSUME UNCHANGED <<files, pages, events>>, DOMAIN ops' = DOMAIN ops,
         \A n \in DOMAIN ops : ops'[n].key = ops[n].key
  PROVE  \A a : /\ Registered(a)' <=> Registered(a)
                /\ AsRecorded(a)' <=> AsRecorded(a)
                /\ Owed(a)' <=> Owed(a)
<1> TAKE a
<1>1. \A n : LastOn(a, n)' <=> LastOn(a, n)
  BY DEF LastOn, Targets
<1>2. \A n : InLog(n)' <=> InLog(n)
  BY DEF InLog
<1>3. Owed(a)' <=> Owed(a)
  BY <1>1, <1>2 DEF Owed
<1> QED
  BY <1>3 DEF Registered, AsRecorded

\* A step that writes nothing.
LEMMA FilesQuiet == ASSUME FilesInv, WritesNothing PROVE FilesInv'
<1> SUFFICES ASSUME edits' = 0
             PROVE  /\ \A a \in Pages : Registered(a)' => files'[a].state = "managed"
                    /\ \A a \in Pages : (AsRecorded(a) \/ Owed(a))'
                    /\ \A q \in Procs : \A i \in DOMAIN job'[q].pages : FileHolds(q, i)'
  BY DEF FilesInv
<1>1. /\ edits = 0 /\ UNCHANGED <<files, pages, events>> /\ DOMAIN ops' = DOMAIN ops
      /\ \A n \in DOMAIN ops : ops'[n].key = ops[n].key
      /\ \A q \in Procs : pc'[q] \in Steps => UNCHANGED <<pc[q], job[q], plan[q], cur[q], at[q]>>
  BY DEF WritesNothing
<1>2. \A a : /\ Registered(a)' <=> Registered(a)
             /\ AsRecorded(a)' <=> AsRecorded(a)
             /\ Owed(a)' <=> Owed(a)
  BY <1>1, FilesStay
<1>3. ASSUME NEW q \in Procs, NEW i \in DOMAIN job'[q].pages PROVE FileHolds(q, i)'
  <2>1. CASE pc'[q] \notin Steps
    BY <2>1 DEF FileHolds, Steps, AfterRegistry
  <2>2. CASE pc'[q] \in Steps
    <3>1. UNCHANGED <<pc[q], job[q], plan[q], cur[q], at[q]>>
      BY <1>1, <2>2
    <3>2. FileHolds(q, i)
      BY <1>1, <3>1 DEF FilesInv
    <3>3. AsPlanned(q, i)' <=> AsPlanned(q, i)
      BY <1>1, <3>1 DEF AsPlanned
    <3>4. Written(q, i)' <=> Written(q, i)
      BY <1>1, <3>1 DEF Written, Wanted
    <3>5. AsRecorded(job[q].pages[i].path)' <=> AsRecorded(job[q].pages[i].path)
      BY <1>1, <3>1 DEF AsRecorded, Registered
    <3> QED
      BY <1>1, <3>1, <3>2, <3>3, <3>4, <3>5 DEF FileHolds
  <2> QED
    BY <2>1, <2>2
<1> QED
  BY <1>1, <1>2, <1>3 DEF FilesInv

\* A process that writes is the only one at work: what it holds is all there
\* is to show of the files that are being written.
LEMMA FilesOwn ==
  ASSUME TypeInv, MutualExclusion, NEW p \in Procs, Writes(p),
         edits' = 0 => /\ \A a \in Pages : Registered(a)' => files'[a].state = "managed"
                       /\ \A a \in Pages : (AsRecorded(a) \/ Owed(a))'
                       /\ \A i \in DOMAIN job[p].pages : FileHolds(p, i)'
  PROVE  FilesInv'
<1>1. job' = job /\ \A q \in Procs : q # p => pc'[q] \notin Steps
  BY WriterAlone
<1>2. ASSUME NEW q \in Procs, q # p, NEW i \in DOMAIN job[q].pages PROVE FileHolds(q, i)'
  BY <1>1, <1>2 DEF FileHolds, Steps, AfterRegistry
<1> QED
  BY <1>1, <1>2 DEF FilesInv

\* Edits stay counted, and no writer edits.
LEMMA EditsStay == ASSUME NEW p \in Procs, Writes(p) PROVE edits' = edits /\ faults' = faults
BY DEF Writes, Begin, WriteSourcePending, SkipPage, ReplacePage, WritePageRegistry, WriteProjection,
   WriteSourceProcessed, AppendChangeLog, boundVars

\* The page of a payload is a page.
LEMMA PathIs ==
  ASSUME TypeInv, NEW p \in Procs, NEW i \in DOMAIN job[p].pages
  PROVE  job[p].pages[i].path \in Pages /\ job[p].pages[i].path \in Targets(job[p])
<1>1. job[p].pages \in Seq(Mutation)
  BY DEF TypeInv, TypeOK, Job
<1>2. job[p].pages[i] \in Mutation
  BY <1>1
<1> QED
  BY <1>2 DEF Mutation, Targets

\* A transaction that begins owes its pages, and finds their files as planned.
LEMMA FilesBegin ==
  ASSUME TypeInv, MutualExclusion, PayloadsOK, FilesInv, NEW p \in Procs, Begin(p)
  PROVE  FilesInv'
<1> DEFINE j == job[p]
<1>0. PICK n : n = Len(ops) + 1
  OBVIOUS
<1>1. /\ UNCHANGED <<files, pages, events, job, plan, edits>>
      /\ ops' = Append(ops, [key |-> j, status |-> "running", step |-> "start"])
      /\ Plan(j) = plan[p]
      /\ pc'[p] = FirstStep(j.kind) /\ at'[p] = 1 /\ j.kind \in Kinds
  BY DEF Begin, Goto, TypeInv, TypeOK, JobsOK, boundVars
<1>2. /\ ops \in Seq(Operation) /\ n \notin DOMAIN ops /\ n \in Nat
      /\ DOMAIN ops' = DOMAIN ops \cup {n} /\ \A k \in DOMAIN ops : k < n
      /\ \A k \in DOMAIN ops : ops'[k] = ops[k]
      /\ ops'[n].key = j
  BY <1>0, <1>1 DEF TypeInv, TypeOK
<1>3. ~InLog(n)' /\ \A k : InLog(k)' <=> InLog(k)
  BY <1>1, <1>2 DEF InLog, TypeInv, EventsOK
<1>4. SUFFICES ASSUME edits' = 0
               PROVE  /\ \A a \in Pages : Registered(a)' => files'[a].state = "managed"
                      /\ \A a \in Pages : (AsRecorded(a) \/ Owed(a))'
                      /\ \A i \in DOMAIN job[p].pages : FileHolds(p, i)'
  BY FilesOwn DEF Writes
<1>5. edits = 0
  BY <1>1, <1>4
<1>6. \A a \in Pages : Registered(a)' => files'[a].state = "managed"
  BY <1>1, <1>5 DEF FilesInv, Registered
<1>7. ASSUME NEW a \in Pages, a \in Targets(j) PROVE Owed(a)'
  <2>1. j.kind # "rebuild"
    BY <1>7 DEF PayloadsOK, Targets
  <2>2. LastOn(a, n)'
    BY <1>2, <1>7 DEF LastOn, Targets
  <2> QED
    BY <1>2, <1>3, <2>1, <2>2 DEF Owed
<1>8. ASSUME NEW a \in Pages, a \notin Targets(j) PROVE (AsRecorded(a) \/ Owed(a))'
  <2>1. AsRecorded(a) => AsRecorded(a)'
    BY <1>1 DEF AsRecorded, Registered
  <2>2. ASSUME Owed(a) PROVE Owed(a)'
    <3>1. PICK k \in DOMAIN ops : LastOn(a, k) /\ ops[k].key.kind # "rebuild" /\ ~InLog(k)
      BY <2>2 DEF Owed
    <3>2. LastOn(a, k)'
      <4>1. /\ k \in DOMAIN ops' /\ a \in Targets(ops'[k].key)
            /\ \A l \in DOMAIN ops' : l > k => a \notin Targets(ops'[l].key)
        BY <1>2, <1>8, <3>1 DEF LastOn
      <4> QED
        BY <4>1 DEF LastOn, Targets
    <3> QED
      BY <1>2, <1>3, <3>1, <3>2 DEF Owed
  <2> QED
    BY <1>5, <2>1, <2>2 DEF FilesInv
<1>9. ASSUME NEW i \in DOMAIN job[p].pages PROVE FileHolds(p, i)'
  <2>1. job[p].pages[i].path \in Pages /\ job[p].pages[i].path \in Targets(j)
    BY PathIs
  <2>2. AsPlanned(p, i)'
    <3>1. plan[p].files[job[p].pages[i].path] = files[job[p].pages[i].path]
      BY <1>1, <2>1 DEF Plan
    <3> QED
      BY <1>1, <3>1 DEF AsPlanned
  <2>3. i \in Nat /\ ~(i < 1)
    <3>1. job[p].pages \in Seq(Mutation)
      BY DEF TypeInv, TypeOK, Job
    <3> QED
      BY <3>1
  <2>4. j.kind # "rebuild"
    BY PayloadsOK DEF PayloadsOK
  <2>5. pc'[p] \in {"write-source-pending", "write-pages"}
    BY <1>1, <2>4 DEF FirstStep, Kinds
  <2> QED
    BY <1>1, <2>2, <2>3, <2>5 DEF FileHolds, AfterRegistry
<1> QED
  BY <1>6, <1>7, <1>8, <1>9

\* As long as the files and the page registry stay, the process goes on with
\* what it holds.
LEMMA FilesGoOn ==
  ASSUME TypeInv, MutualExclusion, PayloadsOK, FilesInv, NEW p \in Procs,
         \/ WriteSourcePending(p) \/ SkipPage(p) \/ WriteProjection(p) \/ WriteSourceProcessed(p)
  PROVE  FilesInv'
<1>1. UNCHANGED <<files, pages, events, ops, job, plan, edits>>
  BY DEF WriteSourcePending, SkipPage, WriteProjection, WriteSourceProcessed, vaultVars, boundVars
<1>2. SUFFICES ASSUME edits' = 0
               PROVE  /\ \A a \in Pages : Registered(a)' => files'[a].state = "managed"
                      /\ \A a \in Pages : (AsRecorded(a) \/ Owed(a))'
                      /\ \A i \in DOMAIN job[p].pages : FileHolds(p, i)'
  BY FilesOwn DEF Writes
<1>3. edits = 0 /\ DOMAIN ops' = DOMAIN ops /\ \A n \in DOMAIN ops : ops'[n].key = ops[n].key
  BY <1>1, <1>2
<1>4. \A a : /\ Registered(a)' <=> Registered(a)
             /\ AsRecorded(a)' <=> AsRecorded(a)
             /\ Owed(a)' <=> Owed(a)
  BY <1>1, <1>3, FilesStay
<1>5. ASSUME NEW i \in DOMAIN job[p].pages PROVE FileHolds(p, i)'
  <2>1. FileHolds(p, i)
    BY <1>3 DEF FilesInv
  <2>2. /\ AsPlanned(p, i)' <=> AsPlanned(p, i)
        /\ Written(p, i)' <=> Written(p, i)
        /\ AsRecorded(job[p].pages[i].path)' <=> AsRecorded(job[p].pages[i].path)
    BY <1>1 DEF AsPlanned, Written, Wanted, AsRecorded, Registered
  <2>3. i \in 1..Len(job[p].pages) /\ Len(job[p].pages) \in Nat
    <3>1. job[p].pages \in Seq(Mutation)
      BY DEF TypeInv, TypeOK, Job
    <3> QED
      BY <3>1
  <2>4. CASE WriteSourcePending(p)
    <3>1. pc[p] = "write-source-pending" /\ pc'[p] = "write-pages" /\ at'[p] = 1
      BY <2>4 DEF WriteSourcePending, At, Goto, TypeInv, TypeOK
    <3> QED
      BY <2>1, <2>2, <2>3, <3>1 DEF FileHolds, AfterRegistry
  <2>5. CASE SkipPage(p)
    <3>1. /\ pc[p] = "write-pages" /\ AfterPage(p)
          /\ PageUnchanged(PlannedContent(p), PlannedFile(p))
      BY <2>5 DEF SkipPage, At
    <3>2. i = at[p] => Written(p, i)
      BY <2>1, <3>1 DEF FileHolds, AsPlanned, Written, PageUnchanged, PlannedContent, PlannedFile, PageAt
    <3>3. /\ pc'[p] \in {"write-pages", "write-page-registry"} /\ at[p] \in Nat
          /\ pc'[p] = "write-pages" => at'[p] = at[p] + 1
          /\ pc'[p] = "write-page-registry" => at[p] = Len(job[p].pages)
      BY <3>1 DEF AfterPage, Goto, TypeInv, TypeOK
    <3> QED
      BY <1>1, <2>1, <2>2, <2>3, <3>1, <3>2, <3>3, SMTT(40) DEF FileHolds, AfterRegistry
  <2>6. CASE WriteProjection(p) \/ WriteSourceProcessed(p)
    <3>1. pc[p] \in AfterRegistry
      BY <2>6 DEF WriteProjection, WriteSourceProcessed, At, AfterRegistry
    <3>2. pc'[p] \in AfterRegistry
      <4>1. CASE WriteProjection(p)
        BY <4>1, NextProjectionType DEF AfterRegistry
      <4>2. CASE WriteSourceProcessed(p)
        BY <4>2 DEF WriteSourceProcessed, Goto, AfterRegistry, TypeInv, TypeOK
      <4> QED
        BY <2>6, <4>1, <4>2
    <3> QED
      BY <2>1, <2>2, <3>1, <3>2 DEF FileHolds, AfterRegistry
  <2> QED
    BY <2>4, <2>5, <2>6
<1> QED
  BY <1>1, <1>3, <1>4, <1>5 DEF FilesInv

\* The page that is replaced is owed by the operation that replaces it.
LEMMA FilesReplace ==
  ASSUME TypeInv, MutualExclusion, LogInv, LatestInv, PayloadsOK, FilesInv, NEW p \in Procs,
         ReplacePage(p)
  PROVE  FilesInv'
<1>0. PICK i, b : i = at[p] /\ b = PageAt(p).path
  OBVIOUS
<1>1. /\ UNCHANGED <<pages, events, ops, job, plan, edits, cur>> /\ AfterPage(p)
      /\ pc[p] = "write-pages"
      /\ files' = [files EXCEPT ![b] =
           [state |-> "managed", content |-> PlannedContent(p), note |-> PlannedFile(p).note]]
  BY <1>0 DEF ReplacePage, At, boundVars
<1>2. /\ i \in DOMAIN job[p].pages /\ b = job[p].pages[i].path
      /\ job[p].pages \in Seq(Mutation) /\ job[p].kind # "rebuild"
      /\ b \in Pages /\ b \in Targets(job[p])
  <2>1. i \in DOMAIN job[p].pages /\ job[p].pages \in Seq(Mutation)
    BY <1>0, <1>1 DEF TypeInv, TypeOK, WhereOK, Job
  <2>2. job[p].kind # "rebuild"
    BY <2>1 DEF PayloadsOK
  <2> QED
    BY <1>0, <2>1, <2>2, PathIs DEF PageAt
<1>3. SUFFICES ASSUME edits' = 0
               PROVE  /\ \A a \in Pages : Registered(a)' => files'[a].state = "managed"
                      /\ \A a \in Pages : (AsRecorded(a) \/ Owed(a))'
                      /\ \A k \in DOMAIN job[p].pages : FileHolds(p, k)'
  BY FilesOwn DEF Writes
<1>4. edits = 0 /\ files \in [Pages -> File]
  BY <1>1, <1>3 DEF TypeInv, TypeOK
<1>5. /\ \A a \in Pages : a # b => files'[a] = files[a]
      /\ files'[b].state = "managed" /\ files'[b].content = PlannedContent(p)
  BY <1>1, <1>2, <1>4
<1>6. \A a \in Pages : Registered(a)' => files'[a].state = "managed"
  BY <1>1, <1>4, <1>5 DEF FilesInv, Registered
<1>7. \A a : Owed(a)' <=> Owed(a)
  BY <1>1 DEF Owed, LastOn, InLog, Targets
<1>8. Owed(b)
  <2>1. /\ cur[p] = Len(ops) /\ cur[p] \in DOMAIN ops /\ ops[cur[p]].key = job[p] /\ ~InLog(cur[p])
    BY <1>1, AtWorkIs DEF Steps
  <2>2. ops \in Seq(Operation)
    BY DEF TypeInv, TypeOK
  <2>3. \A k \in DOMAIN ops : ~(k > cur[p])
    BY <2>1, <2>2
  <2> QED
    BY <1>2, <2>1, <2>3 DEF Owed, LastOn
<1>9. ASSUME NEW a \in Pages, a # b PROVE (AsRecorded(a) \/ Owed(a))'
  <2>1. AsRecorded(a)' <=> AsRecorded(a)
    BY <1>1, <1>5, <1>9 DEF AsRecorded, Registered
  <2> QED
    BY <1>4, <1>7, <2>1 DEF FilesInv
<1>10. ASSUME NEW k \in DOMAIN job[p].pages PROVE FileHolds(p, k)'
  <2>1. FileHolds(p, k)
    BY <1>4 DEF FilesInv
  <2>2. k \in 1..Len(job[p].pages) /\ Len(job[p].pages) \in Nat /\ i \in Nat
    BY <1>2, SMTT(40)
  <2>3. k # i => /\ AsPlanned(p, k)' <=> AsPlanned(p, k)
                 /\ Written(p, k)' <=> Written(p, k)
    <3>1. k # i => job[p].pages[k].path # b
      BY <1>2 DEF PayloadsOK
    <3>2. job[p].pages[k].path \in Pages
      BY PathIs
    <3>3. k # i => files'[job[p].pages[k].path] = files[job[p].pages[k].path]
      BY <1>5, <3>1, <3>2, SMTT(40)
    <3> QED
      BY <1>1, <3>3, ZenonT(60) DEF AsPlanned, Written, Wanted
  <2>4. Written(p, i)'
    BY <1>0, <1>1, <1>2, <1>5 DEF Written, Wanted, PlannedContent, PageAt
  <2>5. /\ pc'[p] \in {"write-pages", "write-page-registry"}
        /\ pc'[p] = "write-pages" => at'[p] = i + 1
        /\ pc'[p] = "write-page-registry" => i = Len(job[p].pages)
    BY <1>0, <1>1 DEF AfterPage, Goto, TypeInv, TypeOK
  <2>6. pc[p] = "write-pages" => IF k < i THEN Written(p, k) ELSE AsPlanned(p, k)
    BY <1>0, <2>1 DEF FileHolds
  <2>7. k < i \/ k = i \/ k > i
    BY <2>2
  <2>8. k <= i => Written(p, k)'
    <3>1. CASE k = i
      BY <2>4, <3>1
    <3>2. CASE k # i /\ k < i
      BY <1>1, <2>3, <2>6, <3>2
    <3> QED
      BY <2>2, <3>1, <3>2
  <2>9. k > i => AsPlanned(p, k)'
    BY <1>1, <2>2, <2>3, <2>6
  <2> QED
    BY <2>2, <2>5, <2>8, <2>9 DEF FileHolds, AfterRegistry
<1> QED
  BY <1>6, <1>7, <1>8, <1>9, <1>10

\* The records that are written tell of the files that were.
LEMMA FilesRegister ==
  ASSUME TypeInv, MutualExclusion, LogInv, LatestInv, PlanInv, PayloadsOK, FilesInv, NEW p \in Procs,
         WritePageRegistry(p)
  PROVE  FilesInv'
<1> DEFINE j == job[p]
           pgs == plan[p].pages
           fs == plan[p].files
<1>1. /\ UNCHANGED <<files, events, ops, job, plan, edits, cur>>
      /\ pc[p] = "write-page-registry" /\ pc'[p] = "write-projections"
      /\ pages' = RecordsAfter(j, pgs, fs)
  BY DEF WritePageRegistry, At, Goto, TypeInv, TypeOK, boundVars
<1>2. SUFFICES ASSUME edits' = 0
               PROVE  /\ \A a \in Pages : Registered(a)' => files'[a].state = "managed"
                      /\ \A a \in Pages : (AsRecorded(a) \/ Owed(a))'
                      /\ \A i \in DOMAIN job[p].pages : FileHolds(p, i)'
  BY FilesOwn DEF Writes
<1>3. edits = 0 /\ j \in Job /\ pgs \in [Pages -> PageRecord] /\ fs \in [Pages -> File]
  BY <1>1, <1>2, SMTT(40) DEF TypeInv, TypeOK, PlanRecord
<1>4. /\ j.kind # "rebuild" /\ pages = pgs
      /\ \A i \in DOMAIN j.pages :
           ~PageConflict(j.pages[i], fs[j.pages[i].path], pgs[j.pages[i].path])
      /\ \A i, k \in DOMAIN j.pages : j.pages[i].path = j.pages[k].path => i = k
  <2>1. j.kind # "rebuild"
    BY <1>1, SMTT(40) DEF TypeInv, WhereOK
  <2> QED
    BY <1>1, <2>1 DEF PlanInv, PlanHolds, BeforeRegistry, PayloadsOK
<1>5. ASSUME NEW i \in DOMAIN j.pages
      PROVE  /\ pages'[j.pages[i].path].rev # 0
             /\ files'[j.pages[i].path].state = "managed"
             /\ files'[j.pages[i].path].content = pages'[j.pages[i].path].content
  <2>1. /\ RecordsAfter(j, pgs, fs)[j.pages[i].path].rev # 0
        /\ RecordsAfter(j, pgs, fs)[j.pages[i].path].content = Wanted(j, j.pages[i], pgs)
    <3> HIDE DEF j, pgs, fs
    <3> QED
      BY <1>3, <1>4, <1>5, RecordsAsked
  <2>2. Written(p, i)
    BY <1>1, <1>3, SMTT(40) DEF FilesInv, FileHolds
  <2> QED
    BY <1>1, <2>1, <2>2 DEF Written
<1>6. ASSUME NEW i \in DOMAIN j.pages PROVE AsRecorded(j.pages[i].path)'
  BY <1>1, <1>5, <1>6 DEF AsRecorded, Registered
<1>7. \A a \in Pages : a \notin Targets(j) => pages'[a] = pages[a]
  BY <1>1, <1>4 DEF RecordsAfter
<1>8. ASSUME NEW a \in Pages
      PROVE  (Registered(a)' => files'[a].state = "managed") /\ (AsRecorded(a) \/ Owed(a))'
  <2>1. CASE a \in Targets(j)
    BY <1>5, <2>1 DEF Targets, AsRecorded, Registered
  <2>2. CASE a \notin Targets(j)
    <3>1. /\ Registered(a)' <=> Registered(a)
          /\ AsRecorded(a)' <=> AsRecorded(a)
          /\ Owed(a)' <=> Owed(a)
      BY <1>1, <1>7, <2>2, SMTT(40) DEF Registered, AsRecorded, Owed, LastOn, InLog, Targets
    <3> QED
      BY <1>1, <1>3, <3>1 DEF FilesInv
  <2> QED
    BY <2>1, <2>2
<1>9. ASSUME NEW i \in DOMAIN j.pages PROVE FileHolds(p, i)'
  BY <1>1, <1>6, <1>9 DEF FileHolds, AfterRegistry, AsRecorded, Registered
<1> QED
  BY <1>8, <1>9

\* An event is appended when the pages of its payload are as recorded.
LEMMA FilesAppend ==
  ASSUME TypeInv, MutualExclusion, LogInv, LatestInv, FilesInv, NEW p \in Procs, AppendChangeLog(p)
  PROVE  FilesInv'
<1>1. /\ UNCHANGED <<files, pages, ops, job, edits>>
      /\ pc[p] = "append-change-log" /\ pc'[p] = "complete"
  BY DEF AppendChangeLog, At, Goto, TypeInv, TypeOK, boundVars
<1>2. SUFFICES ASSUME edits' = 0
               PROVE  /\ \A a \in Pages : Registered(a)' => files'[a].state = "managed"
                      /\ \A a \in Pages : (AsRecorded(a) \/ Owed(a))'
                      /\ \A i \in DOMAIN job[p].pages : FileHolds(p, i)'
  BY FilesOwn DEF Writes
<1>3. edits = 0 /\ cur[p] \in DOMAIN ops /\ ops[cur[p]].key = job[p]
  BY <1>1, <1>2, AtWorkIs DEF Steps
<1>4. \A n : InLog(n)' <=> InLog(n) \/ n = cur[p]
  BY LogGrowsBy
<1>5. \A a : AsRecorded(a)' <=> AsRecorded(a)
  BY <1>1 DEF AsRecorded, Registered
<1>6. \A i \in DOMAIN job[p].pages : AsRecorded(job[p].pages[i].path)
  BY <1>1, <1>3 DEF FilesInv, FileHolds, AfterRegistry
<1>7. ASSUME NEW a \in Pages PROVE (AsRecorded(a) \/ Owed(a))'
  <2>1. CASE AsRecorded(a)
    BY <1>5, <2>1
  <2>2. CASE Owed(a)
    <3>1. PICK n \in DOMAIN ops : LastOn(a, n) /\ ops[n].key.kind # "rebuild" /\ ~InLog(n)
      BY <2>2 DEF Owed
    <3>2. CASE n = cur[p]
      BY <1>3, <1>5, <1>6, <3>1, <3>2 DEF LastOn, Targets
    <3>3. CASE n # cur[p]
      <4>1. LastOn(a, n)' /\ ~InLog(n)'
        BY <1>1, <1>4, <3>1, <3>3 DEF LastOn, Targets
      <4> QED
        BY <1>1, <3>1, <4>1 DEF Owed
    <3> QED
      BY <3>2, <3>3
  <2> QED
    BY <1>3, <2>1, <2>2 DEF FilesInv
<1>8. ASSUME NEW i \in DOMAIN job[p].pages PROVE FileHolds(p, i)'
  <2>1. PICK a : a = job[p].pages[i].path
    OBVIOUS
  <2>2. AsRecorded(a)'
    BY <1>5, <1>6, <2>1
  <2>3. AsRecorded(job[p].pages[i].path)'
    BY <1>1, <2>1, <2>2
  <2> QED
    BY <1>1, <2>3 DEF FileHolds
<1> QED
  BY <1>1, <1>3, <1>7, <1>8 DEF FilesInv, Registered

\* One step of any process, the user or a fault keeps files and records related.
LEMMA FilesNext ==
  /\ TypeInv /\ MutualExclusion /\ LogInv /\ LatestInv /\ PlanInv /\ PayloadsOK /\ FilesInv
  /\ [Next]_vars
  => FilesInv'
BY StepKinds, FilesQuiet, FilesBegin, FilesGoOn, FilesReplace, FilesRegister, FilesAppend DEF Writes

-----------------------------------------------------------------------------
(* Operations, proxies, projections *)

\* What keeps every operation attended: who is at one stays there or completes
\* it, and a completed one stays so.
LEMMA AttendedQuiet ==
  ASSUME Attended, edits' = 0 /\ faults' = 0 => edits = 0 /\ faults = 0,
         DOMAIN ops' = DOMAIN ops,
         \A n \in DOMAIN ops : ops[n].status = "completed" => ops'[n].status = "completed",
         \A q \in Procs : pc[q] \in Steps =>
           (pc'[q] \in Steps /\ cur'[q] = cur[q]) \/ ops'[cur[q]].status = "completed"
  PROVE  Attended'
BY DEF Attended, AtWork

\* Without failure and edit, one step leaves no operation alone.
LEMMA AttendedNext ==
  TypeInv /\ MutualExclusion /\ LogInv /\ LatestInv /\ FilesInv /\ Attended /\ [Next]_vars => Attended'
<1> SUFFICES ASSUME TypeInv, MutualExclusion, LogInv, LatestInv, FilesInv, Attended, [Next]_vars
             PROVE  Attended'
  OBVIOUS
<1> USE DEF procVars, vaultVars, boundVars
<1>0. /\ pc \in [Procs -> {"idle", "waiting"} \cup Inside] /\ cur \in [Procs -> Nat]
      /\ ops \in Seq(Operation) /\ edits \in Nat /\ faults \in Nat
  BY DEF TypeInv, TypeOK
<1>1. ASSUME NEW p \in Procs,
             \/ \E r \in Requests : Draft(p, r)
             \/ Preview(p) \/ Submit(p) \/ Acquire(p) \/ Timeout(p) \/ Refuse(p)
             \/ Release(p) \/ CheckPage(p)
      PROVE  Attended'
  <2>1. ops' = ops /\ UNCHANGED <<edits, faults>>
    BY <1>1 DEF Draft, Preview, Submit, Acquire, Timeout, Refuse, Release, CheckPage
  <2>2. ASSUME NEW q \in Procs, pc[q] \in Steps PROVE pc'[q] \in Steps /\ cur'[q] = cur[q]
    <3>1. CASE \E r \in Requests : Draft(p, r)
      BY <2>2, <3>1 DEF Draft
    <3>2. CASE Preview(p) \/ CheckPage(p)
      BY <2>2, <3>2 DEF Preview, CheckPage
    <3>3. CASE Submit(p) \/ Acquire(p) \/ Timeout(p) \/ Refuse(p)
      BY <1>0, <2>2, <3>3 DEF Submit, Acquire, Timeout, Refuse, Steps
    <3>4. CASE Release(p)
      BY <1>0, <2>2, <3>4 DEF Release, Exits, Steps
    <3> QED
      BY <1>1, <3>1, <3>2, <3>3, <3>4
  <2> QED
    BY <2>1, <2>2, AttendedQuiet
<1>2. ASSUME NEW p \in Procs, AlreadyDone(p) PROVE Attended'
  <2>1. PICK i \in Completions(job[p]) :
          ops' = update_operation(events[i].op, "completed", "complete") \/ ops' = ops
    BY <1>2 DEF AlreadyDone
  <2>2. events[i].op \in DOMAIN ops
    BY <2>1 DEF Completions, TypeInv, EventsOK
  <2>3. /\ UNCHANGED <<edits, faults, cur>>
        /\ \A q \in Procs : pc[q] \in Steps => pc'[q] = pc[q]
    BY <1>0, <1>2 DEF AlreadyDone, Steps
  <2>4. CASE ops' = ops
    BY <2>3, <2>4, AttendedQuiet
  <2>5. CASE ops' = update_operation(events[i].op, "completed", "complete")
    <3>1. /\ DOMAIN ops' = DOMAIN ops /\ ops'[events[i].op].status = "completed"
          /\ \A k \in DOMAIN ops : k # events[i].op => ops'[k] = ops[k]
      BY <1>0, <2>2, <2>5, UpdateOperation DEF Steps
    <3> QED
      BY <2>3, <3>1, AttendedQuiet
  <2> QED
    BY <2>1, <2>4, <2>5
<1>3. ASSUME NEW p \in Procs, Enter(p) \/ Complete(p) PROVE Attended'
  <2>1. /\ pc[p] \in Steps /\ cur[p] \in DOMAIN ops /\ ops[cur[p]].status = "running"
        /\ UNCHANGED <<edits, faults, cur>>
    BY <1>3, AtWorkIs DEF Enter, Complete, At, Steps
  <2>2. \A q \in Procs : q # p => pc[q] \notin Steps
    BY <2>1, OthersOut DEF Inside
  <2>3. PICK status \in {"running", "completed"} :
          /\ ops' = update_operation(cur[p], status, pc[p])
          /\ status = "completed" \/ pc'[p] = pc[p]
    BY <1>3 DEF Enter, Complete, At
  <2>4. /\ DOMAIN ops' = DOMAIN ops /\ ops'[cur[p]].status = status
        /\ \A k \in DOMAIN ops : k # cur[p] => ops'[k] = ops[k]
    BY <1>0, <2>1, <2>3, UpdateOperation
  <2>5. \A n \in DOMAIN ops : ops[n].status = "completed" => ops'[n].status = "completed"
    BY <2>1, <2>4
  <2> QED
    BY <2>1, <2>2, <2>3, <2>4, <2>5, AttendedQuiet
<1>4. ASSUME NEW p \in Procs, PageChanged(p) PROVE Attended'
  <2>1. edits # 0
    <3>1. /\ pc[p] = "write-pages" /\ at[p] \in DOMAIN job[p].pages /\ at[p] \in Nat
          /\ files[PageAt(p).path] # PlannedFile(p)
      BY <1>4 DEF PageChanged, At, TypeInv, TypeOK, WhereOK
    <3>2. ~(at[p] < at[p])
      BY <3>1
    <3> QED
      BY <3>1, <3>2 DEF FilesInv, FileHolds, AsPlanned, PageAt, PlannedFile
  <2> QED
    BY <1>4, <2>1, SMTT(40) DEF PageChanged, Attended
<1>5. ASSUME NEW p \in Procs, FailBegin(p) \/ Fail(p) \/ Crash(p) PROVE Attended'
  <2>1. faults' = faults + 1
    BY <1>5 DEF FailBegin, Fail, Crash
  <2> QED
    BY <1>0, <2>1 DEF Attended
<1>6. CASE (\E s \in Sources : EditSource(s)) \/ (\E a \in Pages : EditPage(a))
  <2>1. edits' = edits + 1
    BY <1>6 DEF EditSource, EditPage
  <2> QED
    BY <1>0, <2>1 DEF Attended
<1>7. CASE IsolateLock \/ UNCHANGED vars
  BY <1>7 DEF IsolateLock, vars, Attended, AtWork
<1>8. ASSUME NEW p \in Procs, Begin(p) PROVE Attended'
  <2>0. PICK n : n = Len(ops) + 1
    OBVIOUS
  <2>1. /\ DOMAIN ops' = DOMAIN ops \cup {n} /\ \A k \in DOMAIN ops : ops'[k] = ops[k]
        /\ pc'[p] = FirstStep(job[p].kind) /\ cur'[p] = n /\ job[p].kind \in Kinds
        /\ UNCHANGED <<edits, faults>>
        /\ \A q \in Procs : pc[q] \in Steps => pc'[q] = pc[q] /\ cur'[q] = cur[q]
    BY <1>0, <1>8, <2>0, SMTT(40) DEF Begin, Goto, Steps, TypeInv, TypeOK, JobsOK
  <2>2. AtWork(n)'
    BY <2>1 DEF AtWork, FirstStep, Kinds, Steps
  <2>3. ASSUME NEW k \in DOMAIN ops, AtWork(k) PROVE AtWork(k)'
    BY <2>1, <2>3 DEF AtWork
  <2> QED
    BY <2>1, <2>2, <2>3 DEF Attended
<1>9. ASSUME NEW p \in Procs, Writes(p), ~Begin(p) PROVE Attended'
  <2>1. /\ ops' = ops /\ cur' = cur /\ UNCHANGED <<edits, faults>>
        /\ \A q \in Procs : q # p => pc[q] \notin Steps
    BY <1>9, WriterAlone, EditsStay
  <2>2. pc'[p] \in Steps
    <3>1. CASE SkipPage(p) \/ ReplacePage(p)
      BY <3>1, AfterPageType DEF SkipPage, ReplacePage, At, Steps
    <3>2. CASE WriteProjection(p)
      BY <3>2, NextProjectionType DEF Steps
    <3>3. CASE \/ WriteSourcePending(p) \/ WritePageRegistry(p) \/ WriteSourceProcessed(p)
               \/ AppendChangeLog(p)
      BY <1>0, <3>3 DEF WriteSourcePending, WritePageRegistry, WriteSourceProcessed,
         AppendChangeLog, Goto, Steps
    <3> QED
      BY <1>9, <3>1, <3>2, <3>3 DEF Writes
  <2> QED
    BY <2>1, <2>2, AttendedQuiet
<1> QED
  BY <1>1, <1>2, <1>3, <1>4, <1>5, <1>6, <1>7, <1>8, <1>9 DEF Next, User, Advance, PageStep, Fault, Writes

\* A source is processed when its pages are registered, and they stay so.
LEMMA ProxiesNext ==
  /\ TypeInv /\ MutualExclusion /\ LogInv /\ LatestInv /\ PlanInv /\ PayloadsOK /\ EvidenceInv
  /\ ProxiesRegistered /\ [Next]_vars
  => ProxiesRegistered'
<1> SUFFICES ASSUME TypeInv, MutualExclusion, LogInv, LatestInv, PlanInv, PayloadsOK, EvidenceInv,
                    ProxiesRegistered, [Next]_vars,
                    NEW s \in Sources, sources'[s].status = "processed"
             PROVE  sources'[s].proxy \in Pages /\ pages'[sources'[s].proxy].rev # 0
  BY DEF ProxiesRegistered, Registered
<1>1. \A a \in Pages : pages[a].rev # 0 => pages'[a].rev # 0
  <2>1. \A a \in Pages : pages'[a].rev >= pages[a].rev /\ pages[a].rev \in Nat /\ pages'[a].rev \in Nat
    BY RevisionsNext, TypeNext DEF RecordsAdvanced, TypeInv, TypeOK, PageRecord
  <2> QED
    BY <2>1
<1>2. CASE sources'[s] = sources[s]
  BY <1>1, <1>2 DEF ProxiesRegistered, Registered
<1>3. ASSUME NEW p \in Procs, WriteSourcePending(p) PROVE sources'[s] = sources[s]
  <2>1. /\ sources' = SourcesWith(job[p], sources, "pending", cur[p])
        /\ job[p] \in Job /\ job[p].source \in Sources /\ sources \in [Sources -> SourceRecord]
    BY <1>3 DEF WriteSourcePending, At, TypeInv, TypeOK, JobsOK, WhereOK
  <2>2. /\ sources'[job[p].source].status = "pending"
        /\ \A t \in Sources : t # job[p].source => sources'[t] = sources[t]
    BY <2>1, SourcesWithIs
  <2> QED
    BY <2>2
<1>4. ASSUME NEW p \in Procs, WriteSourceProcessed(p), sources'[s] # sources[s]
      PROVE  sources'[s].proxy \in Pages /\ pages[sources'[s].proxy].rev # 0
  <2>1. /\ pc[p] = "write-source-processed" /\ job[p].kind = "ingest"
        /\ sources' = SourcesWith(job[p], plan[p].sources, "processed", cur[p])
    BY <1>4 DEF WriteSourceProcessed, At, TypeInv, WhereOK
  <2>2. /\ job[p].source \in Sources /\ job[p] \in Job
        /\ sources = SourcesWith(job[p], plan[p].sources, "pending", cur[p])
        /\ plan[p].sources \in [Sources -> SourceRecord]
    BY <2>1, PendingIs DEF WhilePending
  <2>3. \A t \in Sources : t # job[p].source => sources'[t] = sources[t]
    <3>1. \A t \in Sources : t # job[p].source => sources[t] = plan[p].sources[t]
      BY <2>2, SourcesWithIs
    <3>2. \A t \in Sources : t # job[p].source => sources'[t] = plan[p].sources[t]
      BY <2>1, <2>2, SourcesWithIs
    <3> QED
      BY <3>1, <3>2
  <2>4. s = job[p].source /\ sources'[s].proxy = job[p].proxy
    <3>1. s = job[p].source
      BY <1>4, <2>3
    <3>2. sources'[job[p].source].proxy = job[p].proxy
      BY <2>1, <2>2, SourcesWithIs
    <3> QED
      BY <3>1, <3>2
  <2>5. job[p].proxy \in Targets(job[p]) /\ AllRegistered(job[p])
    BY <2>1 DEF PayloadsOK, EvidenceInv, WorkEvidence, AfterRegistry
  <2>6. \A i \in DOMAIN job[p].pages : job[p].pages[i].path \in Pages
    BY PathIs
  <2> QED
    BY <2>4, <2>5, <2>6 DEF AllRegistered, Targets
<1>5. \/ sources'[s] = sources[s]
      \/ \E p \in Procs : WriteSourcePending(p) \/ WriteSourceProcessed(p)
  BY StepKinds DEF WritesNothing, Writes, Begin, SkipPage, ReplacePage, WritePageRegistry,
     WriteProjection, AppendChangeLog, vaultVars
<1> QED
  BY <1>1, <1>2, <1>3, <1>4, <1>5

\* Only an operation writes projections.
LEMMA ShownNext ==
  TypeInv /\ MutualExclusion /\ NothingShown /\ [Next]_vars => NothingShown'
<1> SUFFICES ASSUME TypeInv, MutualExclusion, NothingShown, [Next]_vars, ops' = <<>>
             PROVE  \A f \in Projections : ~proj'[f].exists
  BY DEF NothingShown
<1>0. ops \in Seq(Operation) /\ DOMAIN ops' = {} /\ Len(ops') = 0
  BY DEF TypeInv, TypeOK
<1>1. CASE WritesNothing
  BY <1>0, <1>1 DEF WritesNothing, NothingShown
<1>2. ASSUME NEW p \in Procs, Begin(p) PROVE FALSE
  <2>1. PICK e : ops' = Append(ops, e)
    BY <1>2 DEF Begin
  <2>2. Len(ops') = Len(ops) + 1 /\ Len(ops) \in Nat
    BY <1>0, <2>1
  <2> QED
    BY <1>0, <2>2
<1>3. ASSUME NEW p \in Procs, Writes(p), ~Begin(p) PROVE FALSE
  BY <1>0, <1>3, WriterAlone DEF TypeInv, WhereOK
<1> QED
  BY <1>1, <1>2, <1>3, StepKinds

\* Nothing is written yet after `state init`.
LEMMA DoctorInit == Init => DoctorInv
<1> SUFFICES ASSUME Init PROVE DoctorInv
  OBVIOUS
<1>1. /\ \A p \in Procs : pc[p] = "idle"
      /\ ops = <<>> /\ DOMAIN ops = {}
      /\ \A a \in Pages : pages[a].rev = 0 /\ files[a].state = "absent"
      /\ \A s \in Sources : sources[s].status = "none"
      /\ \A f \in Projections : ~proj[f].exists
  BY DEF Init, NoPage, AbsentFile, NoSource, NoProjection
<1> QED
  BY <1>1 DEF DoctorInv, FilesInv, AsRecorded, Registered, FileHolds, AfterRegistry, Attended,
     ProxiesRegistered, NothingShown

\* How files, records, operations, sources and projections are related, as long
\* as nobody edits a page and, for the operations, nothing fails.
THEOREM DoctorInvariant == Spec => []DoctorInv
<1>1. /\ /\ TypeInv /\ MutualExclusion /\ LogInv /\ LatestInv /\ PlanInv /\ PayloadsOK /\ EvidenceInv
         /\ DoctorInv
      /\ [Next]_vars
      => DoctorInv'
  BY FilesNext, AttendedNext, ProxiesNext, ShownNext DEF DoctorInv
<1> QED
  BY <1>1, DoctorInit, EvidenceInvariant, PTL DEF Spec

-----------------------------------------------------------------------------
(* Findings *)

\* Doctor has nothing to say of a page whose file is as recorded.
LEMMA AsRecordedIsQuiet ==
  ASSUME NEW a \in Pages, AsRecorded(a)
  PROVE  /\ Registered(a) => RegisteredPageIssues(a) = {}
         /\ ~Registered(a) => UnregisteredPageIssues(a) = {}
BY DEF AsRecorded, RegisteredPageIssues, UnregisteredPageIssues

\* A finding names the page it is about.
LEMMA PageIssueIs ==
  ASSUME NEW issue \in PageIssues
  PROVE  \E a \in Pages : issue.about = <<a>> /\ ~AsRecorded(a)
<1>1. PICK a \in Pages :
        issue \in IF Registered(a) THEN RegisteredPageIssues(a) ELSE UnregisteredPageIssues(a)
  BY DEF PageIssues
<1>2. ~AsRecorded(a)
  BY <1>1, AsRecordedIsQuiet
<1>3. \E check : issue = Issue(check, <<a>>)
  BY <1>1 DEF RegisteredPageIssues, UnregisteredPageIssues
<1> QED
  BY <1>2, <1>3 DEF Issue

\* A processed source has its proxy registered, and its file as recorded or owed.
LEMMA NoSourceIssues ==
  ASSUME DoctorInv, edits = 0 PROVE SourceIssues = {}
BY DEF DoctorInv, FilesInv, ProxiesRegistered, SourceIssues

\* A projection that differs from what it shows comes of an operation that is
\* not completed.
LEMMA NoProjectionIssues ==
  ASSUME TypeInv, EvidenceInv, DoctorInv, ops # <<>> => ops[Len(ops)].status = "completed"
  PROVE  ProjectionIssues = {}
<1>1. CASE ops = <<>>
  BY <1>1 DEF DoctorInv, NothingShown, ProjectionIssues
<1>2. CASE ops # <<>>
  <2>1. Len(ops) # 0
    BY <1>2 DEF TypeInv, TypeOK
  <2>2. \A f \in Projections : Shows(f, sources, {})
    BY <1>2, <2>1 DEF EvidenceInv, LastShown
  <2>3. ASSUME NEW f \in Projections PROVE proj[f].shown = Rendered(f, sources, pages, {})
    <3>1. PICK shown : shown = Rendered(f, sources, pages, {})
      OBVIOUS
    <3>2. proj[f] = [exists |-> TRUE, shown |-> shown]
      BY <2>2, <3>1 DEF Shows
    <3> QED
      BY <3>1, <3>2
  <2> QED
    BY <2>3 DEF ProjectionIssues
<1> QED
  BY <1>1, <1>2

\* A completed operation has its event.
LEMMA NoMissingEvents ==
  ASSUME LogInv, NEW issue \in OperationIssues PROVE issue.check # "missing-completion-event"
BY DEF LogInv, CompletedIsLogged, OperationIssues, Issue, Audited, HasEvent

\* Between commands of a vault that nobody edited, Doctor reports a page only if
\* the last operation on it is not completed, a projection only if the last of
\* all is not, and a source or a missing event never.
THEOREM Explained == Spec => []FindingsAreExplained
<1>1. TypeInv /\ LogInv /\ EvidenceInv /\ DoctorInv => FindingsAreExplained
  <2> SUFFICES ASSUME TypeInv, LogInv, EvidenceInv, DoctorInv, edits = 0 PROVE FindingsAreExplained
    BY DEF FindingsAreExplained
  <2>1. ASSUME NEW a \in Pages, ~AsRecorded(a)
        PROVE  \E n \in DOMAIN ops : LastOn(a, n) /\ ops[n].status # "completed"
    <3>1. PICK n \in DOMAIN ops : LastOn(a, n) /\ ops[n].key.kind # "rebuild" /\ ~InLog(n)
      BY <2>1 DEF DoctorInv, FilesInv, Owed
    <3> QED
      BY <3>1 DEF LogInv, CompletedIsLogged, InLog
  <2>2. ASSUME NEW a \in Pages, NEW n \in DOMAIN ops, a \in Targets(ops[n].key),
               ops[n].status = "completed",
               \A k \in n + 1 .. Len(ops) : a \notin Targets(ops[k].key),
               NEW issue \in PageIssues
        PROVE  issue.about # <<a>>
    <3>1. SUFFICES ASSUME ~AsRecorded(a) PROVE FALSE
      BY PageIssueIs
    <3>2. PICK k \in DOMAIN ops : LastOn(a, k) /\ ops[k].status # "completed"
      BY <2>1, <3>1
    <3>3. k # n /\ ~(n > k)
      BY <2>2, <3>2 DEF LastOn
    <3>4. ops \in Seq(Operation)
      BY DEF TypeInv, TypeOK
    <3>5. k \in n + 1 .. Len(ops)
      BY <3>3, <3>4
    <3> QED
      BY <2>2, <3>2, <3>5 DEF LastOn
  <2>3. ASSUME NEW issue \in PageIssues
        PROVE  \E n \in DOMAIN ops :
                 ops[n].status # "completed" /\ issue.about[1] \in Targets(ops[n].key)
    <3>1. PICK a \in Pages : issue.about = <<a>> /\ ~AsRecorded(a)
      BY PageIssueIs
    <3>2. issue.about[1] = a
      BY <3>1
    <3> QED
      BY <2>1, <3>1, <3>2 DEF LastOn
  <2>4. ProjectionIssues # {} => ops[Len(ops)].status # "completed"
    BY NoProjectionIssues
  <2> QED
    BY <2>2, <2>3, <2>4, NoSourceIssues, NoMissingEvents DEF FindingsAreExplained
<1> QED
  BY <1>1, DoctorInvariant, EvidenceInvariant, PTL

\* Between commands of a vault that nobody edited and where nothing failed,
\* whatever ran, was refused or repeated, Doctor reports nothing.
THEOREM Silent == Spec => []HealthyIsSilent
<1>1. TypeInv /\ MutualExclusion /\ LogInv /\ EvidenceInv /\ DoctorInv => HealthyIsSilent
  <2> SUFFICES ASSUME TypeInv, MutualExclusion, LogInv, EvidenceInv, DoctorInv,
                      lock = "free", faults = 0, edits = 0
               PROVE  Issues = {}
    BY DEF HealthyIsSilent
  <2>1. \A p \in Procs : pc[p] \notin Steps
    BY NamesAssumption DEF MutualExclusion, Inside
  <2>2. \A n \in DOMAIN ops : ops[n].status = "completed"
    BY <2>1 DEF DoctorInv, Attended, AtWork
  <2>3. PageIssues = {}
    <3>1. \A a \in Pages : AsRecorded(a)
      BY <2>2 DEF DoctorInv, FilesInv, Owed, LogInv, CompletedIsLogged, InLog
    <3> QED
      BY <3>1, PageIssueIs
  <2>4. ProjectionIssues = {}
    <3>1. ops # <<>> => Len(ops) \in DOMAIN ops
      BY DEF TypeInv, TypeOK
    <3> QED
      BY <2>2, <3>1, NoProjectionIssues
  <2>5. OperationIssues = {}
    <3>1. \A n \in DOMAIN ops : Audited(n) => HasEvent(n)
      BY <2>2 DEF LogInv, CompletedIsLogged, Audited, HasEvent
    <3> QED
      BY <2>2, <3>1 DEF OperationIssues
  <2> QED
    BY <2>3, <2>4, <2>5, NoSourceIssues DEF Issues
<1> QED
  BY <1>1, DoctorInvariant, EvidenceInvariant, PTL

=============================================================================
