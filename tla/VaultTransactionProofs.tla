----------------------- MODULE VaultTransactionProofs -----------------------
(***************************************************************************)
(* Theorems about VaultTransaction, for any number of processes, sources,  *)
(* pages and requests, any length of a run, and without the bounds: types, *)
(* mutual exclusion, what the change log and the operations say of each    *)
(* other, that the commands implement VaultLedger, and that a transaction  *)
(* overwrites what its user confirmed.                                     *)
(***************************************************************************)
EXTENDS VaultTransaction, TLAPS

-----------------------------------------------------------------------------
(* What the operators of the model return *)

\* A function on the indices of a sequence is a sequence.
LEMMA MapSeq ==
  ASSUME NEW S, NEW T, NEW s \in Seq(S), NEW f,
         f = [i \in DOMAIN s |-> f[i]], \A i \in DOMAIN s : f[i] \in T
  PROVE  f \in Seq(T) /\ Len(f) = Len(s) /\ DOMAIN f = DOMAIN s
OBVIOUS

\* An update of one operation keeps the others and every key.
LEMMA UpdateOperation ==
  ASSUME ops \in Seq(Operation), NEW n \in DOMAIN ops,
         NEW status \in {"running", "completed", "failed"}, NEW step \in Steps \cup {"start"}
  PROVE  LET u == update_operation(n, status, step)
         IN  /\ u \in Seq(Operation)
             /\ DOMAIN u = DOMAIN ops
             /\ Len(u) = Len(ops)
             /\ \A k \in DOMAIN ops : u[k].key = ops[k].key
             /\ \A k \in DOMAIN ops : k # n => u[k] = ops[k]
             /\ u[n].status = status /\ u[n].step = step
<1> DEFINE r == [key |-> ops[n].key, status |-> status, step |-> step]
<1>0. ops[n] \in Operation
  OBVIOUS
<1>1. r \in Operation
  BY <1>0 DEF Operation
<1>2. update_operation(n, status, step) = [ops EXCEPT ![n] = r]
  BY DEF update_operation
<1>3. r.key = ops[n].key /\ r.status = status /\ r.step = step
  OBVIOUS
<1> DEFINE u == update_operation(n, status, step)
<1> HIDE DEF r
<1>4. u \in Seq(Operation) /\ DOMAIN u = DOMAIN ops /\ Len(u) = Len(ops)
  BY <1>1, <1>2
<1>5. u[n] = r /\ \A k \in DOMAIN ops : k # n => u[k] = ops[k]
  BY <1>2
<1> QED
  BY <1>3, <1>4, <1>5

\* The content a mutation asks for is managed content.
LEMMA WantedType ==
  ASSUME NEW j \in Job, NEW m \in Mutation, NEW pgs \in [Pages -> PageRecord],
         j.kind = "ingest" => j.source \in Sources
  PROVE  Wanted(j, m, pgs) \in Managed
BY DEF Wanted, Managed, Mutation, PageRecord

\* _page_records_after and _planned_page_records return a page registry.
LEMMA RecordsAfterType ==
  ASSUME NEW j \in Job, NEW pgs \in [Pages -> PageRecord], NEW fs \in [Pages -> File],
         j.kind = "ingest" => j.source \in Sources
  PROVE  RecordsAfter(j, pgs, fs) \in [Pages -> PageRecord]
<1>1. SUFFICES ASSUME NEW a \in Pages
               PROVE  RecordsAfter(j, pgs, fs)[a] \in PageRecord
  BY DEF RecordsAfter
<1>2. CASE a \notin Targets(j)
  BY <1>2 DEF RecordsAfter
<1>3. CASE a \in Targets(j)
  <2> DEFINE i == CHOOSE i \in DOMAIN j.pages : j.pages[i].path = a
             wanted == Wanted(j, j.pages[i], pgs)
  <2>1. i \in DOMAIN j.pages
    BY <1>3 DEF Targets
  <2>2. j.pages[i] \in Mutation
    BY <2>1 DEF Job
  <2>3. wanted \in Managed
    BY <2>2, WantedType
  <2>4. RecordsAfter(j, pgs, fs)[a] =
          [content |-> wanted,
           rev |-> IF PageUnchanged(wanted, fs[a]) THEN pgs[a].rev ELSE pgs[a].rev + 1]
    BY <1>3 DEF RecordsAfter
  <2>5. pgs[a].rev \in Nat
    BY DEF PageRecord
  <2> QED
    BY <2>3, <2>4, <2>5 DEF PageRecord
<1> QED
  BY <1>2, <1>3

\* _planned_source_record is a source record.
LEMMA SourcesWithType ==
  ASSUME NEW j \in Job, NEW srcs \in [Sources -> SourceRecord], NEW n \in Nat,
         NEW status \in {"pending", "processed"}
  PROVE  SourcesWith(j, srcs, status, n) \in [Sources -> SourceRecord]
BY DEF SourcesWith, SourceRecord, Job

\* What plan_projections renders is made of entries.
LEMMA RenderedType ==
  ASSUME NEW f \in Projections, NEW srcs \in [Sources -> SourceRecord],
         NEW pgs \in [Pages -> PageRecord], NEW prospective \in SUBSET Entry,
         events \in Seq(Event)
  PROVE  Rendered(f, srcs, pgs, prospective) \in SUBSET Entry
<1>1. RenderWikiIndex(pgs) \in SUBSET Entry
  BY DEF RenderWikiIndex, Entry
<1>2. RenderIngestIndex(srcs, pgs) \in SUBSET Entry
  <2>1. \A s \in Sources : srcs[s].status # "none" => srcs[s].status \in {"pending", "processed"}
    BY DEF SourceRecord
  <2>2. \A s \in Sources : ShownProxy(srcs[s].proxy, pgs) \in Pages \cup {NoName}
    BY DEF ShownProxy
  <2> DEFINE e(s) == [source |-> s, status |-> srcs[s].status,
                      proxy |-> ShownProxy(srcs[s].proxy, pgs)]
  <2>3. \A s \in Sources : srcs[s].status # "none" => e(s) \in Entry
    BY <2>1, <2>2 DEF Entry
  <2>4. RenderIngestIndex(srcs, pgs) = {e(s) : s \in {t \in Sources : srcs[t].status # "none"}}
    BY DEF RenderIngestIndex
  <2> HIDE DEF e
  <2> QED
    BY <2>3, <2>4
<1>3. RenderWikiLog(events) \in SUBSET Entry
  <2>1. \A i \in DOMAIN events : events[i] \in Event
    OBVIOUS
  <2>2. \A i \in DOMAIN events : LogEntry(events[i].sequence, events[i].op) \in Entry
    BY <2>1 DEF LogEntry, Entry, Event
  <2> QED
    BY <2>2 DEF RenderWikiLog
<1>4. CASE f = "wiki/index.md"
  BY <1>1, <1>4 DEF Rendered
<1>5. CASE f = "ingest/index.md"
  BY <1>2, <1>5 DEF Rendered
<1>6. CASE f = "wiki/log.md"
  BY <1>3, <1>6 DEF Rendered
<1> QED
  BY <1>4, <1>5, <1>6 DEF Projections

\* The next sequence number is a number.
LEMMA NextSequenceType ==
  ASSUME events \in Seq(Event)
  PROVE  NextSequence \in Nat
<1>1. CASE events = <<>>
  BY <1>1 DEF NextSequence
<1>2. CASE events # <<>>
  <2>1. events[Len(events)] \in Event
    BY <1>2
  <2> QED
    BY <1>2, <2>1 DEF NextSequence, Event
<1> QED
  BY <1>1, <1>2

\* What a plan checksum is computed from is a plan record.
LEMMA PlanType ==
  ASSUME TypeOK, NEW j \in Job
  PROVE  Plan(j) \in PlanRecord
<1>1. AbsentFile \in File /\ NoSource \in SourceRecord /\ NoPage \in PageRecord
  BY DEF AbsentFile, NoSource, NoPage, NoContent, File, SourceRecord, PageRecord, Managed
<1>2. Announced(j) \in SUBSET Projections
  BY DEF Announced
<1>3. <<>> \in Seq(Event)
  OBVIOUS
<1> QED
  BY <1>1, <1>2, <1>3 DEF Plan, PlanRecord, TypeOK

-----------------------------------------------------------------------------
(* Type correctness.  TypeOK is not inductive by itself: that the files and  *)
(* registries stay well formed rests on what payloads look like and on where *)
(* in its loops a process is.                                                *)

JobsOK ==
  \A p \in Procs :
    /\ job[p] # NoJob => job[p].kind \in Kinds
    /\ job[p].kind = "ingest" => job[p].source \in Sources
    /\ job[p].kind \in {"ingest", "page"} => job[p].pages # <<>>
    /\ armed[p] \/ pc[p] # "idle" => job[p] # NoJob

WhereOK ==
  \A p \in Procs :
    /\ pc[p] \in {"write-source-pending", "write-source-processed"} => job[p].kind = "ingest"
    /\ pc[p] \in {"write-pages", "write-page-registry", "append-change-log"} =>
         job[p].kind \in {"ingest", "page"}
    /\ pc[p] = "write-pages" => at[p] \in DOMAIN job[p].pages
    /\ pc[p] = "write-projections" => at[p] \in 1..3
    /\ pc[p] \in Steps \cup {"return"} => cur[p] \in DOMAIN ops

EventsOK == \A i \in DOMAIN events : events[i].op \in DOMAIN ops

TypeInv == TypeOK /\ JobsOK /\ WhereOK /\ EventsOK

\* A vault after `state init`, with nobody at work, satisfies the invariant.
LEMMA TypeInit == Init => TypeInv
<1> SUFFICES ASSUME Init PROVE TypeInv
  OBVIOUS
<1>1. NoJob \in Job /\ NoPlan \in PlanRecord /\ AbsentFile \in File
      /\ NoSource \in SourceRecord /\ NoPage \in PageRecord /\ NoProjection \in Projection
  BY DEF NoJob, NoPlan, AbsentFile, NoSource, NoPage, NoProjection, NoContent, Job, PlanRecord,
         File, SourceRecord, PageRecord, Projection, Managed
<1>2. TypeOK
  BY <1>1 DEF Init, TypeOK
<1>3. JobsOK
  BY DEF Init, JobsOK, NoJob
<1>4. WhereOK
  BY DEF Init, WhereOK, NoJob, Steps
<1>5. EventsOK
  BY DEF Init, EventsOK
<1> QED
  BY <1>2, <1>3, <1>4, <1>5 DEF TypeInv

\* A drafted payload is a job of the kind that was asked for, with pages unless
\* it is a rebuild.
LEMMA DraftType ==
  ASSUME TypeOK, NEW p \in Procs, NEW r \in Requests, Draft(p, r)
  PROVE  /\ job'[p] \in Job
         /\ job'[p].kind = r.kind /\ r.kind \in Kinds
         /\ job'[p].source = r.source
         /\ r.kind = "ingest" => r.source \in Sources
         /\ r.kind \in {"ingest", "page"} => job'[p].pages # <<>>
<1>1. r \in Request
  BY RequestsAssumption
<1> DEFINE m == [i \in DOMAIN r.pages |->
                   [path |-> r.pages[i].path, text |-> r.pages[i].text,
                    takeover |-> r.pages[i].takeover,
                    expected |-> files[r.pages[i].path].content]]
           Asked == [path : Pages, text : Texts, takeover : BOOLEAN]
<1>2. r.pages \in Seq(Asked)
  BY <1>1 DEF Request
<1>3. \A i \in DOMAIN r.pages : r.pages[i] \in Asked
  <2> HIDE DEF Asked
  <2> QED
    BY <1>2
<1>4. \A i \in DOMAIN r.pages : m[i] \in Mutation
  BY <1>3 DEF Mutation, TypeOK, File
<1>5. m \in Seq(Mutation) /\ Len(m) = Len(r.pages)
  <2>1. m = [i \in DOMAIN r.pages |-> m[i]]
    OBVIOUS
  <2> HIDE DEF m, Asked
  <2> QED
    BY <1>2, <1>4, <2>1, MapSeq
<1>6. r.kind = "ingest" => r.source \in Sources
  BY RequestsAssumption
<1>7. r.kind \in {"ingest", "page"} => r.pages # <<>>
  BY RequestsAssumption
<1>8. (IF r.kind = "ingest" THEN disk[r.source] ELSE 0) \in Nat
  BY <1>6 DEF TypeOK
<1>9. job'[p] = [kind |-> r.kind, source |-> r.source, proxy |-> r.proxy,
                 version |-> IF r.kind = "ingest" THEN disk[r.source] ELSE 0, pages |-> m]
  BY DEF Draft, TypeOK
<1> HIDE DEF m
<1> QED
  BY <1>1, <1>2, <1>5, <1>6, <1>7, <1>8, <1>9 DEF Job, Request

\* Within the page loop, the planned file and content exist.
LEMMA PlannedType ==
  ASSUME TypeInv, NEW p \in Procs, pc[p] = "write-pages"
  PROVE  /\ PageAt(p).path \in Pages
         /\ PlannedFile(p) \in File
         /\ PlannedContent(p) \in Managed
<1>1. job[p] \in Job /\ at[p] \in DOMAIN job[p].pages /\ plan[p] \in PlanRecord
  BY DEF TypeInv, TypeOK, WhereOK
<1>2. PageAt(p) \in Mutation
  BY <1>1 DEF Job, PageAt
<1>3. PageAt(p).path \in Pages
  BY <1>2 DEF Mutation
<1>4. plan[p].files \in [Pages -> File] /\ plan[p].pages \in [Pages -> PageRecord]
  BY <1>1 DEF PlanRecord
<1>5. PlannedContent(p) \in Managed
  BY <1>1, <1>2, <1>4, WantedType DEF PlannedContent, TypeInv, JobsOK
<1> QED
  BY <1>3, <1>4, <1>5 DEF PlannedFile

\* A written projection is a projection.
LEMMA ProjectionType ==
  ASSUME TypeInv, NEW p \in Procs, WriteProjection(p)
  PROVE  proj' \in [Projections -> Projection]
<1> DEFINE f == ProjectionPaths[at[p]]
           srcs == ProspectiveSources(p)
           prospective == ProspectiveEntries(p)
           new == [exists |-> TRUE, shown |-> Rendered(f, srcs, pages, prospective)]
<1>1. f \in Projections
  BY DEF WriteProjection, At, TypeInv, WhereOK, ProjectionPaths, Projections
<1>2. srcs \in [Sources -> SourceRecord]
  BY SourcesWithType DEF TypeInv, TypeOK, ProspectiveSources
<1>3. prospective \in SUBSET Entry
  BY NextSequenceType DEF TypeInv, TypeOK, LogEntry, Entry, ProspectiveEntries
<1>4. new \in Projection
  BY <1>1, <1>2, <1>3, RenderedType DEF Projection, TypeInv, TypeOK
<1>5. proj' = [proj EXCEPT ![f] = new]
  BY DEF WriteProjection
<1> HIDE DEF new
<1> QED
  BY <1>4, <1>5 DEF TypeInv, TypeOK

\* No plan is a plan record too.
LEMMA NoPlanType == NoPlan \in PlanRecord
BY DEF NoPlan, AbsentFile, NoSource, NoPage, NoProjection, NoContent, PlanRecord, File,
       SourceRecord, PageRecord, Projection, Managed

\* What an editor leaves is a page file.
LEMMA EditedType ==
  ASSUME TypeOK, NEW a \in Pages, NEW f \in Edited(files[a])
  PROVE  f \in File
<1>1. files[a] \in File /\ edits + 1 \in Nat /\ NoContent \in Managed
  BY DEF TypeOK, NoContent, Managed
<1>2. files[a].content \in Managed /\ files[a].note \in Nat
  BY <1>1 DEF File
<1>3. [text |-> UserText, srcs |-> files[a].content.srcs] \in Managed
  BY <1>2 DEF Managed
<1>4. CASE f = AbsentFile \/ f = [files[a] EXCEPT !.note = edits + 1]
  BY <1>1, <1>4 DEF AbsentFile, File
<1>5. CASE \/ f = [state |-> "plain", content |-> NoContent, note |-> edits + 1]
           \/ f = [state |-> "broken", content |-> NoContent, note |-> files[a].note]
  BY <1>1, <1>2, <1>5 DEF File
<1>6. CASE f = [files[a] EXCEPT !.content = [text |-> UserText, srcs |-> @.srcs]]
  BY <1>1, <1>3, <1>6 DEF File
<1> QED
  BY <1>4, <1>5, <1>6 DEF Edited

\* The completed event of a payload names an operation there is.
LEMMA CompletedType ==
  ASSUME TypeInv, NEW p \in Procs, AlreadyDone(p)
  PROVE  ops' \in Seq(Operation) /\ DOMAIN ops' = DOMAIN ops
<1>1. PICK i \in Completions(job[p]) :
        ops' = update_operation(events[i].op, "completed", "complete") \/ ops' = ops
  BY DEF AlreadyDone
<1>2. events[i].op \in DOMAIN ops
  BY <1>1 DEF Completions, TypeInv, EventsOK
<1>3. ops \in Seq(Operation)
  BY DEF TypeInv, TypeOK
<1> QED
  BY <1>1, <1>2, <1>3, UpdateOperation DEF Steps

\* The page loop starts at a page there is.
LEMMA FirstPage ==
  ASSUME TypeInv, NEW p \in Procs, job[p].kind \in {"ingest", "page"}
  PROVE  1 \in DOMAIN job[p].pages
<1>1. job[p].pages \in Seq(Mutation) /\ job[p].pages # <<>>
  BY DEF TypeInv, TypeOK, JobsOK, Job
<1> QED
  BY <1>1

\* The page loop goes on to a page there is, or to the registry.
LEMMA AfterPageType ==
  ASSUME TypeInv, NEW p \in Procs, pc[p] = "write-pages", AfterPage(p)
  PROVE  /\ at' \in [Procs -> Nat] /\ pc' \in [Procs -> {"idle", "waiting"} \cup Inside]
         /\ pc'[p] \in {"write-pages", "write-page-registry"}
         /\ pc'[p] = "write-pages" => at'[p] \in DOMAIN job[p].pages
         /\ \A q \in Procs : q # p => at'[q] = at[q] /\ pc'[q] = pc[q]
<1>1. /\ job[p].pages \in Seq(Mutation) /\ at[p] \in DOMAIN job[p].pages
      /\ at \in [Procs -> Nat] /\ pc \in [Procs -> {"idle", "waiting"} \cup Inside]
  BY DEF TypeInv, TypeOK, WhereOK, Job
<1>2. CASE at[p] = Len(job[p].pages)
  BY <1>1, <1>2 DEF AfterPage, Goto, Inside, Steps
<1>3. CASE at[p] # Len(job[p].pages)
  BY <1>1, <1>3 DEF AfterPage
<1> QED
  BY <1>2, <1>3

\* The projection loop goes on to a projection there is, or to a later step.
LEMMA NextProjectionType ==
  ASSUME TypeInv, NEW p \in Procs, WriteProjection(p)
  PROVE  /\ at' \in [Procs -> Nat] /\ pc' \in [Procs -> {"idle", "waiting"} \cup Inside]
         /\ pc'[p] = "write-projections" => at'[p] \in 1..3
         /\ pc'[p] \in {"write-projections", "complete", "write-source-processed",
                       "append-change-log"}
         /\ pc'[p] = "write-source-processed" => job[p].kind = "ingest"
         /\ pc'[p] = "append-change-log" => job[p].kind = "page"
         /\ pc'[p] = "complete" => job[p].kind = "rebuild"
         /\ \A q \in Procs : q # p => at'[q] = at[q] /\ pc'[q] = pc[q]
<1>1. /\ pc[p] = "write-projections" /\ at[p] \in 1..3 /\ job[p].kind \in Kinds
      /\ at \in [Procs -> Nat] /\ pc \in [Procs -> {"idle", "waiting"} \cup Inside]
  BY DEF WriteProjection, At, TypeInv, TypeOK, WhereOK, JobsOK
<1>2. Len(ProjectionPaths) = 3
  BY DEF ProjectionPaths
<1> DEFINE next == AfterProjections(job[p].kind)
<1>3. IF at[p] < 3 THEN at' = [at EXCEPT ![p] = @ + 1] /\ pc' = pc ELSE Goto(p, next)
  BY <1>2 DEF WriteProjection
<1>4. /\ next \in {"write-source-processed", "append-change-log", "complete"}
      /\ next = "write-source-processed" => job[p].kind = "ingest"
      /\ next = "append-change-log" => job[p].kind = "page"
      /\ next = "complete" => job[p].kind = "rebuild"
  BY <1>1 DEF Kinds, AfterProjections
<1> HIDE DEF next
<1>5. CASE at[p] < 3
  <2>1. at' = [at EXCEPT ![p] = @ + 1] /\ pc' = pc
    BY <1>3, <1>5
  <2>2. at[p] + 1 \in 1..3 /\ at[p] + 1 \in Nat
    BY <1>1, <1>5
  <2>3. at' \in [Procs -> Nat] /\ at'[p] = at[p] + 1 /\ pc'[p] = "write-projections"
    BY <1>1, <2>1, <2>2
  <2> QED
    BY <1>1, <2>1, <2>2, <2>3
<1>6. CASE at[p] = 3
  <2>1. at' = [at EXCEPT ![p] = 1] /\ pc' = [pc EXCEPT ![p] = next]
    BY <1>3, <1>6 DEF Goto
  <2>2. next \in {"idle", "waiting"} \cup Inside
    BY <1>4 DEF Inside, Steps
  <2>3. at' \in [Procs -> Nat] /\ pc' \in [Procs -> {"idle", "waiting"} \cup Inside]
        /\ pc'[p] = next
    BY <1>1, <2>1, <2>2
  <2>4. \A q \in Procs : q # p => at'[q] = at[q] /\ pc'[q] = pc[q]
    BY <1>1, <2>1
  <2> QED
    BY <1>4, <2>3, <2>4
<1> QED
  BY <1>1, <1>5, <1>6

\* What any update of operations.json leaves.
LEMMA FailOperationType ==
  ASSUME TypeInv, NEW p \in Procs, pc[p] \in Steps \cup {"return"}, FailOperation(p)
  PROVE  ops' \in Seq(Operation) /\ DOMAIN ops' = DOMAIN ops /\ Len(ops') = Len(ops)
<1>1. cur[p] \in DOMAIN ops /\ ops \in Seq(Operation)
  BY DEF TypeInv, TypeOK, WhereOK
<1>2. ops[cur[p]] \in Operation
  BY <1>1
<1>3. CASE ops' = ops
  BY <1>1, <1>3
<1>4. CASE \E step \in {pc[p], ops[cur[p]].step} \ {"return", "start"} :
             ops' = update_operation(cur[p], "failed", step)
  <2>1. PICK step \in {pc[p], ops[cur[p]].step} \ {"return", "start"} :
               ops' = update_operation(cur[p], "failed", step)
    BY <1>4
  <2>2. step \in Steps \cup {"start"}
    BY <1>2, <2>1 DEF Operation
  <2> QED
    BY <1>1, <2>1, <2>2, UpdateOperation
<1> QED
  BY <1>3, <1>4 DEF FailOperation

\* One step of any process, the user or a fault keeps the invariant.
LEMMA TypeNext == TypeInv /\ [Next]_vars => TypeInv'
<1> SUFFICES ASSUME TypeInv, [Next]_vars PROVE TypeInv'
  OBVIOUS
<1> USE DEF TypeInv, vaultVars, boundVars, procVars
<1>1. ASSUME NEW p \in Procs, NEW r \in Requests, Draft(p, r) PROVE TypeInv'
  <2>1. /\ job'[p] \in Job
        /\ job'[p].kind = r.kind /\ r.kind \in Kinds
        /\ job'[p].source = r.source
        /\ r.kind = "ingest" => r.source \in Sources
        /\ r.kind \in {"ingest", "page"} => job'[p].pages # <<>>
    BY <1>1, DraftType
  <2>2. job' \in [Procs -> Job] /\ NoPlan \in PlanRecord
    BY <1>1, <2>1, NoPlanType, SMTT(40) DEF Draft, TypeOK
  <2>3. TypeOK'
    BY <1>1, <2>1, <2>2, SMTT(40) DEF Draft, TypeOK
  <2>4. JobsOK'
    <3> SUFFICES ASSUME NEW q \in Procs
                 PROVE  /\ job'[q] # NoJob => job'[q].kind \in Kinds
                        /\ job'[q].kind = "ingest" => job'[q].source \in Sources
                        /\ job'[q].kind \in {"ingest", "page"} => job'[q].pages # <<>>
                        /\ armed'[q] \/ pc'[q] # "idle" => job'[q] # NoJob
      BY Zenon DEF JobsOK
    <3>1. CASE q = p
      <4>1. ~armed'[q] /\ pc'[q] = "idle"
        BY <1>1, <3>1, SMTT(40) DEF Draft, TypeOK
      <4> QED
        BY <2>1, <3>1, <4>1, Zenon
    <3>2. CASE q # p
      <4>1. job'[q] = job[q] /\ armed'[q] = armed[q] /\ pc'[q] = pc[q]
        BY <1>1, <3>2, SMTT(40) DEF Draft, TypeOK
      <4> QED
        BY <4>1, Zenon DEF JobsOK
    <3> QED
      BY <3>1, <3>2
  <2>5. WhereOK'
    BY <1>1, <2>1, <2>2, SMTT(40) DEF Draft, TypeOK, JobsOK, WhereOK, Steps
  <2>6. EventsOK'
    BY <1>1, <2>1, <2>2 DEF Draft, TypeOK, EventsOK
  <2> QED
    BY <2>3, <2>4, <2>5, <2>6
<1>2. ASSUME NEW p \in Procs, Preview(p) PROVE TypeInv'
  <2>1. plan'[p] \in PlanRecord
    BY <1>2, PlanType DEF Preview, TypeOK
  <2>2. TypeOK'
    BY <1>2, <2>1 DEF Preview, TypeOK
  <2>3. JobsOK'
    BY <1>2, <2>1 DEF Preview, TypeOK, JobsOK
  <2>4. WhereOK'
    BY <1>2, <2>1 DEF Preview, TypeOK, JobsOK, WhereOK, Steps
  <2>5. EventsOK'
    BY <1>2, <2>1 DEF Preview, TypeOK, EventsOK
  <2> QED
    BY <2>2, <2>3, <2>4, <2>5
<1>3. ASSUME NEW p \in Procs, Submit(p) PROVE TypeInv'
  <2>1. TypeOK'
    BY <1>3 DEF Submit, TypeOK
  <2>2. JobsOK'
    BY <1>3 DEF Submit, TypeOK, JobsOK
  <2>3. WhereOK'
    BY <1>3 DEF Submit, TypeOK, JobsOK, WhereOK, Inside, Exits, Steps
  <2>4. EventsOK'
    BY <1>3 DEF Submit, TypeOK, EventsOK
  <2> QED
    BY <2>1, <2>2, <2>3, <2>4
<1>4. ASSUME NEW p \in Procs, Acquire(p) PROVE TypeInv'
  <2>1. TypeOK'
    BY <1>4 DEF Acquire, TypeOK, Inside, Exits, Steps
  <2>2. JobsOK'
    BY <1>4 DEF Acquire, TypeOK, JobsOK
  <2>3. WhereOK'
    BY <1>4 DEF Acquire, TypeOK, JobsOK, WhereOK, Steps
  <2>4. EventsOK'
    BY <1>4 DEF Acquire, TypeOK, EventsOK
  <2> QED
    BY <2>1, <2>2, <2>3, <2>4
<1>5. ASSUME NEW p \in Procs, Timeout(p) PROVE TypeInv'
  <2>1. TypeOK'
    BY <1>5 DEF Timeout, TypeOK, Inside, Exits, Steps
  <2>2. JobsOK'
    BY <1>5 DEF Timeout, TypeOK, JobsOK
  <2>3. WhereOK'
    BY <1>5 DEF Timeout, TypeOK, JobsOK, WhereOK, Steps
  <2>4. EventsOK'
    BY <1>5 DEF Timeout, TypeOK, EventsOK
  <2> QED
    BY <2>1, <2>2, <2>3, <2>4
<1>6. ASSUME NEW p \in Procs, Refuse(p) PROVE TypeInv'
  <2>1. TypeOK'
    BY <1>6 DEF Refuse, TypeOK, Inside, Exits, Steps
  <2>2. JobsOK'
    BY <1>6 DEF Refuse, TypeOK, JobsOK
  <2>3. WhereOK'
    BY <1>6 DEF Refuse, TypeOK, JobsOK, WhereOK, Steps
  <2>4. EventsOK'
    BY <1>6 DEF Refuse, TypeOK, EventsOK
  <2> QED
    BY <2>1, <2>2, <2>3, <2>4
<1>7. ASSUME NEW p \in Procs, AlreadyDone(p) PROVE TypeInv'
  <2>1. ops' \in Seq(Operation) /\ DOMAIN ops' = DOMAIN ops
    BY <1>7, CompletedType DEF TypeOK
  <2>2. TypeOK'
    BY <1>7, <2>1 DEF AlreadyDone, TypeOK, Inside, Exits, Steps
  <2>3. JobsOK'
    BY <1>7, <2>1 DEF AlreadyDone, TypeOK, JobsOK
  <2>4. WhereOK'
    BY <1>7, <2>1 DEF AlreadyDone, TypeOK, JobsOK, WhereOK, Steps
  <2>5. EventsOK'
    BY <1>7, <2>1 DEF AlreadyDone, TypeOK, EventsOK
  <2> QED
    BY <2>2, <2>3, <2>4, <2>5
<1>8. ASSUME NEW p \in Procs, Begin(p) PROVE TypeInv'
  <2>1. ops' \in Seq(Operation) /\ Len(ops') = Len(ops) + 1 /\ DOMAIN ops \subseteq DOMAIN ops'
    BY <1>8 DEF Begin, TypeOK, Operation
  <2>2. cur'[p] \in DOMAIN ops' /\ cur'[p] \in Nat
    BY <1>8, <2>1 DEF Begin, TypeOK
  <2>3. job[p].kind \in Kinds /\ (job[p].kind \in {"ingest", "page"} => 1 \in DOMAIN job[p].pages)
    BY <1>8, FirstPage DEF Begin, JobsOK
  <2>4. TypeOK'
    BY <1>8, <2>1, <2>2, <2>3 DEF Begin, Goto, TypeOK, Inside, Exits, Steps, FirstStep,
       Kinds
  <2>5. JobsOK'
    BY <1>8, <2>1, <2>2, <2>3 DEF Begin, Goto, TypeOK, JobsOK
  <2>6. WhereOK'
    BY <1>8, <2>1, <2>2, <2>3 DEF Begin, Goto, TypeOK, JobsOK, WhereOK, Steps, FirstStep,
       Kinds
  <2>7. EventsOK'
    BY <1>8, <2>1, <2>2, <2>3 DEF Begin, Goto, TypeOK, EventsOK
  <2> QED
    BY <2>4, <2>5, <2>6, <2>7
<1>9. ASSUME NEW p \in Procs, Enter(p) PROVE TypeInv'
  <2>1. ops' \in Seq(Operation) /\ DOMAIN ops' = DOMAIN ops
    BY <1>9, UpdateOperation DEF Enter, TypeOK, WhereOK
  <2>2. TypeOK'
    BY <1>9, <2>1 DEF Enter, TypeOK, Steps
  <2>3. JobsOK'
    BY <1>9, <2>1 DEF Enter, TypeOK, JobsOK, Steps
  <2>4. WhereOK'
    BY <1>9, <2>1 DEF Enter, TypeOK, JobsOK, WhereOK, Steps
  <2>5. EventsOK'
    BY <1>9, <2>1 DEF Enter, TypeOK, EventsOK
  <2> QED
    BY <2>2, <2>3, <2>4, <2>5
<1>10. ASSUME NEW p \in Procs, WriteSourcePending(p) PROVE TypeInv'
  <2>1. plan[p].sources \in [Sources -> SourceRecord] /\ job[p] \in Job /\ cur[p] \in Nat
    BY DEF TypeOK, PlanRecord
  <2>2. sources' \in [Sources -> SourceRecord]
    BY <1>10, <2>1, SourcesWithType DEF WriteSourcePending
  <2>3. 1 \in DOMAIN job[p].pages
    BY <1>10, FirstPage DEF WriteSourcePending, At, WhereOK
  <2>4. TypeOK'
    BY <1>10, <2>1, <2>2, <2>3 DEF WriteSourcePending, At, Goto, TypeOK, Inside, Exits,
       Steps
  <2>5. JobsOK'
    BY <1>10, <2>1, <2>2, <2>3 DEF WriteSourcePending, At, Goto, TypeOK, JobsOK
  <2>6. WhereOK'
    BY <1>10, <2>1, <2>2, <2>3 DEF WriteSourcePending, At, Goto, TypeOK, JobsOK, WhereOK,
       Steps
  <2>7. EventsOK'
    BY <1>10, <2>1, <2>2, <2>3 DEF WriteSourcePending, At, Goto, TypeOK, EventsOK
  <2> QED
    BY <2>4, <2>5, <2>6, <2>7
<1>11. ASSUME NEW p \in Procs, SkipPage(p) PROVE TypeInv'
  <2>1. AfterPage(p) /\ pc[p] = "write-pages"
    BY <1>11 DEF SkipPage, At
  <2>2. TypeOK'
    BY <1>11, <2>1, AfterPageType DEF SkipPage, At, TypeOK
  <2>3. JobsOK'
    BY <1>11, <2>1, AfterPageType DEF SkipPage, At, TypeOK, JobsOK
  <2>4. WhereOK'
    BY <1>11, <2>1, AfterPageType DEF SkipPage, At, TypeOK, JobsOK, WhereOK, Steps
  <2>5. EventsOK'
    BY <1>11, <2>1, AfterPageType DEF SkipPage, At, TypeOK, EventsOK
  <2> QED
    BY <2>2, <2>3, <2>4, <2>5
<1>12. ASSUME NEW p \in Procs, CheckPage(p) PROVE TypeInv'
  <2>1. TypeOK'
    BY <1>12 DEF CheckPage, At, TypeOK
  <2>2. JobsOK'
    BY <1>12 DEF CheckPage, At, TypeOK, JobsOK
  <2>3. WhereOK'
    BY <1>12 DEF CheckPage, At, TypeOK, JobsOK, WhereOK, Steps
  <2>4. EventsOK'
    BY <1>12 DEF CheckPage, At, TypeOK, EventsOK
  <2> QED
    BY <2>1, <2>2, <2>3, <2>4
<1>13. ASSUME NEW p \in Procs, ReplacePage(p) PROVE TypeInv'
  <2>1. AfterPage(p) /\ pc[p] = "write-pages"
    BY <1>13 DEF ReplacePage, At
  <2>2. files' \in [Pages -> File]
    BY <1>13, <2>1, PlannedType DEF ReplacePage, TypeOK, File
  <2>3. TypeOK'
    BY <1>13, <2>1, <2>2, AfterPageType DEF ReplacePage, At, TypeOK
  <2>4. JobsOK'
    BY <1>13, <2>1, <2>2, AfterPageType DEF ReplacePage, At, TypeOK, JobsOK
  <2>5. WhereOK'
    BY <1>13, <2>1, <2>2, AfterPageType DEF ReplacePage, At, TypeOK, JobsOK, WhereOK, Steps
  <2>6. EventsOK'
    BY <1>13, <2>1, <2>2, AfterPageType DEF ReplacePage, At, TypeOK, EventsOK
  <2> QED
    BY <2>3, <2>4, <2>5, <2>6
<1>14. ASSUME NEW p \in Procs, PageChanged(p) PROVE TypeInv'
  <2>1. ops' \in Seq(Operation) /\ DOMAIN ops' = DOMAIN ops
    BY <1>14, FailOperationType DEF PageChanged, At, Steps
  <2>2. TypeOK'
    BY <1>14, <2>1 DEF PageChanged, At, FailOperation, TypeOK, Inside, Exits, Steps
  <2>3. JobsOK'
    BY <1>14, <2>1 DEF PageChanged, At, FailOperation, TypeOK, JobsOK
  <2>4. WhereOK'
    BY <1>14, <2>1 DEF PageChanged, At, FailOperation, TypeOK, JobsOK, WhereOK, Steps
  <2>5. EventsOK'
    BY <1>14, <2>1 DEF PageChanged, At, FailOperation, TypeOK, EventsOK
  <2> QED
    BY <2>2, <2>3, <2>4, <2>5
<1>15. ASSUME NEW p \in Procs, WritePageRegistry(p) PROVE TypeInv'
  <2>1. plan[p].pages \in [Pages -> PageRecord] /\ plan[p].files \in [Pages -> File] /\ job[p] \in Job
    BY DEF TypeOK, PlanRecord
  <2>2. pages' \in [Pages -> PageRecord]
    BY <1>15, <2>1, RecordsAfterType DEF WritePageRegistry, JobsOK
  <2>3. TypeOK'
    BY <1>15, <2>1, <2>2 DEF WritePageRegistry, At, Goto, TypeOK, Inside, Exits, Steps
  <2>4. JobsOK'
    BY <1>15, <2>1, <2>2 DEF WritePageRegistry, At, Goto, TypeOK, JobsOK
  <2>5. WhereOK'
    BY <1>15, <2>1, <2>2 DEF WritePageRegistry, At, Goto, TypeOK, JobsOK, WhereOK, Steps
  <2>6. EventsOK'
    BY <1>15, <2>1, <2>2 DEF WritePageRegistry, At, Goto, TypeOK, EventsOK
  <2> QED
    BY <2>3, <2>4, <2>5, <2>6
<1>16. ASSUME NEW p \in Procs, WriteProjection(p) PROVE TypeInv'
  <2>1. proj' \in [Projections -> Projection]
    BY <1>16, ProjectionType
  <2>2. TypeOK'
    BY <1>16, <2>1, NextProjectionType DEF WriteProjection, At, TypeOK
  <2>3. JobsOK'
    BY <1>16, <2>1, NextProjectionType DEF WriteProjection, At, TypeOK, JobsOK
  <2>4. WhereOK'
    BY <1>16, <2>1, NextProjectionType, ZenonT(60) DEF WriteProjection, At, TypeOK, JobsOK, WhereOK,
       Steps
  <2>5. EventsOK'
    BY <1>16, <2>1, NextProjectionType DEF WriteProjection, At, TypeOK, EventsOK
  <2> QED
    BY <2>2, <2>3, <2>4, <2>5
<1>17. ASSUME NEW p \in Procs, WriteSourceProcessed(p) PROVE TypeInv'
  <2>1. plan[p].sources \in [Sources -> SourceRecord] /\ job[p] \in Job /\ cur[p] \in Nat
    BY DEF TypeOK, PlanRecord
  <2>2. sources' \in [Sources -> SourceRecord]
    BY <1>17, <2>1, SourcesWithType DEF WriteSourceProcessed
  <2>3. TypeOK'
    BY <1>17, <2>1, <2>2 DEF WriteSourceProcessed, At, Goto, TypeOK, Inside, Exits, Steps
  <2>4. JobsOK'
    BY <1>17, <2>1, <2>2 DEF WriteSourceProcessed, At, Goto, TypeOK, JobsOK
  <2>5. WhereOK'
    BY <1>17, <2>1, <2>2 DEF WriteSourceProcessed, At, Goto, TypeOK, JobsOK, WhereOK, Steps
  <2>6. EventsOK'
    BY <1>17, <2>1, <2>2 DEF WriteSourceProcessed, At, Goto, TypeOK, EventsOK
  <2> QED
    BY <2>3, <2>4, <2>5, <2>6
<1>18. ASSUME NEW p \in Procs, AppendChangeLog(p) PROVE TypeInv'
  <2>1. [sequence |-> NextSequence, op |-> cur[p], key |-> job[p]] \in Event
    BY NextSequenceType DEF TypeOK, Event
  <2>2. events' \in Seq(Event)
    BY <1>18, <2>1 DEF AppendChangeLog, TypeOK
  <2>3. TypeOK'
    BY <1>18, <2>1, <2>2 DEF AppendChangeLog, At, Goto, TypeOK, Inside, Exits, Steps
  <2>4. JobsOK'
    BY <1>18, <2>1, <2>2 DEF AppendChangeLog, At, Goto, TypeOK, JobsOK
  <2>5. WhereOK'
    BY <1>18, <2>1, <2>2 DEF AppendChangeLog, At, Goto, TypeOK, JobsOK, WhereOK, Steps
  <2>6. EventsOK'
    BY <1>18, <2>1, <2>2 DEF AppendChangeLog, At, Goto, TypeOK, EventsOK, WhereOK, Steps
  <2> QED
    BY <2>3, <2>4, <2>5, <2>6
<1>19. ASSUME NEW p \in Procs, Complete(p) PROVE TypeInv'
  <2>1. ops' \in Seq(Operation) /\ DOMAIN ops' = DOMAIN ops
    BY <1>19, UpdateOperation DEF Complete, TypeOK, WhereOK, At, Steps
  <2>2. TypeOK'
    BY <1>19, <2>1 DEF Complete, At, Goto, TypeOK, Inside, Exits, Steps
  <2>3. JobsOK'
    BY <1>19, <2>1 DEF Complete, At, Goto, TypeOK, JobsOK
  <2>4. WhereOK'
    BY <1>19, <2>1 DEF Complete, At, Goto, TypeOK, JobsOK, WhereOK, Steps
  <2>5. EventsOK'
    BY <1>19, <2>1 DEF Complete, At, Goto, TypeOK, EventsOK
  <2> QED
    BY <2>2, <2>3, <2>4, <2>5
<1>20. ASSUME NEW p \in Procs, Release(p) PROVE TypeInv'
  <2>1. TypeOK'
    BY <1>20 DEF Release, Exits, TypeOK, Inside, Steps
  <2>2. JobsOK'
    BY <1>20 DEF Release, Exits, TypeOK, JobsOK, Steps
  <2>3. WhereOK'
    BY <1>20 DEF Release, Exits, TypeOK, JobsOK, WhereOK, Steps
  <2>4. EventsOK'
    BY <1>20 DEF Release, Exits, TypeOK, EventsOK
  <2> QED
    BY <2>1, <2>2, <2>3, <2>4
<1>21. ASSUME NEW p \in Procs, FailBegin(p) PROVE TypeInv'
  <2>1. TypeOK'
    BY <1>21 DEF FailBegin, TypeOK, Inside, Exits, Steps
  <2>2. JobsOK'
    BY <1>21 DEF FailBegin, TypeOK, JobsOK
  <2>3. WhereOK'
    BY <1>21 DEF FailBegin, TypeOK, JobsOK, WhereOK, Steps
  <2>4. EventsOK'
    BY <1>21 DEF FailBegin, TypeOK, EventsOK
  <2> QED
    BY <2>1, <2>2, <2>3, <2>4
<1>22. ASSUME NEW p \in Procs, Fail(p) PROVE TypeInv'
  <2>1. ops' \in Seq(Operation) /\ DOMAIN ops' = DOMAIN ops
    BY <1>22, FailOperationType DEF Fail
  <2>2. TypeOK'
    BY <1>22, <2>1 DEF Fail, FailOperation, TypeOK, Inside, Exits, Steps
  <2>3. JobsOK'
    BY <1>22, <2>1 DEF Fail, FailOperation, TypeOK, JobsOK, Steps
  <2>4. WhereOK'
    BY <1>22, <2>1 DEF Fail, FailOperation, TypeOK, JobsOK, WhereOK, Steps
  <2>5. EventsOK'
    BY <1>22, <2>1 DEF Fail, FailOperation, TypeOK, EventsOK
  <2> QED
    BY <2>2, <2>3, <2>4, <2>5
<1>23. ASSUME NEW p \in Procs, Crash(p) PROVE TypeInv'
  <2>1. TypeOK'
    BY <1>23 DEF Crash, TypeOK, Inside, Exits, Steps
  <2>2. JobsOK'
    BY <1>23 DEF Crash, TypeOK, JobsOK, Steps
  <2>3. WhereOK'
    BY <1>23 DEF Crash, TypeOK, JobsOK, WhereOK, Steps
  <2>4. EventsOK'
    BY <1>23 DEF Crash, TypeOK, EventsOK
  <2> QED
    BY <2>1, <2>2, <2>3, <2>4
<1>24. ASSUME NEW s \in Sources, EditSource(s) PROVE TypeInv'
  BY <1>24 DEF EditSource, TypeOK, JobsOK, WhereOK, EventsOK
<1>25. ASSUME NEW a \in Pages, EditPage(a) PROVE TypeInv'
  <2>1. files' \in [Pages -> File]
    BY <1>25, EditedType DEF EditPage, TypeOK
  <2> QED
    BY <1>25, <2>1 DEF EditPage, TypeOK, JobsOK, WhereOK, EventsOK
<1>26. CASE IsolateLock
  BY <1>26 DEF IsolateLock, TypeOK, JobsOK, WhereOK, EventsOK
<1>27. CASE UNCHANGED vars
  BY <1>27 DEF vars, TypeOK, JobsOK, WhereOK, EventsOK
<1> QED
  BY <1>1, <1>2, <1>3, <1>4, <1>5, <1>6, <1>7, <1>8, <1>9, <1>10, <1>11, <1>12, <1>13, <1>14,
     <1>15, <1>16, <1>17, <1>18, <1>19, <1>20, <1>21, <1>22, <1>23, <1>24, <1>25, <1>26, <1>27
     DEF Next, User, Advance, PageStep, Fault

\* Every reachable state is well formed: whatever fails, crashes or is edited,
\* no command leaves a registry, a page or the log in a shape it cannot read.
THEOREM TypeCorrect == Spec => []TypeOK
<1>1. TypeInv => TypeOK
  BY DEF TypeInv
<1> QED
  BY TypeInit, TypeNext, <1>1, PTL DEF Spec

-----------------------------------------------------------------------------
(* The lock *)

\* pc of the others, and pc and lock of the process that acts.
LEMMA ExclusionNext == TypeInv /\ MutualExclusion /\ [Next]_vars => MutualExclusion'
<1> SUFFICES ASSUME TypeInv, MutualExclusion, [Next]_vars PROVE MutualExclusion'
  OBVIOUS
<1>0. pc \in [Procs -> {"idle", "waiting"} \cup Inside] /\ "free" \notin Procs /\ "orphan" \notin Procs
  BY NamesAssumption DEF TypeInv, TypeOK
<1> USE <1>0 DEF MutualExclusion, procVars
<1>1. ASSUME NEW p \in Procs, NEW r \in Requests, Draft(p, r) PROVE MutualExclusion'
  BY <1>1 DEF Draft, Inside, Exits, Steps
<1>2. ASSUME NEW p \in Procs, Preview(p) PROVE MutualExclusion'
  BY <1>2 DEF Preview, Inside, Exits, Steps
<1>3. ASSUME NEW p \in Procs, Submit(p) PROVE MutualExclusion'
  BY <1>3 DEF Submit, Inside, Exits, Steps
<1>4. ASSUME NEW p \in Procs, Acquire(p) PROVE MutualExclusion'
  BY <1>4 DEF Acquire, Inside, Exits, Steps
<1>5. ASSUME NEW p \in Procs, Timeout(p) PROVE MutualExclusion'
  BY <1>5 DEF Timeout, Inside, Exits, Steps
<1>6. ASSUME NEW p \in Procs, Refuse(p) PROVE MutualExclusion'
  BY <1>6 DEF Refuse, Inside, Exits, Steps
<1>7. ASSUME NEW p \in Procs, AlreadyDone(p) PROVE MutualExclusion'
  BY <1>7 DEF AlreadyDone, Inside, Exits, Steps
<1>8. ASSUME NEW p \in Procs, Begin(p) PROVE MutualExclusion'
  BY <1>8 DEF Begin, Goto, FirstStep, TypeInv, JobsOK, Kinds, Inside, Exits, Steps
<1>9. ASSUME NEW p \in Procs, Enter(p) PROVE MutualExclusion'
  BY <1>9 DEF Enter, Inside, Exits, Steps
<1>10. ASSUME NEW p \in Procs, WriteSourcePending(p) PROVE MutualExclusion'
  BY <1>10 DEF WriteSourcePending, At, Goto, Inside, Exits, Steps
<1>11. ASSUME NEW p \in Procs, SkipPage(p) PROVE MutualExclusion'
  <2>1. AfterPage(p) /\ pc[p] = "write-pages" /\ lock' = lock
    BY <1>11 DEF SkipPage, At
  <2> QED
    BY <2>1, AfterPageType DEF Inside, Steps
<1>12. ASSUME NEW p \in Procs, CheckPage(p) PROVE MutualExclusion'
  BY <1>12 DEF CheckPage, At, Inside, Exits, Steps
<1>13. ASSUME NEW p \in Procs, ReplacePage(p) PROVE MutualExclusion'
  <2>1. AfterPage(p) /\ pc[p] = "write-pages" /\ lock' = lock
    BY <1>13 DEF ReplacePage, At
  <2> QED
    BY <2>1, AfterPageType DEF Inside, Steps
<1>14. ASSUME NEW p \in Procs, PageChanged(p) PROVE MutualExclusion'
  BY <1>14 DEF PageChanged, At, FailOperation, Inside, Exits, Steps
<1>15. ASSUME NEW p \in Procs, WritePageRegistry(p) PROVE MutualExclusion'
  BY <1>15 DEF WritePageRegistry, At, Goto, Inside, Exits, Steps
<1>16. ASSUME NEW p \in Procs, WriteProjection(p) PROVE MutualExclusion'
  <2>1. pc[p] = "write-projections" /\ lock' = lock
    BY <1>16 DEF WriteProjection, At
  <2> QED
    BY <1>16, <2>1, NextProjectionType DEF Inside, Steps
<1>17. ASSUME NEW p \in Procs, WriteSourceProcessed(p) PROVE MutualExclusion'
  BY <1>17 DEF WriteSourceProcessed, At, Goto, Inside, Exits, Steps
<1>18. ASSUME NEW p \in Procs, AppendChangeLog(p) PROVE MutualExclusion'
  BY <1>18 DEF AppendChangeLog, At, Goto, Inside, Exits, Steps
<1>19. ASSUME NEW p \in Procs, Complete(p) PROVE MutualExclusion'
  BY <1>19 DEF Complete, At, Goto, Inside, Exits, Steps
<1>20. ASSUME NEW p \in Procs, Release(p) PROVE MutualExclusion'
  BY <1>20 DEF Release, Inside, Exits, Steps
<1>21. ASSUME NEW p \in Procs, FailBegin(p) PROVE MutualExclusion'
  BY <1>21 DEF FailBegin, Inside, Exits, Steps
<1>22. ASSUME NEW p \in Procs, Fail(p) PROVE MutualExclusion'
  BY <1>22 DEF Fail, FailOperation, Inside, Exits, Steps
<1>23. ASSUME NEW p \in Procs, Crash(p) PROVE MutualExclusion'
  BY <1>23 DEF Crash, Inside, Exits, Steps
<1>24. CASE \E s \in Sources : EditSource(s)
  BY <1>24 DEF EditSource
<1>25. CASE \E a \in Pages : EditPage(a)
  BY <1>25 DEF EditPage
<1>26. CASE IsolateLock
  BY <1>26 DEF IsolateLock
<1>27. CASE UNCHANGED vars
  BY <1>27 DEF vars
<1> QED
  BY <1>1, <1>2, <1>3, <1>4, <1>5, <1>6, <1>7, <1>8, <1>9, <1>10, <1>11, <1>12, <1>13, <1>14,
     <1>15, <1>16, <1>17, <1>18, <1>19, <1>20, <1>21, <1>22, <1>23, <1>24, <1>25, <1>26, <1>27
     DEF Next, User, Advance, PageStep, Fault

\* Whatever crashes, times out or is cleared by hand, only the process that
\* lock.json names is inside a write command.
THEOREM Exclusion == Spec => []MutualExclusion
<1>1. Init => MutualExclusion
  BY NamesAssumption DEF Init, MutualExclusion, Inside, Steps, Exits
<1> QED
  BY <1>1, TypeInit, TypeNext, ExclusionNext, PTL DEF Spec

-----------------------------------------------------------------------------
(* The change log *)

\* CompletedIsLogged, SuccessIsLogged and OneEventPerKey rest on what is true
\* on the way: events carry the key of their operation and are numbered by
\* their place; a process runs an operation of its own payload; an ingest on
\* its way to the log is not in it yet, and one past it is.
NumberedEvents ==
  \A i \in DOMAIN events :
    events[i].sequence = i /\ events[i].key = ops[events[i].op].key

OwnOperation == \A p \in Procs : pc[p] \in Steps \cup {"return"} => ops[cur[p]].key = job[p]

NotYetLogged ==
  \A p \in Procs :
    pc[p] \in Steps \ {"complete"} /\ job[p].kind = "ingest" =>
      \A i \in DOMAIN events : events[i].key # job[p]

LoggedOnReturn ==
  \A p \in Procs :
    pc[p] \in {"complete", "return"} /\ job[p].kind # "rebuild" =>
      \E i \in DOMAIN events : events[i].op = cur[p] /\ events[i].key = job[p]

LoggedOnRepeat ==
  \A p \in Procs : pc[p] = "repeat" => \E i \in DOMAIN events : events[i].key = job[p]

LogInv == /\ NumberedEvents /\ OwnOperation /\ NotYetLogged /\ LoggedOnReturn
          /\ LoggedOnRepeat /\ CompletedIsLogged /\ OneEventPerKey

\* The steps that leave ops and events alone, and move one process at most,
\* to a place that asks nothing of the log.
LEMMA QuietStep ==
  ASSUME TypeInv, LogInv, ops' = ops, events' = events,
         \A q \in Procs :
           \/ job'[q] = job[q] /\ cur'[q] = cur[q] /\ pc'[q] = pc[q]
           \/ pc'[q] \in {"idle", "waiting", "replan", "abort"}
           \/ /\ job'[q] = job[q] /\ cur'[q] = cur[q]
              /\ pc[q] \in Steps \ {"complete"} /\ pc'[q] \in Steps \ {"complete"}
           \/ /\ job'[q] = job[q] /\ cur'[q] = cur[q] /\ job[q].kind = "rebuild"
              /\ pc[q] \in Steps /\ pc'[q] \in Steps
  PROVE  LogInv'
<1> USE DEF LogInv
<1>1. NumberedEvents' /\ CompletedIsLogged' /\ OneEventPerKey'
  BY DEF NumberedEvents, CompletedIsLogged, OneEventPerKey
<1>2. OwnOperation'
  BY DEF OwnOperation, Steps
<1>3. NotYetLogged'
  BY DEF NotYetLogged, Steps
<1>4. LoggedOnReturn'
  BY DEF LoggedOnReturn, Steps
<1>5. LoggedOnRepeat'
  BY DEF LoggedOnRepeat, Steps
<1> QED
  BY <1>1, <1>2, <1>3, <1>4, <1>5

\* The steps that update one operation and keep its key.
LEMMA UpdateStep ==
  ASSUME TypeInv, LogInv, events' = events, job' = job, cur' = cur,
         DOMAIN ops' = DOMAIN ops,
         \A n \in DOMAIN ops : ops'[n].key = ops[n].key,
         \A n \in DOMAIN ops : ops'[n].status = "completed" =>
           \/ ops[n].status = "completed"
           \/ \E i \in DOMAIN events : events[i].op = n
           \/ ops[n].key.kind = "rebuild",
         \A q \in Procs :
           \/ pc'[q] = pc[q]
           \/ pc'[q] = "abort"
           \/ pc[q] = "complete" /\ pc'[q] = "return"
           \/ pc'[q] = "repeat" /\ Completions(job[q]) # {}
  PROVE  LogInv'
<1> USE DEF LogInv
<1>1. NumberedEvents'
  BY DEF NumberedEvents, TypeInv, EventsOK
<1>2. CompletedIsLogged'
  BY DEF CompletedIsLogged, NumberedEvents
<1>3. OneEventPerKey'
  BY DEF OneEventPerKey
<1>4. OwnOperation'
  BY DEF OwnOperation, Steps, TypeInv, WhereOK
<1>5. NotYetLogged'
  BY DEF NotYetLogged, Steps
<1>6. LoggedOnReturn'
  BY DEF LoggedOnReturn
<1>7. LoggedOnRepeat'
  BY DEF LoggedOnRepeat, Completions
<1> QED
  BY <1>1, <1>2, <1>3, <1>4, <1>5, <1>6, <1>7

\* begin_operation adds an operation of its own to which no event refers yet.
LEMMA BeginLogs == ASSUME TypeInv, LogInv, NEW p \in Procs, Begin(p) PROVE LogInv'
<1> USE DEF LogInv
<1> DEFINE n == Len(ops) + 1
<1>1. /\ events' = events /\ job' = job /\ cur' = [cur EXCEPT ![p] = n]
      /\ ops' = Append(ops, [key |-> job[p], status |-> "running", step |-> "start"])
      /\ pc' = [pc EXCEPT ![p] = FirstStep(job[p].kind)]
  BY DEF Begin, Goto
<1>2. ops \in Seq(Operation) /\ cur \in [Procs -> Nat] /\ pc \in [Procs -> {"idle", "waiting"} \cup Inside]
  BY DEF TypeInv, TypeOK
<1>3. /\ DOMAIN ops' = DOMAIN ops \cup {n} /\ n \notin DOMAIN ops
      /\ \A k \in DOMAIN ops : ops'[k] = ops[k]
      /\ ops'[n].key = job[p] /\ ops'[n].status = "running"
  BY <1>1, <1>2
<1>4. cur'[p] = n /\ pc'[p] \in {"write-source-pending", "write-pages", "write-projections"}
  <2>1. job[p].kind \in Kinds
    BY DEF Begin, TypeInv, JobsOK
  <2> QED
    BY <1>1, <1>2, <2>1 DEF FirstStep, Kinds
<1>5. \A q \in Procs : q # p => cur'[q] = cur[q] /\ pc'[q] = pc[q]
  BY <1>1, <1>2
<1> HIDE DEF n
<1>6. NumberedEvents'
  BY <1>1, <1>3 DEF NumberedEvents, TypeInv, EventsOK
<1>7. CompletedIsLogged'
  BY <1>1, <1>3 DEF CompletedIsLogged
<1>8. OneEventPerKey'
  BY <1>1 DEF OneEventPerKey
<1>9. OwnOperation'
  BY <1>1, <1>3, <1>4, <1>5 DEF OwnOperation, TypeInv, WhereOK
<1>10. NotYetLogged'
  <2>1. job[p].kind = "ingest" => \A i \in DOMAIN events : events[i].key # job[p]
    BY DEF Begin, AlreadyApplied, Completions
  <2> QED
    BY <1>1, <1>5, <2>1 DEF NotYetLogged
<1>11. LoggedOnReturn'
  BY <1>1, <1>4, <1>5 DEF LoggedOnReturn
<1>12. LoggedOnRepeat'
  BY <1>1, <1>4, <1>5 DEF LoggedOnRepeat
<1> QED
  BY <1>6, <1>7, <1>8, <1>9, <1>10, <1>11, <1>12

\* append_change_event numbers its event next, for the payload at hand and no
\* other.
LEMMA AppendLogs ==
  ASSUME TypeInv, MutualExclusion, LogInv, NEW p \in Procs, AppendChangeLog(p)
  PROVE  LogInv' /\ NextSequence = Len(events) + 1
<1> USE DEF LogInv
<1> DEFINE n == Len(events) + 1
           e == [sequence |-> NextSequence, op |-> cur[p], key |-> job[p]]
<1>1. /\ events' = Append(events, e) /\ ops' = ops /\ job' = job /\ cur' = cur
      /\ pc[p] = "append-change-log" /\ pc' = [pc EXCEPT ![p] = "complete"]
  BY DEF AppendChangeLog, At, Goto
<1>2. events \in Seq(Event) /\ pc \in [Procs -> {"idle", "waiting"} \cup Inside]
  BY DEF TypeInv, TypeOK
<1>3. NextSequence = Len(events) + 1
  <2>1. CASE events = <<>>
    BY <2>1 DEF NextSequence
  <2>2. CASE events # <<>>
    BY <1>2, <2>2 DEF NextSequence, NumberedEvents
  <2> QED
    BY <2>1, <2>2
<1>4. e.sequence = n /\ e.op = cur[p] /\ e.key = job[p] /\ e.key = ops[cur[p]].key
  BY <1>1, <1>3 DEF OwnOperation, Steps
<1> HIDE DEF e
<1>5. /\ DOMAIN events' = DOMAIN events \cup {n} /\ n \notin DOMAIN events
      /\ \A k \in DOMAIN events : events'[k] = events[k]
      /\ events'[n] = e
  <2>1. e \in Event
    BY NextSequenceType DEF e, TypeInv, TypeOK, Event
  <2> QED
    BY <1>1, <1>2, <2>1
<1>6. pc'[p] = "complete" /\ \A q \in Procs : q # p => pc'[q] = pc[q]
  BY <1>1, <1>2
<1> HIDE DEF n
<1>7. NumberedEvents'
  BY <1>1, <1>4, <1>5 DEF NumberedEvents
<1>8. CompletedIsLogged'
  BY <1>1, <1>5 DEF CompletedIsLogged
<1>9. OneEventPerKey'
  <2>1. job[p].kind = "ingest" => \A i \in DOMAIN events : events[i].key # job[p]
    BY <1>1 DEF NotYetLogged, Steps
  <2> QED
    BY <1>4, <1>5, <2>1 DEF OneEventPerKey
<1>10. OwnOperation'
  BY <1>1, <1>6 DEF OwnOperation, Steps
<1>11. NotYetLogged'
  <2>1. \A q \in Procs : q # p => pc[q] \notin Steps
    BY <1>1 DEF MutualExclusion, Inside, Steps
  <2> QED
    BY <1>6, <2>1 DEF NotYetLogged
<1>12. LoggedOnReturn'
  <2>1. \E i \in DOMAIN events' : events'[i].op = cur'[p] /\ events'[i].key = job'[p]
    BY <1>1, <1>4, <1>5
  <2>2. ASSUME NEW q \in Procs, q # p, pc'[q] \in {"complete", "return"}, job'[q].kind # "rebuild"
        PROVE  \E i \in DOMAIN events' : events'[i].op = cur'[q] /\ events'[i].key = job'[q]
    <3>1. PICK i \in DOMAIN events : events[i].op = cur[q] /\ events[i].key = job[q]
      BY <1>1, <1>6, <2>2 DEF LoggedOnReturn
    <3> QED
      BY <1>1, <1>5, <3>1
  <2> QED
    BY <2>1, <2>2 DEF LoggedOnReturn
<1>13. LoggedOnRepeat'
  BY <1>1, <1>5, <1>6 DEF LoggedOnRepeat
<1> QED
  BY <1>3, <1>7, <1>8, <1>9, <1>10, <1>11, <1>12, <1>13

\* The except clause keeps what the log says, whether it marks the operation
\* failed or cannot write that either.
LEMMA FailLogs ==
  ASSUME TypeInv, LogInv, NEW p \in Procs, pc[p] \in Steps \cup {"return"}, FailOperation(p)
  PROVE  LogInv'
<1>1. cur[p] \in DOMAIN ops /\ ops \in Seq(Operation) /\ pc \in [Procs -> {"idle", "waiting"} \cup Inside]
  BY DEF TypeInv, TypeOK, WhereOK
<1>2. /\ DOMAIN ops' = DOMAIN ops /\ \A k \in DOMAIN ops : ops'[k].key = ops[k].key
      /\ \A k \in DOMAIN ops : ops'[k].status = "completed" => ops[k].status = "completed"
  <2>1. CASE ops' = ops
    BY <2>1
  <2>2. CASE \E step \in {pc[p], ops[cur[p]].step} \ {"return", "start"} :
               ops' = update_operation(cur[p], "failed", step)
    <3>1. PICK step \in {pc[p], ops[cur[p]].step} \ {"return", "start"} :
                 ops' = update_operation(cur[p], "failed", step)
      BY <2>2
    <3>2. ops[cur[p]] \in Operation
      BY <1>1
    <3>3. step \in Steps \cup {"start"}
      BY <3>1, <3>2 DEF Operation
    <3>4. /\ DOMAIN ops' = DOMAIN ops /\ \A k \in DOMAIN ops : ops'[k].key = ops[k].key
          /\ \A k \in DOMAIN ops : k # cur[p] => ops'[k] = ops[k]
          /\ ops'[cur[p]].status = "failed"
      BY <1>1, <3>1, <3>3, UpdateOperation
    <3> QED
      BY <3>4
  <2> QED
    BY <2>1, <2>2 DEF FailOperation
<1> QED
  BY <1>1, <1>2, UpdateStep DEF FailOperation

\* One step of any process, the user or a fault keeps the log invariant.
LEMMA LogNext == TypeInv /\ MutualExclusion /\ LogInv /\ [Next]_vars => LogInv'
<1> SUFFICES ASSUME TypeInv, MutualExclusion, LogInv, [Next]_vars PROVE LogInv'
  OBVIOUS
<1>0. /\ pc \in [Procs -> {"idle", "waiting"} \cup Inside] /\ cur \in [Procs -> Nat]
      /\ job \in [Procs -> Job] /\ ops \in Seq(Operation)
  BY DEF TypeInv, TypeOK
<1> USE <1>0 DEF procVars, vaultVars, boundVars
<1>1. ASSUME NEW p \in Procs, NEW r \in Requests, Draft(p, r) PROVE LogInv'
  BY <1>1, QuietStep DEF Draft
<1>2. ASSUME NEW p \in Procs, Preview(p) PROVE LogInv'
  BY <1>2, QuietStep DEF Preview
<1>3. ASSUME NEW p \in Procs, Submit(p) PROVE LogInv'
  BY <1>3, QuietStep DEF Submit
<1>4. ASSUME NEW p \in Procs, Acquire(p) PROVE LogInv'
  BY <1>4, QuietStep DEF Acquire
<1>5. ASSUME NEW p \in Procs, Timeout(p) PROVE LogInv'
  BY <1>5, QuietStep DEF Timeout
<1>6. ASSUME NEW p \in Procs, Refuse(p) PROVE LogInv'
  BY <1>6, QuietStep DEF Refuse
<1>7. ASSUME NEW p \in Procs, AlreadyDone(p) PROVE LogInv'
  <2>1. PICK i \in Completions(job[p]) :
          ops' = update_operation(events[i].op, "completed", "complete") \/ ops' = ops
    BY <1>7 DEF AlreadyDone
  <2>2. i \in DOMAIN events /\ events[i].op \in DOMAIN ops
    BY <2>1 DEF Completions, TypeInv, EventsOK
  <2>3. /\ DOMAIN ops' = DOMAIN ops /\ \A k \in DOMAIN ops : ops'[k].key = ops[k].key
        /\ \A k \in DOMAIN ops : k # events[i].op => ops'[k] = ops[k]
    BY <2>1, <2>2, UpdateOperation, SMTT(40) DEF Steps
  <2>4. \A k \in DOMAIN ops : ops'[k].status = "completed" =>
           ops[k].status = "completed" \/ \E m \in DOMAIN events : events[m].op = k
    BY <2>2, <2>3
  <2>5. events' = events /\ job' = job /\ cur' = cur /\ pc' = [pc EXCEPT ![p] = "repeat"]
    BY <1>7 DEF AlreadyDone
  <2> QED
    BY <2>1, <2>3, <2>4, <2>5, UpdateStep
<1>8. ASSUME NEW p \in Procs, Begin(p) PROVE LogInv'
  BY <1>8, BeginLogs
<1>9. ASSUME NEW p \in Procs, Enter(p) PROVE LogInv'
  <2>1. cur[p] \in DOMAIN ops /\ pc[p] \in Steps
    BY <1>9 DEF Enter, TypeInv, WhereOK
  <2>2. ops' = update_operation(cur[p], "running", pc[p])
    BY <1>9 DEF Enter
  <2>3. /\ DOMAIN ops' = DOMAIN ops /\ \A k \in DOMAIN ops : ops'[k].key = ops[k].key
        /\ \A k \in DOMAIN ops : ops'[k].status = "completed" => ops[k].status = "completed"
    BY <2>1, <2>2, UpdateOperation
  <2> QED
    BY <1>9, <2>3, UpdateStep DEF Enter
<1>10. ASSUME NEW p \in Procs, WriteSourcePending(p) PROVE LogInv'
  BY <1>10, QuietStep DEF WriteSourcePending, At, Goto, Steps
<1>11. ASSUME NEW p \in Procs, SkipPage(p) PROVE LogInv'
  <2>1. /\ AfterPage(p) /\ pc[p] = "write-pages"
        /\ UNCHANGED <<job, cur, ops, events>>
    BY <1>11 DEF SkipPage, At
  <2> QED
    BY <2>1, AfterPageType, QuietStep DEF Steps
<1>12. ASSUME NEW p \in Procs, CheckPage(p) PROVE LogInv'
  BY <1>12, QuietStep DEF CheckPage, At, Steps
<1>13. ASSUME NEW p \in Procs, ReplacePage(p) PROVE LogInv'
  <2>1. /\ AfterPage(p) /\ pc[p] = "write-pages"
        /\ UNCHANGED <<job, cur, ops, events>>
    BY <1>13 DEF ReplacePage, At
  <2> QED
    BY <2>1, AfterPageType, QuietStep DEF Steps
<1>14. ASSUME NEW p \in Procs, PageChanged(p) PROVE LogInv'
  <2>1. FailOperation(p) /\ pc[p] \in Steps \cup {"return"}
    BY <1>14 DEF PageChanged, At, Steps
  <2> QED
    BY <2>1, FailLogs
<1>15. ASSUME NEW p \in Procs, WritePageRegistry(p) PROVE LogInv'
  BY <1>15, QuietStep DEF WritePageRegistry, At, Goto, Steps
<1>16. ASSUME NEW p \in Procs, WriteProjection(p) PROVE LogInv'
  <2>1. pc[p] = "write-projections" /\ UNCHANGED <<job, cur, ops, events>>
    BY <1>16 DEF WriteProjection, At
  <2>2. pc'[p] = "complete" => job[p].kind = "rebuild"
    BY <1>16, NextProjectionType
  <2> QED
    BY <1>16, <2>1, <2>2, NextProjectionType, QuietStep DEF Steps
<1>17. ASSUME NEW p \in Procs, WriteSourceProcessed(p) PROVE LogInv'
  BY <1>17, QuietStep DEF WriteSourceProcessed, At, Goto, Steps
<1>18. ASSUME NEW p \in Procs, AppendChangeLog(p) PROVE LogInv'
  BY <1>18, AppendLogs
<1>19. ASSUME NEW p \in Procs, Complete(p) PROVE LogInv'
  <2>1. pc[p] = "complete" /\ cur[p] \in DOMAIN ops /\ ops[cur[p]].key = job[p]
    BY <1>19 DEF Complete, At, TypeInv, WhereOK, LogInv, OwnOperation, Steps
  <2>2. ops' = update_operation(cur[p], "completed", "complete")
    BY <1>19 DEF Complete
  <2>3. /\ DOMAIN ops' = DOMAIN ops /\ \A k \in DOMAIN ops : ops'[k].key = ops[k].key
        /\ \A k \in DOMAIN ops : k # cur[p] => ops'[k] = ops[k]
    BY <2>1, <2>2, UpdateOperation DEF Steps
  <2>4. job[p].kind # "rebuild" => \E i \in DOMAIN events : events[i].op = cur[p]
    BY <2>1 DEF LogInv, LoggedOnReturn
  <2>5. events' = events /\ job' = job /\ cur' = cur /\ pc' = [pc EXCEPT ![p] = "return"]
    BY <1>19 DEF Complete, Goto
  <2> QED
    BY <2>1, <2>3, <2>4, <2>5, UpdateStep
<1>20. ASSUME NEW p \in Procs, Release(p) PROVE LogInv'
  BY <1>20, QuietStep DEF Release
<1>21. ASSUME NEW p \in Procs, FailBegin(p) PROVE LogInv'
  BY <1>21, QuietStep DEF FailBegin
<1>22. ASSUME NEW p \in Procs, Fail(p) PROVE LogInv'
  <2>1. FailOperation(p) /\ pc[p] \in Steps \cup {"return"}
    BY <1>22 DEF Fail
  <2> QED
    BY <2>1, FailLogs
<1>23. ASSUME NEW p \in Procs, Crash(p) PROVE LogInv'
  BY <1>23, QuietStep DEF Crash
<1>24. CASE \E s \in Sources : EditSource(s)
  BY <1>24, QuietStep DEF EditSource
<1>25. CASE \E a \in Pages : EditPage(a)
  BY <1>25, QuietStep DEF EditPage
<1>26. CASE IsolateLock
  BY <1>26, QuietStep DEF IsolateLock
<1>27. CASE UNCHANGED vars
  BY <1>27, QuietStep DEF vars
<1> QED
  BY <1>1, <1>2, <1>3, <1>4, <1>5, <1>6, <1>7, <1>8, <1>9, <1>10, <1>11, <1>12, <1>13, <1>14,
     <1>15, <1>16, <1>17, <1>18, <1>19, <1>20, <1>21, <1>22, <1>23, <1>24, <1>25, <1>26, <1>27
     DEF Next, User, Advance, PageStep, Fault

\* An empty operations.json and change log satisfy it.
LEMMA LogInit == Init => LogInv
BY DEF Init, LogInv, NumberedEvents, OwnOperation, NotYetLogged, LoggedOnReturn, LoggedOnRepeat,
       CompletedIsLogged, OneEventPerKey, Steps

\* operations.json and change-log.jsonl agree, and each process with them,
\* whatever fails, crashes or is retried.
THEOREM LogInvariant == Spec => [](TypeInv /\ MutualExclusion /\ LogInv)
<1>1. Init => MutualExclusion
  BY NamesAssumption DEF Init, MutualExclusion, Inside, Steps, Exits
<1> QED
  BY <1>1, TypeInit, TypeNext, ExclusionNext, LogInit, LogNext, PTL DEF Spec

\* No operation is called completed without its own event in the change log.
THEOREM Logged == Spec => []CompletedIsLogged
<1>1. LogInv => CompletedIsLogged
  BY DEF LogInv
<1> QED
  BY <1>1, LogInvariant, PTL

\* No command reports success for work that is not in the change log.
THEOREM SuccessLogged == Spec => []SuccessIsLogged
<1>1. LogInv => SuccessIsLogged
  BY DEF LogInv, SuccessIsLogged, LoggedOnReturn, LoggedOnRepeat
<1> QED
  BY <1>1, LogInvariant, PTL

\* However often and by whomever an ingest payload is submitted, the change
\* log has at most one event of it.
THEOREM OneEvent == Spec => []OneEventPerKey
<1>1. LogInv => OneEventPerKey
  BY DEF LogInv
<1> QED
  BY <1>1, LogInvariant, PTL

\* The log is append-only and numbered without gap.
THEOREM LogGrows == Spec => LogAppendOnly
<1> DEFINE Grown == /\ Len(events') = Len(events) + 1
                    /\ \A i \in DOMAIN events : events'[i] = events[i]
                    /\ events'[Len(events')].sequence = Len(events')
<1>1. TypeInv /\ MutualExclusion /\ LogInv /\ [Next]_vars => [events' # events => Grown]_vars
  <2> SUFFICES ASSUME TypeInv, MutualExclusion, LogInv, Next, events' # events
               PROVE  Grown
    BY SMTT(40)
  <2>1. PICK p \in Procs : AppendChangeLog(p)
    BY ZenonT(60) DEF Next, User, Advance, PageStep, Fault, Draft, Preview, Submit, Acquire, Timeout, Refuse,
           AlreadyDone, Begin, Enter, WriteSourcePending, SkipPage, CheckPage, ReplacePage,
           PageChanged, WritePageRegistry, WriteProjection, WriteSourceProcessed, Complete,
           Release, FailBegin, Fail, FailOperation, Crash, EditSource, EditPage, IsolateLock,
           vaultVars
  <2>2. NextSequence = Len(events) + 1
    BY <2>1, AppendLogs
  <2>3. events' = Append(events, [sequence |-> NextSequence, op |-> cur[p], key |-> job[p]])
    BY <2>1 DEF AppendChangeLog
  <2>4. events \in Seq(Event)
    BY DEF TypeInv, TypeOK
  <2> QED
    BY <2>2, <2>3, <2>4
<1> QED
  BY <1>1, LogInvariant, PTL DEF Spec, LogAppendOnly

-----------------------------------------------------------------------------
(* The operation of a process at work *)

\* It is the latest, still running, and has no event until the process appended
\* one.
LatestInv ==
  \A p \in Procs : pc[p] \in Steps =>
    /\ cur[p] = Len(ops)
    /\ ops[cur[p]].status = "running"
    /\ pc[p] # "complete" => \A i \in DOMAIN events : events[i].op # cur[p]

\* Steps after which the processes at work have the operations they had.
LEMMA LatestQuiet ==
  ASSUME LatestInv, ops' = ops, events' = events,
         \A q \in Procs : pc'[q] \in Steps =>
           /\ pc[q] \in Steps /\ cur'[q] = cur[q]
           /\ pc'[q] # "complete" => pc[q] # "complete"
  PROVE  LatestInv'
BY DEF LatestInv

\* Steps after which at most p is at work.
LEMMA LatestAlone ==
  ASSUME NEW p \in Procs, \A q \in Procs : q # p => pc'[q] \notin Steps,
         pc'[p] \in Steps =>
           /\ cur'[p] = Len(ops')
           /\ ops'[cur'[p]].status = "running"
           /\ pc'[p] # "complete" => \A i \in DOMAIN events' : events'[i].op # cur'[p]
  PROVE  LatestInv'
BY DEF LatestInv

LEMMA OthersOut ==
  ASSUME MutualExclusion, NEW p \in Procs, pc[p] \in Inside
  PROVE  \A q \in Procs : q # p => pc[q] \notin Steps
BY DEF MutualExclusion, Inside

LEMMA LatestNext == TypeInv /\ MutualExclusion /\ LatestInv /\ [Next]_vars => LatestInv'
<1> SUFFICES ASSUME TypeInv, MutualExclusion, LatestInv, [Next]_vars PROVE LatestInv'
  OBVIOUS
<1>0. /\ pc \in [Procs -> {"idle", "waiting"} \cup Inside] /\ cur \in [Procs -> Nat]
      /\ ops \in Seq(Operation)
  BY DEF TypeInv, TypeOK
<1> USE <1>0 DEF procVars, vaultVars, boundVars
<1>1. ASSUME NEW p \in Procs,
             \/ \E r \in Requests : Draft(p, r)
             \/ Preview(p) \/ Submit(p) \/ Acquire(p) \/ Timeout(p) \/ Refuse(p) \/ Release(p)
             \/ FailBegin(p) \/ Crash(p)
      PROVE  LatestInv'
  <2>1. ops' = ops /\ events' = events
    BY <1>1 DEF Draft, Preview, Submit, Acquire, Timeout, Refuse, Release, FailBegin, Crash
  <2>2. ASSUME NEW q \in Procs, pc'[q] \in Steps
        PROVE  pc[q] \in Steps /\ cur'[q] = cur[q] /\ pc'[q] = pc[q]
    BY <1>1, <2>2
    DEF Draft, Preview, Submit, Acquire, Timeout, Refuse, Release, FailBegin, Crash, Steps
  <2> QED
    BY <2>1, <2>2, LatestQuiet
<1>2. ASSUME NEW p \in Procs,
             \/ WriteSourcePending(p) \/ CheckPage(p) \/ WritePageRegistry(p) \/ WriteSourceProcessed(p)
      PROVE  LatestInv'
  <2>1. ops' = ops /\ events' = events
    BY <1>2 DEF WriteSourcePending, CheckPage, WritePageRegistry, WriteSourceProcessed
  <2>2. ASSUME NEW q \in Procs, pc'[q] \in Steps
        PROVE  pc[q] \in Steps /\ cur'[q] = cur[q] /\ (pc'[q] # "complete" => pc[q] # "complete")
    BY <1>2, <2>2
    DEF WriteSourcePending, CheckPage, WritePageRegistry, WriteSourceProcessed, At, Goto, Steps
  <2> QED
    BY <2>1, <2>2, LatestQuiet
<1>3. ASSUME NEW p \in Procs, SkipPage(p) \/ ReplacePage(p) PROVE LatestInv'
  <2>1. /\ AfterPage(p) /\ pc[p] = "write-pages"
        /\ UNCHANGED <<cur, ops, events>>
    BY <1>3 DEF SkipPage, ReplacePage, At
  <2>2. \A q \in Procs : q # p => pc'[q] = pc[q]
    BY <2>1, AfterPageType
  <2> QED
    BY <2>1, <2>2, LatestQuiet DEF Steps
<1>4. ASSUME NEW p \in Procs, WriteProjection(p) PROVE LatestInv'
  <2>1. pc[p] = "write-projections" /\ UNCHANGED <<cur, ops, events>>
    BY <1>4 DEF WriteProjection, At
  <2>2. \A q \in Procs : q # p => pc'[q] = pc[q]
    BY <1>4, NextProjectionType
  <2> QED
    BY <2>1, <2>2, LatestQuiet DEF Steps
<1>5. ASSUME NEW p \in Procs, Begin(p) PROVE LatestInv'
  <2>1. \A q \in Procs : q # p => pc'[q] \notin Steps
    BY <1>5, OthersOut DEF Begin, Goto, Inside
  <2>2. ops'[Len(ops) + 1].status = "running" /\ Len(ops') = Len(ops) + 1 /\ cur'[p] = Len(ops) + 1
    BY <1>5 DEF Begin
  <2>3. \A i \in DOMAIN events' : events'[i].op # Len(ops) + 1
    BY <1>5 DEF Begin, TypeInv, EventsOK
  <2> QED
    BY <2>1, <2>2, <2>3, LatestAlone
<1>6. ASSUME NEW p \in Procs, Enter(p) PROVE LatestInv'
  <2>1. pc[p] \in Steps /\ cur[p] \in DOMAIN ops /\ pc' = pc /\ cur' = cur /\ events' = events
    BY <1>6 DEF Enter, TypeInv, WhereOK
  <2>2. \A q \in Procs : q # p => pc'[q] \notin Steps
    BY <2>1, OthersOut DEF Inside
  <2>3. Len(ops') = Len(ops) /\ ops'[cur[p]].status = "running"
    BY <1>6, <2>1, UpdateOperation DEF Enter
  <2> QED
    BY <2>1, <2>2, <2>3, LatestAlone DEF LatestInv
<1>7. ASSUME NEW p \in Procs, AppendChangeLog(p) PROVE LatestInv'
  <2>1. /\ pc[p] = "append-change-log" /\ pc' = [pc EXCEPT ![p] = "complete"]
        /\ ops' = ops /\ cur' = cur
    BY <1>7 DEF AppendChangeLog, At, Goto
  <2>2. \A q \in Procs : q # p => pc'[q] \notin Steps
    BY <2>1, OthersOut DEF Inside, Steps
  <2>3. cur[p] = Len(ops) /\ ops[cur[p]].status = "running"
    BY <2>1 DEF LatestInv, Steps
  <2> QED
    BY <2>1, <2>2, <2>3, LatestAlone
<1>8. ASSUME NEW p \in Procs, AlreadyDone(p) \/ Complete(p) \/ PageChanged(p) \/ Fail(p)
      PROVE  LatestInv'
  <2>1. pc[p] \in Inside
    BY <1>8 DEF AlreadyDone, Complete, PageChanged, Fail, At, Inside, Steps, Exits
  <2>2. /\ \A q \in Procs : q # p => pc'[q] = pc[q]
        /\ pc'[p] \notin Steps
    BY <1>8 DEF AlreadyDone, Complete, PageChanged, Fail, FailOperation, Goto, Steps
  <2> QED
    BY <2>1, <2>2, OthersOut, LatestAlone
<1>9. CASE (\E s \in Sources : EditSource(s)) \/ (\E a \in Pages : EditPage(a)) \/ IsolateLock
  BY <1>9, LatestQuiet DEF EditSource, EditPage, IsolateLock
<1>10. CASE UNCHANGED vars
  BY <1>10, LatestQuiet DEF vars
<1> QED
  BY <1>1, <1>2, <1>3, <1>4, <1>5, <1>6, <1>7, <1>8, <1>9, <1>10
     DEF Next, User, Advance, PageStep, Fault

-----------------------------------------------------------------------------
(* The refinement mapping *)

Attempts == [n \in DOMAIN ops |-> [key |-> ops[n].key, outcome |-> ops[n].status]]
Taken == [i \in DOMAIN events |-> events[i].op]

LEMMA MappedOps ==
  ASSUME NEW s \in Seq(Operation)
  PROVE  LET a == [n \in DOMAIN s |-> [key |-> s[n].key, outcome |-> s[n].status]]
         IN  a \in Seq([key : Job, outcome : {"running", "completed", "failed"}])
             /\ DOMAIN a = DOMAIN s /\ Len(a) = Len(s)
<1> DEFINE a == [n \in DOMAIN s |-> [key |-> s[n].key, outcome |-> s[n].status]]
           Attempt == [key : Job, outcome : {"running", "completed", "failed"}]
<1>1. \A n \in DOMAIN s : s[n] \in Operation
  OBVIOUS
<1>2. \A n \in DOMAIN s : a[n] \in Attempt
  BY <1>1 DEF Operation
<1>3. a = [n \in DOMAIN s |-> a[n]]
  OBVIOUS
<1> HIDE DEF a, Attempt
<1>4. a \in Seq(Attempt) /\ DOMAIN a = DOMAIN s /\ Len(a) = Len(s)
  BY <1>2, <1>3, MapSeq
<1> QED
  BY <1>4 DEF a, Attempt

LEMMA MappedEvents ==
  ASSUME NEW s \in Seq(Event)
  PROVE  LET a == [i \in DOMAIN s |-> s[i].op]
         IN  a \in Seq(Nat) /\ DOMAIN a = DOMAIN s /\ Len(a) = Len(s)
<1> DEFINE a == [i \in DOMAIN s |-> s[i].op]
<1>1. \A i \in DOMAIN s : s[i] \in Event
  OBVIOUS
<1>2. \A i \in DOMAIN s : a[i] \in Nat
  BY <1>1 DEF Event
<1>3. a = [i \in DOMAIN s |-> a[i]]
  OBVIOUS
<1> HIDE DEF a
<1>4. a \in Seq(Nat) /\ DOMAIN a = DOMAIN s /\ Len(a) = Len(s)
  BY <1>2, <1>3, MapSeq
<1> QED
  BY <1>4 DEF a

\* begin_operation starts an attempt.
LEMMA BeginStarts ==
  ASSUME TypeInv, TypeInv', NEW p \in Procs, Begin(p)
  PROVE  Ledger!Start
<1>1. /\ ops' = Append(ops, [key |-> job[p], status |-> "running", step |-> "start"])
      /\ events' = events /\ ops \in Seq(Operation) /\ ops' \in Seq(Operation)
  BY DEF Begin, TypeInv, TypeOK
<1>2. /\ Len(ops') = Len(ops) + 1 /\ DOMAIN ops' = 1 .. Len(ops) + 1 /\ DOMAIN ops = 1 .. Len(ops)
      /\ \A n \in DOMAIN ops : ops'[n] = ops[n]
      /\ ops'[Len(ops) + 1].status = "running" /\ Len(ops) \in Nat
  BY <1>1
<1>3. /\ DOMAIN Attempts = DOMAIN ops /\ Len(Attempts) = Len(ops)
      /\ Len(Attempts') = Len(ops')
  BY <1>1, MappedOps DEF Attempts
<1>4. Taken' = Taken
  BY <1>1 DEF Taken
<1>5. Attempts'[Len(Attempts')].outcome = "running"
  BY <1>2, <1>3 DEF Attempts
<1>6. \A n \in DOMAIN Attempts : Attempts'[n] = Attempts[n]
  BY <1>2, <1>3 DEF Attempts
<1> QED
  BY <1>2, <1>3, <1>4, <1>5, <1>6 DEF Ledger!Start, Attempts, Taken

\* append_change_event commits it.
LEMMA AppendCommits ==
  ASSUME TypeInv, TypeInv', LogInv, LatestInv, NEW p \in Procs, AppendChangeLog(p)
  PROVE  Ledger!Commit
<1> DEFINE n == Len(ops)
<1>1. /\ pc[p] = "append-change-log" /\ ops' = ops
      /\ events' = Append(events, [sequence |-> NextSequence, op |-> cur[p], key |-> job[p]])
  BY DEF AppendChangeLog, At
<1>2. ops \in Seq(Operation) /\ events \in Seq(Event) /\ events' \in Seq(Event)
  BY DEF TypeInv, TypeOK
<1>3. /\ cur[p] = n /\ n \in DOMAIN ops /\ n # 0
      /\ ops[n].status = "running" /\ ops[n].key = job[p]
      /\ \A i \in DOMAIN events : events[i].op # n
      /\ job[p].kind # "rebuild"
  BY <1>1, <1>2 DEF LatestInv, LogInv, OwnOperation, Steps, TypeInv, WhereOK
<1>4. /\ DOMAIN Attempts = DOMAIN ops /\ Len(Attempts) = n
      /\ DOMAIN Taken = DOMAIN events
  BY <1>2, MappedOps, MappedEvents DEF Attempts, Taken
<1>5. Attempts[n].outcome = "running" /\ Attempts[n].key = job[p]
  BY <1>3 DEF Attempts
<1>6. \A i \in DOMAIN Taken : Taken[i] # n
  BY <1>3, <1>4 DEF Taken
<1>7. job[p].kind = "ingest" => \A i \in DOMAIN Taken : Attempts[Taken[i]].key # job[p]
  <2>1. job[p].kind = "ingest" => \A i \in DOMAIN events : events[i].key # job[p]
    BY <1>1 DEF LogInv, NotYetLogged, Steps
  <2>2. \A i \in DOMAIN events : Attempts[Taken[i]].key = events[i].key
    BY DEF Attempts, Taken, LogInv, NumberedEvents, TypeInv, EventsOK
  <2> QED
    BY <1>4, <2>1, <2>2
<1>8. Taken' = Append(Taken, n)
  <2> DEFINE e == [sequence |-> NextSequence, op |-> cur[p], key |-> job[p]]
  <2>1. e.op = n
    BY <1>3
  <2> HIDE DEF e
  <2>2. /\ events' = Append(events, e) /\ Len(events') = Len(events) + 1
        /\ DOMAIN events' = 1 .. Len(events) + 1 /\ DOMAIN events = 1 .. Len(events)
        /\ Len(events) \in Nat
        /\ \A i \in DOMAIN events : events'[i] = events[i]
        /\ events'[Len(events) + 1] = e
    BY <1>1, <1>2 DEF e
  <2>3. Taken \in Seq(Nat) /\ Len(Taken) = Len(events)
    BY <1>2, MappedEvents DEF Taken
  <2>4. Taken' = [i \in DOMAIN events' |-> events'[i].op]
    BY DEF Taken
  <2>5. /\ Append(Taken, n) \in Seq(Nat) /\ Len(Append(Taken, n)) = Len(events) + 1
        /\ \A i \in 1 .. Len(events) : Append(Taken, n)[i] = Taken[i]
        /\ Append(Taken, n)[Len(events) + 1] = n
    BY <2>2, <2>3, <1>2
  <2>6. Taken' \in Seq(Nat) /\ Len(Taken') = Len(events) + 1
    BY <1>2, <2>2, MappedEvents DEF Taken
  <2>7. \A i \in 1 .. Len(events) + 1 : Taken'[i] = Append(Taken, n)[i]
    BY <2>1, <2>2, <2>5 DEF Taken
  <2> QED
    BY <2>5, <2>6, <2>7
<1>9. Attempts' = Attempts
  BY <1>1 DEF Attempts
<1> HIDE DEF n
<1> QED
  BY <1>3, <1>4, <1>5, <1>6, <1>7, <1>8, <1>9, ZenonT(60) DEF Ledger!Commit, Ledger!IsLogged, Attempts, Taken

\* update_operation settles one, or records a step of which the ledger knows
\* nothing.
LEMMA UpdateSettles ==
  ASSUME TypeInv, CompletedIsLogged', events' = events,
         NEW n \in DOMAIN ops, NEW o \in {"running", "completed", "failed"}, NEW step,
         ops' = update_operation(n, o, step)
  PROVE  Ledger!Settle
<1>1. ops \in Seq(Operation) /\ n \in Nat
  BY DEF TypeInv, TypeOK
<1> DEFINE r == [key |-> ops[n].key, status |-> o, step |-> step]
<1>2. r.key = ops[n].key /\ r.status = o
  OBVIOUS
<1> HIDE DEF r
<1>3. /\ DOMAIN ops' = DOMAIN ops /\ ops'[n] = r
      /\ \A k \in DOMAIN ops : k # n => ops'[k] = ops[k]
  BY <1>1 DEF update_operation, r
<1>4. Attempts' = [Attempts EXCEPT ![n] = [key |-> Attempts[n].key, outcome |-> o]]
  BY <1>2, <1>3 DEF Attempts
<1>5. o = "completed" => Attempts[n].key.kind = "rebuild" \/ \E i \in DOMAIN Taken : Taken[i] = n
  BY <1>2, <1>3 DEF CompletedIsLogged, Attempts, Taken
<1>6. Taken' = Taken /\ DOMAIN Attempts = DOMAIN ops
  BY DEF Taken, Attempts
<1> QED
  BY <1>4, <1>5, <1>6, ZenonT(60) DEF Ledger!Settle, Ledger!IsLogged, Ledger!Outcomes, Attempts, Taken

\* Every step is a step of the ledger or none.
LEMMA StepImplements ==
  ASSUME TypeInv, TypeInv', LogInv, LogInv', LatestInv, [Next]_vars
  PROVE  [Ledger!Next]_<<Attempts, Taken>>
<1> DEFINE Settled == \E n \in DOMAIN ops, o \in {"running", "completed", "failed"} : \E step :
                        ops' = update_operation(n, o, step)
<1>1. ASSUME UNCHANGED <<ops, events>> PROVE UNCHANGED <<Attempts, Taken>>
  BY <1>1 DEF Attempts, Taken
<1>2. ASSUME NEW p \in Procs, Begin(p) PROVE Ledger!Next
  BY <1>2, BeginStarts DEF Ledger!Next
<1>3. ASSUME NEW p \in Procs, AppendChangeLog(p) PROVE Ledger!Next
  BY <1>3, AppendCommits DEF Ledger!Next
<1>4. ASSUME events' = events, Settled PROVE Ledger!Next
  BY <1>4, UpdateSettles DEF LogInv, Ledger!Next
<1>5. ASSUME NEW p \in Procs, AlreadyDone(p) \/ Enter(p) \/ Complete(p) \/ PageChanged(p) \/ Fail(p)
      PROVE  events' = events /\ (ops' = ops \/ Settled)
  <2>1. CASE AlreadyDone(p)
    BY <2>1 DEF AlreadyDone, Completions, TypeInv, EventsOK
  <2>2. CASE Enter(p) \/ Complete(p)
    BY <2>2 DEF Enter, Complete, At, TypeInv, WhereOK, Steps
  <2>3. CASE PageChanged(p) \/ Fail(p)
    BY <2>3 DEF PageChanged, Fail, FailOperation, At, TypeInv, WhereOK, Steps
  <2> QED
    BY <1>5, <2>1, <2>2, <2>3
<1> HIDE DEF Settled
<1>6. CASE \E p \in Procs :
             \/ Begin(p) \/ AppendChangeLog(p)
             \/ AlreadyDone(p) \/ Enter(p) \/ Complete(p) \/ PageChanged(p) \/ Fail(p)
  BY <1>1, <1>2, <1>3, <1>4, <1>5, <1>6
<1>7. CASE ~\E p \in Procs :
             \/ Begin(p) \/ AppendChangeLog(p)
             \/ AlreadyDone(p) \/ Enter(p) \/ Complete(p) \/ PageChanged(p) \/ Fail(p)
  <2>1. UNCHANGED <<ops, events>>
    BY <1>7, ZenonT(60) DEF Next, User, Advance, PageStep, Fault, Draft, Preview, Submit, Acquire, Timeout, Refuse,
       WriteSourcePending, SkipPage, CheckPage, ReplacePage, WritePageRegistry, WriteProjection,
       WriteSourceProcessed, Release, FailBegin, Crash, EditSource, EditPage, IsolateLock,
       vaultVars, vars
  <2> QED
    BY <1>1, <2>1
<1> QED
  BY <1>6, <1>7

\* The write path is an implementation of the ledger: seen from its callers an
\* attempt takes effect at once or not at all, an ingest payload only once, and
\* it is called completed only when it has.
THEOREM Implements == Spec => ImplementsLedger
<1>1. Init => Ledger!Init
  <2> SUFFICES ASSUME Init PROVE Ledger!Init
    OBVIOUS
  <2>1. ops = <<>> /\ events = <<>>
    BY DEF Init
  <2> QED
    BY <2>1 DEF Ledger!Init
<1>2. Init => LatestInv
  BY DEF Init, LatestInv, Steps
<1>3. /\ TypeInv /\ MutualExclusion /\ LogInv /\ LatestInv
      /\ (TypeInv /\ MutualExclusion /\ LogInv /\ LatestInv)'
      /\ [Next]_vars
      => [Ledger!Next]_<<Attempts, Taken>>
  BY StepImplements
<1>4. Spec => [](TypeInv /\ MutualExclusion /\ LogInv /\ LatestInv)
  BY LogInvariant, LatestNext, <1>2, PTL DEF Spec
<1>5. Spec => Ledger!Init /\ [][Ledger!Next]_<<Attempts, Taken>>
  BY <1>1, <1>3, <1>4, PTL DEF Spec
<1> QED
  BY <1>5, PTL DEF ImplementsLedger, Ledger!Spec, Attempts, Taken

-----------------------------------------------------------------------------
(* The one variable that stands for lock.json keeps what VaultLock shows of   *)
(* the file: both implement VaultMutex.                                       *)

Commanding == {p \in Procs : pc[p] \in Inside}

Mutex == INSTANCE VaultMutex WITH holder <- lock, inside <- Commanding

\* Who has the lock is inside a command, so a step is what it does to the lock.
LEMMA MutexStep ==
  ASSUME MutualExclusion, MutualExclusion', [Next]_vars
  PROVE  [Mutex!Next]_<<lock, Commanding>>
<1>1. Commanding = {p \in Procs : lock = p} /\ Commanding' = {p \in Procs : lock' = p}
  BY DEF MutualExclusion, Commanding
<1>2. CASE lock' = lock
  BY <1>1, <1>2
<1>3. ASSUME NEW p \in Procs, Acquire(p) PROVE [Mutex!Next]_<<lock, Commanding>>
  <2>1. lock = "free" /\ lock' = p
    BY <1>3 DEF Acquire
  <2>2. CASE lock = p
    BY <2>1, <2>2, <1>2
  <2>3. CASE lock # p
    <3>1. Commanding = {} /\ Commanding' = {p}
      BY <1>1, <2>1, NamesAssumption
    <3> QED
      BY <2>1, <3>1 DEF Mutex!Next, Mutex!Take
  <2> QED
    BY <2>2, <2>3
<1>4. ASSUME NEW p \in Procs, Release(p) \/ Crash(p), lock' # lock PROVE Mutex!Return(p)
  <2>1. lock = p /\ lock' \in {"free", "orphan"}
    BY <1>4 DEF Release, Crash
  <2>2. Commanding = {p} /\ Commanding' = {}
    BY <1>1, <2>1, NamesAssumption
  <2> QED
    BY <2>1, <2>2 DEF Mutex!Return
<1>5. CASE IsolateLock
  <2>1. lock = "orphan" /\ lock' = "free" /\ Commanding' = Commanding
    BY <1>5, SMTT(40) DEF IsolateLock, procVars, Commanding
  <2> QED
    BY <2>1 DEF Mutex!Next, Mutex!Clear
<1>6. \/ lock' = lock \/ IsolateLock
      \/ \E p \in Procs : Acquire(p) \/ ((Release(p) \/ Crash(p)) /\ lock' # lock)
  BY ZenonT(60) DEF Next, User, Advance, Fault, PageStep, Draft, Preview, Submit, EditSource, EditPage, Timeout,
     Refuse, AlreadyDone, Begin, Enter, WriteSourcePending, SkipPage, CheckPage, ReplacePage,
     PageChanged, WritePageRegistry, WriteProjection, WriteSourceProcessed, AppendChangeLog,
     Complete, FailBegin, Fail, FailOperation, vars
<1>7. ASSUME NEW p \in Procs, (Release(p) \/ Crash(p)) /\ lock' # lock PROVE Mutex!Next
  BY <1>4, <1>7 DEF Mutex!Next
<1> QED
  BY <1>2, <1>3, <1>5, <1>6, <1>7

\* Seen as a lock, the variable lock is taken when it is free, given back by its
\* holder or left by its death, and cleared only then, and only its holder is
\* inside a command.
THEOREM MutexImplemented == Spec => Mutex!Spec
<1>1. Init => Mutex!Init
  BY DEF Init, Mutex!Init, Commanding, Inside, Steps, Exits
<1>2. MutualExclusion /\ MutualExclusion' /\ [Next]_vars => [Mutex!Next]_<<lock, Commanding>>
  BY MutexStep
<1>3. Spec => Mutex!Init /\ [][Mutex!Next]_<<lock, Commanding>>
  BY <1>1, <1>2, Exclusion, PTL DEF Spec
<1> QED
  BY <1>3, PTL DEF Mutex!Spec

-----------------------------------------------------------------------------
(* ConfirmedStateHolds says what a process finds when it writes.  On the way *)
(* there its source record is pending, and no page of its plan conflicts.    *)

BeforeRegistry == {"write-source-pending", "write-pages", "write-page-registry"}
WhilePending == {"write-pages", "write-page-registry", "write-projections",
                 "write-source-processed"}

PlanHolds(p) ==
  /\ pc[p] = "write-source-pending" => sources = plan[p].sources
  /\ pc[p] \in WhilePending /\ job[p].kind = "ingest" =>
       sources = SourcesWith(job[p], plan[p].sources, "pending", cur[p])
  /\ pc[p] \in BeforeRegistry /\ job[p].kind # "rebuild" =>
       /\ pages = plan[p].pages
       /\ \A i \in DOMAIN job[p].pages :
            ~PageConflict(job[p].pages[i], plan[p].files[job[p].pages[i].path],
                          plan[p].pages[job[p].pages[i].path])
  /\ pc[p] \in Steps \ {"complete"} /\ job[p].kind # "rebuild" => events = plan[p].events

PlanInv == \A p \in Procs : PlanHolds(p)

\* A step that leaves registries and log alone and takes nobody into a step.
LEMMA PlanQuiet ==
  ASSUME PlanInv, UNCHANGED <<sources, pages, events>>,
         \A q \in Procs :
           \/ pc'[q] \notin Steps
           \/ UNCHANGED <<pc[q], job[q], plan[q], cur[q]>>
  PROVE  PlanInv'
<1> SUFFICES ASSUME NEW q \in Procs PROVE PlanHolds(q)'
  BY DEF PlanInv
<1>1. CASE pc'[q] \notin Steps
  BY <1>1 DEF PlanHolds, Steps, BeforeRegistry, WhilePending
<1>2. CASE UNCHANGED <<pc[q], job[q], plan[q], cur[q]>>
  BY <1>2 DEF PlanInv, PlanHolds
<1> QED
  BY <1>1, <1>2

\* A step of the process that holds the lock concerns nobody else's plan.
LEMMA PlanOwn ==
  ASSUME MutualExclusion, NEW p \in Procs, pc[p] \in Inside, PlanHolds(p)',
         \A q \in Procs : q # p => pc'[q] = pc[q]
  PROVE  PlanInv'
<1> SUFFICES ASSUME NEW q \in Procs, q # p PROVE PlanHolds(q)'
  BY DEF PlanInv
<1>1. pc'[q] \notin Steps
  BY DEF MutualExclusion, Inside
<1> QED
  BY <1>1 DEF PlanHolds, Steps, BeforeRegistry, WhilePending

\* When the checksum computed under the lock is the confirmed one, so are the
\* registries and the log, and no page of the plan conflicts.
LEMMA BeginHolds == ASSUME TypeInv, NEW p \in Procs, Begin(p) PROVE PlanHolds(p)'
<1>1. /\ Plan(job[p]) = plan[p] /\ Confirmable(job[p])
      /\ UNCHANGED <<job, plan, sources, pages, events>>
  BY DEF Begin
<1>2. pc'[p] = FirstStep(job[p].kind) /\ job[p].kind \in Kinds
  BY DEF Begin, Goto, TypeInv, TypeOK, JobsOK
<1>3. CASE job[p].kind = "rebuild"
  BY <1>1, <1>2, <1>3 DEF FirstStep, PlanHolds, BeforeRegistry, WhilePending
<1>4. CASE job[p].kind \in {"ingest", "page"}
  <2>1. plan[p].pages = pages /\ plan[p].events = events
    BY <1>1, <1>4 DEF Plan
  <2>2. job[p].kind = "ingest" => plan[p].sources = sources
    BY <1>1 DEF Plan
  <2>3. ASSUME NEW i \in DOMAIN job[p].pages
        PROVE  ~PageConflict(job[p].pages[i], plan[p].files[job[p].pages[i].path],
                             plan[p].pages[job[p].pages[i].path])
    <3>1. job[p].pages[i].path \in Pages
      <4>1. job[p].pages \in Seq(Mutation)
        BY DEF TypeInv, TypeOK, Job
      <4>2. job[p].pages[i] \in Mutation
        BY <4>1
      <4> QED
        BY <4>2 DEF Mutation
    <3>2. plan[p].files[job[p].pages[i].path] = files[job[p].pages[i].path]
      BY <1>1, <3>1 DEF Plan, Targets
    <3> QED
      BY <1>1, <2>1, <3>2 DEF Confirmable
  <2>4. job[p].kind = "page" => pc'[p] = "write-pages"
    BY <1>2 DEF FirstStep
  <2>5. job[p].kind = "ingest" => pc'[p] = "write-source-pending"
    BY <1>2 DEF FirstStep
  <2> QED
    BY <1>1, <1>4, <2>1, <2>2, <2>3, <2>4, <2>5 DEF PlanHolds, BeforeRegistry, WhilePending
<1> QED
  BY <1>2, <1>3, <1>4 DEF Kinds

\* One step of any process, the user or a fault keeps every plan in force.
LEMMA PlanNext == TypeInv /\ MutualExclusion /\ PlanInv /\ [Next]_vars => PlanInv'
<1> SUFFICES ASSUME TypeInv, MutualExclusion, PlanInv, [Next]_vars PROVE PlanInv'
  OBVIOUS
<1>0. /\ pc \in [Procs -> {"idle", "waiting"} \cup Inside] /\ cur \in [Procs -> Nat]
      /\ job \in [Procs -> Job] /\ plan \in [Procs -> PlanRecord]
  BY DEF TypeInv, TypeOK
<1> USE <1>0 DEF procVars, vaultVars, boundVars
<1>1. ASSUME NEW p \in Procs, NEW r \in Requests, Draft(p, r) PROVE PlanInv'
  <2>1. pc'[p] \notin Steps
    BY <1>1 DEF Draft, Steps
  <2> QED
    BY <1>1, <2>1, PlanQuiet DEF Draft
<1>2. ASSUME NEW p \in Procs, Preview(p) PROVE PlanInv'
  <2>1. pc'[p] \notin Steps
    BY <1>2 DEF Preview, Steps
  <2> QED
    BY <1>2, <2>1, PlanQuiet DEF Preview
<1>3. ASSUME NEW p \in Procs, Submit(p) PROVE PlanInv'
  BY <1>3, PlanQuiet DEF Submit, Steps
<1>4. ASSUME NEW p \in Procs, Acquire(p) PROVE PlanInv'
  BY <1>4, PlanQuiet DEF Acquire, Steps
<1>5. ASSUME NEW p \in Procs, Timeout(p) PROVE PlanInv'
  BY <1>5, PlanQuiet DEF Timeout, Steps
<1>6. ASSUME NEW p \in Procs, Refuse(p) PROVE PlanInv'
  BY <1>6, PlanQuiet DEF Refuse, Steps
<1>7. ASSUME NEW p \in Procs, AlreadyDone(p) PROVE PlanInv'
  BY <1>7, PlanQuiet DEF AlreadyDone, Steps
<1>8. ASSUME NEW p \in Procs, Begin(p) PROVE PlanInv'
  BY <1>8, BeginHolds, PlanOwn DEF Begin, Goto, Inside
<1>9. ASSUME NEW p \in Procs, Enter(p) PROVE PlanInv'
  BY <1>9, PlanQuiet DEF Enter
<1>10. ASSUME NEW p \in Procs, WriteSourcePending(p) PROVE PlanInv'
  <2>1. PlanHolds(p)'
    BY <1>10 DEF WriteSourcePending, At, Goto, PlanInv, PlanHolds, BeforeRegistry, WhilePending, Steps,
          TypeInv, WhereOK
  <2> QED
    BY <1>10, <2>1, PlanOwn DEF WriteSourcePending, At, Goto, Inside, Steps
<1>11. ASSUME NEW p \in Procs, SkipPage(p) PROVE PlanInv'
  <2>1. /\ AfterPage(p) /\ pc[p] = "write-pages"
        /\ UNCHANGED <<job, plan, cur, sources, pages, events>>
    BY <1>11 DEF SkipPage, At
  <2>2. PlanHolds(p)'
    BY <2>1, AfterPageType DEF PlanInv, PlanHolds, BeforeRegistry, WhilePending, Steps
  <2> QED
    BY <2>1, <2>2, AfterPageType, PlanOwn DEF Inside, Steps
<1>12. ASSUME NEW p \in Procs, CheckPage(p) PROVE PlanInv'
  BY <1>12, PlanQuiet DEF CheckPage
<1>13. ASSUME NEW p \in Procs, ReplacePage(p) PROVE PlanInv'
  <2>1. /\ AfterPage(p) /\ pc[p] = "write-pages"
        /\ UNCHANGED <<job, plan, cur, sources, pages, events>>
    BY <1>13 DEF ReplacePage, At
  <2>2. PlanHolds(p)'
    BY <2>1, AfterPageType DEF PlanInv, PlanHolds, BeforeRegistry, WhilePending, Steps
  <2> QED
    BY <2>1, <2>2, AfterPageType, PlanOwn DEF Inside, Steps
<1>14. ASSUME NEW p \in Procs, PageChanged(p) PROVE PlanInv'
  BY <1>14, PlanQuiet DEF PageChanged, FailOperation, Steps
<1>15. ASSUME NEW p \in Procs, WritePageRegistry(p) PROVE PlanInv'
  <2>1. PlanHolds(p)'
    BY <1>15 DEF WritePageRegistry, At, Goto, PlanInv, PlanHolds, BeforeRegistry, WhilePending, Steps,
          TypeInv, WhereOK
  <2> QED
    BY <1>15, <2>1, PlanOwn DEF WritePageRegistry, At, Goto, Inside, Steps
<1>16. ASSUME NEW p \in Procs, WriteProjection(p) PROVE PlanInv'
  <2>1. /\ pc[p] = "write-projections"
        /\ UNCHANGED <<job, plan, cur, sources, pages, events>>
    BY <1>16 DEF WriteProjection, At
  <2>2. PlanHolds(p)'
    BY <1>16, <2>1, NextProjectionType
       DEF PlanInv, PlanHolds, BeforeRegistry, WhilePending, Steps
  <2> QED
    BY <1>16, <2>1, <2>2, NextProjectionType, PlanOwn DEF Inside, Steps
<1>17. ASSUME NEW p \in Procs, WriteSourceProcessed(p) PROVE PlanInv'
  <2>1. PlanHolds(p)'
    BY <1>17 DEF WriteSourceProcessed, At, Goto, PlanInv, PlanHolds, BeforeRegistry, WhilePending, Steps,
          TypeInv, WhereOK
  <2> QED
    BY <1>17, <2>1, PlanOwn DEF WriteSourceProcessed, At, Goto, Inside, Steps
<1>18. ASSUME NEW p \in Procs, AppendChangeLog(p) PROVE PlanInv'
  <2>1. PlanHolds(p)'
    BY <1>18 DEF AppendChangeLog, At, Goto, PlanInv, PlanHolds, BeforeRegistry, WhilePending, Steps,
          TypeInv, WhereOK
  <2> QED
    BY <1>18, <2>1, PlanOwn DEF AppendChangeLog, At, Goto, Inside, Steps
<1>19. ASSUME NEW p \in Procs, Complete(p) PROVE PlanInv'
  <2>1. PlanHolds(p)'
    BY <1>19 DEF Complete, At, Goto, PlanInv, PlanHolds, BeforeRegistry, WhilePending, Steps,
          TypeInv, WhereOK
  <2> QED
    BY <1>19, <2>1, PlanOwn DEF Complete, At, Goto, Inside, Steps
<1>20. ASSUME NEW p \in Procs, Release(p) PROVE PlanInv'
  BY <1>20, PlanQuiet DEF Release, Steps
<1>21. ASSUME NEW p \in Procs, FailBegin(p) PROVE PlanInv'
  BY <1>21, PlanQuiet DEF FailBegin, Steps
<1>22. ASSUME NEW p \in Procs, Fail(p) PROVE PlanInv'
  BY <1>22, PlanQuiet DEF Fail, FailOperation, Steps
<1>23. ASSUME NEW p \in Procs, Crash(p) PROVE PlanInv'
  BY <1>23, PlanQuiet DEF Crash, Steps
<1>24. CASE \E s \in Sources : EditSource(s)
  BY <1>24, PlanQuiet DEF EditSource
<1>25. CASE \E a \in Pages : EditPage(a)
  BY <1>25, PlanQuiet DEF EditPage
<1>26. CASE IsolateLock
  BY <1>26, PlanQuiet DEF IsolateLock
<1>27. CASE UNCHANGED vars
  BY <1>27, PlanQuiet DEF vars
<1> QED
  BY <1>1, <1>2, <1>3, <1>4, <1>5, <1>6, <1>7, <1>8, <1>9, <1>10, <1>11, <1>12, <1>13, <1>14,
     <1>15, <1>16, <1>17, <1>18, <1>19, <1>20, <1>21, <1>22, <1>23, <1>24, <1>25, <1>26, <1>27
     DEF Next, User, Advance, PageStep, Fault

\* From the comparison of plan checksums to its last write, a transaction finds
\* registries and log as planned, but for what it wrote itself.
THEOREM PlanInvariant == Spec => [](TypeInv /\ MutualExclusion /\ PlanInv)
<1>1. Init => MutualExclusion /\ PlanInv
  BY NamesAssumption DEF Init, MutualExclusion, PlanInv, PlanHolds, BeforeRegistry,
     WhilePending, Inside, Steps, Exits
<1> QED
  BY <1>1, TypeInit, TypeNext, ExclusionNext, PlanNext, PTL DEF Spec

\* No command overwrites a registry, or extends a log, other than the one whose
\* checksum its user confirmed: no update of another command is lost.
THEOREM NoLostUpdate == Spec => []ConfirmedStateHolds
<1>1. TypeInv /\ PlanInv => ConfirmedStateHolds
  BY DEF PlanInv, PlanHolds, ConfirmedStateHolds, BeforeRegistry, WhilePending, TypeInv, WhereOK
<1> QED
  BY <1>1, PlanInvariant, PTL

-----------------------------------------------------------------------------
(* Page revisions *)

\* RecordsAfter never loses a record, and counts every change of content, if
\* it is given the registry and the files a plan without conflict was made of.
LEMMA RecordsAdvance ==
  ASSUME NEW j \in Job, NEW pgs \in [Pages -> PageRecord], NEW fs \in [Pages -> File],
         \A i \in DOMAIN j.pages :
           ~PageConflict(j.pages[i], fs[j.pages[i].path], pgs[j.pages[i].path]),
         NEW a \in Pages
  PROVE  /\ RecordsAfter(j, pgs, fs)[a].rev >= pgs[a].rev
         /\ RecordsAfter(j, pgs, fs)[a].content # pgs[a].content =>
              RecordsAfter(j, pgs, fs)[a].rev > pgs[a].rev
<1>1. pgs[a].rev \in Nat
  BY DEF PageRecord
<1>2. CASE a \notin Targets(j)
  BY <1>1, <1>2 DEF RecordsAfter
<1>3. CASE a \in Targets(j)
  <2> DEFINE i == CHOOSE i \in DOMAIN j.pages : j.pages[i].path = a
             wanted == Wanted(j, j.pages[i], pgs)
  <2>1. i \in DOMAIN j.pages /\ j.pages[i].path = a
    BY <1>3 DEF Targets
  <2>2. RecordsAfter(j, pgs, fs)[a] =
          [content |-> wanted,
           rev |-> IF PageUnchanged(wanted, fs[a]) THEN pgs[a].rev ELSE pgs[a].rev + 1]
    BY <1>3 DEF RecordsAfter
  <2>3. ~PageConflict(j.pages[i], fs[a], pgs[a])
    BY <2>1
  <2> HIDE DEF i, wanted
  <2>4. CASE PageUnchanged(wanted, fs[a])
    <3>1. fs[a].state = "managed" /\ fs[a].content = wanted
      BY <2>4 DEF PageUnchanged
    <3>2. pgs[a].content = wanted
      BY <2>3, <3>1 DEF PageConflict
    <3> QED
      BY <1>1, <2>2, <2>4, <3>2
  <2>5. CASE ~PageUnchanged(wanted, fs[a])
    BY <1>1, <2>2, <2>5
  <2> QED
    BY <2>4, <2>5
<1> QED
  BY <1>2, <1>3

\* What any step may do to the page registry.
RecordsAdvanced ==
  \A a \in Pages :
    /\ pages'[a].rev >= pages[a].rev
    /\ pages'[a].content # pages[a].content => pages'[a].rev > pages[a].rev

\* Only _planned_page_records changes it, from the registry that was planned.
LEMMA RevisionsNext == TypeInv /\ PlanInv /\ [Next]_vars => RecordsAdvanced
<1> SUFFICES ASSUME TypeInv, PlanInv, [Next]_vars PROVE RecordsAdvanced
  OBVIOUS
<1>1. CASE UNCHANGED pages
  BY <1>1 DEF RecordsAdvanced, TypeInv, TypeOK, PageRecord
<1>2. CASE \E p \in Procs : WritePageRegistry(p)
  <2>1. PICK p \in Procs : WritePageRegistry(p)
    BY <1>2
  <2>2. pc[p] = "write-page-registry" /\ job[p].kind # "rebuild"
    BY <2>1 DEF WritePageRegistry, At, TypeInv, WhereOK
  <2>3. /\ pages = plan[p].pages
        /\ \A i \in DOMAIN job[p].pages :
             ~PageConflict(job[p].pages[i], plan[p].files[job[p].pages[i].path],
                           plan[p].pages[job[p].pages[i].path])
    BY <2>2 DEF PlanInv, PlanHolds, BeforeRegistry
  <2>4. pages' = RecordsAfter(job[p], plan[p].pages, plan[p].files)
    BY <2>1 DEF WritePageRegistry
  <2>5. /\ job[p] \in Job /\ plan[p].pages \in [Pages -> PageRecord]
        /\ plan[p].files \in [Pages -> File]
    BY SMTT(40) DEF TypeInv, TypeOK, PlanRecord
  <2> QED
    BY <2>3, <2>4, <2>5, RecordsAdvance DEF RecordsAdvanced
<1>3. UNCHANGED pages \/ \E p \in Procs : WritePageRegistry(p)
  BY ZenonT(60) DEF Next, User, Advance, PageStep, Fault, Draft, Preview, Submit, Acquire, Timeout, Refuse,
         AlreadyDone, Begin, Enter, WriteSourcePending, SkipPage, CheckPage, ReplacePage,
         PageChanged, WriteProjection, WriteSourceProcessed, AppendChangeLog, Complete,
         Release, FailBegin, Fail, FailOperation, Crash, EditSource, EditPage, IsolateLock,
         vaultVars, vars
<1> QED
  BY <1>1, <1>2, <1>3

\* No page record is lost or goes back, and none changes under its revision.
THEOREM Revisions == Spec => RevisionsAdvance
<1>1. TypeInv /\ PlanInv /\ [Next]_vars => [RecordsAdvanced]_vars
  BY RevisionsNext
<1> QED
  BY <1>1, PlanInvariant, PTL DEF Spec, RevisionsAdvance, RecordsAdvanced

=============================================================================
