-------------------------- MODULE VaultTransaction --------------------------
(***************************************************************************)
(* The write path of a vault: `ingest apply`, `page apply` and             *)
(* `projection rebuild` run by several processes against one control       *)
(* center.  A command is previewed without a lock, confirmed by the user   *)
(* through the checksum of its plan, and applied under .meta/lock.json as  *)
(* a sequence of separate file writes, any of which may fail, and between  *)
(* any two of which the process may die or the user may edit a page.       *)
(*                                                                         *)
(* Sources here are read in place (path-index, summary-ingest); a source   *)
(* is named by its path.                                                   *)
(***************************************************************************)
EXTENDS Naturals, Sequences

CONSTANTS Procs,        \* processes that run llm_wiki.py
          Sources,      \* source paths
          Pages,        \* wiki page paths
          Texts,        \* managed bodies a payload may ask for
          UserText,     \* a managed body typed by hand
          Requests,     \* what users ask for: payloads without their checksums
          MaxOps,       \* bound on operations started
          MaxEdits,     \* bound on edits made outside the runtime
          MaxFaults     \* bound on failed writes and dead processes

NoName == ""

Kinds == {"ingest", "page", "rebuild"}

Request ==
  [kind : Kinds, source : Sources \cup {NoName}, proxy : Pages \cup {NoName},
   pages : Seq([path : Pages, text : Texts, takeover : BOOLEAN])]

ASSUME BoundsAssumption == MaxOps \in Nat /\ MaxEdits \in Nat /\ MaxFaults \in Nat

ASSUME NamesAssumption ==
  /\ NoName \notin Sources \cup Pages \cup Texts \cup {UserText}
  /\ {"free", "orphan"} \cap Procs = {}

\* What the payload parsers accept: distinct paths, one of them the source
\* proxy of an ingest, and at least one page unless it is a rebuild.
ASSUME RequestsAssumption ==
  /\ Requests \subseteq Request
  /\ \A r \in Requests :
       /\ \A i, k \in DOMAIN r.pages : r.pages[i].path = r.pages[k].path => i = k
       /\ r.kind = "rebuild" <=> r.pages = <<>>
       /\ r.kind = "ingest" => /\ r.source \in Sources
                               /\ \E i \in DOMAIN r.pages : r.pages[i].path = r.proxy

-----------------------------------------------------------------------------
(* Data *)

\* Managed content of a page, which is all its managed checksum tells apart.
Managed == [text : Texts \cup {UserText, NoName}, srcs : SUBSET Sources]
NoContent == [text |-> NoName, srcs |-> {}]

\* A page file; note stands for everything outside the managed regions.
File == [state : {"absent", "plain", "broken", "managed"}, content : Managed, note : Nat]
AbsentFile == [state |-> "absent", content |-> NoContent, note |-> 0]

PageRecord == [content : Managed, rev : Nat]
NoPage == [content |-> NoContent, rev |-> 0]

\* verified is the number of the operation whose last_verified_at was written.
SourceRecord == [status : {"none", "pending", "processed"}, version : Nat,
                 proxy : Pages \cup {NoName}, verified : Nat]
NoSource == [status |-> "none", version |-> 0, proxy |-> NoName, verified |-> 0]

Mutation == [path : Pages, text : Texts, takeover : BOOLEAN, expected : Managed]
Job == [kind : Kinds \cup {"none"}, source : Sources \cup {NoName}, version : Nat,
        proxy : Pages \cup {NoName}, pages : Seq(Mutation)]
NoJob == [kind |-> "none", source |-> NoName, version |-> 0, proxy |-> NoName,
          pages |-> <<>>]

Steps == {"write-source-pending", "write-pages", "write-page-registry",
          "write-projections", "write-source-processed", "append-change-log",
          "complete"}
Operation == [key : Job, status : {"running", "completed", "failed"},
              step : Steps \cup {"start"}]
Event == [sequence : Nat, op : Nat, key : Job]

Projections == {"wiki/index.md", "ingest/index.md", "wiki/log.md"}
ProjectionPaths == <<"wiki/index.md", "ingest/index.md", "wiki/log.md">>
Entry == [page : Pages] \cup [source : Sources, status : {"pending", "processed"},
                              proxy : Pages \cup {NoName}] \cup [sequence : Nat, op : Nat]
Projection == [exists : BOOLEAN, shown : SUBSET Entry]
NoProjection == [exists |-> FALSE, shown |-> {}]

VARIABLES
  lock,       \* .meta/lock.json: "free", its living holder, or "orphan"
  pc,         \* where each process is in its command
  job,        \* the payload each process holds; a file, so it survives a crash
  plan,       \* what the plan checksum the user confirmed was computed from
  armed,      \* whether the user holds such a checksum
  cur,        \* the operation a process runs, 0 if none
  at,         \* next page or projection of the step's loop
  checked,    \* the page's checksum was compared, its file not yet replaced
  disk,       \* current version of each source file
  files,      \* page files
  sources,    \* .meta/sources.json
  pages,      \* .meta/pages.json
  proj,       \* the projection files
  ops,        \* .meta/operations.json, in the order of their start
  events,     \* .meta/change-log.jsonl
  edits, faults  \* counters for the bounds

procVars == <<pc, job, plan, armed, cur, at, checked>>
vaultVars == <<files, sources, pages, proj, ops, events>>
boundVars == <<edits, faults>>
vars == <<lock, procVars, disk, vaultVars, boundVars>>

-----------------------------------------------------------------------------
(* Planning *)

Targets(j) == {j.pages[i].path : i \in DOMAIN j.pages}

\* The managed content a mutation asks for: an ingest attributes the page to
\* its own source, `page apply` keeps the registered source ids.
Wanted(j, m, pgs) ==
  [text |-> m.text,
   srcs |-> IF j.kind = "ingest" THEN {j.source} ELSE pgs[m.path].content.srcs]

\* plan_page_mutation: why a page cannot be written.
PageConflict(m, f, r) ==
  \/ f.state = "absent" /\ r.rev # 0                        \* missing-managed-page
  \/ f.state = "plain" /\ ~m.takeover                       \* takeover-required
  \/ f.state = "broken"                                     \* managed-marker-conflict
  \/ f.state = "managed" /\ \/ r.rev = 0                    \* orphan-managed-page
                            \/ r.content # f.content        \* registry-page-drift
                            \/ m.expected # f.content       \* managed-checksum-conflict

PageUnchanged(wanted, f) == f.state = "managed" /\ f.content = wanted

\* Seeded fault: the revision stays when the content of a page changes.
RecordsAfterSameRevision(j, pgs, fs) ==
  [a \in Pages |->
     IF a \notin Targets(j) THEN pgs[a]
     ELSE LET m == j.pages[CHOOSE i \in DOMAIN j.pages : j.pages[i].path = a]
          IN  [content |-> Wanted(j, m, pgs),
               rev |-> IF pgs[a].rev # 0 THEN pgs[a].rev ELSE 1]]

\* The page registry once the mutations of j are applied to the registry pgs
\* and the files fs it was planned from.
RecordsAfter(j, pgs, fs) ==
  [a \in Pages |->
     IF a \notin Targets(j) THEN pgs[a]
     ELSE LET m == j.pages[CHOOSE i \in DOMAIN j.pages : j.pages[i].path = a]
              wanted == Wanted(j, m, pgs)
          IN  [content |-> wanted,
               rev |-> IF PageUnchanged(wanted, fs[a]) THEN pgs[a].rev ELSE pgs[a].rev + 1]]

SourcesWith(j, srcs, status, op) ==
  [srcs EXCEPT ![j.source] = [status |-> status, version |-> j.version,
                              proxy |-> j.proxy, verified |-> op]]

\* The three renderers: wiki index from the page registry, ingest index from
\* the source registry (a proxy that is not registered shows as missing), log
\* from the change events.
RenderWikiIndex(pgs) == {[page |-> a] : a \in {b \in Pages : pgs[b].rev # 0}}

ShownProxy(proxy, pgs) ==
  IF proxy \in Pages /\ pgs[proxy].rev # 0 THEN proxy ELSE NoName

RenderIngestIndex(srcs, pgs) ==
  {[source |-> s, status |-> srcs[s].status, proxy |-> ShownProxy(srcs[s].proxy, pgs)] :
     s \in {t \in Sources : srcs[t].status # "none"}}

LogEntry(sequence, op) == [sequence |-> sequence, op |-> op]
RenderWikiLog(evs) == {LogEntry(evs[i].sequence, evs[i].op) : i \in DOMAIN evs}

\* Seeded fault: the last number is used again.
NextSequenceRepeated == IF events = <<>> THEN 1 ELSE events[Len(events)].sequence

NextSequence == IF events = <<>> THEN 1 ELSE events[Len(events)].sequence + 1

\* plan_projections, with the entries of a prospective event added to the log.
Rendered(f, srcs, pgs, prospective) ==
  CASE f = "wiki/index.md" -> RenderWikiIndex(pgs)
    [] f = "ingest/index.md" -> RenderIngestIndex(srcs, pgs)
    [] f = "wiki/log.md" -> RenderWikiLog(events) \cup prospective

\* The projections the plan of j announces as created or updated; the real
\* operation id is not known yet.
Announced(j) ==
  LET srcs == IF j.kind = "ingest" THEN SourcesWith(j, sources, "processed", 0) ELSE sources
      pgs == RecordsAfter(j, pages, files)
      prospective == IF j.kind = "rebuild" THEN {} ELSE {LogEntry(NextSequence, 0)}
  IN  {f \in Projections : ~proj[f].exists \/ proj[f].shown # Rendered(f, srcs, pgs, prospective)}

\* Seeded fault: the registries and the log are left out of the digest.
PlanWithoutRegistries(j) ==
  [files |-> [a \in Pages |-> IF a \in Targets(j) THEN files[a] ELSE AbsentFile],
   proj |-> proj, announced |-> Announced(j),
   sources |-> [s \in Sources |-> NoSource],
   pages |-> [a \in Pages |-> NoPage], events |-> <<>>]

\* Everything the plan checksum of j is computed from, besides j itself.  An
\* ingest digests every registry and the log, `page apply` leaves the source
\* registry out, a rebuild digests the projections alone.
Plan(j) ==
  [files |-> [a \in Pages |-> IF a \in Targets(j) THEN files[a] ELSE AbsentFile],
   proj |-> proj,
   announced |-> Announced(j),
   sources |-> IF j.kind = "ingest" THEN sources ELSE [s \in Sources |-> NoSource],
   pages |-> IF j.kind = "rebuild" THEN [a \in Pages |-> NoPage] ELSE pages,
   events |-> IF j.kind = "rebuild" THEN <<>> ELSE events]

Confirmable(j) ==
  \A i \in DOMAIN j.pages :
    ~PageConflict(j.pages[i], files[j.pages[i].path], pages[j.pages[i].path])

\* An ingest is planned only while its source file is as the payload says.
SourceIntact(j) == j.kind = "ingest" => disk[j.source] = j.version

\* The completed change event of an ingest payload; its idempotency key
\* digests the payload and the source id, which j determines.
Completions(j) == {i \in DOMAIN events : events[i].key = j}
\* Seeded fault: the change log is not searched for the payload.
AlreadyAppliedNever(j) == FALSE

AlreadyApplied(j) == j.kind = "ingest" /\ Completions(j) # {}

-----------------------------------------------------------------------------
(* State *)

PlanRecord == [files : [Pages -> File], proj : [Projections -> Projection],
               announced : SUBSET Projections, sources : [Sources -> SourceRecord],
               pages : [Pages -> PageRecord], events : Seq(Event)]

NoPlan == [files |-> [a \in Pages |-> AbsentFile],
           proj |-> [f \in Projections |-> NoProjection], announced |-> {},
           sources |-> [s \in Sources |-> NoSource],
           pages |-> [a \in Pages |-> NoPage], events |-> <<>>]

\* "return" leaves the command after it completed, "repeat" after it was found
\* applied before, "abort" after a refusal or a failure.
Exits == {"return", "repeat", "abort"}
Inside == {"replan"} \cup Steps \cup Exits

Init ==
  /\ lock = "free"
  /\ pc = [p \in Procs |-> "idle"]
  /\ job = [p \in Procs |-> NoJob]
  /\ plan = [p \in Procs |-> NoPlan]
  /\ armed = [p \in Procs |-> FALSE]
  /\ cur = [p \in Procs |-> 0]
  /\ at = [p \in Procs |-> 0]
  /\ checked = [p \in Procs |-> FALSE]
  /\ disk = [s \in Sources |-> 1]
  /\ files = [a \in Pages |-> AbsentFile]
  /\ sources = [s \in Sources |-> NoSource]
  /\ pages = [a \in Pages |-> NoPage]
  /\ proj = [f \in Projections |-> NoProjection]
  /\ ops = <<>>
  /\ events = <<>>
  /\ edits = 0
  /\ faults = 0

-----------------------------------------------------------------------------
(* The user and the agent *)

\* The agent writes a payload from what it reads now: the source's version,
\* and for each page the managed checksum found in its file.
Draft(p, r) ==
  /\ pc[p] = "idle"
  /\ job' = [job EXCEPT ![p] =
       [kind |-> r.kind, source |-> r.source, proxy |-> r.proxy,
        version |-> IF r.kind = "ingest" THEN disk[r.source] ELSE 0,
        pages |-> [i \in DOMAIN r.pages |->
                     [path |-> r.pages[i].path, text |-> r.pages[i].text,
                      takeover |-> r.pages[i].takeover,
                      expected |-> files[r.pages[i].path].content]]]]
  /\ armed' = [armed EXCEPT ![p] = FALSE]
  /\ plan' = [plan EXCEPT ![p] = NoPlan]
  /\ UNCHANGED <<lock, pc, cur, at, checked, disk, vaultVars, boundVars>>

\* Dry run: the plan is shown and, when confirmable, its checksum kept.
Preview(p) ==
  /\ pc[p] = "idle"
  /\ job[p] # NoJob
  /\ SourceIntact(job[p])
  /\ Confirmable(job[p])
  /\ armed' = [armed EXCEPT ![p] = TRUE]
  /\ plan' = [plan EXCEPT ![p] = Plan(job[p])]
  /\ UNCHANGED <<lock, pc, job, cur, at, checked, disk, vaultVars, boundVars>>

\* The command is run with --confirm and the checksum, perhaps again after it
\* failed, crashed or succeeded.  The CLI plans once more before it takes the
\* lock, and stops there if the source no longer matches the payload.
Submit(p) ==
  /\ pc[p] = "idle"
  /\ armed[p]
  /\ Len(ops) < MaxOps
  /\ SourceIntact(job[p])
  /\ pc' = [pc EXCEPT ![p] = "waiting"]
  /\ UNCHANGED <<lock, job, plan, armed, cur, at, checked, disk, vaultVars, boundVars>>

EditSource(s) ==
  /\ edits < MaxEdits
  /\ edits' = edits + 1
  /\ disk' = [disk EXCEPT ![s] = @ + 1]
  /\ UNCHANGED <<lock, procVars, vaultVars, faults>>

\* What an editor may leave: a page deleted, created by hand, written outside
\* its managed regions, inside them, or with its markers damaged.
Edited(f) ==
  IF f.state = "absent"
  THEN {[state |-> "plain", content |-> NoContent, note |-> edits + 1]}
  ELSE {AbsentFile, [f EXCEPT !.note = edits + 1],
        [state |-> "broken", content |-> NoContent, note |-> f.note]}
       \cup IF f.state = "managed"
            THEN {[f EXCEPT !.content = [text |-> UserText, srcs |-> @.srcs]]} ELSE {}

EditPage(a) ==
  /\ edits < MaxEdits
  /\ edits' = edits + 1
  /\ \E f \in Edited(files[a]) : files' = [files EXCEPT ![a] = f]
  /\ UNCHANGED <<lock, procVars, disk, sources, pages, proj, ops, events, faults>>

\* Maintain moves a lock whose holder is dead out of the way.
IsolateLock ==
  /\ lock = "orphan"
  /\ lock' = "free"
  /\ UNCHANGED <<procVars, disk, vaultVars, boundVars>>

-----------------------------------------------------------------------------
(* The lock *)

\* Seeded fault: the lock file is opened without O_EXCL.
AcquireAnyway(p) ==
  /\ pc[p] = "waiting"
  /\ lock' = p
  /\ pc' = [pc EXCEPT ![p] = "replan"]
  /\ UNCHANGED <<job, plan, armed, cur, at, checked, disk, vaultVars, boundVars>>

Acquire(p) ==
  /\ pc[p] = "waiting"
  /\ lock = "free"
  /\ lock' = p
  /\ pc' = [pc EXCEPT ![p] = "replan"]
  /\ UNCHANGED <<job, plan, armed, cur, at, checked, disk, vaultVars, boundVars>>

\* The lock stays taken until the deadline.
Timeout(p) ==
  /\ pc[p] = "waiting"
  /\ lock # "free"
  /\ pc' = [pc EXCEPT ![p] = "idle"]
  /\ UNCHANGED <<lock, job, plan, armed, cur, at, checked, disk, vaultVars, boundVars>>

Release(p) ==
  /\ pc[p] \in Exits
  /\ lock' = IF lock = p THEN "free" ELSE lock
  /\ pc' = [pc EXCEPT ![p] = "idle"]
  /\ cur' = [cur EXCEPT ![p] = 0]
  /\ at' = [at EXCEPT ![p] = 0]
  /\ UNCHANGED <<job, plan, armed, checked, disk, vaultVars, boundVars>>

-----------------------------------------------------------------------------
(* The command under the lock: it plans again and compares *)

Goto(p, step) ==
  /\ pc' = [pc EXCEPT ![p] = step]
  /\ at' = [at EXCEPT ![p] = 1]

\* plan-conflict or plan-not-confirmable, unless the ingest was applied before.
Refuse(p) ==
  /\ pc[p] = "replan"
  /\ \/ ~SourceIntact(job[p])
     \/ ~AlreadyApplied(job[p]) /\ (Plan(job[p]) # plan[p] \/ ~Confirmable(job[p]))
  /\ pc' = [pc EXCEPT ![p] = "abort"]
  /\ UNCHANGED <<lock, job, plan, armed, cur, at, checked, disk, vaultVars, boundVars>>

update_operation(n, status, step) ==
  [ops EXCEPT ![n] = [key |-> ops[n].key, status |-> status, step |-> step]]

\* Seeded fault: the operation started last is taken for the completed one.
AlreadyDoneLast(p) ==
  /\ pc[p] = "replan"
  /\ SourceIntact(job[p])
  /\ AlreadyApplied(job[p])
  /\ ops' = update_operation(Len(ops), "completed", "complete")
  /\ pc' = [pc EXCEPT ![p] = "repeat"]
  /\ UNCHANGED <<lock, job, plan, armed, cur, at, checked, disk, files, sources, pages,
                 proj, events, boundVars>>

\* _completed_ingest_result: the operation of the latest completed event is
\* marked completed, or left as it is if that write fails.
AlreadyDone(p) ==
  /\ pc[p] = "replan"
  /\ SourceIntact(job[p])
  /\ AlreadyApplied(job[p])
  /\ \E i \in Completions(job[p]) :
       /\ \A k \in Completions(job[p]) : k <= i
       /\ \/ ops' = update_operation(events[i].op, "completed", "complete")
          \/ ops' = ops
  /\ pc' = [pc EXCEPT ![p] = "repeat"]
  /\ UNCHANGED <<lock, job, plan, armed, cur, at, checked, disk, files, sources, pages,
                 proj, events, boundVars>>

FirstStep(kind) ==
  CASE kind = "ingest" -> "write-source-pending"
    [] kind = "page" -> "write-pages"
    [] kind = "rebuild" -> "write-projections"

\* begin_operation: a new operation for every application.
Begin(p) ==
  /\ pc[p] = "replan"
  /\ SourceIntact(job[p])
  /\ ~AlreadyApplied(job[p])
  /\ Plan(job[p]) = plan[p]
  /\ Confirmable(job[p])
  /\ ops' = Append(ops, [key |-> job[p], status |-> "running", step |-> "start"])
  /\ cur' = [cur EXCEPT ![p] = Len(ops) + 1]
  /\ Goto(p, FirstStep(job[p].kind))
  /\ UNCHANGED <<lock, job, plan, armed, checked, disk, files, sources, pages, proj,
                 events, boundVars>>

\* operations.json could not be read or written before the operation existed.
FailBegin(p) ==
  /\ pc[p] = "replan"
  /\ faults < MaxFaults
  /\ faults' = faults + 1
  /\ pc' = [pc EXCEPT ![p] = "abort"]
  /\ UNCHANGED <<lock, job, plan, armed, cur, at, checked, disk, vaultVars, edits>>

-----------------------------------------------------------------------------
(* The steps of an operation *)

\* The steps update_operation records before they run.
Recorded(kind) ==
  CASE kind = "ingest" -> Steps
    [] kind = "page" -> {"write-pages", "write-page-registry", "write-projections"}
    [] kind = "rebuild" -> {"write-projections"}

\* p runs `step`, which is recorded by now if it ever is.
At(p, step) ==
  /\ pc[p] = step
  /\ step \in Recorded(job[p].kind) => ops[cur[p]].step = step

Enter(p) ==
  /\ pc[p] \in Steps
  /\ pc[p] \in Recorded(job[p].kind)
  /\ ops[cur[p]].step # pc[p]
  /\ ops' = update_operation(cur[p], "running", pc[p])
  /\ UNCHANGED <<lock, procVars, disk, files, sources, pages, proj, events, boundVars>>

\* Seeded fault: the source is processed from the start.
WriteSourceAtOnce(p) ==
  /\ At(p, "write-source-pending")
  /\ sources = plan[p].sources
  /\ sources' = SourcesWith(job[p], plan[p].sources, "processed", cur[p])
  /\ Goto(p, "write-pages")
  /\ UNCHANGED <<lock, job, plan, armed, cur, checked, disk, files, pages, proj, ops,
                 events, boundVars>>

WriteSourcePending(p) ==
  /\ At(p, "write-source-pending")
  /\ sources = plan[p].sources
  /\ sources' = SourcesWith(job[p], plan[p].sources, "pending", cur[p])
  /\ Goto(p, "write-pages")
  /\ UNCHANGED <<lock, job, plan, armed, cur, checked, disk, files, pages, proj, ops,
                 events, boundVars>>

\* The page loop.  m is the mutation at hand, f its file when it was planned.
PageAt(p) == job[p].pages[at[p]]
PlannedFile(p) == plan[p].files[PageAt(p).path]
PlannedContent(p) == Wanted(job[p], PageAt(p), plan[p].pages)

AfterPage(p) ==
  IF at[p] = Len(job[p].pages)
  THEN Goto(p, "write-page-registry")
  ELSE at' = [at EXCEPT ![p] = @ + 1] /\ pc' = pc

SkipPage(p) ==
  /\ At(p, "write-pages")
  /\ PageUnchanged(PlannedContent(p), PlannedFile(p))
  /\ AfterPage(p)
  /\ UNCHANGED <<lock, job, plan, armed, cur, checked, disk, vaultVars, boundVars>>

\* atomic_write_text compares the file with the one that was planned ...
CheckPage(p) ==
  /\ At(p, "write-pages")
  /\ ~checked[p]
  /\ ~PageUnchanged(PlannedContent(p), PlannedFile(p))
  /\ files[PageAt(p).path] = PlannedFile(p)
  /\ checked' = [checked EXCEPT ![p] = TRUE]
  /\ UNCHANGED <<lock, pc, job, plan, armed, cur, at, disk, vaultVars, boundVars>>

\* ... and some time later replaces it, whatever it has become.
ReplacePage(p) ==
  /\ At(p, "write-pages")
  /\ checked[p]
  /\ checked' = [checked EXCEPT ![p] = FALSE]
  /\ files' = [files EXCEPT ![PageAt(p).path] =
       [state |-> "managed", content |-> PlannedContent(p), note |-> PlannedFile(p).note]]
  /\ AfterPage(p)
  /\ UNCHANGED <<lock, job, plan, armed, cur, disk, sources, pages, proj, ops, events,
                 boundVars>>

WritePageRegistry(p) ==
  /\ At(p, "write-page-registry")
  /\ job[p].kind = "ingest" => pages = plan[p].pages
  /\ pages' = RecordsAfter(job[p], plan[p].pages, plan[p].files)
  /\ Goto(p, "write-projections")
  /\ UNCHANGED <<lock, job, plan, armed, cur, checked, disk, files, sources, proj, ops,
                 events, boundVars>>

\* Seeded fault: the ingest index is rendered from the pending source.
ProspectiveSourcesPending(p) == sources

\* What the projections of an operation are rendered from, besides the page
\* registry it wrote: its source as processed already, and the event it is
\* about to append, unless it is a rebuild.
ProspectiveSources(p) ==
  IF job[p].kind = "ingest" THEN SourcesWith(job[p], sources, "processed", cur[p]) ELSE sources

\* Seeded fault: the log is rendered without the event to come.
ProspectiveEntriesNone(p) == {}

ProspectiveEntries(p) ==
  IF job[p].kind = "rebuild" THEN {} ELSE {LogEntry(NextSequence, cur[p])}

\* Seeded fault: an ingest goes on without marking its source processed.
AfterProjectionsEarly(kind) == IF kind = "rebuild" THEN "complete" ELSE "append-change-log"

\* Seeded fault: a page operation is completed without its event.
AfterProjectionsUnlogged(kind) == IF kind = "ingest" THEN "write-source-processed" ELSE "complete"

AfterProjections(kind) ==
  CASE kind = "ingest" -> "write-source-processed"
    [] kind = "page" -> "append-change-log"
    [] kind = "rebuild" -> "complete"

\* One of the three projection files.
WriteProjection(p) ==
  /\ At(p, "write-projections")
  /\ proj' = [proj EXCEPT ![ProjectionPaths[at[p]]] =
       [exists |-> TRUE,
        shown |-> Rendered(ProjectionPaths[at[p]], ProspectiveSources(p), pages,
                           ProspectiveEntries(p))]]
  /\ IF at[p] < Len(ProjectionPaths)
     THEN at' = [at EXCEPT ![p] = @ + 1] /\ pc' = pc
     ELSE Goto(p, AfterProjections(job[p].kind))
  /\ UNCHANGED <<lock, job, plan, armed, cur, checked, disk, files, sources, pages, ops,
                 events, boundVars>>

WriteSourceProcessed(p) ==
  /\ At(p, "write-source-processed")
  /\ sources' = SourcesWith(job[p], plan[p].sources, "processed", cur[p])
  /\ Goto(p, "append-change-log")
  /\ UNCHANGED <<lock, job, plan, armed, cur, checked, disk, files, pages, proj, ops,
                 events, boundVars>>

AppendChangeLog(p) ==
  /\ At(p, "append-change-log")
  /\ events' = Append(events, [sequence |-> NextSequence, op |-> cur[p], key |-> job[p]])
  /\ Goto(p, "complete")
  /\ UNCHANGED <<lock, job, plan, armed, cur, checked, disk, files, sources, pages, proj,
                 ops, boundVars>>

Complete(p) ==
  /\ At(p, "complete")
  /\ ops' = update_operation(cur[p], "completed", "complete")
  /\ Goto(p, "return")
  /\ UNCHANGED <<lock, job, plan, armed, cur, checked, disk, files, sources, pages, proj,
                 events, boundVars>>

-----------------------------------------------------------------------------
(* Failures *)

\* The except clause: the operation is marked failed at the step that was
\* entered last, or stays as it is when that write fails too.
FailOperation(p) ==
  /\ \/ ops' = ops
     \/ \E step \in {pc[p], ops[cur[p]].step} \ {"return", "start"} :
          ops' = update_operation(cur[p], "failed", step)
  /\ pc' = [pc EXCEPT ![p] = "abort"]
  /\ checked' = [checked EXCEPT ![p] = FALSE]
  /\ UNCHANGED <<lock, job, plan, armed, cur, at, disk, files, sources, pages, proj, events>>

\* snapshot_conflict: the page is not the one that was planned.
PageChanged(p) ==
  /\ At(p, "write-pages")
  /\ ~checked[p]
  /\ ~PageUnchanged(PlannedContent(p), PlannedFile(p))
  /\ files[PageAt(p).path] # PlannedFile(p)
  /\ FailOperation(p)
  /\ UNCHANGED boundVars

\* Any write of any step may fail, and an interrupt may come after the last.
Fail(p) ==
  /\ pc[p] \in Steps \cup {"return"}
  /\ faults < MaxFaults
  /\ faults' = faults + 1
  /\ FailOperation(p)
  /\ UNCHANGED edits

\* The process dies; its lock file stays.
Crash(p) ==
  /\ lock = p
  /\ faults < MaxFaults
  /\ faults' = faults + 1
  /\ lock' = "orphan"
  /\ pc' = [pc EXCEPT ![p] = "idle"]
  /\ cur' = [cur EXCEPT ![p] = 0]
  /\ at' = [at EXCEPT ![p] = 0]
  /\ checked' = [checked EXCEPT ![p] = FALSE]
  /\ UNCHANGED <<job, plan, armed, disk, vaultVars, edits>>

-----------------------------------------------------------------------------

User(p) == (\E r \in Requests : Draft(p, r)) \/ Preview(p) \/ Submit(p)

PageStep(p) == SkipPage(p) \/ CheckPage(p) \/ ReplacePage(p) \/ PageChanged(p)

\* What the process does by itself once it runs with --confirm.
Advance(p) ==
  \/ Acquire(p) \/ Timeout(p) \/ Refuse(p) \/ AlreadyDone(p) \/ Begin(p)
  \/ Enter(p) \/ WriteSourcePending(p) \/ PageStep(p) \/ WritePageRegistry(p)
  \/ WriteProjection(p) \/ WriteSourceProcessed(p) \/ AppendChangeLog(p)
  \/ Complete(p) \/ Release(p)

Fault(p) == FailBegin(p) \/ Fail(p) \/ Crash(p)

Next ==
  \/ \E p \in Procs : User(p) \/ Advance(p) \/ Fault(p)
  \/ \E s \in Sources : EditSource(s)
  \/ \E a \in Pages : EditPage(a)
  \/ IsolateLock

Spec == Init /\ [][Next]_vars

-----------------------------------------------------------------------------
(* What the callers see of it *)

Ledger == INSTANCE VaultLedger
  WITH attempts <- [n \in DOMAIN ops |-> [key |-> ops[n].key, outcome |-> ops[n].status]],
       log <- [i \in DOMAIN events |-> events[i].op]

-----------------------------------------------------------------------------
(* Properties *)

\* Every variable keeps its shape: registries stay total and well formed, the
\* change log stays a sequence of events, no process is at an unknown step.
TypeOK ==
  /\ lock \in Procs \cup {"free", "orphan"}
  /\ pc \in [Procs -> {"idle", "waiting"} \cup Inside]
  /\ job \in [Procs -> Job]
  /\ plan \in [Procs -> PlanRecord]
  /\ armed \in [Procs -> BOOLEAN]
  /\ cur \in [Procs -> Nat]
  /\ at \in [Procs -> Nat]
  /\ checked \in [Procs -> BOOLEAN]
  /\ disk \in [Sources -> Nat]
  /\ files \in [Pages -> File]
  /\ sources \in [Sources -> SourceRecord]
  /\ pages \in [Pages -> PageRecord]
  /\ proj \in [Projections -> Projection]
  /\ ops \in Seq(Operation)
  /\ events \in Seq(Event)
  /\ edits \in Nat
  /\ faults \in Nat

\* Only the process named in lock.json is inside a write command (VaultLock).
MutualExclusion == \A p \in Procs : pc[p] \in Inside <=> lock = p

\* The registries and the log a transaction is about to overwrite or extend
\* are still those whose checksums the user confirmed: no update is lost
\* although `page apply` writes pages.json without a compared checksum and the
\* processed source record is written over whatever sources.json holds.
ConfirmedStateHolds ==
  \A p \in Procs :
    /\ pc[p] = "write-source-pending" => sources = plan[p].sources
    /\ /\ pc[p] \in {"write-source-pending", "write-pages", "write-page-registry"}
       /\ job[p].kind # "rebuild"
       => pages = plan[p].pages
    /\ /\ pc[p] \in Steps \ {"complete"}
       /\ job[p].kind # "rebuild"
       => events = plan[p].events
    /\ pc[p] = "write-source-processed" =>
         sources = SourcesWith(job[p], plan[p].sources, "pending", cur[p])

\* An ingest or page operation is called completed only if the change log has
\* the event of that very operation, for the same payload.
CompletedIsLogged ==
  \A n \in DOMAIN ops :
    ops[n].status = "completed" /\ ops[n].key.kind # "rebuild" =>
      \E i \in DOMAIN events : events[i].op = n /\ events[i].key = ops[n].key

\* The success reply of a command, first or repeated, is given only for work
\* that is in the change log.
SuccessIsLogged ==
  \A p \in Procs :
    pc[p] \in {"return", "repeat"} /\ job[p].kind # "rebuild" =>
      \E i \in DOMAIN events : events[i].key = job[p]

\* However often a payload is submitted, again after a failure or a crash, by
\* whichever process, its ingest leaves one completed event.
OneEventPerKey ==
  \A i, k \in DOMAIN events :
    events[i].key = events[k].key /\ events[i].key.kind = "ingest" => i = k

\* A source is processed only once the operation that verified it has
\* registered every page of its payload; and as long as no later operation
\* has begun, those pages are registered as asked and the ingest index shows
\* the source as processed under its proxy page.
ProcessedIsEvidence ==
  \A s \in Sources :
    sources[s].status = "processed" =>
      LET n == sources[s].verified
          j == ops[n].key
      IN  /\ n \in DOMAIN ops
          /\ j.kind = "ingest" /\ j.source = s /\ j.version = sources[s].version
          /\ \A a \in Targets(j) : pages[a].rev # 0
          /\ n = Len(ops) =>
               /\ \A i \in DOMAIN j.pages :
                    pages[j.pages[i].path].content = [text |-> j.pages[i].text, srcs |-> {s}]
               /\ [source |-> s, status |-> "processed", proxy |-> sources[s].proxy]
                    \in proj["ingest/index.md"].shown

\* Whatever step operations.json gives for the last operation, failed, running
\* or orphaned by a crash, what comes before that step is on disk.
StepIsEvidence ==
  LET n == Len(ops)
      j == ops[n].key
  IN  n # 0 /\ j.kind = "ingest" =>
        /\ ops[n].step # "start" /\ ops[n].step # "write-source-pending" =>
             sources[j.source].verified = n
        /\ ops[n].step \in {"write-projections", "write-source-processed",
                            "append-change-log", "complete"} =>
             \A i \in DOMAIN j.pages :
               pages[j.pages[i].path].content = [text |-> j.pages[i].text, srcs |-> {j.source}]
        /\ ops[n].step \in {"append-change-log", "complete"} =>
             sources[j.source].status = "processed"
        /\ ops[n].step = "complete" => \E i \in DOMAIN events : events[i].op = n

\* When nothing runs and the last operation completed, the three projections
\* show exactly the registries and the change log, whatever failed before.
ProjectionsCurrent ==
  /\ lock = "free"
  /\ ops # <<>>
  /\ ops[Len(ops)].status = "completed"
  => \A f \in Projections :
       proj[f] = [exists |-> TRUE, shown |-> Rendered(f, sources, pages, {})]

\* wiki/log.md is written before the event is appended: it never misses an
\* event, and is never ahead by more than the event of one operation, which is
\* not completed.
LogProjectionLead ==
  LET shown == proj["wiki/log.md"].shown
      logged == RenderWikiLog(events)
  IN  /\ logged \subseteq shown
      /\ \A e, f \in shown \ logged : e = f
      /\ \A e \in shown \ logged : ops[e.op].status # "completed"

\* The change log only grows, by events numbered without gap or repetition.
LogAppendOnly ==
  [][events' # events =>
       /\ Len(events') = Len(events) + 1
       /\ \A i \in DOMAIN events : events'[i] = events[i]
       /\ events'[Len(events')].sequence = Len(events')]_vars

\* Locks, steps, failures and crashes implement the ledger: an attempt takes
\* effect at once or not at all, once per ingest key, and is called completed
\* only when it has.
ImplementsLedger == Ledger!Spec

\* A page record never disappears and its revision never goes back; when its
\* content changes, so does its revision.
RevisionsAdvance ==
  [][\A a \in Pages :
       /\ pages'[a].rev >= pages[a].rev
       /\ pages'[a].content # pages[a].content => pages'[a].rev > pages[a].rev]_vars

\* Phase 3 design, success criterion 4: when only the audit append failed, the
\* operation is failed and the same payload completes it.
AppendFailureResumable ==
  LET n == Len(ops)
  IN  /\ n # 0
      /\ lock = "free"
      /\ edits = 0
      /\ ops[n].key.kind = "ingest"
      /\ ops[n].status = "failed"
      /\ ops[n].step = "append-change-log"
      => AlreadyApplied(ops[n].key) \/ Confirmable(ops[n].key)

=============================================================================
