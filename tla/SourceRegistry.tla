---------------------------- MODULE SourceRegistry ----------------------------
(***************************************************************************)
(* Which source a payload is of, and where its bytes are.  A source is a   *)
(* record of .meta/sources.json under an id derived from the path it was   *)
(* first seen at; files move, change and are copied, and the user resolves *)
(* what cannot be told by itself.  `archive-import` copies the file next   *)
(* to its target in raw/ before the lock is taken and publishes the copy   *)
(* under the lock with a hard link that never replaces.                    *)
(*                                                                         *)
(* The pages, projections and operations an ingest also writes are those   *)
(* of VaultTransaction and left out.  Checksums stand for contents, ids    *)
(* for the seeds they are digests of.                                      *)
(***************************************************************************)
EXTENDS Naturals, FiniteSets, FiniteSetsExt

CONSTANTS Procs,     \* processes that run `ingest apply`
          Paths,     \* files outside the control center
          NameOf,    \* the file name at the end of each path
          Contents,  \* what a file may hold
          Modes,     \* "read" (path-index, summary-ingest) and "archive"
          MaxRuns,   \* bound on the times the command is run
          MaxUpsets  \* bound on changed files, failures and crashes together

ASSUME ModesAssumption == Modes \subseteq {"read", "archive"}

None == "none"

ASSUME BoundsAssumption == MaxRuns \in Nat /\ MaxUpsets \in Nat

\* What stands for no lock, no file and no copy is not one of the others.
ASSUME NamesAssumption == /\ Procs \cap {"free", "orphan"} = {}
                          /\ Contents \cap {None, "copying", "reuse"} = {}

\* The seed of a source id.  Only archive seeds have collision ordinals.
Id == [seed : {"path", "new-source", "archive"}, path : Paths,
       content : Contents \cup {None}, ordinal : 0..MaxRuns]
NoId == [seed |-> None]

Target == [id : Id, name : {NameOf[f] : f \in Paths}]
NoTarget == [name |-> None]

SourceRecord == [path : Paths, content : Contents, mode : Modes,
                 status : {"pending", "processed"}, revision : Nat \ {0},
                 archive : Target \cup {NoTarget}]

Resolutions == {"none", "new-source", "rebind"}
Payload == [path : Paths, content : Contents, mode : Modes,
            resolution : Resolutions, rebind : Id \cup {NoId}]
NoPayload == [path |-> None]
NoPlan == [source |-> [action |-> None]]

VARIABLES
  lock,      \* .meta/lock.json: "free", its living holder, or "orphan"
  pc,        \* where each process is
  payload,   \* the payload each process was given
  plan,      \* what the plan checksum the user confirmed was computed from
  prepared,  \* "none", "copying", "reuse", or the content of the staging file
  disk,      \* the content at each path, None if there is no file
  registry,  \* .meta/sources.json, a function on the ids it records
  raw,       \* the files in raw/, a function on their targets
  leftovers, \* targets next to which a staging file was left
  events,    \* idempotency keys of the completed events in the change log
  touched,   \* targets in raw/ that were changed by hand
  runs, upsets  \* counters for the bounds

procVars == <<pc, payload, plan, prepared>>
wikiVars == <<registry, raw, leftovers, events>>
boundVars == <<runs, upsets>>
vars == <<lock, procVars, disk, wikiVars, touched, boundVars>>

With(f, x, v) == [y \in DOMAIN f \cup {x} |-> IF y = x THEN v ELSE f[y]]

-----------------------------------------------------------------------------
(* Identity *)

\* Seeded fault: a record an interrupted ingest left pending is not looked at.
KnownProcessed(q) ==
  {i \in DOMAIN registry : /\ registry[i].path = q.path
                           /\ registry[i].status = "processed"
                           /\ q.mode = "archive" => registry[i].mode = "archive"}

\* The records that have the path already; an archive looks among archives.
Known(q) ==
  {i \in DOMAIN registry : /\ registry[i].path = q.path
                           /\ q.mode = "archive" => registry[i].mode = "archive"}

\* The records it may be that was moved.
Candidates(q) ==
  {i \in DOMAIN registry : /\ registry[i].path # q.path
                           /\ registry[i].content = q.content
                           /\ q.mode = "archive" => registry[i].mode = "archive"}

ArchiveSeed(q, n) == [seed |-> "archive", path |-> q.path, content |-> q.content, ordinal |-> n]

\* Seeded fault: archive_source_id does not look whether the id is taken.
archive_source_id_first(q) == ArchiveSeed(q, 0)

archive_source_id(q) ==
  ArchiveSeed(q, Min({n \in 0..MaxRuns : ArchiveSeed(q, n) \notin DOMAIN registry}))

\* The id of a new source that is read in place is not looked up.
NewId(q) ==
  IF q.mode = "archive" THEN archive_source_id(q)
  ELSE IF q.resolution = "new-source"
  THEN [seed |-> "new-source", path |-> q.path, content |-> q.content, ordinal |-> 0]
  ELSE [seed |-> "path", path |-> q.path, content |-> None, ordinal |-> 0]

Conflict == [action |-> "conflict"]
Is(action, i, revision) == [action |-> action, id |-> i, revision |-> revision]

\* A path that is recorded once: the same content, or another.
ResolveKnown(q, i) ==
  IF registry[i].content = q.content THEN Is("unchanged", i, registry[i].revision)
  ELSE IF q.mode = "read" THEN Is("update", i, registry[i].revision + 1)
  ELSE IF q.resolution = "new-source" THEN Is("create", NewId(q), 1)
  ELSE Conflict                                           \* archive-content-changed

\* A path that is not: something moved, if the user says so, or new.
ResolveUnknown(q) ==
  CASE q.resolution = "rebind" ->
         IF q.rebind \in Candidates(q) /\ disk[registry[q.rebind].path] = None
         THEN Is("rebind", q.rebind, registry[q.rebind].revision + 1)
         ELSE Conflict               \* invalid-move-candidate, source-copy-not-move
    [] q.resolution = "none" /\ Candidates(q) # {} -> Conflict     \* move-candidate
    [] OTHER -> Is("create", NewId(q), 1)

\* _resolve_source and _resolve_archive_source.
Resolve(q) ==
  CASE Known(q) = {} -> ResolveUnknown(q)
    [] Cardinality(Known(q)) = 1 -> ResolveKnown(q, CHOOSE i \in Known(q) : TRUE)
    [] OTHER -> Conflict                                  \* source-registry-conflict

TargetOf(q, source) ==
  IF q.mode = "read" \/ source.action = "conflict" THEN NoTarget
  ELSE [id |-> source.id, name |-> NameOf[q.path]]

\* What the plan checksum digests, besides the payload.  Whether the archive
\* has to be made or is there already is left out of it.
PlanOf(q) ==
  [source |-> Resolve(q), target |-> TargetOf(q, Resolve(q)),
   registry |-> registry, events |-> events]

Intact(q) == disk[q.path] = q.content

Confirmable(q) ==
  LET target == TargetOf(q, Resolve(q))
  IN  /\ Resolve(q).action # "conflict"
      /\ target \in DOMAIN raw => raw[target] = q.content   \* archive-target-conflict

KeyOf(q, pl) == [payload |-> q, id |-> pl.source.id, target |-> pl.target]
Completed(q, pl) == pl.source.action # "conflict" /\ KeyOf(q, pl) \in events

RecordOf(q, pl, status) ==
  [path |-> q.path, content |-> q.content, mode |-> q.mode, status |-> status,
   revision |-> pl.source.revision, archive |-> pl.target]

Exits == {"return", "abort"}
Steps == {"write-source-pending", "publish-archive", "write-source-processed",
          "append-change-log"}

Init ==
  /\ lock = "free"
  /\ pc = [p \in Procs |-> "idle"]
  /\ payload = [p \in Procs |-> NoPayload]
  /\ plan = [p \in Procs |-> NoPlan]
  /\ prepared = [p \in Procs |-> None]
  /\ disk \in [Paths -> Contents \cup {None}]
  /\ registry = [i \in {} |-> None]
  /\ raw = [t \in {} |-> None]
  /\ leftovers = {}
  /\ events = {}
  /\ touched = {}
  /\ runs = 0
  /\ upsets = 0

Goto(p, step) == pc' = [pc EXCEPT ![p] = step]
Prepare(p, how) == prepared' = [prepared EXCEPT ![p] = how]

-----------------------------------------------------------------------------
(* Outside the lock *)

\* A file appears, changes or goes away.
EditSource(f) ==
  /\ upsets < MaxUpsets
  /\ upsets' = upsets + 1
  /\ \E c \in (Contents \cup {None}) \ {disk[f]} : disk' = [disk EXCEPT ![f] = c]
  /\ UNCHANGED <<lock, procVars, wikiVars, touched, runs>>

MoveSource(f, g) ==
  /\ upsets < MaxUpsets
  /\ upsets' = upsets + 1
  /\ disk[f] # None /\ disk[g] = None
  /\ disk' = [disk EXCEPT ![f] = None, ![g] = disk[f]]
  /\ UNCHANGED <<lock, procVars, wikiVars, touched, runs>>

\* Somebody puts a file where an archive is, or is about to be.
EditRaw(t) ==
  /\ upsets < MaxUpsets
  /\ upsets' = upsets + 1
  /\ \E c \in Contents : (t \in DOMAIN raw => raw[t] # c) /\ raw' = With(raw, t, c)
  /\ touched' = touched \cup {t}
  /\ UNCHANGED <<lock, procVars, disk, registry, leftovers, events, runs>>

Payloads ==
  [path : Paths, content : Contents, mode : Modes, resolution : {"none", "new-source"},
   rebind : {NoId}]
    \cup [path : Paths, content : Contents, mode : Modes, resolution : {"rebind"},
          rebind : DOMAIN registry]

\* Dry run of a payload that describes a file as it is: only a plan without
\* conflict can be confirmed.
Preview(p, q) ==
  /\ pc[p] = "idle"
  /\ runs < MaxRuns
  /\ Intact(q)
  /\ Confirmable(q)
  /\ payload' = [payload EXCEPT ![p] = q]
  /\ plan' = [plan EXCEPT ![p] = PlanOf(q)]
  /\ UNCHANGED <<lock, pc, prepared, disk, wikiVars, touched, boundVars>>

\* The command is run with --confirm, perhaps again.  An archive is planned
\* and prepared before the lock is asked for: nothing to prepare if the payload
\* has completed, the file in raw/ if it is there, otherwise a copy.
Submit(p) ==
  LET q == payload[p]
      now == PlanOf(q)
  IN  /\ pc[p] = "idle"
      /\ plan[p] # NoPlan
      /\ runs < MaxRuns
      /\ runs' = runs + 1
      /\ Intact(q)
      /\ \/ (q.mode = "read" \/ Completed(q, now)) /\ Prepare(p, None) /\ Goto(p, "waiting")
         \/ /\ q.mode = "archive" /\ ~Completed(q, now)
            /\ now = plan[p] /\ Confirmable(q)
            /\ IF now.target \in DOMAIN raw
               THEN Prepare(p, "reuse") /\ Goto(p, "waiting")
               ELSE Prepare(p, "copying") /\ Goto(p, "copying")
      /\ UNCHANGED <<lock, payload, plan, disk, wikiVars, touched, upsets>>

\* Seeded fault: the copy is not compared with the checksum.
CopiedUnchecked(p) ==
  /\ pc[p] = "copying"
  /\ disk[payload[p].path] # None
  /\ Prepare(p, disk[payload[p].path])
  /\ Goto(p, "waiting")
  /\ UNCHANGED <<lock, payload, plan, disk, wikiVars, touched, boundVars>>

\* The copy is complete, and what was read is what the payload says.
Copied(p) ==
  /\ pc[p] = "copying"
  /\ Intact(payload[p])
  /\ Prepare(p, disk[payload[p].path])
  /\ Goto(p, "waiting")
  /\ UNCHANGED <<lock, payload, plan, disk, wikiVars, touched, boundVars>>

\* The command ends and the staging file is removed: the source changed while
\* it was copied, there is no space, or the lock did not become free in time.
GiveUp(p) ==
  /\ \/ pc[p] = "copying"
     \/ pc[p] = "waiting" /\ lock # "free"
  /\ Prepare(p, None)
  /\ Goto(p, "idle")
  /\ UNCHANGED <<lock, payload, plan, disk, wikiVars, touched, boundVars>>

-----------------------------------------------------------------------------
(* Under the lock *)

Acquire(p) ==
  /\ pc[p] = "waiting"
  /\ lock = "free"
  /\ lock' = p
  /\ Goto(p, "replan")
  /\ UNCHANGED <<payload, plan, prepared, disk, wikiVars, touched, boundVars>>

\* validate_prepared_archive: the target is still missing, or still the file
\* that was read outside the lock.
PreparedHolds(p) ==
  LET target == plan[p].target
  IN  CASE prepared[p] = "reuse" ->
             target \in DOMAIN raw /\ raw[target] = payload[p].content
        [] prepared[p] = None -> FALSE
        [] OTHER -> target \notin DOMAIN raw

\* The payload has a completed event; so it had when nothing was prepared.
AlreadyApplied(p) ==
  IF payload[p].mode = "read"
  THEN Intact(payload[p]) /\ Completed(payload[p], PlanOf(payload[p]))
  ELSE prepared[p] = None \/ Completed(payload[p], plan[p])

Repeat(p) ==
  /\ pc[p] = "replan"
  /\ AlreadyApplied(p)
  /\ Goto(p, "return")
  /\ UNCHANGED <<lock, payload, plan, prepared, disk, wikiVars, touched, boundVars>>

\* Seeded fault: the confirmed checksum is not compared under the lock.
ReadyAnyway(p) ==
  IF payload[p].mode = "read" THEN Intact(payload[p]) ELSE PreparedHolds(p)

\* The plan as it is now is the confirmed one, and can be carried out.  Where a
\* copy was made, the source itself is not looked at any more.
Ready(p) ==
  /\ PlanOf(payload[p]) = plan[p]
  /\ IF payload[p].mode = "read" THEN Intact(payload[p]) ELSE PreparedHolds(p)

Refuse(p) ==
  /\ pc[p] = "replan"
  /\ ~AlreadyApplied(p) /\ ~Ready(p)
  /\ Goto(p, "abort")
  /\ UNCHANGED <<lock, payload, plan, prepared, disk, wikiVars, touched, boundVars>>

Begin(p) ==
  /\ pc[p] = "replan"
  /\ ~AlreadyApplied(p) /\ Ready(p)
  /\ Goto(p, "write-source-pending")
  /\ UNCHANGED <<lock, payload, plan, prepared, disk, wikiVars, touched, boundVars>>

\* sources.json is written twice from what it held when the plan was made.
WriteSource(p, status) ==
  registry' = With(plan[p].registry, plan[p].source.id, RecordOf(payload[p], plan[p], status))

WriteSourcePending(p) ==
  /\ pc[p] = "write-source-pending"
  /\ WriteSource(p, "pending")
  /\ Goto(p, IF payload[p].mode = "archive" THEN "publish-archive" ELSE "write-source-processed")
  /\ UNCHANGED <<lock, payload, plan, prepared, disk, raw, leftovers, events, touched, boundVars>>

\* Seeded fault: the copy is renamed over whatever is there.
PublishReplacing(p) ==
  /\ pc[p] = "publish-archive"
  /\ raw' = IF prepared[p] = "reuse" THEN raw ELSE With(raw, plan[p].target, prepared[p])
  /\ Prepare(p, None)
  /\ leftovers' = leftovers
  /\ Goto(p, "write-source-processed")
  /\ UNCHANGED <<lock, payload, plan, disk, registry, events, touched, boundVars>>

\* publish_archive_noreplace: a second name for the staging file, whose first
\* name may stay when it cannot be removed.
Publish(p) ==
  /\ pc[p] = "publish-archive"
  /\ IF prepared[p] = "reuse" THEN raw' = raw /\ leftovers' = leftovers
     ELSE /\ plan[p].target \notin DOMAIN raw
          /\ raw' = With(raw, plan[p].target, prepared[p])
          /\ leftovers' \in {leftovers, leftovers \cup {plan[p].target}}
  /\ Prepare(p, None)
  /\ Goto(p, "write-source-processed")
  /\ UNCHANGED <<lock, payload, plan, disk, registry, events, touched, boundVars>>

\* archive-target-changed, after all.
PublishRefused(p) ==
  /\ pc[p] = "publish-archive"
  /\ prepared[p] # "reuse" /\ plan[p].target \in DOMAIN raw
  /\ Goto(p, "abort")
  /\ UNCHANGED <<lock, payload, plan, prepared, disk, wikiVars, touched, boundVars>>

WriteSourceProcessed(p) ==
  /\ pc[p] = "write-source-processed"
  /\ WriteSource(p, "processed")
  /\ Goto(p, "append-change-log")
  /\ UNCHANGED <<lock, payload, plan, prepared, disk, raw, leftovers, events, touched, boundVars>>

AppendChangeLog(p) ==
  /\ pc[p] = "append-change-log"
  /\ events' = events \cup {KeyOf(payload[p], plan[p])}
  /\ Goto(p, "return")
  /\ UNCHANGED <<lock, payload, plan, prepared, disk, registry, raw, leftovers, touched, boundVars>>

\* Any write may fail; page and projection writes between the publication and
\* the processed record fail as the latter does.
Fail(p) ==
  /\ pc[p] \in Steps
  /\ upsets < MaxUpsets
  /\ upsets' = upsets + 1
  /\ Goto(p, "abort")
  /\ UNCHANGED <<lock, payload, plan, prepared, disk, wikiVars, touched, runs>>

\* The lock is released and a staging file that was not published removed.  The
\* user who was told of success lets go of the payload, and may draft it again.
Release(p) ==
  /\ pc[p] \in Exits
  /\ lock' = "free"
  /\ Prepare(p, None)
  /\ Goto(p, "idle")
  /\ IF pc[p] = "abort" THEN UNCHANGED <<payload, plan>>
     ELSE payload' = [payload EXCEPT ![p] = NoPayload] /\ plan' = [plan EXCEPT ![p] = NoPlan]
  /\ UNCHANGED <<disk, wikiVars, touched, boundVars>>

\* The process dies: its lock stays, and its staging file.
Crash(p) ==
  /\ pc[p] # "idle"
  /\ upsets < MaxUpsets
  /\ upsets' = upsets + 1
  /\ lock' = IF lock = p THEN "orphan" ELSE lock
  /\ leftovers' = IF prepared[p] \in {None, "reuse"} THEN leftovers
                  ELSE leftovers \cup {plan[p].target}
  /\ Prepare(p, None)
  /\ Goto(p, "idle")
  /\ UNCHANGED <<payload, plan, disk, registry, raw, events, touched, runs>>

IsolateLock ==
  /\ lock = "orphan"
  /\ lock' = "free"
  /\ UNCHANGED <<procVars, disk, wikiVars, touched, boundVars>>

-----------------------------------------------------------------------------

Transaction(p) ==
  \/ Acquire(p) \/ Repeat(p) \/ Refuse(p) \/ Begin(p) \/ WriteSourcePending(p)
  \/ Publish(p) \/ PublishRefused(p) \/ WriteSourceProcessed(p) \/ AppendChangeLog(p)
  \/ Release(p)

Next ==
  \/ \E p \in Procs, q \in Payloads : Preview(p, q)
  \/ \E p \in Procs :
       Submit(p) \/ Copied(p) \/ GiveUp(p) \/ Transaction(p) \/ Fail(p) \/ Crash(p)
  \/ \E f \in Paths : EditSource(f) \/ \E g \in Paths : MoveSource(f, g)
  \/ \E p \in Procs : plan[p] # NoPlan /\ plan[p].target # NoTarget /\ EditRaw(plan[p].target)
  \/ IsolateLock

Spec == Init /\ [][Next]_vars

-----------------------------------------------------------------------------
(* Properties *)

\* Every variable keeps its shape, and what SourceRecord demands of a record:
\* an archive path if and only if it is an archive, under its own id.
TypeOK ==
  /\ lock \in Procs \cup {"free", "orphan"}
  /\ pc \in [Procs -> {"idle", "copying", "waiting", "replan"} \cup Steps \cup Exits]
  /\ \A p \in Procs : payload[p] \in Payload \cup {NoPayload}
  /\ \A p \in Procs : prepared[p] \in {None, "copying", "reuse"} \cup Contents
  /\ disk \in [Paths -> Contents \cup {None}]
  /\ \A i \in DOMAIN registry :
       /\ i \in Id /\ registry[i] \in SourceRecord
       /\ IF registry[i].mode = "archive" THEN registry[i].archive.id = i
          ELSE registry[i].archive = NoTarget
  /\ \A t \in DOMAIN raw : t \in Target /\ raw[t] \in Contents
  /\ leftovers \subseteq Target /\ touched \subseteq Target
  /\ runs \in 0..MaxRuns /\ upsets \in 0..MaxUpsets

\* A processed archive, and every archive the change log tells of, is in raw/
\* with the bytes whose checksum was confirmed, whatever became of the source
\* while it was copied, and however often the ingest was interrupted.
ArchiveHolds ==
  /\ \A i \in DOMAIN registry :
       LET r == registry[i]
       IN  r.mode = "archive" /\ r.status = "processed" /\ r.archive \notin touched =>
             r.archive \in DOMAIN raw /\ raw[r.archive] = r.content
  /\ \A e \in events :
       e.target # NoTarget /\ e.target \notin touched =>
         e.target \in DOMAIN raw /\ raw[e.target] = e.payload.content

\* Nothing in raw/ is ever replaced or removed by the runtime, not even a file
\* that appears between the last look at the target and the publication.
RawImmutable ==
  [][pc' # pc =>
       \A t \in DOMAIN raw : t \in DOMAIN raw' /\ raw'[t] = raw[t]]_vars

\* No record is lost between two ingests that were prepared at the same time:
\* what a transaction writes over sources.json, twice, is what is there but for
\* its own source.
NoSourceLost ==
  \A p \in Procs :
    /\ pc[p] = "write-source-pending" => registry = plan[p].registry
    /\ pc[p] \in {"publish-archive", "write-source-processed"} =>
         registry = With(plan[p].registry, plan[p].source.id,
                         RecordOf(payload[p], plan[p], "pending"))

\* A path is not recorded twice as a source read in place, although records
\* move between paths and interrupted ingests leave theirs pending.
OneReaderPerPath ==
  \A i, k \in DOMAIN registry :
    registry[i].mode = "read" /\ registry[k].mode = "read" /\ registry[i].path = registry[k].path
      => i = k

\* An archive is of one content for good, and its origin changes only when the
\* user rebinds it: no other source is ever recorded under its id.
ArchiveIdentity ==
  [][\A i \in DOMAIN registry :
       registry[i].mode = "archive" /\ registry'[i].mode = "archive" =>
         /\ registry'[i].content = registry[i].content
         /\ registry'[i].path # registry[i].path =>
              \E p \in Procs : lock = p /\ plan[p].source = [action |-> "rebind", id |-> i,
                                                            revision |-> registry'[i].revision]]_vars

=============================================================================
