# Formal models of the Obsidian LLM Wiki runtime

The runtime (`src/skills/obsidian-wiki-runtime/scripts/`) is a Python command
line that agents run against a *control center*, a directory inside an Obsidian
vault. It keeps JSON registries, an operation ledger, an append-only change log
and generated pages there. There is no server and no database: every command is
a process that plans, asks for a confirmation, takes a lock file and performs a
sequence of separate file writes, any of which can fail. This directory holds
TLA+ models of that machinery, the TLC configurations that check them on small
instances, and proofs checked by TLAPS.

Paths below are relative to `llm_wiki_core/` unless they say otherwise.

## 1. The system

| Component | State | Operations | Source |
|---|---|---|---|
| Write path | wiki pages, `sources.json`, `pages.json`, three projections, `operations.json`, `change-log.jsonl` | `ingest apply`, `page apply`, `projection rebuild` | `ingest.py`, `page.py`, `projection.py`, `writer.py` |
| Source identity, archives | `sources.json`, `raw/` | resolve a payload to a source; stage, validate, publish an archive | `ingest.py`, `archive.py`, `state.py` |
| Lock | `lock.json` | acquire, release, classify, isolate | `writer.py`, `doctor_state.py` |
| Doctor | none, reads everything | judge operations, lock, registries, files, links | `doctor_state.py`, `../obsidian_wiki_doctor.py` |
| Inventory | `inventory.json` | initialize, configure, ignore, unignore, inspect | `inventory.py` |
| Ledger and log | `operations.json`, `change-log.jsonl` | begin, update, append | `writer.py` |
| State initialisation | the empty `.meta/` files | `state init` | `writer.py`, `state.py` |
| Knowledge graph | none, reads the vault | resolve links, reachability, components | `knowledge_graph.py` |
| Managed regions | the two marked regions of a page | read, replace, take over | `managed.py`, `page.py` |
| Root and configuration | user configuration file | resolve, discover, configure | `root.py` |

How they interact. `ingest apply` parses a payload an agent wrote, resolves its
source, plans pages and projections against the registries, and digests all it
read into a *plan checksum*. The dry run prints it; `--confirm` repeats it. Under
the lock the command plans again and goes on only if the checksum is the same.
Every step is entered in `operations.json` before it runs. The change log is the
only authority on what has been done: an ingest whose *idempotency key* has a
completed event is answered without doing anything. `page apply`, `projection
rebuild` and the inventory commands follow the same pattern with fewer steps.
Doctor reads all of it without a lock and tells the user, or an agent, which
operations nobody carries on, and which lock may be moved away. Users edit pages
and files at any time with any editor.

What is hard:

- **Stale confirmation.** Another command may run between preview, confirmation
  and lock. What is overwritten must be what was confirmed.
- **Partial failure.** Seven writes are not a transaction. After any of them may
  fail or crash, the registries, projections, ledger and log must still say
  something true of each other, and a retry must not repeat an effect.
- **The lock.** Created and written in two steps, released by reading and then
  unlinking, orphaned by a crash, judged from outside by age and pid.
- **Reading without a lock.** Doctor reads three files one after the other.
- **The log file.** It is appended to in place; a crash can tear its last line, and
  its readers differ: one parses all lines, one the last, one a prefix.
- **Two resolvers.** Doctor's link check and its graph each resolve links on their own.
- **Shared text.** Pages are text that the runtime and the user both edit, with
  markers in between and line endings of any editor.
- **Identity.** Files are moved, copied, changed and rebound; ids are digests.
- **Preparation outside the lock.** Archives are copied before the lock is taken.
- **Idempotency by digest.** A key that recurs (A, B, A) answers for a new wish.

What makes each component correct: the write path loses no confirmed update and
reports success only for logged work; identity never gives one record to two
sources, and archives are immutable; the lock is exclusive and Doctor never calls
a living holder dead; the change log accounts for the inventory baseline; state
initialisation completes what is missing and touches nothing else; a page is read
back as it was written and keeps what the user wrote; what the graph calls
reachable is exactly what links connect to the index; Doctor is silent about a
healthy vault, and what it says of another has a cause.

## 2. Modules

| Module | Models | Role |
|---|---|---|
| `VaultTransaction` | write path | core: processes, steps, failures, crashes, retries, edits |
| `VaultLedger` | what the write path promises | abstract specification, implemented by `VaultTransaction` |
| `VaultTransactionProofs` | | TLAPS proofs about `VaultTransaction`: log, plans, and that it implements `VaultLedger` |
| `VaultEvidenceProofs` | | TLAPS proofs on top of it: what is evidence of what, and what `DoctorChecks` makes of it |
| `DoctorChecks` | Doctor's state checks of a vault at rest | functions of the state of `VaultTransaction`, which it extends |
| `StateFiles` | `state init`, the files in `.meta/`, the log as a file of lines | justifies the log of events of the other modules |
| `VaultMutex` | what the lock promises | abstract specification, implemented by `VaultLock` and by the lock variable of `VaultTransaction` |
| `VaultLock` | `lock.json` as a file, and Doctor's view of it | justifies the one-variable lock of the other modules |
| `SourceRegistry` | source identity, archive import | |
| `Inventory` | inventory baseline | |
| `LinkGraph` | link resolution, graph, Doctor's link and graph checks | an algorithm as a state machine, against a reference definition |
| `ManagedText` | the text of a page, its regions, the user's edits | justifies the pages of `VaultTransaction`: absent, plain, broken, managed |
| `VaultLockProofs`, `StateFilesProofs`, `LinkGraphProofs`, `SourceRegistryProofs`, `InventoryProofs`, `ManagedTextProofs` | | TLAPS proofs about the module each is named after |
| `MC...` | | small instances: model values, requests, symmetry |

### VaultTransaction

One process runs one command at a time: `Draft` (the agent writes a payload from
what it reads), `Preview` (dry run, keeps what the plan checksum digests),
`Submit` (`--confirm`), then under the lock `Refuse`, `AlreadyDone` or `Begin`
and the steps `WriteSourcePending`, `SkipPage`/`CheckPage`/`ReplacePage`,
`WritePageRegistry`, `WriteProjection`, `WriteSourceProcessed`,
`AppendChangeLog`, `Complete`, `Release`. `Enter` is the `enter()` closure
(`ingest.py:1111`): it names the step in `operations.json` before it runs.
`page apply` and `projection rebuild` are the same actions with fewer steps
(`FirstStep`, `Recorded`, `AfterProjections`).

- A checksum is represented by the value it digests (`Plan(j)` records what the
  plan checksum covers; what the digest leaves out, the record leaves out: `page
  apply` does not digest `sources.json`, a rebuild digests projections only).
- An operation's id is its position in `ops`; an idempotency key is the payload.
- Managed content is a text and the source ids; all the rest of a page is `note`.
- `atomic_write_text` compares the checksum and replaces the file some time
  later: `CheckPage` and `ReplacePage` are two steps, and an edit between them is
  overwritten. Registry writes are single steps because only lock holders write
  registries.
- `Fail` may hit before or after any write and at the end; the `except` clause
  marks the operation failed, or fails at that too. `Crash` leaves the lock.
- Left out: torn files (all writes but the log's go through a temporary file and
  `os.replace`), projections that users edited and their takeover, registries
  edited by hand, sources other than by path (`SourceRegistry`).

### VaultLedger

Attempts with outcomes and a log of those that took effect. An attempt takes
effect atomically, once per ingest key, only while it is the latest; it is called
completed only if it took effect. `ImplementsLedger` says that
`VaultTransaction`, through the mapping of `ops` and `events`, implements this. TLC checks it on
the instance of `vault_faults`, the theorem `Implements` shows it for all.

### DoctorChecks

`_check_sources`, `_check_pages`, `_check_projections`, `_check_operations` as sets of
findings over the variables of `VaultTransaction`. They are judged while no lock is
taken. The checks for archives and temporary files need `raw/` and are left out, as
is `pending-source-without-active-operation`, which compares times at which
operations were last updated.

### StateFiles

Three kinds of command over the five files of `.meta/`: `state init`, a page
application, and an inventory command that logs nothing but its event. A line of
the log is an event, a fragment of one, or junk, with or without its line ending.
`Written` is the append: it continues a last line that has no ending. `Tear` is an
append that stops half way, whether the process dies or only fails. `state init`
plans again under the lock (`Replan`), creates `operations.json` before there is an
operation to record (`CreateOperations`), and then one file after the other, each
checked to be absent and then replaced in two steps. `Abandon` and `Obstructed` are
what the code does when the last line of the log can not be parsed, or a file is
there that should be created. `DoctorVerdict` is `_read_change_log`; the repair
(`TruncateTail`) is the Maintain skill's, and external.

### LinkGraph

A file is a path of names, a name a sequence of dot-separated parts, since suffixes
decide what is tried. A link has a kind (wikilink, markdown link, `../` form) and
a path. `GraphResolve` is `_resolve_target`, `DoctorResolve` the other resolver.
`analyze_knowledge_graph` reads one file per step (`ReadNode`), in sorted order, so
the user's edits fall in between; the walk and the grouping visit one node per
step (`Visit`, `AddToComponent`, `CloseComponent`). `deque`s are sets: the result does
not depend on their order, and the model takes every order. So the guard at
`knowledge_graph.py:175`, which skips a node queued twice, and the one that keeps
visited nodes off the queue are one, and `VisitAgain` drops both. `NamesAssumption` has
names write `md` in lower case, where `rglob("*.md")` and the suffix tests that ignore
case agree. A baseline is there; without one the Doctor draws no graph.

### ManagedText

A text is a sequence of tokens: markers, newlines of either style, lines. All of
`managed.py` but the projection markers is there, with `plan_page_mutation` on top.
The user inserts, deletes and converts; an editor that converts changes all line
endings. `Rendered(t, r, m)` is the text a mutation makes of text `t` with page record
`r`, so that a property can ask what it would make of its own result. `Tokens` is all a
text can hold. `TokensAssumption` says that encoded fields are no marker, newline or
`---`, as `encode_frontmatter_fields` writes keys that start with `llm_wiki_`. The
region of the fields holds one such token or none: more is unreadable. That a mutation
is planned and written in one step is made up for by `VaultTransaction`, where the text
is abstract and the steps are not. `Inside` says which places of a text are in a region,
`LinesOutside` counts the user's lines in all others.

### VaultLock

`lock.json` is a record: whose `lock_id`, whether the payload has been written,
whether it is older than ten minutes. Acquisition, payload, ownership check and
unlink are separate steps. Doctor reads operations, events and lock in that
order (`doctor_state.py:927`, `:934`, `:681`); its verdicts are those of
`_check_operations`. A pid may be reused, so `pid_exists` may be true of a dead
process and is always true of a living one. `acquired_at` is taken before the wait
(`writer.py:128`). Maintain, which is an agent following a skill, isolates only the
lock Doctor called stale. `operation-event-status-drift` is left out.

`VaultMutex` has neither file nor steps: somebody has the lock (`Take`), is inside a
command (`Enter`), gives it back or dies with it (`Return`), and only what a dead
process left is cleared (`Clear`). `Holder` maps the file to it: the living process
whose run the file names, or `"orphan"`. `VaultTransaction` holds its lock in one
variable of just these values, which implements the same module.

### SourceRegistry

`_resolve_source`, `_resolve_archive_source`, `archive_source_id`, and the archive
path of an ingest: planning and copying outside the lock, validation and
publication under it. Ids are the seeds they are digests of, so two ids are equal
exactly when the seeds are. `Submit` follows `apply_ingest`: it returns early if
the payload completed before, refuses when the plan changed, reuses a target or
starts a copy, during which files change. `Publish` is `os.link`, which refuses
an existing target. Pages, projections and operations are left to
`VaultTransaction`; their failures appear as failures of the next source write.

### Inventory

A scope is the set of documents it admits. The baseline gives a document its
disposition, the signature it was seen with and the reason for ignoring it.
`Rescan` is `_current_baseline_with_scope`, on which every command but
`initialize` builds. `Finding` is the classification loop of `inspect_inventory`.
A plan checksum digests the action, the new baseline and the checksum of the old
one, and nothing that would tell two equal changes apart; `Repeat` is the lookup
of a completed operation by that key. The wiki graph is the set `linked`, an
ingest is one step. `ignore` and `unignore` name one document at a time. `removed` is
a history variable: the documents the user took out of the vault at some time, which a
rescan may forget. `HistoryIsKept` is about all others.

## 3. Runs

| Run | Instance | Shows |
|---|---|---|
| `vault_faults` | 2 processes, 1 page, 3 requests, 2 operations, 1 fault | `MutualExclusion`, `ConfirmedStateHolds`, `CompletedIsLogged`, `SuccessIsLogged`, `LogAppendOnly`, `ImplementsLedger` |
| `vault_recovery` | 1 process, 2 sources, 2 pages (one shared), 4 requests, 3 operations, 1 edit, 1 fault | `OneEventPerKey`, `ProcessedIsEvidence`, `StepIsEvidence`, `ProjectionsCurrent`, `LogProjectionLead`, `RevisionsAdvance`, `HealthyIsSilent`, `FindingsAreExplained` |
| `state_files` | 2 processes, 3 operations, 2 faults, fair commands | `CompletedIsReadable`, `EventsKept`, `RecordsKept`, `InitSuccessIsComplete`, `CommandsEnd` |
| `inventory` | 1 process, 1 document, 2 scopes, 3 operations, 2 edits, 1 fault | `AuditTrail`, `IgnoreIsAccounted`, `HistoryIsKept` |
| `vault_lock` | 2 processes on 2 hosts, 2 kinds, 2 runs, 1 crash, Doctor | `ImplementsMutex`, `StaleIsDead`, `OrphanIsOver`, `NoEventMissed` |
| `source_registry` | 1 process, 2 paths, 1 content, both modes, 3 runs, 3 upsets | `OneReaderPerPath`, `ArchiveIdentity` |
| `source_concurrent` | 2 processes, 2 paths, 2 contents, 2 runs, 1 upset | `NoSourceLost`, `ArchiveHolds`, `RawImmutable` |
| `link_graph` | all placements of 2 of 5 links, of every kind, 1 edit, control center = vault | `ReachableIsLeast`, `OrphansAreCutOff`, `DetachedAreConnected`, `AlikeLinksReach`, `NoNodeTwice` |
| `managed_text` | 2 mutations, 2 edits, LF and CRLF, bodies with blank lines, CRLF or a marker, and a user who also writes `---` and markers | `WrittenIsReadBack`, `AppliedTwiceIsOnce`, `UserLinesKept`, `UserMayWrite` |
| `vault_append_failure` | 1 process, 1 operation, 1 fault | violates `AppendFailureResumable` |
| `inventory_repeat` | 1 process, 1 document, 5 operations, no edits, no faults | violates `ConfirmedTakesEffect` |
| `link_index` | as `link_graph`, control center in a folder of the vault, no edit | violates `IndexLinksReach` |

An upset of `SourceRegistry` is a changed file, a failed write or a crash; a fault of
`StateFiles` a failure, a crash or a torn append.

Bounds, and why they are enough. `MaxOps`, `MaxRuns`, `MaxApplies` bound how often a
command is started, `MaxFaults`, `MaxCrashes`, `MaxUpsets`, `MaxEdits` what goes wrong and
what users do. Two operations are what it takes for one to build on what another
left; a third shows what a later success makes of it (`ProjectionsCurrent` after
a failure, `OneEventPerKey` after a success that followed one, an event behind a
repaired log). One fault leaves any prefix of the steps on disk; the second
operation then meets each of them; `StateFiles` has two because a repair, too, may
meet the next tear. Two processes are all the parties a race for the lock or a stale
confirmation needs, since at most one holds the lock; where a property holds for any
number, a proof says so (section 5). Two sources that share a page are the smallest
case where an ingest changes what another one attributed to itself. Two links make
every shape a walk can get wrong: a chain from the index, a cycle, a self link, a
pair beside the index, and files of one name with and without a link. Two edits
around a mutation reach every mixture of newline styles and a damaged region; the
lines a user adds there are one of text, a delimiter and the two markers of the body.
Processes, paths and contents are interchangeable, hence the symmetry sets; the run
with a liveness property uses none. `source_registry` uses one content because
identity depends on equal contents; two contents are in `source_concurrent`.
`CutNewline = FALSE` leaves out one tear, see below; `CompletedIsReadable`,
`InitSuccessIsComplete` and `EventsKept` hold without it only.

`CHECK_DEADLOCK FALSE` appears where the system really stops: in the runs of
`SourceRegistry` (with every file gone there is nothing to import), `StateFiles` (all
operations of the bound are used up), `LinkGraph` (an analysis ends) and
`ManagedText` (a page that nobody edits any more and that no mutation fits).

Each property is known to be able to fail: the operators marked *Seeded fault*
(for instance `AlreadyDoneLast`, `PublishReplacing`, `ClassifyByAge`) are plausible
bugs of the code next to the definition they change, and with each of them TLC
finds the property it belongs to violated. The specifications do not use them.

### Where the code and its documents disagree

1. **A failed audit append cannot be completed by the same payload**
   (`AppendFailureResumable`). The failed attempt has replaced the page and its
   registered checksum; the payload still expects the old one, `page.py:312`. The
   phase 3 design, success criterion 4, promises that it can. A new payload is
   needed, which logs the work under another key.
2. **A repeated inventory change is answered but not made** (`ConfirmedTakesEffect`).
   `inventory.py:1168` takes any completed operation with the same plan checksum
   for this one. After ignore, unignore, ignore of an unchanged document the next
   unignore reports completed and leaves the document ignored.
3. **Links of the generated index are invisible to the graph** (`IndexLinksReach`) if
   the control center is a folder of the vault. `render_wiki_index` writes them
   relative to the control center; the link check tries that first
   (`obsidian_wiki_doctor.py:271`), the graph not at all (`knowledge_graph.py:79`), so
   every page that only the index links is an `orphan-wiki-page`. With the control
   center at the root of the vault the links the runtime itself writes are found, but
   not every link a user may add: of a dotted name such as `[[wiki/topics/b.2]]` the
   link check finds `b.2.md`, the graph tries `.md` only on names without a dot
   (`knowledge_graph.py:55`). `ReadAlike` says which links both resolvers read in one
   way, and `AlikeLinksReach` that what is found through one of these is no orphan,
   in any vault.

Met while modelling, without a run of their own:

- *What initialisation makes of history.* The inventory design says in four places
  (`2026-07-11-obsidian-ingest-inventory-design.md`, lines 32, 130, 265, 430) that
  initial files without evidence of an ingest are stored as `discovered` and reported
  as `uningested-source`. The code stores them as `known-existing` or `unverified`
  and reports `source-coverage-lost`, `source-island` or nothing (`inventory.py:737`);
  so say the hint of the missing baseline, `src/README.md`, lines 190-194,
  `doctor-checks.md`, line 44, and the tests. `FirstRecords` and `Finding` follow the
  code. No property takes a side: `HistoryIsKept` says that what the first baseline
  gave to a document stays, whatever that is.
- *Doctor reports a normal writer as orphan* if the writer finishes between Doctor's
  first read and its last (`doctor_state.py:681`, `:927`; phase 4 design, acceptance
  criterion 6). `OrphanIsOver` says that the report is late, not dangerous.
- *A "create" may replace another source.* The id of a source read in place digests
  its first path and is not looked up (`ingest.py:509`), while a rebound record keeps
  its id when it leaves the path. `archive_source_id` has an ordinal for this, and
  `ArchiveIdentity` holds.
- *An archive resolved as new-source cannot be resumed.* Its pending record is the
  second one of its origin, and two records of one origin are a conflict
  (`ingest.py:527`). The same holds of every later import of it.
- *One CRLF pasted into an LF page* makes its frontmatter unreadable: `detect_newline`
  looks at the whole text, `split_frontmatter` then looks for `---` with that newline
  (`managed.py:33`, `:165`). The page is a `managed-marker-conflict` that not even a
  takeover repairs. `UserMayWrite` states what a user may write.
- *A body that contains a marker* is written and can not be read back
  (`managed.py:130`); `WrittenIsReadBack` states exactly this.
- *A marker in the user's frontmatter* has a takeover write the body there: it counts
  markers in the whole text, the reader only below the frontmatter, so the page is
  written and can not be read (`page.py:270`, `managed.py:89`). The same happens when a
  `---` line comes to stand in the managed region. `StartInFront` names these texts, and
  `WrittenIsReadBack` and `AppliedTwiceIsOnce` except them. Only a takeover meets
  them, whose hint says to review the page first: where a page can be read, a second
  marker is a conflict.
- *A takeover may drop lines of the user*, if the regions are tangled: it replaces the
  region of the fields and then that of the body, each found in the whole text. From
  `---`, `managed:start`, `frontmatter:start`, `managed:end`, `frontmatter:end`, a line,
  `---`, `managed:end` the second replacement takes away the line and the closing `---`
  (`page.py:269`, `managed.py:114`; the code does the same to such a page).
  `Tangled` names these texts and `UserLinesKept` excepts them, and bodies that
  hold a marker of the other region.
- *A tear that loses only the newline* of the last event leaves a log all readers
  accept; the next append continues the line, and the log is invalid for good
  (`writer.py:276`). With `CutNewline = TRUE` TLC finds `EventsKept` violated. Every
  other tear is detected, refused by the next append and repaired by truncation.
- *Without `schema.json` Doctor stops* after loading (`doctor_state.py:962`), so a state
  initialisation that died before that file leaves a stale lock it does not mention.
- The two resolvers also differ for bare names that a file at the vault root has, for
  names that both the vault and `wiki/` have, which they try in different order, and for
  markdown links, which the graph also tries from the vault and the wiki.

## 4. Fairness

Only `state_files` assumes any: weak fairness of `Advance(p)`, all a running
command does by itself. The code justifies it: the wait for the lock is a loop
with a deadline (`writer.py:129-136`) and the rest is straight-line code and a loop
over the files to create. Users need not act, nobody has to clear an orphaned lock
or repair a log, and crashes and failures may happen but need not. `CommandsEnd`
therefore does not say that a command gets the lock, only that it ends. What the
code cannot guarantee is not stated: it has no queue, so a waiting command may time
out although the lock was free in between. The lock and its release are the same
code for all commands, and the other modules' commands are loops over finite plans.

## 5. Proofs

The theorems hold for every number of processes, sources, documents, files and
requests and for every bound. What they assume are the assumptions the models
themselves name, and TLC evaluates on each instance: bounds are naturals
(`BoundsAssumption`), names of different kinds differ (`NamesAssumption`), encoded
fields are no delimiters (`TokensAssumption`), payloads are what the parsers accept
(`RequestsAssumption`), modes and scopes are those of the code (`ModesAssumption`,
`ScopesAssumption`), each process has a host (`HostsAssumption`). All safety
properties of the passing runs are proved; what is not is named at the end of this
section. In each module `TypeCorrect` comes first: its
invariant `TypeInv` strengthens `TypeOK` (or the types of the variables) by the few
facts on cursors, plans and lock holders without which a step could leave its types.

### VaultTransaction

| Theorem | Property | Argument |
|---|---|---|
| `TypeCorrect` | `TypeOK` | `TypeInv` |
| `Exclusion` | `MutualExclusion` | inductive with `TypeInv` |
| `Logged`, `SuccessLogged` | `CompletedIsLogged`, `SuccessIsLogged` | `LogInv` |
| `OneEvent`, `LogGrows` | `OneEventPerKey`, `LogAppendOnly` | `LogInv` (events are numbered 1, 2, ...) |
| `Implements` | `ImplementsLedger` | `LatestInv` on top of `LogInv`, step by step |
| `MutexImplemented` | `VaultMutex` | `MutualExclusion`, step by step |
| `NoLostUpdate` | `ConfirmedStateHolds` | `PlanInv` |
| `Revisions` | `RevisionsAdvance` | `PlanInv`, `RecordsAdvance` |
| `LogLead` | `LogProjectionLead` | `LeadInv` with `LatestInv` |
| `StepEvident`, `ProcessedEvident` | `StepIsEvidence`, `ProcessedIsEvidence` | `EvidenceInv` with `PlanInv` |
| `Current` | `ProjectionsCurrent` | `EvidenceInv` with `PlanInv` |

- `TypeInv` adds where a process is in its loops (`WhereOK`), what jobs look like
  (`JobsOK`) and that events name operations (`EventsOK`): without them a loop might
  run off its payload.
- `LogInv` relates ledger, log and processes: an event carries the key of its
  operation and its own index (`NumberedEvents`), an operation is of the payload its
  process holds (`OwnOperation`), an ingest before its append has no event yet
  (`NotYetLogged`), one behind it has (`LoggedOnReturn`, `LoggedOnRepeat`). It uses
  `MutualExclusion`: two processes behind `Begin` with one payload would both append.
- The refinement needs `LatestInv`: the operation of a process at work is the last
  one and running. Then `Begin` is an attempt of the ledger (`BeginStarts`), the
  append the moment it takes effect (`AppendCommits`), whatever sets a status its
  outcome (`UpdateSettles`), and all else a stutter (`StepImplements`).
- `PlanInv` carries the comparison of plan checksums to every write that relies on
  it: between `Begin` and its last write a transaction finds registries and log as
  planned but for its own pending record, and the pages of its plan free of
  conflicts. `Revisions` follows: a record is only computed from the registry that is
  still there.
- `EvidenceInv` says what is on disk at each step of a transaction (`WorkEvidence` for
  the registries, `WorkShows` for the projections) and what of it outlives the command:
  by the step in operations.json (`StepEvidence`), by the last event (`LastLogged`,
  `LastShown`), by a processed source (`SourceEvidence`). The status of the last
  operation alone does not do: a process that died behind its append leaves an
  operation `running` that a repetition calls completed without looking at the
  projections, so `LastShown` starts from the event, or the status where a rebuild has
  none. `PlanInv` is needed where a source or a page of the payload is written: the
  source is pending then, so evidence about other sources is not touched, and no page of the plan conflicts, so an unchanged page
  is registered. `StepKinds` splits the steps into the eight that write registries,
  projections or the log, and all others, which are dealt with at once.
- `LeadInv` follows wiki/log.md between its rendering and the append: what it has ahead
  of the log is the entry of one operation without event, and an operation without
  event is not completed.

The rows up to `Revisions` are in `VaultTransactionProofs`, with the lemmas on the
operators; the others, and those about Doctor, in `VaultEvidenceProofs`, which extends
it.

### Doctor on a vault at rest

| Theorem | Property | Argument |
|---|---|---|
| `DoctorInvariant` | | `DoctorInv` with `EvidenceInv` |
| `Explained` | `FindingsAreExplained` | `FilesInv`, `ProxiesRegistered`, `NothingShown`, `EvidenceInv` |
| `Silent` | `HealthyIsSilent` | the same, and `Attended` |

The registries tell nothing about the page files by themselves: a transaction replaces
the files first and the registry afterwards, and may fail between any two. `FilesInv`
therefore says of each page, as long as nobody edits, that its file is what its record
says (`AsRecorded`), or that the last operation on it has not reached the log (`Owed`).
An operation that has reached the log has passed its page registry, so nothing is owed
on its pages; one that has not is not completed, which is the explanation
`FindingsAreExplained` asks for. `Owed` looks for the *last* operation on the page
because a later one that completes pays for all before it. `FileHolds` is the part about
a transaction at work: its pages are as planned before the cursor and as asked for
behind it, and planned pages are free of conflicts, so that what is skipped as unchanged
is as recorded. `Attended` says that without failures each operation is completed or has
a process at it; in a vault at rest nobody is, and the explanations are gone.

Both properties are about vaults whose pages nobody edited: of an edited page Doctor
may report what the edit did, without any operation to blame.

### VaultLock

| Theorem | Property | Argument |
|---|---|---|
| `Exclusion`, `Stale` | `MutualExclusion`, `StaleIsDead` | `LockInv` |
| `Implements` | `ImplementsMutex` | `LockInv`, step by step |
| `NoneMissed`, `Orphans` | `NoEventMissed`, `OrphanIsOver` | `OpsInv`, `SeenInv` with `LockInv` |

`LockInv` ties each process that created `lock.json` to the file there is, and says
that a lock Doctor called stale belongs to a run that no process is in any more.
The two are inductive only together: isolation removes by name what was judged by
content, and it is harmless because the file cannot have changed hands. The refinement
is the same argument told as a lock: what is unlinked is the lock of who unlinks it
(`RemoveReturns`), who leaves without unlinking leaves an orphan only if the file was
his own (`LeaveReturns`), and what is isolated is an orphan. `MutualExclusion` is
what the callers need of it; `vault_faults` checks it of the lock variable. `OpsInv`
orders runs and operations (a run begins one operation at most, after it started),
`SeenInv` says that what Doctor read is still there, if only older. An orphan verdict
is then wrong only if the operation's run is still at work, and that run would have
been the one in the lock Doctor read last.

### StateFiles

| Theorem | Property | Argument |
|---|---|---|
| `Records` | `RecordsKept` | `RegistryInv` |
| `Kept` | `EventsKept` | `LogInv`, if not `CutNewline` |
| `Completed` | `CompletedIsReadable` | `EventInv`, if not `CutNewline` |
| `InitCompletes` | `InitSuccessIsComplete` | `InitInv`, if not `CutNewline` |

The last three say `~CutNewline => ...`: the tear that loses nothing but the newline
of an event breaks them (section 3), so no proof without the condition exists. Under
it `LogInv` holds: lines before the last can be read, and the last one ends with its
newline exactly if it can. `EventInv` adds that a command has no event before its
append and one behind it, `InitInv` that from its second plan on an initialisation
has every missing file before it. `Records` needs no such condition.

### LinkGraph

| Theorem | Property | Argument |
|---|---|---|
| `Reachable` | `ReachableIsLeast` | `WalkInv` |
| `OnceEach` | `NoNodeTwice` | `WalkInv`, `SplitInv` |
| `Orphans` | `OrphansAreCutOff` | `WalkInv`, `ExactInv` |
| `Detached` | `DetachedAreConnected` | `SplitInv`, `ExactInv` |
| `AlikeReach` | `AlikeLinksReach` | `ReadOneWay`, `NodesInv` |

No path or induction over a path is needed, as reachability is stated with closed
sets. `WalkInv`: visited and queued nodes lie in each closed set with the index
(`Rooted`), and neighbours of visited nodes are visited or queued. `SplitInv` says the
same of the component being collected (`Tied`) and that the collected ones and the
rest make up what was not reached. `ExactInv` says that edges are the links of the
files read, if nobody edited. So far `GraphResolve` is used as an arbitrary function:
the theorems hold for whatever a link resolves to among the nodes.

`AlikeReach` is about what it resolves to. `GraphFinds` and `DoctorFinds` unfold each
resolver into the first base from which the link means a file, in the order of its own
bases. `JoinAlike` and `VariantsAlike` show that from one base both have one list of
candidates. The graph looks for them among its nodes and the link check among all files
and folders, but what is found of a list is also found among fewer paths that include
it (`FirstShared`).
`ByNameSame` is the search of a bare name by its folded form, which the link check does
among the Markdown files and the graph among its nodes: a node that the former
finds the latter finds, too, though a note outside the nodes may have made it ambiguous. `ReadOneWay` puts this together: what the
link check finds from the index is, if a node, what the graph finds, hence an edge, and
hence reachable. `NodesInv` says that until somebody edits the nodes are those of
the files that are there.

### SourceRegistry

| Theorem | Property | Argument |
|---|---|---|
| `NoneLost` | `NoSourceLost` | part of `TypeInv` |
| `Immutable` | `RawImmutable` | each step, from `TypeInv` |
| `Archives` | `ArchiveHolds` | `PublishInv` |
| `OneReader` | `OneReaderPerPath` | `FitsIn` |
| `Identity` | `ArchiveIdentity` | `FitsIn`, `NewIdIsFree` |

`FitsIn` is what resolution guarantees of the source a payload gets in the registry it
was planned on: an archive takes over no record but of its own content, and of its own
path unless it is rebound; a file read in place takes over the only record of its
path. `NoSourceLost` carries this from the plan to the write, since what is read is
what is there but for the own record. `NewIdIsFree` is the argument that the ordinal
search ends: fewer archive ids are taken than commands were run, and the least
ordinal left (`MinIsLeast`) is no larger. `PublishInv` says that behind publication,
or with a copy to be reused, the target holds the confirmed content.

### Inventory

| Theorem | Property | Argument |
|---|---|---|
| `Trail` | `AuditTrail` | `AuditInv` |
| `Ignores` | `IgnoreIsAccounted` | `UserInv` |
| `HistoryKept` | `HistoryIsKept` | `UserInv` |

`TypeInv` here holds `WorkInv`: the command inside the lock works on the last
operation, over the baseline it was planned on until it writes its own. `AuditInv`
chains the events: where the baseline an event leaves is not the one the next builds
on, an operation that did not complete lies between (`Gap`, `ChainInv`), and the one
at work is the last link (`AtWork`). `UserInv` is both properties of dispositions at
once, each plan being what one user command makes of the baseline before it
(`Follows`). For `HistoryIsKept` it adds that a document never removed which has a
record is in the vault (`PresentInv`), that no operation drops such a document while
it is in scope (`Retains`, `KeysInv`), and what is left of the first disposition under
the baseline in force (`Kept`, `KeptInv`).

### ManagedText

| Theorem | Property | Argument |
|---|---|---|
| `TextType` | `TextOK` | each step |
| `ReadBack` | `WrittenIsReadBack` | `PageIs`, `PageRead` |
| `TwiceIsOnce` | `AppliedTwiceIsOnce` | `PageIs`, `RewrittenAgain` |
| `LinesKept` | `UserLinesKept` | `Splice`, `LinesStay`, `FieldsKept`, `BodyKept` |
| `MayWrite` | `UserMayWrite` | `InsertIs`, `RegionSame`, `ReadSame` |

The invariant is only that a file is a text: the theorems hold for a mutation of *any*
text, so nothing needs to be known of how the user and earlier mutations made it. The
proof is a small theory of texts cut at markers, in layers:

- Scanning, without induction: `At` is the only place where a token stands (`OnceAt`),
  `TrimEnd` and the end of the frontmatter are a greatest and a least index
  (`GreatestIs`, `LeastIs`, the latter from the well-foundedness of the numbers).
- A region: `Found(t, a, start, c, end, z)` says that `t` is `a`, a start marker, `c`, an
  end marker and `z`, with no other marker. `RegionRead` reads `c` from it, `ReplacedIs`
  says that what `replace_region` writes is `Found` again with the new content, and
  `RegionAgain` that replacing it once more with the same gives the same.
- Newlines: the body is canonical, written with the newline of the file, read and
  made canonical again (`CanonicalTwice`, `NewContentIs`, `WrittenIsRead`).
- The frontmatter: `FrontBody(t, nl, v, b)` says that `t` is a frontmatter `v` between two
  delimiters and a text `b` below it. `FrontOf` finds it in every text that has one,
  `FieldsReplaced` and `FieldsNew` show that writing the fields leaves one, with no
  delimiter inside and the same newline.
- Both: `PageIs(h, f, c)` says that page `h` has the fields `f` and the body `c`.
  `PageRead` reads them, `NewPageIs` and `RewrittenIs` show that a mutation
  writes such a page unless its start marker was in the frontmatter, and
  `RewrittenAgain` that it leaves such a page alone.

The user's text needs two more layers:

- What a mutation does to a text is a `Splice`: some tokens in one place give way to
  others. No line outside of the regions is lost if none of them is among those that go
  and if the change does not take part in a region around it (`Apart`): what comes is a
  whole region, or holds no marker of it, and nor does what goes, unless no such region
  starts before it. A place that is left is then in a region only if it was
  (`RegionWas`, `LinesStay`). `FieldsKept` and `BodyKept` show this of each way to write
  the fields and the body: region replaced, region made, no frontmatter yet, page
  appended to. The body is written into what the fields left; `Ready` is what is still
  true there of a text that was not tangled.
- A line more is two tokens more (`InsertIs`): markers and delimiters keep their order,
  and what stands below the line stands two places further on (`ClosedAt`,
  `RegionSame`). So the reader finds the same frontmatter, as the line is below it
  (`InsertBelow`), and the same region, as it is outside (`ReadSame`).

### Only model-checked

- `CommandsEnd`: liveness under fairness is out of the prover's reach.
- `IndexLinksReach` and the other two properties of the runs that expect a violation
  are false; `AlikeLinksReach` is the part of the first that is true of every vault.

## 6. Not modelled, and what is next

Not modelled:

- the syntax of links, tables, payloads and markdown, argument parsing, the wording
  of rendered pages, report scores: formatting, or functions without a promise that
  a model could break;
- path safety checks (links, traversal, sensitive scopes): they reject before a
  command plans;
- `root.py`: it chooses a control center from arguments, environment and a user file
  and has no steps of its own but the replacement of that file, without a lock
  (a lost update is possible and nothing promises otherwise);
- Doctor's checks of archives, temporary files and pending sources;
- file systems that break the promise of `os.replace`, `os.link` or `O_EXCL`, and
  clocks that go back.

Order of further work, most important first:

1. **Doctor's archive checks** over the states of `SourceRegistry`: whether every
   interrupted import is reported. That a rebound archive keeps its path (phase 3.1
   design, line 171, against `ingest.py:724`) belongs there.
2. In `VaultTransaction`: versions of a source that return (the ingest form of
   disagreement 2), projections edited by hand and their takeover.
3. `Inventory` over `LinkGraph` instead of the set `linked`.
