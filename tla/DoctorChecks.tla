---------------------------- MODULE DoctorChecks ----------------------------
(***************************************************************************)
(* What Doctor reports of a vault that the write commands of               *)
(* VaultTransaction worked on: its checks of sources, pages, projections   *)
(* and operations, as functions of the files they read.  They are judged   *)
(* between commands, with no lock taken; what Doctor says of a vault it    *)
(* reads while a command runs, and of a lock, is in VaultLock.             *)
(*                                                                         *)
(* Left out: pending-source-without-active-operation, which depends on the *)
(* times at which operations were last updated, markers of projections     *)
(* damaged by hand, and paths that leave the control center.               *)
(***************************************************************************)
EXTENDS VaultTransaction

Issue(check, about) == [check |-> check, about |-> about]

Registered(a) == pages[a].rev # 0

\* _check_sources.
SourceIssues ==
  {Issue("processed-source-missing-proxy", <<s>>) : s \in {t \in Sources :
     sources[t].status = "processed" /\ ~(sources[t].proxy \in Pages /\ Registered(sources[t].proxy))}}
  \cup
  {Issue("source-proxy-file-missing", <<s>>) : s \in {t \in Sources :
     /\ sources[t].status = "processed"
     /\ sources[t].proxy \in Pages
     /\ Registered(sources[t].proxy)
     /\ files[sources[t].proxy].state = "absent"}}

\* _check_pages of a registered page; the first three exclude each other.
RegisteredPageIssues(a) ==
  {Issue(check, <<a>>) : check \in
     CASE files[a].state = "absent" -> {"registered-page-missing"}
       [] files[a].state \in {"plain", "broken"} -> {"managed-marker-conflict"}
       [] files[a].state = "managed" ->
            IF files[a].content = pages[a].content THEN {}
            ELSE {"managed-checksum-drift"}
                 \cup IF files[a].content.srcs = pages[a].content.srcs THEN {}
                      ELSE {"page-frontmatter-drift"}}

\* ... and of a page with managed markers that no record tells of.
UnregisteredPageIssues(a) ==
  {Issue(check, <<a>>) : check \in
     CASE files[a].state = "managed" -> {"orphan-managed-page"}
       [] files[a].state = "broken" -> {"orphan-managed-page", "managed-marker-conflict"}
       [] OTHER -> {}}

PageIssues ==
  UNION {IF Registered(a) THEN RegisteredPageIssues(a) ELSE UnregisteredPageIssues(a) : a \in Pages}

\* _check_projection: a missing projection is no concern of this check.
ProjectionIssues ==
  {Issue("projection-drift", <<f>>) : f \in {g \in Projections :
     proj[g].exists /\ proj[g].shown # Rendered(g, sources, pages, {})}}

\* Seeded fault: rebuilds are expected to leave an event, too.
AuditedAll(n) == TRUE

\* AUDITED_OPERATION_KINDS.
Audited(n) == ops[n].key.kind \in {"ingest", "page"}

HasEvent(n) == \E i \in DOMAIN events : events[i].op = n

\* _check_operations when there is no lock.json.
OperationIssues ==
  {Issue("failed-operation", <<n>>) : n \in {k \in DOMAIN ops : ops[k].status = "failed"}}
  \cup {Issue("orphan-running-operation", <<n>>) : n \in {k \in DOMAIN ops : ops[k].status = "running"}}
  \cup {Issue("operation-event-status-drift", <<n>>) :
          n \in {k \in DOMAIN ops : HasEvent(k) /\ ops[k].status # "completed"}}
  \cup {Issue("missing-completion-event", <<n>>) :
          n \in {k \in DOMAIN ops : ops[k].status = "completed" /\ Audited(k) /\ ~HasEvent(k)}}

\* inspect_state_consistency.
Issues == SourceIssues \cup PageIssues \cup ProjectionIssues \cup OperationIssues

-----------------------------------------------------------------------------
(* Properties *)

\* Phase 4 design, acceptance criterion 1: Doctor finds nothing in a vault
\* whose commands all ran to their end, or were refused, in any order and
\* number, and that nobody edited by hand.
HealthyIsSilent ==
  lock = "free" /\ faults = 0 /\ edits = 0 => Issues = {}

\* After failures and crashes Doctor's findings lead to their cause, as its
\* hints promise: a page finding has an operation on that page that is not
\* completed, a projection finding has one that came last, and no source is
\* reported at all.  A failed attempt whose payload was completed by a later
\* one leaves no finding on its pages that only an unrelated failure explains.
FindingsAreExplained ==
  lock = "free" /\ edits = 0 =>
    /\ SourceIssues = {}
    /\ \A a \in Pages :
         \A n \in DOMAIN ops :
           /\ a \in Targets(ops[n].key)
           /\ ops[n].status = "completed"
           /\ \A k \in n + 1 .. Len(ops) : a \notin Targets(ops[k].key)
           => \A issue \in PageIssues : issue.about # <<a>>
    /\ \A issue \in PageIssues :
         \E n \in DOMAIN ops : ops[n].status # "completed" /\ issue.about[1] \in Targets(ops[n].key)
    /\ ProjectionIssues # {} => ops[Len(ops)].status # "completed"
    /\ \A issue \in OperationIssues : issue.check # "missing-completion-event"
=============================================================================
