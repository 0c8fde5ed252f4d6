----------------------------- MODULE LinkGraph -----------------------------
(***************************************************************************)
(* The rooted Wiki graph: how the Doctor resolves the links of the Wiki to *)
(* report broken ones, how knowledge_graph.py resolves them again to draw  *)
(* the graph, walks it from wiki/index.md and groups what the walk did not *)
(* reach, while the user goes on editing the vault.  The inventory has a   *)
(* baseline: without one the Doctor draws no graph.                        *)
(*                                                                         *)
(* A path is a sequence of names, relative to the vault, and a name is the *)
(* sequence of its parts between dots: "v1.2.md" is <<"v1", "2", "md">>.   *)
(***************************************************************************)
EXTENDS Naturals, FiniteSets, SequencesExt

CONSTANTS Order,          \* the paths of files the vault may hold, sorted
          Links,          \* the links a page may hold
          Documents,      \* the files the inventory's scan policy admits
          ControlCenter,  \* the path of the control center, <<>> if it is the vault
          FoldPart,       \* the parts of names to their case-folded form
          MaxLinks,       \* bound on the links of the first state
          MaxEdits        \* bound on the user's edits afterwards

ASSUME BoundsAssumption == MaxLinks \in Nat /\ MaxEdits \in Nat

Files == Range(Order)

Vault == <<>>
NoPath == <<<<>>>>  \* no file has it: a name has at least one part

Names == Seq(DOMAIN FoldPart) \ {<<>>}

\* Paths are made of names, a link names something, and "md" is written in lower
\* case: rglob("*.md") and the suffix tests, which ignore case, then agree.
ASSUME NamesAssumption ==
  /\ Order \in Seq(Seq(Names) \ {<<>>}) /\ ControlCenter \in Seq(Names)
  /\ \A link \in Links : link.path \in Seq(Names) \ {<<>>}
  /\ {"wiki", "index", "log", "md"} \subseteq DOMAIN FoldPart /\ FoldPart["md"] = "md"
  /\ \A part \in DOMAIN FoldPart : FoldPart[part] = "md" => part = "md"

IndexName == <<"index", "md">>
Wiki  == Append(ControlCenter, <<"wiki">>)
Index == Append(Wiki, IndexName)

IsMarkdown(name) == FoldPart[Last(name)] = "md" /\ Len(name) > 1
MarkdownFiles == {f \in Files : IsMarkdown(Last(f))}
WikiPages == {f \in MarkdownFiles : IsPrefix(Wiki, f)}

VARIABLES
  files,      \* the files that exist
  links,      \* the links each file holds
  edits,      \* counter for the bound
  phase,      \* where the Doctor is
  quiet,      \* the vault was not edited since the Doctor started (history)
  broken,     \* check_links: the links reported as broken
  nodes,      \* the files of the graph
  unread,     \* nodes whose text is still to be read
  edges,      \* adjacency, a symmetric relation
  queue,      \* nodes put on the queue of the walk or of the component
  reachable,  \* nodes the walk from wiki/index.md took off the queue
  remaining,  \* unreachable nodes in no component yet
  component,  \* the component being collected
  components  \* the components collected

vault == <<files, links, edits>>
walk  == <<queue, reachable, remaining, component, components>>
vars  == <<vault, phase, quiet, broken, nodes, unread, edges, walk>>

-----------------------------------------------------------------------------
(* Resolving a link *)

\* The first of some candidate paths that is in S.
FirstOf(paths, S) ==
  LET hits == {i \in DOMAIN paths : paths[i] \in S}
  IN  IF hits = {} THEN NoPath ELSE paths[Min(hits)]

\* A link names a path, plainly or relative to the page ("./" or "../").
Explicit(link) == link.from # "plain"
Join(base, link) == (IF link.from = "parent" THEN Front(base) ELSE base) \o link.path
Bare(link) == Len(link.path) = 1 /\ ~Explicit(link)

WithMd(path) == Append(Front(path), Append(Last(path), "md"))

\* Seeded fault: no ".md" is tried.
VariantsAsWritten(path) == <<path, Append(path, IndexName)>>

\* _candidate_variants, and the same list in resolve_link_candidate: ".md" is
\* tried for a name without a dot.
Variants(path) ==
  <<path>> \o (IF Len(Last(path)) = 1 THEN <<WithMd(path)>> ELSE <<>>)
           \o <<Append(path, IndexName)>>

\* wikilink_candidate_paths: ".md" is tried for every name that has it not.
WikilinkVariants(path) ==
  <<path>> \o (IF IsMarkdown(Last(path)) THEN <<>> ELSE <<WithMd(path)>>)
           \o <<Append(path, IndexName)>>

Fold(name) == [i \in DOMAIN name |-> FoldPart[name[i]]]

\* A bare wikilink names the one file of that name, or the one file that has it
\* but for upper and lower case; two of them are ambiguous.
ByName(link, S) ==
  LET name    == LET n == Last(link.path) IN IF IsMarkdown(n) THEN n ELSE Append(n, "md")
      matches == {f \in S : Fold(Last(f)) = Fold(name)}
      exact   == {f \in matches : Last(f) = name}
  IN  IF Cardinality(exact) = 1 THEN CHOOSE f \in exact : TRUE
      ELSE IF Cardinality(matches) = 1 THEN CHOOSE f \in matches : TRUE
      ELSE NoPath

\* _resolve_target of the graph.
GraphResolve(source, link) ==
  LET bases == IF Explicit(link) THEN <<Front(source)>> ELSE <<Front(source), Vault, Wiki>>
      found == FirstOf([i \in DOMAIN bases |-> FirstOf(Variants(Join(bases[i], link)), nodes)], nodes)
  IN  IF found = NoPath /\ link.kind = "wikilink" /\ Bare(link) THEN ByName(link, nodes)
      ELSE found

Targets(source) == nodes \cap {GraphResolve(source, link) : link \in links[source]}

\* resolve_wikilink and resolve_markdown_link of the Doctor, on what exists.
Existing == files \cup UNION {{SubSeq(f, 1, k) : k \in 0 .. Len(f)} : f \in files}  \* and the folders
DoctorResolve(source, link) ==
  LET roots == CASE link.kind = "markdown" \/ Explicit(link) \/ Bare(link) -> <<Front(source)>>
                 [] OTHER -> <<ControlCenter, Vault, Wiki>>
      paths(path) == IF link.kind = "markdown" THEN Variants(path) ELSE WikilinkVariants(path)
      found == FirstOf([i \in DOMAIN roots |-> FirstOf(paths(Join(roots[i], link)), Existing)], Existing)
  IN  IF found = NoPath /\ link.kind = "wikilink" /\ Bare(link)
      THEN ByName(link, files \cap MarkdownFiles)
      ELSE found

-----------------------------------------------------------------------------
\* The least of some files in the order the code sorts them in.
IsFirst(f, S) == f \in S /\ \A i, j \in DOMAIN Order : Order[i] = f /\ Order[j] \in S => i <= j

Holdings(placed) == [f \in Files |-> {link \in Links : <<f, link>> \in placed}]

Init ==
  /\ files = Files
  /\ \E placed \in [1 .. MaxLinks -> MarkdownFiles \X Links] : links = Holdings(Range(placed))
  /\ edits = 0
  /\ phase = "idle"
  /\ quiet = TRUE
  /\ broken = {}
  /\ nodes = {} /\ unread = {} /\ edges = {}
  /\ queue = {} /\ reachable = {} /\ remaining = {} /\ component = {} /\ components = {}

(* The user, in Obsidian or in the file system *)

\* Once every page is read, an edit is as good as one after the report.
Edited == /\ edits < MaxEdits
          /\ phase \in {"idle", "checked", "read"}
          /\ edits' = edits + 1
          /\ quiet' = (phase = "idle")
          /\ UNCHANGED <<phase, broken, nodes, unread, edges, walk>>

\* A link is put into a page, or taken out of it.
EditLink(f, link) ==
  /\ f \in files \cap MarkdownFiles
  /\ links' = [links EXCEPT ![f] = IF link \in @ THEN @ \ {link} ELSE @ \cup {link}]
  /\ UNCHANGED files
  /\ Edited

\* A file is deleted, or is there again.
EditFile(f) ==
  /\ files' = IF f \in files THEN files \ {f} ELSE files \cup {f}
  /\ links' = [links EXCEPT ![f] = {}]
  /\ Edited

(* The Doctor *)

\* check_links: the links of the Wiki pages that lead nowhere.
CheckLinks ==
  /\ phase = "idle"
  /\ broken' = {held \in (WikiPages \cap files) \X Links :
                  held[2] \in links[held[1]] /\ DoctorResolve(held[1], held[2]) = NoPath}
  /\ phase' = "checked"
  /\ UNCHANGED <<vault, quiet, nodes, unread, edges, walk>>

\* analyze_knowledge_graph: the documents and the Wiki pages are the nodes.
CollectNodes ==
  /\ phase = "checked"
  /\ nodes' = files \cap (Documents \cup WikiPages)
  /\ unread' = nodes'
  /\ edges' = {}
  /\ queue' = {} /\ reachable' = {} /\ remaining' = {} /\ component' = {} /\ components' = {}
  /\ phase' = "read"
  /\ UNCHANGED <<vault, quiet, broken>>

\* Seeded fault: a link is entered for the page that holds it only.
ReadNodeOneWay(f) ==
  /\ phase = "read"
  /\ IsFirst(f, unread)
  /\ unread' = unread \ {f}
  /\ edges' = IF f \in files \cap MarkdownFiles THEN edges \cup ({f} \X Targets(f)) ELSE edges
  /\ UNCHANGED <<vault, phase, quiet, broken, nodes, walk>>

\* A file that is no Markdown, or can no longer be read, adds nothing.
ReadNode(f) ==
  /\ phase = "read"
  /\ IsFirst(f, unread)
  /\ unread' = unread \ {f}
  /\ edges' = IF f \in files \cap MarkdownFiles
              THEN LET targets == Targets(f) IN edges \cup ({f} \X targets) \cup (targets \X {f})
              ELSE edges
  /\ UNCHANGED <<vault, phase, quiet, broken, nodes, walk>>

StartWalk ==
  /\ phase = "read"
  /\ unread = {}
  /\ queue' = nodes \cap {Index}
  /\ phase' = "walk"
  /\ UNCHANGED <<vault, quiet, broken, nodes, unread, edges, reachable, remaining, component, components>>

Neighbours(f) == {g \in nodes : <<f, g>> \in edges}

\* Seeded fault: the neighbours replace what is still queued.
VisitForgets(f) ==
  /\ phase = "walk"
  /\ f \in queue
  /\ reachable' = reachable \cup {f}
  /\ queue' = Neighbours(f) \ reachable'
  /\ UNCHANGED <<vault, phase, quiet, broken, nodes, unread, edges, remaining, component, components>>

\* Seeded fault: no guard, neither where nodes are queued nor where they are
\* taken off, looks whether a node was visited already.
VisitAgain(f) ==
  /\ phase = "walk"
  /\ f \in queue
  /\ reachable' = reachable \cup {f}
  /\ queue' = (queue \ {f}) \cup Neighbours(f)
  /\ UNCHANGED <<vault, phase, quiet, broken, nodes, unread, edges, remaining, component, components>>

\* The deque holds a node once per neighbour; taken off again it is skipped, so
\* the queue is a set here.
Visit(f) ==
  /\ phase = "walk"
  /\ f \in queue
  /\ reachable' = reachable \cup {f}
  /\ queue' = (queue \cup Neighbours(f)) \ reachable'
  /\ UNCHANGED <<vault, phase, quiet, broken, nodes, unread, edges, remaining, component, components>>

\* _components, on the nodes the walk did not reach.
Partition ==
  /\ phase = "walk"
  /\ queue = {}
  /\ remaining' = nodes \ reachable
  /\ phase' = "split"
  /\ UNCHANGED <<vault, quiet, broken, nodes, unread, edges, queue, reachable, component, components>>

StartComponent(f) ==
  /\ phase = "split"
  /\ queue = {} /\ component = {}
  /\ IsFirst(f, remaining)
  /\ queue' = {f}
  /\ UNCHANGED <<vault, phase, quiet, broken, nodes, unread, edges, reachable, remaining, component, components>>

\* Seeded fault: only the neighbours of the first node are grouped with it.
AddNeighboursOnly(f) ==
  /\ phase = "split"
  /\ f \in queue
  /\ component' = component \cup {f}
  /\ remaining' = remaining \ {f}
  /\ queue' = (queue \cup (IF component = {} THEN Neighbours(f) ELSE {})) \ component'
  /\ UNCHANGED <<vault, phase, quiet, broken, nodes, unread, edges, reachable, components>>

AddToComponent(f) ==
  /\ phase = "split"
  /\ f \in queue
  /\ component' = component \cup {f}
  /\ remaining' = remaining \ {f}
  /\ queue' = (queue \cup Neighbours(f)) \ component'
  /\ UNCHANGED <<vault, phase, quiet, broken, nodes, unread, edges, reachable, components>>

CloseComponent ==
  /\ phase = "split"
  /\ queue = {} /\ component # {}
  /\ components' = components \cup {component}
  /\ component' = {}
  /\ UNCHANGED <<vault, phase, quiet, broken, nodes, unread, edges, queue, reachable, remaining>>

Report ==
  /\ phase = "split"
  /\ queue = {} /\ component = {} /\ remaining = {}
  /\ phase' = "reported"
  /\ UNCHANGED <<vault, quiet, broken, nodes, unread, edges, walk>>

Analyse ==
  \/ CollectNodes
  \/ \E f \in nodes : ReadNode(f)
  \/ StartWalk
  \/ \E f \in nodes : Visit(f)
  \/ Partition
  \/ \E f \in nodes : StartComponent(f)
  \/ \E f \in nodes : AddToComponent(f)
  \/ CloseComponent
  \/ Report

Edit == \E f \in Files : EditFile(f) \/ \E link \in Links : EditLink(f, link)

Next == CheckLinks \/ Analyse \/ Edit

Spec == Init /\ [][Next]_vars

-----------------------------------------------------------------------------
(* The report: check_graph_connectivity *)

\* wiki/log.md, in upper or lower case, is not reported.
Logs == {f \in WikiPages : Front(f) = Wiki /\ Fold(Last(f)) = <<"log", "md">>}
OrphanPages == ((nodes \cap WikiPages) \ reachable) \ ({Index} \cup Logs)
DetachedComponents ==
  {c \cap OrphanPages : c \in {d \in components : Cardinality(d \cap OrphanPages) >= 2}}

-----------------------------------------------------------------------------
(* Properties *)

TypeOK ==
  /\ files \subseteq Files
  /\ links \in [Files -> SUBSET Links]
  /\ edits \in Nat
  /\ phase \in {"idle", "checked", "read", "walk", "split", "reported"}
  /\ quiet \in BOOLEAN
  /\ broken \subseteq WikiPages \X Links
  /\ nodes \subseteq Files
  /\ unread \subseteq nodes
  /\ edges \subseteq nodes \X nodes
  /\ queue \subseteq nodes /\ reachable \subseteq nodes
  /\ remaining \subseteq nodes /\ component \subseteq nodes
  /\ components \subseteq SUBSET nodes

\* A set of nodes that no edge that was read leaves.
Closed(S) == \A f \in S : Neighbours(f) \subseteq S

\* Whatever the user edited meanwhile, the walk ends with the smallest set of
\* nodes that holds wiki/index.md and that no edge leaves.
ReachableIsLeast ==
  phase \in {"split", "reported"} =>
    /\ Index \in nodes => Index \in reachable
    /\ Closed(reachable)
    /\ \A S \in SUBSET nodes : Index \in S /\ Closed(S) => reachable \subseteq S

\* The links between nodes as the vault holds them, whichever way they point.
LinkPairs ==
  LET targets == [f \in nodes |-> Targets(f)]
  IN  {e \in nodes \X nodes : e[2] \in targets[e[1]] \/ e[1] \in targets[e[2]]}

\* None of some links crosses the border of S.
Isolated(S, pairs) == \A f \in S, g \in nodes \ S : <<f, g>> \notin pairs

\* If nobody edits the vault meanwhile, a Wiki page is reported as orphan
\* exactly when a set of files without wiki/index.md holds it that no link
\* connects to the rest.
OrphansAreCutOff ==
  phase = "reported" /\ quiet =>
    LET pairs == LinkPairs
    IN  \A f \in (nodes \cap WikiPages) \ ({Index} \cup Logs) :
          f \in OrphanPages <=> \E S \in SUBSET (nodes \ {Index}) : f \in S /\ Isolated(S, pairs)

\* Likewise two orphans are in one detached component exactly when no such set
\* holds the one without the other.
DetachedAreConnected ==
  phase = "reported" /\ quiet =>
    LET pairs == LinkPairs
    IN  \A f, g \in OrphanPages :
          f # g =>
            ((\E c \in DetachedComponents : f \in c /\ g \in c)
             <=> ~\E S \in SUBSET (nodes \ {g}) : f \in S /\ Isolated(S, pairs))

\* A page that wiki/index.md links to, as check_links reads the link, is no
\* orphan.
IndexLinksReach ==
  phase = "reported" /\ quiet /\ Index \in files =>
    \A link \in links[Index] : DoctorResolve(Index, link) \notin OrphanPages

\* A node is what the link may mean, read from the base.
Holds(base, link) == \E i \in DOMAIN Variants(Join(base, link)) : Variants(Join(base, link))[i] \in nodes

\* A link of wiki/index.md that both resolvers read in one way: they try ".md" on
\* the same names, the vault is the control center, and of the vault and wiki/,
\* which they try in another order, not both have what it may mean.
ReadAlike(link) ==
  \/ link.kind = "markdown"
  \/ /\ Len(Last(link.path)) = 1 \/ IsMarkdown(Last(link.path))
     /\ CASE Explicit(link) -> TRUE
          [] Bare(link) -> Holds(Vault, link) => Holds(Wiki, link)
          [] OTHER -> ControlCenter = Vault /\ ~(Holds(Vault, link) /\ Holds(Wiki, link))

\* So much of it holds for every vault: what a link of wiki/index.md means to the
\* link check is no orphan of the graph, if both resolvers read it in one way.
AlikeLinksReach ==
  phase = "reported" /\ quiet /\ Index \in files =>
    \A link \in links[Index] : ReadAlike(link) => DoctorResolve(Index, link) \notin OrphanPages

\* However the links run in circles, every node taken off a queue is one that
\* was on none before: walk and grouping end.
NoNodeTwice ==
  [][queue # {} /\ UNCHANGED vault =>
       reachable \cup component # reachable' \cup component']_vars
============================================================================
