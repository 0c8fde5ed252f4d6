--------------------------- MODULE LinkGraphProofs ---------------------------
(***************************************************************************)
(* Theorems about LinkGraph, for any vault, any links and any number of    *)
(* edits: whatever resolving a link yields, the walk reaches exactly what  *)
(* is connected to wiki/index.md, and the grouping splits the rest into    *)
(* its connected parts.  The last part is about resolving a link: where    *)
(* the graph reads the links of the index as the Doctor does.              *)
(***************************************************************************)
EXTENDS LinkGraph, SequenceTheorems, FiniteSetTheorems, WellFoundedInduction, TLAPS

-----------------------------------------------------------------------------
(* Types *)

\* Only a Markdown file that exists holds links.
HoldersOK == \A f \in Files : links[f] # {} => f \in files \cap MarkdownFiles

GraphTypeInv == TypeOK /\ HoldersOK

LEMMA TypeInit == Init => GraphTypeInv
<1> SUFFICES ASSUME Init PROVE GraphTypeInv
  OBVIOUS
<1>1. PICK placed \in [1 .. MaxLinks -> MarkdownFiles \X Links] : links = Holdings(Range(placed))
  BY DEF Init
<1>2. Range(placed) \subseteq MarkdownFiles \X Links
  BY DEF Range
<1>3. links \in [Files -> SUBSET Links]
  BY <1>1 DEF Holdings
<1>4. HoldersOK
  <2> SUFFICES ASSUME NEW f \in Files, NEW link \in links[f] PROVE f \in files \cap MarkdownFiles
    BY DEF HoldersOK
  <2>1. <<f, link>> \in Range(placed)
    BY <1>1 DEF Holdings
  <2> QED
    BY <1>2, <2>1 DEF Init
<1> QED
  BY <1>3, <1>4 DEF Init, GraphTypeInv, TypeOK

LEMMA TypeNext == GraphTypeInv /\ [Next]_vars => GraphTypeInv'
<1> SUFFICES ASSUME GraphTypeInv, [Next]_vars PROVE GraphTypeInv'
  OBVIOUS
<1> USE DEF GraphTypeInv, TypeOK, vault, walk
<1>1. CASE CheckLinks
  <2>1. broken' \subseteq WikiPages \X Links
    BY <1>1, Zenon DEF CheckLinks
  <2> QED
    BY <1>1, <2>1 DEF CheckLinks, HoldersOK
<1>2. CASE CollectNodes
  BY <1>2 DEF CollectNodes, HoldersOK
<1>3. ASSUME NEW f \in nodes, ReadNode(f) PROVE GraphTypeInv'
  <2>1. Targets(f) \subseteq nodes
    BY DEF Targets
  <2>2. edges' \subseteq nodes \X nodes
    BY <1>3, <2>1 DEF ReadNode
  <2> QED
    BY <1>3, <2>2 DEF ReadNode, HoldersOK
<1>4. CASE StartWalk
  BY <1>4 DEF StartWalk, HoldersOK
<1>5. ASSUME NEW f \in nodes, Visit(f) PROVE GraphTypeInv'
  BY <1>5 DEF Visit, HoldersOK, Neighbours
<1>6. CASE Partition
  BY <1>6 DEF Partition, HoldersOK
<1>7. ASSUME NEW f \in nodes, StartComponent(f) PROVE GraphTypeInv'
  BY <1>7 DEF StartComponent, HoldersOK
<1>8. ASSUME NEW f \in nodes, AddToComponent(f) PROVE GraphTypeInv'
  BY <1>8 DEF AddToComponent, HoldersOK, Neighbours
<1>9. CASE CloseComponent
  BY <1>9 DEF CloseComponent, HoldersOK
<1>10. CASE Report
  BY <1>10 DEF Report, HoldersOK
<1>11. ASSUME NEW f \in Files, EditFile(f) PROVE GraphTypeInv'
  BY <1>11 DEF EditFile, Edited, HoldersOK
<1>12. ASSUME NEW f \in Files, NEW link \in Links, EditLink(f, link) PROVE GraphTypeInv'
  BY <1>12 DEF EditLink, Edited, HoldersOK
<1>13. CASE UNCHANGED vars
  BY <1>13 DEF vars, HoldersOK
<1> QED
  BY <1>1, <1>2, <1>3, <1>4, <1>5, <1>6, <1>7, <1>8, <1>9, <1>10, <1>11, <1>12, <1>13
  DEF Next, Analyse, Edit

\* Every variable keeps its shape; the graph stays within the files there are
\* paths for, and only Markdown files hold links.
THEOREM TypeCorrect == Spec => []GraphTypeInv
<1> QED
  BY TypeInit, TypeNext, PTL DEF Spec

-----------------------------------------------------------------------------
(* The graph *)

\* An edge is entered for both its ends.
Symmetric == \A f, g \in nodes : <<f, g>> \in edges => <<g, f>> \in edges

\* Before the walk nothing is collected.
NothingYet == queue = {} /\ reachable = {} /\ remaining = {} /\ component = {} /\ components = {}

LEMMA SymmetricNext == GraphTypeInv /\ Symmetric /\ [Next]_vars => Symmetric'
<1> SUFFICES ASSUME GraphTypeInv, Symmetric, [Next]_vars PROVE Symmetric'
  OBVIOUS
<1>1. CASE UNCHANGED <<nodes, edges>>
  BY <1>1 DEF Symmetric
<1>2. CASE CollectNodes
  BY <1>2 DEF CollectNodes, Symmetric
<1>3. ASSUME NEW f \in nodes, ReadNode(f) PROVE Symmetric'
  <2>1. Targets(f) \subseteq nodes
    BY DEF Targets
  <2> QED
    BY <1>3, <2>1 DEF ReadNode, Symmetric
<1> QED
  BY <1>1, <1>2, <1>3 DEF Next, Analyse, Edit, CheckLinks, StartWalk, Visit, Partition, StartComponent,
     AddToComponent, CloseComponent, Report, EditFile, EditLink, Edited, vars, vault, walk

\* The edges that were read leave a closed set alone from either side.
LEMMA ClosedBothWays ==
  ASSUME Symmetric, GraphTypeInv, NEW S \in SUBSET nodes, Closed(S)
  PROVE  Closed(nodes \ S)
BY DEF Symmetric, Closed, Neighbours

-----------------------------------------------------------------------------
(* The walk from wiki/index.md *)

\* S holds the index, if there is one, and all it holds must be reachable.
Rooted(S) ==
  /\ Index \in nodes => Index \in S
  /\ Index \notin nodes => S = {}
  /\ \A T \in SUBSET nodes : Index \in T /\ Closed(T) => S \subseteq T

WalkInv ==
  CASE phase \in {"idle", "checked", "read"} -> NothingYet
    [] phase = "walk" ->
         /\ Rooted(reachable \cup queue)
         /\ queue \cap reachable = {}
         /\ \A f \in reachable : Neighbours(f) \subseteq reachable \cup queue
         /\ remaining = {} /\ component = {} /\ components = {}
    [] OTHER -> Rooted(reachable) /\ Closed(reachable)

LEMMA WalkNext == GraphTypeInv /\ WalkInv /\ [Next]_vars => WalkInv'
<1> SUFFICES ASSUME GraphTypeInv, WalkInv, [Next]_vars PROVE WalkInv'
  OBVIOUS
<1>1. CASE UNCHANGED <<phase, nodes, edges, walk>>
  BY <1>1 DEF WalkInv, NothingYet, Rooted, Closed, Neighbours, walk
<1>2. CASE CheckLinks
  BY <1>2 DEF CheckLinks, WalkInv, NothingYet, walk
<1>3. CASE CollectNodes
  BY <1>3 DEF CollectNodes, WalkInv, NothingYet
<1>4. ASSUME NEW f \in nodes, ReadNode(f) PROVE WalkInv'
  BY <1>4 DEF ReadNode, WalkInv, NothingYet, walk
<1>5. CASE StartWalk
  <2>1. /\ reachable' = {} /\ remaining' = {} /\ component' = {} /\ components' = {}
        /\ queue' = nodes \cap {Index} /\ phase' = "walk" /\ UNCHANGED <<nodes, edges>>
    BY <1>5 DEF StartWalk, WalkInv, NothingYet
  <2>2. Rooted(reachable \cup queue)'
    BY <2>1 DEF Rooted
  <2> QED
    BY <2>1, <2>2 DEF WalkInv
<1>6. ASSUME NEW f \in nodes, Visit(f) PROVE WalkInv'
  <2>1. /\ phase = "walk" /\ f \in queue
        /\ Rooted(reachable \cup queue)
        /\ queue \cap reachable = {}
        /\ \A g \in reachable : Neighbours(g) \subseteq reachable \cup queue
        /\ remaining = {} /\ component = {} /\ components = {}
    BY <1>6 DEF Visit, WalkInv
  <2>2. /\ reachable' = reachable \cup {f}
        /\ queue' = (queue \cup Neighbours(f)) \ reachable'
        /\ UNCHANGED <<phase, nodes, edges, remaining, component, components>>
    BY <1>6 DEF Visit
  <2>3. (reachable \cup queue)' = reachable \cup queue \cup Neighbours(f)
    BY <2>1, <2>2
  <2>4. \A S : Closed(S)' <=> Closed(S)
    BY <2>2 DEF Closed, Neighbours
  <2>5. Rooted(reachable \cup queue)'
    <3>1. ASSUME NEW T \in SUBSET nodes, Index \in T, Closed(T) PROVE (reachable \cup queue)' \subseteq T
      BY <3>1, <2>1, <2>3 DEF Rooted, Closed
    <3> QED
      BY <3>1, <2>1, <2>2, <2>3, <2>4 DEF Rooted
  <2>6. \A g \in reachable' : Neighbours(g)' \subseteq (reachable \cup queue)'
    <3>1. \A g : Neighbours(g)' = Neighbours(g)
      BY <2>2 DEF Neighbours
    <3> QED
      BY <3>1, <2>1, <2>2, <2>3
  <2>7. queue' \cap reachable' = {}
    BY <2>2
  <2> QED
    BY <2>1, <2>2, <2>5, <2>6, <2>7 DEF WalkInv
<1>7. CASE Partition
  <2>1. /\ Rooted(reachable) /\ Closed(reachable)
        /\ UNCHANGED <<nodes, edges, reachable>> /\ phase' = "split"
    BY <1>7 DEF Partition, WalkInv, Closed
  <2> QED
    BY <2>1 DEF WalkInv, Rooted, Closed, Neighbours
<1>8. CASE /\ phase \in {"split", "reported"} /\ phase' \in {"split", "reported"}
           /\ UNCHANGED <<nodes, edges, reachable>>
  BY <1>8 DEF WalkInv, Rooted, Closed, Neighbours
<1> QED
  BY <1>1, <1>2, <1>3, <1>4, <1>5, <1>6, <1>7, <1>8 DEF Next, Analyse, Edit, StartComponent,
     AddToComponent, CloseComponent, Report, EditFile, EditLink, Edited, vars, vault, walk

LEMMA WalkInvariant == Spec => [](GraphTypeInv /\ Symmetric /\ WalkInv)
<1>1. Init => Symmetric /\ WalkInv
  BY DEF Init, Symmetric, WalkInv, NothingYet
<1> QED
  BY <1>1, TypeInit, TypeNext, SymmetricNext, WalkNext, PTL DEF Spec

\* Whatever is edited meanwhile, the walk ends with the smallest closed set
\* that holds wiki/index.md.
THEOREM Reachable == Spec => []ReachableIsLeast
<1>1. GraphTypeInv /\ WalkInv => ReachableIsLeast
  BY DEF WalkInv, Rooted, ReachableIsLeast
<1> QED
  BY <1>1, WalkInvariant, PTL

-----------------------------------------------------------------------------
(* The components of the rest *)

\* No closed set holds a part of D only.
Tied(D) == \A T \in SUBSET nodes : Closed(T) /\ T \cap D # {} => D \subseteq T

\* The component being collected is tied, still in the rest, and what its nodes
\* are linked to is collected or queued.
ComponentInv ==
  /\ queue \subseteq remaining
  /\ component \cap (remaining \cup reachable) = {}
  /\ \A f \in component : Neighbours(f) \subseteq component \cup queue
  /\ Tied(component \cup queue)
  /\ IsFiniteSet(component)

\* Together with the components collected before it, which are closed, and the
\* nodes not looked at yet it makes up the rest.
RestInv ==
  /\ remaining \cap reachable = {}
  /\ nodes \ reachable = remaining \cup component \cup UNION components
  /\ \A c \in components :
       Closed(c) /\ Tied(c) /\ IsFiniteSet(c) /\ c \cap (remaining \cup component) = {}

SplitInv ==
  /\ phase \in {"split", "reported"} => ComponentInv /\ RestInv
  /\ phase = "reported" => component = {} /\ remaining = {}

LEMMA SplitNext ==
  GraphTypeInv /\ Symmetric /\ WalkInv /\ SplitInv /\ [Next]_vars => SplitInv'
<1>a. ASSUME SplitInv, [Next]_vars, phase' = "reported" PROVE component' = {} /\ remaining' = {}
  BY <1>a DEF SplitInv, Next, Analyse, Edit, CheckLinks, CollectNodes, ReadNode, StartWalk, Visit,
     Partition, StartComponent, AddToComponent, CloseComponent, Report, EditFile, EditLink, Edited,
     vars, vault, walk
<1> SUFFICES ASSUME GraphTypeInv, Symmetric, WalkInv, SplitInv, [Next]_vars,
                    phase' \in {"split", "reported"}
             PROVE  ComponentInv' /\ RestInv'
  BY <1>a DEF SplitInv
<1> DEFINE Same == UNCHANGED <<nodes, edges, reachable>>
<1>0. ASSUME Same
      PROVE  /\ \A f : Neighbours(f)' = Neighbours(f)
             /\ \A D : (Closed(D)' <=> Closed(D)) /\ (Tied(D)' <=> Tied(D))
  BY <1>0 DEF Tied, Closed, Neighbours
<1>1. CASE Same /\ phase \in {"split", "reported"} /\ UNCHANGED <<queue, remaining, component, components>>
  BY <1>0, <1>1 DEF SplitInv, ComponentInv, RestInv, Tied, Closed, Neighbours
<1>2. CASE Partition
  <2>1. /\ queue' = {} /\ component' = {} /\ components' = {} /\ remaining' = nodes \ reachable /\ Same
    BY <1>2 DEF Partition, WalkInv
  <2>2. IsFiniteSet({})
    BY FS_EmptySet
  <2> QED
    BY <2>1, <2>2 DEF ComponentInv, RestInv, Tied
<1>3. ASSUME NEW f \in nodes, StartComponent(f) PROVE ComponentInv' /\ RestInv'
  <2>1. /\ queue = {} /\ component = {} /\ f \in remaining /\ queue' = {f} /\ phase = "split"
        /\ Same /\ UNCHANGED <<remaining, component, components>>
    BY <1>3 DEF StartComponent, IsFirst
  <2>2. Tied(component \cup queue)'
    BY <2>1 DEF Tied
  <2>3. ComponentInv'
    BY <1>0, <2>1, <2>2 DEF SplitInv, ComponentInv
  <2> QED
    BY <1>0, <2>1, <2>3 DEF SplitInv, RestInv
<1>4. ASSUME NEW f \in nodes, AddToComponent(f) PROVE ComponentInv' /\ RestInv'
  <2>1. /\ phase = "split" /\ f \in queue
        /\ component' = component \cup {f} /\ remaining' = remaining \ {f}
        /\ queue' = (queue \cup Neighbours(f)) \ component'
        /\ Same /\ UNCHANGED components
    BY <1>4 DEF AddToComponent
  <2>2. ComponentInv /\ RestInv /\ Closed(reachable)
    BY <2>1, <1>4 DEF SplitInv, WalkInv
  <2>3. f \in remaining /\ f \notin reachable /\ f \notin component
    BY <2>1, <2>2 DEF ComponentInv, RestInv
  <2>4. ASSUME NEW g \in Neighbours(f) PROVE g \in remaining \cup component
    <3>1. g \in nodes /\ f \in Neighbours(g)
      BY <1>4, <2>4 DEF Neighbours, Symmetric
    <3>2. g \notin reachable
      BY <2>2, <2>3, <3>1 DEF Closed
    <3>3. \A c \in components : g \notin c
      BY <2>2, <2>3, <3>1 DEF RestInv, Closed
    <3> QED
      BY <2>2, <3>1, <3>2, <3>3 DEF RestInv
  <2>5. (component \cup queue)' = component \cup queue \cup Neighbours(f)
    BY <2>1
  <2>6. Tied(component \cup queue)'
    <3> SUFFICES ASSUME NEW T \in SUBSET nodes, Closed(T),
                        T \cap (component \cup queue \cup Neighbours(f)) # {}
                 PROVE  component \cup queue \cup Neighbours(f) \subseteq T
      BY <1>0, <2>1, <2>5 DEF Tied
    <3>1. T \cap (component \cup queue) # {}
      <4>1. CASE \E g \in Neighbours(f) : g \in T
        <5>1. PICK g \in Neighbours(f) : g \in T
          BY <4>1
        <5>2. f \in Neighbours(g)
          BY <1>4, <5>1 DEF Neighbours, Symmetric
        <5>3. f \in T
          BY <5>1, <5>2 DEF Closed
        <5> QED
          BY <5>3, <2>1
      <4> QED
        BY <4>1
    <3>2. component \cup queue \subseteq T
      BY <2>2, <3>1 DEF ComponentInv, Tied
    <3> QED
      BY <3>2, <2>1 DEF Closed
  <2>7. IsFiniteSet(component')
    BY <2>1, <2>2, FS_AddElement DEF ComponentInv
  <2>8. ComponentInv'
    <3>1. queue' \subseteq remaining'
      BY <2>1, <2>2, <2>4 DEF ComponentInv
    <3>2. component' \cap (remaining \cup reachable)' = {}
      BY <2>1, <2>2, <2>3 DEF ComponentInv
    <3>3. \A g \in component' : Neighbours(g)' \subseteq (component \cup queue)'
      BY <1>0, <2>1, <2>2, <2>5 DEF ComponentInv
    <3> QED
      BY <3>1, <3>2, <3>3, <2>6, <2>7 DEF ComponentInv
  <2> QED
    BY <1>0, <2>1, <2>2, <2>3, <2>8 DEF RestInv
<1>5. CASE CloseComponent
  <2>1. /\ phase = "split" /\ queue = {} /\ component' = {}
        /\ components' = components \cup {component}
        /\ Same /\ UNCHANGED <<queue, remaining>>
    BY <1>5 DEF CloseComponent
  <2>2. ComponentInv /\ RestInv
    BY <2>1 DEF SplitInv
  <2>3. Closed(component) /\ Tied(component) /\ IsFiniteSet(component) /\ component \cap remaining = {}
    BY <2>1, <2>2 DEF ComponentInv, Closed, Tied
  <2>4. IsFiniteSet({})
    BY FS_EmptySet
  <2>5. ComponentInv'
    BY <2>1, <2>2, <2>4 DEF ComponentInv, Tied
  <2> QED
    BY <1>0, <2>1, <2>2, <2>3, <2>5 DEF RestInv
<1>6. CASE Report
  BY <1>0, <1>6 DEF Report, walk, SplitInv, ComponentInv, RestInv, Tied, Closed, Neighbours
<1> QED
  BY <1>1, <1>2, <1>3, <1>4, <1>5, <1>6 DEF Next, Analyse, Edit, CheckLinks, CollectNodes, ReadNode,
     StartWalk, Visit, EditFile, EditLink, Edited, vars, vault, walk

LEMMA SplitInvariant == Spec => [](GraphTypeInv /\ Symmetric /\ WalkInv /\ SplitInv)
<1>1. Init => SplitInv
  BY DEF Init, SplitInv
<1> QED
  BY <1>1, WalkInvariant, SplitNext, PTL DEF Spec

\* However the links run in circles, no node is taken off a queue twice.
THEOREM OnceEach == Spec => NoNodeTwice
<1>1. GraphTypeInv /\ Symmetric /\ WalkInv /\ SplitInv /\ [Next]_vars
      => [queue # {} /\ UNCHANGED vault =>
            reachable \cup component # reachable' \cup component']_vars
  <2> SUFFICES ASSUME GraphTypeInv, Symmetric, WalkInv, SplitInv, Next, queue # {}, UNCHANGED vault,
                      UNCHANGED vars \/ reachable \cup component = reachable' \cup component'
               PROVE  UNCHANGED vars
    OBVIOUS
  <2>1. phase \in {"walk", "split", "reported"}
    BY DEF WalkInv, NothingYet, GraphTypeInv, TypeOK
  <2>2. ASSUME NEW f \in nodes, Visit(f) PROVE reachable \cup component # reachable' \cup component'
    BY <2>2 DEF Visit, WalkInv
  <2>3. ASSUME NEW f \in nodes, AddToComponent(f)
        PROVE  reachable \cup component # reachable' \cup component'
    BY <2>3 DEF AddToComponent, SplitInv, ComponentInv, RestInv
  <2> QED
    BY <2>1, <2>2, <2>3 DEF Next, Analyse, Edit, CheckLinks, CollectNodes, ReadNode, StartWalk, Partition,
       StartComponent, CloseComponent, Report, EditFile, EditLink, Edited, vars, vault, walk
<1> QED
  BY <1>1, SplitInvariant, PTL DEF Spec, NoNodeTwice

-----------------------------------------------------------------------------
(* What the report says of the links *)

Linked(f, g) == g \in Targets(f)

\* With the vault as it was, an edge is a link of a file that has been read.
ExactInv ==
  phase \in {"read", "walk", "split", "reported"} =>
    /\ phase # "read" => unread = {}
    /\ quiet => \A f, g \in nodes :
         <<f, g>> \in edges <=> \/ f \notin unread /\ Linked(f, g)
                                \/ g \notin unread /\ Linked(g, f)

LEMMA TargetsStay ==
  ASSUME UNCHANGED <<nodes, links>> PROVE \A f, g : Linked(f, g)' <=> Linked(f, g)
BY DEF Linked, Targets, GraphResolve

LEMMA ExactNext == GraphTypeInv /\ ExactInv /\ [Next]_vars => ExactInv'
<1> SUFFICES ASSUME GraphTypeInv, ExactInv, [Next]_vars PROVE ExactInv'
  OBVIOUS
<1>1. CASE /\ UNCHANGED <<links, nodes, unread, edges, quiet>>
           /\ phase \in {"read", "walk", "split", "reported"}
           /\ phase' = "read" \/ unread = {}
           /\ phase' # "read" \/ phase = "read"
  BY <1>1, TargetsStay DEF ExactInv
<1>2. CASE phase' \in {"idle", "checked"}
  BY <1>2 DEF ExactInv
<1>3. CASE CollectNodes
  BY <1>3 DEF CollectNodes, ExactInv
<1>4. ASSUME NEW f \in nodes, ReadNode(f) PROVE ExactInv'
  <2>1. /\ phase = "read" /\ phase' = "read" /\ f \in unread /\ unread' = unread \ {f}
        /\ UNCHANGED <<links, nodes, quiet>>
    BY <1>4 DEF ReadNode, IsFirst, vault
  <2>2. ASSUME NEW g \in nodes, NEW h \in nodes
        PROVE  <<g, h>> \in edges' <=> \/ <<g, h>> \in edges
                                       \/ g = f /\ Linked(f, h)
                                       \/ h = f /\ Linked(f, g)
    <3>1. CASE f \in files \cap MarkdownFiles
      BY <1>4, <2>2, <3>1 DEF ReadNode, Linked
    <3>2. CASE f \notin files \cap MarkdownFiles
      <4>1. Targets(f) = {}
        BY <3>2 DEF GraphTypeInv, TypeOK, HoldersOK, Targets
      <4> QED
        BY <1>4, <3>2, <4>1 DEF ReadNode, Linked
    <3> QED
      BY <3>1, <3>2
  <2> QED
    BY <2>1, <2>2, TargetsStay DEF ExactInv
<1>5. CASE Edit
  BY <1>5 DEF Edit, EditFile, EditLink, Edited, ExactInv
<1>6. CASE UNCHANGED vars
  BY <1>6, TargetsStay DEF vars, vault, ExactInv
<1> QED
  BY <1>1, <1>2, <1>3, <1>4, <1>5, <1>6 DEF Next, Analyse, CheckLinks, StartWalk, Visit, Partition,
     StartComponent, AddToComponent, CloseComponent, Report, vault, ExactInv

LEMMA GraphInvariant == Spec => [](GraphTypeInv /\ Symmetric /\ WalkInv /\ SplitInv /\ ExactInv)
<1>1. Init => ExactInv
  BY DEF Init, ExactInv
<1> QED
  BY <1>1, SplitInvariant, ExactNext, PTL DEF Spec

\* Without edits in between, the edges of the report are the links of the vault.
LEMMA PairsAreEdges ==
  ASSUME GraphTypeInv, ExactInv, phase = "reported", quiet
  PROVE  \A f, g \in nodes : <<f, g>> \in LinkPairs <=> <<f, g>> \in edges
BY DEF ExactInv, LinkPairs, Linked

\* A set no link leaves or enters is a set no edge leaves, and the other way round.
LEMMA IsolatedIsClosed ==
  ASSUME GraphTypeInv, Symmetric, ExactInv, phase = "reported", quiet, NEW S \in SUBSET nodes
  PROVE  Isolated(S, LinkPairs) <=> Closed(S)
BY PairsAreEdges DEF Isolated, Closed, Neighbours, Symmetric, GraphTypeInv, TypeOK

\* If nobody edits the vault meanwhile, the orphans are the Wiki pages that a
\* set of files without wiki/index.md cuts off.
THEOREM Orphans == Spec => []OrphansAreCutOff
<1>1. ASSUME GraphTypeInv, Symmetric, WalkInv, ExactInv, phase = "reported", quiet,
             NEW f \in (nodes \cap WikiPages) \ ({Index} \cup Logs)
      PROVE  f \in OrphanPages <=> \E S \in SUBSET (nodes \ {Index}) : f \in S /\ Isolated(S, LinkPairs)
  <2>1. Rooted(reachable) /\ Closed(reachable) /\ reachable \subseteq nodes
    BY <1>1 DEF WalkInv, GraphTypeInv, TypeOK
  <2>2. ASSUME f \in OrphanPages
        PROVE  \E S \in SUBSET (nodes \ {Index}) : f \in S /\ Isolated(S, LinkPairs)
    <3>1. Closed(nodes \ reachable)
      BY <1>1, <2>1, ClosedBothWays
    <3>2. nodes \ reachable \in SUBSET (nodes \ {Index}) /\ f \in nodes \ reachable
      BY <2>1, <2>2 DEF Rooted, OrphanPages
    <3> QED
      BY <1>1, <3>1, <3>2, IsolatedIsClosed
  <2>3. ASSUME NEW S \in SUBSET (nodes \ {Index}), f \in S, Isolated(S, LinkPairs)
        PROVE  f \in OrphanPages
    <3>1. Closed(S)
      BY <1>1, <2>3, IsolatedIsClosed
    <3>2. Closed(nodes \ S)
      BY <1>1, <3>1, ClosedBothWays
    <3>3. f \notin reachable
      BY <2>1, <2>3, <3>2 DEF Rooted
    <3> QED
      BY <1>1, <3>3 DEF OrphanPages
  <2> QED
    BY <2>2, <2>3
<1>2. GraphTypeInv /\ Symmetric /\ WalkInv /\ ExactInv => OrphansAreCutOff
  BY <1>1 DEF OrphansAreCutOff
<1> QED
  BY <1>2, GraphInvariant, PTL

\* Two orphans are reported as one detached component exactly when no set of
\* files that links do not leave holds the one without the other.
THEOREM Detached == Spec => []DetachedAreConnected
<1>1. ASSUME GraphTypeInv, Symmetric, WalkInv, SplitInv, ExactInv, phase = "reported", quiet,
             component = {}, remaining = {},
             NEW f \in OrphanPages, NEW g \in OrphanPages, f # g
      PROVE  (\E c \in DetachedComponents : f \in c /\ g \in c)
             <=> ~\E S \in SUBSET (nodes \ {g}) : f \in S /\ Isolated(S, LinkPairs)
  <2>1. /\ nodes \ reachable = UNION components
        /\ \A c \in components : Closed(c) /\ Tied(c) /\ IsFiniteSet(c)
        /\ components \subseteq SUBSET nodes
    BY <1>1 DEF SplitInv, RestInv, GraphTypeInv, TypeOK
  <2>2. ASSUME NEW c \in DetachedComponents, f \in c, g \in c,
               NEW S \in SUBSET (nodes \ {g}), f \in S, Isolated(S, LinkPairs)
        PROVE  FALSE
    <3>1. PICK d \in components : c = d \cap OrphanPages
      BY DEF DetachedComponents
    <3>2. Closed(S)
      BY <1>1, <2>2, IsolatedIsClosed
    <3>3. d \subseteq S
      BY <2>1, <2>2, <3>1, <3>2 DEF Tied
    <3> QED
      BY <2>2, <3>1, <3>3
  <2>3. ASSUME ~\E S \in SUBSET (nodes \ {g}) : f \in S /\ Isolated(S, LinkPairs)
        PROVE  \E c \in DetachedComponents : f \in c /\ g \in c
    <3>1. PICK d \in components : f \in d
      BY <1>1, <2>1 DEF OrphanPages
    <3>2. Isolated(d, LinkPairs)
      BY <1>1, <2>1, IsolatedIsClosed
    <3>3. g \in d
      BY <2>1, <2>3, <3>1, <3>2
    <3>4. Cardinality(d \cap OrphanPages) >= 2
      <4>1. IsFiniteSet(d \cap OrphanPages)
        BY <2>1, FS_Subset
      <4>2. IsFiniteSet({f, g}) /\ Cardinality({f, g}) = 2
        <5>1. IsFiniteSet({f}) /\ Cardinality({f}) = 1
          BY FS_Singleton
        <5>2. {f, g} = {f} \cup {g} /\ g \notin {f}
          BY <1>1
        <5> QED
          BY <5>1, <5>2, FS_AddElement
      <4>3. {f, g} \in SUBSET (d \cap OrphanPages)
        BY <3>1, <3>3
      <4>4. Cardinality({f, g}) <= Cardinality(d \cap OrphanPages)
        BY <4>1, <4>3, FS_Subset
      <4>5. Cardinality(d \cap OrphanPages) \in Nat
        BY <4>1, FS_CardinalityType
      <4> QED
        BY <4>2, <4>4, <4>5
    <3>5. d \cap OrphanPages \in DetachedComponents
      BY <3>4 DEF DetachedComponents
    <3> QED
      BY <3>1, <3>3, <3>5
  <2> QED
    BY <2>2, <2>3
<1>2. GraphTypeInv /\ Symmetric /\ WalkInv /\ SplitInv /\ ExactInv => DetachedAreConnected
  BY <1>1 DEF DetachedAreConnected, SplitInv
<1> QED
  BY <1>2, GraphInvariant, PTL

-----------------------------------------------------------------------------
(* Resolving a link *)

LEMMA NatLess == IsWellFoundedOn({ss \in Nat \X Nat : ss[1] < ss[2]}, Nat)
  BY NatLessThanWellFounded, Zenon DEF OpToRel

\* A set of numbers has a least one.
LEMMA LeastIs ==
  ASSUME NEW S \in SUBSET Nat, NEW e \in S
  PROVE  Min(S) \in S /\ \A k \in S : Min(S) <= k
<1>1. PICK n \in S : \A k \in S : ~ (<<k, n>> \in {ss \in Nat \X Nat : ss[1] < ss[2]})
  BY NatLess, WFMin, Zenon
<1>2. ASSUME NEW k \in S PROVE n <= k
  <2>1. ~ (<<k, n>> \in {ss \in Nat \X Nat : ss[1] < ss[2]})
    BY <1>1
  <2>2. k \in Nat /\ n \in Nat
    OBVIOUS
  <2>3. ~(k < n)
    BY <2>1, <2>2
  <2> QED BY <2>2, <2>3
<1>3. \E m \in S : \A k \in S : m <= k
  BY <1>2
<1> QED
  BY <1>3 DEF Min

\* What FirstOf says of the candidates: none is in S, or it is one and none
\* before it is.
LEMMA FirstIs ==
  ASSUME NEW paths, DOMAIN paths \subseteq Nat, NEW S
  PROVE  \/ FirstOf(paths, S) = NoPath /\ \A i \in DOMAIN paths : paths[i] \notin S
         \/ \E i \in DOMAIN paths :
              /\ FirstOf(paths, S) = paths[i] /\ paths[i] \in S
              /\ \A j \in DOMAIN paths : paths[j] \in S => i <= j
<1> DEFINE hits == {i \in DOMAIN paths : paths[i] \in S}
<1>1. CASE hits = {}
  BY <1>1 DEF FirstOf
<1>2. CASE hits # {}
  <2>1. hits \in SUBSET Nat
    OBVIOUS
  <2>2. PICK e : e \in hits
    BY <1>2
  <2>3. PICK i : i = Min(hits)
    OBVIOUS
  <2>4. i \in hits /\ \A j \in hits : i <= j
    BY <2>1, <2>2, <2>3, LeastIs
  <2>5. FirstOf(paths, S) = paths[i]
    BY <1>2, <2>3 DEF FirstOf
  <2> QED BY <2>4, <2>5
<1> QED BY <1>1, <1>2

\* Of the same candidates the one found in S is found in a part of S that has it.
LEMMA FirstShared ==
  ASSUME NEW paths, DOMAIN paths \subseteq Nat, NEW S, NEW T \in SUBSET S,
         FirstOf(paths, S) \in T, NoPath \notin S
  PROVE  FirstOf(paths, T) = FirstOf(paths, S)
<1>1. PICK i \in DOMAIN paths :
        /\ FirstOf(paths, S) = paths[i] /\ paths[i] \in S
        /\ \A j \in DOMAIN paths : paths[j] \in S => i <= j
  BY FirstIs
<1>2. PICK k \in DOMAIN paths :
        /\ FirstOf(paths, T) = paths[k] /\ paths[k] \in T
        /\ \A j \in DOMAIN paths : paths[j] \in T => k <= j
  BY <1>1, FirstIs
<1>3. i <= k /\ k <= i
  BY <1>1, <1>2
<1>4. i = k
  BY <1>3
<1> QED BY <1>1, <1>2, <1>4

\* Nothing is found but NoPath in a part of what nothing is found in.
LEMMA NoneShared ==
  ASSUME NEW paths, DOMAIN paths \subseteq Nat, NEW S, NEW T \in SUBSET S,
         FirstOf(paths, S) = NoPath, NoPath \notin S
  PROVE  FirstOf(paths, T) = NoPath
<1>1. \A i \in DOMAIN paths : paths[i] \notin S
  BY FirstIs
<1> QED BY <1>1, FirstIs

LEMMA Joined ==
  ASSUME NEW T, NEW s \in Seq(T), NEW t \in Seq(T)
  PROVE  s \o t \in Seq(T)
OBVIOUS

LEMMA VariantsDomain ==
  ASSUME NEW path
  PROVE  DOMAIN Variants(path) \subseteq Nat
<1>1. PICK p, q, r : p = path /\ q = WithMd(path) /\ r = Append(path, IndexName)
  OBVIOUS
<1>2. <<p>> \in Seq({p, q, r}) /\ <<q>> \in Seq({p, q, r}) /\ <<r>> \in Seq({p, q, r}) /\ <<>> \in Seq({p, q, r})
  OBVIOUS
<1>3. PICK x \in Seq({p, q, r}) : x = IF Len(Last(path)) = 1 THEN <<q>> ELSE <<>>
  BY <1>2
<1>4. PICK a, c \in Seq({p, q, r}) : a = <<p>> /\ c = <<r>>
  BY <1>2
<1>5. PICK z \in Seq({p, q, r}) : z = (a \o x) \o c
  <2>1. a \o x \in Seq({p, q, r})
    BY Joined
  <2>2. (a \o x) \o c \in Seq({p, q, r})
    BY <2>1, Joined
  <2> QED BY <2>2
<1>6. Variants(path) = z
  BY <1>1, <1>3, <1>4, <1>5, Zenon DEF Variants
<1>7. DOMAIN z \subseteq Nat
  BY <1>5
<1> QED BY <1>6, <1>7

LEMMA WikilinkDomain ==
  ASSUME NEW path
  PROVE  DOMAIN WikilinkVariants(path) \subseteq Nat
<1>1. PICK p, q, r : p = path /\ q = WithMd(path) /\ r = Append(path, IndexName)
  OBVIOUS
<1>2. <<p>> \in Seq({p, q, r}) /\ <<q>> \in Seq({p, q, r}) /\ <<r>> \in Seq({p, q, r}) /\ <<>> \in Seq({p, q, r})
  OBVIOUS
<1>3. PICK x \in Seq({p, q, r}) : x = IF IsMarkdown(Last(path)) THEN <<>> ELSE <<q>>
  BY <1>2
<1>4. PICK a, c \in Seq({p, q, r}) : a = <<p>> /\ c = <<r>>
  BY <1>2
<1>5. PICK z \in Seq({p, q, r}) : z = (a \o x) \o c
  <2>1. a \o x \in Seq({p, q, r})
    BY Joined
  <2>2. (a \o x) \o c \in Seq({p, q, r})
    BY <2>1, Joined
  <2> QED BY <2>2
<1>6. WikilinkVariants(path) = z
  BY <1>1, <1>3, <1>4, <1>5, Zenon DEF WikilinkVariants
<1>7. DOMAIN z \subseteq Nat
  BY <1>5
<1> QED BY <1>6, <1>7

\* Where link names are what assumption NamesAssumption says.
LEMMA NamesAre ==
  /\ IndexName \in Names /\ <<"wiki">> \in Names /\ <<>> \notin Names
  /\ Last(IndexName) = "md" /\ Len(IndexName) = 2
<1>1. "wiki" \in DOMAIN FoldPart /\ "index" \in DOMAIN FoldPart /\ "md" \in DOMAIN FoldPart
  BY NamesAssumption
<1>2. <<"wiki">> \in Seq(DOMAIN FoldPart) /\ <<"index", "md">> \in Seq(DOMAIN FoldPart)
  BY <1>1
<1>3. <<"wiki">> # <<>> /\ <<"index", "md">> # <<>>
  OBVIOUS
<1>4. Len(<<"index", "md">>) = 2 /\ <<"index", "md">>[2] = "md"
  OBVIOUS
<1> QED BY <1>2, <1>3, <1>4 DEF Names, IndexName, Last

\* What a path ends with stays the end when a base is put before it.
LEMMA LastJoin ==
  ASSUME NEW T, NEW b \in Seq(T), NEW p \in Seq(T), p # <<>>
  PROVE  Last(b \o p) = Last(p)
<1>1. Len(p) \in Nat /\ Len(p) # 0 /\ Len(b) \in Nat
  BY EmptySeq
<1>2. Len(p) \in 1 .. Len(p)
  BY <1>1
<1>3. Len(b \o p) = Len(b) + Len(p) /\ (b \o p)[Len(b) + Len(p)] = p[Len(p)]
  <2>1. Len(b \o p) = Len(b) + Len(p) /\ \A i \in 1 .. Len(p) : (b \o p)[Len(b) + i] = p[i]
    OBVIOUS
  <2> QED BY <1>2, <2>1
<1> QED BY <1>3 DEF Last

\* The first n elements of a sequence.
LEMMA HeadIs ==
  ASSUME NEW T, NEW s \in Seq(T), NEW n \in Nat, n <= Len(s)
  PROVE  /\ SubSeq(s, 1, n) \in Seq(T) /\ Len(SubSeq(s, 1, n)) = n
         /\ \A i \in 1 .. n : SubSeq(s, 1, n)[i] = s[i]
<1>1. \A i \in 1 .. n : s[i] \in T
  <2>1. \A i \in 1 .. n : i \in 1 .. Len(s)
    OBVIOUS
  <2> QED BY <2>1
<1>2. 1 \in Int /\ n \in Int
  OBVIOUS
<1>3. PICK w : w = SubSeq(s, 1, n)
  OBVIOUS
<1>4. w \in Seq(T) /\ Len(w) = (IF 1 <= n THEN n - 1 + 1 ELSE 0) /\ \A i \in 1 .. n - 1 + 1 : w[i] = s[1 + i - 1]
  BY <1>1, <1>2, <1>3, SubSeqProperties
<1>5. Len(w) = n
  BY <1>4
<1>6. \A i \in 1 .. n : w[i] = s[i]
  <2>1. \A i \in 1 .. n : i \in 1 .. n - 1 + 1 /\ 1 + i - 1 = i
    OBVIOUS
  <2> QED BY <1>4, <2>1
<1> QED BY <1>3, <1>4, <1>5, <1>6

LEMMA FrontAppend ==
  ASSUME NEW T, NEW s \in Seq(T), NEW e \in T
  PROVE  Front(Append(s, e)) = s
<1>1. PICK a \in Seq(T) : a = Append(s, e) /\ Len(a) = Len(s) + 1 /\ \A i \in 1 .. Len(s) : a[i] = s[i]
  <2>1. Append(s, e) \in Seq(T) /\ Len(Append(s, e)) = Len(s) + 1
        /\ \A i \in 1 .. Len(s) : Append(s, e)[i] = s[i]
    BY AppendProperties
  <2> QED BY <2>1
<1>2. Len(s) \in Nat /\ Len(a) - 1 = Len(s) /\ Len(s) <= Len(a)
  BY <1>1
<1>3. PICK x \in Seq(T) : x = SubSeq(a, 1, Len(s)) /\ Len(x) = Len(s) /\ \A i \in 1 .. Len(s) : x[i] = a[i]
  BY <1>1, <1>2, HeadIs
<1>4. x = s
  BY <1>1, <1>3, SeqEqual
<1> QED BY <1>1, <1>2, <1>3, <1>4 DEF Front

\* The bases are paths, and that of the index is wiki/.
LEMMA BasesAre ==
  /\ Wiki \in Seq(Names) /\ Vault \in Seq(Names) /\ ControlCenter \in Seq(Names)
  /\ Front(Index) = Wiki /\ Front(Wiki) = ControlCenter
<1>1. ControlCenter \in Seq(Names)
  BY NamesAssumption
<1>2. Wiki \in Seq(Names)
  BY <1>1, NamesAre DEF Wiki
<1>3. Vault \in Seq(Names)
  BY DEF Vault
<1>4. Front(Index) = Wiki
  BY <1>2, NamesAre, FrontAppend DEF Index
<1>5. Front(Wiki) = ControlCenter
  BY <1>1, NamesAre, FrontAppend DEF Wiki
<1> QED BY <1>1, <1>2, <1>3, <1>4, <1>5

\* The two lists of candidates are one for a name that is bare of dots or ends
\* in ".md".
LEMMA VariantsAlike ==
  ASSUME NEW path, Len(Last(path)) = 1 \/ IsMarkdown(Last(path))
  PROVE  WikilinkVariants(path) = Variants(path)
<1>1. CASE Len(Last(path)) = 1
  <2>1. ~IsMarkdown(Last(path))
    BY <1>1 DEF IsMarkdown
  <2> QED BY <1>1, <2>1, Zenon DEF WikilinkVariants, Variants
<1>2. CASE IsMarkdown(Last(path))
  <2>1. Len(Last(path)) # 1
    BY <1>2, SMTT(40) DEF IsMarkdown
  <2> QED BY <1>2, <2>1, Zenon DEF WikilinkVariants, Variants
<1> QED BY <1>1, <1>2

LEMMA JoinAlike ==
  ASSUME NEW link \in Links, Len(Last(link.path)) = 1 \/ IsMarkdown(Last(link.path)),
         NEW base \in {Wiki, Vault}
  PROVE  WikilinkVariants(Join(base, link)) = Variants(Join(base, link))
<1>1. PICK b \in Seq(Names) : Join(base, link) = b \o link.path
  <2>1. CASE link.from # "parent"
    BY <2>1, BasesAre DEF Join
  <2>2. CASE link.from = "parent"
    <3>1. Front(Vault) \in Seq(Names)
      <4>1. Len(<<>>) - 1 = -1 /\ SubSeq(<<>>, 1, -1) = <<>>
        OBVIOUS
      <4> QED BY <4>1, BasesAre DEF Front, Vault
    <3> QED BY <2>2, <3>1, BasesAre DEF Join
  <2> QED BY <2>1, <2>2
<1>2. Last(Join(base, link)) = Last(link.path)
  BY <1>1, NamesAssumption, LastJoin
<1> QED BY <1>2, VariantsAlike

LEMMA FilesAre ==
  ASSUME NEW f \in Files
  PROVE  f \in Seq(Names) /\ f # <<>>
<1>1. \A i \in DOMAIN Order : Order[i] \in Seq(Names) \ {<<>>}
  BY NamesAssumption
<1> QED BY <1>1 DEF Files, Range

\* NoPath is no file, and no folder.
LEMMA NoPathIsNone ==
  ASSUME GraphTypeInv PROVE NoPath \notin Existing
<1>1. ASSUME NEW f \in Files, NEW k \in 0 .. Len(f), SubSeq(f, 1, k) = NoPath PROVE FALSE
  <2>1. f \in Seq(Names)
    BY FilesAre
  <2>2. Len(SubSeq(f, 1, k)) = k /\ \A i \in 1 .. k : SubSeq(f, 1, k)[i] = f[i]
    <3>1. k \in Nat /\ k <= Len(f)
      BY <2>1
    <3> QED BY <2>1, <3>1, HeadIs
  <2>3. Len(NoPath) = 1 /\ NoPath[1] = <<>>
    BY DEF NoPath
  <2>4. f[1] = <<>> /\ f[1] \in Names
    <3>1. 1 \in 1 .. k /\ 1 \in 1 .. Len(f)
      <4>1. k = 1
        BY <1>1, <2>2, <2>3, Zenon
      <4>2. Len(f) \in Nat
        BY <2>1
      <4> QED BY <4>1, <4>2
    <3> QED BY <1>1, <2>1, <2>2, <2>3, <3>1
  <2> QED BY <2>4, NamesAre
<1>2. ASSUME NEW f \in Files PROVE f # NoPath
  <2>1. f \in Seq(Names)
    BY FilesAre
  <2>2. ASSUME f = NoPath PROVE FALSE
    <3>1. Len(f) = 1 /\ f[1] = <<>>
      BY <2>2 DEF NoPath
    <3>2. f[1] \in Names
      BY <2>1, <3>1
    <3> QED BY <3>1, <3>2, NamesAre
  <2> QED BY <2>2
<1>3. files \subseteq Files
  BY DEF GraphTypeInv, TypeOK
<1>4. ASSUME NoPath \in UNION {{SubSeq(f, 1, k) : k \in 0 .. Len(f)} : f \in files} PROVE FALSE
  <2>1. PICK f \in files : NoPath \in {SubSeq(f, 1, k) : k \in 0 .. Len(f)}
    BY <1>4
  <2>2. PICK k \in 0 .. Len(f) : NoPath = SubSeq(f, 1, k)
    BY <2>1
  <2> QED BY <1>1, <1>3, <2>1, <2>2
<1> QED BY <1>2, <1>3, <1>4 DEF Existing

\* What the graph's candidates at one base yield.
At(base, link) == FirstOf(Variants(Join(base, link)), nodes)

LEMMA AtIs ==
  ASSUME NEW base, NEW link
  PROVE  \/ At(base, link) = NoPath /\ ~Holds(base, link)
         \/ At(base, link) \in nodes /\ Holds(base, link)
BY VariantsDomain, FirstIs DEF At, Holds

\* The graph finds the first of what its bases yield.
LEMMA GraphFinds ==
  ASSUME NEW link, NoPath \notin nodes
  PROVE  /\ At(Wiki, link) # NoPath => GraphResolve(Index, link) = At(Wiki, link)
         /\ ~Explicit(link) /\ At(Wiki, link) = NoPath /\ At(Vault, link) # NoPath
              => GraphResolve(Index, link) = At(Vault, link)
         /\ ~Explicit(link) /\ At(Wiki, link) = NoPath /\ At(Vault, link) = NoPath
              => GraphResolve(Index, link) = IF link.kind = "wikilink" /\ Bare(link) THEN ByName(link, nodes) ELSE NoPath
<1> DEFINE bases == IF Explicit(link) THEN <<Front(Index)>> ELSE <<Front(Index), Vault, Wiki>>
           paths == [i \in DOMAIN bases |-> FirstOf(Variants(Join(bases[i], link)), nodes)]
<1>1. GraphResolve(Index, link) =
        IF FirstOf(paths, nodes) = NoPath /\ link.kind = "wikilink" /\ Bare(link) THEN ByName(link, nodes)
        ELSE FirstOf(paths, nodes)
  BY DEF GraphResolve
<1>2. bases = IF Explicit(link) THEN <<Wiki>> ELSE <<Wiki, Vault, Wiki>>
  BY BasesAre
<1>3. CASE Explicit(link)
  <2>1. DOMAIN paths = {1} /\ paths[1] = At(Wiki, link)
    <3>1. bases = <<Wiki>>
      BY <1>2, <1>3
    <3>2. DOMAIN <<Wiki>> = {1} /\ <<Wiki>>[1] = Wiki
      OBVIOUS
    <3> QED BY <3>1, <3>2 DEF At
  <2> HIDE DEF paths
  <2>2. At(Wiki, link) # NoPath => FirstOf(paths, nodes) = At(Wiki, link)
    <3>1. At(Wiki, link) # NoPath => At(Wiki, link) \in nodes
      BY AtIs
    <3> QED BY <2>1, <3>1, FirstIs
  <2> QED BY <1>1, <1>3, <2>2
<1>4. CASE ~Explicit(link)
  <2>1. DOMAIN paths = {1, 2, 3} /\ paths[1] = At(Wiki, link) /\ paths[2] = At(Vault, link) /\ paths[3] = At(Wiki, link)
    <3>1. bases = <<Wiki, Vault, Wiki>>
      BY <1>2, <1>4
    <3>2. /\ DOMAIN <<Wiki, Vault, Wiki>> = {1, 2, 3}
          /\ <<Wiki, Vault, Wiki>>[1] = Wiki /\ <<Wiki, Vault, Wiki>>[2] = Vault /\ <<Wiki, Vault, Wiki>>[3] = Wiki
      OBVIOUS
    <3> QED BY <3>1, <3>2 DEF At
  <2> HIDE DEF paths
  <2>2. PICK x, y : x = At(Wiki, link) /\ y = At(Vault, link) /\ (x = NoPath \/ x \in nodes) /\ (y = NoPath \/ y \in nodes)
    BY AtIs
  <2>3. x # NoPath => FirstOf(paths, nodes) = x
    BY <2>1, <2>2, FirstIs
  <2>4. x = NoPath /\ y # NoPath => FirstOf(paths, nodes) = y
    BY <2>1, <2>2, FirstIs
  <2>5. x = NoPath /\ y = NoPath => FirstOf(paths, nodes) = NoPath
    BY <2>1, <2>2, FirstIs
  <2> QED BY <1>1, <1>4, <2>2, <2>3, <2>4, <2>5
<1> QED BY <1>3, <1>4

\* The Doctor's candidates at one base, among what exists.
DoctorAt(base, link) ==
  FirstOf(IF link.kind = "markdown" THEN Variants(Join(base, link)) ELSE WikilinkVariants(Join(base, link)), Existing)

LEMMA DoctorFinds ==
  ASSUME NEW link, NoPath \notin Existing, NEW p \in Existing, p = DoctorResolve(Index, link)
  PROVE  IF link.kind = "markdown" \/ Explicit(link) \/ Bare(link)
         THEN \/ p = DoctorAt(Wiki, link)
              \/ /\ link.kind = "wikilink" /\ Bare(link) /\ DoctorAt(Wiki, link) = NoPath
                 /\ p = ByName(link, files \cap MarkdownFiles)
         ELSE p \in {DoctorAt(ControlCenter, link), DoctorAt(Vault, link), DoctorAt(Wiki, link)}
<1> DEFINE roots == CASE link.kind = "markdown" \/ Explicit(link) \/ Bare(link) -> <<Front(Index)>>
                      [] OTHER -> <<ControlCenter, Vault, Wiki>>
           paths(path) == IF link.kind = "markdown" THEN Variants(path) ELSE WikilinkVariants(path)
           found == [i \in DOMAIN roots |-> FirstOf(paths(Join(roots[i], link)), Existing)]
<1>1. p = IF FirstOf(found, Existing) = NoPath /\ link.kind = "wikilink" /\ Bare(link)
          THEN ByName(link, files \cap MarkdownFiles)
          ELSE FirstOf(found, Existing)
  BY DEF DoctorResolve
<1>2. \A base : FirstOf(paths(Join(base, link)), Existing) = DoctorAt(base, link)
  BY DEF DoctorAt
<1> HIDE DEF paths
<1>3. CASE link.kind = "markdown" \/ Explicit(link) \/ Bare(link)
  <2>1. DOMAIN found = {1} /\ found[1] = DoctorAt(Wiki, link)
    <3>1. roots = <<Wiki>>
      BY <1>3, BasesAre
    <3>2. DOMAIN <<Wiki>> = {1} /\ <<Wiki>>[1] = Wiki
      OBVIOUS
    <3> QED BY <1>2, <3>1, <3>2
  <2> HIDE DEF found
  <2>2. FirstOf(found, Existing) = DoctorAt(Wiki, link) \/ FirstOf(found, Existing) = NoPath
    BY <2>1, FirstIs
  <2>3. DoctorAt(Wiki, link) \in Existing => FirstOf(found, Existing) = DoctorAt(Wiki, link)
    BY <2>1, FirstIs
  <2>4. DoctorAt(Wiki, link) = NoPath \/ DoctorAt(Wiki, link) \in Existing
    BY VariantsDomain, WikilinkDomain, FirstIs DEF DoctorAt
  <2> QED BY <1>1, <1>3, <2>2, <2>3, <2>4
<1>4. CASE ~(link.kind = "markdown" \/ Explicit(link) \/ Bare(link))
  <2>1. DOMAIN found = {1, 2, 3} /\ found[1] = DoctorAt(ControlCenter, link)
        /\ found[2] = DoctorAt(Vault, link) /\ found[3] = DoctorAt(Wiki, link)
    <3>1. roots = <<ControlCenter, Vault, Wiki>>
      BY <1>4
    <3>2. /\ DOMAIN <<ControlCenter, Vault, Wiki>> = {1, 2, 3}
          /\ <<ControlCenter, Vault, Wiki>>[1] = ControlCenter /\ <<ControlCenter, Vault, Wiki>>[2] = Vault
          /\ <<ControlCenter, Vault, Wiki>>[3] = Wiki
      OBVIOUS
    <3> QED BY <1>2, <3>1, <3>2
  <2> HIDE DEF found
  <2>2. p = FirstOf(found, Existing)
    BY <1>1, <1>4
  <2>3. PICK i \in DOMAIN found : p = found[i]
    BY <2>1, <2>2, FirstIs
  <2> QED BY <1>4, <2>1, <2>3
<1> QED BY <1>3, <1>4

-----------------------------------------------------------------------------
(* Bare names *)

NameOf(link) == LET n == Last(link.path) IN IF IsMarkdown(n) THEN n ELSE Append(n, "md")

\* A bare link asks for a Markdown file.
LEMMA NameIs ==
  ASSUME NEW link \in Links
  PROVE  NameOf(link) \in Seq(DOMAIN FoldPart) /\ IsMarkdown(NameOf(link))
<1>1. PICK p \in Seq(Names) : p = link.path /\ p # <<>>
  BY NamesAssumption
<1>2. PICK n \in Names : n = Last(p)
  <2>1. Len(p) \in Nat /\ Len(p) # 0
    BY <1>1, EmptySeq
  <2>2. Len(p) \in 1 .. Len(p)
    BY <2>1
  <2>3. p[Len(p)] \in Names
    BY <2>2
  <2> QED BY <2>3 DEF Last
<1>3. n \in Seq(DOMAIN FoldPart) /\ n # <<>>
  BY DEF Names
<1>4. CASE IsMarkdown(n)
  BY <1>1, <1>2, <1>3, <1>4 DEF NameOf
<1>5. CASE ~IsMarkdown(n)
  <2>1. "md" \in DOMAIN FoldPart /\ FoldPart["md"] = "md"
    BY NamesAssumption
  <2>2. PICK a \in Seq(DOMAIN FoldPart) : a = Append(n, "md") /\ Len(a) = Len(n) + 1 /\ a[Len(n) + 1] = "md"
    <3>1. Append(n, "md") \in Seq(DOMAIN FoldPart) /\ Len(Append(n, "md")) = Len(n) + 1
          /\ Append(n, "md")[Len(n) + 1] = "md"
      BY <1>3, <2>1, AppendProperties
    <3> QED BY <3>1
  <2>3. Len(n) \in Nat /\ Len(n) # 0
    BY <1>3, EmptySeq
  <2>4. Len(a) > 1 /\ Last(a) = "md"
    BY <2>2, <2>3 DEF Last
  <2>5. IsMarkdown(a)
    BY <2>1, <2>4 DEF IsMarkdown
  <2>6. NameOf(link) = a
    BY <1>1, <1>2, <1>5, <2>2 DEF NameOf
  <2> QED BY <2>5, <2>6
<1> QED BY <1>4, <1>5

\* A name that differs from that of a Markdown file in case only is one.
LEMMA FoldMarkdown ==
  ASSUME NEW a \in Seq(DOMAIN FoldPart), NEW b \in Seq(DOMAIN FoldPart), IsMarkdown(a), Fold(b) = Fold(a)
  PROVE  IsMarkdown(b)
<1>1. Len(a) \in Nat /\ Len(b) \in Nat /\ DOMAIN a = 1 .. Len(a) /\ DOMAIN b = 1 .. Len(b)
  OBVIOUS
<1>2. DOMAIN a = DOMAIN b /\ \A i \in DOMAIN a : FoldPart[b[i]] = FoldPart[a[i]]
  <2>1. DOMAIN Fold(a) = DOMAIN a /\ \A i \in DOMAIN a : Fold(a)[i] = FoldPart[a[i]]
    BY DEF Fold
  <2>2. DOMAIN Fold(b) = DOMAIN b /\ \A i \in DOMAIN b : Fold(b)[i] = FoldPart[b[i]]
    BY DEF Fold
  <2> QED BY <2>1, <2>2
<1>3. Len(a) = Len(b)
  <2>1. PICK m \in Nat, n \in Nat : m = Len(a) /\ n = Len(b)
    BY <1>1
  <2>2. 1 .. m = 1 .. n
    BY <1>1, <1>2, <2>1, Zenon
  <2>3. ~(m < n)
    <3>1. m < n => n \in 1 .. n /\ n \notin 1 .. m
      OBVIOUS
    <3> QED BY <2>2, <3>1, Zenon
  <2>4. ~(n < m)
    <3>1. n < m => m \in 1 .. m /\ m \notin 1 .. n
      OBVIOUS
    <3> QED BY <2>2, <3>1, Zenon
  <2> QED BY <2>1, <2>3, <2>4, SMTT(40)
<1>4. Len(a) > 1 /\ FoldPart[a[Len(a)]] = "md"
  BY DEF IsMarkdown, Last
<1>5. Len(a) \in DOMAIN a
  BY <1>1, <1>4
<1> QED BY <1>2, <1>3, <1>4, <1>5 DEF IsMarkdown, Last

\* One element makes a set of one, and only then.
LEMMA OneIs ==
  ASSUME NEW S, IsFiniteSet(S)
  PROVE  Cardinality(S) = 1 <=> \E e : S = {e}
<1>1. ASSUME Cardinality(S) = 1 PROVE \E e : S = {e}
  <2>1. S # {}
    BY <1>1, FS_EmptySet
  <2>2. PICK e : e \in S
    BY <2>1
  <2>3. IsFiniteSet(S \ {e}) /\ Cardinality(S \ {e}) = 0
    <3>1. IsFiniteSet(S \ {e}) /\ Cardinality(S \ {e}) = Cardinality(S) - 1
      BY <2>2, FS_RemoveElement
    <3> QED BY <1>1, <3>1
  <2>4. S \ {e} = {}
    BY <2>3, FS_EmptySet
  <2> QED BY <2>2, <2>4
<1>2. ASSUME NEW e, S = {e} PROVE Cardinality(S) = 1
  BY <1>2, FS_Singleton
<1> QED BY <1>1, <1>2

LEMMA FilesFinite == IsFiniteSet(Files)
<1>1. PICK n \in Nat : n = Len(Order) /\ DOMAIN Order = 1 .. n
  BY NamesAssumption
<1>2. IsFiniteSet(1 .. n)
  BY FS_Interval
<1>3. Files = {Order[i] : i \in 1 .. n}
  BY <1>1 DEF Files, Range
<1>4. IsFiniteSet({Order[i] : i \in 1 .. n})
  <2>1. PICK g : g = [i \in 1 .. n |-> Order[i]]
    OBVIOUS
  <2>2. g \in Surjection(1 .. n, {Order[i] : i \in 1 .. n})
    BY <2>1 DEF Surjection
  <2> QED BY <1>2, <2>2, FS_Surjection
<1> QED BY <1>3, <1>4

\* What a bare name means among the Markdown files it means among the nodes, if
\* it is one.
LEMMA ByNameSame ==
  ASSUME NEW link \in Links, nodes \subseteq files, files \subseteq Files, NoPath \notin nodes,
         ByName(link, files \cap MarkdownFiles) \in nodes
  PROVE  ByName(link, nodes) = ByName(link, files \cap MarkdownFiles)
<1> DEFINE matches(S) == {f \in S : Fold(Last(f)) = Fold(NameOf(link))}
           exact(S) == {f \in matches(S) : Last(f) = NameOf(link)}
           F == files \cap MarkdownFiles
<1>1. \A S : ByName(link, S) = IF Cardinality(exact(S)) = 1 THEN CHOOSE f \in exact(S) : TRUE
                               ELSE IF Cardinality(matches(S)) = 1 THEN CHOOSE f \in matches(S) : TRUE
                               ELSE NoPath
  BY DEF ByName, NameOf
<1>2. matches(nodes) \subseteq matches(F)
  <2> SUFFICES ASSUME NEW f \in nodes, Fold(Last(f)) = Fold(NameOf(link)), f \in Files PROVE f \in MarkdownFiles
    OBVIOUS
  <2>1. Last(f) \in Seq(DOMAIN FoldPart)
    <3>1. f \in Seq(Names) /\ Len(f) \in Nat
      BY FilesAre
    <3>2. f # <<>>
      BY FilesAre
    <3>3. Len(f) # 0
      BY <3>1, <3>2, EmptySeq
    <3>4. f[Len(f)] \in Names
      BY <3>1, <3>3
    <3> QED BY <3>4 DEF Last, Names
  <2>2. IsMarkdown(Last(f))
    BY <2>1, NameIs, FoldMarkdown
  <2> QED BY <2>2 DEF MarkdownFiles
<1>3. IsFiniteSet(matches(F)) /\ IsFiniteSet(exact(F)) /\ IsFiniteSet(matches(nodes)) /\ IsFiniteSet(exact(nodes))
  BY FilesFinite, FS_Subset
<1>4. PICK M, E, N, D : M = matches(F) /\ E = exact(F) /\ N = matches(nodes) /\ D = exact(nodes)
  OBVIOUS
<1>5. /\ D = E \cap N /\ N \subseteq M /\ E \subseteq M /\ D \subseteq N
      /\ \A f \in M : f \in nodes => f \in N
  BY <1>2, <1>4
<1>6. PICK p \in nodes : p = ByName(link, F)
  OBVIOUS
<1>7. CASE Cardinality(E) = 1
  <2>1. PICK e : E = {e}
    BY <1>3, <1>4, <1>7, OneIs
  <2>2. p = e
    BY <1>1, <1>4, <1>6, <1>7, <2>1
  <2>3. D = {e}
    BY <1>5, <2>1, <2>2
  <2>4. Cardinality(D) = 1
    BY <2>3, FS_Singleton
  <2>5. ByName(link, nodes) = e
    BY <1>1, <1>4, <2>3, <2>4
  <2> QED BY <1>6, <2>2, <2>5
<1>8. CASE Cardinality(E) # 1
  <2>1. Cardinality(M) = 1
    BY <1>1, <1>4, <1>6, <1>8
  <2>2. PICK e : M = {e}
    BY <1>3, <1>4, <2>1, OneIs
  <2>3. p = e
    BY <1>1, <1>4, <1>6, <1>8, <2>1, <2>2
  <2>4. N = {e} /\ e \in M
    BY <1>5, <2>2, <2>3
  <2>5. E = {}
    <3>1. E # {e}
      BY <1>8, FS_Singleton
    <3> QED BY <1>5, <2>2, <3>1
  <2>6. D = {} /\ Cardinality(D) # 1 /\ Cardinality(N) = 1
    <3>1. D = {}
      BY <1>5, <2>5
    <3>2. Cardinality(D) = 0
      BY <3>1, FS_EmptySet
    <3>3. Cardinality(N) = 1
      BY <2>4, FS_Singleton
    <3> QED BY <3>1, <3>2, <3>3
  <2>7. ByName(link, nodes) = e
    BY <1>1, <1>4, <2>4, <2>6
  <2> QED BY <1>6, <2>3, <2>7
<1> QED BY <1>7, <1>8

-----------------------------------------------------------------------------
(* The links of the index *)

\* Until somebody edits the vault, the nodes are what they were collected from.
NodesInv ==
  phase \in {"read", "walk", "split", "reported"} /\ quiet => nodes = files \cap (Documents \cup WikiPages)

LEMMA NodesNext == GraphTypeInv /\ NodesInv /\ [Next]_vars => NodesInv'
BY DEF NodesInv, Next, Analyse, Edit, CheckLinks, CollectNodes, ReadNode, StartWalk, Visit, Partition,
   StartComponent, AddToComponent, CloseComponent, Report, EditFile, EditLink, Edited, vars, vault, walk,
   GraphTypeInv, TypeOK, WikiPages, MarkdownFiles

\* The index is a Wiki page.
LEMMA IndexIsPage ==
  ASSUME Index \in Files PROVE Index \in WikiPages
<1>1. Wiki \in Seq(Names) /\ IndexName \in Names
  BY BasesAre, NamesAre
<1>2. PICK n \in Nat : n = Len(Wiki)
  BY <1>1
<1>3. PICK x \in Seq(Names) : x = Index /\ Len(x) = n + 1 /\ x[n + 1] = IndexName /\ \A i \in 1 .. n : x[i] = Wiki[i]
  <2>1. /\ Append(Wiki, IndexName) \in Seq(Names) /\ Len(Append(Wiki, IndexName)) = Len(Wiki) + 1
        /\ Append(Wiki, IndexName)[Len(Wiki) + 1] = IndexName
        /\ \A i \in 1 .. Len(Wiki) : Append(Wiki, IndexName)[i] = Wiki[i]
    BY <1>1, AppendProperties
  <2> QED BY <1>2, <2>1 DEF Index
<1>4. IsMarkdown(Last(x))
  <2>1. Last(x) = IndexName
    BY <1>3 DEF Last
  <2> QED BY <2>1, NamesAre, NamesAssumption DEF IsMarkdown
<1>5. IsPrefix(Wiki, x)
  <2>1. PICK a \in Seq(Names) : a = SubSeq(Wiki, 1, n) /\ Len(a) = n /\ \A i \in 1 .. n : a[i] = Wiki[i]
    BY <1>1, <1>2, HeadIs
  <2>2. PICK b \in Seq(Names) : b = SubSeq(x, 1, n) /\ Len(b) = n /\ \A i \in 1 .. n : b[i] = x[i]
    <3>1. n <= Len(x)
      BY <1>3
    <3>2. SubSeq(x, 1, n) \in Seq(Names) /\ Len(SubSeq(x, 1, n)) = n /\ \A i \in 1 .. n : SubSeq(x, 1, n)[i] = x[i]
      BY <3>1, HeadIs, Zenon
    <3> QED BY <3>2, Zenon
  <2>3. a = b
    <3>1. Len(a) = Len(b) /\ \A i \in 1 .. Len(a) : a[i] = b[i]
      BY <1>3, <2>1, <2>2
    <3> QED BY <3>1, SeqEqual
  <2>4. n <= Len(x)
    BY <1>3
  <2> QED BY <1>2, <2>1, <2>2, <2>3, <2>4 DEF IsPrefix
<1> QED BY <1>3, <1>4, <1>5 DEF WikiPages, MarkdownFiles

\* Where the two resolvers have the same candidates, the graph finds the node
\* that the Doctor found.
LEMMA AtShared ==
  ASSUME nodes \subseteq Existing, NoPath \notin Existing, NEW link, NEW base,
         link.kind = "markdown" \/ WikilinkVariants(Join(base, link)) = Variants(Join(base, link))
  PROVE  /\ DoctorAt(base, link) \in nodes => At(base, link) = DoctorAt(base, link)
         /\ DoctorAt(base, link) = NoPath => At(base, link) = NoPath
<1>1. PICK paths : paths = Variants(Join(base, link)) /\ DOMAIN paths \subseteq Nat
  BY VariantsDomain
<1>2. DoctorAt(base, link) = FirstOf(paths, Existing) /\ At(base, link) = FirstOf(paths, nodes)
  BY <1>1 DEF DoctorAt, At
<1>3. FirstOf(paths, Existing) \in nodes => FirstOf(paths, nodes) = FirstOf(paths, Existing)
  BY <1>1, FirstShared
<1>4. FirstOf(paths, Existing) = NoPath => FirstOf(paths, nodes) = NoPath
  BY <1>1, NoneShared
<1> QED BY <1>2, <1>3, <1>4

\* A link that both read in one way leads the graph to the node that the Doctor
\* reads it as.
LEMMA ReadOneWay ==
  ASSUME GraphTypeInv, nodes \subseteq files, NEW link \in Links, ReadAlike(link),
         DoctorResolve(Index, link) \in nodes
  PROVE  GraphResolve(Index, link) = DoctorResolve(Index, link)
<1>1. nodes \subseteq Existing /\ files \subseteq Files
  BY DEF Existing, GraphTypeInv, TypeOK
<1>2. NoPath \notin Existing /\ NoPath \notin nodes
  BY <1>1, NoPathIsNone
<1>3. PICK p \in nodes : p = DoctorResolve(Index, link)
  OBVIOUS
<1>4. IF link.kind = "markdown" \/ Explicit(link) \/ Bare(link)
      THEN \/ p = DoctorAt(Wiki, link)
           \/ /\ link.kind = "wikilink" /\ Bare(link) /\ DoctorAt(Wiki, link) = NoPath
              /\ p = ByName(link, files \cap MarkdownFiles)
      ELSE p \in {DoctorAt(ControlCenter, link), DoctorAt(Vault, link), DoctorAt(Wiki, link)}
  <2>1. p \in Existing
    BY <1>1
  <2> QED BY <1>2, <1>3, <2>1, DoctorFinds
<1>5. ASSUME NEW base \in {Wiki, Vault}
      PROVE  /\ DoctorAt(base, link) \in nodes => At(base, link) = DoctorAt(base, link)
             /\ DoctorAt(base, link) = NoPath => At(base, link) = NoPath
  <2>1. link.kind = "markdown" \/ WikilinkVariants(Join(base, link)) = Variants(Join(base, link))
    BY <1>5, JoinAlike DEF ReadAlike
  <2> QED BY <1>1, <1>2, <2>1, AtShared
<1>6. p # NoPath
  BY <1>2
<1>7. CASE p = DoctorAt(Wiki, link)
  <2>1. At(Wiki, link) = p
    BY <1>5, <1>7
  <2> QED BY <1>2, <1>3, <1>6, <2>1, GraphFinds
<1>8. CASE /\ link.kind = "wikilink" /\ Bare(link) /\ DoctorAt(Wiki, link) = NoPath
           /\ p = ByName(link, files \cap MarkdownFiles)
  <2>1. At(Wiki, link) = NoPath
    BY <1>5, <1>8
  <2>2. ~Explicit(link)
    BY <1>8 DEF Bare
  <2>3. At(Vault, link) = NoPath
    <3>1. ~Holds(Wiki, link)
      BY <1>2, <2>1, AtIs
    <3>2. ~Holds(Vault, link)
      BY <1>8, <2>2, <3>1 DEF ReadAlike
    <3> QED BY <3>2, AtIs
  <2>4. GraphResolve(Index, link) = ByName(link, nodes)
    BY <1>2, <1>8, <2>1, <2>2, <2>3, GraphFinds
  <2>5. ByName(link, nodes) = p
    BY <1>1, <1>2, <1>8, ByNameSame
  <2> QED BY <1>3, <2>4, <2>5
<1>9. CASE ~(link.kind = "markdown" \/ Explicit(link) \/ Bare(link))
  <2>1. ControlCenter = Vault /\ ~(Holds(Vault, link) /\ Holds(Wiki, link))
    BY <1>9 DEF ReadAlike
  <2>2. p = DoctorAt(Vault, link) \/ p = DoctorAt(Wiki, link)
    BY <1>4, <1>9, <2>1
  <2>3. CASE p = DoctorAt(Vault, link)
    <3>1. At(Vault, link) = p
      BY <1>5, <2>3
    <3>2. Holds(Vault, link)
      BY <1>6, <3>1, AtIs
    <3>3. At(Wiki, link) = NoPath
      BY <2>1, <3>2, AtIs
    <3> QED BY <1>2, <1>3, <1>6, <1>9, <3>1, <3>3, GraphFinds
  <2> QED BY <1>7, <2>2, <2>3
<1> QED BY <1>4, <1>7, <1>8, <1>9

\* A page that wiki/index.md links to is no orphan, if the graph reads the link
\* as the Doctor does.
THEOREM AlikeReach == Spec => []AlikeLinksReach
<1>1. Init => NodesInv
  BY DEF Init, NodesInv
<1>2. Spec => []NodesInv
  BY <1>1, TypeCorrect, NodesNext, PTL DEF Spec
<1>3. ASSUME GraphTypeInv, WalkInv, ExactInv, NodesInv, phase = "reported", quiet, Index \in files,
             NEW link \in links[Index], ReadAlike(link), DoctorResolve(Index, link) \in OrphanPages
      PROVE  FALSE
  <2>1. nodes = files \cap (Documents \cup WikiPages) /\ Index \in Files /\ link \in Links
    BY <1>3 DEF NodesInv, GraphTypeInv, TypeOK
  <2>2. Index \in nodes
    BY <1>3, <2>1, IndexIsPage
  <2>3. PICK p \in nodes : p = DoctorResolve(Index, link) /\ p \notin reachable
    BY <1>3 DEF OrphanPages
  <2>4. GraphResolve(Index, link) = p
    BY <1>3, <2>1, <2>3, ReadOneWay
  <2>5. Linked(Index, p)
    BY <1>3, <2>3, <2>4 DEF Linked, Targets
  <2>6. <<Index, p>> \in edges
    BY <1>3, <2>2, <2>3, <2>5 DEF ExactInv
  <2>7. Index \in reachable /\ Closed(reachable)
    BY <1>3, <2>2 DEF WalkInv, Rooted
  <2> QED BY <2>3, <2>6, <2>7 DEF Closed, Neighbours
<1>4. GraphTypeInv /\ WalkInv /\ ExactInv /\ NodesInv => AlikeLinksReach
  BY <1>3 DEF AlikeLinksReach
<1> QED BY <1>2, <1>4, GraphInvariant, PTL

=============================================================================
