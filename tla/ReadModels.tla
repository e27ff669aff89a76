------------------------------- MODULE ReadModels -------------------------------
(***************************************************************************)
(* The read models of vistalith-graph: the "why" path, the impact of a     *)
(* change, the shortest path, the decisions lens, the diff of two          *)
(* revisions and the semantic context view.  Each is a pure function of    *)
(* the graph; here they are the walks of the code, with its queues, and    *)
(* are compared with what they are said to compute and with each other.    *)
(*                                                                         *)
(* The graph is reduced to what they read.  It only grows: no event takes  *)
(* a subject or a relation away.                                           *)
(***************************************************************************)
EXTENDS Naturals, Sequences, FiniteSets

CONSTANTS
  Order,     \* all subjects, by identity
  Facts,     \* the relations that may be declared, in the order of their map
  BySupport, \* the same, by kind and then by the identity of their source
  KindOrder, \* the kinds of relation, by name
  Kind,      \* the kind of each subject
  Authority, \* the authority of each subject
  Size,      \* the estimated tokens of each subject
  Stale,     \* the subjects last touched before the cutoff
  Late,      \* the subjects that are not defined from the beginning
  Edited,    \* the subjects that are updated and deprecated
  Values,    \* the values of the one property that is read
  Requests   \* requests for a context view

Members(s) == {s[i] : i \in DOMAIN s}
Distinct(s) == \A i, j \in DOMAIN s : s[i] = s[j] => i = j
Place(order, x) == CHOOSE i \in DOMAIN order : order[i] = x

Subjects == Members(Order)
Kinds == Members(KindOrder)
Fact == [from : Subjects, kind : Kinds, to : Subjects]

ASSUME ReadModelsAssumption ==
  /\ Order \in Seq(Subjects) /\ Distinct(Order)
  /\ KindOrder \in Seq(Kinds) /\ Distinct(KindOrder)
  /\ Facts \in Seq(Fact) /\ Distinct(Facts)
  /\ BySupport \in Seq(Fact) /\ Distinct(BySupport)
  /\ Members(BySupport) = Members(Facts)
  /\ \A i, j \in DOMAIN BySupport : i < j =>
       LET f == BySupport[i]
           g == BySupport[j]
       IN \/ Place(KindOrder, f.kind) < Place(KindOrder, g.kind)
          \/ f.kind = g.kind /\ Place(Order, f.from) <= Place(Order, g.from)
  /\ Size \in [Subjects -> Nat]
  /\ Late \subseteq Subjects
  /\ Requests \subseteq
       [roots : Seq(Subjects), kinds : SUBSET Kinds, maxDepth : Nat, budget : Nat,
        derived : BOOLEAN, advisory : BOOLEAN, cutoff : BOOLEAN]

VARIABLES
  subjects,   \* the subjects that are defined
  values,     \* a property of each, "unset" without one
  deprecated, \* the subjects that are deprecated
  relations   \* the relations that are declared

graph == [subjects |-> subjects, values |-> values, deprecated |-> deprecated,
          relations |-> relations]

ReadModelsInit ==
  /\ subjects = Subjects \ Late
  /\ values = [s \in Subjects |-> "unset"]
  /\ deprecated = {}
  /\ relations = {}

\* Some events later.
Grown(s, v, d, r) ==
  /\ subjects' = s /\ values' = v /\ deprecated' = d /\ relations' = r

Declarable == {f \in Members(Facts) : f.from \in subjects /\ f.to \in subjects}

DefineSubjects ==
  \E late \in SUBSET (Late \ subjects) :
    late # {} /\ Grown(subjects \cup late, values, deprecated, relations)

UpdateSubject(s, v) ==
  /\ s \in subjects /\ v # values[s]
  /\ Grown(subjects, [values EXCEPT ![s] = v], deprecated, relations)

DeprecateSubject(s) ==
  /\ s \in subjects \ deprecated
  /\ Grown(subjects, values, deprecated \cup {s}, relations)

DeclareRelations ==
  \E more \in SUBSET (Declarable \ relations) :
    more # {} /\ Grown(subjects, values, deprecated, relations \cup more)

-----------------------------------------------------------------------------
(* The members of S, in the order in which a map has them.                  *)

In(order, S) ==
  LET first[n \in 0..Len(order)] ==
        IF n = 0 THEN << >>
        ELSE IF order[n] \in S THEN Append(first[n-1], order[n]) ELSE first[n-1]
  IN first[Len(order)]

-----------------------------------------------------------------------------
(* why_path.  The queue of the walk holds the subject it began with and     *)
(* then the source of each link, in the order of the links; its n-th step   *)
(* takes the n-th of them.                                                  *)

\* Mutant of Visited: a subject counts as visited when the walk gets to it.
VisitedWhenTaken(s, links, n) == {s} \cup {links[i].from : i \in 1..(n-1)}

\* What was put in the queue before or in the n-th step.
Visited(s, links, n) == {s} \cup {links[i].from : i \in DOMAIN links}

Taken(s, links, n) ==
  IF n = 1 THEN [subject |-> s, depth |-> 0]
  ELSE [subject |-> links[n-1].from, depth |-> links[n-1].depth]

\* The relations of a subject to its new supporters, each the first by kind.
FirstOfEach(s, visited) ==
  {f \in relations :
     /\ f.to = s /\ f.from \notin visited
     /\ \A g \in relations : g.to = s /\ g.from = f.from =>
                               Place(BySupport, f) <= Place(BySupport, g)}

LinksTo(taken, visited) ==
  LET supporters == In(BySupport, FirstOfEach(taken.subject, visited))
  IN [i \in DOMAIN supporters |->
        [depth |-> taken.depth + 1, kind |-> supporters[i].kind,
         from |-> supporters[i].from, to |-> supporters[i].to]]

\* The links after the first n steps, for every n.
WhyRuns(s, maxDepth) ==
  LET run[n \in 0..Len(Order)] ==
        IF n = 0 THEN << >>
        ELSE LET links == run[n-1] IN
             IF n > Len(links) + 1 \/ Taken(s, links, n).depth >= maxDepth THEN links
             ELSE links \o LinksTo(Taken(s, links, n), Visited(s, links, n))
  IN run

\* The links, which come in order of depth.  No subject is taken twice.
WhyPath(s, maxDepth) == WhyRuns(s, maxDepth)[Len(Order)]

EvidenceKinds == {"provides_evidence_for", "verifies"}
WhyEvidence(s, maxDepth) ==
  {l \in Members(WhyPath(s, maxDepth)) : l.kind \in EvidenceKinds}

-----------------------------------------------------------------------------
(* AlgorithmGraph.                                                          *)

Top(stack) == stack[Len(stack)]
Below(stack) == SubSeq(stack, 1, Len(stack) - 1)

\* Dfs over the reversed edges takes a node.
Visit(dfs) ==
  LET node  == Top(dfs.stack)
      found == dfs.found \cup {node}
      into  == In(Facts, {f \in relations : f.to = node /\ f.from \notin found})
  IN IF node \in dfs.found THEN [dfs EXCEPT !.stack = Below(@)]
     ELSE [stack |-> Below(dfs.stack) \o [i \in DOMAIN into |-> into[i].from],
           found |-> found]

ImpactRuns(s) ==
  LET run[n \in 0..(Len(Facts) + 1)] ==
        IF n = 0 THEN [stack |-> <<s>>, found |-> {}]
        ELSE LET dfs == run[n-1] IN IF dfs.stack = << >> THEN dfs ELSE Visit(dfs)
  IN run

\* impact_of.  A node is on the stack at most once for each relation from it.
ImpactOf(s) == ImpactRuns(s)[Len(Facts) + 1].found \ {s}

\* The sections of impact_analysis.
AnalysedKinds == {"test", "evidence", "decision"}
DirectDependents(s) == {f.from : f \in {g \in relations : g.to = s}}

\* Mutant of UnknownImpact: only what depends directly is looked at.
UnknownImpactOfDirect(s) == {x \in DirectDependents(s) \ {s} : Kind[x] \notin AnalysedKinds}

UnknownImpact(s) == {x \in ImpactOf(s) : Kind[x] \notin AnalysedKinds}

ImpactAnalysis(s) ==
  [direct   |-> DirectDependents(s),
   impacted |-> ImpactOf(s),
   section  |-> [k \in AnalysedKinds |-> {x \in ImpactOf(s) \cup {s} : Kind[x] = k}],
   unknown  |-> UnknownImpact(s)]

\* Mutant of Parent: the last to get there is the parent.
ParentIsLast(parents, neighbor, node) == node

\* parents.entry(neighbor).or_insert(node)
Parent(parents, neighbor, node) ==
  IF neighbor \in DOMAIN parents THEN parents[neighbor] ELSE node

\* Bfs takes a node: those of its neighbors that never were in the queue are put
\* in it, and the loop around it gives parents to those that have none.
Discover(bfs, node) ==
  LET neighbors == {f.to : f \in {g \in relations : g.from = node}}
  IN [queue   |-> bfs.queue \o In(Order, neighbors \ Members(bfs.queue)),
      parents |-> [x \in DOMAIN bfs.parents \cup neighbors |-> Parent(bfs.parents, x, node)]]

\* All that was ever in the queue: the n-th step takes its n-th member, until one
\* is the goal.
PathRuns(start, goal) ==
  LET run[n \in 0..Len(Order)] ==
        IF n = 0 THEN [queue |-> <<start>>, parents |-> [x \in {} |-> x]]
        ELSE LET bfs == run[n-1] IN
             IF n > Len(bfs.queue) \/ \E i \in 1..n : bfs.queue[i] = goal THEN bfs
             ELSE Discover(bfs, bfs.queue[n])
  IN run

\* From the goal back to the start, or as far as there are parents.
ChainRuns(parents, start, goal) ==
  LET run[n \in 0..Len(Order)] ==
        IF n = 0 THEN <<goal>>
        ELSE LET chain == run[n-1] IN
             IF chain[1] = start \/ chain[1] \notin DOMAIN parents THEN chain
             ELSE <<parents[chain[1]]>> \o chain
  IN run

\* shortest_path, empty if there is none.
ShortestPath(start, goal) ==
  IF start = goal THEN <<start>>
  ELSE LET bfs == PathRuns(start, goal)[Len(Order)]
       IN IF goal \notin Members(bfs.queue) \/ goal \notin DOMAIN bfs.parents THEN << >>
          ELSE ChainRuns(bfs.parents, start, goal)[Len(Order)]

-----------------------------------------------------------------------------
(* decisions_lens.                                                          *)

LensEvidence(d) == {f.from : f \in {g \in relations : g.to = d /\ g.kind \in EvidenceKinds}}

-----------------------------------------------------------------------------
(* diff_graphs.                                                             *)

\* Mutant of PropertyChanges: a value that is new is no change.
PropertyChangesOfBoth(from, to, s) ==
  IF "unset" # from.values[s] /\ from.values[s] # to.values[s]
  THEN {[key |-> "value", from |-> from.values[s], to |-> to.values[s]]} ELSE {}

PropertyChanges(from, to, s) ==
  IF from.values[s] # to.values[s]
  THEN {[key |-> "value", from |-> from.values[s], to |-> to.values[s]]} ELSE {}

\* Deprecation is reported as a change from absent to present, or back.
Changes(from, to, s) ==
  PropertyChanges(from, to, s) \cup
  IF (s \in from.deprecated) # (s \in to.deprecated)
  THEN {[key |-> "deprecated", from |-> s \in from.deprecated, to |-> s \in to.deprecated]}
  ELSE {}

DiffGraphs(from, to) ==
  [addedSubjects    |-> to.subjects \ from.subjects,
   removedSubjects  |-> from.subjects \ to.subjects,
   changedSubjects  |-> [s \in {x \in to.subjects \cap from.subjects :
                                  Changes(from, to, x) # {}} |-> Changes(from, to, s)],
   addedRelations   |-> to.relations \ from.relations,
   removedRelations |-> from.relations \ to.relations]

-----------------------------------------------------------------------------
(* build_context_view.                                                      *)

Allowed(request, authority) ==
  \/ authority = "authoritative"
  \/ authority = "derived" /\ request.derived
  \/ authority = "advisory" /\ request.advisory

\* Why a subject cannot be in the view, as it is by now.
Barrier(request, view, s) ==
  IF s \notin subjects THEN "unknown-subject"
  ELSE IF ~Allowed(request, Authority[s]) THEN "authority-class"
  ELSE IF request.cutoff /\ s \in Stale THEN "last-touched-before-cutoff"
  ELSE IF view.tokens + Size[s] > request.budget THEN "token-budget-exhausted"
  ELSE "none"

\* record_exclusion: a subject is excluded once, for the first reason.
Excluded(view, S, reason) ==
  [view EXCEPT !.excluded = @ \cup
     {[subject |-> s, reason |-> reason] : s \in S \ {x.subject : x \in @}}]

Included(view, entry) ==
  [view EXCEPT !.items = Append(@, entry), !.tokens = @ + Size[entry.subject]]

\* The relations a view follows from s.
Followed(request, s) == {f \in relations : f.from = s /\ f.kind \in request.kinds}

\* Mutant of Queued: what is found is looked at next, before what is waiting.
QueuedNext(queue, n, more) ==
  SubSeq(queue, 1, n) \o more \o SubSeq(queue, n + 1, Len(queue))

Queued(queue, n, more) == queue \o more

Deeper(targets, depth) ==
  [i \in DOMAIN targets |-> [subject |-> targets[i].to, depth |-> depth]]

\* The n-th step, which takes the n-th entry of all that was ever in the queue.
Take(request, view, n) ==
  LET entry   == view.queue[n]
      s       == entry.subject
      barrier == Barrier(request, view, s)
      visited == {view.queue[i].subject : i \in 1..(n-1)}
      fresh   == {f \in Followed(request, s) : f.to \notin visited \cup {s}}
  IN IF s \in visited THEN view
     ELSE IF barrier # "none"
     THEN [Excluded(view, {s}, barrier) EXCEPT
             !.truncated = @ \/ barrier = "token-budget-exhausted"]
     ELSE IF entry.depth >= request.maxDepth
     THEN Excluded(Included(view, entry), {f.to : f \in fresh}, "deeper-than-max-depth")
     ELSE [Included(view, entry) EXCEPT
             !.queue = Queued(@, n, Deeper(In(Facts, fresh), entry.depth + 1))]

ViewRuns(request) ==
  LET run[n \in 0..(Len(request.roots) + Len(Facts))] ==
        IF n = 0
        THEN [queue |-> [i \in DOMAIN request.roots |->
                           [subject |-> request.roots[i], depth |-> 0]],
              items |-> << >>, excluded |-> {}, tokens |-> 0, truncated |-> FALSE]
        ELSE LET view == run[n-1] IN
             IF n > Len(view.queue) THEN view ELSE Take(request, view, n)
  IN run

\* Whatever is in the queue is a root or got there over a relation of its own.
ContextView(request) == ViewRuns(request)[Len(request.roots) + Len(Facts)]

-----------------------------------------------------------------------------
ReadModelsNext ==
  \/ DefineSubjects
  \/ \E s \in Edited, v \in Values : UpdateSubject(s, v)
  \/ \E s \in Edited : DeprecateSubject(s)
  \/ DeclareRelations

ReadModelsSpec ==
  ReadModelsInit /\ [][ReadModelsNext]_<<subjects, values, deprecated, relations>>

-----------------------------------------------------------------------------
(* What a subject is based on, and how far off, without a walk.             *)

Many == Cardinality(Subjects)

\* The subjects that support s in at most n steps.
Within(s) ==
  LET run[n \in 0..Many] ==
        IF n = 0 THEN {s}
        ELSE LET below == run[n-1]
             IN below \cup {f.from : f \in {g \in relations : g.to \in below}}
  IN run

\* The least number of steps that is enough, more than there can be if none is.
Distance(from, to) ==
  LET enough == {n \in 0..Many : from \in Within(to)[n]}
  IN IF enough = {} THEN Many + 1
     ELSE CHOOSE n \in enough : \A k \in enough : n <= k

\* The why path up to a depth has every supporter within that many steps, each
\* on one link, at its distance, and the links say how it supports.  It agrees
\* with the two other answers to the same question: with no bound on the depth
\* it is based on exactly what a change would impact, and the evidence that it
\* shows as directly supporting a decision is in the decisions lens.
WhyIsComplete ==
  \A s \in subjects, d \in 0..Many :
    LET links == WhyPath(s, d)
        froms == {links[i].from : i \in DOMAIN links}
    IN /\ \A i, j \in DOMAIN links : links[i].from = links[j].from => i = j
       /\ froms = Within(s)[d] \ {s}
       /\ \A i \in DOMAIN links :
            /\ links[i].depth = Distance(links[i].from, s)
            /\ [from |-> links[i].from, kind |-> links[i].kind, to |-> links[i].to]
                 \in relations
       /\ d = Many => froms = ImpactOf(s)
       /\ Kind[s] = "decision" => {l.from : l \in WhyEvidence(s, 1)} \subseteq LensEvidence(s)

\* An impact analysis hides nothing (visual/IMPACT.md): whatever is impacted,
\* directly or not, is in exactly one section or listed as unknown.
ImpactIsExplicit ==
  \A s \in subjects :
    LET a == ImpactAnalysis(s)
        sections == UNION {a.section[k] : k \in AnalysedKinds}
    IN /\ a.impacted = Within(s)[Many] \ {s}
       /\ a.direct \subseteq a.impacted \cup {s}
       /\ a.impacted \subseteq sections \cup a.unknown
       /\ sections \cap a.unknown = {}
       /\ \A j, k \in AnalysedKinds : j # k => a.section[j] \cap a.section[k] = {}

\* A path is one of declared relations, has the fewest of them, and is found
\* whenever there is one, around whatever cycles.
PathIsShortest ==
  \A from, to \in subjects :
    LET path == ShortestPath(from, to) IN
    IF path = << >> THEN Distance(from, to) > Many
    ELSE /\ path[1] = from /\ path[Len(path)] = to
         /\ Len(path) = Distance(from, to) + 1
         /\ \A i \in 1..(Len(path) - 1) :
              \E f \in relations : f.from = path[i] /\ f.to = path[i + 1]

Patched(g, diff) ==
  LET Changed(s, key, was) ==
        IF s \in DOMAIN diff.changedSubjects
           /\ \E c \in diff.changedSubjects[s] : c.key = key
        THEN (CHOOSE c \in diff.changedSubjects[s] : c.key = key).to ELSE was
  IN [subjects   |-> (g.subjects \ diff.removedSubjects) \cup diff.addedSubjects,
      values     |-> [s \in Subjects |-> Changed(s, "value", g.values[s])],
      deprecated |-> {s \in Subjects : Changed(s, "deprecated", s \in g.deprecated)},
      relations  |-> (g.relations \ diff.removedRelations) \cup diff.addedRelations]

\* The diff of two revisions is all that has happened in between, forwards as
\* well as back in time.
DiffIsExact ==
  [][ /\ Patched(graph, DiffGraphs(graph, graph')) = graph'
      /\ Patched(graph', DiffGraphs(graph', graph)) = graph ]_<<graph>>

\* The sum of the sizes of the first n items.
Tokens(items) ==
  LET run[n \in 0..Len(items)] == IF n = 0 THEN 0 ELSE run[n-1] + Size[items[n].subject]
  IN run

\* A context view keeps to its bounds and explains itself (SPEC-005): it is
\* within its budget; every item is at the depth of the shortest way to it over
\* other items; what an item leads to is an item or is excluded, and each
\* reason for an exclusion is true.  A view is marked truncated when something
\* did not fit in the budget, which may be listed as too deep instead.
ContextIsExplained ==
  \A request \in Requests :
    LET view  == ContextView(request)
        items == {view.items[i].subject : i \in DOMAIN view.items}
        At(n) == {view.items[i].subject : i \in {j \in DOMAIN view.items : view.items[j].depth = n}}
        LedTo(S) == {f.to : f \in {g \in relations : g.from \in S /\ g.kind \in request.kinds}}
        excluded == {x.subject : x \in view.excluded}
        Unfit(x) == x.subject \notin items /\ view.tokens + Size[x.subject] > request.budget
    IN /\ view.tokens = Tokens(view.items)[Len(view.items)]
       /\ view.tokens <= request.budget
       /\ \A i, j \in DOMAIN view.items :
            view.items[i].subject = view.items[j].subject => i = j
       /\ At(0) \subseteq Members(request.roots)
       /\ \A n \in 1..request.maxDepth :
            At(n) \subseteq LedTo(At(n-1)) \ UNION {LedTo(At(m)) : m \in 0..(n-2)}
       /\ \A i \in DOMAIN view.items : view.items[i].depth <= request.maxDepth
       /\ LedTo(items) \cup Members(request.roots) \subseteq items \cup excluded
       /\ \A x \in view.excluded :
            x.reason = "token-budget-exhausted" => view.truncated /\ Unfit(x)
       /\ view.truncated =>
            \E x \in view.excluded :
              Unfit(x) /\ x.reason \in {"token-budget-exhausted", "deeper-than-max-depth"}
       /\ \A x \in view.excluded :
            \/ x.reason = "token-budget-exhausted"
            \/ x.reason = "unknown-subject" /\ x.subject \notin subjects
            \/ x.reason = "authority-class" /\ ~Allowed(request, Authority[x.subject])
            \/ x.reason = "last-touched-before-cutoff" /\ x.subject \in Stale
            \/ x.reason = "deeper-than-max-depth" /\ x.subject \in LedTo(At(request.maxDepth))
=================================================================================
