------------------------------ MODULE StoreProofs ------------------------------
(***************************************************************************)
(* Theorems about the store, for any number of subjects, clients and       *)
(* events and any length of the log: its types and endpoints, which        *)
(* projections can tear, what the log and the patches promise, what the    *)
(* log replays to, that the store implements AtomicStore until an append   *)
(* tears, and what the built-in behaviors on top of it promise.            *)
(***************************************************************************)
EXTENDS Reactive, SemanticGraphProofs, FiniteSetTheorems

-----------------------------------------------------------------------------
(* Type correctness.                                                        *)

\* A relation only moves the cursors of its ends.
LEMMA TouchKeeps ==
  ASSUME NEW g \in Graph, NEW ends \in SUBSET Subjects, NEW seq \in Nat,
         NEW h, h.subjects = Touch(g, ends, seq),
         NEW s \in Subjects, Exists(g, s)
  PROVE  /\ h.subjects[s].authority = g.subjects[s].authority
         /\ Stated(h, s) = Stated(g, s)
<1>1. g.subjects[s] \in Node
  BY DEF Graph, Exists
<1>2. \A n \in Node : /\ [n EXCEPT !.touched = seq].authority = n.authority
                      /\ [[n EXCEPT !.touched = seq] EXCEPT !.touched = 0]
                           = [n EXCEPT !.touched = 0]
  BY DEF Node
<1>3. \/ h.subjects[s] = g.subjects[s]
      \/ h.subjects[s] = [g.subjects[s] EXCEPT !.touched = seq]
  BY DEF Touch
<1> QED BY <1>1, <1>2, <1>3 DEF Stated

\* What an append records about its event when it begins.
LEMMA BeginType ==
  ASSUME NEW route \in Routes, NEW e, WellFormed(e), NEW answer \in Replies,
         TypeOK, Begin(route, e, answer)
  PROVE  /\ TypeOK'
         /\ pending' \in Pending
         /\ pending'.route = route /\ pending'.event = e
         /\ pending'.steps = Steps(e) /\ pending'.start = graph
         /\ UNCHANGED <<log, graph, reply, seen, torn>>
<1>1. Steps(e) \in Seq(Step) /\ e \in Event
  BY StepsGrounded DEF GroundedSteps, WellFormed
<1>2. pending' = [route |-> route, event |-> e, steps |-> Steps(e),
                  answer |-> answer, start |-> graph]
      /\ UNCHANGED <<log, graph, reply, seen, torn>>
  BY DEF Begin
<1>3. pending' \in Pending
  BY <1>1, <1>2 DEF Pending, TypeOK
<1> QED BY <1>2, <1>3 DEF TypeOK

LEMMA Submitted ==
  \A e \in Events : WellFormed(e)
  BY ConstantsAssumption

\* Proposing a patch begins the append of a patch event, whatever the verdict.
LEMMA Proposed ==
  ASSUME NEW c \in Clients, NEW ops \in Patches, TypeOK, ProposePatch(c, ops)
  PROVE  /\ TypeOK' /\ pending = Idle /\ pending' \in Pending
         /\ WellFormed(pending'.event)
         /\ pending'.steps = Steps(pending'.event)
         /\ pending'.start = graph
         /\ UNCHANGED <<log, graph, reply, seen, torn>>
         /\ pending'.event.id = FreshId
         /\ \/ /\ pending'.event.kind = "patch-applied"
               /\ pending'.event.ops = ops
               /\ pending'.event = PatchEvent("patch-applied", ops)
               /\ Valid(graph, seen[c].revision, ops)
            \/ /\ pending'.event.kind = "patch-rejected"
               /\ pending'.event = PatchEvent("patch-rejected", << >>)
<1>1. ops \in Seq(Step) /\ \A i \in DOMAIN ops : IsOperation(ops[i])
  BY ConstantsAssumption
<1>2. CASE Valid(graph, seen[c].revision, ops)
  <2> DEFINE e == PatchEvent("patch-applied", ops)
  <2>1. Begin("patch", e, "applied")
    BY <1>2 DEF ProposePatch
  <2>2. WellFormed(e)
    BY <1>1, PatchEvents
  <2>3. /\ e.kind = "patch-applied" /\ e.ops = ops /\ e.id = FreshId
        /\ e = PatchEvent("patch-applied", ops)
    BY DEF PatchEvent
  <2> HIDE DEF e
  <2> QED BY <1>2, <2>1, <2>2, <2>3, BeginType DEF Routes, Replies, ProposePatch
<1>3. CASE ~Valid(graph, seen[c].revision, ops)
  <2> DEFINE e == PatchEvent("patch-rejected", << >>)
             answer == Rejection(graph, seen[c].revision, ops)
  <2>1. Begin("patch", e, answer)
    BY <1>3 DEF ProposePatch
  <2>2. WellFormed(e)
    <3>1. << >> \in Seq(Step) /\ DOMAIN << >> = {}
      OBVIOUS
    <3> QED BY <3>1, PatchEvents
  <2>3. /\ e.kind = "patch-rejected" /\ e.id = FreshId
        /\ e = PatchEvent("patch-rejected", << >>)
    BY DEF PatchEvent
  <2>4. answer \in Replies
    BY DEF Rejection, OpRejection, Replies
  <2> HIDE DEF e, answer
  <2> QED BY <2>1, <2>2, <2>3, <2>4, BeginType DEF Routes, ProposePatch
<1> QED BY <1>2, <1>3

LEMMA ProjectType ==
  ASSUME TypeOK, Project
  PROVE  /\ TypeOK' /\ pending \in Pending /\ pending' \in Pending
         /\ pending' = [pending EXCEPT !.steps = Tail(@)]
         /\ Head(pending.steps) \in Step
         /\ Len(log) \in Nat
<1>1. pending \in Pending
  BY DEF Project, TypeOK
<1>2. pending.steps \in Seq(Step) /\ pending.steps # << >>
  BY <1>1 DEF Pending, Project
<1>3. Head(pending.steps) \in Step /\ Tail(pending.steps) \in Seq(Step)
  BY <1>2
<1>4. pending' = [pending EXCEPT !.steps = Tail(@)] /\ pending' \in Pending
  BY <1>1, <1>3 DEF Project, Pending
<1>5. Len(log) \in Nat
  BY DEF TypeOK
<1>6. graph' \in Graph
  BY <1>3, <1>5, Effect DEF Project, TypeOK
<1> QED BY <1>1, <1>3, <1>4, <1>5, <1>6 DEF TypeOK, Project

LEMMA TypeStep ==
  ASSUME TypeOK, [Next]_vars
  PROVE  TypeOK'
<1>1. ASSUME NEW e \in Events, AppendEvent(e) PROVE TypeOK'
  BY <1>1, Submitted, BeginType DEF AppendEvent, Routes, Replies
<1>2. ASSUME NEW e \in Events, AppendDuplicate(e) PROVE TypeOK'
  BY <1>2 DEF AppendDuplicate, TypeOK, Replies
<1>3. CASE Project
  BY <1>3, ProjectType
<1>4. CASE Abort
  <2>1. pending \in Pending
    BY <1>4 DEF Abort, TypeOK
  <2>2. pending.event.kind \in EventKind
    BY <2>1 DEF Pending, Event
  <2> QED BY <1>4, <2>2 DEF Abort, TypeOK, Replies
<1>5. CASE Commit
  <2>1. pending \in Pending
    BY <1>5 DEF Commit, TypeOK
  <2>2. /\ pending.event \in Event /\ pending.answer \in Replies
    BY <2>1 DEF Pending
  <2>3. RevisionAfter(graph, pending.event) \in Nat
    BY DEF RevisionAfter, TypeOK, Graph
  <2> DEFINE revision == RevisionAfter(graph, pending.event)
  <2>4. /\ graph' = [graph EXCEPT !.revision = revision]
        /\ log' = Append(log, [event |-> pending.event, revision |-> revision])
    BY <1>5 DEF Commit
  <2> HIDE DEF revision
  <2>5. graph' \in Graph
    BY <2>3, <2>4 DEF TypeOK, Graph, revision
  <2>6. log' \in Seq(LogEntry)
    BY <2>2, <2>3, <2>4 DEF TypeOK, LogEntry, revision
  <2> QED BY <1>5, <2>2, <2>5, <2>6 DEF TypeOK, Commit
<1>6. ASSUME NEW c \in Clients, ReadGraph(c) PROVE TypeOK'
  BY <1>6 DEF ReadGraph, TypeOK
<1>7. ASSUME NEW c \in Clients, NEW ops \in Patches, ProposePatch(c, ops)
      PROVE  TypeOK'
  BY <1>7, Proposed
<1>8. CASE UNCHANGED vars
  BY <1>8 DEF vars, TypeOK
<1> QED BY <1>1, <1>2, <1>3, <1>4, <1>5, <1>6, <1>7, <1>8 DEF Next

LEMMA TypeInit == Init => TypeOK
<1>1. EmptyGraph \in Graph
  BY DEF EmptyGraph, Graph
<1> QED BY <1>1 DEF Init, TypeOK, Replies

\* Every variable of the store keeps its type: the projection of every kind
\* of event, run one primitive at a time and aborted anywhere, yields a graph.
THEOREM TypeCorrect == Spec => []TypeOK
<1>1. TypeOK /\ [Next]_vars => TypeOK'
  BY TypeStep
<1> QED BY <1>1, TypeInit, PTL DEF Spec

-----------------------------------------------------------------------------
(* Relations never dangle.                                                  *)

LEMMA Popped ==
  ASSUME NEW steps \in Seq(Step), steps # << >>
  PROVE  /\ Head(steps) = steps[1] /\ 1 \in DOMAIN steps
         /\ \A i \in DOMAIN Tail(steps) :
              i + 1 \in DOMAIN steps /\ Tail(steps)[i] = steps[i+1]
  OBVIOUS

LEMMA NotIdle == Idle \notin Pending
  BY DEF Idle, Pending, Routes

\* The ends of every relation still to be inserted are in the graph, or are
\* established by a step that runs before it.
WillBeGrounded(g, steps) ==
  \A i \in DOMAIN steps : IsRelationStep(steps[i]) =>
    \A s \in Ends(steps[i]) :
      \/ Exists(g, s)
      \/ s \in steps[i].needs
      \/ \E j \in 1..(i-1) : s \in Establishes(steps[j])

\* Inductive: the relations the append in progress has yet to insert will find
\* their ends, so neither finishing nor aborting it leaves one dangling.
EndpointsInv ==
  /\ EndpointsExist
  /\ pending # Idle => WillBeGrounded(graph, pending.steps)

LEMMA StepEnds ==
  ASSUME NEW st \in Step
  PROVE  IsRelationStep(st) => Ends(st) \subseteq Subjects /\ st.fact \in RelationFact
  BY StepKinds DEF Step, RelationStep, RelationFact, Ends

LEMMA GraphRelations ==
  ASSUME NEW g \in Graph, NEW r \in g.relations
  PROVE  r.from \in Subjects /\ r.to \in Subjects
  BY DEF Graph, RelationFact

LEMMA EndpointsProject ==
  ASSUME TypeOK, TypeOK', EndpointsInv, Project
  PROVE  EndpointsInv'
<1> DEFINE st == Head(pending.steps)
<1>1. /\ pending \in Pending /\ pending' \in Pending
      /\ pending' = [pending EXCEPT !.steps = Tail(@)]
      /\ st \in Step /\ Len(log) \in Nat
  BY ProjectType
<1>2. /\ pending.steps \in Seq(Step) /\ pending.steps # << >>
      /\ pending'.steps = Tail(pending.steps)
  BY <1>1 DEF Pending, Project
<1>3. st = pending.steps[1] /\ 1 \in DOMAIN pending.steps
  BY <1>2, Popped
<1>4. /\ \A s \in Subjects : Exists(graph, s) => Exists(graph', s)
      /\ \A s \in Establishes(st) : Exists(graph', s)
      /\ ~IsRelationStep(st) => graph'.relations = graph.relations
      /\ IsRelationStep(st) => graph'.relations \subseteq graph.relations \cup {st.fact}
      /\ StepOk(graph, st)
  BY <1>1, Effect DEF TypeOK, Project
<1>5. WillBeGrounded(graph, pending.steps)
  BY <1>1, NotIdle DEF EndpointsInv
<1>6. IsRelationStep(st) => \A s \in Ends(st) : Exists(graph, s)
  BY <1>3, <1>4, <1>5 DEF WillBeGrounded, StepOk
<1> HIDE DEF st
<1>7. ASSUME NEW r \in graph'.relations
      PROVE  Exists(graph', r.from) /\ Exists(graph', r.to)
  <2>1. r.from \in Subjects /\ r.to \in Subjects
    BY GraphRelations DEF TypeOK
  <2>2. CASE r \in graph.relations
    BY <1>4, <2>1, <2>2 DEF EndpointsInv, EndpointsExist
  <2>3. CASE r \notin graph.relations
    <3>1. IsRelationStep(st) /\ r = st.fact
      BY <1>4, <2>3
    <3> QED BY <1>4, <1>6, <2>1, <3>1 DEF Ends
  <2> QED BY <2>2, <2>3
<1>8. ASSUME NEW i \in DOMAIN pending'.steps, IsRelationStep(pending'.steps[i]),
             NEW s \in Ends(pending'.steps[i])
      PROVE  \/ Exists(graph', s)
             \/ s \in pending'.steps[i].needs
             \/ \E j \in 1..(i-1) : s \in Establishes(pending'.steps[j])
  <2>1. i + 1 \in DOMAIN pending.steps /\ pending'.steps[i] = pending.steps[i+1]
    BY <1>2, Popped
  <2>2. s \in Subjects
    <3>1. pending'.steps[i] \in Step
      BY <1>2, <2>1
    <3> QED BY <3>1, <1>8, StepEnds
  <2>3. \/ Exists(graph, s)
        \/ s \in pending.steps[i+1].needs
        \/ \E j \in 1..((i+1)-1) : s \in Establishes(pending.steps[j])
    BY <1>5, <1>8, <2>1 DEF WillBeGrounded
  <2>4. ASSUME NEW j \in 1..((i+1)-1), s \in Establishes(pending.steps[j])
        PROVE  \/ Exists(graph', s)
               \/ \E k \in 1..(i-1) : s \in Establishes(pending'.steps[k])
    <3>1. CASE j = 1
      BY <1>3, <1>4, <2>4, <3>1
    <3>2. CASE j # 1
      <4>1. j - 1 \in 1..(i-1) /\ j - 1 \in DOMAIN pending'.steps
        BY <1>2, <3>2
      <4>2. pending'.steps[j-1] = pending.steps[j]
        BY <1>2, <4>1, Popped
      <4> QED BY <2>4, <4>1, <4>2
    <3> QED BY <3>1, <3>2
  <2> QED BY <1>4, <2>1, <2>2, <2>3, <2>4
<1> QED BY <1>7, <1>8 DEF EndpointsInv, EndpointsExist, WillBeGrounded

LEMMA EndpointsBegin ==
  ASSUME EndpointsInv, UNCHANGED graph, NEW e, WellFormed(e),
         pending'.steps = Steps(e)
  PROVE  EndpointsInv'
<1>1. Grounded(Steps(e))
  BY StepsGrounded DEF GroundedSteps
<1> QED BY <1>1 DEF EndpointsInv, EndpointsExist, Grounded, WillBeGrounded

LEMMA EndpointsStep ==
  ASSUME TypeOK, TypeOK', EndpointsInv, [Next]_vars
  PROVE  EndpointsInv'
<1>1. ASSUME NEW e \in Events, AppendEvent(e) PROVE EndpointsInv'
  BY <1>1, Submitted, BeginType, EndpointsBegin DEF AppendEvent, Routes, Replies
<1>2. ASSUME NEW e \in Events, AppendDuplicate(e) PROVE EndpointsInv'
  BY <1>2 DEF AppendDuplicate, EndpointsInv, EndpointsExist
<1>3. CASE Project
  BY <1>3, EndpointsProject
<1>4. CASE Abort
  BY <1>4 DEF Abort, EndpointsInv, EndpointsExist
<1>5. CASE Commit
  <2>1. /\ graph'.relations = graph.relations /\ graph'.subjects = graph.subjects
        /\ pending' = Idle
    BY <1>5 DEF Commit, TypeOK, Graph
  <2> QED BY <2>1 DEF EndpointsInv, EndpointsExist, Exists
<1>6. ASSUME NEW c \in Clients, ReadGraph(c) PROVE EndpointsInv'
  BY <1>6 DEF ReadGraph, EndpointsInv, EndpointsExist
<1>7. ASSUME NEW c \in Clients, NEW ops \in Patches, ProposePatch(c, ops)
      PROVE  EndpointsInv'
  BY <1>7, Proposed, EndpointsBegin
<1>8. CASE UNCHANGED vars
  BY <1>8 DEF vars, EndpointsInv, EndpointsExist
<1> QED BY <1>1, <1>2, <1>3, <1>4, <1>5, <1>6, <1>7, <1>8 DEF Next

LEMMA EndpointsInit == Init => EndpointsInv
  BY DEF Init, EmptyGraph, EndpointsInv, EndpointsExist

\* No relation of the graph ever dangles, although the projection inserts
\* relations without looking at their ends and an append may stop midway.
THEOREM EndpointsAlwaysExist == Spec => []EndpointsExist
<1>1. TypeOK /\ TypeOK' /\ EndpointsInv /\ [Next]_vars => EndpointsInv'
  BY EndpointsStep
<1>2. EndpointsInv => EndpointsExist
  BY DEF EndpointsInv
<1> QED BY <1>1, <1>2, EndpointsInit, TypeCorrect, PTL DEF Spec

-----------------------------------------------------------------------------
(* Which appends can be aborted midway.                                     *)

Tearing == { "patch-applied", "message-appended", "frame-started",
             "turn-completed", "frame-turn-completed" }

\* After its first step nothing in the projection can fail: what remains are
\* links, and a relation between the subject the first step has created and a
\* subject that step has found.
Tidy(steps) ==
  \A i \in DOMAIN steps : i # 1 =>
    /\ steps[i].needs = {}
    /\ \/ steps[i].op = "link"
       \/ /\ i = 2 /\ steps[i].op = "relate" /\ steps[1].op = "define"
          /\ \E s \in steps[1].needs : Ends(steps[i]) = {steps[1].subject, s}

LEMMA TidyShapes ==
  /\ \A d : Tidy(<< d >>)
  /\ \A d, r : r.needs = {} /\ r.op = "link" => Tidy(<< d, r >>)
  /\ \A d, r, q : r.needs = {} /\ r.op = "link" /\ q.needs = {} /\ q.op = "link"
                    => Tidy(<< d, r, q >>)
  /\ \A d, r : (/\ r.needs = {} /\ r.op = "relate" /\ d.op = "define"
                /\ \E s \in d.needs : Ends(r) = {d.subject, s}) => Tidy(<< d, r >>)
<1>1. ASSUME NEW d PROVE Tidy(<< d >>)
  BY DEF Tidy
<1>2. ASSUME NEW d, NEW r, r.needs = {}, r.op = "link" PROVE Tidy(<< d, r >>)
  BY <1>2 DEF Tidy
<1>3. ASSUME NEW d, NEW r, NEW q, r.needs = {}, r.op = "link",
             q.needs = {}, q.op = "link"
      PROVE  Tidy(<< d, r, q >>)
  BY <1>3 DEF Tidy
<1>4. ASSUME NEW d, NEW r, r.needs = {}, r.op = "relate", d.op = "define",
             NEW s \in d.needs, Ends(r) = {d.subject, s}
      PROVE  Tidy(<< d, r >>)
  BY <1>4 DEF Tidy
<1> QED BY <1>1, <1>2, <1>3, <1>4

\* A created subject and the relations declared with it.
LEMMA TidyRelations ==
  ASSUME NEW needs, NEW s, NEW a, NEW p, NEW k, NEW b
  PROVE  /\ \A x : Tidy(<< Define(needs, s, a, p), Link({}, x) >>)
         /\ \A x, y : Tidy(<< Define(needs, s, a, p), Link({}, x), Link({}, y) >>)
         /\ \A x \in needs :
              /\ Tidy(<< Define(needs, s, a, p), Relate({}, Fact(s, k, x, b)) >>)
              /\ Tidy(<< Define(needs, s, a, p), Relate({}, Fact(x, k, s, b)) >>)
<1> DEFINE d == Define(needs, s, a, p)
<1>1. d.op = "define" /\ d.needs = needs /\ d.subject = s
  BY DEF Define, OnSubject
<1>2. \A x : Link({}, x).needs = {} /\ Link({}, x).op = "link"
  BY DEF Link
<1>3. \A x, y : /\ Relate({}, Fact(x, k, y, b)).needs = {}
                /\ Relate({}, Fact(x, k, y, b)).op = "relate"
                /\ Ends(Relate({}, Fact(x, k, y, b))) = {x, y}
  BY DEF Relate, Fact, Ends
<1> HIDE DEF d
<1>4. \A x : Tidy(<< d, Link({}, x) >>)
  BY <1>2, TidyShapes
<1>5. \A x, y : Tidy(<< d, Link({}, x), Link({}, y) >>)
  BY <1>2, TidyShapes
<1>6. ASSUME NEW x \in needs
      PROVE  /\ Tidy(<< d, Relate({}, Fact(s, k, x, b)) >>)
             /\ Tidy(<< d, Relate({}, Fact(x, k, s, b)) >>)
  <2>1. {x, s} = {s, x}
    OBVIOUS
  <2> QED BY <1>1, <1>3, <2>1, TidyShapes
<1> QED BY <1>4, <1>5, <1>6 DEF d

LEMMA TidyProjections ==
  ASSUME NEW e, WellFormed(e), e.kind \notin Tearing
  PROVE  Tidy(Steps(e))
<1>1. e.kind \in EventKind
  BY EventFields
<1>2. CASE e.kind \in { "subject-defined", "subject-updated", "subject-deprecated",
                        "relation-declared", "patch-rejected" }
  <2>1. e.kind = "patch-rejected" => Steps(e) = << >>
    BY DEF Steps, WorldSteps
  <2>2. e.kind # "patch-rejected" => \E d : Steps(e) = << d >>
    BY <1>2 DEF Steps, WorldSteps
  <2>3. Tidy(<< >>)
    BY DEF Tidy
  <2> QED BY <2>1, <2>2, <2>3, TidyShapes
<1>3. CASE e.kind \in {"thread-started", "frame-closed", "agent-defined", "intent-promoted"}
  <2>1. \E d : Steps(e) = << d >>
    BY <1>3 DEF Steps, ConversationSteps, FrameSteps, AgentSteps, IntentSteps
  <2> QED BY <2>1, TidyShapes
<1>4. CASE e.kind \in {"tool-invoked", "canvas-bound"}
  <2>1. \E needs, a, f : Steps(e) = << Define(needs, e.subject, a, e.props), Link({}, f) >>
    BY <1>4 DEF Steps, ConversationSteps, IntentSteps
  <2> QED BY <2>1, TidyRelations
<1>5. CASE e.kind = "agent-run-finished"
  <2>1. Steps(e) = AgentRun(e.subject, e.other, e.also[1], e.props)
    BY <1>5 DEF Steps, AgentSteps
  <2> QED BY <2>1, TidyRelations DEF AgentRun
<1>6. CASE e.kind \in {"thread-forked", "advisory-raised", "intent-drafted"}
  <2>1. \E a, k, b : Steps(e) = << Define({e.other}, e.subject, a, e.props),
                                   Relate({}, Fact(e.subject, k, e.other, b)) >>
    BY <1>6 DEF Steps, ConversationSteps, IntentSteps
  <2> QED BY <2>1, TidyRelations
<1>7. CASE e.kind = "sddk-proposal-submitted"
  <2>1. Steps(e) = << Define({e.other, e.also[1]}, e.subject, "derived", e.props),
                      Relate({}, Fact(e.subject, "provides_evidence_for", e.other, "derived")) >>
    BY <1>7 DEF Steps, IntentSteps
  <2>2. e.other \in {e.other, e.also[1]}
    OBVIOUS
  <2> QED BY <2>1, <2>2, TidyRelations
<1>8. CASE e.kind = "uat-check-recorded"
  <2>1. Steps(e) = << Define({e.other}, e.subject, "authoritative", e.props),
                      Relate({}, Fact(e.other, "contains", e.subject, "authoritative")) >>
    BY <1>8 DEF Steps, AgentSteps
  <2> QED BY <2>1, TidyRelations
<1> QED BY <1>1, <1>2, <1>3, <1>4, <1>5, <1>6, <1>7, <1>8 DEF EventKind, Tearing

\* Inductive: the append of an event that does not tear has not begun to run,
\* or can no longer fail.
TearInv ==
  /\ torn \subseteq Tearing
  /\ (pending # Idle /\ pending.event.kind \notin Tearing) =>
       \/ /\ pending.steps = Steps(pending.event) /\ WellFormed(pending.event)
          /\ graph = pending.start
       \/ \A i \in DOMAIN pending.steps :
            \/ pending.steps[i].needs = {} /\ pending.steps[i].op = "link"
            \/ i = 1 /\ StepOk(graph, pending.steps[1])

\* The relation that follows the creation of one of its ends is new.
LEMMA RelateToNew ==
  ASSUME NEW g \in Graph, NEW d \in Step, NEW seq \in Nat, StepOk(g, d), d.op = "define",
         \A r \in g.relations : Exists(g, r.from) /\ Exists(g, r.to),
         NEW st, st.op = "relate", st.needs = {},
         NEW s \in d.needs, Ends(st) = {d.subject, s}
  PROVE  StepOk(StepEffect(g, d, seq), st)
<1> DEFINE h == StepEffect(g, d, seq)
<1>1. ~Exists(g, d.subject) /\ Exists(g, s)
  BY DEF StepOk
<1>2. h.relations = g.relations
  BY Effect DEF IsRelationStep
<1> HIDE DEF h
<1>3. st.fact.from # st.fact.to
  <2>1. d.subject # s
    BY <1>1
  <2> QED BY <2>1 DEF Ends
<1>4. ~Related(h, st.fact)
  <2>1. \A r \in g.relations : r.from # d.subject /\ r.to # d.subject
    BY <1>1
  <2> QED BY <1>2, <2>1 DEF Related, Ends
<1> QED BY <1>3, <1>4 DEF StepOk, h

LEMMA TearProject ==
  ASSUME TypeOK, EndpointsExist, TearInv, Project
  PROVE  TearInv'
<1> DEFINE st == Head(pending.steps)
<1>1. /\ pending \in Pending /\ pending # Idle
      /\ pending' = [pending EXCEPT !.steps = Tail(@)]
      /\ st \in Step /\ Len(log) \in Nat /\ UNCHANGED torn
  BY ProjectType DEF Project
<1>2. /\ pending.steps \in Seq(Step) /\ pending.steps # << >>
      /\ pending'.steps = Tail(pending.steps) /\ pending'.event = pending.event
  BY <1>1 DEF Pending, Project
<1>3. /\ st = pending.steps[1]
      /\ \A i \in DOMAIN Tail(pending.steps) :
           /\ i + 1 \in DOMAIN pending.steps /\ i \in Nat \ {0}
           /\ Tail(pending.steps)[i] = pending.steps[i+1]
  BY <1>2, Popped
<1>4. /\ StepOk(graph, st) /\ graph' = StepEffect(graph, st, Len(log)) /\ graph \in Graph
      /\ \A r \in graph.relations : Exists(graph, r.from) /\ Exists(graph, r.to)
  BY DEF Project, TypeOK, EndpointsExist
<1> HIDE DEF st
<1> SUFFICES ASSUME pending.event.kind \notin Tearing, NEW i \in DOMAIN pending'.steps
             PROVE  \/ pending'.steps[i].needs = {} /\ pending'.steps[i].op = "link"
                    \/ i = 1 /\ StepOk(graph', pending'.steps[1])
  BY <1>1, <1>2 DEF TearInv
<1>5. /\ i + 1 \in DOMAIN pending.steps /\ i \in Nat \ {0}
      /\ pending'.steps[i] = pending.steps[i+1]
  BY <1>2, <1>3
<1>6. CASE \A j \in DOMAIN pending.steps :
             \/ pending.steps[j].needs = {} /\ pending.steps[j].op = "link"
             \/ j = 1 /\ StepOk(graph, pending.steps[1])
  <2>1. i + 1 # 1
    BY <1>5
  <2> QED BY <1>5, <1>6, <2>1
<1>7. CASE pending.steps = Steps(pending.event) /\ WellFormed(pending.event)
  <2>1. Tidy(pending.steps)
    BY <1>7, TidyProjections
  <2>2. i + 1 # 1
    BY <1>5
  <2>3. CASE pending.steps[i+1].op = "link"
    BY <1>5, <2>1, <2>2, <2>3 DEF Tidy
  <2>4. CASE pending.steps[i+1].op # "link"
    <3> DEFINE j == i + 1
               q == pending.steps[j]
    <3>0. /\ j = 2 /\ q.op = "relate" /\ q.needs = {} /\ pending.steps[1].op = "define"
          /\ \E s \in pending.steps[1].needs : Ends(q) = {pending.steps[1].subject, s}
      <4>1. j \in DOMAIN pending.steps /\ j # 1 /\ q.op # "link"
        BY <1>5, <2>2, <2>4
      <4> HIDE DEF j
      <4> QED BY <2>1, <4>1 DEF Tidy
    <3>1. /\ i + 1 = 2 /\ pending'.steps[i].op = "relate" /\ pending'.steps[i].needs = {}
          /\ st.op = "define"
          /\ \E s \in st.needs : Ends(pending'.steps[i]) = {st.subject, s}
      BY <1>3, <1>5, <3>0
    <3>2. i = 1
      BY <1>5, <3>1
    <3>3. StepOk(StepEffect(graph, st, Len(log)), pending'.steps[i])
      BY <1>1, <1>4, <3>1, RelateToNew
    <3> QED BY <1>4, <3>2, <3>3
  <2> QED BY <2>3, <2>4
<1> QED BY <1>1, <1>6, <1>7 DEF TearInv

LEMMA TearAbort ==
  ASSUME TypeOK, TearInv, Abort
  PROVE  TearInv'
<1>1. /\ pending # Idle /\ pending' = Idle /\ pending.steps # << >>
      /\ ~StepOk(graph, Head(pending.steps)) /\ pending \in Pending
      /\ torn' = IF graph = pending.start THEN torn ELSE torn \cup {pending.event.kind}
  BY DEF Abort, TypeOK
<1>2. Head(pending.steps) = pending.steps[1] /\ 1 \in DOMAIN pending.steps
  BY <1>1, Popped DEF Pending
<1>3. ASSUME NEW st, st.needs = {}, st.op = "link" PROVE StepOk(graph, st)
  BY <1>3 DEF StepOk
<1>4. pending.event.kind \notin Tearing => graph = pending.start
  BY <1>1, <1>2, <1>3 DEF TearInv
<1> QED BY <1>1, <1>4 DEF TearInv

LEMMA TearBegin ==
  ASSUME TearInv, pending' \in Pending, NEW e, WellFormed(e), pending'.event = e,
         pending'.steps = Steps(e), pending'.start = graph, UNCHANGED <<graph, torn>>
  PROVE  TearInv'
BY NotIdle DEF TearInv

LEMMA TearStep ==
  ASSUME TypeOK, EndpointsExist, TearInv, [Next]_vars
  PROVE  TearInv'
<1>1. ASSUME NEW e \in Events, AppendEvent(e) PROVE TearInv'
  BY <1>1, Submitted, BeginType, TearBegin DEF AppendEvent, Routes, Replies
<1>2. ASSUME NEW e \in Events, AppendDuplicate(e) PROVE TearInv'
  BY <1>2 DEF AppendDuplicate, TearInv
<1>3. CASE Project
  BY <1>3, TearProject
<1>4. CASE Abort
  BY <1>4, TearAbort
<1>5. CASE Commit
  BY <1>5 DEF Commit, TearInv
<1>6. ASSUME NEW c \in Clients, ReadGraph(c) PROVE TearInv'
  BY <1>6 DEF ReadGraph, TearInv
<1>7. ASSUME NEW c \in Clients, NEW ops \in Patches, ProposePatch(c, ops)
      PROVE  TearInv'
  BY <1>7, Proposed, TearBegin
<1>8. CASE UNCHANGED vars
  BY <1>8 DEF vars, TearInv
<1> QED BY <1>1, <1>2, <1>3, <1>4, <1>5, <1>6, <1>7, <1>8 DEF Next

\* Every projection but five kinds checks all that can fail before it mutates
\* the graph: aborting one of their appends leaves the graph as it was.
THEOREM OnlyFiveKindsTear == Spec => []OnlyTheseTear
<1>1. Init => TearInv
  BY DEF Init, TearInv
<1>2. TypeOK /\ EndpointsExist /\ TearInv /\ [Next]_vars => TearInv'
  BY TearStep
<1>3. TearInv => OnlyTheseTear
  BY DEF TearInv, OnlyTheseTear, Tearing
<1> QED BY <1>1, <1>2, <1>3, TypeCorrect, EndpointsAlwaysExist, PTL DEF Spec

-----------------------------------------------------------------------------
(* The revision a client read identifies the graph it read.                 *)

\* Inductive: nobody has read a later revision than the graph's; a reader of
\* the current revision has read the settled graph, unless an append tore it;
\* the projection of a rejection has nothing to run.
RevisionInv ==
  /\ \A c \in Clients : seen[c].revision <= graph.revision
  /\ torn = {} =>
       \A c \in Clients : seen[c].revision = graph.revision => seen[c] = Settled
  /\ pending # Idle =>
       /\ pending.start.revision = graph.revision
       /\ pending.event.kind = "patch-rejected" =>
            pending.steps = << >> /\ graph = pending.start

LEMMA RevisionBegin ==
  ASSUME RevisionInv, pending = Idle, pending' \in Pending, NEW e, WellFormed(e),
         pending'.event = e, pending'.steps = Steps(e), pending'.start = graph,
         UNCHANGED <<log, graph, reply, seen, torn>>
  PROVE  RevisionInv'
<1>1. e.kind = "patch-rejected" => Steps(e) = << >>
  BY DEF Steps, WorldSteps
<1>2. Settled' = Settled
  BY NotIdle DEF Settled
<1> QED BY <1>1, <1>2, NotIdle DEF RevisionInv

LEMMA RevisionStep ==
  ASSUME TypeOK, TypeOK', RevisionInv, [Next]_vars
  PROVE  RevisionInv'
<1>1. ASSUME NEW e \in Events, AppendEvent(e) PROVE RevisionInv'
  BY <1>1, Submitted, BeginType, RevisionBegin DEF AppendEvent, Routes, Replies
<1>2. ASSUME NEW e \in Events, AppendDuplicate(e) PROVE RevisionInv'
  BY <1>2 DEF AppendDuplicate, RevisionInv, Settled
<1>3. CASE Project
  <2>1. /\ pending \in Pending /\ pending' \in Pending
        /\ pending' = [pending EXCEPT !.steps = Tail(@)]
        /\ Head(pending.steps) \in Step /\ Len(log) \in Nat
    BY <1>3, ProjectType
  <2>2. /\ pending'.start = pending.start /\ pending'.event = pending.event
        /\ pending # Idle /\ pending' # Idle
    BY <2>1, NotIdle DEF Pending
  <2>3. graph'.revision = graph.revision
    BY <1>3, <2>1, Effect DEF Project, TypeOK
  <2>4. Settled' = Settled
    BY <2>2 DEF Settled
  <2>5. pending.event.kind # "patch-rejected"
    BY <1>3, <2>2 DEF Project, RevisionInv
  <2>6. UNCHANGED <<seen, torn>>
    BY <1>3 DEF Project
  <2> QED BY <2>2, <2>3, <2>4, <2>5, <2>6 DEF RevisionInv
<1>4. CASE Abort
  <2>1. pending # Idle /\ pending' = Idle /\ UNCHANGED <<graph, seen>>
    BY <1>4 DEF Abort
  <2>2. torn' = {} => torn = {} /\ graph = pending.start
    BY <1>4 DEF Abort
  <2> QED BY <2>1, <2>2 DEF RevisionInv, Settled
<1>5. CASE Commit
  <2>1. /\ pending # Idle /\ pending' = Idle /\ UNCHANGED <<seen, torn>>
        /\ graph' = [graph EXCEPT !.revision = RevisionAfter(graph, pending.event)]
    BY <1>5 DEF Commit
  <2>2. /\ graph.revision \in Nat
        /\ \A c \in Clients : seen[c].revision \in Nat
        /\ graph'.revision = RevisionAfter(graph, pending.event)
    BY <2>1 DEF TypeOK, Graph
  <2>3. CASE pending.event.kind = "patch-rejected"
    <3>1. RevisionAfter(graph, pending.event) = graph.revision
      BY <2>3 DEF RevisionAfter
    <3>2. graph' = graph
      BY <2>1, <3>1 DEF TypeOK, Graph
    <3>3. graph = pending.start
      BY <2>1, <2>3 DEF RevisionInv
    <3> QED BY <2>1, <3>2, <3>3 DEF RevisionInv, Settled
  <2>4. CASE pending.event.kind # "patch-rejected"
    <3>1. graph'.revision = graph.revision + 1
      BY <2>2, <2>4 DEF RevisionAfter
    <3>2. \A c \in Clients : seen'[c].revision < graph'.revision
      BY <2>1, <2>2, <3>1 DEF RevisionInv
    <3> QED BY <2>1, <2>2, <3>1, <3>2 DEF RevisionInv
  <2> QED BY <2>3, <2>4
<1>6. ASSUME NEW c \in Clients, ReadGraph(c) PROVE RevisionInv'
  <2>1. \A d \in Clients : seen'[d] = IF d = c THEN graph ELSE seen[d]
    BY <1>6 DEF ReadGraph, TypeOK
  <2> QED BY <1>6, <2>1 DEF ReadGraph, RevisionInv, Settled, TypeOK, Graph
<1>7. ASSUME NEW c \in Clients, NEW ops \in Patches, ProposePatch(c, ops)
      PROVE  RevisionInv'
  BY <1>7, Proposed, RevisionBegin
<1>8. CASE UNCHANGED vars
  BY <1>8 DEF vars, RevisionInv, Settled
<1> QED BY <1>1, <1>2, <1>3, <1>4, <1>5, <1>6, <1>7, <1>8 DEF Next

\* Optimistic concurrency is sound as long as no append was aborted midway: a
\* patch whose base revision is current was made against the current graph.
THEOREM BaseRevisionIdentifiesGraph == Spec => []RevisionIdentifiesGraph
<1>1. Init => RevisionInv
  BY DEF Init, EmptyGraph, RevisionInv, Settled
<1>2. TypeOK /\ TypeOK' /\ RevisionInv /\ [Next]_vars => RevisionInv'
  BY RevisionStep
<1>3. RevisionInv => RevisionIdentifiesGraph
  BY DEF RevisionInv, RevisionIdentifiesGraph, Settled
<1> QED BY <1>1, <1>2, <1>3, TypeCorrect, PTL DEF Spec

-----------------------------------------------------------------------------
(* What the log records.                                                    *)

\* Inductive: the id of the event being appended is not in the log.
FreshInv == NoEventTwice /\ (pending # Idle => ~Logged(pending.event.id))

LEMMA FreshStep ==
  ASSUME TypeOK, TypeOK', FreshInv, [Next]_vars
  PROVE  FreshInv'
<1>1. ASSUME NEW e \in Events, AppendEvent(e) PROVE FreshInv'
  <2>1. /\ UNCHANGED log /\ pending'.event = e /\ ~Logged(e.id)
    BY <1>1 DEF AppendEvent, Begin
  <2> QED BY <2>1 DEF FreshInv, NoEventTwice, Logged
<1>2. ASSUME NEW e \in Events, AppendDuplicate(e) PROVE FreshInv'
  BY <1>2 DEF AppendDuplicate, FreshInv, NoEventTwice, Logged
<1>3. CASE Project
  <2>1. pending \in Pending /\ pending' = [pending EXCEPT !.steps = Tail(@)]
    BY <1>3, ProjectType
  <2>2. pending'.event = pending.event /\ pending # Idle /\ UNCHANGED log
    BY <1>3, <2>1, NotIdle DEF Pending, Project
  <2> QED BY <2>2 DEF FreshInv, NoEventTwice, Logged
<1>4. CASE Abort
  BY <1>4 DEF Abort, FreshInv, NoEventTwice
<1>5. CASE Commit
  <2> DEFINE entry == [event |-> pending.event,
                       revision |-> RevisionAfter(graph, pending.event)]
  <2>1. log' = Append(log, entry) /\ pending' = Idle /\ pending # Idle
    BY <1>5 DEF Commit
  <2>2. entry.event.id = pending.event.id
    OBVIOUS
  <2> HIDE DEF entry
  <2>3. log \in Seq(LogEntry)
    BY DEF TypeOK
  <2>4. /\ DOMAIN log' = DOMAIN log \cup {Len(log) + 1}
        /\ log'[Len(log) + 1] = entry
        /\ \A i \in DOMAIN log : log'[i] = log[i] /\ i # Len(log) + 1
    BY <2>1, <2>3
  <2>5. pending.event.id # FreshId =>
          \A i \in DOMAIN log : log[i].event.id # pending.event.id
    BY <2>1 DEF FreshInv, Logged
  <2>6. NoEventTwice'
    BY <2>2, <2>4, <2>5 DEF FreshInv, NoEventTwice
  <2> QED BY <2>1, <2>6 DEF FreshInv
<1>6. ASSUME NEW c \in Clients, ReadGraph(c) PROVE FreshInv'
  BY <1>6 DEF ReadGraph, FreshInv, NoEventTwice, Logged
<1>7. ASSUME NEW c \in Clients, NEW ops \in Patches, ProposePatch(c, ops)
      PROVE  FreshInv'
  <2>1. UNCHANGED log /\ pending'.event.id = FreshId
    BY <1>7, Proposed
  <2> QED BY <2>1 DEF FreshInv, NoEventTwice, Logged
<1>8. CASE UNCHANGED vars
  BY <1>8 DEF vars, FreshInv, NoEventTwice, Logged
<1> QED BY <1>1, <1>2, <1>3, <1>4, <1>5, <1>6, <1>7, <1>8 DEF Next

\* Appending is idempotent on the event id: a retried event is logged once,
\* also when the earlier attempt was aborted.
THEOREM EventsLoggedOnce == Spec => []NoEventTwice
<1>1. Init => FreshInv
  BY DEF Init, FreshInv, NoEventTwice
<1>2. TypeOK /\ TypeOK' /\ FreshInv /\ [Next]_vars => FreshInv'
  BY FreshStep
<1>3. FreshInv => NoEventTwice
  BY DEF FreshInv
<1> QED BY <1>1, <1>2, <1>3, TypeCorrect, PTL DEF Spec

LEMMA RevisionsStep ==
  ASSUME TypeOK, TypeOK', RevisionsAccountedFor, [Next]_vars
  PROVE  RevisionsAccountedFor'
<1>1. CASE graph'.revision = graph.revision /\ UNCHANGED log
  BY <1>1 DEF RevisionsAccountedFor
<1>2. CASE Project
  <2>1. Head(pending.steps) \in Step /\ Len(log) \in Nat
    BY <1>2, ProjectType
  <2>2. graph'.revision = graph.revision /\ UNCHANGED log
    BY <1>2, <2>1, Effect DEF Project, TypeOK
  <2> QED BY <1>1, <2>2
<1>3. CASE Commit
  <2> DEFINE entry == [event |-> pending.event,
                       revision |-> RevisionAfter(graph, pending.event)]
             last == Len(log) + 1
  <2>1. /\ log' = Append(log, entry)
        /\ graph'.revision = RevisionAfter(graph, pending.event)
    BY <1>3 DEF Commit, TypeOK, Graph
  <2>2. /\ entry.revision = RevisionAfter(graph, pending.event)
        /\ entry.event = pending.event
    OBVIOUS
  <2> HIDE DEF entry
  <2>3. log \in Seq(LogEntry) /\ graph.revision \in Nat
    BY DEF TypeOK, Graph
  <2>4. /\ DOMAIN log' = 1..last /\ DOMAIN log = 1..(last-1) /\ last \in Nat \ {0}
        /\ Len(log') = last /\ Len(log) = last - 1
        /\ log'[last] = entry
        /\ \A i \in DOMAIN log : log'[i] = log[i]
    BY <2>1, <2>3
  <2> HIDE DEF last
  <2>5. graph.revision = IF last - 1 = 0 THEN 0 ELSE log[last-1].revision
    BY <2>4 DEF RevisionsAccountedFor
  <2>6. entry.revision = graph.revision
          + (IF entry.event.kind = "patch-rejected" THEN 0 ELSE 1)
    BY <2>2, <2>3 DEF RevisionAfter
  <2>7. ASSUME NEW i \in DOMAIN log'
        PROVE  log'[i].revision = (IF i - 1 = 0 THEN 0 ELSE log'[i-1].revision)
                 + (IF log'[i].event.kind = "patch-rejected" THEN 0 ELSE 1)
    <3>1. CASE i = last
      <4>1. i - 1 # 0 => log'[i-1] = log[i-1]
        BY <2>4, <3>1
      <4> QED BY <2>4, <2>5, <2>6, <3>1, <4>1
    <3>2. CASE i # last
      <4>1. i \in DOMAIN log /\ (i - 1 # 0 => i - 1 \in DOMAIN log)
        BY <2>4, <3>2
      <4>2. log[i].revision = (IF i - 1 = 0 THEN 0 ELSE log[i-1].revision)
              + (IF log[i].event.kind = "patch-rejected" THEN 0 ELSE 1)
        BY <4>1 DEF RevisionsAccountedFor
      <4> QED BY <2>4, <4>1, <4>2
    <3> QED BY <3>1, <3>2
  <2>8. graph'.revision = IF Len(log') = 0 THEN 0 ELSE log'[Len(log')].revision
    BY <2>1, <2>2, <2>4
  <2> QED BY <2>7, <2>8 DEF RevisionsAccountedFor
<1>4. Next => Project \/ Commit \/ (graph'.revision = graph.revision /\ UNCHANGED log)
  BY DEF Next, AppendEvent, AppendDuplicate, Begin, Abort, ReadGraph, ProposePatch
<1> QED BY <1>1, <1>2, <1>3, <1>4 DEF vars

\* Rejections leave the revision alone, every other entry adds one to it, and
\* the live graph is at the revision of the last entry, torn or not.
THEOREM EveryRevisionAccountedFor == Spec => []RevisionsAccountedFor
<1>1. Init => RevisionsAccountedFor
  BY DEF Init, EmptyGraph, RevisionsAccountedFor
<1>2. TypeOK /\ TypeOK' /\ RevisionsAccountedFor /\ [Next]_vars => RevisionsAccountedFor'
  BY RevisionsStep
<1> QED BY <1>1, <1>2, TypeCorrect, PTL DEF Spec

-----------------------------------------------------------------------------
(* Patches and the SDDK namespace.                                          *)

\* Inductive: what is left to run of a proposed patch is operations that the
\* graph as it is now does not put under SDDK governance.
SddkInv ==
  (pending # Idle /\ pending.route = "patch") =>
    \A i \in DOMAIN pending.steps :
      IsOperation(pending.steps[i]) /\ ~GovernedBySddk(graph, pending.steps[i])

\* One ungoverned operation against one graph.
OwnershipKept(g, h) ==
  /\ \A s \in Subjects : SddkOwned(g, s) <=> SddkOwned(h, s)
  /\ \A s \in Subjects : SddkOwned(g, s) => Stated(h, s) = Stated(g, s)
  /\ \A r \in h.relations \ g.relations :
       r.authority = "authoritative" => {r.from, r.to} \cap SddkSubjects = {}

LEMMA UngovernedSubject ==
  ASSUME NEW g \in Graph, NEW st \in SubjectStep, NEW seq \in Nat,
         StepOk(g, st), IsOperation(st), ~GovernedBySddk(g, st)
  PROVE  OwnershipKept(g, StepEffect(g, st, seq))
<1> DEFINE n == NodeAfter(g.subjects[st.subject], st, seq)
           h == [g EXCEPT !.subjects[st.subject] = n]
<1>1. /\ st.subject \in Subjects /\ st.op \in {"upsert", "retire"}
      /\ st.op = "retire" => st.needs = {st.subject}
      /\ g.subjects[st.subject] \in Node \cup {NoNode}
  BY StepKinds DEF SubjectStep, IsOperation, IsRelationStep, Graph
<1>2. StepEffect(g, st, seq) = h
  BY <1>1 DEF StepEffect
<1>3. /\ n \in Node /\ n # NoNode
      /\ Exists(g, st.subject) => n.authority = g.subjects[st.subject].authority
      /\ ~Exists(g, st.subject) => n.authority = st.authority
  BY <1>1, NodeAfterType, AbsentIsNoNode DEF Exists
<1> HIDE DEF n
<1>4. /\ h.relations = g.relations
      /\ \A s \in Subjects : h.subjects[s] = IF s = st.subject THEN n ELSE g.subjects[s]
  BY <1>1 DEF Graph
<1>5. ~SddkOwned(g, st.subject)
  BY <1>1 DEF GovernedBySddk
<1>6. ~Exists(g, st.subject) =>
        ~(st.subject \in SddkSubjects /\ st.authority = "authoritative")
  <2>1. CASE st.op = "upsert"
    BY <2>1 DEF GovernedBySddk
  <2>2. CASE st.op = "retire"
    BY <1>1, <2>2 DEF StepOk
  <2> QED BY <1>1, <2>1, <2>2
<1> HIDE DEF h
<1>7. ~SddkOwned(h, st.subject)
  BY <1>1, <1>3, <1>4, <1>5, <1>6 DEF SddkOwned, Exists
<1>8. \A s \in Subjects : s # st.subject =>
        (SddkOwned(g, s) <=> SddkOwned(h, s)) /\ Stated(h, s) = Stated(g, s)
  BY <1>4 DEF SddkOwned, Exists, Stated
<1> QED BY <1>2, <1>4, <1>5, <1>7, <1>8 DEF OwnershipKept

LEMMA UngovernedRelation ==
  ASSUME NEW g \in Graph, NEW st \in RelationStep, NEW seq \in Nat,
         IsOperation(st), ~GovernedBySddk(g, st)
  PROVE  OwnershipKept(g, StepEffect(g, st, seq))
<1> DEFINE ends == {st.fact.from, st.fact.to}
           h == [g EXCEPT !.relations = @ \cup {st.fact}, !.subjects = Touch(g, ends, seq)]
<1>1. st.op = "declare" /\ st.fact \in RelationFact /\ ends \in SUBSET Subjects
  BY StepKinds DEF IsOperation, RelationStep, RelationFact, SubjectStep
<1>2. StepEffect(g, st, seq) = h
  BY <1>1 DEF StepEffect
<1>3. h.relations = g.relations \cup {st.fact} /\ h.subjects = Touch(g, ends, seq)
  BY DEF Graph
<1>4. st.fact.authority = "authoritative" => ends \cap SddkSubjects = {}
  BY <1>1 DEF GovernedBySddk
<1> HIDE DEF h
<1>5. ASSUME NEW s \in Subjects
      PROVE  /\ SddkOwned(g, s) <=> SddkOwned(h, s)
             /\ SddkOwned(g, s) => Stated(h, s) = Stated(g, s)
  <2>1. Exists(h, s) <=> Exists(g, s)
    BY <1>1, <1>3, TouchType DEF Exists
  <2>2. Exists(g, s) => /\ h.subjects[s].authority = g.subjects[s].authority
                        /\ Stated(h, s) = Stated(g, s)
    BY <1>1, <1>3, TouchKeeps
  <2> QED BY <2>1, <2>2 DEF SddkOwned
<1> QED BY <1>2, <1>3, <1>4, <1>5 DEF OwnershipKept

LEMMA SameGovernance ==
  ASSUME NEW g, NEW h, NEW op \in Step, OwnershipKept(g, h), IsOperation(op),
         ~GovernedBySddk(g, op)
  PROVE  ~GovernedBySddk(h, op)
<1>1. CASE op \in SubjectStep
  <2>1. op.subject \in Subjects /\ op.op \in {"upsert", "retire"}
    BY <1>1, StepKinds DEF SubjectStep, IsOperation, IsRelationStep
  <2>2. SddkOwned(g, op.subject) <=> SddkOwned(h, op.subject)
    BY <2>1 DEF OwnershipKept
  <2>3. CASE op.op = "upsert"
    BY <2>2, <2>3 DEF GovernedBySddk
  <2>4. CASE op.op = "retire"
    BY <2>2, <2>4 DEF GovernedBySddk
  <2> QED BY <2>1, <2>3, <2>4
<1>2. CASE op \in RelationStep
  <2>1. /\ op.fact.from \in Subjects /\ op.fact.to \in Subjects
        /\ op.op \in {"relate", "link", "declare"}
    BY <1>2 DEF RelationStep, RelationFact
  <2>2. \A s \in {op.fact.from, op.fact.to} : SddkOwned(g, s) <=> SddkOwned(h, s)
    BY <2>1 DEF OwnershipKept
  <2> QED BY <2>1, <2>2 DEF GovernedBySddk
<1> QED BY <1>1, <1>2 DEF Step

LEMMA ProjectUngoverned ==
  ASSUME TypeOK, SddkInv, Project, pending.route = "patch"
  PROVE  OwnershipKept(graph, graph')
<1>1. /\ Head(pending.steps) \in Step /\ Len(log) \in Nat /\ pending \in Pending
  BY ProjectType
<1>2. Head(pending.steps) = pending.steps[1] /\ 1 \in DOMAIN pending.steps
  BY <1>1, Popped DEF Pending, Project
<1>3. /\ IsOperation(Head(pending.steps))
      /\ ~GovernedBySddk(graph, Head(pending.steps))
  BY <1>2 DEF SddkInv, Project
<1>4. /\ graph' = StepEffect(graph, Head(pending.steps), Len(log))
      /\ StepOk(graph, Head(pending.steps)) /\ graph \in Graph
  BY DEF Project, TypeOK
<1> QED BY <1>1, <1>3, <1>4, UngovernedSubject, UngovernedRelation DEF Step

LEMMA SddkStep ==
  ASSUME TypeOK, TypeOK', SddkInv, [Next]_vars
  PROVE  SddkInv'
<1>1. ASSUME NEW e \in Events, AppendEvent(e) PROVE SddkInv'
  <2>1. pending'.route = "append"
    BY <1>1 DEF AppendEvent, Begin
  <2> QED BY <2>1 DEF SddkInv
<1>2. ASSUME NEW e \in Events, AppendDuplicate(e) PROVE SddkInv'
  BY <1>2 DEF AppendDuplicate, SddkInv
<1>3. CASE Project
  <2>1. /\ pending \in Pending /\ pending # Idle
        /\ pending' = [pending EXCEPT !.steps = Tail(@)]
    BY <1>3, ProjectType DEF Project
  <2>2. /\ pending'.route = pending.route /\ pending'.steps = Tail(pending.steps)
        /\ pending.steps \in Seq(Step) /\ pending.steps # << >>
    BY <1>3, <2>1 DEF Pending, Project
  <2>3. ASSUME pending.route = "patch", NEW i \in DOMAIN pending'.steps
        PROVE  IsOperation(pending'.steps[i]) /\ ~GovernedBySddk(graph', pending'.steps[i])
    <3>1. i + 1 \in DOMAIN pending.steps /\ pending'.steps[i] = pending.steps[i+1]
      BY <2>2, <2>3, Popped
    <3>2. /\ IsOperation(pending.steps[i+1]) /\ pending.steps[i+1] \in Step
          /\ ~GovernedBySddk(graph, pending.steps[i+1])
      BY <2>1, <2>2, <2>3, <3>1 DEF SddkInv
    <3>3. OwnershipKept(graph, graph')
      BY <1>3, <2>3, ProjectUngoverned
    <3> QED BY <3>1, <3>2, <3>3, SameGovernance
  <2> QED BY <2>2, <2>3 DEF SddkInv
<1>4. CASE Abort
  BY <1>4 DEF Abort, SddkInv
<1>5. CASE Commit
  BY <1>5 DEF Commit, SddkInv
<1>6. ASSUME NEW c \in Clients, ReadGraph(c) PROVE SddkInv'
  BY <1>6 DEF ReadGraph, SddkInv
<1>7. ASSUME NEW c \in Clients, NEW ops \in Patches, ProposePatch(c, ops)
      PROVE  SddkInv'
  <2>1. pending'.steps = Steps(pending'.event) /\ UNCHANGED graph
    BY <1>7, Proposed
  <2>2. CASE pending'.event.kind = "patch-rejected"
    <3>1. pending'.steps = << >>
      BY <2>1, <2>2 DEF Steps, WorldSteps
    <3> QED BY <3>1 DEF SddkInv
  <2>3. CASE /\ pending'.event.kind = "patch-applied" /\ pending'.event.ops = ops
             /\ Valid(graph, seen[c].revision, ops)
    <3>1. pending'.steps = ops
      BY <2>1, <2>3 DEF Steps, WorldSteps
    <3>2. \A i \in DOMAIN ops : IsOperation(ops[i])
      BY ConstantsAssumption
    <3>3. \A i \in DOMAIN ops : ~GovernedBySddk(graph, ops[i])
      BY <2>3 DEF Valid, OpRejection
    <3> QED BY <2>1, <3>1, <3>2, <3>3 DEF SddkInv
  <2> QED BY <1>7, <2>2, <2>3, Proposed
<1>8. CASE UNCHANGED vars
  BY <1>8 DEF vars, SddkInv
<1> QED BY <1>1, <1>2, <1>3, <1>4, <1>5, <1>6, <1>7, <1>8 DEF Next

LEMMA PatchStep ==
  ASSUME TypeOK, SddkInv, Next, pending # Idle, pending.route = "patch"
  PROVE  OwnershipKept(graph, graph')
<1>1. CASE Project
  BY <1>1, ProjectUngoverned
<1>2. CASE ~Project
  <2>1. graph' = graph \/ Commit
    BY <1>2 DEF Next, AppendEvent, AppendDuplicate, Begin, Abort, ReadGraph, ProposePatch
  <2>2. graph'.relations = graph.relations /\ graph'.subjects = graph.subjects
    BY <2>1 DEF Commit, TypeOK, Graph
  <2> QED BY <2>2 DEF OwnershipKept, SddkOwned, Exists, Stated
<1> QED BY <1>1, <1>2

\* A patch that passed validation, whole or cut short, never touches what SDDK
\* owns: validating against the graph before the patch is enough, because no
\* operation it lets through changes what SDDK owns.
THEOREM PatchesRespectSddk == Spec => PatchRespectsSddk
<1>1. Init => SddkInv
  BY DEF Init, SddkInv
<1>2. TypeOK /\ TypeOK' /\ SddkInv /\ [Next]_vars => SddkInv'
  BY SddkStep
<1>3. TypeOK /\ SddkInv /\ [Next]_vars =>
        [(pending # Idle /\ pending.route = "patch") =>
           /\ \A s \in Subjects : SddkOwned(graph, s) <=> SddkOwned(graph', s)
           /\ \A s \in Subjects : SddkOwned(graph, s) => Stated(graph', s) = Stated(graph, s)
           /\ \A r \in graph'.relations \ graph.relations :
                r.authority = "authoritative" => {r.from, r.to} \cap SddkSubjects = {}]_vars
  BY PatchStep DEF OwnershipKept
<1> QED BY <1>1, <1>2, <1>3, TypeCorrect, PTL DEF Spec, PatchRespectsSddk

-----------------------------------------------------------------------------
(* Replaying, one entry at a time.                                          *)

\* What the first entries replay to does not depend on those that follow.
LEMMA ReplaysAgree ==
  ASSUME NEW s, NEW t, Len(s) \in Nat, Len(t) \in Nat, NEW N \in Nat,
         N <= Len(s), N <= Len(t), \A i \in 1..N : s[i] = t[i]
  PROVE  \A n \in 0..N : Replays(s)[n] = Replays(t)[n]
<1> DEFINE S == {n \in Nat : n <= N => Replays(s)[n] = Replays(t)[n]}
<1>1. 0 \in S
  BY ReplaysUnfold
<1>2. ASSUME NEW n \in S PROVE n + 1 \in S
  <2> SUFFICES ASSUME n + 1 <= N PROVE Replays(s)[n+1] = Replays(t)[n+1]
    OBVIOUS
  <2>1. n + 1 \in 1..N /\ n + 1 \in 1..Len(s) /\ n + 1 \in 1..Len(t) /\ n <= N
        /\ (n + 1) - 1 = n
    OBVIOUS
  <2>2. s[n+1] = t[n+1] /\ Replays(s)[n] = Replays(t)[n]
    BY <2>1
  <2>3. /\ Replays(s)[n+1] = ApplyEvent(Replays(s)[n], s[n+1].event, n)
        /\ Replays(t)[n+1] = ApplyEvent(Replays(t)[n], t[n+1].event, n)
    BY <2>1, ReplaysUnfold
  <2> QED BY <2>2, <2>3
<1> HIDE DEF S
<1>3. \A n \in Nat : n \in S
  BY <1>1, <1>2, Induction DEF S
<1> QED BY <1>3 DEF S

\* Cutting the log short.
LEMMA ReplayedPrefix ==
  ASSUME NEW T, NEW s \in Seq(T), NEW m \in 0..Len(s)
  PROVE  Replayed(SubSeq(s, 1, m)) = Replays(s)[m]
<1> DEFINE t == SubSeq(s, 1, m)
<1>1. Len(t) = m /\ m \in Nat /\ Len(s) \in Nat /\ m <= Len(s)
  OBVIOUS
<1>2. ASSUME NEW i \in 1..m PROVE t[i] = s[i]
  OBVIOUS
<1> HIDE DEF t
<1>3. Replays(t)[m] = Replays(s)[m]
  BY <1>1, <1>2, ReplaysAgree
<1> QED BY <1>1, <1>3 DEF Replayed, t

\* Adding an entry.
LEMMA ReplaysAppend ==
  ASSUME NEW T, NEW s \in Seq(T), NEW e
  PROVE  /\ \A n \in 0..Len(s) : Replays(Append(s, e))[n] = Replays(s)[n]
         /\ Replayed(Append(s, e)) = ApplyEvent(Replayed(s), e.event, Len(s))
<1> DEFINE t == Append(s, e)
<1>1. /\ Len(s) \in Nat /\ Len(t) = Len(s) + 1 /\ t[Len(s) + 1] = e
      /\ \A i \in 1..Len(s) : t[i] = s[i]
  OBVIOUS
<1> HIDE DEF t
<1>2. \A n \in 0..Len(s) : Replays(t)[n] = Replays(s)[n]
  BY <1>1, ReplaysAgree
<1>3. Replays(t)[Len(s) + 1] = ApplyEvent(Replays(t)[Len(s)], e.event, Len(s))
  <2>1. Len(t) \in 1..Len(t) /\ Len(t) - 1 = Len(s) /\ Len(t) \in Nat /\ t[Len(t)] = e
    BY <1>1
  <2>2. Replays(t)[Len(t)] = ApplyEvent(Replays(t)[Len(t) - 1], t[Len(t)].event, Len(t) - 1)
    BY <2>1, ReplaysUnfold
  <2> QED BY <1>1, <2>1, <2>2
<1> QED BY <1>1, <1>2, <1>3 DEF t, Replayed

-----------------------------------------------------------------------------
(* A log whose revisions are accounted for, replayed.                       *)

RevisionAt(i) == IF i = 0 THEN 0 ELSE log[i].revision

\* The hypotheses under which the log is replayed: what RevisionsAccountedFor
\* says of it, and that its events were well formed when they were submitted.
Accounted ==
  /\ log \in Seq(LogEntry)
  /\ \A i \in DOMAIN log : WellFormed(log[i].event)
  /\ \A i \in DOMAIN log :
       log[i].revision = RevisionAt(i-1) + Bump(log[i].event)

LEMMA RevisionAtType ==
  ASSUME Accounted
  PROVE  \A i \in 0..Len(log) : RevisionAt(i) \in Nat
<1>1. ASSUME NEW i \in 0..Len(log), i # 0 PROVE log[i] \in LogEntry
  BY <1>1 DEF Accounted
<1> QED BY <1>1 DEF LogEntry, RevisionAt

\* Every prefix replays to a graph, at its own revision if it replays at all.
LEMMA ReplaysTyped ==
  ASSUME Accounted
  PROVE  \A n \in 0..Len(log) :
           /\ Replays(log)[n] \in Result
           /\ Replays(log)[n].ok => Replays(log)[n].graph.revision = RevisionAt(n)
<1> DEFINE R(n) == Replays(log)[n]
           P(n) == R(n) \in Result /\ (R(n).ok => R(n).graph.revision = RevisionAt(n))
           S == {n \in Nat : n <= Len(log) => P(n)}
<1>0. Len(log) \in Nat
  BY DEF Accounted
<1>1. 0 \in S
  <2>1. R(0) = Ran(TRUE, EmptyGraph)
    BY <1>0, ReplaysUnfold
  <2>2. EmptyGraph \in Graph /\ EmptyGraph.revision = 0
    BY DEF EmptyGraph, Graph
  <2>3. Ran(TRUE, EmptyGraph) \in Result /\ Ran(TRUE, EmptyGraph).graph = EmptyGraph
    BY <2>2 DEF Ran, Result
  <2> QED BY <2>1, <2>2, <2>3 DEF RevisionAt
<1>2. ASSUME NEW n \in S PROVE n + 1 \in S
  <2> SUFFICES ASSUME n + 1 <= Len(log) PROVE P(n+1)
    OBVIOUS
  <2>1. n + 1 \in 1..Len(log) /\ n + 1 \in DOMAIN log /\ (n + 1) - 1 = n
        /\ n \in Nat /\ n <= Len(log) /\ n + 1 # 0
    BY <1>0 DEF Accounted
  <2>2. P(n)
    BY <2>1
  <2>3. R(n+1) = ApplyEvent(R(n), log[n+1].event, n)
    <3>1. R(n+1) = ApplyEvent(R((n+1) - 1), log[n+1].event, (n+1) - 1)
      BY <1>0, <2>1, ReplaysUnfold
    <3> QED BY <2>1, <3>1
  <2>4. RevisionAt(n+1) = RevisionAt(n) + Bump(log[n+1].event)
        /\ WellFormed(log[n+1].event)
    <3>1. log[n+1].revision = RevisionAt((n+1) - 1) + Bump(log[n+1].event)
          /\ WellFormed(log[n+1].event)
      BY <2>1 DEF Accounted
    <3>2. RevisionAt(n+1) = log[n+1].revision
      BY <2>1 DEF RevisionAt
    <3> QED BY <2>1, <3>1, <3>2
  <2> HIDE DEF R
  <2>5. /\ R(n+1) \in Result
        /\ R(n+1).ok => R(n).ok /\ R(n+1).graph.revision
                                     = R(n).graph.revision + Bump(log[n+1].event)
    BY <2>1, <2>2, <2>3, <2>4, EventApplied
  <2> QED BY <2>2, <2>4, <2>5
<1> HIDE DEF S
<1>3. \A n \in Nat : n \in S
  BY <1>1, <1>2, Induction DEF S
<1> QED BY <1>3 DEF S

\* One more entry of the log.
LEMMA NextEntry ==
  ASSUME Accounted, NEW n \in 0..Len(log), n < Len(log)
  PROVE  /\ n + 1 \in 0..Len(log) /\ n + 1 \in DOMAIN log
         /\ RevisionAt(n) \in Nat /\ RevisionAt(n+1) \in Nat
         /\ RevisionAt(n+1) = RevisionAt(n) + Bump(log[n+1].event)
         /\ WellFormed(log[n+1].event)
         /\ Replays(log)[n+1] = ApplyEvent(Replays(log)[n], log[n+1].event, n)
<1>1. /\ Len(log) \in Nat /\ n + 1 \in 1..Len(log) /\ n + 1 \in DOMAIN log
      /\ (n + 1) - 1 = n /\ n + 1 # 0 /\ n + 1 \in 0..Len(log)
  BY DEF Accounted
<1>2. RevisionAt(n) \in Nat /\ RevisionAt(n+1) \in Nat
  BY <1>1, RevisionAtType
<1>3. Replays(log)[n+1] = ApplyEvent(Replays(log)[(n+1) - 1], log[n+1].event, (n+1) - 1)
  BY <1>1, ReplaysUnfold
<1>4. log[n+1].revision = RevisionAt((n+1) - 1) + Bump(log[n+1].event)
      /\ WellFormed(log[n+1].event)
  BY <1>1 DEF Accounted
<1>5. RevisionAt(n+1) = log[n+1].revision
  BY <1>1 DEF RevisionAt
<1> QED BY <1>1, <1>2, <1>3, <1>4, <1>5

LEMMA RevisionsGrow ==
  ASSUME Accounted, NEW i \in 0..Len(log)
  PROVE  \A j \in i..Len(log) : RevisionAt(i) <= RevisionAt(j)
<1> DEFINE S == {d \in Nat : i + d <= Len(log) => RevisionAt(i) <= RevisionAt(i+d)}
<1>0. i \in Nat /\ Len(log) \in Nat /\ RevisionAt(i) \in Nat
  BY RevisionAtType DEF Accounted
<1>1. 0 \in S
  BY <1>0
<1>2. ASSUME NEW d \in S PROVE d + 1 \in S
  <2> SUFFICES ASSUME i + (d + 1) <= Len(log)
               PROVE  RevisionAt(i) <= RevisionAt(i + (d + 1))
    OBVIOUS
  <2>1. PICK n \in 0..Len(log) : n = i + d /\ n < Len(log) /\ n + 1 = i + (d + 1)
    BY <1>0
  <2>2. RevisionAt(n+1) = RevisionAt(n) + Bump(log[n+1].event) /\ RevisionAt(n) \in Nat
    BY <2>1, NextEntry
  <2>3. RevisionAt(i) <= RevisionAt(n)
    BY <1>0, <2>1
  <2> HIDE DEF S
  <2> QED BY <1>0, <2>1, <2>2, <2>3 DEF Bump
<1> HIDE DEF S
<1>3. \A d \in Nat : d \in S
  BY <1>1, <1>2, Induction DEF S
<1> SUFFICES ASSUME NEW j \in i..Len(log) PROVE RevisionAt(i) <= RevisionAt(j)
  OBVIOUS
<1>4. PICK d \in Nat : j = i + d
  <2>1. j - i \in Nat /\ j = i + (j - i)
    BY <1>0
  <2> QED BY <2>1
<1>5. d \in S
  BY <1>3
<1> QED BY <1>4, <1>5 DEF S

\* Entries that share a revision are rejections but for the first of them, so
\* they replay to the same graph.
LEMMA SameRevisionSameGraph ==
  ASSUME Accounted, NEW k \in 0..Len(log), NEW m \in k..Len(log),
         RevisionAt(m) = RevisionAt(k)
  PROVE  Replays(log)[m] = Replays(log)[k]
<1> DEFINE S == {d \in Nat : k + d <= m => Replays(log)[k+d] = Replays(log)[k]}
<1>0. k \in Nat /\ m \in Nat /\ Len(log) \in Nat /\ k <= m /\ m <= Len(log)
      /\ RevisionAt(k) \in Nat
  BY RevisionAtType DEF Accounted
<1>1. 0 \in S
  BY <1>0
<1>2. ASSUME NEW d \in S PROVE d + 1 \in S
  <2> SUFFICES ASSUME k + (d + 1) <= m
               PROVE  Replays(log)[k + (d + 1)] = Replays(log)[k]
    OBVIOUS
  <2>1. PICK n \in 0..Len(log) : /\ n = k + d /\ n < Len(log) /\ n + 1 = k + (d + 1)
                                 /\ n \in k..Len(log) /\ n \in Nat
                                 /\ n + 1 \in 0..Len(log) /\ m \in (n+1)..Len(log)
    BY <1>0
  <2>2. Replays(log)[n] = Replays(log)[k]
    BY <1>0, <2>1
  <2> HIDE DEF S
  <2>3. /\ RevisionAt(n+1) = RevisionAt(n) + Bump(log[n+1].event) /\ RevisionAt(n) \in Nat
        /\ WellFormed(log[n+1].event) /\ RevisionAt(n+1) \in Nat
        /\ Replays(log)[n+1] = ApplyEvent(Replays(log)[n], log[n+1].event, n)
    BY <2>1, NextEntry
  <2>4. RevisionAt(k) <= RevisionAt(n) /\ RevisionAt(n+1) <= RevisionAt(m)
    BY <2>1, RevisionsGrow
  <2>5. Bump(log[n+1].event) = 0
    BY <1>0, <2>3, <2>4 DEF Bump
  <2>6. log[n+1].event.kind = "patch-rejected"
    BY <2>5 DEF Bump
  <2>7. Replays(log)[n] \in Result
    BY <2>1, ReplaysTyped
  <2>8. Replays(log)[n+1] = Replays(log)[n]
    BY <2>1, <2>3, <2>6, <2>7, EventApplied
  <2> QED BY <2>1, <2>2, <2>8
<1> HIDE DEF S
<1>3. \A d \in Nat : d \in S
  BY <1>1, <1>2, Induction DEF S
<1>4. PICK d \in Nat : m = k + d
  <2>1. m - k \in Nat /\ m = k + (m - k)
    BY <1>0
  <2> QED BY <2>1
<1>5. d \in S
  BY <1>3
<1> QED BY <1>0, <1>4, <1>5 DEF S

\* Prefix cuts the log behind the last entry at or below a revision.
LEMMA PrefixCut ==
  ASSUME Accounted, NEW n \in Nat
  PROVE  \E m \in 0..Len(log) :
           /\ GraphAtRevision(n) = Replays(log)[m]
           /\ RevisionAt(m) <= n
           /\ m = Len(log) \/ RevisionAt(m+1) > n
<1> DEFINE above == {i \in DOMAIN log : log[i].revision > n}
<1>0. log \in Seq(LogEntry) /\ Len(log) \in Nat
  BY DEF Accounted
<1>1. CASE above = {}
  <2>1. Prefix(n) = log
    BY <1>1 DEF Prefix
  <2>2. RevisionAt(Len(log)) <= n
    <3>1. RevisionAt(Len(log)) \in Nat
      BY <1>0, RevisionAtType
    <3>2. Len(log) # 0 => Len(log) \in DOMAIN log
      BY <1>0
    <3> QED BY <1>1, <3>1, <3>2 DEF RevisionAt
  <2> QED BY <1>0, <2>1, <2>2 DEF GraphAtRevision, Replayed
<1>2. CASE above # {}
  <2>1. \E i \in above : \A j \in above : i <= j
    <3>1. above \in SUBSET Nat
      BY <1>0
    <3>2. PICK i \in above : \A j \in above : ~(j < i)
      BY <1>2, <3>1, Least
    <3>3. \A j \in above : i <= j
      BY <3>1, <3>2
    <3> QED BY <3>3
  <2> DEFINE first == CHOOSE i \in above : \A j \in above : i <= j
             m == first - 1
  <2>2. first \in above /\ \A j \in above : first <= j
    BY <2>1
  <2>3. Prefix(n) = SubSeq(log, 1, m)
    BY <1>2 DEF Prefix
  <2> HIDE DEF first
  <2>4. /\ m \in 0..Len(log) /\ m + 1 = first /\ first \in DOMAIN log /\ first # 0
        /\ log[first].revision > n
    BY <1>0, <2>2
  <2>5. RevisionAt(m) <= n
    <3>1. RevisionAt(m) \in Nat
      BY <2>4, RevisionAtType
    <3>2. m # 0 => m \in DOMAIN log /\ m \notin above
      BY <1>0, <2>2, <2>4
    <3> HIDE DEF m
    <3> QED BY <3>1, <3>2 DEF RevisionAt
  <2>6. GraphAtRevision(n) = Replays(log)[m]
    BY <1>0, <2>3, <2>4, ReplayedPrefix DEF GraphAtRevision
  <2>7. RevisionAt(m+1) > n
    BY <2>4 DEF RevisionAt
  <2> QED BY <2>4, <2>5, <2>6, <2>7
<1> QED BY <1>1, <1>2

-----------------------------------------------------------------------------
(* What the live graph owes to the log, in the middle of an append too.     *)

\* The first k steps of the event being appended have run, on the graph the
\* append found, and gave the live graph; the others are still to run.
RunSoFar(k) ==
  LET steps == Steps(pending.event)
  IN /\ Len(pending.steps) = Len(steps) - k
     /\ \A i \in DOMAIN pending.steps : pending.steps[i] = steps[k+i]
     /\ StepRuns(pending.start, steps, Len(log))[k] = Ran(TRUE, graph)

\* Inductive: the log replays to the settled graph and some prefix of it to
\* each graph a client has read, unless an append tore; the append under way
\* is a prefix of its event's projection.
ReplayInv ==
  /\ \A i \in DOMAIN log : WellFormed(log[i].event)
  /\ pending # Idle =>
       /\ WellFormed(pending.event)
       /\ \E k \in 0..Len(Steps(pending.event)) : RunSoFar(k)
  /\ torn = {} =>
       /\ Replayed(log) = Ran(TRUE, Settled)
       /\ \A c \in Clients : \E k \in 0..Len(log) : Replays(log)[k] = Ran(TRUE, seen[c])

LEMMA EventSteps ==
  ASSUME NEW e, WellFormed(e)
  PROVE  Steps(e) \in Seq(Step) /\ Len(Steps(e)) \in Nat
<1>1. Steps(e) \in Seq(Step)
  BY StepsGrounded DEF GroundedSteps
<1> QED BY <1>1

LEMMA ReplayBegin ==
  ASSUME ReplayInv, pending = Idle, pending' \in Pending, NEW e, WellFormed(e),
         pending'.event = e, pending'.steps = Steps(e), pending'.start = graph,
         UNCHANGED <<log, graph, seen, torn>>
  PROVE  ReplayInv'
<1>1. Len(Steps(e)) \in Nat /\ DOMAIN Steps(e) \subseteq Nat
  BY EventSteps
<1>2. Settled' = Settled
  BY NotIdle DEF Settled
<1>3. RunSoFar(0)'
  <2>1. StepRuns(graph, Steps(e), Len(log))[0] = Ran(TRUE, graph)
    BY <1>1, StepRunsUnfold
  <2>2. /\ Len(Steps(e)) = Len(Steps(e)) - 0
        /\ \A i \in DOMAIN Steps(e) : Steps(e)[i] = Steps(e)[0+i]
    BY <1>1
  <2> QED BY <2>1, <2>2 DEF RunSoFar
<1>4. 0 \in 0..Len(Steps(e))
  BY <1>1
<1> QED BY <1>2, <1>3, <1>4 DEF ReplayInv

LEMMA ReplayProject ==
  ASSUME TypeOK, ReplayInv, Project
  PROVE  ReplayInv'
<1> DEFINE steps == Steps(pending.event)
           st == Head(pending.steps)
<1>1. /\ pending \in Pending /\ pending' \in Pending /\ pending # Idle /\ pending' # Idle
      /\ pending' = [pending EXCEPT !.steps = Tail(@)]
      /\ UNCHANGED <<log, seen, torn>>
  BY ProjectType, NotIdle DEF Project
<1>2. /\ pending.steps \in Seq(Step) /\ pending.steps # << >>
      /\ pending'.steps = Tail(pending.steps)
      /\ pending'.event = pending.event /\ pending'.start = pending.start
  BY <1>1 DEF Pending, Project
<1>3. PICK k \in 0..Len(steps) : RunSoFar(k)
  BY <1>1 DEF ReplayInv
<1>4. /\ Len(pending.steps) = Len(steps) - k
      /\ \A i \in DOMAIN pending.steps : pending.steps[i] = steps[k+i]
      /\ StepRuns(pending.start, steps, Len(log))[k] = Ran(TRUE, graph)
  BY <1>3 DEF RunSoFar
<1>5. steps \in Seq(Step) /\ Len(steps) \in Nat /\ WellFormed(pending.event)
  BY <1>1, EventSteps DEF ReplayInv
<1>6. st = pending.steps[1] /\ 1 \in DOMAIN pending.steps
  BY <1>2, Popped
<1> HIDE DEF steps
<1>7. st = steps[k+1] /\ k + 1 \in 1..Len(steps) /\ k + 1 \in 0..Len(steps) /\ (k+1) - 1 = k
  BY <1>2, <1>4, <1>5, <1>6
<1> HIDE DEF st
<1>8. StepRuns(pending.start, steps, Len(log))[k+1] = Ran(TRUE, graph')
  <2>1. StepRuns(pending.start, steps, Len(log))[k+1] = RunStep(Ran(TRUE, graph), st, Len(log))
    <3>1. ASSUME NEW g, NEW seq, NEW n \in 1..Len(steps)
          PROVE  StepRuns(g, steps, seq)[n]
                   = RunStep(StepRuns(g, steps, seq)[n-1], steps[n], seq)
      <4>1. Len(steps) \in Nat
        BY <1>5
      <4> QED BY <4>1, StepRunsUnfold
    <3>2. StepRuns(pending.start, steps, Len(log))[k+1]
            = RunStep(StepRuns(pending.start, steps, Len(log))[(k+1)-1], steps[k+1], Len(log))
      BY <1>7, <3>1
    <3> QED BY <1>4, <1>7, <3>2
  <2>2. StepOk(graph, st) /\ graph' = StepEffect(graph, st, Len(log))
    BY DEF Project, st
  <2> QED BY <2>1, <2>2 DEF RunStep, Ran
<1>9. Len(pending'.steps) = Len(steps) - (k+1)
  BY <1>2, <1>4, <1>5
<1>10. ASSUME NEW i \in DOMAIN pending'.steps
       PROVE  pending'.steps[i] = steps[(k+1)+i]
  <2>1. i + 1 \in DOMAIN pending.steps /\ pending'.steps[i] = pending.steps[i+1]
    BY <1>2, Popped
  <2>2. i \in Nat /\ k + (i + 1) = (k + 1) + i
    BY <1>2, <1>5
  <2> QED BY <1>4, <2>1, <2>2
<1>11. RunSoFar(k+1)'
  BY <1>1, <1>2, <1>8, <1>9, <1>10 DEF RunSoFar, steps
<1>12. Settled' = Settled
  BY <1>1, <1>2 DEF Settled
<1> QED BY <1>1, <1>2, <1>5, <1>7, <1>11, <1>12 DEF ReplayInv, steps

\* The event that is committed replays to the graph its steps have made.
LEMMA CommitApplies ==
  ASSUME TypeOK, ReplayInv, Commit
  PROVE  ApplyEvent(Ran(TRUE, pending.start), pending.event, Len(log)) = Ran(TRUE, graph')
<1> DEFINE steps == Steps(pending.event)
<1>1. pending # Idle /\ pending.steps = << >>
  BY DEF Commit
<1>2. PICK k \in 0..Len(steps) : RunSoFar(k)
  BY <1>1 DEF ReplayInv
<1>3. steps \in Seq(Step) /\ Len(steps) \in Nat
  BY <1>1, EventSteps DEF ReplayInv
<1>4. /\ Len(pending.steps) = Len(steps) - k
      /\ StepRuns(pending.start, steps, Len(log))[k] = Ran(TRUE, graph)
  BY <1>2 DEF RunSoFar
<1>5. k = Len(steps)
  BY <1>1, <1>3, <1>4
<1>6. RunSteps(pending.start, steps, Len(log)) = Ran(TRUE, graph)
  BY <1>4, <1>5 DEF RunSteps
<1>7. graph' = [graph EXCEPT !.revision = RevisionAfter(graph, pending.event)]
  BY DEF Commit
<1> HIDE DEF steps
<1>8. ASSUME NEW h, RunSteps(pending.start, Steps(pending.event), Len(log)) = Ran(TRUE, h)
      PROVE  ApplyEvent(Ran(TRUE, pending.start), pending.event, Len(log))
               = Ran(TRUE, [h EXCEPT !.revision = RevisionAfter(h, pending.event)])
  <2> DEFINE q == Ran(TRUE, pending.start)
             run == Ran(TRUE, h)
  <2>1. q.ok /\ q.graph = pending.start /\ run.ok /\ run.graph = h
    BY DEF Ran
  <2> HIDE DEF q, run
  <2>2. RunSteps(q.graph, Steps(pending.event), Len(log)) = run
    BY <1>8, <2>1 DEF run
  <2>3. ApplyEvent(q, pending.event, Len(log))
          = Ran(TRUE, [h EXCEPT !.revision = RevisionAfter(h, pending.event)])
    BY <2>1, <2>2 DEF ApplyEvent
  <2> QED BY <2>3 DEF q
<1> QED BY <1>6, <1>7, <1>8 DEF steps

LEMMA ReplayCommit ==
  ASSUME TypeOK, ReplayInv, Commit
  PROVE  ReplayInv'
<1> DEFINE entry == [event |-> pending.event,
                     revision |-> RevisionAfter(graph, pending.event)]
<1>1. /\ log' = Append(log, entry) /\ pending # Idle /\ pending' = Idle
      /\ UNCHANGED <<seen, torn>>
  BY DEF Commit
<1>2. entry.event = pending.event /\ WellFormed(pending.event)
  BY <1>1 DEF ReplayInv
<1> HIDE DEF entry
<1>3. log \in Seq(LogEntry) /\ Len(log) \in Nat
  BY DEF TypeOK
<1>4. ASSUME NEW i \in DOMAIN log' PROVE WellFormed(log'[i].event)
  <2>1. CASE i = Len(log) + 1
    BY <1>1, <1>2, <1>3, <2>1
  <2>2. CASE i # Len(log) + 1
    <3>1. i \in DOMAIN log /\ log'[i] = log[i]
      BY <1>1, <1>3, <2>2
    <3> QED BY <3>1 DEF ReplayInv
  <2> QED BY <2>1, <2>2
<1>5. Len(log') = Len(log) + 1
  BY <1>1, <1>3
<1>6. /\ \A n \in 0..Len(log) : Replays(log')[n] = Replays(log)[n]
      /\ Replayed(log') = ApplyEvent(Replayed(log), entry.event, Len(log))
  BY <1>1, <1>3, ReplaysAppend
<1>7. ASSUME torn' = {}
      PROVE  /\ Replayed(log') = Ran(TRUE, graph')
             /\ \A c \in Clients : \E k \in 0..Len(log') : Replays(log')[k] = Ran(TRUE, seen'[c])
  <2>1. /\ Replayed(log) = Ran(TRUE, pending.start)
        /\ \A c \in Clients : \E k \in 0..Len(log) : Replays(log)[k] = Ran(TRUE, seen[c])
    BY <1>1, <1>7 DEF ReplayInv, Settled
  <2>2. Replayed(log') = Ran(TRUE, graph')
    BY <1>2, <1>6, <2>1, CommitApplies
  <2>3. ASSUME NEW c \in Clients
        PROVE  \E k \in 0..Len(log') : Replays(log')[k] = Ran(TRUE, seen'[c])
    <3>1. PICK k \in 0..Len(log) : Replays(log)[k] = Ran(TRUE, seen[c])
      BY <2>1
    <3>2. k \in 0..Len(log') /\ Replays(log')[k] = Replays(log)[k]
      BY <1>3, <1>5, <1>6
    <3> QED BY <1>1, <3>1, <3>2
  <2> QED BY <2>2, <2>3
<1>8. Settled' = graph'
  BY <1>1 DEF Settled
<1> QED BY <1>1, <1>4, <1>7, <1>8 DEF ReplayInv

LEMMA ReplayStep ==
  ASSUME TypeOK, TypeOK', ReplayInv, [Next]_vars
  PROVE  ReplayInv'
<1>1. ASSUME NEW e \in Events, AppendEvent(e) PROVE ReplayInv'
  BY <1>1, Submitted, BeginType, ReplayBegin DEF AppendEvent, Routes, Replies
<1>2. ASSUME NEW e \in Events, AppendDuplicate(e) PROVE ReplayInv'
  BY <1>2 DEF AppendDuplicate, ReplayInv, Settled
<1>3. CASE Project
  BY <1>3, ReplayProject
<1>4. CASE Abort
  <2>1. pending # Idle /\ pending' = Idle /\ UNCHANGED <<log, graph, seen>>
    BY <1>4 DEF Abort
  <2>2. torn' = {} => torn = {} /\ graph = pending.start
    BY <1>4 DEF Abort
  <2> QED BY <2>1, <2>2 DEF ReplayInv, Settled
<1>5. CASE Commit
  BY <1>5, ReplayCommit
<1>6. ASSUME NEW c \in Clients, ReadGraph(c) PROVE ReplayInv'
  <2>1. \A d \in Clients : seen'[d] = IF d = c THEN graph ELSE seen[d]
    BY <1>6 DEF ReadGraph, TypeOK
  <2>2. pending = Idle /\ UNCHANGED <<log, graph, pending, torn>>
    BY <1>6 DEF ReadGraph
  <2>3. Len(log) \in 0..Len(log)
    BY DEF TypeOK
  <2>4. torn = {} => Replays(log)[Len(log)] = Ran(TRUE, graph)
    BY <2>2 DEF ReplayInv, Replayed, Settled
  <2> QED BY <2>1, <2>2, <2>3, <2>4 DEF ReplayInv, Settled
<1>7. ASSUME NEW c \in Clients, NEW ops \in Patches, ProposePatch(c, ops)
      PROVE  ReplayInv'
  BY <1>7, Proposed, ReplayBegin
<1>8. CASE UNCHANGED vars
  BY <1>8 DEF vars, ReplayInv, RunSoFar, Settled
<1> QED BY <1>1, <1>2, <1>3, <1>4, <1>5, <1>6, <1>7, <1>8 DEF Next

LEMMA ReplayInit == Init => ReplayInv
<1> SUFFICES ASSUME Init PROVE ReplayInv
  OBVIOUS
<1>1. /\ log = << >> /\ graph = EmptyGraph /\ pending = Idle
      /\ \A c \in Clients : seen[c] = EmptyGraph
  BY DEF Init
<1>2. Len(log) = 0 /\ DOMAIN log = {} /\ 0 \in 0..Len(log)
  BY <1>1
<1>3. Replays(log)[0] = Ran(TRUE, EmptyGraph)
  <2>1. Len(log) \in Nat
    BY <1>2
  <2> QED BY <2>1, ReplaysUnfold
<1> QED BY <1>1, <1>2, <1>3 DEF ReplayInv, Replayed, Settled

\* What the log replays to, the graph of the append under way and what each
\* client has read belong together: the invariant behind replay and time travel.
THEOREM ReplayInvariant == Spec => []ReplayInv
<1>1. TypeOK /\ TypeOK' /\ ReplayInv /\ [Next]_vars => ReplayInv'
  BY ReplayStep
<1> QED BY <1>1, ReplayInit, TypeCorrect, PTL DEF Spec

LEMMA LogAccounted ==
  ASSUME TypeOK, RevisionsAccountedFor, ReplayInv
  PROVE  Accounted /\ graph.revision = RevisionAt(Len(log))
<1>1. log \in Seq(LogEntry) /\ \A i \in DOMAIN log : WellFormed(log[i].event)
  BY DEF TypeOK, ReplayInv
<1>2. \A i \in DOMAIN log :
        log[i].revision = RevisionAt(i-1) + Bump(log[i].event)
  BY DEF RevisionsAccountedFor, RevisionAt, Bump
<1>3. graph.revision = RevisionAt(Len(log))
  BY DEF RevisionsAccountedFor, RevisionAt
<1> QED BY <1>1, <1>2, <1>3 DEF Accounted

\* What replays as a whole replays up to every entry.
LEMMA OkBefore ==
  ASSUME Accounted, NEW k \in 0..Len(log), Replays(log)[k].ok
  PROVE  \A j \in 0..k : Replays(log)[j].ok
<1> DEFINE S == {d \in Nat : d <= k => Replays(log)[k - d].ok}
<1>0. k \in Nat /\ Len(log) \in Nat /\ k <= Len(log)
  BY DEF Accounted
<1>1. 0 \in S
  BY <1>0
<1>2. ASSUME NEW d \in S PROVE d + 1 \in S
  <2> SUFFICES ASSUME d + 1 <= k PROVE Replays(log)[k - (d + 1)].ok
    OBVIOUS
  <2>1. PICK n \in 0..Len(log) : /\ n = k - (d + 1) /\ n + 1 = k - d /\ n < Len(log)
                                 /\ n \in Nat /\ d <= k
    BY <1>0
  <2>2. Replays(log)[n+1].ok
    BY <2>1
  <2> HIDE DEF S
  <2>3. /\ Replays(log)[n+1] = ApplyEvent(Replays(log)[n], log[n+1].event, n)
        /\ WellFormed(log[n+1].event)
    BY <2>1, NextEntry
  <2>4. Replays(log)[n] \in Result
    BY ReplaysTyped
  <2> QED BY <2>1, <2>2, <2>3, <2>4, EventApplied
<1> HIDE DEF S
<1>3. \A d \in Nat : d \in S
  BY <1>1, <1>2, Induction DEF S
<1> SUFFICES ASSUME NEW j \in 0..k PROVE Replays(log)[j].ok
  OBVIOUS
<1>4. PICK d \in Nat : d <= k /\ j = k - d
  <2>1. k - j \in Nat /\ k - j <= k /\ j = k - (k - j)
    BY <1>0
  <2> QED BY <2>1
<1>5. d \in S
  BY <1>3
<1> QED BY <1>4, <1>5 DEF S

LEMMA ProjectionOfLog ==
  ASSUME TypeOK, RevisionsAccountedFor, ReplayInv
  PROVE  GraphIsProjectionOfLog
<1> SUFFICES ASSUME pending = Idle, torn = {}
             PROVE  Rebuilds(log) /\ Replayed(log).graph = graph
  BY DEF GraphIsProjectionOfLog
<1>1. Accounted /\ Len(log) \in Nat /\ log \in Seq(LogEntry)
  BY LogAccounted DEF TypeOK
<1>2. Replayed(log) = Ran(TRUE, graph)
  BY DEF ReplayInv, Settled
<1>3. Replayed(log).ok /\ Replayed(log).graph = graph
  BY <1>2 DEF Ran
<1>4. ASSUME NEW i \in DOMAIN log
      PROVE  Replayed(SubSeq(log, 1, i)).graph.revision = log[i].revision
  <2>1. i \in 0..Len(log) /\ i # 0 /\ Len(log) \in 0..Len(log)
    BY <1>1
  <2>2. Replayed(SubSeq(log, 1, i)) = Replays(log)[i]
    BY <1>1, <2>1, ReplayedPrefix
  <2>3. Replays(log)[i].ok
    BY <1>1, <1>3, <2>1, OkBefore DEF Replayed
  <2>4. Replays(log)[i].graph.revision = RevisionAt(i)
    BY <1>1, <2>1, <2>3, ReplaysTyped
  <2> QED BY <2>1, <2>2, <2>4 DEF RevisionAt
<1> QED BY <1>3, <1>4 DEF Rebuilds

\* The live graph and the durable log never disagree: as long as no append was
\* aborted midway, rebuilding the log gives every entry the revision it was
\* stored with, and the graph the store is serving.
THEOREM GraphIsLogProjection == Spec => []GraphIsProjectionOfLog
BY ProjectionOfLog, TypeCorrect, EveryRevisionAccountedFor, ReplayInvariant, PTL

LEMMA TravelIsExact ==
  ASSUME TypeOK, RevisionsAccountedFor, ReplayInv
  PROVE  TimeTravelIsExact
<1> SUFFICES ASSUME pending = Idle, torn = {}, NEW c \in Clients
             PROVE  GraphAtRevision(seen[c].revision) = Ran(TRUE, seen[c])
  BY DEF TimeTravelIsExact
<1>1. Accounted /\ Len(log) \in Nat
  BY LogAccounted DEF TypeOK
<1> DEFINE n == seen[c].revision
<1>2. n \in Nat
  BY DEF TypeOK, Graph
<1>3. PICK k \in 0..Len(log) : Replays(log)[k] = Ran(TRUE, seen[c])
  BY DEF ReplayInv
<1>4. RevisionAt(k) = n
  <2>1. Replays(log)[k].ok /\ Replays(log)[k].graph = seen[c]
    BY <1>3 DEF Ran
  <2> QED BY <1>1, <2>1, ReplaysTyped
<1> HIDE DEF n
<1>5. PICK m \in 0..Len(log) :
        /\ GraphAtRevision(n) = Replays(log)[m]
        /\ RevisionAt(m) <= n
        /\ m = Len(log) \/ RevisionAt(m+1) > n
  BY <1>1, <1>2, PrefixCut
<1>6. m \in k..Len(log)
  <2> SUFFICES ASSUME m < k PROVE FALSE
    BY <1>1
  <2>1. m + 1 \in 0..Len(log) /\ k \in (m+1)..Len(log) /\ m # Len(log)
    BY <1>1
  <2>2. RevisionAt(m+1) <= RevisionAt(k) /\ RevisionAt(m+1) \in Nat
    BY <1>1, <2>1, RevisionsGrow, RevisionAtType
  <2> QED BY <1>2, <1>4, <1>5, <2>1, <2>2
<1>7. RevisionAt(m) = RevisionAt(k)
  <2>1. RevisionAt(k) <= RevisionAt(m) /\ RevisionAt(m) \in Nat
    BY <1>1, <1>6, RevisionsGrow, RevisionAtType
  <2> QED BY <1>2, <1>4, <1>5, <2>1
<1>8. Replays(log)[m] = Replays(log)[k]
  BY <1>1, <1>6, <1>7, SameRevisionSameGraph
<1> QED BY <1>3, <1>5, <1>8 DEF n

\* A reader can always come back: replaying the log up to the revision it read
\* gives the graph it read, also where rejections share a revision.
THEOREM TimeTravelReturns == Spec => []TimeTravelIsExact
BY TravelIsExact, TypeCorrect, EveryRevisionAccountedFor, ReplayInvariant, PTL

LEMMA TravelLands ==
  ASSUME TypeOK, RevisionsAccountedFor, ReplayInv
  PROVE  TimeTravelLands
<1> SUFFICES ASSUME pending = Idle, NEW n \in 0..graph.revision
             PROVE  /\ GraphAtRevision(n).ok => GraphAtRevision(n).graph.revision = n
                    /\ torn = {} => GraphAtRevision(n).ok
  BY DEF TimeTravelLands
<1>1. Accounted /\ Len(log) \in Nat /\ graph.revision = RevisionAt(Len(log))
  BY LogAccounted DEF TypeOK
<1>2. graph.revision \in Nat /\ n \in Nat /\ n <= graph.revision
  BY DEF TypeOK, Graph
<1>3. PICK m \in 0..Len(log) :
        /\ GraphAtRevision(n) = Replays(log)[m]
        /\ RevisionAt(m) <= n
        /\ m = Len(log) \/ RevisionAt(m+1) > n
  BY <1>1, <1>2, PrefixCut
<1>4. RevisionAt(m) = n
  <2>1. CASE m = Len(log)
    BY <1>1, <1>2, <1>3, <2>1
  <2>2. CASE m # Len(log)
    <3>1. m < Len(log)
      BY <1>1, <2>2
    <3>2. /\ RevisionAt(m+1) = RevisionAt(m) + Bump(log[m+1].event)
          /\ RevisionAt(m) \in Nat /\ RevisionAt(m+1) \in Nat
      BY <1>1, <3>1, NextEntry
    <3> QED BY <1>2, <1>3, <2>2, <3>2 DEF Bump
  <2> QED BY <2>1, <2>2
<1>5. Replays(log)[m].ok => Replays(log)[m].graph.revision = n
  BY <1>1, <1>4, ReplaysTyped
<1>6. torn = {} => Replays(log)[m].ok
  <2> SUFFICES ASSUME torn = {} PROVE Replays(log)[m].ok
    OBVIOUS
  <2>1. Replays(log)[Len(log)].ok
    BY DEF ReplayInv, Replayed, Settled, Ran
  <2>2. Len(log) \in 0..Len(log) /\ m \in 0..Len(log)
    BY <1>1
  <2> QED BY <1>1, <2>1, <2>2, OkBefore
<1> QED BY <1>3, <1>5, <1>6

\* Every revision of the store can be travelled to and is met exactly, the
\* debug assertion of graph_at_revision; after a torn append the answer may be
\* an error, and is never a graph of another revision.
THEOREM EveryRevisionReachable == Spec => []TimeTravelLands
BY TravelLands, TypeCorrect, EveryRevisionAccountedFor, ReplayInvariant, PTL

-----------------------------------------------------------------------------
(* The store implements AtomicStore.  The instance has its own copy of      *)
(* every operator of SemanticGraph and EventProjection; each copy is the    *)
(* operator it copies.                                                      *)

LEMMA SameRuns ==
  \A g, steps, seq : Atomic!StepRuns(g, steps, seq) = StepRuns(g, steps, seq)
BY Zenon
   DEF Atomic!StepRuns, StepRuns, Atomic!RunStep, RunStep, Atomic!Ran, Ran,
       Atomic!StepOk, StepOk, Atomic!SddkOwned, SddkOwned, Atomic!Related, Related,
       Atomic!StepEffect, StepEffect, Atomic!Exists, Exists, Atomic!Touch, Touch,
       Atomic!NodeAfter, NodeAfter, Atomic!Merge, Merge

LEMMA SameSteps == \A e : Atomic!Steps(e) = Steps(e)
BY Zenon
   DEF Atomic!Steps, Steps, Atomic!WorldSteps, WorldSteps,
       Atomic!ConversationSteps, ConversationSteps, Atomic!FrameSteps, FrameSteps,
       Atomic!AgentSteps, AgentSteps, Atomic!IntentSteps, IntentSteps,
       Atomic!TurnSteps, TurnSteps, Atomic!Mention, Mention,
       Atomic!AgentRun, AgentRun, Atomic!Define, Define, Atomic!Observe, Observe,
       Atomic!Update, Update, Atomic!Retire, Retire, Atomic!Fact, Fact,
       Atomic!Relate, Relate, Atomic!Link, Link, Atomic!Refuse, Refuse,
       Atomic!Declare, Declare, Atomic!OnSubject, OnSubject, Atomic!NoProps, NoProps

LEMMA SameResults == \A ok, g : Atomic!Ran(ok, g) = Ran(ok, g)
BY Zenon DEF Atomic!Ran, Ran

LEMMA SameApply ==
  \A r, e, seq : Atomic!ApplyEvent(r, e, seq) = ApplyEvent(r, e, seq)
<1>1. ASSUME NEW g, NEW e, NEW seq
      PROVE  Atomic!RunSteps(g, Atomic!Steps(e), seq) = RunSteps(g, Steps(e), seq)
  BY SameRuns, SameSteps DEF Atomic!RunSteps, RunSteps
<1>2. \A g, e : Atomic!RevisionAfter(g, e) = RevisionAfter(g, e)
  BY Zenon DEF Atomic!RevisionAfter, RevisionAfter
<1> QED BY <1>1, <1>2, SameResults, Zenon DEF Atomic!ApplyEvent, ApplyEvent

LEMMA SamePatches ==
  /\ \A kind, ops : Atomic!PatchEvent(kind, ops) = PatchEvent(kind, ops)
  /\ \A g, base, ops : Atomic!Valid(g, base, ops) = Valid(g, base, ops)
<1>1. \A kind, ops : Atomic!PatchEvent(kind, ops) = PatchEvent(kind, ops)
  BY Zenon DEF Atomic!PatchEvent, PatchEvent, Atomic!NoProps, NoProps
<1>2. \A g, base, ops : Atomic!Valid(g, base, ops) = Valid(g, base, ops)
  BY Zenon DEF Atomic!Valid, Valid, Atomic!OpRejection, OpRejection,
     Atomic!GovernedBySddk, GovernedBySddk, Atomic!SddkOwned, SddkOwned,
     Atomic!Exists, Exists
<1> QED BY <1>1, <1>2

\* What an append may be appending.
AtomicInv ==
  pending # Idle =>
    \/ pending.event \in Events
    \/ \E ops \in Patches :
         \/ /\ pending.event = PatchEvent("patch-applied", ops)
            /\ Valid(pending.start, pending.start.revision, ops)
         \/ pending.event = PatchEvent("patch-rejected", << >>)

LEMMA AtomicStep ==
  ASSUME TypeOK, AtomicInv, [Next]_vars
  PROVE  AtomicInv'
<1>1. ASSUME NEW e \in Events, AppendEvent(e) PROVE AtomicInv'
  BY <1>1 DEF AppendEvent, Begin, AtomicInv
<1>2. ASSUME NEW e \in Events, AppendDuplicate(e) PROVE AtomicInv'
  BY <1>2 DEF AppendDuplicate, AtomicInv
<1>3. CASE Project
  <2>1. pending \in Pending /\ pending' = [pending EXCEPT !.steps = Tail(@)]
        /\ pending # Idle
    BY <1>3, ProjectType DEF Project
  <2>2. pending'.event = pending.event /\ pending'.start = pending.start
    BY <2>1 DEF Pending
  <2> QED BY <2>1, <2>2 DEF AtomicInv
<1>4. CASE Abort
  BY <1>4 DEF Abort, AtomicInv
<1>5. CASE Commit
  BY <1>5 DEF Commit, AtomicInv
<1>6. ASSUME NEW c \in Clients, ReadGraph(c) PROVE AtomicInv'
  BY <1>6 DEF ReadGraph, AtomicInv
<1>7. ASSUME NEW c \in Clients, NEW ops \in Patches, ProposePatch(c, ops)
      PROVE  AtomicInv'
  <2>1. pending'.start = graph
    BY <1>7, Proposed
  <2>2. CASE /\ pending'.event = PatchEvent("patch-applied", ops)
             /\ Valid(graph, seen[c].revision, ops)
    BY <2>1, <2>2 DEF AtomicInv, Valid
  <2>3. CASE pending'.event = PatchEvent("patch-rejected", << >>)
    BY <2>3 DEF AtomicInv
  <2> QED BY <1>7, <2>2, <2>3, Proposed
<1>8. CASE UNCHANGED vars
  BY <1>8 DEF vars, AtomicInv
<1> QED BY <1>1, <1>2, <1>3, <1>4, <1>5, <1>6, <1>7, <1>8 DEF Next

\* Committing an event submits it to the atomic store.
LEMMA CommitSubmits ==
  ASSUME TypeOK, ReplayInv, Commit
  PROVE  Atomic!Submit(pending.event)
<1>1. /\ pending # Idle /\ pending' = Idle
      /\ graph' = [graph EXCEPT !.revision = RevisionAfter(graph, pending.event)]
      /\ log' = Append(log, [event |-> pending.event,
                             revision |-> RevisionAfter(graph, pending.event)])
  BY DEF Commit
<1>2. Settled = pending.start /\ Settled' = graph'
  BY <1>1 DEF Settled
<1>3. graph'.revision = RevisionAfter(graph, pending.event)
  BY <1>1 DEF TypeOK, Graph
<1> DEFINE result == Atomic!ApplyEvent(Atomic!Ran(TRUE, Settled), pending.event, Len(log))
<1>4. result = Ran(TRUE, graph')
  BY <1>2, SameApply, SameResults, CommitApplies
<1>5. result.ok /\ result.graph = graph'
  <2> HIDE DEF result
  <2> QED BY <1>4 DEF Ran
<1> QED BY <1>1, <1>2, <1>3, <1>5 DEF Atomic!Submit

LEMMA StepIsAtomic ==
  ASSUME TypeOK, FreshInv, ReplayInv, AtomicInv, Next, torn' = {}
  PROVE  [Atomic!Next]_<<log, Settled>>
<1>1. ASSUME NEW e \in Events, AppendEvent(e) PROVE UNCHANGED <<log, Settled>>
  BY <1>1, NotIdle, Submitted, BeginType DEF AppendEvent, Routes, Replies, Settled
<1>2. ASSUME NEW e \in Events, AppendDuplicate(e) PROVE UNCHANGED <<log, Settled>>
  BY <1>2 DEF AppendDuplicate, Settled
<1>3. CASE Project
  <2>1. /\ pending \in Pending /\ pending # Idle /\ pending' \in Pending /\ pending' # Idle
        /\ pending' = [pending EXCEPT !.steps = Tail(@)] /\ UNCHANGED log
    BY <1>3, NotIdle, ProjectType DEF Project
  <2>2. pending'.start = pending.start
    BY <2>1 DEF Pending
  <2>3. UNCHANGED <<log, Settled>>
    BY <2>1, <2>2 DEF Settled
  <2> QED BY <2>3
<1>4. CASE Abort
  <2>1. pending # Idle /\ pending' = Idle /\ UNCHANGED <<log, graph>>
    BY <1>4 DEF Abort
  <2>2. graph = pending.start
    BY <1>4 DEF Abort
  <2>3. UNCHANGED <<log, Settled>>
    BY <2>1, <2>2 DEF Settled
  <2> QED BY <2>3
<1>5. CASE Commit
  <2>1. Atomic!Submit(pending.event) /\ pending # Idle /\ Settled = pending.start
    BY <1>5, CommitSubmits DEF Commit, Settled
  <2>2. CASE pending.event \in Events
    <3>1. pending.event.id # FreshId
      BY <2>2, ConstantsAssumption
    <3>2. Atomic!New(pending.event)
      BY <2>1, <3>1 DEF FreshInv, Logged, Atomic!New
    <3> QED BY <2>1, <2>2, <3>2 DEF Atomic!Next
  <2>3. ASSUME NEW ops \in Patches,
               \/ /\ pending.event = PatchEvent("patch-applied", ops)
                  /\ Valid(pending.start, pending.start.revision, ops)
               \/ pending.event = PatchEvent("patch-rejected", << >>)
        PROVE  Atomic!Next
    <3>1. Atomic!Patch(ops)
      BY <2>1, <2>3, SamePatches DEF Atomic!Patch
    <3> QED BY <3>1 DEF Atomic!Next
  <2> QED BY <2>1, <2>2, <2>3 DEF AtomicInv
<1>6. ASSUME NEW c \in Clients, ReadGraph(c) PROVE UNCHANGED <<log, Settled>>
  BY <1>6 DEF ReadGraph, Settled
<1>7. ASSUME NEW c \in Clients, NEW ops \in Patches, ProposePatch(c, ops)
      PROVE  UNCHANGED <<log, Settled>>
  BY <1>7, NotIdle, Proposed DEF Settled
<1> QED BY <1>1, <1>2, <1>3, <1>4, <1>5, <1>6, <1>7 DEF Next

\* Refinement: projecting on the live graph one primitive at a time and writing
\* the entry afterwards cannot be told from the atomic store, until an append
\* is aborted after it has mutated the graph.
THEOREM StoreIsAtomic == Spec => AtomicUntilTorn
<1>1. Init => Atomic!Init
  BY DEF Init, Atomic!Init, Settled, EmptyGraph, Atomic!EmptyGraph
<1>2. Init => AtomicInv
  BY DEF Init, AtomicInv
<1>3. TypeOK /\ AtomicInv /\ [Next]_vars => AtomicInv'
  BY AtomicStep
<1>4. TypeOK /\ FreshInv /\ ReplayInv /\ AtomicInv /\ [Next]_vars
        => [torn' = {} => [Atomic!Next]_<<log, Settled>>]_vars
  BY StepIsAtomic
<1>5. Spec => []FreshInv
  <2>1. Init => FreshInv
    BY DEF Init, FreshInv, NoEventTwice
  <2>2. TypeOK /\ TypeOK' /\ FreshInv /\ [Next]_vars => FreshInv'
    BY FreshStep
  <2> QED BY <2>1, <2>2, TypeCorrect, PTL DEF Spec
<1> QED BY <1>1, <1>2, <1>3, <1>4, <1>5, TypeCorrect, ReplayInvariant, PTL
        DEF Spec, AtomicUntilTorn

-----------------------------------------------------------------------------
(* The built-in behaviors: what holds while they are dispatched, for any     *)
(* graph, any events and dispatches of any length.                           *)

\* What is left to run of Builtin.
Rests == { Builtin, <<"contradiction", "stale-evidence", "missing-evidence">>,
           <<"stale-evidence", "missing-evidence">>, <<"missing-evidence">>, << >> }
LeftOf(d) == {d.left[i] : i \in DOMAIN d.left}

DispatchShape == [trigger : Nat, left : Rests, outputs : SUBSET Output]

Definition(e) == Define({e.other}, e.subject, "advisory", NoProps)
Reference(e) == Relate({}, Fact(e.subject, "mentions", e.other, "advisory"))

\* An advisory that is being appended will not fail: what it is about exists,
\* and its own subject is new.
AdvisoryUnderWay ==
  LET e == pending.event
  IN /\ e.kind = "advisory-raised"
     /\ e.subject \in Subjects /\ e.other \in Subjects /\ e.subject # e.other
     /\ Exists(graph, e.other)
     /\ \/ /\ pending.steps = << Definition(e), Reference(e) >>
           /\ ~Exists(graph, e.subject)
        \/ /\ pending.steps = << Reference(e) >>
           /\ \A r \in graph.relations : r.from # e.subject
        \/ pending.steps = << >>

\* Events whose projection fails unless it finds their subject or makes it.
OfSubject == {"subject-defined", "relation-declared"}

TriggerUnderWay ==
  pending.event.kind \in OfSubject =>
    \/ pending.steps = Steps(pending.event)
    \/ pending.steps = << >> /\ Exists(graph, pending.event.subject)

\* The subjects that advisories are, or will be, about exist.
DispatchSound ==
  /\ dispatch \in DispatchShape
  /\ dispatch = Quiet /\ pending # Idle => TriggerUnderWay
  /\ dispatch # Quiet =>
       /\ dispatch.trigger \in DOMAIN log
       /\ \A o \in dispatch.outputs : Exists(graph, o.about)
       /\ LET e == log[dispatch.trigger].event
          IN e.kind \in OfSubject => Exists(graph, e.subject)
       /\ pending # Idle => AdvisoryUnderWay

\* What a behavior says of an event, by a graph.
Said(b, g, e) == IF e.kind \in Subscribes(b) THEN React(b, g, e) ELSE {}
AllSaid(g, e) == UNION {Said(b, g, e) : b \in BehaviorNames}

\* The graph right after the entry at a position of a log.
After(entries, t) == Replays(entries)[t].graph

\* Advisories are one for each trigger and output, and no output is raised
\* again.
RaisedOnce ==
  /\ IsFiniteSet(raised)
  /\ \A r \in raised : r.cause \in DOMAIN log
  /\ \A q, r \in raised : q.cause = r.cause /\ q.output = r.output => q = r
  /\ \A o \in dispatch.outputs : o.behavior \notin LeftOf(dispatch)
  /\ dispatch # Quiet =>
       \A o \in Caused(dispatch.trigger) :
         o \notin dispatch.outputs /\ o.behavior \notin LeftOf(dispatch)

\* Graphs that differ in what mentions what, and in subjects.
Alike(g, h) ==
  /\ h.relations \subseteq g.relations
  /\ \A r \in g.relations \ h.relations : r.kind = "mentions"

\* Of the trigger under way, some outputs are raised, some returned and some
\* still to be computed, by a graph that differs from the one after the trigger
\* in advisories only; every other entry has had exactly its advisories.
RaisedExactly ==
  /\ \A t \in DOMAIN log :
       dispatch = Quiet \/ t # dispatch.trigger =>
         Caused(t) = AllSaid(After(log, t), log[t].event)
  /\ dispatch # Quiet =>
       LET t == dispatch.trigger
           g == After(log, t)
           e == log[t].event
       IN /\ Alike(graph, g)
          /\ Caused(t) \cup dispatch.outputs
               \cup UNION {Said(b, g, e) : b \in LeftOf(dispatch)} = AllSaid(g, e)

ReactiveInv ==
  /\ TypeOK /\ EndpointsInv /\ ReplayInv
  /\ DispatchSound /\ RaisedOnce
  /\ torn = {} => RaisedExactly

-----------------------------------------------------------------------------
(* The behaviors.                                                           *)

LEMMA QuietShape ==
  /\ Quiet \in DispatchShape
  /\ \A d \in DispatchShape : d = [trigger |-> d.trigger, left |-> d.left,
                                   outputs |-> d.outputs]
  BY DEF Quiet, DispatchShape, Rests

LEMMA EndsOfRelations ==
  ASSUME NEW g \in Graph, NEW r \in g.relations
  PROVE  r.from \in Subjects /\ r.to \in Subjects /\ r.kind \in RelationKind
  BY DEF Graph, RelationFact

\* What a behavior says carries its name, and is about a subject that exists.
LEMMA ReactSays ==
  ASSUME NEW b \in BehaviorNames, NEW g \in Graph, NEW e, WellFormed(e),
         NEW o \in Said(b, g, e)
  PROVE  /\ o \in Output /\ o.behavior = b
         /\ (/\ \A r \in g.relations : Exists(g, r.from) /\ Exists(g, r.to)
             /\ e.kind \in OfSubject => Exists(g, e.subject))
              => Exists(g, o.about)
<1>1. o \in React(b, g, e) /\ e.kind \in Subscribes(b) /\ e.subject \in Subjects
  BY DEF Said, WellFormed, Event
<1>2. "contradicts" \in RelationKind
  BY DEF RelationKind
<1>3. CASE b = "impact"
  <2>1. PICK r \in g.relations : o = Advise("impact", r.from, r.kind)
    BY <1>1, <1>3 DEF React, Impact
  <2> QED BY <1>3, <2>1, EndsOfRelations DEF Advise, Output
<1>4. CASE b = "contradiction"
  <2>1. o = Advise("contradiction", e.subject, "contradicts")
    BY <1>1, <1>4 DEF React, Contradiction
  <2>2. e.kind \in OfSubject
    BY <1>1, <1>4 DEF Subscribes, OfSubject
  <2> QED BY <1>1, <1>2, <1>4, <2>1, <2>2 DEF Advise, Output
<1>5. CASE b = "stale-evidence"
  <2>1. PICK r \in g.relations : o = Advise("stale-evidence", r.to, r.kind)
    BY <1>1, <1>5 DEF React, StaleEvidence
  <2> QED BY <1>5, <2>1, EndsOfRelations DEF Advise, Output
<1>6. CASE b = "missing-evidence"
  <2>1. o = Advise("missing-evidence", e.subject, "none")
    BY <1>1, <1>6 DEF React, MissingEvidence
  <2>2. e.kind \in OfSubject
    BY <1>1, <1>6 DEF Subscribes, OfSubject
  <2> QED BY <1>1, <1>6, <2>1, <2>2 DEF Advise, Output
<1> QED BY <1>3, <1>4, <1>5, <1>6 DEF BehaviorNames

\* No behavior looks at what mentions what.
LEMMA SaidAlike ==
  ASSUME NEW b \in BehaviorNames, NEW g, NEW h, Alike(g, h), NEW e
  PROVE  Said(b, g, e) = Said(b, h, e)
<1>1. ASSUME NEW r, r.kind # "mentions" PROVE r \in g.relations <=> r \in h.relations
  BY <1>1 DEF Alike
<1>2. {f \in g.relations : f.to = e.subject /\ f.kind = "depends_on"}
        = {f \in h.relations : f.to = e.subject /\ f.kind = "depends_on"}
  BY <1>1
<1>3. {f \in g.relations : f.from = e.subject
                             /\ f.kind \in {"provides_evidence_for", "verifies"}}
        = {f \in h.relations : f.from = e.subject
                                 /\ f.kind \in {"provides_evidence_for", "verifies"}}
  BY <1>1
<1>4. (\A r \in g.relations : ~(r.to = e.subject /\ r.kind = "provides_evidence_for"))
        <=> (\A r \in h.relations : ~(r.to = e.subject /\ r.kind = "provides_evidence_for"))
  BY <1>1
<1>5. Impact(g, e) = Impact(h, e)
  BY <1>2 DEF Impact
<1>6. StaleEvidence(g, e) = StaleEvidence(h, e)
  BY <1>3 DEF StaleEvidence
<1>7. MissingEvidence(g, e) = MissingEvidence(h, e)
  BY <1>4 DEF MissingEvidence
<1>8. React(b, g, e) = React(b, h, e)
  BY <1>5, <1>6, <1>7 DEF React
<1> QED BY <1>8 DEF Said

LEMMA AlikeItself ==
  ASSUME NEW g
  PROVE  Alike(g, g)
  BY DEF Alike

\* An event that is an advisory, and no other, is subscribed by nobody.
LEMMA AdvisoriesSilent ==
  ASSUME NEW e, e.kind = "advisory-raised", NEW g
  PROVE  AllSaid(g, e) = {}
<1>1. \A b \in BehaviorNames : e.kind \notin Subscribes(b)
  BY DEF BehaviorNames, Subscribes
<1> QED BY <1>1 DEF AllSaid, Said

\* The state right after an entry of the log.
LEMMA JustifiedIs ==
  ASSUME log \in Seq(LogEntry), NEW t \in DOMAIN log
  PROVE  Justified(t) = AllSaid(After(log, t), log[t].event)
<1>1. t \in 0..Len(log)
  OBVIOUS
<1>2. Replayed(SubSeq(log, 1, t)) = Replays(log)[t]
  BY <1>1, ReplayedPrefix
<1> QED BY <1>2 DEF Justified, AllSaid, Said, After

\* A behavior is run: the rest of the names, and the one that is taken.
LEMMA NextBehavior ==
  ASSUME NEW d \in DispatchShape, d.left # << >>
  PROVE  /\ Tail(d.left) \in Rests /\ Head(d.left) \in BehaviorNames
         /\ LeftOf(d) = {Head(d.left)} \cup LeftOf([d EXCEPT !.left = Tail(@)])
         /\ Head(d.left) \notin LeftOf([d EXCEPT !.left = Tail(@)])
<1>1. d.left \in Rests
  BY DEF DispatchShape
<1>2. [d EXCEPT !.left = Tail(@)].left = Tail(d.left)
  BY DEF DispatchShape
<1>3. ASSUME NEW e, e = [d EXCEPT !.left = Tail(@)]
      PROVE  /\ Tail(d.left) \in Rests /\ Head(d.left) \in BehaviorNames
             /\ LeftOf(d) = {Head(d.left)} \cup LeftOf(e) /\ Head(d.left) \notin LeftOf(e)
  <2>1. e.left = Tail(d.left)
    BY <1>2, <1>3
  <2>2. CASE d.left = Builtin
    BY <2>1, <2>2 DEF Builtin, LeftOf, Rests, BehaviorNames
  <2>3. CASE d.left = <<"contradiction", "stale-evidence", "missing-evidence">>
    BY <2>1, <2>3 DEF Builtin, LeftOf, Rests, BehaviorNames
  <2>4. CASE d.left = <<"stale-evidence", "missing-evidence">>
    BY <2>1, <2>4 DEF Builtin, LeftOf, Rests, BehaviorNames
  <2>5. CASE d.left = <<"missing-evidence">>
    BY <2>1, <2>5 DEF Builtin, LeftOf, Rests, BehaviorNames
  <2> QED BY <1>1, <2>2, <2>3, <2>4, <2>5 DEF Rests
<1> QED BY <1>3

-----------------------------------------------------------------------------
(* The store under the dispatch: its own actions, and appends of advisories.*)

StoreInv == TypeOK /\ EndpointsInv /\ ReplayInv

\* An advisory that is raised has a new subject, and is well formed.
LEMMA AdvisoryBegins ==
  ASSUME TypeOK, DispatchSound, NEW output \in dispatch.outputs, RaiseAdvisory(output)
  PROVE  /\ dispatch # Quiet /\ pending = Idle
         /\ UNCHANGED <<log, graph, reply, seen, torn, dispatch, raised>>
         /\ pending' \in Pending /\ TypeOK'
         /\ WellFormed(pending'.event)
         /\ pending'.event.kind = "advisory-raised"
         /\ pending'.event.subject \in Subjects /\ ~Exists(graph, pending'.event.subject)
         /\ pending'.event.other = output.about
         /\ pending'.event.props = NoProps
         /\ pending'.steps = Steps(pending'.event) /\ pending'.start = graph
<1> DEFINE advisory == CHOOSE s \in Unused : TRUE
           e == AdvisoryEvent(advisory, output)
<1>1. /\ pending = Idle /\ Unused # {} /\ Begin("append", e, "committed")
      /\ UNCHANGED <<dispatch, raised>>
  BY DEF RaiseAdvisory
<1>2. advisory \in Unused
  BY <1>1
<1>3. advisory \in Subjects /\ ~Exists(graph, advisory)
  BY <1>2, ReactiveAssumption DEF Unused
<1>4. output.about \in Subjects
  BY DEF DispatchSound, DispatchShape, Output
<1> HIDE DEF advisory
<1>5. /\ e.kind = "advisory-raised" /\ e.subject = advisory /\ e.other = output.about
      /\ e.props = NoProps /\ WellFormed(e)
  <2>1. << >> \in Seq(Subjects) /\ << >> \in Seq(Step)
    OBVIOUS
  <2>2. e \in Event
    BY <1>3, <1>4, <2>1, PropsType
    DEF AdvisoryEvent, Event, EventKind, RelationKind, AuthorityClass
  <2> QED BY <1>4, <2>2 DEF AdvisoryEvent, WellFormed
<1> HIDE DEF e
<1>6. /\ TypeOK' /\ pending' \in Pending /\ pending'.event = e
      /\ pending'.steps = Steps(e) /\ pending'.start = graph
      /\ UNCHANGED <<log, graph, reply, seen, torn>>
  BY <1>1, <1>5, BeginType DEF Routes, Replies
<1>7. dispatch # Quiet
  BY DEF Quiet
<1> QED BY <1>1, <1>3, <1>5, <1>6, <1>7

\* What a dispatch does to the store is an action of the store, but for the
\* append of an advisory that begins.
LEMMA StoreActions ==
  ASSUME [ReactiveNext]_reactiveVars,
         \A output \in dispatch.outputs : ~RaiseAdvisory(output)
  PROVE  [Next]_vars
<1>1. ASSUME NEW e \in Events, PostEvent(e) PROVE Next
  BY <1>1 DEF PostEvent, Next
<1>2. CASE ProjectStep \/ CommitTrigger \/ AbortDispatch
  BY <1>2 DEF ProjectStep, CommitTrigger, AbortDispatch, Next
<1>3. CASE RunBehavior \/ Finish \/ UNCHANGED reactiveVars
  BY <1>3 DEF RunBehavior, Finish, reactiveVars
<1>4. ASSUME NEW output \in dispatch.outputs, CommitAdvisory(output) PROVE Next
  BY <1>4 DEF CommitAdvisory, Next
<1> QED BY <1>1, <1>2, <1>3, <1>4 DEF ReactiveNext, DispatchNext

LEMMA StoreInvNext ==
  ASSUME StoreInv, DispatchSound, [ReactiveNext]_reactiveVars
  PROVE  StoreInv'
<1>1. CASE \A output \in dispatch.outputs : ~RaiseAdvisory(output)
  <2>1. [Next]_vars
    BY <1>1, StoreActions
  <2>2. TypeOK'
    BY <2>1, TypeStep DEF StoreInv
  <2> QED BY <2>1, <2>2, EndpointsStep, ReplayStep DEF StoreInv
<1>2. ASSUME NEW output \in dispatch.outputs, RaiseAdvisory(output)
      PROVE  StoreInv'
  <2>1. /\ pending = Idle /\ UNCHANGED <<log, graph, reply, seen, torn>>
        /\ pending' \in Pending /\ TypeOK' /\ WellFormed(pending'.event)
        /\ pending'.steps = Steps(pending'.event) /\ pending'.start = graph
    BY <1>2, AdvisoryBegins DEF StoreInv
  <2>2. EndpointsInv'
    BY <2>1, EndpointsBegin DEF StoreInv
  <2>3. ReplayInv'
    BY <2>1, ReplayBegin DEF StoreInv
  <2> QED BY <2>1, <2>2, <2>3 DEF StoreInv
<1> QED BY <1>1, <1>2

-----------------------------------------------------------------------------
(* An advisory under way.                                                   *)

LEMMA AdvisorySteps ==
  ASSUME NEW e, e.kind = "advisory-raised", e.props = NoProps
  PROVE  Steps(e) = << Definition(e), Reference(e) >>
  BY DEF Steps, ConversationSteps, Definition, Reference

LEMMA AdvisoryStepsAre ==
  ASSUME NEW e, e.subject \in Subjects, e.other \in Subjects
  PROVE  /\ Definition(e) \in SubjectStep /\ Definition(e).op = "define"
         /\ Definition(e).subject = e.subject /\ Definition(e).needs = {e.other}
         /\ Definition(e).authority = "advisory"
         /\ ~IsRelationStep(Definition(e))
         /\ Reference(e) \in RelationStep /\ Reference(e).op = "relate"
         /\ Reference(e).needs = {} /\ IsRelationStep(Reference(e))
         /\ Reference(e).fact.from = e.subject /\ Reference(e).fact.to = e.other
         /\ Reference(e).fact.kind = "mentions"
         /\ Reference(e).fact.authority = "advisory"
<1>1. Definition(e) = [op |-> "define", needs |-> {e.other}, subject |-> e.subject,
                       authority |-> "advisory", props |-> NoProps]
  BY DEF Definition, Define, OnSubject
<1>2. Reference(e) = [op |-> "relate", needs |-> {},
                      fact |-> [from |-> e.subject, kind |-> "mentions", to |-> e.other,
                                authority |-> "advisory"]]
  BY DEF Reference, Relate, Fact
<1>3. Definition(e) \in SubjectStep
  BY <1>1, PropsType DEF SubjectStep, AuthorityClass
<1>4. Reference(e) \in RelationStep
  <2>1. [from |-> e.subject, kind |-> "mentions", to |-> e.other,
         authority |-> "advisory"] \in RelationFact
    BY DEF RelationFact, RelationKind, AuthorityClass
  <2> QED BY <1>2, <2>1 DEF RelationStep
<1> QED BY <1>1, <1>2, <1>3, <1>4 DEF IsRelationStep

\* Its next step succeeds, whichever it is: the append of an advisory never
\* fails, so a dispatch is never cut short.
LEMMA AdvisorySucceeds ==
  ASSUME TypeOK, AdvisoryUnderWay, pending.steps # << >>
  PROVE  StepOk(graph, Head(pending.steps))
<1> DEFINE e == pending.event
<1>1. /\ e.subject \in Subjects /\ e.other \in Subjects /\ e.subject # e.other
      /\ Exists(graph, e.other)
  BY DEF AdvisoryUnderWay
<1>2. CASE pending.steps = << Definition(e), Reference(e) >> /\ ~Exists(graph, e.subject)
  <2>1. Head(pending.steps) = Definition(e)
    BY <1>2
  <2> QED BY <1>1, <1>2, <2>1, AdvisoryStepsAre DEF StepOk
<1>3. CASE /\ pending.steps = << Reference(e) >>
           /\ \A r \in graph.relations : r.from # e.subject
  <2>1. Head(pending.steps) = Reference(e)
    BY <1>3
  <2> QED BY <1>1, <1>3, <2>1, AdvisoryStepsAre DEF StepOk, Related
<1> QED BY <1>2, <1>3 DEF AdvisoryUnderWay

\* It adds an advisory subject that was not there, or a relation between it and
\* what it is about, and leaves what the other subjects state.
LEMMA AdvisoryEffect ==
  ASSUME TypeOK, EndpointsExist, AdvisoryUnderWay, Project
  PROVE  /\ AdvisoryUnderWay'
         /\ Alike(graph', graph)
         /\ \A s \in Subjects : Exists(graph, s) =>
              Exists(graph', s) /\ Stated(graph', s) = Stated(graph, s)
         /\ \A s \in Subjects : Exists(graph', s) /\ ~Exists(graph, s)
                                  => graph'.subjects[s].authority = "advisory"
         /\ \A r \in graph'.relations \ graph.relations : r.authority = "advisory"
<1> DEFINE e == pending.event
           st == Head(pending.steps)
<1>1. /\ e.kind = "advisory-raised"
      /\ e.subject \in Subjects /\ e.other \in Subjects /\ e.subject # e.other
      /\ Exists(graph, e.other)
  BY DEF AdvisoryUnderWay
<1>2. /\ pending \in Pending /\ st \in Step /\ Len(log) \in Nat /\ graph \in Graph
      /\ StepOk(graph, st) /\ graph' = StepEffect(graph, st, Len(log))
      /\ pending' = [pending EXCEPT !.steps = Tail(@)] /\ pending.steps # << >>
  BY ProjectType DEF Project, TypeOK
<1>3. pending'.event = e /\ pending'.steps = Tail(pending.steps)
  BY <1>2 DEF Pending
<1>4. \A s \in Subjects : Exists(graph, s) => Exists(graph', s)
  BY <1>2, Effect
<1>5. CASE pending.steps = << Definition(e), Reference(e) >> /\ ~Exists(graph, e.subject)
  <2>1. st = Definition(e) /\ Tail(pending.steps) = << Reference(e) >>
    BY <1>5
  <2>2. graph' = [graph EXCEPT !.subjects[e.subject] =
                    NodeAfter(graph.subjects[e.subject], st, Len(log))]
    BY <1>1, <1>2, <2>1, AdvisoryStepsAre DEF StepEffect
  <2>3. graph.subjects[e.subject] = NoNode
    BY <1>5 DEF Exists
  <2>4. NodeAfter(graph.subjects[e.subject], st, Len(log)).authority = "advisory"
    BY <1>1, <1>2, <2>1, <2>3, NodeAfterType, AdvisoryStepsAre
  <2>5. /\ graph'.relations = graph.relations
        /\ \A s \in Subjects : s # e.subject => graph'.subjects[s] = graph.subjects[s]
        /\ graph'.subjects[e.subject].authority = "advisory"
    BY <1>1, <1>2, <2>2, <2>4 DEF Graph
  <2>6. \A r \in graph'.relations : r.from # e.subject
    BY <1>5, <2>5 DEF EndpointsExist
  <2>7. AdvisoryUnderWay'
    BY <1>1, <1>3, <1>4, <2>1, <2>6 DEF AdvisoryUnderWay
  <2>8. \A s \in Subjects : Exists(graph, s) => Stated(graph', s) = Stated(graph, s)
    BY <1>5, <2>5 DEF Stated
  <2>9. \A s \in Subjects : Exists(graph', s) /\ ~Exists(graph, s) => s = e.subject
    BY <2>5 DEF Exists
  <2> QED BY <1>4, <2>5, <2>7, <2>8, <2>9 DEF Alike
<1>6. CASE /\ pending.steps = << Reference(e) >>
           /\ \A r \in graph.relations : r.from # e.subject
  <2>1. st = Reference(e) /\ Tail(pending.steps) = << >>
    BY <1>6
  <2>2. graph' = [graph EXCEPT
                    !.relations = @ \cup {st.fact},
                    !.subjects = Touch(graph, {st.fact.from, st.fact.to}, Len(log))]
    BY <1>1, <1>2, <2>1, AdvisoryStepsAre DEF StepEffect
  <2>3. /\ graph'.relations = graph.relations \cup {st.fact}
        /\ graph'.subjects = Touch(graph, {e.subject, e.other}, Len(log))
    <3>1. st.fact.from = e.subject /\ st.fact.to = e.other
      BY <1>1, <2>1, AdvisoryStepsAre
    <3>2. /\ graph'.relations = graph.relations \cup {st.fact}
          /\ graph'.subjects = Touch(graph, {st.fact.from, st.fact.to}, Len(log))
      BY <1>2, <2>2 DEF Graph
    <3> QED BY <3>1, <3>2
  <2>4. st.fact.kind = "mentions" /\ st.fact.authority = "advisory"
    BY <1>1, <2>1, AdvisoryStepsAre
  <2>5. \A s \in Subjects : Exists(graph, s) => Stated(graph', s) = Stated(graph, s)
    BY <1>1, <1>2, <2>3, TouchKeeps
  <2>6. \A s \in Subjects : Exists(graph', s) => Exists(graph, s)
    <3>1. {e.subject, e.other} \in SUBSET Subjects
      BY <1>1
    <3>2. \A s \in Subjects :
            (Touch(graph, {e.subject, e.other}, Len(log))[s] # NoNode) <=> Exists(graph, s)
      BY <1>2, <3>1, TouchType
    <3> HIDE DEF e
    <3> QED BY <2>3, <3>2 DEF Exists
  <2>7. AdvisoryUnderWay'
    BY <1>1, <1>3, <1>4, <2>1 DEF AdvisoryUnderWay
  <2> QED BY <1>4, <2>3, <2>4, <2>5, <2>6, <2>7 DEF Alike
<1> QED BY <1>2, <1>5, <1>6 DEF AdvisoryUnderWay

-----------------------------------------------------------------------------
(* The dispatch.                                                            *)

LEMMA TriggerProject ==
  ASSUME StoreInv, dispatch = Quiet, pending # Idle, TriggerUnderWay, Project
  PROVE  TriggerUnderWay'
<1> DEFINE e == pending.event
           st == Head(pending.steps)
<1>1. /\ pending \in Pending /\ st \in Step /\ Len(log) \in Nat /\ graph \in Graph
      /\ StepOk(graph, st) /\ graph' = StepEffect(graph, st, Len(log))
      /\ pending' = [pending EXCEPT !.steps = Tail(@)] /\ pending.steps # << >>
  BY ProjectType DEF Project, TypeOK, StoreInv
<1>2. pending'.event = e /\ pending'.steps = Tail(pending.steps)
  BY <1>1 DEF Pending
<1>3. WellFormed(e)
  BY DEF StoreInv, ReplayInv
<1>4. ASSUME e.kind \in OfSubject
      PROVE  pending'.steps = << >> /\ Exists(graph', e.subject)
  <2>1. pending.steps = Steps(e)
    BY <1>1, <1>4 DEF TriggerUnderWay
  <2>2. e.subject \in Subjects /\ e.authority \in AuthorityClass /\ e.props \in Properties
        /\ e.relation \in RelationKind /\ (e.kind = "relation-declared" => e.other \in Subjects)
    BY <1>3, EventFields DEF WellFormed, NeedsOther, EventKind
  <2>3. CASE e.kind = "subject-defined"
    <3>1. Steps(e) = << Define({}, e.subject, e.authority, e.props) >>
      BY <2>3 DEF Steps, WorldSteps
    <3>2. st = Define({}, e.subject, e.authority, e.props) /\ Tail(pending.steps) = << >>
      BY <2>1, <3>1
    <3>3. e.subject \in Establishes(st)
      <4>1. ASSUME NEW s \in Subjects, NEW a \in AuthorityClass, NEW p \in Properties
            PROVE  s \in Establishes(Define({}, s, a, p))
        <5>1. {} \in SUBSET Subjects
          OBVIOUS
        <5>2. Establishes(Define({}, s, a, p)) = {} \cup {s}
          BY <5>1, SubjectSteps
        <5> QED BY <5>2
      <4> HIDE DEF e, st
      <4> QED BY <2>2, <3>2, <4>1
    <3> QED BY <1>1, <1>2, <3>2, <3>3, Effect
  <2>4. CASE e.kind = "relation-declared"
    <3> DEFINE f == Fact(e.subject, e.relation, e.other, e.authority)
    <3>1. Steps(e) = << Declare(f) >>
      BY <2>4 DEF Steps, WorldSteps
    <3>2. st = Declare(f) /\ Tail(pending.steps) = << >>
      BY <2>1, <3>1
    <3>3. e.subject \in st.needs
      BY <3>2 DEF Declare, Fact
    <3>4. Exists(graph, e.subject)
      BY <1>1, <3>3 DEF StepOk
    <3> QED BY <1>1, <1>2, <2>2, <3>2, <3>4, Effect
  <2> QED BY <1>4, <2>3, <2>4 DEF OfSubject
<1> QED BY <1>2, <1>4 DEF TriggerUnderWay

\* The steps that leave the log, the graph and the dispatch alone.
LEMMA DispatchKept ==
  ASSUME DispatchSound, UNCHANGED <<log, graph, pending, dispatch>>
  PROVE  DispatchSound'
<1>1. UNCHANGED pending /\ UNCHANGED graph
  OBVIOUS
<1>2. TriggerUnderWay' <=> TriggerUnderWay
  BY <1>1 DEF TriggerUnderWay, Exists
<1>3. AdvisoryUnderWay' <=> AdvisoryUnderWay
  BY <1>1 DEF AdvisoryUnderWay, Exists
<1> QED BY <1>2, <1>3 DEF DispatchSound, Exists

\* An entry is added to the log, and the graph stays as it is but for its
\* revision.
LEMMA CommitExtends ==
  ASSUME TypeOK, Commit
  PROVE  /\ pending \in Pending /\ pending # Idle /\ pending.steps = << >>
         /\ pending' = Idle /\ UNCHANGED torn
         /\ \A s \in Subjects : Exists(graph', s) <=> Exists(graph, s)
         /\ graph'.relations = graph.relations /\ graph'.subjects = graph.subjects
         /\ log \in Seq(LogEntry) /\ log' \in Seq(LogEntry)
         /\ Len(log') = Len(log) + 1 /\ Len(log') \in DOMAIN log'
         /\ Len(log') \notin DOMAIN log
         /\ log'[Len(log')].event = pending.event
         /\ \A t \in DOMAIN log : t \in DOMAIN log' /\ log'[t] = log[t]
         /\ \A t \in DOMAIN log' : t \in DOMAIN log \/ t = Len(log')
         /\ \A t \in DOMAIN log : Replays(log')[t] = Replays(log)[t]
<1> DEFINE entry == [event |-> pending.event, revision |-> RevisionAfter(graph, pending.event)]
<1>1. /\ pending # Idle /\ pending.steps = << >> /\ pending' = Idle /\ UNCHANGED torn
      /\ log' = Append(log, entry) /\ entry.event = pending.event
      /\ graph' = [graph EXCEPT !.revision = RevisionAfter(graph, pending.event)]
  BY DEF Commit
<1>2. pending \in Pending /\ log \in Seq(LogEntry) /\ graph \in Graph
  BY <1>1 DEF TypeOK
<1>3. graph'.relations = graph.relations /\ graph'.subjects = graph.subjects
  BY <1>1, <1>2 DEF Graph
<1>4. log' \in Seq(LogEntry)
  BY <1>1, TypeStep DEF Next, TypeOK
<1> HIDE DEF entry
<1>5. /\ Len(log') = Len(log) + 1 /\ Len(log') \in DOMAIN log' /\ Len(log') \notin DOMAIN log
      /\ log'[Len(log')] = entry
      /\ \A t \in DOMAIN log : t \in DOMAIN log' /\ log'[t] = log[t]
      /\ \A t \in DOMAIN log' : t \in DOMAIN log \/ t = Len(log')
      /\ \A t \in DOMAIN log : t \in 0..Len(log)
  BY <1>1, <1>2
<1>6. \A t \in 0..Len(log) : Replays(log')[t] = Replays(log)[t]
  BY <1>1, <1>2, ReplaysAppend
<1> QED BY <1>1, <1>2, <1>3, <1>4, <1>5, <1>6 DEF Exists

LEMMA DispatchSoundNext ==
  ASSUME StoreInv, DispatchSound, [ReactiveNext]_reactiveVars
  PROVE  DispatchSound'
<1> USE DEF StoreInv
<1>1. ASSUME NEW e \in Events, PostEvent(e)
      PROVE  DispatchSound'
  <2>1. CASE AppendEvent(e)
    <3>1. /\ dispatch = Quiet /\ dispatch' = Quiet /\ UNCHANGED <<log, graph>>
          /\ pending'.event = e /\ pending'.steps = Steps(e)
      BY <1>1, <2>1, Submitted, BeginType DEF PostEvent, AppendEvent, Routes, Replies
    <3> QED BY <3>1 DEF DispatchSound, TriggerUnderWay
  <2>2. CASE AppendDuplicate(e)
    BY <1>1, <2>2, DispatchKept DEF PostEvent, AppendDuplicate
  <2> QED BY <1>1, <2>1, <2>2 DEF PostEvent
<1>2. CASE ProjectStep
  <2>1. Project /\ UNCHANGED <<log, dispatch>> /\ pending # Idle /\ pending' # Idle
    BY <1>2, ProjectType, NotIdle DEF ProjectStep, Project
  <2>2. CASE dispatch = Quiet
    BY <2>1, <2>2, TriggerProject DEF DispatchSound
  <2>3. CASE dispatch # Quiet
    <3>1. AdvisoryUnderWay
      BY <2>1, <2>3 DEF DispatchSound
    <3>2. AdvisoryUnderWay' /\ \A s \in Subjects : Exists(graph, s) => Exists(graph', s)
      BY <2>1, <3>1, AdvisoryEffect DEF EndpointsInv
    <3>3. \A o \in dispatch.outputs : o.about \in Subjects
      BY DEF DispatchSound, DispatchShape, Output
    <3>4. log[dispatch.trigger].event.subject \in Subjects
      BY <2>3, EventFields DEF DispatchSound, ReplayInv
    <3> QED BY <2>1, <2>3, <3>2, <3>3, <3>4 DEF DispatchSound
  <2> QED BY <2>2, <2>3
<1>3. CASE CommitTrigger
  <2> DEFINE d == [trigger |-> Len(log'), left |-> Builtin, outputs |-> {}]
  <2>1. Commit /\ dispatch = Quiet /\ dispatch' = d
    BY <1>3 DEF CommitTrigger
  <2>2. /\ pending # Idle /\ pending.steps = << >> /\ pending' = Idle
        /\ Len(log') \in DOMAIN log' /\ Len(log') \in Nat
        /\ log'[Len(log')].event = pending.event
        /\ \A s \in Subjects : Exists(graph', s) <=> Exists(graph, s)
    BY <2>1, CommitExtends
  <2>3. pending.event.kind \in OfSubject => Exists(graph, pending.event.subject)
    <3>1. TriggerUnderWay /\ WellFormed(pending.event)
      BY <2>1, <2>2 DEF DispatchSound, ReplayInv
    <3>2. pending.event.kind \in OfSubject => Steps(pending.event) # << >>
      BY DEF OfSubject, Steps, WorldSteps
    <3> QED BY <2>2, <3>1, <3>2 DEF TriggerUnderWay
  <2>4. pending.event.subject \in Subjects
    BY <2>2, EventFields DEF ReplayInv
  <2>5. d \in DispatchShape /\ d.trigger = Len(log') /\ d.outputs = {}
    BY <2>2 DEF DispatchShape, Rests
  <2> HIDE DEF d
  <2> QED BY <2>1, <2>2, <2>3, <2>4, <2>5 DEF DispatchSound
<1>4. CASE AbortDispatch
  <2>1. dispatch' = Quiet /\ pending' = Idle
    BY <1>4 DEF AbortDispatch, Abort
  <2> QED BY <2>1, QuietShape DEF DispatchSound
<1>5. CASE RunBehavior
  <2> DEFINE b == Head(dispatch.left)
             e == log[dispatch.trigger].event
             said == Said(b, graph, e)
  <2>1. /\ dispatch.left # << >> /\ pending = Idle /\ UNCHANGED vars
        /\ dispatch' = [dispatch EXCEPT !.left = Tail(@), !.outputs = said]
    BY <1>5 DEF RunBehavior, Said
  <2>2. dispatch \in DispatchShape /\ dispatch # Quiet /\ dispatch.trigger \in DOMAIN log
    BY <2>1 DEF DispatchSound, Quiet
  <2>3. b \in BehaviorNames /\ Tail(dispatch.left) \in Rests
    BY <2>1, <2>2, NextBehavior
  <2>4. WellFormed(e) /\ graph \in Graph
    BY <2>2 DEF ReplayInv, TypeOK
  <2>5. \A o \in said : o \in Output /\ Exists(graph, o.about)
    BY <2>2, <2>3, <2>4, ReactSays DEF DispatchSound, EndpointsInv, EndpointsExist
  <2> HIDE DEF said
  <2>6. /\ dispatch' \in DispatchShape /\ dispatch'.trigger = dispatch.trigger
        /\ dispatch'.outputs = said
    BY <2>1, <2>2, <2>3, <2>5 DEF DispatchShape
  <2>7. UNCHANGED <<log, graph, pending>>
    BY <2>1 DEF vars
  <2> QED BY <2>1, <2>2, <2>5, <2>6, <2>7 DEF DispatchSound
<1>6. CASE Finish
  <2>1. dispatch' = Quiet /\ pending = Idle /\ pending' = pending
    BY <1>6 DEF Finish, vars
  <2> QED BY <2>1, QuietShape DEF DispatchSound
<1>7. ASSUME NEW output \in dispatch.outputs, RaiseAdvisory(output)
      PROVE  DispatchSound'
  <2>1. /\ dispatch # Quiet /\ UNCHANGED <<log, graph, dispatch>>
        /\ pending'.event.kind = "advisory-raised" /\ pending'.event.props = NoProps
        /\ pending'.event.subject \in Subjects /\ ~Exists(graph, pending'.event.subject)
        /\ pending'.event.other = output.about
        /\ pending'.steps = Steps(pending'.event)
    BY <1>7, AdvisoryBegins
  <2>2. output.about \in Subjects /\ Exists(graph, output.about)
    BY <2>1 DEF DispatchSound, DispatchShape, Output
  <2>3. pending'.steps = << Definition(pending'.event), Reference(pending'.event) >>
    BY <2>1, AdvisorySteps
  <2>4. AdvisoryUnderWay'
    BY <2>1, <2>2, <2>3 DEF AdvisoryUnderWay, Definition, Reference
  <2> QED BY <2>1, <2>4 DEF DispatchSound
<1>8. ASSUME NEW output \in dispatch.outputs, CommitAdvisory(output)
      PROVE  DispatchSound'
  <2>1. /\ Commit /\ dispatch # Quiet
        /\ dispatch' = [dispatch EXCEPT !.outputs = @ \ {output}]
    BY <1>8 DEF CommitAdvisory
  <2>2. /\ dispatch' \in DispatchShape /\ dispatch'.trigger = dispatch.trigger
        /\ dispatch'.outputs \subseteq dispatch.outputs
    BY <2>1 DEF DispatchSound, DispatchShape
  <2>3. /\ pending' = Idle
        /\ \A s \in Subjects : Exists(graph', s) <=> Exists(graph, s)
        /\ \A t \in DOMAIN log : t \in DOMAIN log' /\ log'[t] = log[t]
    BY <2>1, CommitExtends
  <2>4. \A o \in dispatch.outputs : o.about \in Subjects
    BY DEF DispatchSound, DispatchShape, Output
  <2>5. log[dispatch.trigger].event.subject \in Subjects
    BY <2>1, EventFields DEF DispatchSound, ReplayInv
  <2> QED BY <2>1, <2>2, <2>3, <2>4, <2>5 DEF DispatchSound
<1>9. CASE UNCHANGED reactiveVars
  BY <1>9, DispatchKept DEF reactiveVars, vars
<1> QED BY <1>1, <1>2, <1>3, <1>4, <1>5, <1>6, <1>7, <1>8, <1>9 DEF ReactiveNext, DispatchNext

-----------------------------------------------------------------------------
(* Each output is raised once.                                              *)

LEMMA CausedAre ==
  \A t, o : o \in Caused(t) <=> \E r \in raised : r.cause = t /\ r.output = o
  BY DEF Caused

\* An advisory that is committed is one more of its trigger, and of no other.
LEMMA CausedGrows ==
  ASSUME NEW at, NEW c, NEW o,
         raised' = raised \cup {[at |-> at, cause |-> c, output |-> o]}
  PROVE  /\ Caused(c)' = Caused(c) \cup {o}
         /\ \A t : t # c => Caused(t)' = Caused(t)
<1> DEFINE new == [at |-> at, cause |-> c, output |-> o]
<1>1. new.cause = c /\ new.output = o /\ raised' = raised \cup {new}
  OBVIOUS
<1> HIDE DEF new
<1>2. ASSUME NEW t, NEW x
      PROVE  x \in Caused(t)' <=> x \in Caused(t) \/ (t = c /\ x = o)
  BY <1>1 DEF Caused
<1> QED BY <1>2

LEMMA OnceKept ==
  ASSUME RaisedOnce, UNCHANGED raised, DOMAIN log \subseteq DOMAIN log',
         dispatch' = dispatch \/ dispatch' = Quiet
  PROVE  RaisedOnce'
<1>1. \A t : Caused(t)' = Caused(t)
  BY DEF Caused
<1>2. CASE dispatch' = dispatch
  BY <1>1, <1>2 DEF RaisedOnce
<1>3. CASE dispatch' = Quiet
  BY <1>1, <1>3 DEF RaisedOnce, Quiet
<1> QED BY <1>2, <1>3

LEMMA RaisedOnceNext ==
  ASSUME StoreInv, DispatchSound, RaisedOnce, [ReactiveNext]_reactiveVars
  PROVE  RaisedOnce'
<1> USE DEF StoreInv
<1>1. ASSUME NEW e \in Events, PostEvent(e)
      PROVE  RaisedOnce'
  <2>1. UNCHANGED <<log, dispatch, raised>>
    BY <1>1 DEF PostEvent, AppendEvent, AppendDuplicate, Begin
  <2> QED BY <2>1, OnceKept
<1>2. CASE ProjectStep
  BY <1>2, OnceKept DEF ProjectStep, Project
<1>3. CASE CommitTrigger
  <2> PICK t : t = Len(log')
    OBVIOUS
  <2>1. /\ Commit /\ UNCHANGED raised
        /\ dispatch' = [trigger |-> t, left |-> Builtin, outputs |-> {}]
    BY <1>3 DEF CommitTrigger
  <2>2. t \notin DOMAIN log /\ DOMAIN log \subseteq DOMAIN log'
    BY <2>1, CommitExtends
  <2>3. dispatch'.trigger = t /\ dispatch'.outputs = {}
    BY <2>1
  <2>4. \A r \in raised : r.cause # t
    BY <2>2 DEF RaisedOnce
  <2>5. Caused(t)' = {}
    BY <2>1, <2>4 DEF Caused
  <2>6. Caused(dispatch.trigger)' = {}
    BY <2>3, <2>5
  <2> QED BY <2>1, <2>2, <2>3, <2>6 DEF RaisedOnce
<1>4. CASE AbortDispatch \/ Finish
  BY <1>4, OnceKept DEF AbortDispatch, Abort, Finish, vars
<1>5. CASE RunBehavior
  <2> DEFINE b == Head(dispatch.left)
             e == log[dispatch.trigger].event
             said == Said(b, graph, e)
  <2>1. /\ dispatch.left # << >> /\ UNCHANGED <<log, graph, raised>>
        /\ dispatch' = [dispatch EXCEPT !.left = Tail(@), !.outputs = said]
    BY <1>5 DEF RunBehavior, Said, vars
  <2>2. dispatch \in DispatchShape /\ dispatch # Quiet /\ dispatch.trigger \in DOMAIN log
    BY <2>1 DEF DispatchSound, Quiet
  <2>3. /\ b \in BehaviorNames /\ LeftOf(dispatch) = {b} \cup LeftOf(dispatch')
        /\ b \notin LeftOf(dispatch')
    <3>1. LeftOf([dispatch EXCEPT !.left = Tail(@)]) = LeftOf(dispatch')
      BY <2>1, <2>2 DEF LeftOf, DispatchShape
    <3> QED BY <2>1, <2>2, <3>1, NextBehavior
  <2>4. WellFormed(e) /\ graph \in Graph
    BY <2>2 DEF ReplayInv, TypeOK
  <2>5. \A o \in said : o.behavior = b
    BY <2>3, <2>4, ReactSays
  <2> HIDE DEF said
  <2>6. dispatch'.trigger = dispatch.trigger /\ dispatch'.outputs = said
    BY <2>1, <2>2 DEF DispatchShape
  <2>7. Caused(dispatch.trigger)' = Caused(dispatch.trigger)
    BY <2>1, <2>6 DEF Caused
  <2> QED BY <2>1, <2>2, <2>3, <2>5, <2>6, <2>7 DEF RaisedOnce
<1>6. ASSUME NEW output \in dispatch.outputs, RaiseAdvisory(output)
      PROVE  RaisedOnce'
  BY <1>6, OnceKept DEF RaiseAdvisory, Begin
<1>7. ASSUME NEW output \in dispatch.outputs, CommitAdvisory(output)
      PROVE  RaisedOnce'
  <2> DEFINE new == [at |-> Len(log'), cause |-> dispatch.trigger, output |-> output]
  <2>1. /\ Commit /\ dispatch # Quiet
        /\ dispatch' = [dispatch EXCEPT !.outputs = @ \ {output}]
        /\ raised' = raised \cup {new}
    BY <1>7 DEF CommitAdvisory
  <2>2. DOMAIN log \subseteq DOMAIN log' /\ dispatch.trigger \in DOMAIN log
    BY <2>1, CommitExtends DEF DispatchSound
  <2>3. /\ dispatch'.trigger = dispatch.trigger /\ LeftOf(dispatch') = LeftOf(dispatch)
        /\ dispatch'.outputs = dispatch.outputs \ {output} /\ dispatch' # Quiet
    <3>1. dispatch \in DispatchShape
      BY DEF DispatchSound
    <3>2. dispatch'.trigger = dispatch.trigger /\ dispatch'.left = dispatch.left
          /\ dispatch'.outputs = dispatch.outputs \ {output}
      BY <2>1, <3>1 DEF DispatchShape
    <3>3. dispatch.trigger # 0
      BY <2>2 DEF TypeOK
    <3> QED BY <3>2, <3>3 DEF LeftOf, Quiet
  <2>4. Caused(dispatch.trigger)' = Caused(dispatch.trigger) \cup {output}
    <3>1. PICK t : t = dispatch.trigger
      OBVIOUS
    <3>2. Caused(t)' = Caused(t) \cup {output}
      <4>1. PICK at, o : at = Len(log') /\ o = output
        OBVIOUS
      <4>2. raised' = raised \cup {[at |-> at, cause |-> t, output |-> o]}
        BY <2>1, <3>1, <4>1
      <4>3. Caused(t)' = Caused(t) \cup {o}
        BY ONLY <4>2, CausedGrows
      <4> QED BY <4>1, <4>3
    <3>3. dispatch'.trigger = t
      BY <2>3, <3>1
    <3> QED BY <3>1, <3>2, <3>3
  <2>5. IsFiniteSet(raised')
    BY <2>1, FS_AddElement DEF RaisedOnce
  <2>6. new.cause = dispatch.trigger /\ new.output = output
    OBVIOUS
  <2> HIDE DEF new
  <2>7. \A r \in raised' : r.cause \in DOMAIN log'
    BY <2>1, <2>2, <2>6 DEF RaisedOnce
  <2>8. \A q \in raised : q.cause = dispatch.trigger => q.output # output
    BY <2>1, CausedAre DEF RaisedOnce
  <2>9. \A q, r \in raised' : q.cause = r.cause /\ q.output = r.output => q = r
    BY <2>1, <2>6, <2>8 DEF RaisedOnce
  <2>10. output.behavior \notin LeftOf(dispatch)
    BY DEF RaisedOnce
  <2> QED BY <2>1, <2>3, <2>4, <2>5, <2>7, <2>9, <2>10 DEF RaisedOnce
<1>8. CASE UNCHANGED reactiveVars
  BY <1>8, OnceKept DEF reactiveVars, vars
<1> QED BY <1>1, <1>2, <1>3, <1>4, <1>5, <1>6, <1>7, <1>8 DEF ReactiveNext, DispatchNext

-----------------------------------------------------------------------------
(* What is raised is what the behaviors say of the graph after the trigger. *)

LEMMA AlikeThrough ==
  ASSUME NEW f, NEW g, NEW h, Alike(f, g), Alike(g, h)
  PROVE  Alike(f, h)
  BY DEF Alike

\* A dispatch with a trigger in the log is under way.
LEMMA UnderWay ==
  ASSUME NEW d, NEW entries \in Seq(LogEntry), d.trigger \in DOMAIN entries
  PROVE  d # Quiet
  BY DEF Quiet

\* The steps that only add what mentions what to the graph.
LEMMA ExactlyKept ==
  ASSUME RaisedExactly, UNCHANGED <<log, raised, dispatch>>,
         dispatch # Quiet => Alike(graph', graph)
  PROVE  RaisedExactly'
<1>1. \A t : Caused(t)' = Caused(t)
  BY DEF Caused
<1>2. dispatch # Quiet =>
        (Alike(graph, After(log, dispatch.trigger)) => Alike(graph', After(log, dispatch.trigger)))
  BY AlikeThrough
<1>3. Caused(dispatch.trigger)' = Caused(dispatch.trigger)
  BY DEF Caused
<1> QED BY <1>1, <1>2, <1>3 DEF RaisedExactly

\* A behavior has run: what it said is what is returned.
LEMMA ExactlyRuns ==
  ASSUME TypeOK, DispatchSound, RaisedExactly, RunBehavior
  PROVE  RaisedExactly'
<1> DEFINE b == Head(dispatch.left)
           e == log[dispatch.trigger].event
           g == After(log, dispatch.trigger)
           said == Said(b, graph, e)
<1>1. /\ dispatch.left # << >> /\ dispatch.outputs = {}
      /\ UNCHANGED <<log, graph, raised>>
      /\ dispatch' = [dispatch EXCEPT !.left = Tail(@), !.outputs = said]
  BY DEF RunBehavior, Said, vars
<1>2. dispatch \in DispatchShape /\ dispatch # Quiet
  BY <1>1 DEF DispatchSound, Quiet
<1>3. b \in BehaviorNames /\ LeftOf(dispatch) = {b} \cup LeftOf(dispatch')
  <2>1. LeftOf([dispatch EXCEPT !.left = Tail(@)]) = LeftOf(dispatch')
    BY <1>1, <1>2 DEF LeftOf, DispatchShape
  <2> QED BY <1>1, <1>2, <2>1, NextBehavior
<1>4. dispatch'.trigger = dispatch.trigger /\ dispatch'.outputs = said
  BY <1>1, <1>2 DEF DispatchShape
<1>5. /\ Alike(graph, g)
      /\ Caused(dispatch.trigger) \cup UNION {Said(x, g, e) : x \in LeftOf(dispatch)}
           = AllSaid(g, e)
  BY <1>1, <1>2 DEF RaisedExactly
<1>6. said = Said(b, g, e)
  BY <1>3, <1>5, SaidAlike
<1>7. UNION {Said(x, g, e) : x \in LeftOf(dispatch)}
        = said \cup UNION {Said(x, g, e) : x \in LeftOf(dispatch')}
  <2> HIDE DEF b, e, g, said
  <2> QED BY <1>3, <1>6
<1>8. Caused(dispatch.trigger)' = Caused(dispatch.trigger)
  BY <1>1, <1>4 DEF Caused
<1>9. \A t \in DOMAIN log : t # dispatch.trigger =>
        Caused(t)' = AllSaid(After(log, t), log[t].event)
  BY <1>1, <1>2 DEF RaisedExactly, Caused
<1>10. Caused(dispatch.trigger) \cup said
         \cup UNION {Said(x, g, e) : x \in LeftOf(dispatch')} = AllSaid(g, e)
  BY <1>5, <1>7
<1>11. dispatch' # Quiet
  BY <1>2, <1>4, UnderWay DEF DispatchSound, TypeOK
<1> QED BY <1>1, <1>4, <1>5, <1>8, <1>9, <1>10, <1>11 DEF RaisedExactly

\* A trigger is committed: nothing is said of it yet, and the graph is the one
\* that its log entry rebuilds to.
LEMMA ExactlyTriggered ==
  ASSUME StoreInv', TypeOK, RaisedOnce, RaisedExactly, CommitTrigger, torn' = {}
  PROVE  RaisedExactly'
<1> PICK t : t = Len(log')
  OBVIOUS
<1>1. /\ Commit /\ UNCHANGED raised /\ dispatch = Quiet
      /\ dispatch' = [trigger |-> t, left |-> Builtin, outputs |-> {}]
  BY DEF CommitTrigger
<1>2. /\ t \notin DOMAIN log /\ t \in DOMAIN log' /\ pending' = Idle
      /\ \A i \in DOMAIN log' : i \in DOMAIN log \/ i = t
      /\ \A i \in DOMAIN log : log'[i] = log[i] /\ Replays(log')[i] = Replays(log)[i]
  BY <1>1, CommitExtends
<1>3. \A i : Caused(i)' = Caused(i)
  BY <1>1 DEF Caused
<1>4. Caused(t)' = {}
  <2>1. \A r \in raised : r.cause # t
    BY <1>2 DEF RaisedOnce
  <2>2. Caused(t) = {}
    BY <2>1 DEF Caused
  <2> QED BY <1>3, <2>2
<1>5. After(log', t) = graph'
  <2>1. Replays(log')[t] = Ran(TRUE, graph')
    BY <1>2 DEF StoreInv, ReplayInv, Replayed, Settled
  <2> QED BY <2>1 DEF After, Ran
<1>6. \A i \in DOMAIN log : Caused(i)' = AllSaid(After(log', i), log'[i].event)
  BY <1>1, <1>2, <1>3 DEF RaisedExactly, After
<1>7. dispatch'.trigger = t /\ dispatch'.outputs = {} /\ LeftOf(dispatch') = BehaviorNames
  BY <1>1 DEF LeftOf, Builtin, BehaviorNames
<1>8. Caused(dispatch.trigger)' = {}
  BY <1>4, <1>7
<1>9. Alike(graph', After(log', t))
  BY <1>5, AlikeItself
<1>10. Caused(dispatch.trigger)' \cup dispatch'.outputs
         \cup UNION {Said(b, After(log', t), log'[t].event) : b \in LeftOf(dispatch')}
         = AllSaid(After(log', t), log'[t].event)
  BY <1>7, <1>8 DEF AllSaid
<1>11. dispatch' # Quiet
  BY <1>2, <1>7, UnderWay DEF StoreInv, TypeOK
<1> QED BY <1>2, <1>6, <1>7, <1>9, <1>10, <1>11 DEF RaisedExactly

\* An advisory is committed: it is raised, and causes none itself.
LEMMA ExactlyAdvised ==
  ASSUME TypeOK, DispatchSound, RaisedOnce, RaisedExactly,
         NEW output \in dispatch.outputs, CommitAdvisory(output)
  PROVE  RaisedExactly'
<1> PICK n, c : n = Len(log') /\ c = dispatch.trigger
  OBVIOUS
<1> DEFINE g == After(log, c)
           e == log[c].event
<1>1. /\ Commit /\ dispatch # Quiet
      /\ dispatch' = [dispatch EXCEPT !.outputs = @ \ {output}]
  BY DEF CommitAdvisory
<1>2. /\ n \notin DOMAIN log /\ n \in DOMAIN log'
      /\ log'[n].event = pending.event /\ pending # Idle
      /\ graph'.relations = graph.relations
      /\ \A i \in DOMAIN log' : i \in DOMAIN log \/ i = n
      /\ \A i \in DOMAIN log : log'[i] = log[i] /\ Replays(log')[i] = Replays(log)[i]
  BY <1>1, CommitExtends
<1>3. /\ c \in DOMAIN log /\ pending.event.kind = "advisory-raised"
      /\ dispatch \in DispatchShape
  BY <1>1, <1>2 DEF DispatchSound, AdvisoryUnderWay
<1>4. /\ dispatch'.trigger = c /\ LeftOf(dispatch') = LeftOf(dispatch)
      /\ dispatch'.outputs = dispatch.outputs \ {output}
  BY <1>1, <1>3 DEF DispatchShape, LeftOf
<1>5. Caused(c)' = Caused(c) \cup {output} /\ \A t : t # c => Caused(t)' = Caused(t)
  <2>1. PICK o : o = output
    OBVIOUS
  <2>2. raised' = raised \cup {[at |-> n, cause |-> c, output |-> o]}
    BY <2>1 DEF CommitAdvisory
  <2>3. Caused(c)' = Caused(c) \cup {o} /\ \A t : t # c => Caused(t)' = Caused(t)
    BY ONLY <2>2, CausedGrows
  <2> QED BY <2>1, <2>3
<1>6. Caused(n)' = {}
  <2>1. n # c
    BY <1>2, <1>3
  <2>2. Caused(n) = {}
    BY <1>2 DEF RaisedOnce, Caused
  <2> QED BY <1>5, <2>1, <2>2
<1>7. AllSaid(After(log', n), log'[n].event) = {}
  BY <1>2, <1>3, AdvisoriesSilent
<1>8. \A i \in DOMAIN log' : i # c => Caused(i)' = AllSaid(After(log', i), log'[i].event)
  BY <1>1, <1>2, <1>5, <1>6, <1>7 DEF RaisedExactly, After
<1>9. After(log', c) = g /\ log'[c].event = e
  BY <1>2, <1>3 DEF After
<1>10. Alike(graph', g)
  BY <1>1, <1>2 DEF RaisedExactly, Alike
<1>11. Caused(c) \cup dispatch.outputs \cup UNION {Said(b, g, e) : b \in LeftOf(dispatch)}
         = AllSaid(g, e)
  BY <1>1 DEF RaisedExactly
<1>12. Caused(c)' \cup dispatch'.outputs \cup UNION {Said(b, g, e) : b \in LeftOf(dispatch')}
         = AllSaid(g, e)
  <2> HIDE DEF g, e
  <2> QED BY <1>4, <1>5, <1>11
<1>13. Caused(dispatch.trigger)' = Caused(c)'
  BY <1>4
<1>14. dispatch' # Quiet
  BY <1>3, <1>4, UnderWay DEF TypeOK
<1> QED BY <1>4, <1>8, <1>9, <1>10, <1>12, <1>13, <1>14 DEF RaisedExactly

LEMMA RaisedExactlyNext ==
  ASSUME StoreInv, StoreInv', DispatchSound, RaisedOnce, torn = {} => RaisedExactly,
         [ReactiveNext]_reactiveVars, torn' = {}
  PROVE  RaisedExactly'
<1> USE DEF StoreInv
<1>1. ASSUME NEW e \in Events, PostEvent(e)
      PROVE  RaisedExactly'
  <2>1. UNCHANGED <<log, graph, torn, dispatch, raised>>
    BY <1>1 DEF PostEvent, AppendEvent, AppendDuplicate, Begin
  <2> QED BY <2>1, ExactlyKept, AlikeItself
<1>2. CASE ProjectStep
  <2>1. Project /\ pending # Idle /\ UNCHANGED <<log, torn, dispatch, raised>>
    BY <1>2 DEF ProjectStep, Project
  <2>2. dispatch # Quiet => Alike(graph', graph)
    BY <2>1, AdvisoryEffect DEF DispatchSound, EndpointsInv
  <2> QED BY <2>1, <2>2, ExactlyKept
<1>3. CASE CommitTrigger
  <2>1. torn = {}
    BY <1>3, CommitExtends DEF CommitTrigger
  <2> QED BY <1>3, <2>1, ExactlyTriggered
<1>4. CASE AbortDispatch
  <2>1. /\ pending # Idle /\ pending.steps # << >> /\ ~StepOk(graph, Head(pending.steps))
        /\ UNCHANGED <<log, graph, raised>> /\ dispatch' = Quiet /\ torn = {}
    BY <1>4 DEF AbortDispatch, Abort
  <2>2. dispatch = Quiet
    BY <2>1, AdvisorySucceeds DEF DispatchSound, EndpointsInv
  <2> QED BY <2>1, <2>2, ExactlyKept
<1>5. CASE RunBehavior
  BY <1>5, ExactlyRuns DEF RunBehavior, vars
<1>6. CASE Finish
  <2>1. /\ dispatch # Quiet /\ dispatch.left = << >> /\ dispatch.outputs = {}
        /\ dispatch' = Quiet /\ UNCHANGED <<log, raised, torn>>
    BY <1>6 DEF Finish, vars
  <2>2. LeftOf(dispatch) = {}
    BY <2>1 DEF LeftOf
  <2>3. Caused(dispatch.trigger)
          = AllSaid(After(log, dispatch.trigger), log[dispatch.trigger].event)
    BY <2>1, <2>2 DEF RaisedExactly
  <2>4. \A t : Caused(t)' = Caused(t)
    BY <2>1 DEF Caused
  <2> QED BY <2>1, <2>3, <2>4 DEF RaisedExactly
<1>7. ASSUME NEW output \in dispatch.outputs, RaiseAdvisory(output)
      PROVE  RaisedExactly'
  <2>1. UNCHANGED <<log, graph, torn, dispatch, raised>>
    BY <1>7 DEF RaiseAdvisory, Begin
  <2> QED BY <2>1, ExactlyKept, AlikeItself
<1>8. ASSUME NEW output \in dispatch.outputs, CommitAdvisory(output)
      PROVE  RaisedExactly'
  <2>1. torn = {}
    BY <1>8, CommitExtends DEF CommitAdvisory
  <2> QED BY <1>8, <2>1, ExactlyAdvised
<1>9. CASE UNCHANGED reactiveVars
  BY <1>9, ExactlyKept, AlikeItself DEF reactiveVars, vars
<1> QED BY <1>1, <1>2, <1>3, <1>4, <1>5, <1>6, <1>7, <1>8, <1>9 DEF ReactiveNext, DispatchNext

LEMMA ReactiveInvariant == ReactiveSpec => []ReactiveInv
<1>1. ReactiveInit => ReactiveInv
  <2> SUFFICES ASSUME ReactiveInit PROVE ReactiveInv
    OBVIOUS
  <2>1. Init /\ dispatch = Quiet /\ raised = {}
    BY DEF ReactiveInit
  <2>2. StoreInv
    BY <2>1, TypeInit, EndpointsInit, ReplayInit DEF StoreInv
  <2>3. log = << >> /\ pending = Idle
    BY <2>1 DEF Init
  <2>4. DispatchSound
    BY <2>1, <2>3, QuietShape DEF DispatchSound
  <2>5. RaisedOnce
    BY <2>1, FS_EmptySet DEF RaisedOnce, Quiet
  <2>6. RaisedExactly
    BY <2>1, <2>3 DEF RaisedExactly
  <2> QED BY <2>2, <2>4, <2>5, <2>6 DEF ReactiveInv, StoreInv
<1>2. ReactiveInv /\ [ReactiveNext]_reactiveVars => ReactiveInv'
  <2> SUFFICES ASSUME ReactiveInv, [ReactiveNext]_reactiveVars PROVE ReactiveInv'
    OBVIOUS
  <2>1. StoreInv'
    BY StoreInvNext DEF ReactiveInv, StoreInv
  <2>2. DispatchSound' /\ RaisedOnce'
    BY DispatchSoundNext, RaisedOnceNext DEF ReactiveInv, StoreInv
  <2>3. torn' = {} => RaisedExactly'
    BY <2>1, RaisedExactlyNext DEF ReactiveInv, StoreInv
  <2> QED BY <2>1, <2>2, <2>3 DEF ReactiveInv, StoreInv
<1> QED BY <1>1, <1>2, PTL DEF ReactiveSpec

\* A trigger has as many advisories as outputs.
LEMMA CausedOnce ==
  ASSUME RaisedOnce, NEW t
  PROVE  Cardinality({r \in raised : r.cause = t}) = Cardinality(Caused(t))
<1> DEFINE of == {r \in raised : r.cause = t}
           f == [r \in of |-> r.output]
<1>1. IsFiniteSet(of)
  BY FS_Subset DEF RaisedOnce
<1>2. Caused(t) = {r.output : r \in of}
  BY DEF Caused
<1>3. f \in Bijection(of, Caused(t))
  <2>1. f \in [of -> Caused(t)] /\ \A o \in Caused(t) : \E r \in of : f[r] = o
    BY <1>2
  <2>2. \A q, r \in of : f[q] = f[r] => q = r
    BY DEF RaisedOnce
  <2> QED BY <2>1, <2>2 DEF Bijection, Injection, Surjection, IsInjective
<1>4. ExistsBijection(of, Caused(t))
  BY <1>3 DEF ExistsBijection
<1> QED BY <1>1, <1>4, FS_Bijection

\* Every posted event has caused exactly the advisories that the state right
\* after it justifies, each once, however the dispatches of events before and
\* after it went, and no advisory has caused another.
THEOREM AdvisoriesExact == ReactiveSpec => []AdvisoriesMatchTriggers
<1>1. ReactiveInv => AdvisoriesMatchTriggers
  <2> SUFFICES ASSUME ReactiveInv, dispatch = Quiet, torn = {}, NEW t \in DOMAIN log
               PROVE  /\ Caused(t) = Justified(t)
                      /\ Cardinality({r \in raised : r.cause = t}) = Cardinality(Justified(t))
    BY DEF AdvisoriesMatchTriggers, Caused
  <2>1. Caused(t) = AllSaid(After(log, t), log[t].event)
    BY DEF ReactiveInv, RaisedExactly
  <2>2. Caused(t) = Justified(t)
    BY <2>1, JustifiedIs DEF ReactiveInv, TypeOK
  <2> QED BY <2>2, CausedOnce DEF ReactiveInv
<1> QED BY <1>1, ReactiveInvariant, PTL

\* While a dispatch runs, nothing that was in the graph states anything new,
\* and whatever is added to the graph is advisory.
THEOREM OnlyAdvise == ReactiveSpec => BehaviorsOnlyAdvise
<1> DEFINE Advises ==
      /\ \A s \in Subjects : Exists(graph, s) => Stated(graph', s) = Stated(graph, s)
      /\ \A s \in Subjects : Exists(graph', s) /\ ~Exists(graph, s)
                               => graph'.subjects[s].authority = "advisory"
      /\ \A r \in graph'.relations \ graph.relations : r.authority = "advisory"
<1>1. ASSUME graph'.subjects = graph.subjects, graph'.relations = graph.relations
      PROVE  Advises
  BY <1>1 DEF Exists, Stated
<1>2. ASSUME ReactiveInv, ReactiveNext, dispatch # Quiet
      PROVE  Advises
  <2> HIDE DEF Advises
  <2>1. ASSUME NEW e \in Events, PostEvent(e) PROVE FALSE
    BY <1>2, <2>1 DEF PostEvent
  <2>2. CASE ProjectStep
    <3>1. AdvisoryUnderWay /\ Project
      BY <1>2, <2>2 DEF ProjectStep, Project, ReactiveInv, DispatchSound
    <3> QED BY <1>2, <3>1, AdvisoryEffect DEF Advises, ReactiveInv, EndpointsInv
  <2>3. CASE CommitTrigger
    BY <1>2, <2>3 DEF CommitTrigger
  <2>4. CASE AbortDispatch \/ RunBehavior \/ Finish
    BY <1>1, <2>4 DEF AbortDispatch, Abort, RunBehavior, Finish, vars
  <2>5. ASSUME NEW output \in dispatch.outputs, RaiseAdvisory(output) PROVE Advises
    BY <1>1, <2>5 DEF RaiseAdvisory, Begin
  <2>6. ASSUME NEW output \in dispatch.outputs, CommitAdvisory(output) PROVE Advises
    <3>1. Commit
      BY <2>6 DEF CommitAdvisory
    <3> QED BY <1>1, <1>2, <3>1, CommitExtends DEF ReactiveInv
  <2> QED BY <1>2, <2>1, <2>2, <2>3, <2>4, <2>5, <2>6 DEF ReactiveNext, DispatchNext
<1>3. ReactiveInv /\ [ReactiveNext]_reactiveVars
        => [dispatch # Quiet => Advises]_reactiveVars
  BY <1>2
<1>4. ReactiveSpec => [][dispatch # Quiet => Advises]_reactiveVars
  BY <1>3, ReactiveInvariant, PTL DEF ReactiveSpec
<1> QED BY <1>4 DEF BehaviorsOnlyAdvise
================================================================================
