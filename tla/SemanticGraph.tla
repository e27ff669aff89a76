----------------------------- MODULE SemanticGraph -----------------------------
(***************************************************************************)
(* The data of vistalith-graph: the Semantic World Graph, the events and   *)
(* the primitive graph mutations each event projects to, and the           *)
(* validation of graph patches.  Constant level only: GraphStore is the    *)
(* state machine over it.                                                  *)
(*                                                                         *)
(* apply_event mutates the graph in place, one primitive at a time, and    *)
(* returns at the first primitive that fails.  An event is therefore       *)
(* described by the sequence of primitive steps its projection runs        *)
(* (Steps); each step carries the checks the code makes before it.         *)
(***************************************************************************)
EXTENDS Naturals, Sequences, FiniteSets

CONSTANTS
  Subjects,      \* subject references (namespace:kind:id)
  SddkSubjects,  \* those of namespace `sddk`
  NoSubject,     \* an optional subject field that is absent
  NoNode,        \* the graph's answer for a subject it does not hold
  PropKeys,      \* property names
  PropValues,    \* property values
  Unset,         \* a property name with no value
  EventIds,      \* event ids chosen by the writers of events
  FreshId,       \* a generated id: never the id of another event
  Events,        \* the events writers may submit
  Patches        \* the operation lists of the patches clients may propose

AuthorityClass == {"authoritative", "derived", "advisory", "ephemeral"}

RelationKind ==
  { "contains", "depends_on", "contradicts", "verifies", "executed_by",
    "delegated_to", "derives_from", "provides_evidence_for", "visualizes", "mentions",
    "proposes_change_to", "used_model", "used_tool", "forked_from",
    "contributes_to" }

EventKind ==
  { "subject-defined", "subject-updated", "subject-deprecated",
    "relation-declared", "patch-applied", "patch-rejected",
    "thread-started", "message-appended", "turn-completed", "tool-invoked",
    "thread-forked", "advisory-raised", "sddk-proposal-submitted",
    "uat-check-recorded", "agent-defined", "agent-run-finished",
    "frame-started", "frame-turn-completed", "frame-closed",
    "intent-drafted", "intent-promoted", "canvas-bound" }

Properties == [PropKeys -> PropValues \cup {Unset}]

NoProps == [k \in PropKeys |-> Unset]

Node == [authority : AuthorityClass, props : Properties,
         deprecated : BOOLEAN, touched : Nat]

RelationFact == [from : Subjects, kind : RelationKind, to : Subjects,
                 authority : AuthorityClass]

Graph == [subjects : [Subjects -> Node \cup {NoNode}],
          relations : SUBSET RelationFact,
          revision : Nat]

EmptyGraph == [subjects |-> [s \in Subjects |-> NoNode],
               relations |-> {}, revision |-> 0]

-----------------------------------------------------------------------------
(* Primitive steps of a projection.  `needs` are the subjects whose absence *)
(* makes the step fail before it mutates anything.                          *)

SubjectStep ==
  [op : {"define", "observe", "upsert", "update", "retire"},
   needs : SUBSET Subjects, subject : Subjects,
   authority : AuthorityClass, props : Properties]

RelationStep ==
  [op : {"relate", "link", "declare"}, needs : SUBSET Subjects,
   fact : RelationFact]

Step == SubjectStep \cup RelationStep

OnSubject(op, needs, s, a, p) ==
  [op |-> op, needs |-> needs, subject |-> s, authority |-> a, props |-> p]

\* Create a subject that must not exist yet.
Define(needs, s, a, p) == OnSubject("define", needs, s, a, p)
\* upsert_subject with no precondition: a model seen in use.
Observe(s) == OnSubject("observe", {}, s, "derived", NoProps)
\* A patch upsert, re-checked against SDDK ownership.
Upsert(s, a, p) == OnSubject("upsert", {}, s, a, p)
Update(s, p) == OnSubject("update", {s}, s, "derived", p)
Retire(s) == OnSubject("retire", {s}, s, "derived", NoProps)

Fact(from, kind, to, a) ==
  [from |-> from, kind |-> kind, to |-> to, authority |-> a]

\* A relation the projection builds, which must be new / may be there already.
Relate(needs, f) == [op |-> "relate", needs |-> needs, fact |-> f]
Link(needs, f)   == [op |-> "link",   needs |-> needs, fact |-> f]
\* A step that fails whatever the graph holds.
Refuse(s) == Relate({}, Fact(s, "used_model", s, "derived"))
\* A relation the event carries: it may relate a subject to itself, since
\* deserializing a RelationRef does not go through RelationRef::new.
Declare(f) == [op |-> "declare", needs |-> {f.from, f.to}, fact |-> f]

Event == [id : EventIds \cup {FreshId}, kind : EventKind,
          subject : Subjects, other : Subjects \cup {NoSubject},
          also : Seq(Subjects), relation : RelationKind,
          authority : AuthorityClass, props : Properties, ops : Seq(Step)]

\* Event kinds whose second subject is not optional.
NeedsOther == EventKind \ { "subject-defined", "subject-updated",
  "subject-deprecated", "patch-applied", "patch-rejected", "thread-started",
  "agent-defined", "frame-started", "frame-closed", "intent-promoted",
  "turn-completed", "frame-turn-completed" }

\* What a patch may contain: PatchOperation has these three cases only.
IsOperation(st) ==
  \/ /\ st \in SubjectStep
     /\ \/ st.op = "upsert" /\ st.needs = {}
        \/ st.op = "retire" /\ st.needs = {st.subject} /\ st.props = NoProps
  \/ /\ st \in RelationStep
     /\ st.op = "declare"
     /\ st.needs = {st.fact.from, st.fact.to}

WellFormed(e) ==
  /\ e \in Event
  /\ e.kind \in NeedsOther => e.other \in Subjects
  /\ e.kind \in {"sddk-proposal-submitted", "agent-run-finished"}
       => Len(e.also) = 1
  /\ \A i \in DOMAIN e.ops : IsOperation(e.ops[i])

ASSUME ConstantsAssumption ==
  /\ SddkSubjects \subseteq Subjects
  /\ Subjects # {}
  /\ NoSubject \notin Subjects
  /\ NoNode \notin Node
  /\ Unset \notin PropValues
  /\ FreshId \notin EventIds
  /\ \A e \in Events : WellFormed(e) /\ e.id \in EventIds
  /\ \A ops \in Patches :
       ops \in Seq(Step) /\ \A i \in DOMAIN ops : IsOperation(ops[i])

-----------------------------------------------------------------------------
(* The projection of each event kind, as primitive steps.                   *)

WorldSteps(e) ==
  CASE e.kind = "subject-defined" ->
         << Define({}, e.subject, e.authority, e.props) >>
    [] e.kind = "subject-updated" -> << Update(e.subject, e.props) >>
    [] e.kind = "subject-deprecated" -> << Retire(e.subject) >>
    [] e.kind = "relation-declared" ->
         << Declare(Fact(e.subject, e.relation, e.other, e.authority)) >>
    [] e.kind = "patch-applied" -> e.ops
    [] OTHER -> << >>                                  \* patch-rejected

\* A finished turn updates its owner and records the model it used.  `model` is
\* NoSubject if the model's name is no subject id (it has a `:` or a `@`): the
\* projection finds that out when the owner is already updated.
TurnSteps(owner, p, model) ==
  IF model = NoSubject
  THEN << Update(owner, p), Refuse(owner) >>
  ELSE << Update(owner, p), Observe(model),
          Link({}, Fact(owner, "used_model", model, "derived")) >>

\* Mutant of Mention: the mentioned subject is not looked up.
MentionUnchecked(s, m) == Relate({}, Fact(s, "mentions", m, "authoritative"))

Mention(s, m) == Relate({m}, Fact(s, "mentions", m, "authoritative"))

ConversationSteps(e) ==
  CASE e.kind = "thread-started" ->
         << Define({}, e.subject, "authoritative", e.props) >>
    [] e.kind = "message-appended" ->
         << Define({e.other}, e.subject, "authoritative", e.props),
            Relate({}, Fact(e.other, "contains", e.subject, "authoritative")) >>
         \o [i \in DOMAIN e.also |-> Mention(e.subject, e.also[i])]
    [] e.kind = "turn-completed" ->
         TurnSteps(e.subject, e.props, e.other)
    [] e.kind = "tool-invoked" ->
         << Define({e.other}, e.subject, "derived", e.props),
            Link({}, Fact(e.other, "used_tool", e.subject, "derived")) >>
    [] e.kind = "thread-forked" ->
         << Define({e.other}, e.subject, "authoritative", e.props),
            Relate({}, Fact(e.subject, "forked_from", e.other, "authoritative")) >>
    [] OTHER ->                                        \* advisory-raised
         << Define({e.other}, e.subject, "advisory", e.props),
            Relate({}, Fact(e.subject, "mentions", e.other, "advisory")) >>

\* FrameStarted names its agent (optional) in `other`, its subjects in `also`.
FrameSteps(e) ==
  LET agents == {e.other} \ {NoSubject}
      named  == {e.also[i] : i \in DOMAIN e.also}
      frame  == Define(agents \cup named, e.subject, "authoritative", e.props)
      delegation == Relate({}, Fact(e.subject, "delegated_to", e.other,
                                    "authoritative"))
  IN
  CASE e.kind = "frame-started" ->
         (IF agents = {} THEN << frame >> ELSE << frame, delegation >>)
         \o [i \in DOMAIN e.also |->
               Relate({}, Fact(e.subject, "mentions", e.also[i], "authoritative"))]
    [] e.kind = "frame-turn-completed" ->
         TurnSteps(e.subject, e.props, e.other)
    [] OTHER -> << Update(e.subject, e.props) >>       \* frame-closed

\* Mutant of AgentRun: the agent is looked up when its relation is declared.
AgentRunLateLookup(run, frame, agent, p) ==
  << Define({frame}, run, "authoritative", p),
     Link({}, Fact(run, "contributes_to", frame, "authoritative")),
     Link({agent}, Fact(run, "executed_by", agent, "authoritative")) >>

AgentRun(run, frame, agent, p) ==
  << Define({frame, agent}, run, "authoritative", p),
     Link({}, Fact(run, "contributes_to", frame, "authoritative")),
     Link({}, Fact(run, "executed_by", agent, "authoritative")) >>

AgentSteps(e) ==
  CASE e.kind = "agent-run-finished" ->
         AgentRun(e.subject, e.other, e.also[1], e.props)
    [] e.kind = "agent-defined" ->
         << Define({}, e.subject, "authoritative", e.props) >>
    [] OTHER ->                                        \* uat-check-recorded
         << Define({e.other}, e.subject, "authoritative", e.props),
            Relate({}, Fact(e.other, "contains", e.subject, "authoritative")) >>

IntentSteps(e) ==
  CASE e.kind = "intent-drafted" ->
         << Define({e.other}, e.subject, "advisory", e.props),
            Relate({}, Fact(e.subject, "proposes_change_to", e.other, "advisory")) >>
    [] e.kind = "intent-promoted" -> << Update(e.subject, e.props) >>
    [] e.kind = "sddk-proposal-submitted" ->
         << Define({e.other, e.also[1]}, e.subject, "derived", e.props),
            Relate({}, Fact(e.subject, "provides_evidence_for", e.other, "derived")) >>
    [] OTHER ->                                        \* canvas-bound
         << Define({e.other}, e.subject, "advisory", e.props),
            Link({}, Fact(e.subject, "visualizes", e.other, "advisory")) >>

Steps(e) ==
  CASE e.kind \in { "subject-defined", "subject-updated", "subject-deprecated",
                    "relation-declared", "patch-applied", "patch-rejected" }
         -> WorldSteps(e)
    [] e.kind \in { "thread-started", "message-appended", "turn-completed",
                    "tool-invoked", "thread-forked", "advisory-raised" }
         -> ConversationSteps(e)
    [] e.kind \in { "frame-started", "frame-turn-completed", "frame-closed" }
         -> FrameSteps(e)
    [] e.kind \in { "agent-defined", "agent-run-finished", "uat-check-recorded" }
         -> AgentSteps(e)
    [] OTHER -> IntentSteps(e)

-----------------------------------------------------------------------------
(* One primitive against a graph.                                           *)

Exists(g, s) == g.subjects[s] # NoNode

\* SubjectNode::is_sddk_owned
SddkOwned(g, s) ==
  Exists(g, s) /\ s \in SddkSubjects /\ g.subjects[s].authority = "authoritative"

Related(g, f) ==
  \E r \in g.relations : r.from = f.from /\ r.kind = f.kind /\ r.to = f.to

StepOk(g, st) ==
  /\ \A s \in st.needs : Exists(g, s)
  /\ st.op = "define" => ~Exists(g, st.subject)
  /\ st.op = "upsert" => ~SddkOwned(g, st.subject)
  /\ st.op \in {"relate", "declare"} => ~Related(g, st.fact)
  /\ st.op = "relate" => st.fact.from # st.fact.to

\* BTreeMap::extend: the new values win, the others stay.
Merge(old, new) == [k \in PropKeys |-> IF new[k] = Unset THEN old[k] ELSE new[k]]

NodeAfter(node, st, seq) ==
  IF node = NoNode
  THEN [authority |-> st.authority, props |-> st.props,
        deprecated |-> FALSE, touched |-> seq]
  ELSE [node EXCEPT !.props = Merge(@, st.props),
                    !.deprecated = @ \/ st.op = "retire",
                    !.touched = seq]

Touch(g, ends, seq) ==
  [s \in Subjects |-> IF s \in ends /\ Exists(g, s)
                      THEN [g.subjects[s] EXCEPT !.touched = seq]
                      ELSE g.subjects[s]]

StepEffect(g, st, seq) ==
  IF st.op \in {"relate", "link", "declare"}
  THEN IF st.op = "link" /\ (Related(g, st.fact) \/ st.fact.from = st.fact.to)
       THEN g
       ELSE [g EXCEPT !.relations = @ \cup {st.fact},
                      !.subjects = Touch(g, {st.fact.from, st.fact.to}, seq)]
  ELSE [g EXCEPT !.subjects[st.subject] = NodeAfter(@, st, seq)]

-----------------------------------------------------------------------------
(* Patch validation: pure, against the graph before the patch.              *)

\* Mutant of GovernedBySddk: an upsert is judged by the node it finds only.
GovernedIfOwned(g, op) ==
  CASE op.op \in {"upsert", "retire"} -> SddkOwned(g, op.subject)
    [] OTHER ->
         /\ op.fact.authority = "authoritative"
         /\ \E s \in {op.fact.from, op.fact.to} :
              s \in SddkSubjects \/ SddkOwned(g, s)

GovernedBySddk(g, op) ==
  CASE op.op = "upsert" ->
         \/ SddkOwned(g, op.subject)
         \/ op.subject \in SddkSubjects /\ op.authority = "authoritative"
    [] op.op = "retire" -> SddkOwned(g, op.subject)
    [] OTHER ->
         /\ op.fact.authority = "authoritative"
         /\ \E s \in {op.fact.from, op.fact.to} :
              s \in SddkSubjects \/ SddkOwned(g, s)

\* Mutant of OpRejection: a missing subject gets a reason nobody knows.
OpRejectionUntyped(g, op) ==
  IF \E s \in op.needs : ~Exists(g, s) THEN "invalid-operation"
  ELSE IF GovernedBySddk(g, op) THEN "must-be-governed-by-sddk"
  ELSE "none"

OpRejection(g, op) ==
  IF \E s \in op.needs : ~Exists(g, s) THEN "unknown-subject"
  ELSE IF GovernedBySddk(g, op) THEN "must-be-governed-by-sddk"
  ELSE "none"

Valid(g, base, ops) ==
  base = g.revision /\ \A i \in DOMAIN ops : OpRejection(g, ops[i]) = "none"

\* The reason of the first operation that cannot stand.
Rejection(g, base, ops) ==
  IF base # g.revision THEN "stale-base"
  ELSE LET first == CHOOSE i \in DOMAIN ops :
                      /\ OpRejection(g, ops[i]) # "none"
                      /\ \A j \in 1..(i-1) : OpRejection(g, ops[j]) = "none"
       IN OpRejection(g, ops[first])

-----------------------------------------------------------------------------
(* The events of the store itself.                                          *)

\* Mutant of RevisionAfter: a deprecation does not bump.
RevisionKeptByRetirement(g, e) ==
  IF e.kind \in {"patch-rejected", "subject-deprecated"}
  THEN g.revision ELSE g.revision + 1

\* The revision an event produces: rejections are durable but neutral.
RevisionAfter(g, e) ==
  IF e.kind = "patch-rejected" THEN g.revision ELSE g.revision + 1

PatchEvent(kind, ops) ==
  [id |-> FreshId, kind |-> kind, subject |-> CHOOSE s \in Subjects : TRUE,
   other |-> NoSubject, also |-> << >>, relation |-> "mentions",
   authority |-> "authoritative", props |-> NoProps, ops |-> ops]
=============================================================================
