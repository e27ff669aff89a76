-------------------------- MODULE SemanticGraphProofs --------------------------
(***************************************************************************)
(* Lemmas about the operators of SemanticGraph and EventProjection: the    *)
(* steps an event projects to are typed and grounded, and what running     *)
(* them one after the other computes.                                      *)
(***************************************************************************)
EXTENDS EventProjection, SequenceTheorems, WellFoundedInduction, TLAPS

IsRelationStep(st) == st.op \in {"relate", "link", "declare"}

\* The subjects that exist once the step has succeeded.
Establishes(st) ==
  IF IsRelationStep(st) THEN st.needs ELSE st.needs \cup {st.subject}

Ends(st) == {st.fact.from, st.fact.to}

\* Each relation a projection inserts has its ends among the subjects that its
\* own checks or an earlier step of the same projection establish.
Grounded(steps) ==
  \A i \in DOMAIN steps : IsRelationStep(steps[i]) =>
    \A s \in Ends(steps[i]) :
      s \in steps[i].needs \/ \E j \in 1..(i-1) : s \in Establishes(steps[j])

-----------------------------------------------------------------------------
LEMMA PropsType == NoProps \in Properties
  BY ConstantsAssumption DEF NoProps, Properties

LEMMA SubjectSteps ==
  ASSUME NEW needs \in SUBSET Subjects, NEW s \in Subjects,
         NEW a \in AuthorityClass, NEW p \in Properties
  PROVE  /\ Define(needs, s, a, p) \in SubjectStep
         /\ Observe(s) \in SubjectStep
         /\ Upsert(s, a, p) \in SubjectStep
         /\ Update(s, p) \in SubjectStep
         /\ Retire(s) \in SubjectStep
         /\ Establishes(Define(needs, s, a, p)) = needs \cup {s}
         /\ Establishes(Observe(s)) = {s}
         /\ Establishes(Update(s, p)) = {s}
  BY PropsType DEF Define, Observe, Upsert, Update, Retire, OnSubject,
                   SubjectStep, AuthorityClass, Establishes, IsRelationStep

LEMMA RelationSteps ==
  ASSUME NEW needs \in SUBSET Subjects, NEW s \in Subjects,
         NEW k \in RelationKind, NEW t \in Subjects, NEW a \in AuthorityClass
  PROVE  /\ Relate(needs, Fact(s, k, t, a)) \in RelationStep
         /\ Link(needs, Fact(s, k, t, a)) \in RelationStep
         /\ Relate(needs, Fact(s, k, t, a)).needs = needs
         /\ Link(needs, Fact(s, k, t, a)).needs = needs
         /\ Ends(Relate(needs, Fact(s, k, t, a))) = {s, t}
         /\ Ends(Link(needs, Fact(s, k, t, a))) = {s, t}
  BY DEF Relate, Link, RelationStep, Fact, RelationFact, Ends

LEMMA StepKinds ==
  /\ \A st \in SubjectStep : st \in Step /\ ~IsRelationStep(st)
  /\ \A st \in RelationStep : st \in Step /\ IsRelationStep(st)
  BY DEF Step, SubjectStep, RelationStep, IsRelationStep

(* The shapes projections have.                                             *)

LEMMA OneStep ==
  ASSUME NEW d \in SubjectStep
  PROVE  << d >> \in Seq(Step) /\ Grounded(<< d >>)
  BY StepKinds DEF Grounded

LEMMA TwoSteps ==
  ASSUME NEW d \in SubjectStep, NEW r \in RelationStep,
         Ends(r) \subseteq r.needs \cup Establishes(d)
  PROVE  << d, r >> \in Seq(Step) /\ Grounded(<< d, r >>)
<1>1. d \in Step /\ r \in Step /\ ~IsRelationStep(d)
  BY StepKinds
<1>2. DOMAIN << d, r >> = {1, 2} /\ 1 \in 1..(2-1)
  OBVIOUS
<1> QED BY <1>1, <1>2 DEF Grounded

LEMMA ThreeSteps ==
  ASSUME NEW d \in Step, NEW x \in Step, NEW r \in RelationStep,
         ~IsRelationStep(d),
         IsRelationStep(x) => Ends(x) \subseteq x.needs \cup Establishes(d),
         Ends(r) \subseteq r.needs \cup Establishes(d) \cup Establishes(x)
  PROVE  << d, x, r >> \in Seq(Step) /\ Grounded(<< d, x, r >>)
<1> DEFINE steps == << d, x, r >>
<1>1. r \in Step
  BY StepKinds
<1>2. /\ steps[1] = d /\ steps[2] = x /\ steps[3] = r
      /\ DOMAIN steps = {1, 2, 3}
      /\ 1 \in 1..(2-1) /\ 1 \in 1..(3-1) /\ 2 \in 1..(3-1)
  OBVIOUS
<1>3. steps \in Seq(Step)
  BY <1>1
<1> HIDE DEF steps
<1>4. Grounded(steps)
  BY <1>2 DEF Grounded
<1> QED BY <1>3, <1>4 DEF steps

\* A grounded sequence followed by relations among what it establishes.
LEMMA ThenRelations ==
  ASSUME NEW s1 \in Seq(Step), Grounded(s1), NEW s2 \in Seq(Step),
         \A i \in DOMAIN s2 : IsRelationStep(s2[i]) =>
           \A s \in Ends(s2[i]) : s \in s2[i].needs
                                  \/ \E j \in DOMAIN s1 : s \in Establishes(s1[j])
  PROVE  s1 \o s2 \in Seq(Step) /\ Grounded(s1 \o s2)
<1>1. s1 \o s2 \in Seq(Step)
  OBVIOUS
<1>2. ASSUME NEW i \in DOMAIN (s1 \o s2), IsRelationStep((s1 \o s2)[i]),
             NEW s \in Ends((s1 \o s2)[i])
      PROVE  \/ s \in (s1 \o s2)[i].needs
             \/ \E j \in 1..(i-1) : s \in Establishes((s1 \o s2)[j])
  <2>1. CASE i \in DOMAIN s1
    <3>1. (s1 \o s2)[i] = s1[i] /\ \A j \in 1..(i-1) : (s1 \o s2)[j] = s1[j]
      BY <2>1
    <3> QED BY <1>2, <2>1, <3>1 DEF Grounded
  <2>2. CASE i \notin DOMAIN s1
    <3>1. PICK n \in DOMAIN s2 : i = Len(s1) + n /\ (s1 \o s2)[i] = s2[n]
      <4>1. i - Len(s1) \in DOMAIN s2 /\ (s1 \o s2)[i] = s2[i - Len(s1)]
        BY <2>2, <1>2
      <4> QED BY <4>1
    <3>2. \A j \in DOMAIN s1 : j \in 1..(i-1) /\ (s1 \o s2)[j] = s1[j]
      BY <3>1
    <3> QED BY <1>2, <3>1, <3>2
  <2> QED BY <2>1, <2>2
<1> QED BY <1>1, <1>2 DEF Grounded

-----------------------------------------------------------------------------
(* The projection of every event is typed and grounded.                     *)

GroundedSteps(steps) == steps \in Seq(Step) /\ Grounded(steps)

LEMMA EventFields ==
  ASSUME NEW e, WellFormed(e)
  PROVE  /\ e.subject \in Subjects
         /\ e.kind \in EventKind
         /\ e.props \in Properties
         /\ e.authority \in AuthorityClass
         /\ e.relation \in RelationKind
         /\ e.ops \in Seq(Step)
         /\ e.also \in Seq(Subjects)
         /\ \A i \in DOMAIN e.also : e.also[i] \in Subjects
         /\ e.other \in Subjects \cup {NoSubject}
         /\ e.kind \in NeedsOther => e.other \in Subjects
         /\ e.kind \in {"sddk-proposal-submitted", "agent-run-finished"}
              => e.also[1] \in Subjects
  BY DEF WellFormed, Event

\* An update of a known subject and the model it used, if that has a name.
LEMMA TurnGrounded ==
  ASSUME NEW s \in Subjects, NEW p \in Properties,
         NEW o \in Subjects \cup {NoSubject}
  PROVE  GroundedSteps(TurnSteps(s, p, o))
<1> DEFINE u == Update(s, p)
           m == Observe(o)
           l == Link({}, Fact(s, "used_model", o, "derived"))
           x == Refuse(s)
<1>1. u \in SubjectStep /\ Establishes(u) = {s}
  BY SubjectSteps DEF AuthorityClass
<1>2. x \in RelationStep /\ Ends(x) = {s}
  BY DEF Refuse, Relate, RelationStep, Fact, RelationFact, Ends, AuthorityClass, RelationKind
<1>3. CASE o = NoSubject
  <2>1. TurnSteps(s, p, o) = << u, x >>
    BY <1>3 DEF TurnSteps
  <2> HIDE DEF u, x
  <2> QED BY <1>1, <1>2, <2>1, TwoSteps DEF GroundedSteps
<1>4. CASE o # NoSubject
  <2>1. m \in SubjectStep /\ Establishes(m) = {o}
    BY <1>4, SubjectSteps DEF AuthorityClass
  <2>2. l \in RelationStep /\ Ends(l) = {s, o}
    BY <1>4 DEF Link, RelationStep, Fact, RelationFact, Ends, AuthorityClass, RelationKind
  <2>3. TurnSteps(s, p, o) = << u, m, l >>
    BY <1>4 DEF TurnSteps
  <2> HIDE DEF u, m, l, x
  <2> QED BY <1>1, <2>1, <2>2, <2>3, StepKinds, ThreeSteps DEF GroundedSteps
<1> QED BY <1>3, <1>4

LEMMA OneSubjectStep ==
  ASSUME NEW needs \in SUBSET Subjects, NEW s \in Subjects,
         NEW a \in AuthorityClass, NEW p \in Properties
  PROVE  /\ GroundedSteps(<< Define(needs, s, a, p) >>)
         /\ GroundedSteps(<< Update(s, p) >>)
         /\ GroundedSteps(<< Retire(s) >>)
  BY SubjectSteps, OneStep DEF GroundedSteps

LEMMA WorldGrounded ==
  ASSUME NEW e, WellFormed(e),
         e.kind \in {"subject-defined", "subject-updated", "subject-deprecated",
                     "relation-declared", "patch-applied", "patch-rejected"}
  PROVE  GroundedSteps(WorldSteps(e))
<1>f. /\ e.subject \in Subjects
      /\ e.props \in Properties
      /\ e.authority \in AuthorityClass
      /\ e.relation \in RelationKind
      /\ e.kind \in NeedsOther => e.other \in Subjects
  BY EventFields
<1>1. CASE e.kind \in {"subject-defined", "subject-updated", "subject-deprecated"}
  <2>1. e.kind = "subject-defined" => WorldSteps(e) = << Define({}, e.subject, e.authority, e.props) >>
    BY DEF WorldSteps
  <2>2. e.kind = "subject-updated" => WorldSteps(e) = << Update(e.subject, e.props) >>
    BY DEF WorldSteps
  <2>3. e.kind = "subject-deprecated" => WorldSteps(e) = << Retire(e.subject) >>
    BY DEF WorldSteps
  <2> QED BY <1>1, <1>f, <2>1, <2>2, <2>3, OneSubjectStep
<1>2. CASE e.kind = "relation-declared"
  <2> DEFINE r == Declare(Fact(e.subject, e.relation, e.other, e.authority))
  <2>1. e.other \in Subjects
    BY <1>f, <1>2 DEF NeedsOther, EventKind
  <2>2. r \in RelationStep /\ Ends(r) = r.needs
    BY <1>f, <2>1 DEF Declare, RelationStep, Fact, RelationFact, Ends
  <2> HIDE DEF r
  <2>3. GroundedSteps(<< r >>)
    BY <2>2, StepKinds DEF GroundedSteps, Grounded
  <2> QED BY <1>2, <2>3 DEF r, WorldSteps
<1>3. CASE e.kind = "patch-applied"
  <2>1. \A i \in DOMAIN e.ops : IsOperation(e.ops[i])
    BY DEF WellFormed
  <2>2. \A i \in DOMAIN e.ops : IsRelationStep(e.ops[i]) => Ends(e.ops[i]) = e.ops[i].needs
    BY <2>1, StepKinds DEF IsOperation, IsRelationStep, Ends
  <2>3. e.ops \in Seq(Step)
    BY EventFields
  <2> QED BY <1>3, <2>2, <2>3 DEF GroundedSteps, Grounded, WorldSteps
<1>4. CASE e.kind = "patch-rejected"
  <2>1. WorldSteps(e) = << >>
    BY <1>4 DEF WorldSteps
  <2> QED BY <2>1 DEF GroundedSteps, Grounded
<1> QED BY <1>1, <1>2, <1>3, <1>4

LEMMA ConversationGrounded ==
  ASSUME NEW e, WellFormed(e),
         e.kind \in {"thread-started", "message-appended", "turn-completed",
                     "tool-invoked", "thread-forked", "advisory-raised"}
  PROVE  GroundedSteps(ConversationSteps(e))
<1> USE DEF AuthorityClass, RelationKind
<1>f. e.subject \in Subjects /\ e.props \in Properties
  BY EventFields
<1>o. e.kind \notin {"thread-started", "turn-completed"} => e.other \in Subjects
  BY EventFields DEF NeedsOther, EventKind
<1>1. CASE e.kind = "thread-started"
  <2>1. ConversationSteps(e) = << Define({}, e.subject, "authoritative", e.props) >>
    BY <1>1 DEF ConversationSteps
  <2> QED BY <1>f, <2>1, OneSubjectStep
<1>2. CASE e.kind = "message-appended"
  <2> DEFINE d == Define({e.other}, e.subject, "authoritative", e.props)
             r == Relate({}, Fact(e.other, "contains", e.subject, "authoritative"))
             mentions == [i \in DOMAIN e.also |-> Mention(e.subject, e.also[i])]
  <2>1. /\ d \in SubjectStep /\ r \in RelationStep
        /\ Establishes(d) = {e.other, e.subject} /\ Ends(r) = {e.other, e.subject}
    BY <1>f, <1>o, <1>2 DEF Define, OnSubject, SubjectStep, Establishes, IsRelationStep,
       Relate, RelationStep, Fact, RelationFact, Ends
  <2>2. /\ e.also \in Seq(Subjects)
        /\ \A i \in DOMAIN e.also : e.also[i] \in Subjects
    BY EventFields
  <2>3. \A x \in Subjects :
          /\ Mention(e.subject, x) \in RelationStep
          /\ Mention(e.subject, x).needs = {x}
          /\ Ends(Mention(e.subject, x)) = {e.subject, x}
    BY <1>f DEF Mention, Relate, RelationStep, Fact, RelationFact, Ends
  <2>4. mentions \in Seq(Step)
    <3>1. mentions \in [1..Len(e.also) -> Step]
      BY <2>2, <2>3, StepKinds
    <3> QED BY <3>1, <2>2
  <2>5. ASSUME NEW i \in DOMAIN mentions, NEW s \in Ends(mentions[i])
        PROVE  s \in mentions[i].needs \/ s \in Establishes(d)
    <3>1. e.also[i] \in Subjects /\ mentions[i] = Mention(e.subject, e.also[i])
      BY <2>2
    <3> HIDE DEF d, mentions
    <3> QED BY <2>1, <2>3, <2>5, <3>1
  <2>6. ConversationSteps(e) = << d, r >> \o mentions
    BY <1>2 DEF ConversationSteps
  <2> HIDE DEF d, r, mentions
  <2>7. << d, r >> \in Seq(Step) /\ Grounded(<< d, r >>)
    BY <2>1, TwoSteps
  <2>8. 1 \in DOMAIN << d, r >> /\ << d, r >>[1] = d
    OBVIOUS
  <2> QED BY <2>4, <2>5, <2>6, <2>7, <2>8, ThenRelations DEF GroundedSteps
<1>3. CASE e.kind = "turn-completed"
  <2>1. ConversationSteps(e) = TurnSteps(e.subject, e.props, e.other)
    BY <1>3 DEF ConversationSteps
  <2> QED BY <1>f, <2>1, EventFields, TurnGrounded
<1>4. CASE e.kind = "tool-invoked"
  <2> DEFINE d == Define({e.other}, e.subject, "derived", e.props)
             r == Link({}, Fact(e.other, "used_tool", e.subject, "derived"))
  <2>1. d \in SubjectStep /\ r \in RelationStep /\ Ends(r) \subseteq Establishes(d)
    BY <1>f, <1>o, <1>4 DEF Define, OnSubject, SubjectStep, Establishes, IsRelationStep,
       Link, RelationStep, Fact, RelationFact, Ends
  <2>2. ConversationSteps(e) = << d, r >>
    BY <1>4 DEF ConversationSteps
  <2> HIDE DEF d, r
  <2> QED BY <2>1, <2>2, TwoSteps DEF GroundedSteps
<1>5. CASE e.kind = "thread-forked"
  <2> DEFINE d == Define({e.other}, e.subject, "authoritative", e.props)
             r == Relate({}, Fact(e.subject, "forked_from", e.other, "authoritative"))
  <2>1. d \in SubjectStep /\ r \in RelationStep /\ Ends(r) \subseteq Establishes(d)
    BY <1>f, <1>o, <1>5 DEF Define, OnSubject, SubjectStep, Establishes, IsRelationStep,
       Relate, RelationStep, Fact, RelationFact, Ends
  <2>2. ConversationSteps(e) = << d, r >>
    BY <1>5 DEF ConversationSteps
  <2> HIDE DEF d, r
  <2> QED BY <2>1, <2>2, TwoSteps DEF GroundedSteps
<1>6. CASE e.kind = "advisory-raised"
  <2> DEFINE d == Define({e.other}, e.subject, "advisory", e.props)
             r == Relate({}, Fact(e.subject, "mentions", e.other, "advisory"))
  <2>1. d \in SubjectStep /\ r \in RelationStep /\ Ends(r) \subseteq Establishes(d)
    BY <1>f, <1>o, <1>6 DEF Define, OnSubject, SubjectStep, Establishes, IsRelationStep,
       Relate, RelationStep, Fact, RelationFact, Ends
  <2>2. ConversationSteps(e) = << d, r >>
    BY <1>6 DEF ConversationSteps
  <2> HIDE DEF d, r
  <2> QED BY <2>1, <2>2, TwoSteps DEF GroundedSteps
<1> QED BY <1>1, <1>2, <1>3, <1>4, <1>5, <1>6

LEMMA FrameGrounded ==
  ASSUME NEW e, WellFormed(e),
         e.kind \in {"frame-started", "frame-turn-completed", "frame-closed"}
  PROVE  GroundedSteps(FrameSteps(e))
<1> USE DEF AuthorityClass, RelationKind
<1>f. e.subject \in Subjects /\ e.props \in Properties
  BY EventFields
<1>1. CASE e.kind = "frame-started"
  <2> DEFINE agents == {e.other} \ {NoSubject}
             named == {e.also[i] : i \in DOMAIN e.also}
             d == Define(agents \cup named, e.subject, "authoritative", e.props)
             r == Relate({}, Fact(e.subject, "delegated_to", e.other, "authoritative"))
             head == IF agents = {} THEN << d >> ELSE << d, r >>
             mentions == [i \in DOMAIN e.also |->
                            Relate({}, Fact(e.subject, "mentions", e.also[i], "authoritative"))]
  <2>1. /\ e.also \in Seq(Subjects)
        /\ \A i \in DOMAIN e.also : e.also[i] \in Subjects
        /\ agents \subseteq Subjects
    BY EventFields
  <2>2. /\ d \in SubjectStep
        /\ Establishes(d) = agents \cup named \cup {e.subject}
    BY <1>f, <2>1 DEF Define, OnSubject, SubjectStep, Establishes, IsRelationStep
  <2>3. agents # {} => /\ r \in RelationStep
                       /\ Ends(r) \subseteq Establishes(d)
    BY <1>f, <2>1, <2>2 DEF Relate, RelationStep, Fact, RelationFact, Ends
  <2>4. \A x \in Subjects :
          LET m == Relate({}, Fact(e.subject, "mentions", x, "authoritative"))
          IN m \in RelationStep /\ Ends(m) = {e.subject, x}
    BY <1>f DEF Relate, RelationStep, Fact, RelationFact, Ends
  <2>5. mentions \in Seq(Step)
    <3>1. mentions \in [1..Len(e.also) -> Step]
      BY <2>1, <2>4, StepKinds
    <3> QED BY <3>1, <2>1
  <2>6. \A i \in DOMAIN mentions : Ends(mentions[i]) \subseteq Establishes(d)
    BY <2>1, <2>2, <2>4
  <2>7. FrameSteps(e) = head \o mentions
    BY <1>1 DEF FrameSteps
  <2>8. agents = {} => head = << d >>
    OBVIOUS
  <2>9. agents # {} => head = << d, r >>
    OBVIOUS
  <2> HIDE DEF agents, named, d, r, head, mentions
  <2>10. head \in Seq(Step) /\ Grounded(head) /\ 1 \in DOMAIN head /\ head[1] = d
    <3>1. CASE agents = {}
      <4>1. 1 \in DOMAIN << d >> /\ << d >>[1] = d
        OBVIOUS
      <4> QED BY <2>2, <2>8, <3>1, <4>1, OneStep
    <3>2. CASE agents # {}
      <4>1. 1 \in DOMAIN << d, r >> /\ << d, r >>[1] = d
        OBVIOUS
      <4> QED BY <2>2, <2>3, <2>9, <3>2, <4>1, TwoSteps
    <3> QED BY <3>1, <3>2
  <2> QED BY <2>5, <2>6, <2>7, <2>10, ThenRelations DEF GroundedSteps
<1>2. CASE e.kind = "frame-turn-completed"
  <2>1. FrameSteps(e) = TurnSteps(e.subject, e.props, e.other)
    BY <1>2 DEF FrameSteps
  <2> QED BY <1>f, <2>1, EventFields, TurnGrounded
<1>3. CASE e.kind = "frame-closed"
  <2>1. FrameSteps(e) = << Update(e.subject, e.props) >>
    BY <1>3 DEF FrameSteps
  <2> QED BY <1>f, <2>1, OneSubjectStep
<1> QED BY <1>1, <1>2, <1>3

LEMMA AgentGrounded ==
  ASSUME NEW e, WellFormed(e),
         e.kind \in {"agent-defined", "agent-run-finished", "uat-check-recorded"}
  PROVE  GroundedSteps(AgentSteps(e))
<1> USE DEF AuthorityClass, RelationKind
<1>f. e.subject \in Subjects /\ e.props \in Properties
  BY EventFields
<1>o. e.kind # "agent-defined" => e.other \in Subjects
  BY EventFields DEF NeedsOther, EventKind
<1>1. CASE e.kind = "agent-defined"
  <2>1. AgentSteps(e) = << Define({}, e.subject, "authoritative", e.props) >>
    BY <1>1 DEF AgentSteps
  <2> QED BY <1>f, <2>1, OneSubjectStep
<1>2. CASE e.kind = "agent-run-finished"
  <2> DEFINE d == Define({e.other, e.also[1]}, e.subject, "authoritative", e.props)
             x == Link({}, Fact(e.subject, "contributes_to", e.other, "authoritative"))
             r == Link({}, Fact(e.subject, "executed_by", e.also[1], "authoritative"))
  <2>1. e.also[1] \in Subjects
    BY <1>2, EventFields
  <2>2. /\ d \in SubjectStep /\ x \in RelationStep /\ r \in RelationStep
        /\ Ends(x) \subseteq Establishes(d) /\ Ends(r) \subseteq Establishes(d)
    BY <1>f, <1>o, <1>2, <2>1 DEF Define, OnSubject, SubjectStep, Establishes, IsRelationStep,
       Link, RelationStep, Fact, RelationFact, Ends
  <2>3. AgentSteps(e) = << d, x, r >>
    BY <1>2 DEF AgentSteps, AgentRun
  <2> HIDE DEF d, x, r
  <2> QED BY <2>2, <2>3, StepKinds, ThreeSteps DEF GroundedSteps
<1>3. CASE e.kind = "uat-check-recorded"
  <2> DEFINE d == Define({e.other}, e.subject, "authoritative", e.props)
             r == Relate({}, Fact(e.other, "contains", e.subject, "authoritative"))
  <2>1. d \in SubjectStep /\ r \in RelationStep /\ Ends(r) \subseteq Establishes(d)
    BY <1>f, <1>o, <1>3 DEF Define, OnSubject, SubjectStep, Establishes, IsRelationStep,
       Relate, RelationStep, Fact, RelationFact, Ends
  <2>2. AgentSteps(e) = << d, r >>
    BY <1>3 DEF AgentSteps
  <2> HIDE DEF d, r
  <2> QED BY <2>1, <2>2, TwoSteps DEF GroundedSteps
<1> QED BY <1>1, <1>2, <1>3

LEMMA IntentGrounded ==
  ASSUME NEW e, WellFormed(e),
         e.kind \in {"intent-drafted", "intent-promoted", "sddk-proposal-submitted",
                     "canvas-bound"}
  PROVE  GroundedSteps(IntentSteps(e))
<1> USE DEF AuthorityClass, RelationKind
<1>f. e.subject \in Subjects /\ e.props \in Properties
  BY EventFields
<1>o. /\ e.kind # "intent-promoted" => e.other \in Subjects
      /\ e.kind = "sddk-proposal-submitted" => e.also[1] \in Subjects
  BY EventFields DEF NeedsOther, EventKind
<1>1. CASE e.kind = "intent-drafted"
  <2> DEFINE d == Define({e.other}, e.subject, "advisory", e.props)
             r == Relate({}, Fact(e.subject, "proposes_change_to", e.other, "advisory"))
  <2>1. d \in SubjectStep /\ r \in RelationStep /\ Ends(r) \subseteq Establishes(d)
    BY <1>f, <1>o, <1>1 DEF Define, OnSubject, SubjectStep, Establishes, IsRelationStep,
       Relate, RelationStep, Fact, RelationFact, Ends
  <2>2. IntentSteps(e) = << d, r >>
    BY <1>1 DEF IntentSteps
  <2> HIDE DEF d, r
  <2> QED BY <2>1, <2>2, TwoSteps DEF GroundedSteps
<1>2. CASE e.kind = "intent-promoted"
  <2>1. IntentSteps(e) = << Update(e.subject, e.props) >>
    BY <1>2 DEF IntentSteps
  <2> QED BY <1>f, <2>1, OneSubjectStep
<1>3. CASE e.kind = "sddk-proposal-submitted"
  <2> DEFINE d == Define({e.other, e.also[1]}, e.subject, "derived", e.props)
             r == Relate({}, Fact(e.subject, "provides_evidence_for", e.other, "derived"))
  <2>1. d \in SubjectStep /\ r \in RelationStep /\ Ends(r) \subseteq Establishes(d)
    BY <1>f, <1>o, <1>3 DEF Define, OnSubject, SubjectStep, Establishes, IsRelationStep,
       Relate, RelationStep, Fact, RelationFact, Ends
  <2>2. IntentSteps(e) = << d, r >>
    BY <1>3 DEF IntentSteps
  <2> HIDE DEF d, r
  <2> QED BY <2>1, <2>2, TwoSteps DEF GroundedSteps
<1>4. CASE e.kind = "canvas-bound"
  <2> DEFINE d == Define({e.other}, e.subject, "advisory", e.props)
             r == Link({}, Fact(e.subject, "visualizes", e.other, "advisory"))
  <2>1. d \in SubjectStep /\ r \in RelationStep /\ Ends(r) \subseteq Establishes(d)
    BY <1>f, <1>o, <1>4 DEF Define, OnSubject, SubjectStep, Establishes, IsRelationStep,
       Link, RelationStep, Fact, RelationFact, Ends
  <2>2. IntentSteps(e) = << d, r >>
    BY <1>4 DEF IntentSteps
  <2> HIDE DEF d, r
  <2> QED BY <2>1, <2>2, TwoSteps DEF GroundedSteps
<1> QED BY <1>1, <1>2, <1>3, <1>4

\* Every projection is a grounded sequence of primitive steps.
LEMMA StepsGrounded ==
  ASSUME NEW e, WellFormed(e)
  PROVE  GroundedSteps(Steps(e))
<1>1. e.kind \in EventKind
  BY EventFields
<1> QED BY <1>1, WorldGrounded, ConversationGrounded, FrameGrounded, AgentGrounded,
           IntentGrounded DEF Steps, EventKind

-----------------------------------------------------------------------------
(* Induction over the natural numbers, for sets: the provers cannot         *)
(* instantiate a theorem about a predicate, a set of numbers they can.      *)

\* Every set of natural numbers that is not empty has a least element.
LEMMA Least ==
  ASSUME NEW S \in SUBSET Nat, S # {}
  PROVE  \E n \in S : \A m \in S : ~(m < n)
<1>1. PICK n \in S : \A m \in S : <<m, n>> \notin OpToRel(<, Nat)
  BY WFMin, NatLessThanWellFounded, Zenon
<1> QED BY <1>1, Zenon DEF OpToRel

LEMMA Induction ==
  ASSUME NEW S \in SUBSET Nat, 0 \in S, \A n \in S : n + 1 \in S
  PROVE  \A n \in Nat : n \in S
<1> SUFFICES ASSUME Nat \ S # {} PROVE FALSE
  OBVIOUS
<1>1. PICK n \in Nat \ S : \A m \in Nat \ S : ~(m < n)
  <2>1. (Nat \ S) \in SUBSET Nat
    OBVIOUS
  <2> QED BY <2>1, Least
<1>2. n # 0 /\ n - 1 \in Nat /\ n - 1 < n
  OBVIOUS
<1>3. n - 1 \in S
  BY <1>1, <1>2
<1>4. (n - 1) + 1 \in S
  BY <1>3
<1> QED BY <1>2, <1>4

-----------------------------------------------------------------------------
(* RunSteps, one step at a time.  StepRuns is a recursive function; that it *)
(* exists is proved by induction on the number of steps.                    *)

LEMMA StepRunsUnfold ==
  ASSUME NEW g, NEW steps, Len(steps) \in Nat, NEW seq
  PROVE  /\ StepRuns(g, steps, seq)[0] = Ran(TRUE, g)
         /\ \A n \in 1..Len(steps) :
              StepRuns(g, steps, seq)[n]
                = RunStep(StepRuns(g, steps, seq)[n-1], steps[n], seq)
<1> DEFINE Of(f, k) == f = [n \in 0..k |-> IF n = 0 THEN Ran(TRUE, g)
                                           ELSE RunStep(f[n-1], steps[n], seq)]
           S == {k \in Nat : \E f : Of(f, k)}
<1>1. 0 \in S
  <2> DEFINE f == [n \in 0..0 |-> Ran(TRUE, g)]
  <2>1. \A n \in 0..0 : n = 0
    OBVIOUS
  <2>2. Of(f, 0)
    BY <2>1
  <2> QED BY <2>2
<1>2. ASSUME NEW k \in S PROVE k + 1 \in S
  <2>0. k \in Nat /\ k + 1 \in Nat
    OBVIOUS
  <2>1. PICK f : Of(f, k)
    OBVIOUS
  <2> DEFINE h == [n \in 0..(k+1) |-> IF n <= k THEN f[n]
                                      ELSE RunStep(f[k], steps[k+1], seq)]
  <2>2. ASSUME NEW n \in 0..(k+1)
        PROVE  h[n] = IF n = 0 THEN Ran(TRUE, g) ELSE RunStep(h[n-1], steps[n], seq)
    <3>1. CASE n = 0
      BY <2>1, <3>1
    <3>2. CASE n # 0 /\ n <= k
      BY <2>1, <3>2
    <3>3. CASE n = k + 1
      <4>1. n # 0 /\ ~(n <= k) /\ n - 1 = k /\ k \in 0..(k+1) /\ k <= k
        BY <2>0, <3>3
      <4>2. h[n] = RunStep(f[k], steps[n], seq) /\ h[n-1] = f[k]
        BY <3>3, <4>1
      <4> QED BY <4>1, <4>2
    <3>4. n = 0 \/ (n # 0 /\ n <= k) \/ n = k + 1
      BY <2>0
    <3> QED BY <3>1, <3>2, <3>3, <3>4
  <2>3. Of(h, k+1)
    BY <2>2
  <2> HIDE DEF h, Of
  <2>4. \E x : Of(x, k+1)
    BY <2>3
  <2> QED BY <2>0, <2>4
<1> HIDE DEF S
<1>3. Len(steps) \in S
  BY <1>1, <1>2, Induction DEF S
<1>4. \E f : Of(f, Len(steps))
  BY <1>3 DEF S
<1>5. Of(StepRuns(g, steps, seq), Len(steps))
  BY <1>4 DEF StepRuns
<1> QED BY <1>5

-----------------------------------------------------------------------------
(* One primitive step against a graph.                                      *)

LEMMA AbsentIsNoNode == NoNode \notin Node
  BY ConstantsAssumption

LEMMA NodeAfterType ==
  ASSUME NEW node \in Node \cup {NoNode}, NEW st \in SubjectStep, NEW seq \in Nat
  PROVE  /\ NodeAfter(node, st, seq) \in Node
         /\ node # NoNode =>
              NodeAfter(node, st, seq).authority = node.authority
         /\ node = NoNode =>
              NodeAfter(node, st, seq).authority = st.authority
<1>1. st.authority \in AuthorityClass /\ st.props \in Properties
  BY DEF SubjectStep
<1>2. CASE node = NoNode
  BY <1>1, <1>2 DEF NodeAfter, Node
<1>3. CASE node # NoNode
  <2>1. node \in Node
    BY <1>3
  <2>2. Merge(node.props, st.props) \in Properties
    BY <1>1, <2>1 DEF Merge, Properties, Node
  <2> QED BY <1>3, <2>1, <2>2 DEF NodeAfter, Node
<1> QED BY <1>2, <1>3

LEMMA TouchType ==
  ASSUME NEW g \in Graph, NEW ends \in SUBSET Subjects, NEW seq \in Nat
  PROVE  /\ Touch(g, ends, seq) \in [Subjects -> Node \cup {NoNode}]
         /\ \A s \in Subjects :
              (Touch(g, ends, seq)[s] # NoNode) <=> Exists(g, s)
<1>1. g.subjects \in [Subjects -> Node \cup {NoNode}]
  BY DEF Graph
<1>2. \A n \in Node : [n EXCEPT !.touched = seq] \in Node
  BY DEF Node
<1>3. \A s \in Subjects :
        /\ Touch(g, ends, seq)[s] \in Node \cup {NoNode}
        /\ (Touch(g, ends, seq)[s] # NoNode) <=> Exists(g, s)
  BY <1>1, <1>2, AbsentIsNoNode DEF Touch, Exists
<1> QED BY <1>3 DEF Touch

\* A step that succeeds keeps the graph typed, its revision and its subjects,
\* establishes what it says, and adds at most the relation it carries.
LEMMA Effect ==
  ASSUME NEW g \in Graph, NEW st \in Step, NEW seq \in Nat, StepOk(g, st)
  PROVE  /\ StepEffect(g, st, seq) \in Graph
         /\ StepEffect(g, st, seq).revision = g.revision
         /\ \A s \in Subjects : Exists(g, s) => Exists(StepEffect(g, st, seq), s)
         /\ \A s \in Establishes(st) : Exists(StepEffect(g, st, seq), s)
         /\ ~IsRelationStep(st) => StepEffect(g, st, seq).relations = g.relations
         /\ IsRelationStep(st) =>
              StepEffect(g, st, seq).relations \subseteq g.relations \cup {st.fact}
<1>1. CASE st \in SubjectStep
  <2> DEFINE n == NodeAfter(g.subjects[st.subject], st, seq)
  <2>1. ~IsRelationStep(st) /\ st.subject \in Subjects /\ st.needs \subseteq Subjects
    BY <1>1, StepKinds DEF SubjectStep
  <2>2. n \in Node /\ n # NoNode
    <3>1. g.subjects[st.subject] \in Node \cup {NoNode}
      BY <2>1 DEF Graph
    <3> QED BY <1>1, <3>1, NodeAfterType, AbsentIsNoNode
  <2>3. StepEffect(g, st, seq) = [g EXCEPT !.subjects[st.subject] = n]
    BY <2>1 DEF StepEffect, IsRelationStep
  <2> HIDE DEF n
  <2>4. Establishes(st) = st.needs \cup {st.subject}
    BY <2>1 DEF Establishes
  <2>5. [g EXCEPT !.subjects[st.subject] = n] \in Graph
    BY <2>1, <2>2 DEF Graph
  <2>6. \A s \in Subjects : [g EXCEPT !.subjects[st.subject] = n].subjects[s]
                            = IF s = st.subject THEN n ELSE g.subjects[s]
    BY <2>1 DEF Graph
  <2>7. \A s \in st.needs : Exists(g, s)
    BY DEF StepOk
  <2>8. \A s \in Subjects : Exists(g, s) \/ s = st.subject
                            => Exists(StepEffect(g, st, seq), s)
    BY <2>2, <2>3, <2>6 DEF Exists
  <2>9. /\ [g EXCEPT !.subjects[st.subject] = n].revision = g.revision
        /\ [g EXCEPT !.subjects[st.subject] = n].relations = g.relations
    BY DEF Graph
  <2> QED BY <2>1, <2>3, <2>4, <2>5, <2>7, <2>8, <2>9
<1>2. CASE st \in RelationStep
  <2> DEFINE touched == Touch(g, {st.fact.from, st.fact.to}, seq)
  <2>1. IsRelationStep(st) /\ st.needs \subseteq Subjects /\ st.fact \in RelationFact
    BY <1>2, StepKinds DEF RelationStep
  <2>2. touched \in [Subjects -> Node \cup {NoNode}]
        /\ \A s \in Subjects : Exists(g, s) => touched[s] # NoNode
    <3>1. {st.fact.from, st.fact.to} \in SUBSET Subjects
      BY <2>1 DEF RelationFact
    <3>2. ASSUME NEW ends \in SUBSET Subjects
          PROVE  /\ Touch(g, ends, seq) \in [Subjects -> Node \cup {NoNode}]
                 /\ \A s \in Subjects : Exists(g, s) => Touch(g, ends, seq)[s] # NoNode
      BY TouchType
    <3> QED BY <3>1, <3>2 DEF touched
  <2>3. \/ StepEffect(g, st, seq) = g
        \/ StepEffect(g, st, seq) =
             [g EXCEPT !.relations = @ \cup {st.fact}, !.subjects = touched]
    BY <2>1 DEF StepEffect, IsRelationStep
  <2> HIDE DEF touched
  <2>4. Establishes(st) = st.needs
    BY <2>1 DEF Establishes
  <2>5. \A s \in st.needs : Exists(g, s)
    BY DEF StepOk
  <2>6. CASE StepEffect(g, st, seq) = g
    BY <2>1, <2>4, <2>5, <2>6
  <2>7. CASE StepEffect(g, st, seq) =
             [g EXCEPT !.relations = @ \cup {st.fact}, !.subjects = touched]
    <3> DEFINE h == [g EXCEPT !.relations = @ \cup {st.fact}, !.subjects = touched]
    <3>1. /\ h.subjects = touched /\ h.revision = g.revision
          /\ h.relations = g.relations \cup {st.fact}
      BY DEF Graph
    <3>2. h \in Graph
      BY <2>1, <2>2 DEF Graph
    <3>3. \A s \in Subjects : Exists(g, s) => Exists(h, s)
      BY <2>2, <3>1 DEF Exists
    <3>4. StepEffect(g, st, seq) = h
      BY <2>7
    <3> HIDE DEF h
    <3> QED BY <2>1, <2>4, <2>5, <3>1, <3>2, <3>3, <3>4
  <2> QED BY <2>3, <2>6, <2>7
<1> QED BY <1>1, <1>2 DEF Step

-----------------------------------------------------------------------------
(* Applying one event.                                                      *)

\* However far a projection gets, it leaves a graph at the same revision.
LEMMA StepRunsTyped ==
  ASSUME NEW g \in Graph, NEW steps \in Seq(Step), NEW seq \in Nat
  PROVE  \A n \in 0..Len(steps) :
           LET r == StepRuns(g, steps, seq)[n]
           IN r.graph \in Graph /\ r.graph.revision = g.revision
<1> DEFINE R(n) == StepRuns(g, steps, seq)[n]
           S == {n \in Nat : n <= Len(steps) =>
                                R(n).graph \in Graph /\ R(n).graph.revision = g.revision}
<1>0. Len(steps) \in Nat
  OBVIOUS
<1>1. 0 \in S
  <2>1. R(0) = Ran(TRUE, g)
    BY <1>0, StepRunsUnfold
  <2> QED BY <2>1 DEF Ran
<1>2. ASSUME NEW n \in S PROVE n + 1 \in S
  <2> SUFFICES ASSUME n + 1 <= Len(steps)
               PROVE  R(n+1).graph \in Graph /\ R(n+1).graph.revision = g.revision
    OBVIOUS
  <2>1. n + 1 \in 1..Len(steps) /\ (n + 1) - 1 = n /\ n <= Len(steps)
        /\ steps[n+1] \in Step
    OBVIOUS
  <2>2. R(n).graph \in Graph /\ R(n).graph.revision = g.revision
    BY <2>1
  <2>3. R(n+1) = RunStep(R(n), steps[n+1], seq)
    <3>1. R(n+1) = RunStep(R((n+1) - 1), steps[n+1], seq)
      BY <1>0, <2>1, StepRunsUnfold
    <3> QED BY <2>1, <3>1
  <2> HIDE DEF R
  <2> QED BY <2>1, <2>2, <2>3, Effect DEF RunStep, Ran
<1> HIDE DEF S
<1>3. \A n \in Nat : n \in S
  BY <1>1, <1>2, Induction DEF S
<1> QED BY <1>3 DEF S

\* What an entry adds to the revision.
Bump(e) == IF e.kind = "patch-rejected" THEN 0 ELSE 1

Result == [ok : BOOLEAN, graph : Graph]

\* An event leaves a graph; it succeeds only after success, with its revision.
LEMMA EventApplied ==
  ASSUME NEW q \in Result, NEW e, WellFormed(e), NEW seq \in Nat
  PROVE  LET r == ApplyEvent(q, e, seq) IN
         /\ r \in Result
         /\ r.ok => q.ok /\ r.graph.revision = q.graph.revision + Bump(e)
         /\ e.kind = "patch-rejected" => r = q
<1> DEFINE g == q.graph
           run == RunSteps(g, Steps(e), seq)
           r == ApplyEvent(q, e, seq)
<1>1. g \in Graph /\ Steps(e) \in Seq(Step) /\ Len(Steps(e)) \in 0..Len(Steps(e))
  BY StepsGrounded DEF GroundedSteps, Result
<1>2. run.graph \in Graph /\ run.graph.revision = g.revision
  BY <1>1, StepRunsTyped DEF RunSteps
<1>3. r = IF q.ok /\ run.ok
          THEN Ran(TRUE, [run.graph EXCEPT !.revision = RevisionAfter(run.graph, e)])
          ELSE Ran(FALSE, run.graph)
  BY DEF ApplyEvent
<1>4. e.kind = "patch-rejected" => run = Ran(TRUE, g)
  <2>1. e.kind = "patch-rejected" => Len(Steps(e)) = 0
    BY DEF Steps, WorldSteps
  <2>2. ASSUME NEW steps, Len(steps) = 0 PROVE RunSteps(g, steps, seq) = Ran(TRUE, g)
    <3>1. Len(steps) \in Nat
      BY <2>2
    <3>2. StepRuns(g, steps, seq)[0] = Ran(TRUE, g)
      BY <3>1, StepRunsUnfold
    <3> QED BY <2>2, <3>2 DEF RunSteps
  <2> QED BY <2>1, <2>2
<1> HIDE DEF run, r, g
<1>5. RevisionAfter(run.graph, e) = g.revision + Bump(e) /\ g.revision \in Nat
      /\ RevisionAfter(run.graph, e) \in Nat
  BY <1>1, <1>2 DEF RevisionAfter, Bump, Graph
<1>6. CASE q.ok /\ run.ok
  <2> DEFINE h == [run.graph EXCEPT !.revision = RevisionAfter(run.graph, e)]
  <2>1. h \in Graph /\ h.revision = g.revision + Bump(e)
    BY <1>2, <1>5 DEF Graph
  <2>2. e.kind = "patch-rejected" => h = g
    BY <1>1, <1>4, <1>5 DEF Graph, Ran, Bump
  <2>3. r = Ran(TRUE, h)
    BY <1>3, <1>6
  <2> HIDE DEF h
  <2>4. r.ok /\ r.graph = h /\ r \in Result
    BY <2>1, <2>3 DEF Ran, Result
  <2>5. q = Ran(TRUE, g)
    BY <1>6 DEF Ran, Result, g
  <2> QED BY <1>6, <2>1, <2>2, <2>3, <2>4, <2>5 DEF g, r
<1>7. CASE ~(q.ok /\ run.ok)
  <2>1. r = Ran(FALSE, run.graph)
    BY <1>3, <1>7
  <2>2. ~r.ok /\ r \in Result
    BY <1>2, <2>1 DEF Ran, Result
  <2>3. e.kind = "patch-rejected" => run.ok /\ run.graph = g
    BY <1>4 DEF Ran
  <2>4. e.kind = "patch-rejected" => q = Ran(FALSE, g)
    BY <1>7, <2>3 DEF Ran, Result, g
  <2> QED BY <2>1, <2>2, <2>3, <2>4 DEF r
<1> QED BY <1>6, <1>7

LEMMA PatchEvents ==
  ASSUME NEW kind \in {"patch-applied", "patch-rejected"}, NEW ops \in Seq(Step),
         \A i \in DOMAIN ops : IsOperation(ops[i])
  PROVE  WellFormed(PatchEvent(kind, ops))
<1>1. (CHOOSE s \in Subjects : TRUE) \in Subjects
  BY ConstantsAssumption
<1>2. PatchEvent(kind, ops) \in Event
  BY <1>1, PropsType DEF PatchEvent, Event, EventKind, RelationKind, AuthorityClass
<1> QED BY <1>2 DEF PatchEvent, WellFormed, NeedsOther

-----------------------------------------------------------------------------
(* What an event leaves of the graph, whether or not it succeeds.           *)

EndsIn(g) == \A r \in g.relations : Exists(g, r.from) /\ Exists(g, r.to)

\* The graph h after something has happened to g: no subject and no relation
\* is gone.
Keeps(g, h) ==
  /\ \A s \in Subjects : Exists(g, s) => Exists(h, s)
  /\ g.relations \subseteq h.relations

\* The subjects a projection may add, and no others.
Makes(steps) == {steps[j].subject : j \in {k \in DOMAIN steps : ~IsRelationStep(steps[k])}}
Adds(g, h, S) == \A s \in Subjects : Exists(h, s) => Exists(g, s) \/ s \in S

LEMMA EffectAdds ==
  ASSUME NEW g \in Graph, NEW st \in Step, NEW seq \in Nat
  PROVE  \A s \in Subjects : Exists(StepEffect(g, st, seq), s)
           => Exists(g, s) \/ (~IsRelationStep(st) /\ s = st.subject)
<1>1. CASE st \in SubjectStep
  <2>1. ~IsRelationStep(st) /\ st.subject \in Subjects
    BY <1>1, StepKinds DEF SubjectStep
  <2>2. PICK n : n = NodeAfter(g.subjects[st.subject], st, seq)
    OBVIOUS
  <2>3. StepEffect(g, st, seq) = [g EXCEPT !.subjects[st.subject] = n]
    BY <2>1, <2>2 DEF StepEffect, IsRelationStep
  <2>4. \A s \in Subjects : s # st.subject =>
          StepEffect(g, st, seq).subjects[s] = g.subjects[s]
    BY <2>1, <2>3 DEF Graph
  <2> QED BY <2>1, <2>4 DEF Exists
<1>2. CASE st \in RelationStep
  <2>1. IsRelationStep(st) /\ st.fact \in RelationFact
    BY <1>2, StepKinds DEF RelationStep
  <2>2. PICK ends : ends = {st.fact.from, st.fact.to}
    OBVIOUS
  <2>3. ends \in SUBSET Subjects
    BY <2>1, <2>2 DEF RelationFact
  <2>4. \/ StepEffect(g, st, seq) = g
        \/ StepEffect(g, st, seq) =
             [g EXCEPT !.relations = @ \cup {st.fact}, !.subjects = Touch(g, ends, seq)]
    BY <2>1, <2>2 DEF StepEffect, IsRelationStep
  <2>5. \/ StepEffect(g, st, seq).subjects = g.subjects
        \/ StepEffect(g, st, seq).subjects = Touch(g, ends, seq)
    BY <2>4 DEF Graph
  <2> QED BY <2>3, <2>5, TouchType DEF Exists
<1> QED BY <1>1, <1>2 DEF Step

LEMMA EffectRelates ==
  ASSUME NEW g \in Graph, NEW st \in Step, NEW seq
  PROVE  g.relations \subseteq StepEffect(g, st, seq).relations
<1> PICK h, touched : /\ h = StepEffect(g, st, seq)
                      /\ touched = Touch(g, {st.fact.from, st.fact.to}, seq)
  OBVIOUS
<1>1. \/ h = g
      \/ h = [g EXCEPT !.relations = @ \cup {st.fact}, !.subjects = touched]
      \/ h = [g EXCEPT !.subjects[st.subject] = NodeAfter(@, st, seq)]
  BY DEF StepEffect
<1>2. [g EXCEPT !.relations = @ \cup {st.fact}, !.subjects = touched].relations
        = g.relations \cup {st.fact}
  BY DEF Graph
<1>3. [g EXCEPT !.subjects[st.subject] = NodeAfter(@, st, seq)].relations = g.relations
  BY DEF Graph
<1> QED BY <1>1, <1>2, <1>3

\* However far it gets, a grounded projection leaves no relation dangling, and
\* what its steps establish is there.
LEMMA RunsKeep ==
  ASSUME NEW g \in Graph, EndsIn(g), NEW steps, GroundedSteps(steps), NEW seq \in Nat
  PROVE  \A n \in 0..Len(steps) :
           LET r == StepRuns(g, steps, seq)[n]
           IN /\ r \in Result /\ EndsIn(r.graph) /\ Keeps(g, r.graph)
              /\ Adds(g, r.graph, Makes(steps))
              /\ r.ok => \A j \in 1..n : \A s \in Establishes(steps[j]) : Exists(r.graph, s)
<1> DEFINE R(n) == StepRuns(g, steps, seq)[n]
           Good(n, r) == /\ r \in Result /\ EndsIn(r.graph) /\ Keeps(g, r.graph)
                         /\ Adds(g, r.graph, Makes(steps))
                         /\ r.ok => \A j \in 1..n : \A s \in Establishes(steps[j]) :
                                      Exists(r.graph, s)
           S == {n \in Nat : n <= Len(steps) => Good(n, R(n))}
<1>0. steps \in Seq(Step) /\ Len(steps) \in Nat
  BY DEF GroundedSteps
<1>1. 0 \in S
  <2>1. R(0) = Ran(TRUE, g)
    BY <1>0, StepRunsUnfold
  <2>2. Good(0, Ran(TRUE, g))
    BY DEF Ran, Result, Keeps, Adds
  <2> QED BY <2>1, <2>2
<1>2. ASSUME NEW n \in S PROVE n + 1 \in S
  <2> SUFFICES ASSUME n + 1 <= Len(steps)
               PROVE  Good(n+1, R(n+1))
    OBVIOUS
  <2> PICK q, r, st : q = R(n) /\ r = R(n+1) /\ st = steps[n+1]
    OBVIOUS
  <2>1. /\ n + 1 \in 1..Len(steps) /\ (n + 1) - 1 = n /\ n <= Len(steps)
        /\ n + 1 \in DOMAIN steps /\ n \in Nat /\ st \in Step
    BY <1>0
  <2>2. Good(n, q)
    BY <2>1
  <2>3. r = RunStep(q, st, seq)
    <3>1. R(n+1) = RunStep(R((n+1) - 1), steps[n+1], seq)
      BY <1>0, <2>1, StepRunsUnfold
    <3> QED BY <2>1, <3>1
  <2> HIDE DEF R
  <2>4. CASE ~(q.ok /\ StepOk(q.graph, st))
    <3>1. r = Ran(FALSE, q.graph)
      BY <2>3, <2>4 DEF RunStep
    <3>2. Good(n+1, Ran(FALSE, q.graph))
      BY <2>2 DEF Ran, Result
    <3> QED BY <3>1, <3>2
  <2>5. CASE q.ok /\ StepOk(q.graph, st)
    <3> DEFINE h == StepEffect(q.graph, st, seq)
    <3>1. r = Ran(TRUE, h) /\ q.graph \in Graph
      BY <2>2, <2>3, <2>5 DEF RunStep, Result
    <3>2. /\ h \in Graph /\ \A s \in Subjects : Exists(q.graph, s) => Exists(h, s)
          /\ \A s \in Establishes(st) : Exists(h, s)
          /\ ~IsRelationStep(st) => h.relations = q.graph.relations
          /\ IsRelationStep(st) => h.relations \subseteq q.graph.relations \cup {st.fact}
      BY <2>1, <2>5, <3>1, Effect
    <3> HIDE DEF h
    <3>3. ASSUME NEW j \in 1..(n+1), NEW s \in Establishes(steps[j])
          PROVE  Exists(h, s)
      <4>1. CASE j = n + 1
        BY <3>2, <3>3, <4>1
      <4>2. CASE j # n + 1
        <5>1. j \in 1..n /\ Exists(q.graph, s)
          BY <2>1, <2>2, <2>5, <3>3, <4>2
        <5>2. s \in Subjects
          <6>1. j \in DOMAIN steps
            BY <1>0, <2>1, <5>1
          <6>2. steps[j] \in Step
            BY <1>0, <6>1
          <6>3. \A x \in Step : Establishes(x) \subseteq Subjects
            BY StepKinds DEF Step, SubjectStep, RelationStep, Establishes
          <6> QED BY <3>3, <6>2, <6>3
        <5> QED BY <3>2, <5>1, <5>2
      <4> QED BY <4>1, <4>2
    <3>4. ASSUME IsRelationStep(st), NEW s \in Ends(st)
          PROVE  Exists(h, s)
      <4>1. \/ s \in st.needs
            \/ \E j \in 1..n : s \in Establishes(steps[j])
        BY <2>1, <3>4 DEF GroundedSteps, Grounded
      <4>2. s \in st.needs => s \in Establishes(st)
        BY <3>4 DEF Establishes
      <4> QED BY <2>1, <3>2, <3>3, <4>1, <4>2
    <3>5. EndsIn(h)
      <4> SUFFICES ASSUME NEW f \in h.relations
                   PROVE  Exists(h, f.from) /\ Exists(h, f.to)
        BY DEF EndsIn
      <4>1. CASE f \in q.graph.relations
        <5>1. f.from \in Subjects /\ f.to \in Subjects
          BY <3>1, <4>1 DEF Graph, RelationFact
        <5> QED BY <2>2, <3>2, <4>1, <5>1 DEF EndsIn
      <4>2. CASE f \notin q.graph.relations
        <5>1. IsRelationStep(st) /\ f = st.fact
          BY <3>2, <4>2
        <5> QED BY <3>4, <5>1 DEF Ends
      <4> QED BY <4>1, <4>2
    <3>6. Keeps(g, h)
      <4>1. q.graph.relations \subseteq h.relations
        BY <2>1, <3>1, EffectRelates DEF h
      <4> QED BY <2>2, <3>2, <4>1 DEF Keeps
    <3>7. Adds(g, h, Makes(steps))
      <4>1. h = StepEffect(q.graph, st, seq)
        BY DEF h
      <4>2. ~IsRelationStep(st) => st.subject \in Makes(steps)
        BY <2>1 DEF Makes
      <4>3. \A s \in Subjects : Exists(h, s)
              => Exists(q.graph, s) \/ (~IsRelationStep(st) /\ s = st.subject)
        BY <2>1, <3>1, <4>1, EffectAdds
      <4> QED BY <2>2, <4>2, <4>3 DEF Adds
    <3>8. Ran(TRUE, h).graph = h /\ Ran(TRUE, h) \in Result
      BY <3>2 DEF Ran, Result
    <3> QED BY <3>1, <3>3, <3>5, <3>6, <3>7, <3>8
  <2> QED BY <2>4, <2>5
<1> HIDE DEF S
<1>3. \A n \in Nat : n \in S
  BY <1>1, <1>2, Induction DEF S
<1>4. ASSUME NEW n \in 0..Len(steps) PROVE Good(n, R(n))
  <2>1. n \in Nat /\ n \in S /\ n <= Len(steps)
    BY <1>0, <1>3
  <2> HIDE DEF Good, R
  <2> QED BY <2>1 DEF S
<1> QED BY <1>4

\* The same of an event.
LEMMA EventKeeps ==
  ASSUME NEW g \in Graph, EndsIn(g), NEW e, WellFormed(e), NEW seq \in Nat
  PROVE  LET r == ApplyEvent(Ran(TRUE, g), e, seq)
             run == RunSteps(g, Steps(e), seq)
         IN /\ r \in Result /\ EndsIn(r.graph) /\ Keeps(g, r.graph)
            /\ Adds(g, r.graph, Makes(Steps(e)))
            /\ r.ok <=> run.ok
            /\ r.ok => \A j \in DOMAIN Steps(e) : \A s \in Establishes(Steps(e)[j]) :
                         Exists(r.graph, s)
            /\ \A s \in Subjects : r.graph.subjects[s] = run.graph.subjects[s]
            /\ r.graph.relations = run.graph.relations
<1> DEFINE run == RunSteps(g, Steps(e), seq)
           r == ApplyEvent(Ran(TRUE, g), e, seq)
<1>1. GroundedSteps(Steps(e))
  BY StepsGrounded
<1>2. Steps(e) \in Seq(Step) /\ Len(Steps(e)) \in 0..Len(Steps(e))
      /\ DOMAIN Steps(e) = 1..Len(Steps(e))
  BY <1>1 DEF GroundedSteps
<1>3. /\ run \in Result /\ EndsIn(run.graph) /\ Keeps(g, run.graph)
      /\ Adds(g, run.graph, Makes(Steps(e)))
      /\ run.ok => \A j \in DOMAIN Steps(e) : \A s \in Establishes(Steps(e)[j]) :
                     Exists(run.graph, s)
  BY <1>1, <1>2, RunsKeep DEF RunSteps
<1>4. r = IF run.ok
          THEN Ran(TRUE, [run.graph EXCEPT !.revision = RevisionAfter(run.graph, e)])
          ELSE Ran(FALSE, run.graph)
  BY DEF ApplyEvent, Ran
<1> HIDE DEF run, r
<1>5. run.graph \in Graph /\ run.ok \in BOOLEAN
  BY <1>3 DEF Result
<1>6. CASE ~run.ok
  BY <1>3, <1>4, <1>5, <1>6 DEF Ran, Result, run, r
<1>7. CASE run.ok
  <2> DEFINE h == [run.graph EXCEPT !.revision = RevisionAfter(run.graph, e)]
  <2>1. /\ h \in Graph /\ h.subjects = run.graph.subjects
        /\ h.relations = run.graph.relations
    BY <1>5 DEF Graph, RevisionAfter
  <2>2. r = Ran(TRUE, h)
    BY <1>4, <1>7
  <2> HIDE DEF h
  <2>3. r.ok = TRUE /\ r.graph = h /\ r \in Result
    BY <2>1, <2>2 DEF Ran, Result
  <2>4. /\ EndsIn(h) /\ Keeps(g, h) /\ Adds(g, h, Makes(Steps(e)))
        /\ \A s : Exists(h, s) <=> Exists(run.graph, s)
    BY <1>3, <2>1 DEF EndsIn, Keeps, Exists, Adds
  <2> QED BY <1>3, <1>7, <2>1, <2>3, <2>4 DEF run, r
<1> QED BY <1>6, <1>7

\* Projections of no, one and two steps.
LEMMA ShortRuns ==
  ASSUME NEW g, NEW a, NEW seq
  PROVE  /\ RunSteps(g, << >>, seq) = Ran(TRUE, g)
         /\ RunSteps(g, << a >>, seq) = RunStep(Ran(TRUE, g), a, seq)
         /\ \A b : RunSteps(g, << a, b >>, seq) = RunStep(RunStep(Ran(TRUE, g), a, seq), b, seq)
<1> DEFINE R(s, n) == StepRuns(g, s, seq)[n]
<1>1. ASSUME NEW s, Len(s) \in Nat
      PROVE  /\ R(s, 0) = Ran(TRUE, g)
             /\ \A n \in 1..Len(s) : R(s, n) = RunStep(R(s, n-1), s[n], seq)
  BY <1>1, StepRunsUnfold
<1>2. ASSUME NEW s
      PROVE  RunSteps(g, s, seq) = R(s, Len(s))
  BY DEF RunSteps
<1> HIDE DEF R
<1>3. RunSteps(g, << a >>, seq) = RunStep(Ran(TRUE, g), a, seq)
  <2> PICK s : s = << a >>
    OBVIOUS
  <2>1. Len(s) = 1 /\ Len(s) \in Nat /\ 1 \in 1..Len(s) /\ s[1] = a /\ 1 - 1 = 0
    OBVIOUS
  <2>2. R(s, 1) = RunStep(R(s, 0), a, seq)
    BY <1>1, <2>1
  <2> QED BY <1>1, <1>2, <2>1, <2>2
<1>4. ASSUME NEW b
      PROVE  RunSteps(g, << a, b >>, seq) = RunStep(RunStep(Ran(TRUE, g), a, seq), b, seq)
  <2> PICK s : s = << a, b >>
    OBVIOUS
  <2>1. /\ Len(s) = 2 /\ Len(s) \in Nat /\ 1 \in 1..Len(s) /\ 2 \in 1..Len(s)
        /\ s[1] = a /\ s[2] = b /\ 1 - 1 = 0 /\ 2 - 1 = 1
    OBVIOUS
  <2>2. R(s, 1) = RunStep(R(s, 0), a, seq) /\ R(s, 2) = RunStep(R(s, 1), b, seq)
    BY <1>1, <2>1
  <2> QED BY <1>1, <1>2, <2>1, <2>2
<1>5. RunSteps(g, << >>, seq) = Ran(TRUE, g)
  <2> PICK s : s = << >>
    OBVIOUS
  <2>1. Len(s) = 0 /\ Len(s) \in Nat
    OBVIOUS
  <2> QED BY <1>1, <1>2, <2>1
<1> QED BY <1>3, <1>4, <1>5

-----------------------------------------------------------------------------
(* What an event writes.  All its steps but the relations are about its own *)
(* subject and properties, or about a subject of which they say nothing.    *)

Says(steps, s, p) ==
  \A j \in DOMAIN steps : \/ IsRelationStep(steps[j]) \/ steps[j].props = NoProps
                          \/ steps[j].subject = s /\ steps[j].props = p

\* The step leaves property k of s as it is, if it was there.
Silent(st, s, k) == IsRelationStep(st) \/ st.subject # s \/ st.props[k] = Unset

LEMMA WhatStepsSay ==
  ASSUME NEW s, NEW p
  PROVE  /\ \A needs, a : LET d == Define(needs, s, a, p) IN d.subject = s /\ d.props = p
         /\ Update(s, p).subject = s /\ Update(s, p).props = p
         /\ \A m : Observe(m).props = NoProps /\ Retire(m).props = NoProps
         /\ \A needs, f : IsRelationStep(Relate(needs, f)) /\ IsRelationStep(Link(needs, f))
         /\ \A f : IsRelationStep(Declare(f))
         /\ \A m : IsRelationStep(Mention(s, m)) /\ IsRelationStep(Refuse(m))
  BY DEF Define, Update, Observe, Retire, OnSubject, Relate, Link, Declare, Mention,
         Refuse, IsRelationStep

LEMMA TurnSays ==
  ASSUME NEW s, NEW p, NEW o
  PROVE  Says(TurnSteps(s, p, o), s, p)
<1> PICK u, m, l, x : /\ u = Update(s, p) /\ m = Observe(o) /\ x = Refuse(s)
                      /\ l = Link({}, Fact(s, "used_model", o, "derived"))
  OBVIOUS
<1>1. u.subject = s /\ u.props = p /\ m.props = NoProps
      /\ IsRelationStep(l) /\ IsRelationStep(x)
  BY WhatStepsSay
<1>2. TurnSteps(s, p, o) = << u, x >> \/ TurnSteps(s, p, o) = << u, m, l >>
  BY DEF TurnSteps
<1> QED BY <1>1, <1>2 DEF Says

\* What is said of s, and then relations.
LEMMA ThenRelationsSay ==
  ASSUME NEW T, NEW head \in Seq(T), NEW rest \in Seq(T), NEW s, NEW p,
         Says(head, s, p), \A j \in DOMAIN rest : IsRelationStep(rest[j])
  PROVE  Says(head \o rest, s, p)
<1> SUFFICES ASSUME NEW j \in DOMAIN (head \o rest)
             PROVE  LET st == (head \o rest)[j]
                    IN \/ IsRelationStep(st) \/ st.props = NoProps
                       \/ st.subject = s /\ st.props = p
  BY DEF Says
<1>1. CASE j \in DOMAIN head
  <2>1. (head \o rest)[j] = head[j]
    BY <1>1
  <2> QED BY <1>1, <2>1 DEF Says
<1>2. CASE j \notin DOMAIN head
  <2>1. j - Len(head) \in DOMAIN rest /\ (head \o rest)[j] = rest[j - Len(head)]
    BY <1>2
  <2> QED BY <2>1
<1> QED BY <1>1, <1>2

LEMMA WorldSays ==
  ASSUME NEW e, WellFormed(e),
         e.kind \in {"subject-defined", "subject-updated", "subject-deprecated",
                     "relation-declared", "patch-rejected"}
  PROVE  Says(WorldSteps(e), e.subject, e.props)
<1> PICK d, u, x, r : /\ d = Define({}, e.subject, e.authority, e.props)
                      /\ u = Update(e.subject, e.props) /\ x = Retire(e.subject)
                      /\ r = Declare(Fact(e.subject, e.relation, e.other, e.authority))
  OBVIOUS
<1>1. /\ d.subject = e.subject /\ d.props = e.props
      /\ u.subject = e.subject /\ u.props = e.props
      /\ x.props = NoProps /\ IsRelationStep(r)
  BY WhatStepsSay
<1>2. WorldSteps(e) \in {<< d >>, << u >>, << x >>, << r >>, << >>}
  BY DEF WorldSteps
<1> QED BY <1>1, <1>2 DEF Says

LEMMA ConversationSays ==
  ASSUME NEW e, WellFormed(e),
         e.kind \in {"thread-started", "message-appended", "turn-completed",
                     "tool-invoked", "thread-forked", "advisory-raised"}
  PROVE  Says(ConversationSteps(e), e.subject, e.props)
<1> USE DEF ConversationSteps
<1> DEFINE Defines(d) == d.subject = e.subject /\ d.props = e.props
<1>d. \A needs, a : Defines(Define(needs, e.subject, a, e.props))
  BY DEF Define, OnSubject
<1>r. \A needs, f : IsRelationStep(Relate(needs, f)) /\ IsRelationStep(Link(needs, f))
  BY WhatStepsSay
<1>s. \A d, r : Defines(d) /\ IsRelationStep(r) => /\ Says(<< d >>, e.subject, e.props)
                                                   /\ Says(<< d, r >>, e.subject, e.props)
  BY DEF Says
<1> HIDE DEF Defines
<1>1. CASE e.kind = "thread-started"
  BY <1>1, <1>d, <1>r, <1>s
<1>2. CASE e.kind = "message-appended"
  <2> PICK d, r, mentions :
        /\ d = Define({e.other}, e.subject, "authoritative", e.props)
        /\ r = Relate({}, Fact(e.other, "contains", e.subject, "authoritative"))
        /\ mentions = [i \in DOMAIN e.also |-> Mention(e.subject, e.also[i])]
    OBVIOUS
  <2>1. Says(<< d, r >>, e.subject, e.props)
    BY <1>d, <1>r, <1>s
  <2>2. e.also \in Seq(Subjects)
    BY EventFields
  <2> PICK T : T = {d, r} \cup {Mention(e.subject, e.also[i]) : i \in DOMAIN e.also}
    OBVIOUS
  <2>3. mentions \in Seq(T) /\ DOMAIN mentions = DOMAIN e.also
    <3>1. mentions \in [1..Len(e.also) -> T]
      BY <2>2
    <3> QED BY <2>2, <3>1
  <2>4. << d, r >> \in Seq(T)
    OBVIOUS
  <2>5. \A j \in DOMAIN mentions : IsRelationStep(mentions[j])
    BY <2>3, WhatStepsSay
  <2>6. ConversationSteps(e) = << d, r >> \o mentions
    BY <1>2
  <2> QED BY ONLY <2>1, <2>3, <2>4, <2>5, <2>6, ThenRelationsSay
<1>3. CASE e.kind = "turn-completed"
  BY <1>3, TurnSays
<1>4. CASE e.kind = "tool-invoked"
  BY <1>4, <1>d, <1>r, <1>s
<1>5. CASE e.kind = "thread-forked"
  BY <1>5, <1>d, <1>r, <1>s
<1>6. CASE e.kind = "advisory-raised"
  BY <1>6, <1>d, <1>r, <1>s
<1> QED BY <1>1, <1>2, <1>3, <1>4, <1>5, <1>6

LEMMA FrameSays ==
  ASSUME NEW e, WellFormed(e),
         e.kind \in {"frame-started", "frame-turn-completed", "frame-closed"}
  PROVE  Says(FrameSteps(e), e.subject, e.props)
<1>1. CASE e.kind = "frame-started"
  <2> DEFINE agents == {e.other} \ {NoSubject}
             named == {e.also[i] : i \in DOMAIN e.also}
             dd == Define(agents \cup named, e.subject, "authoritative", e.props)
             rr == Relate({}, Fact(e.subject, "delegated_to", e.other, "authoritative"))
             M(i) == Relate({}, Fact(e.subject, "mentions", e.also[i], "authoritative"))
             hd == IF agents = {} THEN << dd >> ELSE << dd, rr >>
             mm == [i \in DOMAIN e.also |-> M(i)]
  <2>1. FrameSteps(e) = hd \o mm
    BY <1>1 DEF FrameSteps
  <2> PICK d, r, mentions, head : d = dd /\ r = rr /\ mentions = mm /\ head = hd
    OBVIOUS
  <2>2. d.subject = e.subject /\ d.props = e.props /\ IsRelationStep(r)
    BY DEF Define, Relate, OnSubject, IsRelationStep
  <2>3. \A i \in DOMAIN e.also : IsRelationStep(M(i))
    BY WhatStepsSay
  <2>4. e.also \in Seq(Subjects)
    BY EventFields
  <2> PICK T : T = {d, r} \cup {M(i) : i \in DOMAIN e.also}
    OBVIOUS
  <2>5. head \in Seq(T) /\ (head = << d >> \/ head = << d, r >>)
    <3>1. head = << d >> \/ head = << d, r >>
      OBVIOUS
    <3>2. d \in T /\ r \in T
      OBVIOUS
    <3>3. << d >> \in Seq(T) /\ << d, r >> \in Seq(T)
      BY ONLY <3>2
    <3> QED BY <3>1, <3>3
  <2>6. mentions \in Seq(T) /\ DOMAIN mentions = DOMAIN e.also
    <3> HIDE DEF M
    <3>1. mentions \in [1..Len(e.also) -> T]
      BY <2>4
    <3> QED BY <2>4, <3>1
  <2>7. \A j \in DOMAIN mentions : IsRelationStep(mentions[j])
    <3> HIDE DEF M
    <3> QED BY <2>3, <2>6
  <2>8. Says(head, e.subject, e.props)
    BY <2>2, <2>5 DEF Says
  <2>9. FrameSteps(e) = head \o mentions
    BY <2>1
  <2> QED BY ONLY <2>5, <2>6, <2>7, <2>8, <2>9, ThenRelationsSay
<1>2. CASE e.kind = "frame-turn-completed"
  BY <1>2, TurnSays DEF FrameSteps
<1>3. CASE e.kind = "frame-closed"
  <2> PICK u : u = Update(e.subject, e.props)
    OBVIOUS
  <2>1. u.subject = e.subject /\ u.props = e.props /\ FrameSteps(e) = << u >>
    BY <1>3, WhatStepsSay DEF FrameSteps
  <2> QED BY <2>1 DEF Says
<1> QED BY <1>1, <1>2, <1>3

LEMMA OthersSay ==
  ASSUME NEW e, WellFormed(e),
         e.kind \in {"agent-defined", "agent-run-finished", "uat-check-recorded",
                     "intent-drafted", "intent-promoted", "sddk-proposal-submitted",
                     "canvas-bound"}
  PROVE  Says(Steps(e), e.subject, e.props)
<1> USE DEF Steps
<1> DEFINE Defines(d) == d.subject = e.subject /\ d.props = e.props
<1>d. /\ \A needs, a : Defines(Define(needs, e.subject, a, e.props))
      /\ Defines(Update(e.subject, e.props))
  BY WhatStepsSay
<1>r. \A needs, f : IsRelationStep(Relate(needs, f)) /\ IsRelationStep(Link(needs, f))
  BY WhatStepsSay
<1>s. \A d, r, x : Defines(d) /\ IsRelationStep(r) /\ IsRelationStep(x) =>
        /\ Says(<< d >>, e.subject, e.props) /\ Says(<< d, r >>, e.subject, e.props)
        /\ Says(<< d, r, x >>, e.subject, e.props)
  BY DEF Says
<1> HIDE DEF Defines
<1>1. CASE e.kind \in {"agent-defined", "uat-check-recorded"}
  BY <1>1, <1>d, <1>r, <1>s DEF AgentSteps
<1>2. CASE e.kind = "agent-run-finished"
  BY <1>2, <1>d, <1>r, <1>s DEF AgentSteps, AgentRun
<1>3. CASE e.kind \in {"intent-drafted", "intent-promoted"}
  BY <1>3, <1>d, <1>r, <1>s DEF IntentSteps
<1>4. CASE e.kind \in {"sddk-proposal-submitted", "canvas-bound"}
  BY <1>4, <1>d, <1>r, <1>s DEF IntentSteps
<1> QED BY <1>1, <1>2, <1>3, <1>4

\* The event writes its own subject only, unless it is a patch.
LEMMA EventSays ==
  ASSUME NEW e, WellFormed(e), e.kind # "patch-applied"
  PROVE  Says(Steps(e), e.subject, e.props)
<1>1. e.kind \in EventKind
  BY EventFields
<1> QED BY <1>1, WorldSays, ConversationSays, FrameSays, OthersSay DEF Steps, EventKind

-----------------------------------------------------------------------------
(* A property that no step writes stays, however far they get.              *)

LEMMA EffectSilent ==
  ASSUME NEW g \in Graph, NEW st \in Step, NEW seq \in Nat, NEW s \in Subjects,
         NEW k \in PropKeys, Exists(g, s), Silent(st, s, k)
  PROVE  StepEffect(g, st, seq).subjects[s].props[k] = g.subjects[s].props[k]
<1>0. g.subjects[s] \in Node /\ g.subjects[s] # NoNode
  BY DEF Graph, Exists
<1>1. CASE st \in SubjectStep
  <2>1. ~IsRelationStep(st) /\ st.subject \in Subjects
    BY <1>1, StepKinds DEF SubjectStep
  <2>2. PICK n : n = NodeAfter(g.subjects[st.subject], st, seq)
    OBVIOUS
  <2>3. StepEffect(g, st, seq) = [g EXCEPT !.subjects[st.subject] = n]
    BY <2>1, <2>2 DEF StepEffect, IsRelationStep
  <2>4. StepEffect(g, st, seq).subjects[s] = IF s = st.subject THEN n ELSE g.subjects[s]
    BY <2>1, <2>3 DEF Graph
  <2>5. s = st.subject => n.props = Merge(g.subjects[s].props, st.props)
    BY <1>0, <2>2 DEF NodeAfter, Node
  <2>6. s = st.subject => st.props[k] = Unset
    BY <2>1 DEF Silent
  <2>7. \A old, new : new[k] = Unset => Merge(old, new)[k] = old[k]
    BY DEF Merge
  <2> QED BY <2>4, <2>5, <2>6, <2>7
<1>2. CASE st \in RelationStep
  <2>1. IsRelationStep(st) /\ st.fact \in RelationFact
    BY <1>2, StepKinds DEF RelationStep
  <2>2. PICK ends : ends = {st.fact.from, st.fact.to}
    OBVIOUS
  <2>3. \/ StepEffect(g, st, seq) = g
        \/ StepEffect(g, st, seq) =
             [g EXCEPT !.relations = @ \cup {st.fact}, !.subjects = Touch(g, ends, seq)]
    BY <2>1, <2>2 DEF StepEffect, IsRelationStep
  <2>4. \/ StepEffect(g, st, seq).subjects = g.subjects
        \/ StepEffect(g, st, seq).subjects = Touch(g, ends, seq)
    BY <2>3 DEF Graph
  <2>5. Touch(g, ends, seq)[s].props = g.subjects[s].props
    <3>1. Touch(g, ends, seq)[s] \in {g.subjects[s], [g.subjects[s] EXCEPT !.touched = seq]}
      BY DEF Touch
    <3>2. [g.subjects[s] EXCEPT !.touched = seq].props = g.subjects[s].props
      BY <1>0 DEF Node
    <3> QED BY <3>1, <3>2
  <2> QED BY <2>4, <2>5
<1> QED BY <1>1, <1>2 DEF Step

LEMMA RunSilent ==
  ASSUME NEW g \in Graph, NEW steps \in Seq(Step), NEW seq \in Nat, NEW s \in Subjects,
         NEW k \in PropKeys, Exists(g, s), \A j \in DOMAIN steps : Silent(steps[j], s, k)
  PROVE  LET h == RunSteps(g, steps, seq).graph
         IN Exists(h, s) /\ h.subjects[s].props[k] = g.subjects[s].props[k]
<1> DEFINE R(n) == StepRuns(g, steps, seq)[n]
           Kept(r) == Exists(r.graph, s)
                      /\ r.graph.subjects[s].props[k] = g.subjects[s].props[k]
           S == {n \in Nat : n <= Len(steps) => Kept(R(n))}
<1>0. Len(steps) \in Nat
  OBVIOUS
<1>1. 0 \in S
  <2>1. R(0) = Ran(TRUE, g)
    BY <1>0, StepRunsUnfold
  <2> QED BY <2>1 DEF Ran
<1>2. ASSUME NEW n \in S PROVE n + 1 \in S
  <2> SUFFICES ASSUME n + 1 <= Len(steps) PROVE Kept(R(n+1))
    OBVIOUS
  <2> PICK q, r, st : q = R(n) /\ r = R(n+1) /\ st = steps[n+1]
    OBVIOUS
  <2>1. /\ n + 1 \in 1..Len(steps) /\ (n + 1) - 1 = n /\ n \in 0..Len(steps)
        /\ st \in Step /\ Silent(st, s, k)
    BY <1>0
  <2>2. Kept(q)
    BY <2>1
  <2>3. r = RunStep(q, st, seq)
    <3>1. R(n+1) = RunStep(R((n+1) - 1), steps[n+1], seq)
      BY <1>0, <2>1, StepRunsUnfold
    <3> QED BY <2>1, <3>1
  <2>4. q.graph \in Graph
    BY <2>1, StepRunsTyped
  <2> HIDE DEF R
  <2>5. CASE q.ok /\ StepOk(q.graph, st)
    <3> PICK h : h = StepEffect(q.graph, st, seq)
      OBVIOUS
    <3>1. h.subjects[s].props[k] = q.graph.subjects[s].props[k]
      BY <2>1, <2>2, <2>4, EffectSilent
    <3>2. Exists(h, s)
      BY <2>1, <2>2, <2>4, <2>5, Effect
    <3>3. r.graph = h
      BY <2>3, <2>5 DEF RunStep, Ran
    <3> QED BY <2>2, <3>1, <3>2, <3>3
  <2>6. CASE ~(q.ok /\ StepOk(q.graph, st))
    <3>1. r.graph = q.graph
      BY <2>3, <2>6 DEF RunStep, Ran
    <3> QED BY <2>2, <3>1
  <2> QED BY <2>5, <2>6
<1> HIDE DEF S
<1>3. \A n \in Nat : n \in S
  BY <1>1, <1>2, Induction DEF S
<1>4. Kept(R(Len(steps)))
  BY <1>0, <1>3 DEF S
<1> QED BY <1>4 DEF RunSteps

\* The same of an event, whether or not it succeeds.
LEMMA EventSilent ==
  ASSUME NEW q \in Result, NEW e, WellFormed(e), NEW seq \in Nat, NEW s \in Subjects,
         NEW k \in PropKeys, Exists(q.graph, s),
         \A j \in DOMAIN Steps(e) : Silent(Steps(e)[j], s, k)
  PROVE  LET h == ApplyEvent(q, e, seq).graph
         IN Exists(h, s) /\ h.subjects[s].props[k] = q.graph.subjects[s].props[k]
<1> PICK g, run : g = q.graph /\ run = RunSteps(g, Steps(e), seq)
  OBVIOUS
<1>1. g \in Graph /\ Steps(e) \in Seq(Step) /\ Len(Steps(e)) \in 0..Len(Steps(e))
  BY StepsGrounded DEF GroundedSteps, Result
<1>2. Exists(run.graph, s) /\ run.graph.subjects[s].props[k] = g.subjects[s].props[k]
  BY <1>1, RunSilent
<1>3. run.graph \in Graph
  BY <1>1, StepRunsTyped DEF RunSteps
<1>4. ApplyEvent(q, e, seq).graph.subjects = run.graph.subjects
  <2>1. ApplyEvent(q, e, seq).graph \in
          {[run.graph EXCEPT !.revision = RevisionAfter(run.graph, e)], run.graph}
    BY DEF ApplyEvent, Ran
  <2>2. [run.graph EXCEPT !.revision = RevisionAfter(run.graph, e)].subjects
          = run.graph.subjects
    BY <1>3 DEF Graph
  <2> QED BY <2>1, <2>2
<1> QED BY <1>2, <1>4 DEF Exists

\* An event that defines or updates one subject writes its properties to it.
LEMMA SubjectEventWrites ==
  ASSUME NEW q \in Result, NEW e, WellFormed(e), NEW seq \in Nat, NEW key \in PropKeys,
         e.kind \in {"subject-defined", "subject-updated", "intent-promoted"},
         e.props[key] # Unset, RunSteps(q.graph, Steps(e), seq).ok
  PROVE  LET h == ApplyEvent(q, e, seq).graph
         IN Exists(h, e.subject) /\ h.subjects[e.subject].props[key] = e.props[key]
<1> PICK g, st, s, run, h : /\ g = q.graph /\ st = Steps(e)[1] /\ s = e.subject
                            /\ run = RunSteps(g, Steps(e), seq)
                            /\ h = StepEffect(g, st, seq)
  OBVIOUS
<1>1. g \in Graph /\ s \in Subjects /\ e.props \in Properties /\ e.authority \in AuthorityClass
  BY EventFields DEF Result, WellFormed, Event
<1>2. Steps(e) = << st >> /\ st \in SubjectStep /\ st.subject = s /\ st.props = e.props
  <2>1. \/ Steps(e) = << Define({}, s, e.authority, e.props) >>
        \/ Steps(e) = << Update(s, e.props) >>
    BY DEF Steps, WorldSteps, IntentSteps
  <2>2. ASSUME NEW x, x = Define({}, s, e.authority, e.props) \/ x = Update(s, e.props)
        PROVE  x \in SubjectStep /\ x.subject = s /\ x.props = e.props
    BY <1>1, <2>2 DEF Define, Update, OnSubject, SubjectStep, AuthorityClass
  <2> QED BY <2>1, <2>2
<1>3. run = RunStep(Ran(TRUE, g), st, seq)
  <2>1. RunSteps(g, << st >>, seq) = RunStep(Ran(TRUE, g), st, seq)
    BY ShortRuns
  <2> QED BY <1>2, <2>1
<1>4. StepOk(g, st) /\ run.graph = h
  BY <1>3 DEF RunStep, Ran
<1>5. h \in Graph /\ Exists(h, s)
  <2>1. st \in Step /\ s \in Establishes(st)
    BY <1>2, StepKinds DEF Step, Establishes
  <2> QED BY <1>1, <1>4, <2>1, Effect
<1>6. h.subjects[s].props[key] = e.props[key]
  <2> PICK node : node = NodeAfter(g.subjects[s], st, seq)
    OBVIOUS
  <2>1. ~IsRelationStep(st) /\ g.subjects \in [Subjects -> Node \cup {NoNode}]
    BY <1>1, <1>2, StepKinds DEF Graph
  <2>2. h = [g EXCEPT !.subjects[s] = node]
    BY <1>2, <2>1 DEF StepEffect, IsRelationStep
  <2>3. h.subjects[s] = node
    BY <1>1, <2>1, <2>2 DEF Graph
  <2>4. node.props = st.props \/ \E old : node.props = Merge(old, st.props)
    BY <2>1, <1>1 DEF NodeAfter, Node
  <2>5. \A old : Merge(old, st.props)[key] = st.props[key]
    BY <1>2 DEF Merge
  <2> QED BY <1>2, <2>3, <2>4, <2>5
<1>7. ApplyEvent(q, e, seq).graph.subjects = h.subjects
  <2>1. ApplyEvent(q, e, seq).graph \in {[h EXCEPT !.revision = RevisionAfter(h, e)], h}
    BY <1>4 DEF ApplyEvent, Ran
  <2>2. [h EXCEPT !.revision = RevisionAfter(h, e)].subjects = h.subjects
    BY <1>5 DEF Graph
  <2> QED BY <2>1, <2>2
<1> QED BY <1>5, <1>6, <1>7 DEF Exists

-----------------------------------------------------------------------------
(* Replaying, one entry at a time.                                          *)

LEMMA ReplaysUnfold ==
  ASSUME NEW entries, Len(entries) \in Nat
  PROVE  /\ Replays(entries)[0] = Ran(TRUE, EmptyGraph)
         /\ \A n \in 1..Len(entries) :
              Replays(entries)[n]
                = ApplyEvent(Replays(entries)[n-1], entries[n].event, n - 1)
<1> DEFINE Of(f, k) == f = [n \in 0..k |->
                              IF n = 0 THEN Ran(TRUE, EmptyGraph)
                              ELSE ApplyEvent(f[n-1], entries[n].event, n - 1)]
           S == {k \in Nat : \E f : Of(f, k)}
<1>1. 0 \in S
  <2> DEFINE f == [n \in 0..0 |-> Ran(TRUE, EmptyGraph)]
  <2>1. \A n \in 0..0 : n = 0
    OBVIOUS
  <2>2. Of(f, 0)
    BY <2>1
  <2> QED BY <2>2
<1>2. ASSUME NEW k \in S PROVE k + 1 \in S
  <2>1. k \in Nat /\ k + 1 \in Nat
    OBVIOUS
  <2>2. PICK f : Of(f, k)
    OBVIOUS
  <2> DEFINE h == [n \in 0..(k+1) |-> IF n <= k THEN f[n]
                                      ELSE ApplyEvent(f[k], entries[k+1].event, k)]
  <2>3. ASSUME NEW n \in 0..(k+1)
        PROVE  h[n] = IF n = 0 THEN Ran(TRUE, EmptyGraph)
                      ELSE ApplyEvent(h[n-1], entries[n].event, n - 1)
    <3>1. CASE n = 0
      BY <2>2, <3>1
    <3>2. CASE n # 0 /\ n <= k
      BY <2>2, <3>2
    <3>3. CASE n = k + 1
      <4>1. n # 0 /\ ~(n <= k) /\ n - 1 = k /\ k \in 0..(k+1) /\ k <= k
        BY <2>1, <3>3
      <4>2. h[n] = ApplyEvent(f[k], entries[n].event, n - 1) /\ h[n-1] = f[k]
        BY <3>3, <4>1
      <4> QED BY <4>1, <4>2
    <3>4. n = 0 \/ (n # 0 /\ n <= k) \/ n = k + 1
      BY <2>1
    <3> QED BY <3>1, <3>2, <3>3, <3>4
  <2>4. Of(h, k+1)
    BY <2>3
  <2> HIDE DEF h, Of
  <2>5. \E x : Of(x, k+1)
    BY <2>4
  <2> QED BY <2>1, <2>5
<1> HIDE DEF S
<1>3. Len(entries) \in S
  BY <1>1, <1>2, Induction DEF S
<1>4. \E f : Of(f, Len(entries))
  BY <1>3 DEF S
<1>5. Of(Replays(entries), Len(entries))
  BY <1>4 DEF Replays
<1> QED BY <1>5
================================================================================
