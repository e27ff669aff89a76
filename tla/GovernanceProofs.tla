---------------------------- MODULE GovernanceProofs ----------------------------
(***************************************************************************)
(* What the bridge submits to SDDK, for any intents, evaluations, ledgers, *)
(* events of other clients and restarts.                                   *)
(***************************************************************************)
EXTENDS Governance, SemanticGraphProofs, FiniteSetTheorems

\* PullUpEvaluation::classify and validate_for are written independently of
\* each other; on a proposal they agree.
LEMMA ProposalsValidate ==
  ASSUME NEW e \in Evaluation
  PROVE  Classify(e) = "sddk-proposal" <=> ValidateFor(e, "sddk-proposal") = "ok"
<1>1. e.evidence \in BOOLEAN /\ e.horizon \in Horizons
  BY DEF Evaluation
<1>2. Classify(e) = "sddk-proposal" <=> e.failed = {} /\ e.evidence /\ e.horizon = "given"
  BY <1>1 DEF Classify
<1>3. CASE ~e.evidence
  BY <1>2, <1>3 DEF ValidateFor
<1>4. CASE e.evidence /\ e.horizon # "given"
  BY <1>2, <1>4 DEF ValidateFor
<1>5. CASE e.evidence /\ e.horizon = "given"
  BY <1>2, <1>5 DEF ValidateFor
<1> QED BY <1>1, <1>3, <1>4, <1>5

-----------------------------------------------------------------------------
Receipts ==
  /\ receipts \in Seq(Receipt)
  /\ life \in Nat

PullUpInv == Receipts /\ PullUpsEarned

\* What submit_evidence_proposal adds to SDDK's receipts: at most one.
LEMMA SubmitAddsOne ==
  ASSUME NEW st, NEW i, NEW t, NEW answer, NEW evaluation
  PROVE  \/ Submit(st, i, t, answer, evaluation).receipts = receipts
         \/ Submit(st, i, t, answer, evaluation).receipts =
              Append(receipts, [intent |-> i, known |-> Exists(st.graph, i),
                                life |-> life, for |-> evaluation])
BY DEF Submit, Submission

LEMMA ReceiptAdded ==
  ASSUME PullUpInv, NEW i \in Intents, NEW known \in BOOLEAN,
         NEW evaluation \in Evaluation \cup {None},
         evaluation # None => Classify(evaluation) = "sddk-proposal",
         receipts' = Append(receipts, [intent |-> i, known |-> known,
                                       life |-> life, for |-> evaluation]),
         life' = life
  PROVE  PullUpInv'
<1> DEFINE r == [intent |-> i, known |-> known, life |-> life, for |-> evaluation]
<1>1. r \in Receipt
  BY NamespacesAssumption DEF Receipt, PullUpInv, Receipts
<1>2. r.for # None => ValidateFor(r.for, "sddk-proposal") = "ok"
  BY ProposalsValidate
<1> HIDE DEF r
<1>3. receipts' \in Seq(Receipt) /\ Len(receipts') = Len(receipts) + 1
      /\ \A n \in DOMAIN receipts' :
           IF n = Len(receipts) + 1 THEN receipts'[n] = r
           ELSE n \in DOMAIN receipts /\ receipts'[n] = receipts[n]
  BY <1>1 DEF PullUpInv, Receipts, r
<1> QED BY <1>2, <1>3 DEF PullUpInv, Receipts, PullUpsEarned

\* evaluate_pull_up asks SDDK about a proposal only.
LEMMA EvaluatedKeeps ==
  ASSUME PullUpInv, NEW st, NEW i \in Intents, NEW t, NEW answer, NEW e \in Evaluations,
         receipts' = Evaluated(st, i, t, e, answer).receipts, life' = life
  PROVE  PullUpInv'
<1>1. CASE receipts' = receipts
  BY <1>1 DEF PullUpInv, Receipts, PullUpsEarned
<1>2. CASE receipts' # receipts
  <2>1. Classify(e) = "sddk-proposal" /\ receipts' = Submit(st, i, t, answer, e).receipts
    BY <1>2 DEF Evaluated, NotProposed, Submission
  <2>2. receipts' = Append(receipts, [intent |-> i, known |-> Exists(st.graph, i),
                                      life |-> life, for |-> e])
    BY <1>2, <2>1, SubmitAddsOne
  <2>3. e \in Evaluation \cup {None} /\ Exists(st.graph, i) \in BOOLEAN
    BY GovernanceAssumption DEF Exists
  <2> QED BY <2>1, <2>2, <2>3, ReceiptAdded
<1> QED BY <1>1, <1>2

LEMMA PullUpInvNext ==
  ASSUME PullUpInv, [GovNext]_govVars
  PROVE  PullUpInv'
<1>1. ASSUME UNCHANGED receipts, life' \in Nat
      PROVE  PullUpInv'
  BY <1>1 DEF PullUpInv, Receipts, PullUpsEarned
<1>2. life \in Nat
  BY DEF PullUpInv, Receipts
<1>3. ASSUME NEW gesture \in Gestures, DraftIntent(gesture[1], gesture[2])
      PROVE  PullUpInv'
  BY <1>1, <1>2, <1>3 DEF DraftIntent
<1>4. ASSUME NEW i \in Intents,
             PromoteStale(i) \/ PromoteApply(i) \/ PromoteRefused(i) \/ Discard(i)
      PROVE  PullUpInv'
  BY <1>1, <1>2, <1>4 DEF PromoteStale, PromoteApply, PromoteRefused, Discard
<1>5. ASSUME NEW i \in Intents, NEW answer, PromoteSubmit(i, answer)
      PROVE  PullUpInv'
  <2> DEFINE st == Refused(i)
  <2>1. life' = life /\ (\/ receipts' = receipts
                         \/ receipts' = Submit(st, i, drafts[i].target, answer, None).receipts)
    BY <1>5 DEF PromoteSubmit, PromoteSubmitted, Submitted, Submission
  <2> HIDE DEF st
  <2>2. \/ receipts' = receipts
        \/ receipts' = Append(receipts, [intent |-> i, known |-> Exists(st.graph, i),
                                         life |-> life, for |-> None])
    BY <2>1, SubmitAddsOne
  <2>3. None \in Evaluation \cup {None} /\ Exists(st.graph, i) \in BOOLEAN
    BY DEF Exists
  <2> QED BY <1>1, <1>2, <2>1, <2>2, <2>3, ReceiptAdded
<1>6. ASSUME NEW i \in Intents, NEW e \in Evaluations, NEW answer,
             PullUpFor(i, Project, e, answer)
      PROVE  PullUpInv'
  <2> DEFINE st == Materialised(Here, Project)
  <2>1. life' = life /\ (\/ receipts' = receipts
                         \/ receipts' = Evaluated(st, i, Project, e, answer).receipts)
    BY <1>6 DEF PullUpFor, PulledUp, Submitted
  <2> HIDE DEF st
  <2> QED BY <1>1, <1>2, <2>1, EvaluatedKeeps
<1>7. ASSUME NEW e \in Evaluations, NEW answer, PullUpDrafting(Project, e, answer)
      PROVE  PullUpInv'
  <2> DEFINE i == CHOOSE s \in Fresh(Intents, graph) : TRUE
             st == Drafted(Materialised(Here, Project), i, Project)
  <2>1. i \in Intents
    BY <1>7 DEF PullUpDrafting, Fresh
  <2>2. life' = life /\ (\/ receipts' = receipts
                         \/ receipts' = Evaluated(st, i, Project, e, answer).receipts)
    BY <1>7 DEF PullUpDrafting, PulledUp, Submitted
  <2> HIDE DEF i, st
  <2> QED BY <1>1, <1>2, <2>1, <2>2, EvaluatedKeeps
<1>8. ASSUME NEW c \in Cycles, SddkCommits(c)
      PROVE  PullUpInv'
  BY <1>1, <1>2, <1>8 DEF SddkCommits
<1>9. ASSUME NEW e \in Events, PostEvent(e)
      PROVE  PullUpInv'
  BY <1>1, <1>2, <1>9 DEF PostEvent
<1>10. CASE SyncWorkflow \/ UNCHANGED govVars
  BY <1>1, <1>2, <1>10 DEF SyncWorkflow, govVars
<1>11. CASE Restart
  BY <1>1, <1>2, <1>11 DEF Restart
<1> QED BY <1>3, <1>4, <1>5, <1>6, <1>7, <1>8, <1>9, <1>10, <1>11 DEF GovNext

\* A pull-up reaches SDDK only with an evaluation that also passes the check a
\* caller makes who asks for a proposal, in whatever life of the server, for
\* whatever intents, gateways and other clients.
THEOREM PullUpsAlwaysEarned == GovSpec => []PullUpsEarned
<1>1. GovInit => PullUpInv
  BY DEF GovInit, PullUpInv, Receipts, PullUpsEarned
<1>2. PullUpInv => PullUpsEarned
  BY DEF PullUpInv
<1> QED BY <1>1, <1>2, PullUpInvNext, PTL DEF GovSpec

-----------------------------------------------------------------------------
(* The store as a handler threads it through.                               *)

\* Each entry is at the revision its event made of the one before, the last
\* one at the graph's.
Counted(l, revision) ==
  /\ \A n \in DOMAIN l :
       l[n].revision = (IF n = 1 THEN 0 ELSE l[n-1].revision) + Bump(l[n].event)
  /\ revision = IF l = << >> THEN 0 ELSE l[Len(l)].revision

\* The id that sync gives to an event for c is that of no other event, and
\* sync's events write the cursor and leave their cycle in the graph.
About(e, c) == \E k \in 1..MaxLedger : e.id = SyncId(c, k)
Owned(e) ==
  \A c \in Cycles : \A k \in 1..MaxLedger : e.id = SyncId(c, k) =>
    /\ e.subject = c /\ e.kind \in {"subject-defined", "subject-updated"}
    /\ e.props = Prop(Cursor, Sequence(k))
Formed(l) == \A n \in DOMAIN l : WellFormed(l[n].event) /\ Owned(l[n].event)
CyclesThere(l, g) ==
  \A c \in Cycles : \A n \in DOMAIN l : About(l[n].event, c) => Exists(g, c)

Sound(st) ==
  /\ st \in [log : Seq(Entry), graph : Graph, ok : BOOLEAN]
  /\ EndsIn(st.graph)
  /\ Counted(st.log, st.graph.revision)
  /\ Formed(st.log) /\ CyclesThere(st.log, st.graph)

\* The log may have grown, the graph has lost nothing.
Extends(k, l) == Len(k) <= Len(l) /\ \A n \in DOMAIN k : n \in DOMAIN l /\ l[n] = k[n]
Grows(st, a) == Sound(a) /\ Keeps(st.graph, a.graph) /\ Extends(st.log, a.log)

\* An event by which the server changes the graph for an intent, or says so.
Applying(e) ==
  /\ e.id = FreshId
  /\ \/ e.kind = "patch-applied"
     \/ e.kind = "intent-promoted" /\ e.props[Status] = "applied"
Harmless(k, l) == \A n \in DOMAIN l : Applying(l[n].event) => n \in DOMAIN k
Leads(st, a) == Grows(st, a) /\ Harmless(st.log, a.log)

LEMMA GrowsThrough ==
  ASSUME NEW q, NEW r, NEW st, Sound(q), Grows(q, r), Grows(r, st)
  PROVE  Grows(q, st)
<1>1. Len(q.log) \in Nat /\ Len(r.log) \in Nat /\ Len(st.log) \in Nat
  BY DEF Grows, Sound
<1> QED BY <1>1 DEF Grows, Keeps, Extends

LEMMA LeadsThrough ==
  ASSUME NEW q, NEW r, NEW st, Sound(q), Leads(q, r), Leads(r, st)
  PROVE  Leads(q, st)
<1>1. Grows(q, st)
  BY GrowsThrough DEF Leads
<1>2. Harmless(q.log, st.log)
  BY DEF Leads, Grows, Extends, Harmless
<1> QED BY <1>1, <1>2 DEF Leads

LEMMA LeadsItself ==
  ASSUME NEW st, Sound(st)
  PROVE  Leads(st, st)
<1>1. Len(st.log) \in Nat
  BY DEF Sound
<1> QED BY <1>1 DEF Leads, Grows, Keeps, Extends, Harmless

LEMMA OwnEvents ==
  ASSUME NEW e, e.id = FreshId \/ e \in Events
  PROVE  Owned(e)
<1>1. \A c \in Cycles : \A k \in 1..MaxLedger : SyncId(c, k) \in SyncIds
  BY DEF SyncId, SyncIds
<1> QED BY <1>1, SyncAssumption, ConstantsAssumption DEF Owned

LEMMA CountedGrows ==
  ASSUME NEW l \in Seq(Entry), NEW revision \in Nat, Counted(l, revision),
         NEW e \in Event, NEW next, next = revision + Bump(e),
         NEW k, k = Append(l, [event |-> e, revision |-> next])
  PROVE  Counted(k, next)
<1> PICK entry, n : entry = [event |-> e, revision |-> next] /\ n = Len(l) + 1
  OBVIOUS
<1>1. Len(l) \in Nat /\ DOMAIN l = 1..Len(l) /\ next \in Nat /\ entry \in Entry
  BY DEF Bump, Entry
<1>2. /\ DOMAIN k = 1..n /\ Len(k) = n /\ k # << >>
      /\ k[n] = entry /\ \A j \in DOMAIN l : k[j] = l[j]
  BY <1>1
<1>3. revision = IF n = 1 THEN 0 ELSE k[n-1].revision
  <2>1. CASE l = << >>
    BY <1>1, <2>1 DEF Counted
  <2>2. CASE l # << >>
    <3>1. Len(l) \in DOMAIN l /\ n # 1 /\ n - 1 = Len(l)
      BY <1>1, <2>2
    <3> QED BY <1>2, <2>2, <3>1 DEF Counted
  <2> QED BY <2>1, <2>2
<1>4. ASSUME NEW j \in DOMAIN k
      PROVE  k[j].revision = (IF j = 1 THEN 0 ELSE k[j-1].revision) + Bump(k[j].event)
  <2>1. CASE j = n
    BY <1>2, <1>3, <2>1
  <2>2. CASE j # n
    <3>1. j \in DOMAIN l /\ (j # 1 => j - 1 \in DOMAIN l)
      BY <1>1, <1>2, <2>2
    <3>2. l[j].revision = (IF j = 1 THEN 0 ELSE l[j-1].revision) + Bump(l[j].event)
      BY <3>1 DEF Counted
    <3> QED BY <1>2, <3>1, <3>2
  <2> QED BY <2>1, <2>2
<1> QED BY <1>2, <1>4 DEF Counted

\* An append that fails leaves the log, and the graph at its revision.
LEMMA Appended ==
  ASSUME NEW st, Sound(st), NEW e, WellFormed(e), Owned(e)
  PROVE  LET a == AppendTo(st, e) IN
         /\ Grows(st, a) /\ Adds(st.graph, a.graph, Makes(Steps(e)))
         /\ ~Applying(e) => Leads(st, a)
         /\ a.ok => /\ st.ok /\ ~Holds(st, e.id)
                    /\ a.log = Append(st.log, [event |-> e, revision |-> a.graph.revision])
                    /\ a.graph.revision = st.graph.revision + Bump(e)
                    /\ a.graph.relations = RunSteps(st.graph, Steps(e), Len(st.log)).graph.relations
                    /\ \A j \in DOMAIN Steps(e) : \A s \in Establishes(Steps(e)[j]) :
                         Exists(a.graph, s)
         /\ ~a.ok => a.log = st.log /\ a.graph.revision = st.graph.revision
         /\ st.ok /\ ~Holds(st, e.id) =>
              (a.ok <=> RunSteps(st.graph, Steps(e), Len(st.log)).ok)
<1> DEFINE a == AppendTo(st, e)
           g == st.graph
           r == ApplyEvent(Ran(TRUE, g), e, Len(st.log))
<1>1. /\ st.log \in Seq(Entry) /\ g \in Graph /\ EndsIn(g) /\ st.ok \in BOOLEAN
      /\ Len(st.log) \in Nat /\ Counted(st.log, g.revision) /\ CyclesThere(st.log, g)
      /\ Formed(st.log)
      /\ st = [log |-> st.log, graph |-> g, ok |-> st.ok]
  BY DEF Sound
<1>2. /\ r \in Result /\ EndsIn(r.graph) /\ Keeps(g, r.graph)
      /\ Adds(g, r.graph, Makes(Steps(e)))
      /\ r.ok <=> RunSteps(g, Steps(e), Len(st.log)).ok
      /\ r.ok => \A j \in DOMAIN Steps(e) : \A s \in Establishes(Steps(e)[j]) :
                   Exists(r.graph, s)
      /\ r.graph.relations = RunSteps(g, Steps(e), Len(st.log)).graph.relations
  BY <1>1, EventKeeps
<1>3. r.ok => r.graph.revision = g.revision + Bump(e)
  <2> PICK q, n : q = Ran(TRUE, g) /\ n = Len(st.log)
    OBVIOUS
  <2>1. q \in Result /\ q.graph = g /\ n \in Nat
    BY <1>1 DEF Ran, Result
  <2> PICK x : x = ApplyEvent(q, e, n)
    OBVIOUS
  <2>2. x.ok => x.graph.revision = q.graph.revision + Bump(e)
    BY <2>1, EventApplied
  <2> QED BY <2>1, <2>2
<1>4. ~r.ok => r.graph.revision = g.revision
  <2> DEFINE run == RunSteps(g, Steps(e), Len(st.log))
  <2>1. Steps(e) \in Seq(Step) /\ Len(Steps(e)) \in 0..Len(Steps(e))
    BY StepsGrounded DEF GroundedSteps
  <2>2. run.graph.revision = g.revision
    BY <1>1, <2>1, StepRunsTyped DEF RunSteps
  <2>3. ~r.ok => r = Ran(FALSE, run.graph)
    BY DEF ApplyEvent, Ran
  <2> HIDE DEF run, r
  <2> QED BY <2>2, <2>3 DEF Ran
<1> HIDE DEF r
<1>5. CASE ~st.ok \/ Holds(st, e.id)
  <2>1. a = [log |-> st.log, graph |-> g, ok |-> FALSE]
    BY <1>1, <1>5 DEF AppendTo
  <2>2. Sound(a) /\ ~a.ok /\ a.log = st.log /\ a.graph = g
    BY <1>1, <2>1 DEF Sound
  <2> HIDE DEF a
  <2>3. Leads(st, a)
    BY <2>2, LeadsItself DEF Leads, Grows
  <2> QED BY <1>5, <2>2, <2>3 DEF a, Adds, Leads
<1>6. CASE st.ok /\ ~Holds(st, e.id)
  <2> DEFINE entry == [event |-> e, revision |-> r.graph.revision]
             l == IF r.ok THEN Append(st.log, entry) ELSE st.log
  <2>1. a = [log |-> l, graph |-> r.graph, ok |-> r.ok]
    BY <1>1, <1>6 DEF AppendTo, r
  <2>2. entry \in Entry /\ r.graph \in Graph /\ r.ok \in BOOLEAN /\ entry.event = e
    BY <1>2 DEF Entry, WellFormed, Result, Graph
  <2>3. Counted(l, r.graph.revision)
    <3>1. CASE r.ok
      <4>1. e \in Event /\ g.revision \in Nat
        BY <1>1 DEF WellFormed, Graph
      <4> PICK next, k : next = r.graph.revision
                         /\ k = Append(st.log, [event |-> e, revision |-> next])
        OBVIOUS
      <4>2. Counted(k, next)
        BY <1>1, <1>3, <3>1, <4>1, CountedGrows
      <4> QED BY <3>1, <4>2
    <3>2. CASE ~r.ok
      BY <1>1, <1>4, <3>2
    <3> QED BY <3>1, <3>2
  <2> HIDE DEF entry
  <2>4. /\ l \in Seq(Entry) /\ Extends(st.log, l)
        /\ \A n \in DOMAIN l : n \in DOMAIN st.log \/ (r.ok /\ l[n] = entry)
    BY <1>1, <2>2 DEF Extends
  <2>5. /\ a \in [log : Seq(Entry), graph : Graph, ok : BOOLEAN]
        /\ a.graph = r.graph /\ a.ok = r.ok /\ a.log = l
    BY <1>1, <2>1, <2>2, <2>4
  <2> HIDE DEF a, l
  <2>6. CyclesThere(l, r.graph)
    <3> SUFFICES ASSUME NEW c \in Cycles, NEW n \in DOMAIN l, About(l[n].event, c)
                 PROVE  Exists(r.graph, c)
      BY DEF CyclesThere
    <3>1. c \in Subjects
      BY NamespacesAssumption, ConstantsAssumption
    <3>2. CASE n \in DOMAIN st.log
      <4>1. l[n] = st.log[n]
        BY <2>4, <3>2 DEF Extends
      <4>2. Exists(g, c)
        BY <1>1, <3>2, <4>1 DEF CyclesThere
      <4> QED BY <1>2, <3>1, <4>2 DEF Keeps
    <3>3. CASE r.ok /\ l[n] = entry
      <4>1. e.subject = c /\ e.kind \in {"subject-defined", "subject-updated"}
        BY <2>2, <3>3 DEF Owned, About
      <4>2. 1 \in DOMAIN Steps(e) /\ c \in Establishes(Steps(e)[1])
        BY <4>1 DEF Steps, WorldSteps, Define, Update, OnSubject, Establishes, IsRelationStep
      <4> QED BY <1>2, <3>3, <4>2
    <3> QED BY <2>4, <3>2, <3>3
  <2>f. Formed(l)
    BY <1>1, <2>2, <2>4 DEF Formed, Extends
  <2>7. Grows(st, a)
    BY <1>2, <2>3, <2>4, <2>5, <2>6, <2>f DEF Grows, Sound
  <2>8. ~Applying(e) => Harmless(st.log, l)
    BY <2>2, <2>4 DEF Harmless
  <2>9. ~Applying(e) => Leads(st, a)
    BY <2>5, <2>7, <2>8 DEF Leads
  <2> QED BY <1>2, <1>3, <1>4, <1>6, <2>5, <2>7, <2>9 DEF a, l, entry
<1> QED BY <1>5, <1>6

LEMMA AppendedQuietly ==
  ASSUME NEW st, Sound(st), NEW e, WellFormed(e), Owned(e), ~Applying(e)
  PROVE  Leads(st, AppendTo(st, e))
BY Appended

\* The event of a handler is well formed.
LEMMA EventOfForm ==
  ASSUME NEW kind \in EventKind \ {"sddk-proposal-submitted", "agent-run-finished"},
         NEW s \in Subjects, NEW o \in Subjects \cup {NoSubject}, NEW p \in Properties,
         kind \in NeedsOther => o \in Subjects
  PROVE  /\ WellFormed(EventOf(kind, s, o, p))
         /\ EventOf(kind, s, o, p).id = FreshId
         /\ EventOf(kind, s, o, p).kind = kind /\ EventOf(kind, s, o, p).subject = s
         /\ EventOf(kind, s, o, p).other = o /\ EventOf(kind, s, o, p).props = p
         /\ EventOf(kind, s, o, p).authority = "derived"
<1>1. EventOf(kind, s, o, p) \in Event
  BY DEF EventOf, Event, RelationKind, AuthorityClass
<1> QED BY <1>1 DEF EventOf, WellFormed

LEMMA NeverHeld ==
  ASSUME NEW st, NEW e, e.id = FreshId
  PROVE  ~Holds(st, e.id)
  BY DEF Holds

\* A new subject with a relation of its own can always be defined if what it
\* needs is there: no relation can be there before it.
LEMMA NewSubject ==
  ASSUME NEW st, Sound(st), st.ok, NEW e, WellFormed(e), e.id = FreshId,
         NEW needs \in SUBSET Subjects, NEW s \in Subjects, ~Exists(st.graph, s),
         NEW a \in AuthorityClass, NEW p \in Properties, NEW kind \in RelationKind,
         NEW t \in Subjects, s # t,
         Steps(e) = << Define(needs, s, a, p), Relate({}, Fact(s, kind, t, a)) >>
  PROVE  AppendTo(st, e).ok <=> \A n \in needs : Exists(st.graph, n)
<1> DEFINE g == st.graph
           d == Define(needs, s, a, p)
           r == Relate({}, Fact(s, kind, t, a))
           seq == Len(st.log)
           first == RunStep(Ran(TRUE, g), d, seq)
           second == RunStep(first, r, seq)
<1>1. g \in Graph /\ seq \in Nat /\ EndsIn(g)
  BY DEF Sound
<1>2. AppendTo(st, e).ok <=> second.ok
  <2>1. RunSteps(g, << d, r >>, seq) = second
    BY ShortRuns
  <2> HIDE DEF second, first, d, r
  <2>2. Steps(e) = << d, r >>
    BY DEF d, r
  <2>3. AppendTo(st, e).ok <=> RunSteps(st.graph, Steps(e), Len(st.log)).ok
    BY Appended, NeverHeld, OwnEvents
  <2> QED BY <2>1, <2>2, <2>3
<1>3. d \in SubjectStep /\ d.op = "define" /\ d.needs = needs /\ d.subject = s
  BY DEF Define, OnSubject, SubjectStep
<1>4. /\ r.op = "relate" /\ r.needs = {} /\ r.fact.from = s /\ r.fact.to = t
  BY DEF Relate, Fact
<1> HIDE DEF d, r
<1>5. StepOk(g, d) <=> \A n \in needs : Exists(g, n)
  BY <1>3 DEF StepOk
<1>6. CASE ~StepOk(g, d)
  <2>1. first = Ran(FALSE, g)
    BY <1>6 DEF RunStep, Ran
  <2>2. ~second.ok
    BY <2>1 DEF RunStep, Ran
  <2> QED BY <1>2, <1>5, <1>6, <2>2
<1>7. CASE StepOk(g, d)
  <2> DEFINE h == StepEffect(g, d, seq)
  <2>1. first = Ran(TRUE, h)
    BY <1>7 DEF RunStep, Ran
  <2>2. h.relations = g.relations
    BY <1>1, <1>3 DEF StepEffect, Graph
  <2> HIDE DEF h
  <2>3. ~Related(h, r.fact)
    BY <1>1, <1>4, <2>2 DEF Related, EndsIn
  <2>4. StepOk(h, r)
    BY <1>4, <2>3 DEF StepOk
  <2>5. second.ok
    BY <2>1, <2>4 DEF RunStep, Ran
  <2> QED BY <1>2, <1>5, <1>7, <2>5
<1> QED BY <1>6, <1>7

SubmissionEvent(p, i, t) ==
  [EventOf("sddk-proposal-submitted", p, t, NoProps) EXCEPT !.also = <<i>>]

LEMMA SubmissionForm ==
  ASSUME NEW p \in Proposals, NEW i \in Intents, NEW t \in Subjects,
         NEW e, e = SubmissionEvent(p, i, t)
  PROVE  /\ e.id = FreshId /\ e.kind = "sddk-proposal-submitted" /\ e.subject = p
         /\ e.other = t /\ e.also = <<i>> /\ e.props = NoProps
         /\ WellFormed(e)
<1>1. p \in Subjects /\ i \in Subjects
  BY NamespacesAssumption
<1>2. <<i>> \in Seq(Subjects) /\ Len(<<i>>) = 1 /\ << >> \in Seq(Step)
  BY <1>1
<1>3. e = [id |-> FreshId, kind |-> "sddk-proposal-submitted", subject |-> p,
           other |-> t, also |-> <<i>>, relation |-> "mentions",
           authority |-> "derived", props |-> NoProps, ops |-> << >>]
  BY DEF EventOf, SubmissionEvent
<1>4. e \in Event
  BY <1>1, <1>2, <1>3, PropsType DEF Event, EventKind, RelationKind, AuthorityClass
<1> QED BY <1>2, <1>3, <1>4 DEF WellFormed

\* submit_evidence_proposal's event fails only for an intent that is not there.
LEMMA SubmitSucceeds ==
  ASSUME NEW st, Sound(st), st.ok, NEW p \in Proposals, ~Exists(st.graph, p),
         NEW i \in Intents, NEW t \in Subjects, Exists(st.graph, t)
  PROVE  LET a == SubmitEvent(st, p, i, t) IN
         /\ Leads(st, a)
         /\ a.ok <=> Exists(st.graph, i)
         /\ a.ok => Exists(a.graph, p)
<1> DEFINE e == SubmissionEvent(p, i, t)
           d == Define({t, i}, p, "derived", NoProps)
           r == Relate({}, Fact(p, "provides_evidence_for", t, "derived"))
<1>1. p \in Subjects /\ i \in Subjects /\ p # t
  BY NamespacesAssumption
<1>2. /\ e.id = FreshId /\ e.kind = "sddk-proposal-submitted" /\ e.subject = p
      /\ e.other = t /\ e.also = <<i>> /\ e.props = NoProps
      /\ WellFormed(e)
  BY SubmissionForm
<1>3. Steps(e) = << d, r >>
  BY <1>2 DEF Steps, IntentSteps
<1> HIDE DEF e
<1>4. AppendTo(st, e).ok <=> \A n \in {t, i} : Exists(st.graph, n)
  <2> PICK needs, a, q, kind : /\ needs = {t, i} /\ a = "derived" /\ q = NoProps
                               /\ kind = "provides_evidence_for"
    OBVIOUS
  <2>1. /\ needs \in SUBSET Subjects /\ a \in AuthorityClass /\ q \in Properties
        /\ kind \in RelationKind
    BY <1>1, PropsType DEF AuthorityClass, RelationKind
  <2>2. Steps(e) = << Define(needs, p, a, q), Relate({}, Fact(p, kind, t, a)) >>
    BY <1>3
  <2>3. AppendTo(st, e).ok <=> \A n \in needs : Exists(st.graph, n)
    BY <1>1, <1>2, <2>1, <2>2, NewSubject
  <2> QED BY <2>3
<1>5. 1 \in DOMAIN Steps(e) /\ p \in Establishes(Steps(e)[1])
  BY <1>3 DEF Define, OnSubject, Establishes, IsRelationStep
<1>6. Owned(e) /\ ~Applying(e)
  BY <1>2, OwnEvents DEF Applying
<1>7. Leads(st, AppendTo(st, e))
  BY <1>2, <1>6, AppendedQuietly
<1>8. AppendTo(st, e).ok => Exists(AppendTo(st, e).graph, p)
  BY <1>2, <1>5, <1>6, Appended
<1> QED BY <1>4, <1>7, <1>8 DEF SubmitEvent, SubmissionEvent, e

\* ensure_subject, on a store where nothing has failed yet.
LEMMA MaterialisedSucceeds ==
  ASSUME NEW st, Sound(st), st.ok, NEW t \in Subjects
  PROVE  LET m == Materialised(st, t) IN
         /\ Leads(st, m) /\ m.ok /\ Exists(m.graph, t) /\ Adds(st.graph, m.graph, {t})
<1>1. CASE Exists(st.graph, t)
  BY <1>1, LeadsItself DEF Materialised, Adds
<1>2. CASE ~Exists(st.graph, t)
  <2> PICK e, m : e = EventOf("subject-defined", t, NoSubject, NoProps) /\ m = AppendTo(st, e)
    OBVIOUS
  <2>1. /\ WellFormed(e) /\ e.id = FreshId /\ e.kind = "subject-defined" /\ e.subject = t
        /\ e.authority = "derived" /\ e.props = NoProps
    BY EventOfForm, PropsType DEF EventKind, NeedsOther
  <2> PICK d : d = Define({}, t, "derived", NoProps)
    OBVIOUS
  <2>2. Steps(e) = << d >>
    BY <2>1 DEF Steps, WorldSteps
  <2>3. /\ d.op = "define" /\ d.needs = {} /\ d.subject = t /\ ~IsRelationStep(d)
        /\ t \in Establishes(d)
    BY DEF Define, OnSubject, IsRelationStep, Establishes
  <2>4. RunSteps(st.graph, << d >>, Len(st.log)).ok
    <3>1. StepOk(st.graph, d)
      BY <1>2, <2>3 DEF StepOk
    <3>2. RunSteps(st.graph, << d >>, Len(st.log)) = RunStep(Ran(TRUE, st.graph), d, Len(st.log))
      BY ShortRuns
    <3>3. RunStep(Ran(TRUE, st.graph), d, Len(st.log)).ok
      BY <3>1 DEF RunStep, Ran
    <3> QED BY <3>2, <3>3
  <2>o. Owned(e) /\ ~Applying(e)
    BY <2>1, OwnEvents DEF Applying
  <2>5. m.ok
    <3>1. ~Holds(st, e.id) /\ RunSteps(st.graph, Steps(e), Len(st.log)).ok
      BY <2>1, <2>2, <2>4, NeverHeld
    <3>2. WellFormed(e)
      BY <2>1
    <3> QED BY ONLY <3>1, <3>2, <2>o, Appended, Sound(st), st.ok, m = AppendTo(st, e)
  <2>6. Makes(Steps(e)) = {t} /\ 1 \in DOMAIN Steps(e) /\ t \in Establishes(Steps(e)[1])
    BY <2>2, <2>3 DEF Makes
  <2>7. Leads(st, m) /\ Adds(st.graph, m.graph, {t}) /\ Exists(m.graph, t)
    <3>1. Leads(st, m) /\ Adds(st.graph, m.graph, Makes(Steps(e)))
      BY <2>1, <2>o, Appended
    <3>2. \A j \in DOMAIN Steps(e) : \A s \in Establishes(Steps(e)[j]) : Exists(m.graph, s)
      BY <2>1, <2>5, <2>o, Appended
    <3> QED BY <2>6, <3>1, <3>2
  <2>8. Materialised(st, t) = m
    BY <1>2 DEF Materialised
  <2> QED BY <2>5, <2>7, <2>8
<1> QED BY <1>1, <1>2

\* draft_intent on a subject that is there.
LEMMA DraftSucceeds ==
  ASSUME NEW st, Sound(st), st.ok, NEW i \in Intents, ~Exists(st.graph, i),
         NEW t \in Subjects, Exists(st.graph, t)
  PROVE  LET a == Drafted(st, i, t) IN
         /\ Leads(st, a) /\ a.ok /\ Exists(a.graph, i) /\ Adds(st.graph, a.graph, {i})
         /\ a.graph.revision = st.graph.revision + 1
         /\ a.log = Append(st.log, [event |-> EventOf("intent-drafted", i, t, Prop(Status, "draft")),
                                    revision |-> a.graph.revision])
<1> PICK p : p = Prop(Status, "draft")
  OBVIOUS
<1> PICK e, a : e = EventOf("intent-drafted", i, t, p) /\ a = AppendTo(st, e)
  OBVIOUS
<1>1. i \in Subjects /\ i # t /\ p \in Properties
  <2>1. "draft" \in PropValues
    BY GovernanceAssumption DEF Statuses
  <2> QED BY <2>1, NamespacesAssumption DEF Prop, Properties
<1>2. /\ WellFormed(e) /\ e.id = FreshId /\ e.kind = "intent-drafted" /\ e.subject = i
      /\ e.other = t /\ e.props = p
  BY <1>1, EventOfForm DEF EventKind, NeedsOther
<1> PICK needs, c, kind : needs = {t} /\ c = "advisory" /\ kind = "proposes_change_to"
  OBVIOUS
<1>3. needs \in SUBSET Subjects /\ c \in AuthorityClass /\ kind \in RelationKind
  BY DEF AuthorityClass, RelationKind
<1>4. Steps(e) = << Define(needs, i, c, p), Relate({}, Fact(i, kind, t, c)) >>
  BY <1>2 DEF Steps, IntentSteps
<1>5. a.ok
  <2>1. AppendTo(st, e).ok <=> \A n \in needs : Exists(st.graph, n)
    BY <1>1, <1>2, <1>3, <1>4, NewSubject
  <2> QED BY <2>1
<1>6. /\ Makes(Steps(e)) = {i} /\ 1 \in DOMAIN Steps(e) /\ i \in Establishes(Steps(e)[1])
  BY <1>4 DEF Makes, Define, Relate, OnSubject, IsRelationStep, Establishes
<1>7. /\ Leads(st, a) /\ Adds(st.graph, a.graph, {i}) /\ Exists(a.graph, i)
      /\ a.log = Append(st.log, [event |-> e, revision |-> a.graph.revision])
      /\ a.graph.revision = st.graph.revision + Bump(e)
  <2> PICK b : b = AppendTo(st, e) /\ b = a
    OBVIOUS
  <2>0. WellFormed(e) /\ b.ok /\ Owned(e) /\ ~Applying(e)
    BY <1>2, <1>5, OwnEvents DEF Applying
  <2>1. Leads(st, b) /\ Adds(st.graph, b.graph, Makes(Steps(e)))
    BY <2>0, Appended
  <2>2. \A j \in DOMAIN Steps(e) : \A s \in Establishes(Steps(e)[j]) : Exists(b.graph, s)
    BY ONLY <2>0, Appended, Sound(st), b = AppendTo(st, e)
  <2>3. b.log = Append(st.log, [event |-> e, revision |-> b.graph.revision])
    BY <2>0, Appended
  <2>4. b.graph.revision = st.graph.revision + Bump(e)
    BY ONLY <2>0, Appended, Sound(st), b = AppendTo(st, e)
  <2> QED BY <1>6, <2>1, <2>2, <2>3, <2>4
<1> QED BY <1>2, <1>5, <1>7 DEF Drafted, Bump

\* The outcome of an intent is appended: it fails if the intent is not there.
LEMMA RecordLeads ==
  ASSUME NEW st, Sound(st), NEW i \in Intents, NEW status \in Statuses
  PROVE  /\ Grows(st, Record(st, i, status))
         /\ status # "applied" => Leads(st, Record(st, i, status))
<1> PICK p, e : p = Prop(Status, status) /\ e = EventOf("intent-promoted", i, NoSubject, p)
  OBVIOUS
<1>1. i \in Subjects /\ p \in Properties /\ p[Status] = status
  BY NamespacesAssumption, GovernanceAssumption DEF Prop, Properties
<1>2. WellFormed(e) /\ e.id = FreshId /\ e.kind = "intent-promoted" /\ e.props = p
  BY <1>1, EventOfForm DEF EventKind, NeedsOther
<1>3. Owned(e) /\ (status # "applied" => ~Applying(e))
  BY <1>1, <1>2, OwnEvents DEF Applying
<1>4. Grows(st, AppendTo(st, e)) /\ (status # "applied" => Leads(st, AppendTo(st, e)))
  BY <1>2, <1>3, Appended
<1> QED BY <1>4 DEF Record

\* A patch that is refused is on record, and nothing else changes.
LEMMA RefusalSucceeds ==
  ASSUME NEW st, Sound(st), st.ok, NEW base, NEW ops, ~Valid(st.graph, base, ops)
  PROVE  LET a == Propose(st, base, ops) IN
         Leads(st, a) /\ a.ok /\ Adds(st.graph, a.graph, {})
<1> PICK e, none : none = << >> /\ e = PatchEvent("patch-rejected", none)
  OBVIOUS
<1>1. WellFormed(e) /\ e.id = FreshId /\ e.kind = "patch-rejected"
  <2>1. none \in Seq(Step) /\ \A i \in DOMAIN none : IsOperation(none[i])
    OBVIOUS
  <2> QED BY <2>1, PatchEvents DEF PatchEvent
<1>2. Steps(e) = << >>
  BY <1>1 DEF Steps, WorldSteps
<1>3. RunSteps(st.graph, << >>, Len(st.log)).ok
  <2>1. RunSteps(st.graph, << >>, Len(st.log)) = Ran(TRUE, st.graph)
    BY ShortRuns
  <2> QED BY <2>1 DEF Ran
<1>4. Makes(Steps(e)) = {}
  BY <1>2 DEF Makes
<1>5. AppendTo(st, e).ok /\ Leads(st, AppendTo(st, e)) /\ Adds(st.graph, AppendTo(st, e).graph, {})
  <2>1. Owned(e) /\ ~Applying(e)
    BY <1>1, OwnEvents DEF Applying
  <2> QED BY <1>1, <1>2, <1>3, <1>4, <2>1, Appended, NeverHeld
<1> QED BY <1>5 DEF Propose

\* A patch that is applied, or tears.
LEMMA ProposalGrows ==
  ASSUME NEW st, Sound(st), NEW base, NEW ops \in Patches \cup {<< >>}
  PROVE  Grows(st, Propose(st, base, ops))
<1>1. ops \in Seq(Step) /\ \A i \in DOMAIN ops : IsOperation(ops[i])
  <2>1. CASE ops \in Patches
    BY <2>1, ConstantsAssumption
  <2>2. CASE ops = << >>
    BY <2>2
  <2> QED BY <2>1, <2>2
<1>2. WellFormed(PatchEvent("patch-applied", ops))
  BY <1>1, PatchEvents
<1>3. WellFormed(PatchEvent("patch-rejected", << >>))
  <2> PICK none : none = << >>
    OBVIOUS
  <2>1. none \in Seq(Step) /\ \A i \in DOMAIN none : IsOperation(none[i])
    OBVIOUS
  <2> QED BY <2>1, PatchEvents
<1>4. Owned(PatchEvent("patch-applied", ops)) /\ Owned(PatchEvent("patch-rejected", << >>))
  BY OwnEvents DEF PatchEvent
<1> QED BY <1>2, <1>3, <1>4, Appended DEF Propose

-----------------------------------------------------------------------------
(* Receipts and proposals, as values.                                       *)

On(ps, n) == {p \in Proposals : ps[p] # None /\ ps[p].receipt = n}

\* That of receipts and proposals which makes them each other's record: a
\* receipt that is still to come is in no proposal.
Recording(rs, ps, l) ==
  /\ rs \in Seq(Receipt) /\ l \in Nat /\ ps \in [Proposals -> Proposal \cup {None}]
  /\ \A n \in DOMAIN rs : rs[n].life <= l
  /\ \A p \in Proposals : ps[p] # None => ps[p].receipt \in 0..Len(rs)
  /\ \A p \in Proposals : ps[p] # None => (ps[p].decision = "allowed" <=> ps[p].receipt # 0)
  /\ \A n \in DOMAIN rs : rs[n].life = l =>
       IF rs[n].known
       THEN \E p \in Proposals : On(ps, n) = {p} /\ ps[p].intent = rs[n].intent
       ELSE On(ps, n) = {}

LEMMA NothingMade ==
  \A x \in Proposal \cup Draft : x # None
<1>1. ASSUME NEW x \in Proposal \cup Draft PROVE x.made = TRUE
  BY DEF Proposal, Draft
<1>2. None.made = FALSE
  BY DEF None
<1> QED BY <1>1, <1>2

LEMMA RecordingShown ==
  ASSUME Recording(receipts, proposals, life)
  PROVE  ReceiptsRecorded
<1>1. ASSUME NEW n \in DOMAIN receipts, receipts[n].life = life, receipts[n].known
      PROVE  /\ Cardinality(On(proposals, n)) = 1
             /\ \A p \in On(proposals, n) : proposals[p].intent = receipts[n].intent
  <2>1. PICK p \in Proposals :
          On(proposals, n) = {p} /\ proposals[p].intent = receipts[n].intent
    BY <1>1 DEF Recording
  <2>2. Cardinality({p}) = 1
    BY FS_Singleton
  <2> QED BY <2>1, <2>2
<1>2. ASSUME NEW n \in DOMAIN receipts, receipts[n].life = life, ~receipts[n].known
      PROVE  On(proposals, n) = {}
  BY <1>2 DEF Recording
<1>3. \A p \in Proposals : proposals[p] # None =>
        (proposals[p].decision = "allowed" <=> proposals[p].receipt # 0)
  BY DEF Recording
<1> QED BY <1>1, <1>2, <1>3 DEF ReceiptsRecorded, On

\* A receipt more and the proposal that names it.
LEMMA RecordingGrows ==
  ASSUME NEW rs, NEW ps, NEW l, Recording(rs, ps, l),
         NEW p \in Proposals, ps[p] = None, NEW i \in Intents, NEW t \in Subjects,
         NEW r \in Receipt, r.life = l, r.intent = i,
         NEW ps2, ps2 = IF r.known
                        THEN [ps EXCEPT ![p] = ProposalOf(i, t, "allowed", Len(rs) + 1)]
                        ELSE ps,
         NEW rs2, rs2 = Append(rs, r)
  PROVE  Recording(rs2, ps2, l)
<1> PICK x, n : x = ProposalOf(i, t, "allowed", n) /\ n = Len(rs) + 1
  OBVIOUS
<1>1. rs \in Seq(Receipt) /\ l \in Nat /\ ps \in [Proposals -> Proposal \cup {None}]
  BY DEF Recording
<1>2. Len(rs) \in Nat /\ n \in Nat /\ n # 0 /\ DOMAIN rs = 1..Len(rs)
  BY <1>1
<1>3. /\ rs2 \in Seq(Receipt) /\ Len(rs2) = n /\ DOMAIN rs2 = 1..n
      /\ rs2[n] = r /\ \A k \in DOMAIN rs : rs2[k] = rs[k]
  BY <1>1
<1>4. x \in Proposal /\ x # None /\ x.receipt = n /\ x.decision = "allowed" /\ x.intent = i
  <2>1. x \in Proposal /\ x.receipt = n /\ x.decision = "allowed" /\ x.intent = i
    BY <1>2, NamespacesAssumption DEF ProposalOf, Proposal, Decisions
  <2> QED BY <2>1, NothingMade
<1>5. /\ ps2 \in [Proposals -> Proposal \cup {None}]
      /\ \A q \in Proposals : q # p => ps2[q] = ps[q]
      /\ ps2[p] = IF r.known THEN x ELSE None
  BY <1>1, <1>4
<1>6. \A q \in Proposals : ps[q] # None => ps[q].receipt \in 0..Len(rs)
  BY DEF Recording
<1>7. On(ps2, n) = IF r.known THEN {p} ELSE {}
  BY <1>2, <1>4, <1>5, <1>6 DEF On
<1>8. ASSUME NEW k \in DOMAIN rs PROVE On(ps2, k) = On(ps, k) /\ p \notin On(ps, k)
  BY <1>2, <1>4, <1>5, <1>8 DEF On
<1>9. \A k \in DOMAIN rs2 : rs2[k].life <= l
  BY <1>1, <1>2, <1>3 DEF Recording
<1>10. \A q \in Proposals : ps2[q] # None => ps2[q].receipt \in 0..Len(rs2)
  BY <1>2, <1>3, <1>4, <1>5, <1>6
<1>11. \A q \in Proposals : ps2[q] # None =>
         (ps2[q].decision = "allowed" <=> ps2[q].receipt # 0)
  BY <1>2, <1>4, <1>5 DEF Recording
<1>12. ASSUME NEW k \in DOMAIN rs2, rs2[k].life = l
       PROVE  IF rs2[k].known
              THEN \E q \in Proposals : On(ps2, k) = {q} /\ ps2[q].intent = rs2[k].intent
              ELSE On(ps2, k) = {}
  <2>1. CASE k = n
    BY <1>3, <1>4, <1>5, <1>7, <2>1
  <2>2. CASE k # n
    <3>1. k \in DOMAIN rs /\ rs2[k] = rs[k]
      BY <1>2, <1>3, <2>2
    <3>2. IF rs[k].known
          THEN \E q \in Proposals : On(ps, k) = {q} /\ ps[q].intent = rs[k].intent
          ELSE On(ps, k) = {}
      BY <1>12, <3>1 DEF Recording
    <3> QED BY <1>5, <1>8, <3>1, <3>2
  <2> QED BY <2>1, <2>2
<1> QED BY <1>1, <1>3, <1>5, <1>9, <1>10, <1>11, <1>12 DEF Recording

\* A proposal that names no receipt.
LEMMA RecordingKept ==
  ASSUME NEW rs, NEW ps, NEW l, Recording(rs, ps, l),
         NEW p \in Proposals, ps[p] = None, NEW i \in Intents, NEW t \in Subjects,
         NEW d \in Decisions, d # "allowed",
         NEW ps2, ps2 = [ps EXCEPT ![p] = ProposalOf(i, t, d, 0)]
  PROVE  Recording(rs, ps2, l)
<1> PICK x : x = ProposalOf(i, t, d, 0)
  OBVIOUS
<1>1. rs \in Seq(Receipt) /\ l \in Nat /\ ps \in [Proposals -> Proposal \cup {None}]
  BY DEF Recording
<1>2. Len(rs) \in Nat /\ DOMAIN rs = 1..Len(rs)
  BY <1>1
<1>3. x \in Proposal /\ x # None /\ x.receipt = 0 /\ x.decision = d
  <2>1. x \in Proposal /\ x.receipt = 0 /\ x.decision = d
    BY NamespacesAssumption DEF ProposalOf, Proposal
  <2> QED BY <2>1, NothingMade
<1>4. /\ ps2 \in [Proposals -> Proposal \cup {None}]
      /\ \A q \in Proposals : q # p => ps2[q] = ps[q]
      /\ ps2[p] = x
  BY <1>1, <1>3
<1>5. ASSUME NEW k \in DOMAIN rs PROVE On(ps2, k) = On(ps, k) /\ p \notin On(ps, k)
  BY <1>2, <1>3, <1>4, <1>5 DEF On
<1>6. \A q \in Proposals : ps2[q] # None =>
        ps2[q].receipt \in 0..Len(rs) /\ (ps2[q].decision = "allowed" <=> ps2[q].receipt # 0)
  BY <1>2, <1>3, <1>4 DEF Recording
<1>7. ASSUME NEW k \in DOMAIN rs, rs[k].life = l
      PROVE  IF rs[k].known
             THEN \E q \in Proposals : On(ps2, k) = {q} /\ ps2[q].intent = rs[k].intent
             ELSE On(ps2, k) = {}
  <2>1. IF rs[k].known
        THEN \E q \in Proposals : On(ps, k) = {q} /\ ps[q].intent = rs[k].intent
        ELSE On(ps, k) = {}
    BY <1>7 DEF Recording
  <2> QED BY <1>4, <1>5, <2>1
<1>8. \A n \in DOMAIN rs : rs[n].life <= l
  BY DEF Recording
<1> QED BY <1>1, <1>4, <1>6, <1>7, <1>8 DEF Recording

-----------------------------------------------------------------------------
(* A submission, on the store a handler has made.                           *)

AllThere(ps, g) == \A p \in Proposals : ps[p] # None => Exists(g, p)

\* That a submission leaves the store sound and both records each other's.
Recorded(st, sub) ==
  /\ Leads(st, sub.store)
  /\ Recording(sub.receipts, sub.proposals, life)
  /\ AllThere(sub.proposals, sub.store.graph)

LEMMA NewProposal ==
  ASSUME NEW st, Fresh(Proposals, st.graph) # {},
         NEW p, p = CHOOSE s \in Fresh(Proposals, st.graph) : TRUE,
         Recording(receipts, proposals, life), AllThere(proposals, st.graph)
  PROVE  p \in Proposals /\ ~Exists(st.graph, p) /\ proposals[p] = None
<1>1. p \in Fresh(Proposals, st.graph)
  OBVIOUS
<1> QED BY <1>1 DEF Fresh, AllThere

LEMMA SubmitRecorded ==
  ASSUME Recording(receipts, proposals, life),
         NEW st, Sound(st), st.ok, Fresh(Proposals, st.graph) # {},
         AllThere(proposals, st.graph),
         NEW i \in Intents, NEW t \in Subjects, Exists(st.graph, t),
         NEW answer \in {"allowed", "refused"}, NEW evaluation \in Evaluation \cup {None}
  PROVE  Recorded(st, Submit(st, i, t, answer, evaluation))
<1> PICK p : p = CHOOSE s \in Fresh(Proposals, st.graph) : TRUE
  OBVIOUS
<1>1. p \in Proposals /\ ~Exists(st.graph, p) /\ proposals[p] = None
  BY NewProposal
<1> PICK st2, r, sub : /\ st2 = SubmitEvent(st, p, i, t)
                       /\ r = [intent |-> i, known |-> Exists(st.graph, i),
                               life |-> life, for |-> evaluation]
                       /\ sub = Submit(st, i, t, answer, evaluation)
  OBVIOUS
<1>2. Leads(st, st2) /\ (st2.ok <=> Exists(st.graph, i)) /\ (st2.ok => Exists(st2.graph, p))
  BY <1>1, SubmitSucceeds
<1>3. /\ r \in Receipt /\ r.life = life /\ r.intent = i
      /\ r.known = Exists(st.graph, i) /\ (r.known <=> st2.ok)
  <2>1. life \in Nat /\ i \in Subjects /\ Exists(st.graph, i) \in BOOLEAN
    BY NamespacesAssumption DEF Recording, Exists
  <2> QED BY <1>2, <2>1 DEF Receipt
<1>4. \A q \in Proposals : proposals[q] # None => Exists(st2.graph, q)
  BY <1>2, NamespacesAssumption DEF AllThere, Leads, Grows, Keeps
<1>5. CASE answer = "allowed"
  <2>1. Len(Append(receipts, r)) = Len(receipts) + 1
    BY <1>3 DEF Recording
  <2> PICK ps2 : ps2 = IF r.known
                       THEN [proposals EXCEPT ![p] = ProposalOf(i, t, "allowed", Len(receipts) + 1)]
                       ELSE proposals
    OBVIOUS
  <2>2. sub.store = st2 /\ sub.receipts = Append(receipts, r) /\ sub.proposals = ps2
    BY <1>3, <1>5, <2>1 DEF Submit, Submission
  <2>3. Recording(Append(receipts, r), ps2, life)
    <3> PICK rs2 : rs2 = Append(receipts, r)
      OBVIOUS
    <3>1. r \in Receipt /\ r.life = life /\ r.intent = i
      BY <1>3
    <3>2. p \in Proposals /\ proposals[p] = None
      BY <1>1
    <3>3. Recording(rs2, ps2, life)
      BY ONLY <3>1, <3>2, RecordingGrows, Recording(receipts, proposals, life),
              i \in Intents, t \in Subjects, rs2 = Append(receipts, r),
              ps2 = IF r.known
                    THEN [proposals EXCEPT ![p] = ProposalOf(i, t, "allowed", Len(receipts) + 1)]
                    ELSE proposals
    <3> QED BY <3>3
  <2>4. AllThere(ps2, st2.graph)
    BY <1>1, <1>2, <1>3, <1>4 DEF AllThere, Recording
  <2> QED BY <1>2, <2>2, <2>3, <2>4 DEF Recorded
<1>6. CASE answer = "refused"
  <2> PICK ps2 : ps2 = IF st2.ok
                       THEN [proposals EXCEPT ![p] = ProposalOf(i, t, "refused", 0)]
                       ELSE proposals
    OBVIOUS
  <2>1. sub.store = st2 /\ sub.receipts = receipts /\ sub.proposals = ps2
    BY <1>6 DEF Submit, Submission
  <2>2. Recording(receipts, ps2, life)
    <3>1. "refused" \in Decisions /\ "refused" # "allowed"
      BY DEF Decisions
    <3> QED BY <1>1, <3>1, RecordingKept
  <2>3. AllThere(ps2, st2.graph)
    BY <1>1, <1>2, <1>4 DEF AllThere, Recording
  <2> QED BY <1>2, <2>1, <2>2, <2>3 DEF Recorded
<1> QED BY <1>5, <1>6

LEMMA NotProposedRecorded ==
  ASSUME Recording(receipts, proposals, life),
         NEW st, Sound(st), st.ok, Fresh(Proposals, st.graph) # {},
         AllThere(proposals, st.graph),
         NEW i \in Intents, NEW t \in Subjects, Exists(st.graph, t)
  PROVE  Recorded(st, NotProposed(st, i, t))
<1> PICK p : p = CHOOSE s \in Fresh(Proposals, st.graph) : TRUE
  OBVIOUS
<1>1. p \in Proposals /\ ~Exists(st.graph, p) /\ proposals[p] = None
  BY NewProposal
<1> PICK st2, ps2 : /\ st2 = SubmitEvent(st, p, i, t)
                    /\ ps2 = IF st2.ok
                             THEN [proposals EXCEPT ![p] = ProposalOf(i, t, "not-proposed", 0)]
                             ELSE proposals
  OBVIOUS
<1>2. Leads(st, st2) /\ (st2.ok => Exists(st2.graph, p))
  BY <1>1, SubmitSucceeds
<1>3. Recording(receipts, ps2, life)
  <2>1. "not-proposed" \in Decisions /\ "not-proposed" # "allowed"
    BY DEF Decisions
  <2> QED BY <1>1, <2>1, RecordingKept
<1>4. \A q \in Proposals : proposals[q] # None => Exists(st2.graph, q)
  BY <1>2, NamespacesAssumption DEF AllThere, Leads, Grows, Keeps
<1>5. AllThere(ps2, st2.graph)
  BY <1>1, <1>2, <1>4 DEF AllThere, Recording
<1>6. NotProposed(st, i, t) = Submission(st2, receipts, ps2)
  BY DEF NotProposed
<1> QED BY <1>2, <1>3, <1>5, <1>6 DEF Recorded, Submission

-----------------------------------------------------------------------------
(* The records through every step.                                          *)

Drafts == Draft \cup {None}

DraftedAt(l, i, base) ==
  \E d \in DOMAIN l : /\ l[d].event.kind = "intent-drafted" /\ l[d].event.subject = i
                      /\ l[d].revision = base
DraftsThere(ds, st) ==
  \A i \in Intents : ds[i] # None =>
    /\ Exists(st.graph, i) /\ Exists(st.graph, ds[i].target)
    /\ DraftedAt(st.log, i, ds[i].base)

\* AppliedAsPreviewed of a log, and its intents are drafted ones.
Outcome(l, n) ==
  l[n].event.kind = "intent-promoted" /\ l[n].event.props[Status] = "applied"
Foreseen(l, n, i, change) ==
  /\ n > 1 /\ l[n-1].event.kind = "patch-applied" /\ l[n-1].event.ops = change
  /\ \E d \in 1..(n-2) :
       /\ l[d].event.kind = "intent-drafted" /\ l[d].event.subject = i
       /\ \A k \in (d+1)..(n-2) : l[k].event.kind = "patch-rejected"
Previewed(l, ds) ==
  \A n \in DOMAIN l : l[n].event.id = FreshId =>
    /\ l[n].event.kind = "patch-applied" => n < Len(l) /\ Outcome(l, n+1)
    /\ Outcome(l, n) => LET i == l[n].event.subject IN
         i \in Intents /\ ds[i] # None /\ Foreseen(l, n, i, ds[i].change)

\* What the sync of a ledger of length k leaves of it.
Tied(st, c, k) ==
  Holds(st, SyncId(c, Newest(Of(c, k)))) /\ Related(st.graph, FromProject(c))
SyncedThere(st, k) ==
  k > 0 => /\ Exists(st.graph, Project)
           /\ \A c \in Cycles : Of(c, k) # {} => Tied(st, c, k)

\* What a proposal or a draft is about stays in the graph, so a step that finds
\* an intent drafted finds its target, and an event about both cannot fail
\* behind SDDK's back; the entry of a draft is at the draft's base, so at a base
\* that still is the graph's revision only refusals follow it.
RecordInv ==
  /\ Sound(Here)
  /\ Recording(receipts, proposals, life) /\ AllThere(proposals, graph)
  /\ drafts \in [Intents -> Drafts] /\ DraftsThere(drafts, Here)
  /\ Previewed(log, drafts)
  /\ ledger \in Seq(Cycles) /\ Len(ledger) <= MaxLedger
  /\ synced \in 0..Len(ledger) /\ SyncedThere(Here, synced)

LEMMA HereIs ==
  ASSUME RecordInv
  PROVE  /\ Sound(Here) /\ Here.ok /\ Here.graph = graph /\ Here.log = log
         /\ Leads(Here, Here) /\ Grows(Here, Here) /\ graph \in Graph /\ log \in Seq(Entry)
<1>1. Sound(Here)
  BY DEF RecordInv
<1>2. Leads(Here, Here)
  BY <1>1, LeadsItself
<1> QED BY <1>1, <1>2 DEF Here, Store, Sound, Leads

\* A handler that leaves behind a sound store.
LEMMA LandsAt ==
  ASSUME RecordInv, NEW st, Grows(Here, st), Leaves(st),
         Recording(receipts', proposals', life'), AllThere(proposals', st.graph),
         drafts' \in [Intents -> Drafts], DraftsThere(drafts', st),
         Previewed(st.log, drafts'), ledger' = ledger,
         synced' \in 0..Len(ledger), SyncedThere(st, synced')
  PROVE  RecordInv'
<1>1. /\ st.log \in Seq(Entry) /\ st.graph \in Graph /\ EndsIn(st.graph)
      /\ Counted(st.log, st.graph.revision) /\ CyclesThere(st.log, st.graph)
      /\ Formed(st.log) /\ log' = st.log /\ graph' = st.graph
  BY DEF Grows, Sound, Leaves
<1> PICK h : h = [log |-> st.log, graph |-> st.graph, ok |-> TRUE]
  OBVIOUS
<1>2. Here' = h /\ h.log = st.log /\ h.graph = st.graph
  BY <1>1 DEF Here, Store
<1>3. Sound(h)
  BY <1>1 DEF Sound
<1>4. DraftsThere(drafts', h)
  BY <1>2 DEF DraftsThere
<1>5. SyncedThere(h, synced')
  BY <1>2 DEF SyncedThere, Tied, Holds
<1>6. SyncedThere(Here, synced)'
  <2> PICK k : k = synced'
    OBVIOUS
  <2>1. \A c : Of(c, k)' = Of(c, k)
    BY DEF Of
  <2>2. SyncedThere(h, k)
    BY <1>5
  <2> QED BY <1>2, <2>1, <2>2 DEF SyncedThere, Tied
<1>7. Sound(Here)' /\ DraftsThere(drafts, Here)'
  BY <1>2, <1>3, <1>4
<1> QED BY <1>1, <1>6, <1>7 DEF RecordInv

LEMMA StillThere ==
  ASSUME RecordInv, NEW st, Grows(Here, st)
  PROVE  /\ AllThere(proposals, st.graph) /\ DraftsThere(drafts, st)
         /\ SyncedThere(st, synced)
<1>1. /\ \A s \in Subjects : Exists(graph, s) => Exists(st.graph, s)
      /\ graph.relations \subseteq st.graph.relations /\ Extends(log, st.log)
  BY HereIs DEF Grows, Keeps
<1>2. \A i \in Intents : drafts[i] # None => drafts[i].target \in Subjects
  BY DEF RecordInv, Drafts, Draft
<1>3. AllThere(proposals, st.graph)
  BY <1>1, NamespacesAssumption DEF RecordInv, AllThere
<1>4. \A i : \A base : DraftedAt(log, i, base) => DraftedAt(st.log, i, base)
  BY <1>1 DEF DraftedAt, Extends
<1>5. DraftsThere(drafts, st)
  BY <1>1, <1>2, <1>4, HereIs, NamespacesAssumption DEF RecordInv, DraftsThere
<1>6. \A c : \A k : Tied(Here, c, k) => Tied(st, c, k)
  BY <1>1, HereIs DEF Tied, Holds, Related, Extends
<1>7. SyncedThere(st, synced)
  BY <1>1, <1>6, HereIs, NamespacesAssumption, ConstantsAssumption DEF RecordInv, SyncedThere
<1> QED BY <1>3, <1>5, <1>7

LEMMA ForeseenKept ==
  ASSUME NEW k, NEW l, NEW n \in Nat, NEW i, NEW change, Foreseen(k, n, i, change),
         \A j \in 1..n : l[j] = k[j]
  PROVE  Foreseen(l, n, i, change)
<1>1. n > 1 /\ n - 1 \in 1..n /\ k[n-1].event.kind = "patch-applied"
      /\ k[n-1].event.ops = change
  BY DEF Foreseen
<1>2. PICK d \in 1..(n-2) :
        /\ k[d].event.kind = "intent-drafted" /\ k[d].event.subject = i
        /\ \A x \in (d+1)..(n-2) : k[x].event.kind = "patch-rejected"
  BY DEF Foreseen
<1>3. d \in 1..n /\ \A x \in (d+1)..(n-2) : x \in 1..n
  BY <1>1, <1>2
<1>4. /\ l[d].event.kind = "intent-drafted" /\ l[d].event.subject = i
      /\ \A x \in (d+1)..(n-2) : l[x].event.kind = "patch-rejected"
  BY <1>2, <1>3
<1>5. l[n-1] = k[n-1]
  BY <1>1
<1> QED BY <1>1, <1>4, <1>5 DEF Foreseen

\* What follows in a log cannot undo what was foreseen in it.
LEMMA PreviewedKept ==
  ASSUME NEW k \in Seq(Entry), NEW l \in Seq(Entry), Extends(k, l), Harmless(k, l),
         NEW ds, NEW ds2, Previewed(k, ds),
         \A i \in Intents : ds[i] # None => ds2[i] = ds[i]
  PROVE  Previewed(l, ds2)
<1>1. /\ Len(k) \in Nat /\ DOMAIN k = 1..Len(k) /\ Len(l) \in Nat /\ DOMAIN l = 1..Len(l)
      /\ Len(k) <= Len(l)
  BY DEF Extends
<1>2. \A n \in DOMAIN k : l[n] = k[n]
  BY DEF Extends
<1> SUFFICES ASSUME NEW n \in DOMAIN l, l[n].event.id = FreshId
             PROVE  /\ l[n].event.kind = "patch-applied" => n < Len(l) /\ Outcome(l, n+1)
                    /\ Outcome(l, n) => LET i == l[n].event.subject IN
                         i \in Intents /\ ds2[i] # None /\ Foreseen(l, n, i, ds2[i].change)
  BY DEF Previewed
<1>3. CASE l[n].event.kind = "patch-applied"
  <2>1. n \in DOMAIN k
    BY <1>3 DEF Harmless, Applying
  <2>2. n < Len(k) /\ Outcome(k, n+1)
    BY <1>2, <1>3, <2>1 DEF Previewed
  <2>3. n + 1 \in DOMAIN k
    BY <1>1, <2>1, <2>2
  <2> QED BY <1>1, <1>2, <1>3, <2>2, <2>3 DEF Outcome
<1>4. CASE Outcome(l, n)
  <2> PICK i : i = l[n].event.subject
    OBVIOUS
  <2>1. n \in DOMAIN k
    BY <1>4 DEF Harmless, Applying, Outcome
  <2>2. k[n].event.id = FreshId /\ Outcome(k, n) /\ k[n].event.subject = i
    BY <1>2, <1>4, <2>1 DEF Outcome
  <2>3. i \in Intents /\ ds[i] # None /\ Foreseen(k, n, i, ds[i].change)
    BY <2>1, <2>2 DEF Previewed
  <2>4. \A j \in 1..n : l[j] = k[j]
    BY <1>1, <1>2, <2>1
  <2>5. n \in Nat
    BY <1>1, <2>1
  <2> PICK change : change = ds[i].change
    OBVIOUS
  <2>6. Foreseen(l, n, i, change)
    BY <2>3, <2>4, <2>5, ForeseenKept
  <2> QED BY <1>4, <2>3, <2>6 DEF Outcome
<1> QED BY <1>3, <1>4

\* A handler that changes the graph for no intent.
LEMMA Lands ==
  ASSUME RecordInv, NEW st, Leads(Here, st), Leaves(st),
         Recording(receipts', proposals', life'), AllThere(proposals', st.graph),
         drafts' \in [Intents -> Drafts], DraftsThere(drafts', st),
         \A i \in Intents : drafts[i] # None => drafts'[i] = drafts[i],
         ledger' = ledger, synced' = synced
  PROVE  RecordInv'
<1>1. /\ Grows(Here, st) /\ Extends(log, st.log) /\ Harmless(log, st.log)
      /\ st.log \in Seq(Entry)
  BY HereIs DEF Leads, Grows, Sound
<1>2. Previewed(st.log, drafts')
  <2> PICK ds, ds2 : ds = drafts /\ ds2 = drafts'
    OBVIOUS
  <2> PICK k, l : k = log /\ l = st.log
    OBVIOUS
  <2>1. k \in Seq(Entry) /\ Previewed(k, ds)
    BY HereIs DEF RecordInv
  <2>2. Previewed(l, ds2)
    BY <1>1, <2>1, PreviewedKept
  <2> QED BY <2>2
<1>3. SyncedThere(st, synced) /\ synced \in 0..Len(ledger)
  BY <1>1, StillThere DEF RecordInv
<1> QED BY <1>1, <1>2, <1>3, LandsAt

\* One that asks SDDK nothing and drafts nothing.
LEMMA LandsQuietly ==
  ASSUME RecordInv, NEW st, Leads(Here, st), Leaves(st),
         UNCHANGED <<drafts, proposals, ledger, receipts, life, synced>>
  PROVE  RecordInv'
<1>1. AllThere(proposals, st.graph) /\ DraftsThere(drafts, st)
  BY StillThere DEF Leads
<1>2. Recording(receipts, proposals, life) /\ drafts \in [Intents -> Drafts]
  BY DEF RecordInv
<1> QED BY <1>1, <1>2, Lands

\* One that asks SDDK.
LEMMA LandsRecorded ==
  ASSUME RecordInv, NEW sub, Leads(Here, sub.store), Submitted(sub), life' = life,
         Recording(sub.receipts, sub.proposals, life),
         AllThere(sub.proposals, sub.store.graph),
         drafts' \in [Intents -> Drafts], DraftsThere(drafts', sub.store),
         \A i \in Intents : drafts[i] # None => drafts'[i] = drafts[i],
         ledger' = ledger, synced' = synced
  PROVE  RecordInv'
BY Lands DEF Submitted

LEMMA DraftKept ==
  ASSUME RecordInv, NEW i \in Intents, Promotable(i)
  PROVE  /\ drafts[i] \in Draft /\ Exists(graph, i) /\ Exists(graph, drafts[i].target)
         /\ DraftedAt(log, i, drafts[i].base)
         /\ Current(i) => drafts[i].change \in Patches \cup {<< >>}
BY HereIs DEF RecordInv, Drafts, Draft, DraftsThere, Promotable, Current

LEMMA PromoteKept ==
  ASSUME RecordInv, NEW i \in Intents,
         PromoteStale(i) \/ PromoteRefused(i) \/ Discard(i)
  PROVE  RecordInv'
<1> PICK here : here = Here
  OBVIOUS
<1>0. Sound(here) /\ here.ok /\ here.graph = graph
  BY HereIs
<1>1. CASE PromoteStale(i)
  <2>1. Leads(here, Record(here, i, "stale"))
    BY <1>0, RecordLeads DEF Statuses
  <2> QED BY <1>1, <2>1, LandsQuietly DEF PromoteStale
<1>2. CASE Discard(i)
  <2>1. Leads(here, Record(here, i, "discarded"))
    BY <1>0, RecordLeads DEF Statuses
  <2> QED BY <1>2, <2>1, LandsQuietly DEF Discard
<1>3. CASE PromoteRefused(i)
  <2> PICK status, st : /\ status = (IF Reason(i) = "must-be-governed-by-sddk"
                                     THEN "sddk-governed" ELSE "rejected")
                        /\ st = Refused(i)
    OBVIOUS
  <2>1. status \in Statuses /\ status # "applied"
    BY DEF Statuses
  <2>2. Leads(here, st)
    BY <1>0, <1>3, RefusalSucceeds DEF PromoteRefused, Refused
  <2>3. Leads(st, Record(st, i, status))
    BY <2>1, <2>2, RecordLeads DEF Leads, Grows
  <2> PICK q : q = Record(st, i, status)
    OBVIOUS
  <2>4. Leads(here, q)
    BY <1>0, <2>2, <2>3, LeadsThrough
  <2>5. Leaves(q) /\ UNCHANGED <<drafts, proposals, ledger, receipts, life, synced>>
    BY <1>3 DEF PromoteRefused
  <2> QED BY <2>4, <2>5, LandsQuietly
<1> QED BY <1>1, <1>2, <1>3

\* Between an entry at the graph's revision and the end of the log only refusals
\* stand.
LEMMA OnlyRefusals ==
  ASSUME NEW l \in Seq(Entry), NEW revision \in Nat, Counted(l, revision),
         NEW d \in DOMAIN l, l[d].revision = revision
  PROVE  \A k \in (d+1)..Len(l) : l[k].event.kind = "patch-rejected"
<1> DEFINE S == {n \in Nat : d + n \in DOMAIN l => l[d].revision <= l[d+n].revision}
           T(m) == {n \in Nat : m + n \in DOMAIN l => l[m].revision <= l[m+n].revision}
<1>1. /\ Len(l) \in Nat /\ DOMAIN l = 1..Len(l)
      /\ \A n \in DOMAIN l : l[n] \in Entry
  OBVIOUS
<1>2. \A n \in DOMAIN l : l[n].revision \in Nat
  BY <1>1 DEF Entry
<1>3. ASSUME NEW n \in DOMAIN l, n # 1
      PROVE  l[n].revision = l[n-1].revision + Bump(l[n].event)
  BY <1>3 DEF Counted
<1>4. ASSUME NEW m \in DOMAIN l, NEW n \in Nat, m + n \in DOMAIN l
      PROVE  l[m].revision <= l[m+n].revision
  <2>1. 0 \in T(m)
    BY <1>1, <1>2
  <2>2. ASSUME NEW x \in T(m) PROVE x + 1 \in T(m)
    <3> SUFFICES ASSUME m + (x + 1) \in DOMAIN l PROVE l[m].revision <= l[m + (x+1)].revision
      OBVIOUS
    <3>1. m + x \in DOMAIN l /\ m + (x + 1) # 1 /\ (m + (x + 1)) - 1 = m + x
      BY <1>1
    <3> PICK y : y = m + (x + 1)
      OBVIOUS
    <3>2. l[y].revision = l[m+x].revision + Bump(l[y].event)
      BY <1>3, <3>1
    <3>3. l[m].revision <= l[m+x].revision
      BY <3>1
    <3>4. Bump(l[y].event) \in Nat
      BY DEF Bump
    <3>5. l[m].revision \in Nat /\ l[m+x].revision \in Nat
      BY <1>2, <3>1
    <3> PICK u, v, b : u = l[m].revision /\ v = l[m+x].revision /\ b = Bump(l[y].event)
      OBVIOUS
    <3>6. u \in Nat /\ v \in Nat /\ b \in Nat /\ u <= v
      BY <3>3, <3>4, <3>5
    <3>7. u <= v + b
      BY ONLY <3>6
    <3>8. l[m].revision <= l[y].revision
      BY <3>2, <3>7
    <3> QED BY <3>8
  <2> HIDE DEF T
  <2>3. \A x \in Nat : x \in T(m)
    <3>1. T(m) \in SUBSET Nat
      BY DEF T
    <3> QED BY <2>1, <2>2, <3>1, Induction
  <2>4. n \in T(m)
    BY <2>3
  <2> QED BY <1>4, <2>4 DEF T
<1>5. ASSUME NEW k \in (d+1)..Len(l) PROVE l[k].event.kind = "patch-rejected"
  <2>1. k \in DOMAIN l /\ k - 1 \in DOMAIN l /\ k # 1 /\ Len(l) \in DOMAIN l
    BY <1>1
  <2>2. l[d].revision <= l[k-1].revision
    <3>1. k - 1 - d \in Nat /\ d + (k - 1 - d) = k - 1
      BY <1>1
    <3> QED BY <1>4, <2>1, <3>1
  <2>3. l[k].revision <= l[Len(l)].revision
    <3>1. Len(l) - k \in Nat /\ k + (Len(l) - k) = Len(l)
      BY <1>1
    <3> QED BY <1>4, <2>1, <3>1
  <2>4. l[Len(l)].revision = revision
    BY <2>1 DEF Counted
  <2>5. l[k].revision = l[k-1].revision + Bump(l[k].event)
    BY <1>3, <2>1
  <2>6. Bump(l[k].event) \in {0, 1} /\ (Bump(l[k].event) = 0 => l[k].event.kind = "patch-rejected")
    BY DEF Bump
  <2>7. l[k-1].revision \in Nat /\ l[d].revision = revision
    BY <1>2, <2>1
  <2> PICK before, b : before = l[k-1].revision /\ b = Bump(l[k].event)
    OBVIOUS
  <2>8. /\ before \in Nat /\ b \in {0, 1} /\ revision <= before /\ before + b <= revision
    BY <2>2, <2>3, <2>4, <2>5, <2>6, <2>7
  <2> QED BY <2>6, <2>8
<1> QED BY <1>5

LEMMA TwoMore ==
  ASSUME NEW k \in Seq(Entry), NEW x \in Entry, NEW y \in Entry,
         NEW l, l = Append(Append(k, x), y), NEW n, n = Len(k)
  PROVE  /\ n \in Nat /\ DOMAIN k = 1..n /\ Len(l) = n + 2 /\ DOMAIN l = 1..(n+2)
         /\ l[n+1] = x /\ l[n+2] = y /\ \A j \in 1..n : l[j] = k[j]
<1>1. n \in Nat /\ DOMAIN k = 1..n
  OBVIOUS
<1> PICK m : m = Append(k, x)
  OBVIOUS
<1>2. /\ m \in Seq(Entry) /\ Len(m) = n + 1 /\ l = Append(m, y)
      /\ m[n+1] = x /\ \A j \in 1..n : m[j] = k[j]
  BY <1>1
<1>3. /\ Len(l) = n + 2 /\ DOMAIN l = 1..(n+2) /\ l[n+2] = y
      /\ \A j \in 1..(n+1) : l[j] = m[j]
  BY <1>1, <1>2
<1> QED BY <1>1, <1>2, <1>3

\* The two entries of a promotion whose base is the graph's revision.
LEMMA PreviewedApplied ==
  ASSUME NEW k \in Seq(Entry), NEW x \in Entry, NEW y \in Entry,
         NEW l, l = Append(Append(k, x), y), NEW ds, Previewed(k, ds),
         NEW i \in Intents, ds[i] # None,
         NEW revision \in Nat, Counted(k, revision), DraftedAt(k, i, revision),
         x.event.kind = "patch-applied", x.event.ops = ds[i].change,
         y.event.kind = "intent-promoted", y.event.props[Status] = "applied",
         y.event.subject = i
  PROVE  Previewed(l, ds)
<1> PICK n : n = Len(k)
  OBVIOUS
<1>1. /\ n \in Nat /\ DOMAIN k = 1..n /\ Len(l) = n + 2 /\ DOMAIN l = 1..(n+2)
      /\ l[n+1] = x /\ l[n+2] = y /\ \A j \in 1..n : l[j] = k[j]
  BY TwoMore
<1>2. PICK d \in 1..n : /\ k[d].event.kind = "intent-drafted" /\ k[d].event.subject = i
                        /\ k[d].revision = revision
  BY <1>1 DEF DraftedAt
<1>3. \A j \in (d+1)..n : k[j].event.kind = "patch-rejected"
  BY <1>1, <1>2, OnlyRefusals
<1>4. Foreseen(l, n+2, i, ds[i].change)
  <2>1. (n+2) - 1 = n + 1 /\ (n+2) - 2 = n /\ n + 2 > 1
    BY <1>1
  <2>2. \A j \in (d+1)..n : j \in 1..n
    BY <1>1
  <2>3. /\ l[d].event.kind = "intent-drafted" /\ l[d].event.subject = i
        /\ \A j \in (d+1)..n : l[j].event.kind = "patch-rejected"
    BY <1>1, <1>2, <1>3, <2>2
  <2> QED BY <1>1, <2>1, <2>3 DEF Foreseen
<1> DEFINE Fine(j) ==
      /\ l[j].event.kind = "patch-applied" => j < Len(l) /\ Outcome(l, j+1)
      /\ Outcome(l, j) => LET s == l[j].event.subject IN
           s \in Intents /\ ds[s] # None /\ Foreseen(l, j, s, ds[s].change)
<1>5. Fine(n+2)
  BY <1>1, <1>4
<1>6. Fine(n+1)
  <2>1. n + 1 < Len(l) /\ (n + 1) + 1 = n + 2
    BY <1>1
  <2> QED BY <1>1, <2>1 DEF Outcome
<1>7. ASSUME NEW j \in 1..n, l[j].event.id = FreshId PROVE Fine(j)
  <2>1. l[j] = k[j] /\ j \in DOMAIN k /\ j \in Nat
    BY <1>1
  <2>2. /\ k[j].event.kind = "patch-applied" => j < n /\ Outcome(k, j+1)
        /\ Outcome(k, j) => LET s == k[j].event.subject IN
             s \in Intents /\ ds[s] # None /\ Foreseen(k, j, s, ds[s].change)
    BY <1>7, <2>1 DEF Previewed
  <2>3. l[j].event.kind = "patch-applied" => j < Len(l) /\ Outcome(l, j+1)
    <3> SUFFICES ASSUME l[j].event.kind = "patch-applied"
                 PROVE  j < Len(l) /\ Outcome(l, j+1)
      OBVIOUS
    <3>1. j < n /\ Outcome(k, j+1) /\ j + 1 \in 1..n
      BY <1>1, <2>1, <2>2
    <3>2. l[j+1] = k[j+1]
      BY <1>1, <3>1
    <3> QED BY <1>1, <3>1, <3>2 DEF Outcome
  <2>4. ASSUME Outcome(l, j), NEW s, s = l[j].event.subject, NEW change, change = ds[s].change
        PROVE  s \in Intents /\ ds[s] # None /\ Foreseen(l, j, s, change)
    <3>1. Outcome(k, j) /\ s = k[j].event.subject
      BY <2>1, <2>4 DEF Outcome
    <3>2. s \in Intents /\ ds[s] # None /\ Foreseen(k, j, s, change)
      BY <2>2, <2>4, <3>1
    <3>3. \A z \in 1..j : l[z] = k[z]
      BY <1>1, <2>1
    <3>4. Foreseen(l, j, s, change)
      BY <2>1, <3>2, <3>3, ForeseenKept
    <3> QED BY <3>2, <3>4
  <2> QED BY <2>3, <2>4
<1> HIDE DEF Fine
<1>8. \A j \in DOMAIN l : l[j].event.id = FreshId => Fine(j)
  <2>1. \A j \in DOMAIN l : j \in 1..n \/ j = n + 1 \/ j = n + 2
    BY <1>1
  <2> QED BY <1>5, <1>6, <1>7, <2>1
<1> QED BY <1>8 DEF Previewed, Fine

\* A promotion that applies: both its events are appended, or, if the patch
\* tears, none.
LEMMA ApplyKept ==
  ASSUME RecordInv, NEW i \in Intents, PromoteApply(i)
  PROVE  RecordInv'
<1> PICK here, base, ops : here = Here /\ base = Base(i) /\ ops = drafts[i].change
  OBVIOUS
<1> PICK st : st = Propose(here, base, ops)
  OBVIOUS
<1> PICK p, e, f : /\ e = PatchEvent("patch-applied", ops)
                   /\ p = Prop(Status, "applied")
                   /\ f = EventOf("intent-promoted", i, NoSubject, p)
  OBVIOUS
<1> PICK a : a = AppendTo(st, f)
  OBVIOUS
<1>1. Sound(here) /\ here.ok /\ here.graph = graph /\ here.log = log
      /\ log \in Seq(Entry) /\ graph \in Graph
  BY HereIs
<1>2. /\ Promotable(i) /\ base = graph.revision /\ Valid(graph, base, ops)
      /\ Leaves(a) /\ UNCHANGED <<drafts, proposals, ledger, receipts, life, synced>>
  BY DEF PromoteApply, Current, Applied, Record
<1>3. /\ ops \in Patches \cup {<< >>} /\ drafts[i] # None /\ i \in Subjects
      /\ Exists(graph, i) /\ DraftedAt(log, i, base) /\ base = drafts[i].base
  BY DraftKept, NothingMade, NamespacesAssumption DEF PromoteApply, Base
<1>4. st = AppendTo(here, e)
  BY <1>1, <1>2 DEF Propose
<1>5. WellFormed(e) /\ Owned(e) /\ e.kind = "patch-applied" /\ e.id = FreshId /\ e.ops = ops
  <2>1. ops \in Seq(Step) /\ \A k \in DOMAIN ops : IsOperation(ops[k])
    <3>1. CASE ops \in Patches
      BY <3>1, ConstantsAssumption
    <3>2. CASE ops = << >>
      BY <3>2
    <3> QED BY <1>3, <3>1, <3>2
  <2>2. WellFormed(e)
    BY <2>1, PatchEvents
  <2> QED BY <2>2, OwnEvents DEF PatchEvent
<1>6. /\ WellFormed(f) /\ Owned(f) /\ f.kind = "intent-promoted" /\ f.id = FreshId
      /\ f.subject = i /\ f.props[Status] = "applied" /\ f.props = p
  <2>1. p \in Properties /\ p[Status] = "applied"
    BY GovernanceAssumption DEF Prop, Properties, Statuses
  <2>2. /\ WellFormed(f) /\ f.kind = "intent-promoted" /\ f.id = FreshId
        /\ f.subject = i /\ f.props = p
    BY <1>3, <2>1, EventOfForm DEF EventKind, NeedsOther
  <2> QED BY <2>1, <2>2, OwnEvents
<1>7. /\ Grows(here, st)
      /\ ~st.ok => st.log = here.log
      /\ st.ok => st.log = Append(here.log, [event |-> e, revision |-> st.graph.revision])
  BY <1>1, <1>4, <1>5, Appended
<1>8. Sound(st)
  BY <1>7 DEF Grows
<1>9. Grows(st, a) /\ Grows(here, a)
  <2>1. Grows(st, a)
    BY <1>6, <1>8, Appended
  <2> QED BY <1>1, <1>7, <2>1, GrowsThrough
<1>10. CASE ~st.ok
  <2>1. a.log = st.log
    <3>1. a = [st EXCEPT !.ok = FALSE]
      BY <1>10 DEF AppendTo
    <3> QED BY <1>8, <3>1 DEF Sound
  <2>2. Leads(here, a)
    BY <1>7, <1>9, <1>10, <2>1 DEF Leads, Harmless
  <2> QED BY <1>2, <2>2, LandsQuietly
<1>11. CASE st.ok
  <2>1. a.ok
    <3> PICK u : u = Update(i, p)
      OBVIOUS
    <3>1. Steps(f) = << u >>
      BY <1>6 DEF Steps, IntentSteps
    <3>2. Exists(st.graph, i)
      BY <1>1, <1>3, <1>7 DEF Grows, Keeps
    <3>3. StepOk(st.graph, u)
      BY <3>2 DEF StepOk, Update, OnSubject
    <3>4. RunSteps(st.graph, << u >>, Len(st.log)) = RunStep(Ran(TRUE, st.graph), u, Len(st.log))
      BY ONLY ShortRuns
    <3>5. RunStep(Ran(TRUE, st.graph), u, Len(st.log)).ok
      BY <3>3 DEF RunStep, Ran
    <3>6. RunSteps(st.graph, Steps(f), Len(st.log)).ok /\ ~Holds(st, f.id)
      BY <1>6, <3>1, <3>4, <3>5, NeverHeld
    <3>7. WellFormed(f) /\ Owned(f)
      BY <1>6
    <3> QED BY ONLY <1>8, <1>11, <3>6, <3>7, Appended, a = AppendTo(st, f)
  <2> PICK x, y : /\ x = [event |-> e, revision |-> st.graph.revision]
                  /\ y = [event |-> f, revision |-> a.graph.revision]
    OBVIOUS
  <2>2. a.log = Append(Append(log, x), y)
    <3>1. a.log = Append(st.log, y)
      BY <1>6, <1>8, <2>1, Appended
    <3> QED BY <1>1, <1>7, <1>11, <3>1
  <2>3. x \in Entry /\ y \in Entry
    <3>1. st.graph.revision \in Nat /\ a.graph.revision \in Nat
      BY <1>8, <1>9 DEF Grows, Sound, Graph
    <3>2. e \in Event /\ f \in Event
      BY <1>5, <1>6 DEF WellFormed
    <3> QED BY <3>1, <3>2 DEF Entry
  <2>4. Counted(log, graph.revision) /\ graph.revision \in Nat
    BY <1>1 DEF Sound, Graph
  <2>5. DraftedAt(log, i, graph.revision) /\ Previewed(log, drafts)
    BY <1>2, <1>3 DEF RecordInv
  <2>6. /\ x.event.kind = "patch-applied" /\ x.event.ops = drafts[i].change
        /\ y.event.kind = "intent-promoted" /\ y.event.props[Status] = "applied"
        /\ y.event.subject = i
    BY <1>5, <1>6
  <2> PICK l, ds, revision : l = a.log /\ ds = drafts /\ revision = graph.revision
    OBVIOUS
  <2>8. Previewed(a.log, drafts)
    <3> PICK k : k = log
      OBVIOUS
    <3>1. /\ l = Append(Append(k, x), y) /\ k \in Seq(Entry) /\ ds[i] # None
          /\ Previewed(k, ds) /\ revision \in Nat /\ Counted(k, revision)
          /\ DraftedAt(k, i, revision) /\ x.event.ops = ds[i].change
      BY <1>1, <1>3, <2>2, <2>4, <2>5, <2>6
    <3>2. Previewed(l, ds)
      BY ONLY <2>3, <2>6, <3>1, PreviewedApplied, i \in Intents
    <3> QED BY <3>2
  <2>9. /\ AllThere(proposals, a.graph) /\ DraftsThere(drafts, a) /\ SyncedThere(a, synced)
    BY <1>9, StillThere
  <2>10. /\ Recording(receipts, proposals, life) /\ drafts \in [Intents -> Drafts]
         /\ synced \in 0..Len(ledger)
    BY DEF RecordInv
  <2> QED BY <1>2, <1>9, <2>8, <2>9, <2>10, LandsAt
<1> QED BY <1>10, <1>11

\* The drafts ds are there in a store that a leads to, the known ones as they are.
DraftsKept(ds, a) ==
  /\ ds \in [Intents -> Drafts]
  /\ \A b : Leads(a, b) => DraftsThere(ds, b)
  /\ \A k \in Intents : drafts[k] # None => ds[k] = drafts[k]

\* The next draft, on a store that a handler has made of this one.
LEMMA DraftKeptThere ==
  ASSUME RecordInv, NEW st, Leads(Here, st), st.ok,
         NEW i \in Intents, ~Exists(st.graph, i), NEW t \in Subjects, Exists(st.graph, t),
         NEW change \in Patches \cup {<< >>, Malformed},
         NEW d, d = [made |-> TRUE, target |-> t, base |-> st.graph.revision + 1,
                     change |-> change],
         NEW ds, ds = [drafts EXCEPT ![i] = d],
         NEW a, a = Drafted(st, i, t)
  PROVE  /\ Leads(Here, a) /\ a.ok /\ Exists(a.graph, i) /\ Adds(st.graph, a.graph, {i})
         /\ DraftsKept(ds, a)
<1>1. Sound(st) /\ st.graph.revision \in Nat
  BY DEF Leads, Grows, Sound, Graph
<1>2. Leads(st, a) /\ a.ok /\ Exists(a.graph, i) /\ Adds(st.graph, a.graph, {i})
  BY <1>1, DraftSucceeds
<1> PICK e, entry : /\ e = EventOf("intent-drafted", i, t, Prop(Status, "draft"))
                    /\ entry = [event |-> e, revision |-> a.graph.revision]
  OBVIOUS
<1>e. a.graph.revision = st.graph.revision + 1 /\ a.log = Append(st.log, entry)
  BY <1>1, DraftSucceeds
<1>3. Leads(Here, a)
  BY <1>1, <1>2, HereIs, LeadsThrough
<1>4. d \in Draft /\ d.target = t /\ d.base = st.graph.revision + 1
  BY <1>1 DEF Draft
<1>5. /\ ds \in [Intents -> Drafts] /\ ds[i] = d
      /\ \A k \in Intents : k # i => ds[k] = drafts[k]
  BY <1>4 DEF RecordInv, Drafts
<1>8. DraftedAt(a.log, i, d.base)
  <2>1. a.log[Len(st.log) + 1] = entry /\ Len(st.log) + 1 \in DOMAIN a.log
    BY <1>1, <1>e DEF Sound
  <2>2. entry.event.kind = "intent-drafted" /\ entry.event.subject = i
        /\ entry.revision = d.base
    BY <1>4, <1>e DEF EventOf
  <2> QED BY <2>1, <2>2 DEF DraftedAt
<1>9. drafts[i] = None
  <2>1. Exists(Here.graph, i) => Exists(st.graph, i)
    BY NamespacesAssumption DEF Leads, Grows, Keeps
  <2> QED BY <2>1 DEF RecordInv, DraftsThere
<1>6. ASSUME NEW b, Leads(a, b) PROVE DraftsThere(ds, b)
  <2>1. Leads(Here, b)
    BY <1>3, <1>6, HereIs, LeadsThrough DEF Leads, Grows
  <2>2. DraftsThere(drafts, b)
    BY <2>1, StillThere DEF Leads
  <2>3. Exists(a.graph, t)
    BY <1>2 DEF Leads, Grows, Keeps
  <2>4. Exists(b.graph, i) /\ Exists(b.graph, t)
    BY <1>2, <1>6, <2>3, NamespacesAssumption DEF Leads, Grows, Keeps
  <2>5. DraftedAt(b.log, i, d.base)
    BY <1>6, <1>8 DEF DraftedAt, Leads, Grows, Extends
  <2> QED BY <1>4, <1>5, <2>2, <2>4, <2>5 DEF DraftsThere
<1>10. DraftsKept(ds, a)
  BY <1>5, <1>6, <1>9 DEF DraftsKept
<1> QED BY <1>2, <1>3, <1>10

LEMMA DraftIntentKept ==
  ASSUME RecordInv, NEW gesture \in Gestures, DraftIntent(gesture[1], gesture[2])
  PROVE  RecordInv'
<1> PICK t, change : t = gesture[1] /\ change = gesture[2]
  OBVIOUS
<1>1. t \in Subjects /\ change \in Patches \cup {<< >>, Malformed}
  BY GovernanceAssumption
<1> PICK i, here, a : /\ i = CHOOSE s \in Fresh(Intents, graph) : TRUE
                      /\ here = Here /\ a = Drafted(here, i, t)
  OBVIOUS
<1>2. i \in Intents /\ ~Exists(graph, i)
  BY DEF DraftIntent, Fresh
<1>3. /\ Leads(here, here) /\ here.ok /\ here.graph = graph
  BY HereIs
<1> PICK ds : ds = [drafts EXCEPT ![i] = [made |-> TRUE, target |-> t,
                                          base |-> graph.revision + 1, change |-> change]]
  OBVIOUS
<1>4. /\ Exists(graph, t) /\ Leaves(a) /\ drafts' = ds
      /\ UNCHANGED <<proposals, ledger, receipts, life, synced>>
  BY DEF DraftIntent
<1>5. /\ Leads(here, a) /\ ds \in [Intents -> Drafts]
      /\ \A b : Leads(a, b) => DraftsThere(ds, b)
      /\ \A k \in Intents : drafts[k] # None => ds[k] = drafts[k]
  <2>1. Leads(Here, here) /\ Exists(here.graph, t) /\ ~Exists(here.graph, i)
    BY <1>2, <1>3, <1>4
  <2> PICK d : d = [made |-> TRUE, target |-> t, base |-> here.graph.revision + 1,
                    change |-> change]
    OBVIOUS
  <2>2. ds = [drafts EXCEPT ![i] = d]
    BY <1>3
  <2>3. Leads(Here, a) /\ DraftsKept(ds, a)
    BY ONLY RecordInv, <1>1, <1>2, <1>3, <1>4, <2>1, <2>2, a = Drafted(here, i, t),
            d = [made |-> TRUE, target |-> t, base |-> here.graph.revision + 1,
                 change |-> change],
            DraftKeptThere
  <2> QED BY <2>3 DEF DraftsKept
<1>6. DraftsThere(ds, a) /\ AllThere(proposals, a.graph)
  BY <1>5, StillThere, LeadsItself DEF Leads, Grows
<1>7. Recording(receipts, proposals, life)
  BY DEF RecordInv
<1> QED BY <1>4, <1>5, <1>6, <1>7, Lands

LEMMA PromoteSubmitKept ==
  ASSUME RecordInv, NEW i \in Intents, NEW answer \in {"allowed", "refused", "failed"},
         PromoteSubmit(i, answer)
  PROVE  RecordInv'
<1> PICK here, st, t : here = Here /\ st = Refused(i) /\ t = drafts[i].target
  OBVIOUS
<1>1. Sound(here) /\ here.ok /\ here.graph = graph
  BY HereIs
<1>2. /\ Promotable(i) /\ ~Valid(graph, Base(i), drafts[i].change)
      /\ Fresh(Proposals, graph) # {}
      /\ UNCHANGED <<drafts, ledger, life, synced>>
  BY DEF PromoteSubmit
<1>3. Leads(here, st) /\ st.ok /\ Adds(graph, st.graph, {})
  BY <1>1, <1>2, RefusalSucceeds DEF Refused
<1>4. CASE answer = "failed"
  <2>1. Leaves(st) /\ UNCHANGED <<receipts, proposals>>
    BY <1>4 DEF PromoteSubmit
  <2> QED BY <1>2, <1>3, <2>1, LandsQuietly
<1>5. CASE answer # "failed"
  <2> PICK sub : sub = Submit(st, i, t, answer, None)
    OBVIOUS
  <2>1. PromoteSubmitted(i, sub)
    BY <1>5 DEF PromoteSubmit
  <2>2. t \in Subjects /\ Exists(graph, t)
    BY <1>2, DraftKept DEF Draft
  <2>3. Exists(st.graph, t)
    BY <1>1, <1>3, <2>2 DEF Leads, Grows, Keeps
  <2>4. AllThere(proposals, st.graph) /\ Sound(st) /\ Recording(receipts, proposals, life)
    BY <1>3, StillThere DEF RecordInv, Leads, Grows
  <2>5. Fresh(Proposals, st.graph) # {}
    BY <1>2, <1>3, NamespacesAssumption DEF Fresh, Adds
  <2>6. Recorded(st, sub)
    BY <1>3, <1>5, <2>2, <2>3, <2>4, <2>5, SubmitRecorded
  <2> PICK q : q = Record(sub.store, i, "submitted")
    OBVIOUS
  <2>7. Leads(sub.store, q)
    BY <2>6, RecordLeads DEF Recorded, Leads, Grows, Statuses
  <2>8. Leads(here, q)
    <3>1. Leads(here, sub.store)
      BY <1>1, <1>3, <2>6, LeadsThrough DEF Recorded
    <3> QED BY <1>1, <2>7, <3>1, LeadsThrough
  <2>9. AllThere(sub.proposals, q.graph)
    BY <2>6, <2>7, NamespacesAssumption DEF Recorded, AllThere, Leads, Grows, Keeps
  <2>10. Leaves(q) /\ receipts' = sub.receipts /\ proposals' = sub.proposals
    BY <2>1 DEF PromoteSubmitted, Submitted, Submission
  <2>11. DraftsThere(drafts, q)
    BY <2>8, StillThere DEF Leads
  <2>12. drafts \in [Intents -> Drafts] /\ Recording(sub.receipts, sub.proposals, life)
    BY <2>6 DEF RecordInv, Recorded
  <2> QED BY <1>2, <2>8, <2>9, <2>10, <2>11, <2>12, Lands
<1> QED BY <1>4, <1>5

\* What a pull-up does once its subject and its intent are there.
LEMMA PulledUpKept ==
  ASSUME RecordInv, NEW st, Leads(Here, st), st.ok, Fresh(Proposals, st.graph) # {},
         NEW i \in Intents, NEW t \in Subjects, Exists(st.graph, t),
         NEW e \in Evaluations, NEW answer \in {"allowed", "refused", "failed"},
         PulledUp(st, i, t, e, answer),
         drafts' \in [Intents -> Drafts],
         \A b : Leads(st, b) => DraftsThere(drafts', b),
         \A k \in Intents : drafts[k] # None => drafts'[k] = drafts[k],
         UNCHANGED <<ledger, life, synced>>
  PROVE  RecordInv'
<1>1. AllThere(proposals, st.graph) /\ Sound(st) /\ Recording(receipts, proposals, life)
  BY StillThere DEF RecordInv, Leads, Grows
<1>2. CASE answer = "failed"
  <2>1. Leaves(st) /\ UNCHANGED <<receipts, proposals>>
    BY <1>2 DEF PulledUp
  <2>2. DraftsThere(drafts', st)
    BY <1>1, LeadsItself
  <2> QED BY <1>1, <2>1, <2>2, Lands
<1>3. CASE answer # "failed"
  <2> PICK sub : sub = Evaluated(st, i, t, e, answer)
    OBVIOUS
  <2>1. Submitted(sub)
    BY <1>3 DEF PulledUp
  <2>2. Recorded(st, sub)
    <3>1. e \in Evaluation \cup {None}
      BY GovernanceAssumption
    <3>2. Recorded(st, Submit(st, i, t, answer, e))
      BY <1>1, <1>3, <3>1, SubmitRecorded
    <3>3. Recorded(st, NotProposed(st, i, t))
      BY <1>1, NotProposedRecorded
    <3> QED BY <3>2, <3>3 DEF Evaluated
  <2>3. Leads(st, sub.store)
    BY <2>2 DEF Recorded
  <2>4. DraftsThere(drafts', sub.store)
    BY <2>3
  <2>5. Leads(Here, sub.store)
    BY <1>1, <2>3, HereIs, LeadsThrough
  <2> QED BY <2>1, <2>2, <2>4, <2>5, LandsRecorded DEF Recorded
<1> QED BY <1>2, <1>3

LEMMA PullUpForKept ==
  ASSUME RecordInv, NEW i \in Intents, NEW e \in Evaluations,
         NEW answer \in {"allowed", "refused", "failed"}, PullUpFor(i, Project, e, answer)
  PROVE  RecordInv'
<1> PICK here, st : here = Here /\ st = Materialised(here, Project)
  OBVIOUS
<1>1. Sound(here) /\ here.ok /\ here.graph = graph /\ Project \in Subjects
  BY HereIs, NamespacesAssumption, ConstantsAssumption
<1>2. Leads(here, st) /\ st.ok /\ Exists(st.graph, Project) /\ Adds(graph, st.graph, {Project})
  BY <1>1, MaterialisedSucceeds
<1>3. /\ Fresh(Proposals, graph) # {} /\ PulledUp(st, i, Project, e, answer)
      /\ UNCHANGED <<drafts, ledger, life, synced>>
  BY DEF PullUpFor, PullUpPossible
<1>4. Fresh(Proposals, st.graph) # {}
  BY <1>2, <1>3, NamespacesAssumption DEF Fresh, Adds
<1>5. ASSUME NEW b, Leads(st, b) PROVE DraftsThere(drafts', b)
  <2>1. Leads(here, b)
    BY <1>1, <1>2, <1>5, LeadsThrough DEF Leads, Grows
  <2> QED BY <1>3, <2>1, StillThere DEF Leads
<1>6. drafts' \in [Intents -> Drafts]
  BY <1>3 DEF RecordInv
<1> QED BY <1>1, <1>2, <1>3, <1>4, <1>5, <1>6, PulledUpKept

LEMMA PullUpDraftingKept ==
  ASSUME RecordInv, NEW e \in Evaluations,
         NEW answer \in {"allowed", "refused", "failed"}, PullUpDrafting(Project, e, answer)
  PROVE  RecordInv'
<1> PICK here, there : here = Here /\ there = Materialised(here, Project)
  OBVIOUS
<1> PICK i, st : i = (CHOOSE s \in Fresh(Intents, graph) : TRUE) /\ st = Drafted(there, i, Project)
  OBVIOUS
<1>1. Sound(here) /\ here.ok /\ here.graph = graph /\ Project \in Subjects
  BY HereIs, NamespacesAssumption, ConstantsAssumption
<1>2. i \in Intents /\ ~Exists(graph, i)
  BY DEF PullUpDrafting, Fresh
<1>3. /\ Leads(here, there) /\ there.ok /\ Exists(there.graph, Project)
      /\ Adds(graph, there.graph, {Project})
  BY <1>1, MaterialisedSucceeds
<1>4. ~Exists(there.graph, i)
  BY <1>2, <1>3, NamespacesAssumption DEF Adds
<1> PICK none, ds : /\ none = << >>
                    /\ ds = [drafts EXCEPT ![i] = [made |-> TRUE, target |-> Project,
                               base |-> there.graph.revision + 1, change |-> none]]
  OBVIOUS
<1>5. /\ Fresh(Proposals, graph) # {} /\ drafts' = ds
      /\ PulledUp(st, i, Project, e, answer) /\ UNCHANGED <<ledger, life, synced>>
  BY DEF PullUpDrafting, PullUpPossible
<1>6. /\ Leads(here, st) /\ st.ok /\ Adds(there.graph, st.graph, {i})
      /\ ds \in [Intents -> Drafts] /\ \A b : Leads(st, b) => DraftsThere(ds, b)
      /\ \A k \in Intents : drafts[k] # None => ds[k] = drafts[k]
  <2>1. none \in Patches \cup {<< >>, Malformed}
    OBVIOUS
  <2>2. /\ Leads(Here, st) /\ st.ok /\ Adds(there.graph, st.graph, {i})
        /\ DraftsKept(ds, st)
    <3>1. Project \in Subjects /\ Leads(Here, there) /\ there.ok /\ Exists(there.graph, Project)
      BY <1>1, <1>3
    <3> PICK d : d = [made |-> TRUE, target |-> Project,
                      base |-> there.graph.revision + 1, change |-> none]
      OBVIOUS
    <3>2. ds = [drafts EXCEPT ![i] = d]
      OBVIOUS
    <3> QED BY ONLY RecordInv, <1>2, <1>4, <2>1, <3>1, <3>2, DraftKeptThere,
                    st = Drafted(there, i, Project),
                    d = [made |-> TRUE, target |-> Project,
                         base |-> there.graph.revision + 1, change |-> none]
  <2> QED BY <2>2 DEF DraftsKept
<1>7. Fresh(Proposals, st.graph) # {}
  <2>1. Fresh(Proposals, there.graph) # {}
    BY <1>3, <1>5, NamespacesAssumption DEF Fresh, Adds
  <2> QED BY <1>2, <1>6, <2>1, NamespacesAssumption DEF Fresh, Adds
<1>8. Exists(st.graph, Project)
  <2>1. Sound(there)
    BY <1>3 DEF Leads, Grows
  <2>2. Leads(there, st)
    BY <1>1, <1>2, <1>3, <1>4, <2>1, DraftSucceeds
  <2> QED BY <1>1, <1>3, <2>2 DEF Leads, Grows, Keeps
<1>9. /\ drafts' \in [Intents -> Drafts]
      /\ \A b : Leads(st, b) => DraftsThere(drafts', b)
      /\ \A k \in Intents : drafts[k] # None => drafts'[k] = drafts[k]
  BY <1>5, <1>6
<1>10. Leads(Here, st) /\ st.ok
  BY <1>6
<1>11. UNCHANGED <<ledger, life, synced>> /\ PulledUp(st, i, Project, e, answer)
  BY <1>5
<1>12. Project \in Subjects
  BY <1>1
<1> QED BY ONLY RecordInv, e \in Evaluations, answer \in {"allowed", "refused", "failed"},
                <1>2, <1>7, <1>8, <1>9, <1>10, <1>11, <1>12, PulledUpKept

-----------------------------------------------------------------------------
(* Workflow sync.                                                           *)

\* SyncRuns is a recursive function; that it exists is proved by induction.
LEMMA SyncRunsUnfold ==
  ASSUME NEW order, Len(order) \in Nat
  PROVE  /\ SyncRuns(order)[0] = Materialised(Here, Project)
         /\ \A n \in 1..Len(order) :
              SyncRuns(order)[n] = SyncCycle(SyncRuns(order)[n-1], order[n])
<1> DEFINE First == Materialised(Here, Project)
           Are(f, k) == f = [n \in 0..k |-> IF n = 0 THEN First
                                            ELSE SyncCycle(f[n-1], order[n])]
           S == {k \in Nat : \E f : Are(f, k)}
<1>5. ASSUME \E f : Are(f, Len(order)) PROVE Are(SyncRuns(order), Len(order))
  BY <1>5 DEF SyncRuns
<1> HIDE DEF First
<1>1. 0 \in S
  <2> DEFINE f == [n \in 0..0 |-> First]
  <2>1. \A n \in 0..0 : n = 0
    OBVIOUS
  <2>2. Are(f, 0)
    BY <2>1
  <2> QED BY <2>2
<1>2. ASSUME NEW k \in S PROVE k + 1 \in S
  <2>0. k \in Nat /\ k + 1 \in Nat
    OBVIOUS
  <2>1. PICK f : Are(f, k)
    OBVIOUS
  <2> DEFINE h == [n \in 0..(k+1) |-> IF n <= k THEN f[n] ELSE SyncCycle(f[k], order[k+1])]
  <2>2. ASSUME NEW n \in 0..(k+1)
        PROVE  h[n] = IF n = 0 THEN First ELSE SyncCycle(h[n-1], order[n])
    <3>1. CASE n = 0
      BY <2>1, <3>1
    <3>2. CASE n # 0 /\ n <= k
      BY <2>1, <3>2
    <3>3. CASE n = k + 1
      <4>1. n # 0 /\ ~(n <= k) /\ n - 1 = k /\ k \in 0..(k+1) /\ k <= k
        BY <2>0, <3>3
      <4>2. h[n] = SyncCycle(f[k], order[n]) /\ h[n-1] = f[k]
        BY <3>3, <4>1
      <4> QED BY <4>1, <4>2
    <3>4. n = 0 \/ (n # 0 /\ n <= k) \/ n = k + 1
      BY <2>0
    <3> QED BY <3>1, <3>2, <3>3, <3>4
  <2>3. Are(h, k+1)
    BY <2>2
  <2> HIDE DEF h, Are
  <2>4. \E x : Are(x, k+1)
    BY <2>3
  <2> QED BY <2>0, <2>4
<1> HIDE DEF S
<1>3. Len(order) \in S
  BY <1>1, <1>2, Induction DEF S
<1>4. \E f : Are(f, Len(order))
  BY <1>3 DEF S
<1>6. Are(SyncRuns(order), Len(order))
  BY <1>4, <1>5
<1> QED BY <1>6 DEF First

LEMMA NewestIsThere ==
  ASSUME NEW S \in SUBSET Nat, S # {}, NEW k \in Nat, \A n \in S : n <= k
  PROVE  Newest(S) \in S /\ \A n \in S : n <= Newest(S)
<1> DEFINE T == {k - n : n \in S}
<1>1. T \in SUBSET Nat /\ T # {}
  <2>1. \A n \in S : n \in Nat /\ n <= k /\ k - n \in Nat
    OBVIOUS
  <2> QED BY <2>1
<1>2. PICK d \in T : \A m \in T : ~(m < d)
  BY <1>1, Least
<1>3. PICK n \in S : d = k - n
  BY <1>2
<1>4. \A m \in S : m <= n
  <2> TAKE m \in S
  <2>1. k - m \in T
    OBVIOUS
  <2>2. ~(k - m < k - n)
    BY <1>2, <1>3, <2>1
  <2>3. m \in Nat /\ n \in Nat
    OBVIOUS
  <2> HIDE DEF T
  <2> QED BY <2>2, <2>3
<1> QED BY <1>4 DEF Newest

\* The event that sync makes of a cycle's newest ledger event.
LEMMA SyncEventForm ==
  ASSUME NEW st, NEW c \in Observed, ledger \in Seq(Cycles), Len(ledger) <= MaxLedger,
         NEW n, n = Newest(Of(c, Len(ledger)))
  PROVE  /\ n \in 1..MaxLedger
         /\ WellFormed(SyncEvent(st, c)) /\ SyncEvent(st, c).id = SyncId(c, n)
         /\ SyncEvent(st, c).subject = c
         /\ SyncEvent(st, c).kind = IF Exists(st.graph, c) THEN "subject-updated"
                                    ELSE "subject-defined"
         /\ Owned(SyncEvent(st, c)) /\ ~Applying(SyncEvent(st, c))
         /\ SyncEvent(st, c).id # FreshId
<1> PICK S : S = Of(c, Len(ledger))
  OBVIOUS
<1>1. Len(ledger) \in Nat /\ c \in Cycles /\ c \in Subjects
  BY NamespacesAssumption, ConstantsAssumption DEF Observed
<1>2. S \in SUBSET Nat /\ S # {} /\ \A k \in S : k <= Len(ledger) /\ k \in 1..Len(ledger)
  BY <1>1 DEF Of, Observed
<1>3. n \in S /\ \A k \in S : k <= n
  BY <1>1, <1>2, NewestIsThere
<1>4. n \in 1..MaxLedger
  BY <1>1, <1>2, <1>3, SyncAssumption
<1> PICK p, kind, e : /\ p = Prop(Cursor, Sequence(n))
                      /\ kind = (IF Exists(st.graph, c) THEN "subject-updated"
                                 ELSE "subject-defined")
                      /\ e = EventOf(kind, c, NoSubject, p)
  OBVIOUS
<1>5. p \in Properties
  <2>1. Sequence(n) \in PropValues
    BY <1>4, GovernanceAssumption
  <2> QED BY <2>1 DEF Prop, Properties
<1>6. WellFormed(e) /\ e.kind = kind /\ e.subject = c
  <2>1. kind \in {"subject-updated", "subject-defined"}
    OBVIOUS
  <2>2. /\ kind \in EventKind \ {"sddk-proposal-submitted", "agent-run-finished"}
        /\ kind \notin NeedsOther
    BY <2>1 DEF EventKind, NeedsOther
  <2>3. e = EventOf(kind, c, NoSubject, p) /\ NoSubject \in Subjects \cup {NoSubject}
    OBVIOUS
  <2>4. c \in Subjects /\ p \in Properties
    BY <1>1, <1>5
  <2> QED BY ONLY <2>2, <2>3, <2>4, EventOfForm
<1>7. SyncId(c, n) \in EventIds
  BY <1>1, <1>4, SyncAssumption DEF SyncId, SyncIds
<1> PICK x : x = SyncEvent(st, c)
  OBVIOUS
<1>8. x = [e EXCEPT !.id = SyncId(c, n)]
  BY DEF SyncEvent
<1>9. WellFormed(x) /\ x.id = SyncId(c, n) /\ x.subject = c /\ x.kind = kind
  BY <1>6, <1>7, <1>8 DEF WellFormed, Event
<1>10. x.id # FreshId
  BY <1>7, <1>9, ConstantsAssumption
<1>11. Owned(x)
  <2>1. ASSUME NEW b, NEW k, x.id = SyncId(b, k) PROVE b = c /\ k = n
    <3>1. << b, k >> = << c, n >>
      BY <1>9, <2>1 DEF SyncId
    <3> QED BY <3>1
  <2>2. x.kind \in {"subject-updated", "subject-defined"}
    BY <1>9
  <2>3. x.props = Prop(Cursor, Sequence(n))
    BY <1>7, <1>8 DEF EventOf
  <2> QED BY <1>9, <2>1, <2>2, <2>3 DEF Owned
<1>12. ~Applying(x)
  BY <1>10 DEF Applying
<1> QED BY <1>4, <1>9, <1>10, <1>11, <1>12

DerivedEvent(c) ==
  [EventOf("relation-declared", c, Project, NoProps) EXCEPT !.relation = "derives_from"]

LEMMA DerivedForm ==
  ASSUME NEW c \in Cycles, NEW e, e = DerivedEvent(c)
  PROVE  /\ WellFormed(e) /\ e.id = FreshId /\ Owned(e) /\ ~Applying(e)
         /\ Steps(e) = << Declare(FromProject(c)) >>
<1> PICK k : k = EventOf("relation-declared", c, Project, NoProps)
  OBVIOUS
<1>1. c \in Subjects /\ Project \in Subjects
  BY NamespacesAssumption, ConstantsAssumption
<1>2. /\ WellFormed(k) /\ k.kind = "relation-declared" /\ k.id = FreshId
      /\ k.subject = c /\ k.other = Project /\ k.authority = "derived"
  BY <1>1, EventOfForm, PropsType DEF EventKind, NeedsOther
<1>3. e = [k EXCEPT !.relation = "derives_from"]
  BY DEF DerivedEvent
<1>4. /\ WellFormed(e) /\ e.kind = "relation-declared" /\ e.id = FreshId
      /\ e.subject = c /\ e.other = Project /\ e.authority = "derived"
      /\ e.relation = "derives_from"
  BY <1>2, <1>3 DEF WellFormed, Event, RelationKind
<1>5. Owned(e) /\ ~Applying(e)
  BY <1>4, OwnEvents DEF Applying
<1>6. Steps(e) = << Declare(FromProject(c)) >>
  BY <1>4 DEF Steps, WorldSteps, FromProject
<1> QED BY <1>4, <1>5, <1>6

\* The event of a cycle cannot fail: it defines what is missing, else updates it.
LEMMA SyncEventSucceeds ==
  ASSUME RecordInv, NEW st, Sound(st), st.ok, NEW c \in Observed,
         NEW n, n = Newest(Of(c, Len(ledger))),
         NEW q, q = AppendOnce(st, SyncEvent(st, c))
  PROVE  Leads(st, q) /\ q.ok /\ Holds(q, SyncId(c, n)) /\ Exists(q.graph, c)
<1> PICK e : e = SyncEvent(st, c)
  OBVIOUS
<1>1. ledger \in Seq(Cycles) /\ Len(ledger) <= MaxLedger /\ c \in Cycles
  BY DEF RecordInv, Observed
<1>2. /\ n \in 1..MaxLedger /\ WellFormed(e) /\ e.id = SyncId(c, n) /\ e.subject = c
      /\ e.kind = IF Exists(st.graph, c) THEN "subject-updated" ELSE "subject-defined"
      /\ Owned(e) /\ ~Applying(e) /\ e.id # FreshId
  BY <1>1, SyncEventForm
<1>3. Leads(st, q) /\ q.ok /\ Holds(q, SyncId(c, n))
  <2>1. CASE Holds(st, e.id)
    BY <1>2, <2>1, LeadsItself DEF AppendOnce
  <2>2. CASE ~Holds(st, e.id)
    <3>1. q = AppendTo(st, e)
      BY <2>2 DEF AppendOnce
    <3> PICK d, seq : d = Steps(e)[1] /\ seq = Len(st.log)
      OBVIOUS
    <3>2. Steps(e) = << d >> /\ StepOk(st.graph, d)
      <4>1. CASE Exists(st.graph, c)
        <5>1. Steps(e) = << Update(c, e.props) >>
          BY <1>2, <4>1 DEF Steps, WorldSteps
        <5>2. StepOk(st.graph, Update(c, e.props))
          BY <4>1 DEF StepOk, Update, OnSubject
        <5> QED BY <5>1, <5>2
      <4>2. CASE ~Exists(st.graph, c)
        <5>1. Steps(e) = << Define({}, c, e.authority, e.props) >>
          BY <1>2, <4>2 DEF Steps, WorldSteps
        <5>2. StepOk(st.graph, Define({}, c, e.authority, e.props))
          BY <4>2 DEF StepOk, Define, OnSubject
        <5> QED BY <5>1, <5>2
      <4> QED BY <4>1, <4>2
    <3>3. RunSteps(st.graph, Steps(e), seq).ok
      <4>1. RunSteps(st.graph, << d >>, seq) = RunStep(Ran(TRUE, st.graph), d, seq)
        BY ShortRuns
      <4>2. RunStep(Ran(TRUE, st.graph), d, seq).ok
        BY <3>2 DEF RunStep, Ran
      <4> QED BY <3>2, <4>1, <4>2
    <3>4. /\ Leads(st, q) /\ q.ok
          /\ q.log = Append(st.log, [event |-> e, revision |-> q.graph.revision])
      <4>1. ~Holds(st, e.id) /\ RunSteps(st.graph, Steps(e), Len(st.log)).ok
        BY <2>2, <3>3
      <4>2. WellFormed(e) /\ Owned(e) /\ ~Applying(e)
        BY <1>2
      <4> QED BY ONLY <3>1, <4>1, <4>2, Appended, Sound(st), st.ok
    <3>5. q.log[Len(st.log) + 1].event = e /\ Len(st.log) + 1 \in DOMAIN q.log
      BY <3>4 DEF Sound
    <3> QED BY <1>2, <3>4, <3>5 DEF Holds
  <2> QED BY <2>1, <2>2
<1>4. Exists(q.graph, c)
  <2>1. PICK k \in DOMAIN q.log : q.log[k].event.id = SyncId(c, n)
    BY <1>3 DEF Holds
  <2>2. About(q.log[k].event, c)
    BY <1>2, <2>1 DEF About
  <2>3. CyclesThere(q.log, q.graph)
    BY <1>3 DEF Leads, Grows, Sound
  <2> QED BY <1>1, <2>1, <2>2, <2>3 DEF CyclesThere
<1> QED BY <1>3, <1>4

\* Nor can its relation to the project.
LEMMA DerivedSucceeds ==
  ASSUME NEW q, Sound(q), q.ok, NEW c \in Cycles, Exists(q.graph, c),
         Exists(q.graph, Project), NEW a, a = Derived(q, c)
  PROVE  Leads(q, a) /\ a.ok /\ Related(a.graph, FromProject(c))
<1>1. CASE Related(q.graph, FromProject(c))
  BY <1>1, LeadsItself DEF Derived
<1>2. CASE ~Related(q.graph, FromProject(c))
  <2> PICK e, f, d, seq : /\ e = DerivedEvent(c) /\ f = FromProject(c)
                          /\ d = Declare(f) /\ seq = Len(q.log)
    OBVIOUS
  <2>1. /\ WellFormed(e) /\ e.id = FreshId /\ Owned(e) /\ ~Applying(e)
        /\ Steps(e) = << d >>
    BY DerivedForm
  <2>2. a = AppendTo(q, e)
    BY <1>2 DEF Derived, DerivedEvent
  <2>3. f.from = c /\ f.to = Project
    BY DEF FromProject, Fact
  <2>4. d.op = "declare" /\ d.fact = f /\ d.needs = {c, Project}
    BY <2>3 DEF Declare
  <2>5. StepOk(q.graph, d)
    BY <1>2, <2>4 DEF StepOk
  <2> PICK run : run = RunSteps(q.graph, Steps(e), seq)
    OBVIOUS
  <2>6. run = RunStep(Ran(TRUE, q.graph), d, seq)
    BY <2>1, ShortRuns
  <2>7. run.ok /\ run.graph = StepEffect(q.graph, d, seq)
    BY <2>5, <2>6 DEF RunStep, Ran
  <2>8. f \in run.graph.relations
    BY <2>4, <2>7 DEF StepEffect, Sound, Graph
  <2>9. /\ Leads(q, a) /\ a.ok /\ a.graph.relations = run.graph.relations
    <3>1. ~Holds(q, e.id) /\ RunSteps(q.graph, Steps(e), Len(q.log)).ok
      BY <2>1, <2>7, NeverHeld
    <3>2. WellFormed(e) /\ Owned(e) /\ ~Applying(e)
      BY <2>1
    <3>3. /\ Leads(q, a) /\ a.ok
          /\ a.graph.relations = RunSteps(q.graph, Steps(e), Len(q.log)).graph.relations
      BY ONLY <2>2, <3>1, <3>2, Appended, Sound(q), q.ok
    <3> QED BY <3>3
  <2> QED BY <2>8, <2>9 DEF Related
<1> QED BY <1>1, <1>2

LEMMA SyncCycleSucceeds ==
  ASSUME RecordInv, NEW st, Sound(st), st.ok, Exists(st.graph, Project),
         NEW c \in Observed, NEW a, a = SyncCycle(st, c)
  PROVE  Leads(st, a) /\ a.ok /\ Tied(a, c, Len(ledger))
<1> PICK q, n : q = AppendOnce(st, SyncEvent(st, c)) /\ n = Newest(Of(c, Len(ledger)))
  OBVIOUS
<1>1. Leads(st, q) /\ q.ok /\ Holds(q, SyncId(c, n)) /\ Exists(q.graph, c)
  BY SyncEventSucceeds
<1>2. Sound(q) /\ Exists(q.graph, Project) /\ c \in Cycles /\ a = Derived(q, c)
  BY <1>1, NamespacesAssumption, ConstantsAssumption
     DEF Leads, Grows, Keeps, Observed, SyncCycle
<1>3. Leads(q, a) /\ a.ok /\ Related(a.graph, FromProject(c))
  BY <1>1, <1>2, DerivedSucceeds
<1>4. Holds(a, SyncId(c, n))
  BY <1>1, <1>3 DEF Leads, Grows, Extends, Holds
<1>5. Leads(st, a)
  BY <1>1, <1>3, LeadsThrough
<1> QED BY <1>3, <1>4, <1>5 DEF Tied

LEMMA OrderForm ==
  ASSUME NEW order \in Orders, ledger \in Seq(Cycles)
  PROVE  /\ Len(order) \in Nat /\ \A n \in 1..Len(order) : order[n] \in Observed
         /\ \A c \in Observed : \E n \in 1..Len(order) : order[n] = c
<1>1. PICK k \in 0..Len(ledger) : order \in [1..k -> Observed]
  BY DEF Orders
<1>2. k \in Nat /\ order \in Seq(Observed)
  BY <1>1
<1>3. \A c \in Observed : \E n \in DOMAIN order : order[n] = c
  BY DEF Orders
<1> QED BY <1>2, <1>3

\* Sync leads from the store it finds to the one it leaves, cycle by cycle, and
\* every cycle behind it is tied to the project.
SyncedTo(order, n) ==
  LET st == SyncRuns(order)[n] IN
  /\ Leads(Here, st) /\ st.ok /\ Exists(st.graph, Project)
  /\ \A i \in 1..n : Tied(st, order[i], Len(ledger))

LEMMA SyncSucceeds ==
  ASSUME RecordInv, NEW order \in Orders
  PROVE  Leads(Here, Synced(order)) /\ SyncedThere(Synced(order), Len(ledger))
<1> DEFINE S == {n \in Nat : n <= Len(order) => SyncedTo(order, n)}
<1>0. /\ Len(order) \in Nat /\ \A n \in 1..Len(order) : order[n] \in Observed
      /\ \A c \in Observed : \E n \in 1..Len(order) : order[n] = c
  BY OrderForm DEF RecordInv
<1>1. 0 \in S
  <2> PICK st : st = SyncRuns(order)[0]
    OBVIOUS
  <2>1. st = Materialised(Here, Project)
    BY <1>0, SyncRunsUnfold
  <2>2. Leads(Here, st) /\ st.ok /\ Exists(st.graph, Project)
    BY <2>1, HereIs, MaterialisedSucceeds, NamespacesAssumption, ConstantsAssumption
  <2> QED BY <2>2 DEF SyncedTo
<1>2. ASSUME NEW n \in S PROVE n + 1 \in S
  <2> SUFFICES ASSUME n + 1 <= Len(order) PROVE SyncedTo(order, n + 1)
    OBVIOUS
  <2>1. n \in Nat /\ n + 1 \in 1..Len(order) /\ (n + 1) - 1 = n /\ n <= Len(order)
    BY <1>0
  <2> PICK st, c, a : st = SyncRuns(order)[n] /\ c = order[n+1] /\ a = SyncRuns(order)[n+1]
    OBVIOUS
  <2>2. /\ Leads(Here, st) /\ st.ok /\ Exists(st.graph, Project)
        /\ \A i \in 1..n : Tied(st, order[i], Len(ledger))
    BY <2>1 DEF SyncedTo
  <2>3. a = SyncCycle(st, c) /\ c \in Observed
    BY <1>0, <2>1, SyncRunsUnfold
  <2>4. Leads(st, a) /\ a.ok /\ Tied(a, c, Len(ledger))
    BY <2>2, <2>3, SyncCycleSucceeds DEF Leads, Grows
  <2>5. Leads(Here, a)
    BY <2>2, <2>4, HereIs, LeadsThrough
  <2>6. Exists(a.graph, Project)
    BY <2>2, <2>4, NamespacesAssumption, ConstantsAssumption DEF Leads, Grows, Keeps
  <2>7. \A b : \A k : Tied(st, b, k) => Tied(a, b, k)
    BY <2>4 DEF Tied, Leads, Grows, Keeps, Extends, Holds, Related
  <2>8. \A i \in 1..(n+1) : i \in 1..n \/ i = n + 1
    BY <2>1
  <2>9. \A i \in 1..(n+1) : Tied(a, order[i], Len(ledger))
    BY <2>2, <2>4, <2>7, <2>8
  <2> QED BY <2>4, <2>5, <2>6, <2>9 DEF SyncedTo
<1> HIDE DEF S
<1>3. \A n \in Nat : n \in S
  BY <1>1, <1>2, Induction DEF S
<1>4. SyncedTo(order, Len(order))
  BY <1>0, <1>3 DEF S
<1>5. \A c \in Cycles : Of(c, Len(ledger)) # {} => Tied(Synced(order), c, Len(ledger))
  <2> SUFFICES ASSUME NEW c \in Cycles, Of(c, Len(ledger)) # {}
               PROVE  Tied(Synced(order), c, Len(ledger))
    OBVIOUS
  <2>1. c \in Observed
    BY DEF Observed
  <2> QED BY <1>0, <1>4, <2>1 DEF SyncedTo, Synced
<1> QED BY <1>4, <1>5 DEF SyncedTo, Synced, SyncedThere

LEMMA SyncWorkflowKept ==
  ASSUME RecordInv, SyncWorkflow
  PROVE  RecordInv'
<1>1. PICK order \in Orders : Leaves(Synced(order))
  BY DEF SyncWorkflow
<1> PICK st, k : st = Synced(order) /\ k = Len(ledger)
  OBVIOUS
<1>2. Leads(Here, st) /\ SyncedThere(st, k)
  BY SyncSucceeds
<1>3. UNCHANGED <<drafts, proposals, ledger, receipts, life>> /\ synced' = k
  BY DEF SyncWorkflow
<1>4. Grows(Here, st) /\ AllThere(proposals, st.graph) /\ DraftsThere(drafts, st)
  BY <1>2, StillThere DEF Leads
<1>5. Previewed(st.log, drafts)
  <2>1. /\ Extends(log, st.log) /\ Harmless(log, st.log)
        /\ log \in Seq(Entry) /\ st.log \in Seq(Entry) /\ Previewed(log, drafts)
    BY <1>2, HereIs DEF Leads, Grows, Sound, RecordInv
  <2> QED BY <2>1, PreviewedKept
<1>6. k \in 0..Len(ledger) /\ Recording(receipts, proposals, life)
      /\ drafts \in [Intents -> Drafts]
  BY DEF RecordInv
<1> QED BY <1>1, <1>2, <1>3, <1>4, <1>5, <1>6, LandsAt

-----------------------------------------------------------------------------
\* A server that has started has nothing yet.
LEMMA EmptyStore ==
  ASSUME NEW st, st = [log |-> << >>, graph |-> EmptyGraph, ok |-> TRUE]
  PROVE  Sound(st)
<1>1. /\ EmptyGraph \in Graph /\ EndsIn(EmptyGraph) /\ EmptyGraph.revision = 0
  BY DEF EmptyGraph, Graph, EndsIn
<1>2. << >> \in Seq(Entry) /\ DOMAIN << >> = {}
  OBVIOUS
<1>3. Counted(<< >>, 0) /\ Formed(<< >>) /\ CyclesThere(<< >>, EmptyGraph)
  BY <1>2 DEF Counted, Formed, CyclesThere
<1> QED BY <1>1, <1>2, <1>3 DEF Sound

\* What there is to say of a server without drafts and proposals.
LEMMA NothingYet ==
  ASSUME NEW ds, ds = [i \in Intents |-> None], NEW ps, ps = [p \in Proposals |-> None],
         NEW g, NEW st, NEW rs \in Seq(Receipt), NEW l \in Nat,
         \A n \in DOMAIN rs : rs[n].life < l
  PROVE  /\ ds \in [Intents -> Drafts] /\ DraftsThere(ds, st) /\ Previewed(<< >>, ds)
         /\ Recording(rs, ps, l) /\ AllThere(ps, g) /\ SyncedThere(st, 0)
<1>1. ds \in [Intents -> Drafts] /\ DraftsThere(ds, st)
  BY DEF Drafts, DraftsThere
<1>2. DOMAIN << >> = {}
  OBVIOUS
<1>3. Previewed(<< >>, ds)
  BY <1>2 DEF Previewed
<1>4. ps \in [Proposals -> Proposal \cup {None}] /\ \A p \in Proposals : ps[p] = None
  OBVIOUS
<1>5. \A n \in DOMAIN rs : rs[n].life \in Nat
  <2>1. \A n \in DOMAIN rs : rs[n] \in Receipt
    OBVIOUS
  <2> QED BY <2>1 DEF Receipt
<1>6. \A n \in DOMAIN rs : rs[n].life <= l /\ rs[n].life # l
  BY <1>5
<1>7. Recording(rs, ps, l)
  BY <1>4, <1>6 DEF Recording
<1> QED BY <1>1, <1>3, <1>4, <1>7 DEF AllThere, SyncedThere

LEMMA RecordInit == GovInit => RecordInv
<1> SUFFICES ASSUME GovInit PROVE RecordInv
  OBVIOUS
<1>1. /\ log = << >> /\ graph = EmptyGraph /\ receipts = << >> /\ ledger = << >>
      /\ life = 1 /\ synced = 0
      /\ drafts = [i \in Intents |-> None] /\ proposals = [p \in Proposals |-> None]
  BY DEF GovInit, StartServer
<1>2. Sound(Here)
  BY <1>1, EmptyStore DEF Here, Store
<1>3. receipts \in Seq(Receipt) /\ DOMAIN receipts = {} /\ life \in Nat
  BY <1>1
<1>4. \A n \in DOMAIN receipts : receipts[n].life < life
  BY <1>3
<1>5. /\ drafts \in [Intents -> Drafts] /\ DraftsThere(drafts, Here)
      /\ Previewed(<< >>, drafts) /\ Recording(receipts, proposals, life)
      /\ AllThere(proposals, graph) /\ SyncedThere(Here, 0)
  BY <1>1, <1>3, <1>4, NothingYet
<1>6. ledger \in Seq(Cycles) /\ Len(ledger) <= MaxLedger /\ synced \in 0..Len(ledger)
  BY <1>1, SyncAssumption
<1> QED BY <1>1, <1>2, <1>5, <1>6 DEF RecordInv

\* A restart empties both the log and what is recorded here of SDDK's receipts,
\* all of which are from then on of an earlier life.
LEMMA RestartKept ==
  ASSUME RecordInv, Restart
  PROVE  RecordInv'
<1> PICK st, ds, ps, l : /\ st = [log |-> << >>, graph |-> EmptyGraph, ok |-> TRUE]
                         /\ ds = [i \in Intents |-> None]
                         /\ ps = [p \in Proposals |-> None] /\ l = life + 1
  OBVIOUS
<1>1. /\ log' = << >> /\ graph' = EmptyGraph /\ life' = l /\ synced' = 0
      /\ receipts' = receipts /\ ledger' = ledger /\ drafts' = ds /\ proposals' = ps
  BY DEF Restart
<1>2. Here' = st /\ Sound(st)
  BY <1>1, EmptyStore DEF Here, Store
<1>3. /\ receipts \in Seq(Receipt) /\ life \in Nat
      /\ \A n \in DOMAIN receipts : receipts[n].life <= life
  BY DEF RecordInv, Recording
<1>4. \A n \in DOMAIN receipts : receipts[n].life < l
  <2>1. \A n \in DOMAIN receipts : receipts[n] \in Receipt
    BY <1>3
  <2>2. \A n \in DOMAIN receipts : receipts[n].life \in Nat
    BY <2>1 DEF Receipt
  <2> QED BY <1>3, <2>2
<1>5. /\ ds \in [Intents -> Drafts] /\ DraftsThere(ds, st) /\ Previewed(<< >>, ds)
      /\ Recording(receipts, ps, l) /\ AllThere(ps, EmptyGraph)
  <2> PICK rs, g : rs = receipts /\ g = EmptyGraph
    OBVIOUS
  <2>1. rs \in Seq(Receipt) /\ l \in Nat /\ \A n \in DOMAIN rs : rs[n].life < l
    BY <1>3, <1>4
  <2>2. /\ ds \in [Intents -> Drafts] /\ DraftsThere(ds, st) /\ Previewed(<< >>, ds)
        /\ Recording(rs, ps, l) /\ AllThere(ps, g)
    BY <2>1, NothingYet
  <2> QED BY <2>2
<1>6. ledger \in Seq(Cycles) /\ Len(ledger) <= MaxLedger /\ 0 \in 0..Len(ledger)
  BY DEF RecordInv
<1>7. SyncedThere(Here, synced)'
  BY <1>1 DEF SyncedThere
<1> QED BY <1>1, <1>2, <1>5, <1>6, <1>7 DEF RecordInv

\* SDDK's ledger only grows behind the last sync.
LEMMA SddkCommitsKept ==
  ASSUME RecordInv, NEW c \in Cycles, SddkCommits(c)
  PROVE  RecordInv'
<1>1. /\ ledger' \in Seq(Cycles) /\ Len(ledger') = Len(ledger) + 1 /\ Len(ledger) \in Nat
      /\ \A n \in 1..Len(ledger) : ledger'[n] = ledger[n]
  BY DEF SddkCommits, RecordInv
<1>2. Len(ledger') <= MaxLedger
  BY <1>1, SyncAssumption DEF SddkCommits
<1>3. UNCHANGED <<log, graph, drafts, proposals, receipts, life, synced>>
  BY DEF SddkCommits
<1>4. Here' = Here
  BY <1>3 DEF Here
<1>5. SyncedThere(Here, synced)'
  <2> PICK k, h : k = synced /\ h = Here
    OBVIOUS
  <2>1. k \in Nat /\ k <= Len(ledger) /\ \A n \in 1..k : n \in 1..Len(ledger)
    BY <1>1 DEF RecordInv
  <2>2. \A b : Of(b, k)' = Of(b, k)
    BY <1>1, <2>1 DEF Of
  <2>3. SyncedThere(h, k)
    BY DEF RecordInv
  <2>4. synced' = k /\ Here' = h
    BY <1>3, <1>4
  <2> QED BY <2>2, <2>3, <2>4 DEF SyncedThere, Tied
<1>6. synced' \in 0..Len(ledger')
  BY <1>1, <1>3 DEF RecordInv
<1>7. /\ Sound(Here)' /\ DraftsThere(drafts, Here)'
      /\ Recording(receipts, proposals, life)' /\ AllThere(proposals, graph)'
      /\ (drafts \in [Intents -> Drafts])' /\ Previewed(log, drafts)'
  BY <1>3, <1>4 DEF RecordInv
<1> QED BY <1>1, <1>2, <1>5, <1>6, <1>7 DEF RecordInv

LEMMA PostEventKept ==
  ASSUME RecordInv, NEW e \in Events, PostEvent(e)
  PROVE  RecordInv'
<1> PICK here, a : here = Here /\ a = AppendTo(here, e)
  OBVIOUS
<1>1. WellFormed(e) /\ Sound(here) /\ Owned(e)
  BY HereIs, OwnEvents, ConstantsAssumption
<1>2. ~Applying(e)
  BY ConstantsAssumption DEF Applying
<1>3. Leads(here, a)
  BY <1>1, <1>2, AppendedQuietly
<1> QED BY <1>3, LandsQuietly DEF PostEvent

LEMMA RecordInvNext ==
  ASSUME RecordInv, [GovNext]_govVars
  PROVE  RecordInv'
<1>1. ASSUME NEW gesture \in Gestures, DraftIntent(gesture[1], gesture[2])
      PROVE  RecordInv'
  BY <1>1, DraftIntentKept
<1>2. ASSUME NEW i \in Intents, PromoteStale(i) \/ PromoteRefused(i) \/ Discard(i)
      PROVE  RecordInv'
  BY <1>2, PromoteKept
<1>12. ASSUME NEW i \in Intents, PromoteApply(i)
      PROVE  RecordInv'
  BY <1>12, ApplyKept
<1>3. GatewayAnswers \subseteq {"allowed", "refused", "failed"}
  BY DEF GatewayAnswers
<1>4. ASSUME NEW i \in Intents, NEW answer \in GatewayAnswers, PromoteSubmit(i, answer)
      PROVE  RecordInv'
  BY <1>3, <1>4, PromoteSubmitKept
<1>5. ASSUME NEW i \in Intents, NEW e \in Evaluations, NEW answer \in GatewayAnswers,
             PullUpFor(i, Project, e, answer)
      PROVE  RecordInv'
  BY <1>3, <1>5, PullUpForKept
<1>6. ASSUME NEW e \in Evaluations, NEW answer \in GatewayAnswers,
             PullUpDrafting(Project, e, answer)
      PROVE  RecordInv'
  BY <1>3, <1>6, PullUpDraftingKept
<1>7. CASE SyncWorkflow
  BY <1>7, SyncWorkflowKept
<1>8. ASSUME NEW c \in Cycles, SddkCommits(c)
      PROVE  RecordInv'
  BY <1>8, SddkCommitsKept
<1>9. ASSUME NEW e \in Events, PostEvent(e)
      PROVE  RecordInv'
  BY <1>9, PostEventKept
<1>10. CASE Restart
  BY <1>10, RestartKept
<1>11. CASE UNCHANGED govVars
  <2>1. UNCHANGED <<drafts, proposals, ledger, receipts, life, synced>> /\ Leaves(Here)
    BY <1>11 DEF govVars, Leaves, Here, Store
  <2> QED BY <2>1, HereIs, LandsQuietly
<1> QED BY <1>1, <1>2, <1>12, <1>4, <1>5, <1>6, <1>7, <1>8, <1>9, <1>10, <1>11 DEF GovNext

\* Every variable has its type in every reachable state.
THEOREM GovTypeCorrect == GovSpec => []GovTypeOK
<1> DEFINE Inv == RecordInv /\ bridged \in BOOLEAN
<1>1. GovInit => Inv
  BY RecordInit DEF GovInit
<1>2. ASSUME Inv, [GovNext]_govVars PROVE Inv'
  <2>1. bridged' \in BOOLEAN
    <3>1. bridged \in BOOLEAN /\ (bridged' = bridged \/ bridged' \in BOOLEAN)
      BY <1>2 DEF GovNext, govVars, DraftIntent, PromoteStale, PromoteApply, PromoteRefused,
                 Discard, PromoteSubmit, PullUpFor, PullUpDrafting, SyncWorkflow,
                 SddkCommits, PostEvent, Restart
    <3> QED BY <3>1
  <2> QED BY <1>2, <2>1, RecordInvNext
<1>3. Inv => GovTypeOK
  <2> SUFFICES ASSUME Inv PROVE GovTypeOK
    OBVIOUS
  <2>1. log \in Seq(Entry) /\ graph \in Graph
    BY HereIs
  <2> QED BY <2>1 DEF GovTypeOK, RecordInv, Recording, Drafts
<1> QED BY <1>1, <1>2, <1>3, PTL DEF GovSpec

\* Of the receipts SDDK issued in this life of the server each is in exactly one
\* proposal, about the same intent, except those for intents that were never
\* drafted; and no proposal claims a receipt that SDDK did not give: whatever is
\* promoted, pulled up, synced or posted in whatever order, for any answers of
\* SDDK's gateway and any restarts.
THEOREM ReceiptsAlwaysRecorded == GovSpec => []ReceiptsRecorded
<1>1. RecordInv => ReceiptsRecorded
  BY RecordingShown DEF RecordInv
<1> QED BY <1>1, RecordInit, RecordInvNext, PTL DEF GovSpec


LEMMA ForeseenShown ==
  ASSUME RecordInv
  PROVE  AppliedAsPreviewed
<1> SUFFICES ASSUME NEW n \in DOMAIN log, log[n].event.id = FreshId
             PROVE  /\ Kind(n) = "patch-applied" =>
                         n < Len(log) /\ Kind(n+1) = "intent-promoted"
                         /\ StatusSet(n+1) = "applied"
                    /\ Kind(n) = "intent-promoted" /\ StatusSet(n) = "applied" =>
                         LET i == log[n].event.subject IN
                           /\ n > 1 /\ Kind(n-1) = "patch-applied"
                           /\ log[n-1].event.ops = drafts[i].change
                           /\ \E d \in 1..(n-2) :
                                /\ Kind(d) = "intent-drafted" /\ log[d].event.subject = i
                                /\ \A k \in (d+1)..(n-2) : Kind(k) = "patch-rejected"
  BY DEF AppliedAsPreviewed, Made
<1>1. /\ log[n].event.kind = "patch-applied" => n < Len(log) /\ Outcome(log, n+1)
      /\ Outcome(log, n) => Foreseen(log, n, log[n].event.subject,
                                     drafts[log[n].event.subject].change)
  BY DEF RecordInv, Previewed
<1> QED BY <1>1 DEF Outcome, Foreseen, Kind, StatusSet

\* A promoted change enters the graph only as the very next revision after its
\* draft, with its outcome directly behind it, and none says "applied" of a
\* change that is not there: for any graph, patches and events of other clients,
\* in whatever order intents are promoted, discarded and pulled up.
THEOREM PromotionsAsPreviewed == GovSpec => []AppliedAsPreviewed
<1>1. RecordInv => AppliedAsPreviewed
  BY ForeseenShown
<1> QED BY <1>1, RecordInit, RecordInvNext, PTL DEF GovSpec

\* A cycle that is tied to the project as the ledger has it gets no event.
LEMMA SyncCycleIdle ==
  ASSUME NEW st, NEW c, Tied(st, c, Len(ledger))
  PROVE  SyncCycle(st, c) = st
<1> PICK e, n : e = SyncEvent(st, c) /\ n = Newest(Of(c, Len(ledger)))
  OBVIOUS
<1>1. e.id = SyncId(c, n)
  BY DEF SyncEvent, EventOf
<1>2. AppendOnce(st, e) = st
  BY <1>1 DEF Tied, AppendOnce
<1>3. Derived(st, c) = st
  BY DEF Tied, Derived
<1> QED BY <1>2, <1>3 DEF SyncCycle

LEMMA IdleShown ==
  ASSUME RecordInv
  PROVE  SyncIdempotent
<1> SUFFICES ASSUME synced = Len(ledger), synced > 0, NEW order \in Orders
             PROVE  Synced(order).log = log
  BY DEF SyncIdempotent
<1>0. Len(order) \in Nat /\ \A n \in 1..Len(order) : order[n] \in Observed
  BY OrderForm DEF RecordInv
<1>1. /\ Exists(Here.graph, Project)
      /\ \A c \in Observed : Tied(Here, c, Len(ledger))
  BY DEF RecordInv, SyncedThere, Observed
<1> DEFINE S == {n \in Nat : n <= Len(order) => SyncRuns(order)[n] = Here}
<1>2. 0 \in S
  BY <1>0, <1>1, SyncRunsUnfold DEF Materialised
<1>3. ASSUME NEW n \in S PROVE n + 1 \in S
  <2> SUFFICES ASSUME n + 1 <= Len(order) PROVE SyncRuns(order)[n+1] = Here
    OBVIOUS
  <2>1. n + 1 \in 1..Len(order) /\ (n + 1) - 1 = n /\ n <= Len(order)
    BY <1>0
  <2>2. SyncRuns(order)[n+1] = SyncCycle(Here, order[n+1])
    BY <1>0, <2>1, SyncRunsUnfold
  <2>3. Tied(Here, order[n+1], Len(ledger))
    BY <1>0, <1>1, <2>1
  <2> QED BY <2>2, <2>3, SyncCycleIdle
<1> HIDE DEF S
<1>4. \A n \in Nat : n \in S
  BY <1>2, <1>3, Induction DEF S
<1>5. Synced(order) = Here
  BY <1>0, <1>4 DEF S, Synced
<1> QED BY <1>5, HereIs

\* A sync that finds nothing new in SDDK's ledger appends nothing: for any
\* ledger, in any order of its cycles, whatever happened to the graph since the
\* last sync of this life.
THEOREM SyncAlwaysIdempotent == GovSpec => []SyncIdempotent
<1>1. RecordInv => SyncIdempotent
  BY IdleShown
<1> QED BY <1>1, RecordInit, RecordInvNext, PTL DEF GovSpec

-----------------------------------------------------------------------------
(* What the log says of a cursor, and what a handler leaves of a status.    *)

\* Of a property that an event does not write all its steps are silent.
LEMMA UnwrittenIsSilent ==
  ASSUME NEW e, WellFormed(e), NEW s \in Subjects, NEW key \in PropKeys, ~Writes(e, s, key)
  PROVE  \A j \in DOMAIN Steps(e) : Silent(Steps(e)[j], s, key)
<1>0. NoProps[key] = Unset
  BY DEF NoProps
<1>1. CASE e.kind # "patch-applied"
  <2> PICK steps : steps = Steps(e)
    OBVIOUS
  <2>1. Says(steps, e.subject, e.props)
    BY <1>1, EventSays
  <2>2. e.subject # s \/ e.props[key] = Unset
    BY DEF Writes
  <2>3. \A j \in DOMAIN steps : Silent(steps[j], s, key)
    BY <1>0, <2>1, <2>2 DEF Says, Silent
  <2> QED BY <2>3
<1>2. CASE e.kind = "patch-applied"
  <2> PICK ops : ops = e.ops
    OBVIOUS
  <2>1. Steps(e) = ops
    BY <1>2 DEF Steps, WorldSteps
  <2> SUFFICES ASSUME NEW j \in DOMAIN ops PROVE Silent(ops[j], s, key)
    BY <2>1
  <2> PICK st : st = ops[j]
    OBVIOUS
  <2>2. IsOperation(st)
    BY DEF WellFormed
  <2>3. st.op = "upsert" => st.subject # s \/ st.props[key] = Unset
    BY <1>2 DEF Writes
  <2>4. st.op = "declare" => IsRelationStep(st)
    BY DEF IsRelationStep
  <2> QED BY <1>0, <2>2, <2>3, <2>4 DEF IsOperation, Silent
<1> QED BY <1>1, <1>2

\* The property that an event of the log has written is there after replaying
\* it, if no later one writes it.
LEMMA CursorReplayed ==
  ASSUME NEW l, l \in Seq(Entry), Formed(l), NEW c \in Cycles, NEW n \in 1..MaxLedger,
         NEW k \in DOMAIN l, l[k].event.id = SyncId(c, n),
         \A j \in (k+1)..Len(l) : ~Writes(l[j].event, c, Cursor),
         Replayed(l).ok
  PROVE  Replayed(l).graph.subjects[c].props[Cursor] = Sequence(n)
<1> DEFINE R(j) == Replays(l)[j]
           Has(q) == Exists(q.graph, c) /\ q.graph.subjects[c].props[Cursor] = Sequence(n)
           T == {j \in Nat : j <= Len(l) => R(j) \in Result}
           S == {j \in Nat : k + j <= Len(l) => (R(k+j).ok => Has(R(k+j)))}
<1>0. /\ Len(l) \in Nat /\ DOMAIN l = 1..Len(l) /\ k \in 1..Len(l)
      /\ c \in Subjects /\ Cursor \in PropKeys
      /\ \A j \in 1..Len(l) : WellFormed(l[j].event)
  BY NamespacesAssumption, ConstantsAssumption, GovernanceAssumption DEF Formed
<1>1. /\ R(0) = Ran(TRUE, EmptyGraph)
      /\ \A j \in 1..Len(l) : R(j) = ApplyEvent(R(j-1), l[j].event, j - 1)
  BY <1>0, ReplaysUnfold
<1>2. R(Len(l)) = Replayed(l)
  BY DEF Replayed
<1> HIDE DEF R
<1>3. \A j \in Nat : j \in T
  <2>1. 0 \in T
    <3>1. EmptyGraph \in Graph
      BY DEF EmptyGraph, Graph
    <3> PICK q, g : q = R(0) /\ g = EmptyGraph
      OBVIOUS
    <3>2. q = Ran(TRUE, g) /\ g \in Graph
      BY <1>1, <3>1
    <3>3. q \in Result
      BY ONLY <3>2 DEF Ran, Result
    <3> QED BY <3>3
  <2>2. ASSUME NEW j \in T PROVE j + 1 \in T
    <3> SUFFICES ASSUME j + 1 <= Len(l) PROVE R(j+1) \in Result
      OBVIOUS
    <3>1. j \in Nat /\ j + 1 \in 1..Len(l) /\ (j + 1) - 1 = j /\ R(j) \in Result
      BY <1>0
    <3>2. R(j+1) = ApplyEvent(R(j), l[j+1].event, j)
      BY <1>1, <3>1
    <3> QED BY <1>0, <3>1, <3>2, EventApplied
  <2> HIDE DEF T
  <2>3. T \in SUBSET Nat
    BY DEF T
  <2> QED BY <2>1, <2>2, <2>3, Induction
<1>4. \A j \in 0..Len(l) : R(j) \in Result
  BY <1>0, <1>3 DEF T
<1>5. ASSUME R(k).ok PROVE Has(R(k))
  <2> PICK q, e, p : q = R(k-1) /\ e = l[k].event /\ p = Prop(Cursor, Sequence(n))
    OBVIOUS
  <2>1. q \in Result /\ k - 1 \in Nat /\ R(k) = ApplyEvent(q, e, k - 1)
    BY <1>0, <1>1, <1>4
  <2>2. /\ WellFormed(e) /\ e.subject = c /\ e.props = p
        /\ e.kind \in {"subject-defined", "subject-updated"}
    BY DEF Formed, Owned
  <2>3. p[Cursor] = Sequence(n) /\ p[Cursor] # Unset
    <3>1. Sequence(n) \in PropValues
      BY GovernanceAssumption
    <3> QED BY <1>0, <3>1, ConstantsAssumption DEF Prop
  <2>4. RunSteps(q.graph, Steps(e), k - 1).ok
    BY <1>5, <2>1 DEF ApplyEvent, Ran
  <2> QED BY <1>0, <2>1, <2>2, <2>3, <2>4, SubjectEventWrites
<1>6. 0 \in S
  BY <1>0, <1>5
<1>7. ASSUME NEW j \in S PROVE j + 1 \in S
  <2> SUFFICES ASSUME k + (j + 1) <= Len(l), R(k + (j + 1)).ok
               PROVE  Has(R(k + (j + 1)))
    OBVIOUS
  <2> PICK q, m, e : q = R(k+j) /\ m = k + j /\ e = l[m+1].event
    OBVIOUS
  <2>1. /\ m \in Nat /\ m \in 0..Len(l) /\ m + 1 \in 1..Len(l) /\ (m + 1) - 1 = m
        /\ k + (j + 1) = m + 1 /\ m + 1 \in (k+1)..Len(l) /\ m <= Len(l)
    BY <1>0
  <2>2. R(m+1) = ApplyEvent(q, e, m) /\ q \in Result /\ WellFormed(e)
    BY <1>0, <1>1, <1>4, <2>1
  <2>3. q.ok
    BY <2>1, <2>2 DEF ApplyEvent, Ran
  <2>4. Has(q)
    BY <2>1, <2>3
  <2>5. ~Writes(e, c, Cursor)
    BY <2>1
  <2>6. \A i \in DOMAIN Steps(e) : Silent(Steps(e)[i], c, Cursor)
    BY <1>0, <2>2, <2>5, UnwrittenIsSilent
  <2>7. Exists(q.graph, c)
    BY <2>4
  <2> HIDE DEF S
  <2>8. LET h == ApplyEvent(q, e, m).graph
        IN Exists(h, c) /\ h.subjects[c].props[Cursor] = q.graph.subjects[c].props[Cursor]
    <3>1. q \in Result /\ WellFormed(e) /\ m \in Nat /\ c \in Subjects /\ Cursor \in PropKeys
      BY <1>0, <2>1, <2>2
    <3> QED BY ONLY <2>6, <2>7, <3>1, EventSilent
  <2> QED BY <2>1, <2>2, <2>4, <2>8
<1> HIDE DEF S, Has
<1>8. \A j \in Nat : j \in S
  <2>1. S \in SUBSET Nat
    BY DEF S
  <2> QED BY <1>6, <1>7, <2>1, Induction
<1>9. R(Len(l)).ok => Has(R(Len(l)))
  <2>1. Len(l) - k \in Nat /\ k + (Len(l) - k) = Len(l)
    BY <1>0
  <2>2. Len(l) - k \in S
    BY <1>8, <2>1
  <2> QED BY <1>0, <2>1, <2>2 DEF S
<1> QED BY <1>2, <1>9 DEF Has

LEMMA SyncShown ==
  ASSUME RecordInv
  PROVE  SyncReflectsLedger
<1> SUFFICES ASSUME NEW c \in Cycles, Of(c, synced) # {},
                    NEW n, n = Newest(Of(c, synced))
             PROVE  /\ Exists(graph, c) /\ Related(graph, FromProject(c))
                    /\ \E k \in DOMAIN log :
                         /\ log[k].event.id = SyncId(c, n)
                         /\ \/ graph.subjects[c].props[Cursor] = Sequence(n)
                            \/ Overwritten(c, k)
                            \/ ~Accounted(c)
  BY DEF SyncReflectsLedger
<1>1. /\ synced \in Nat /\ Len(ledger) \in Nat /\ synced <= Len(ledger)
      /\ Len(ledger) <= MaxLedger /\ SyncedThere(Here, synced) /\ MaxLedger \in Nat
  BY SyncAssumption DEF RecordInv
<1>2. n \in 1..MaxLedger /\ synced > 0
  <2> PICK N : N = Of(c, synced)
    OBVIOUS
  <2>1. N \in SUBSET Nat /\ N # {} /\ \A m \in N : m <= synced /\ m \in 1..synced
    BY <1>1 DEF Of
  <2>2. n \in N
    BY <1>1, <2>1, NewestIsThere
  <2> QED BY <1>1, <2>1, <2>2
<1>3. Tied(Here, c, synced)
  BY <1>1, <1>2 DEF SyncedThere
<1>4. Related(graph, FromProject(c))
  BY <1>3, HereIs DEF Tied
<1>5. PICK k \in DOMAIN log : log[k].event.id = SyncId(c, n)
  BY <1>3, HereIs DEF Tied, Holds
<1>6. Formed(log) /\ CyclesThere(log, graph) /\ log \in Seq(Entry)
  BY HereIs DEF Sound
<1>7. Exists(graph, c)
  BY <1>2, <1>5, <1>6 DEF CyclesThere, About
<1>8. ASSUME ~Overwritten(c, k), Accounted(c)
      PROVE  graph.subjects[c].props[Cursor] = Sequence(n)
  <2>1. \A j \in (k+1)..Len(log) : ~Writes(log[j].event, c, Cursor)
    BY <1>8 DEF Overwritten
  <2>2. Replayed(log).ok
    BY <1>8 DEF Accounted
  <2> PICK l : l = log
    OBVIOUS
  <2>3. Replayed(l).graph.subjects[c].props[Cursor] = Sequence(n)
    BY <1>2, <1>5, <1>6, <2>1, <2>2, CursorReplayed
  <2> QED BY <1>8, <2>3 DEF Accounted
<1> QED BY <1>4, <1>5, <1>7, <1>8

\* After a sync every cycle of the ledger is in the graph, tied to the project,
\* with the event of its newest ledger entry in the log and a cursor that is as
\* new as the ledger was then, unless someone else has written it since: for any
\* ledger, patches and events of other clients, over any restarts.
THEOREM SyncAlwaysReflects == GovSpec => []SyncReflectsLedger
<1>1. RecordInv => SyncReflectsLedger
  BY SyncShown
<1> QED BY <1>1, RecordInit, RecordInvNext, PTL DEF GovSpec

-----------------------------------------------------------------------------
(* The status of an intent through what handlers append.                    *)

StatusIn(st, i) == st.graph.subjects[i].props[Status]

\* The handler's store a has intent i with the status it has in st.
SameStatus(st, a, i) ==
  Sound(a) /\ Exists(a.graph, i) /\ StatusIn(a, i) = StatusIn(st, i)

LEMMA AppendSame ==
  ASSUME NEW st, Sound(st), NEW i \in Intents, Exists(st.graph, i),
         NEW e, WellFormed(e), Owned(e), ~Writes(e, i, Status)
  PROVE  SameStatus(st, AppendTo(st, e), i)
<1> PICK a, g, n : a = AppendTo(st, e) /\ g = st.graph /\ n = Len(st.log)
  OBVIOUS
<1>1. /\ i \in Subjects /\ Status \in PropKeys
      /\ g \in Graph /\ n \in Nat /\ st = [log |-> st.log, graph |-> g, ok |-> st.ok]
  BY NamespacesAssumption, GovernanceAssumption DEF Sound
<1>2. Sound(a) /\ Exists(a.graph, i)
  BY <1>1, Appended DEF Grows, Keeps
<1>3. CASE ~st.ok \/ Holds(st, e.id)
  <2>1. a.graph = g
    BY <1>1, <1>3 DEF AppendTo
  <2> QED BY <1>2, <2>1 DEF SameStatus, StatusIn
<1>4. CASE st.ok /\ ~Holds(st, e.id)
  <2> PICK q : q = Ran(TRUE, g)
    OBVIOUS
  <2>1. q \in Result /\ q.graph = g
    BY <1>1 DEF Ran, Result
  <2>2. a.graph = ApplyEvent(q, e, n).graph
    BY <1>4 DEF AppendTo
  <2>3. \A j \in DOMAIN Steps(e) : Silent(Steps(e)[j], i, Status)
    BY <1>1, UnwrittenIsSilent
  <2>4. LET h == ApplyEvent(q, e, n).graph
        IN h.subjects[i].props[Status] = q.graph.subjects[i].props[Status]
    <3>1. Exists(q.graph, i)
      BY <2>1
    <3> QED BY ONLY <1>1, <2>1, <2>3, <3>1, WellFormed(e), EventSilent
  <2> QED BY <1>2, <2>1, <2>2, <2>4 DEF SameStatus, StatusIn
<1> QED BY <1>3, <1>4

LEMMA SameItself ==
  ASSUME NEW st, Sound(st), NEW i, Exists(st.graph, i)
  PROVE  SameStatus(st, st, i)
  BY DEF SameStatus

LEMMA SameThrough ==
  ASSUME NEW q, NEW r, NEW st, NEW i, SameStatus(q, r, i), SameStatus(r, st, i)
  PROVE  SameStatus(q, st, i)
  BY DEF SameStatus

\* An event of the server that writes no property, or one of another subject.
LEMMA OwnAppendSame ==
  ASSUME NEW st, Sound(st), NEW i \in Intents, Exists(st.graph, i),
         NEW e, WellFormed(e), e.id = FreshId, e.kind # "patch-applied",
         e.subject # i \/ e.props = NoProps
  PROVE  SameStatus(st, AppendTo(st, e), i)
<1>1. NoProps[Status] = Unset
  BY GovernanceAssumption DEF NoProps
<1>2. ~Writes(e, i, Status) /\ Owned(e)
  BY <1>1, OwnEvents DEF Writes
<1> QED BY <1>2, AppendSame

LEMMA StatusProps ==
  ASSUME NEW status \in Statuses
  PROVE  Prop(Status, status) \in Properties /\ Prop(Status, status)[Status] = status
BY GovernanceAssumption DEF Prop, Properties

LEMMA RecordSame ==
  ASSUME NEW st, Sound(st), NEW i \in Intents, Exists(st.graph, i),
         NEW j \in Intents, j # i, NEW status \in Statuses
  PROVE  SameStatus(st, Record(st, j, status), i)
<1> PICK p, e : p = Prop(Status, status) /\ e = EventOf("intent-promoted", j, NoSubject, p)
  OBVIOUS
<1>1. j \in Subjects /\ p \in Properties
  BY StatusProps, NamespacesAssumption
<1>2. WellFormed(e) /\ e.id = FreshId /\ e.kind = "intent-promoted" /\ e.subject = j
  BY <1>1, EventOfForm DEF EventKind, NeedsOther
<1>3. SameStatus(st, AppendTo(st, e), i)
  BY <1>2, OwnAppendSame
<1> QED BY <1>3 DEF Record

LEMMA RefusalSame ==
  ASSUME NEW st, Sound(st), NEW i \in Intents, Exists(st.graph, i),
         NEW base, NEW ops, ~Valid(st.graph, base, ops)
  PROVE  SameStatus(st, Propose(st, base, ops), i)
<1> PICK none, e : none = << >> /\ e = PatchEvent("patch-rejected", none)
  OBVIOUS
<1>1. /\ WellFormed(e) /\ e.id = FreshId /\ e.kind = "patch-rejected" /\ e.props = NoProps
  <2>1. none \in Seq(Step) /\ \A k \in DOMAIN none : IsOperation(none[k])
    OBVIOUS
  <2> QED BY <2>1, PatchEvents DEF PatchEvent
<1>2. SameStatus(st, AppendTo(st, e), i)
  BY <1>1, OwnAppendSame
<1> QED BY <1>2 DEF Propose

LEMMA SubmitSame ==
  ASSUME NEW st, Sound(st), NEW i \in Intents, Exists(st.graph, i),
         NEW p \in Proposals, NEW j \in Intents, NEW t \in Subjects
  PROVE  SameStatus(st, SubmitEvent(st, p, j, t), i)
<1> PICK e : e = SubmissionEvent(p, j, t)
  OBVIOUS
<1>1. /\ WellFormed(e) /\ e.id = FreshId /\ e.kind = "sddk-proposal-submitted"
      /\ e.props = NoProps
  BY SubmissionForm
<1>2. SameStatus(st, AppendTo(st, e), i)
  BY <1>1, OwnAppendSame
<1> QED BY <1>2 DEF SubmitEvent, SubmissionEvent

LEMMA MaterialisedSame ==
  ASSUME NEW st, Sound(st), NEW i \in Intents, Exists(st.graph, i), NEW t \in Subjects
  PROVE  SameStatus(st, Materialised(st, t), i)
<1>1. CASE Exists(st.graph, t)
  BY <1>1, SameItself DEF Materialised
<1>2. CASE ~Exists(st.graph, t)
  <2> PICK e : e = EventOf("subject-defined", t, NoSubject, NoProps)
    OBVIOUS
  <2>1. WellFormed(e) /\ e.id = FreshId /\ e.kind = "subject-defined" /\ e.props = NoProps
    BY EventOfForm, PropsType DEF EventKind, NeedsOther
  <2>2. SameStatus(st, AppendTo(st, e), i)
    BY <2>1, OwnAppendSame
  <2> QED BY <1>2, <2>2 DEF Materialised
<1> QED BY <1>1, <1>2

\* draft_intent defines an intent that was not there.
LEMMA DraftedSame ==
  ASSUME NEW st, Sound(st), NEW i \in Intents, Exists(st.graph, i),
         NEW j \in Intents, ~Exists(st.graph, j), NEW t \in Subjects
  PROVE  SameStatus(st, Drafted(st, j, t), i)
<1> PICK p, e : p = Prop(Status, "draft") /\ e = EventOf("intent-drafted", j, t, p)
  OBVIOUS
<1>1. j \in Subjects /\ p \in Properties
  BY StatusProps, NamespacesAssumption DEF Statuses
<1>2. WellFormed(e) /\ e.id = FreshId /\ e.kind = "intent-drafted" /\ e.subject = j
  BY <1>1, EventOfForm DEF EventKind, NeedsOther
<1>3. SameStatus(st, AppendTo(st, e), i)
  BY <1>2, OwnAppendSame
<1> QED BY <1>3 DEF Drafted

\* A cycle is of another namespace than an intent.
LEMMA SyncCycleSame ==
  ASSUME NEW st, Sound(st), NEW i \in Intents, Exists(st.graph, i), NEW c \in Observed,
         ledger \in Seq(Cycles), Len(ledger) <= MaxLedger
  PROVE  SameStatus(st, SyncCycle(st, c), i)
<1> PICK e, f, q, a : /\ e = SyncEvent(st, c) /\ f = DerivedEvent(c)
                      /\ q = AppendOnce(st, e) /\ a = SyncCycle(st, c)
  OBVIOUS
<1>0. c \in Cycles /\ c # i
  BY NamespacesAssumption DEF Observed
<1>1. SameStatus(st, q, i)
  <2>1. WellFormed(e) /\ Owned(e) /\ e.subject = c
        /\ e.kind \in {"subject-updated", "subject-defined"}
    <3>1. /\ WellFormed(e) /\ Owned(e) /\ e.subject = c
          /\ e.kind = IF Exists(st.graph, c) THEN "subject-updated" ELSE "subject-defined"
      BY SyncEventForm
    <3> QED BY <3>1
  <2>2. ~Writes(e, i, Status)
    BY <1>0, <2>1 DEF Writes
  <2>3. SameStatus(st, AppendTo(st, e), i)
    BY <2>1, <2>2, AppendSame
  <2> QED BY <2>3, SameItself DEF AppendOnce
<1>2. Sound(q) /\ Exists(q.graph, i)
  BY <1>1 DEF SameStatus
<1>3. SameStatus(q, AppendTo(q, f), i)
  <2>1. /\ WellFormed(f) /\ f.id = FreshId /\ f.kind = "relation-declared"
        /\ f.props = NoProps
    BY <1>0, DerivedForm DEF DerivedEvent, EventOf
  <2> QED BY <1>2, <2>1, OwnAppendSame
<1>4. SameStatus(q, a, i)
  BY <1>2, <1>3, SameItself DEF SyncCycle, Derived, DerivedEvent
<1> QED BY <1>1, <1>4, SameThrough

LEMMA SyncedSame ==
  ASSUME RecordInv, NEW order \in Orders, NEW i \in Intents, Exists(graph, i)
  PROVE  SameStatus(Here, Synced(order), i)
<1> DEFINE S == {n \in Nat : n <= Len(order) => SameStatus(Here, SyncRuns(order)[n], i)}
<1>0. /\ Len(order) \in Nat /\ \A n \in 1..Len(order) : order[n] \in Observed
      /\ ledger \in Seq(Cycles) /\ Len(ledger) <= MaxLedger
  BY OrderForm DEF RecordInv
<1>1. 0 \in S
  <2>1. SyncRuns(order)[0] = Materialised(Here, Project)
    BY <1>0, SyncRunsUnfold
  <2>2. Project \in Subjects /\ Exists(Here.graph, i) /\ Sound(Here)
    BY HereIs, NamespacesAssumption, ConstantsAssumption
  <2>3. SameStatus(Here, Materialised(Here, Project), i)
    BY <2>2, MaterialisedSame
  <2> QED BY <2>1, <2>3
<1>2. ASSUME NEW n \in S PROVE n + 1 \in S
  <2> SUFFICES ASSUME n + 1 <= Len(order) PROVE SameStatus(Here, SyncRuns(order)[n+1], i)
    OBVIOUS
  <2>1. n \in Nat /\ n + 1 \in 1..Len(order) /\ (n + 1) - 1 = n /\ n <= Len(order)
    BY <1>0
  <2> PICK st, c, a : st = SyncRuns(order)[n] /\ c = order[n+1] /\ a = SyncRuns(order)[n+1]
    OBVIOUS
  <2>2. a = SyncCycle(st, c) /\ c \in Observed
    BY <1>0, <2>1, SyncRunsUnfold
  <2>3. SameStatus(Here, st, i)
    BY <2>1
  <2>4. SameStatus(st, a, i)
    BY <1>0, <2>2, <2>3, SyncCycleSame DEF SameStatus
  <2> QED BY <2>3, <2>4, SameThrough
<1> HIDE DEF S
<1>3. \A n \in Nat : n \in S
  <2>1. S \in SUBSET Nat
    BY DEF S
  <2> QED BY <1>1, <1>2, <2>1, Induction
<1> QED BY <1>0, <1>3 DEF S, Synced

\* What may become of a resolved intent's status.
StaysResolved(i) ==
  \/ graph'.subjects[i].props[Status] \in {StatusOf(i), "discarded"}
  \/ WrittenByOthers(i, Status)

LEMMA LeavesSame ==
  ASSUME RecordInv, NEW i, NEW st, SameStatus(Here, st, i), Leaves(st)
  PROVE  StaysResolved(i)
BY HereIs DEF SameStatus, StatusIn, Leaves, StaysResolved, StatusOf

\* discard_intent records its outcome on any intent that is there.
LEMMA DiscardRecords ==
  ASSUME NEW st, Sound(st), st.ok, NEW i \in Intents, Exists(st.graph, i)
  PROVE  StatusIn(Record(st, i, "discarded"), i) = "discarded"
<1> PICK p, e, a, q, n, u : /\ p = Prop(Status, "discarded")
                            /\ e = EventOf("intent-promoted", i, NoSubject, p)
                            /\ a = AppendTo(st, e) /\ q = Ran(TRUE, st.graph)
                            /\ n = Len(st.log) /\ u = Update(i, p)
  OBVIOUS
<1>1. i \in Subjects /\ p \in Properties /\ p[Status] = "discarded" /\ p[Status] # Unset
      /\ Status \in PropKeys
  BY StatusProps, NamespacesAssumption, GovernanceAssumption, ConstantsAssumption DEF Statuses
<1>2. /\ WellFormed(e) /\ e.id = FreshId /\ e.kind = "intent-promoted" /\ e.subject = i
      /\ e.props = p
  <2>1. /\ i \in Subjects /\ p \in Properties /\ NoSubject \in Subjects \cup {NoSubject}
        /\ e = EventOf("intent-promoted", i, NoSubject, p)
    BY <1>1
  <2>2. /\ "intent-promoted" \in EventKind \ {"sddk-proposal-submitted", "agent-run-finished"}
        /\ "intent-promoted" \notin NeedsOther
    BY DEF EventKind, NeedsOther
  <2> QED BY ONLY <2>1, <2>2, EventOfForm
<1>3. q \in Result /\ q.graph = st.graph /\ n \in Nat
  BY DEF Sound, Ran, Result
<1>4. RunSteps(q.graph, Steps(e), n).ok
  <2>1. Steps(e) = << u >>
    BY <1>2 DEF Steps, IntentSteps
  <2>2. StepOk(q.graph, u)
    BY <1>3 DEF StepOk, Update, OnSubject
  <2>3. RunSteps(q.graph, << u >>, n) = RunStep(Ran(TRUE, q.graph), u, n)
    BY ONLY ShortRuns
  <2>4. RunStep(Ran(TRUE, q.graph), u, n).ok
    BY <2>2 DEF RunStep, Ran
  <2> QED BY <2>1, <2>3, <2>4
<1>5. LET h == ApplyEvent(q, e, n).graph IN h.subjects[i].props[Status] = "discarded"
  <2>1. e.kind \in {"subject-defined", "subject-updated", "intent-promoted"}
        /\ e.props[Status] # Unset
    BY <1>1, <1>2
  <2>2. LET h == ApplyEvent(q, e, n).graph
        IN h.subjects[e.subject].props[Status] = e.props[Status]
    BY ONLY <1>1, <1>2, <1>3, <1>4, <2>1, SubjectEventWrites
  <2> QED BY <1>1, <1>2, <2>2
<1>6. a.graph = ApplyEvent(q, e, n).graph
  BY <1>2, NeverHeld DEF AppendTo
<1> QED BY <1>5, <1>6 DEF Record, StatusIn

LEMMA PromoteResolves ==
  ASSUME RecordInv, NEW i \in Intents, Exists(graph, i), StatusOf(i) # "draft",
         NEW j \in Intents, PromoteStale(j) \/ PromoteRefused(j) \/ Discard(j)
  PROVE  StaysResolved(i)
<1> PICK here : here = Here
  OBVIOUS
<1>0. Sound(here) /\ here.ok /\ here.graph = graph /\ Exists(here.graph, i)
  BY HereIs
<1>1. Promotable(j) => j # i
  BY DEF Promotable, Resolved
<1>2. CASE PromoteStale(j)
  <2>1. SameStatus(here, Record(here, j, "stale"), i)
    BY <1>0, <1>1, <1>2, RecordSame DEF PromoteStale, Statuses
  <2> QED BY <1>2, <2>1, LeavesSame DEF PromoteStale
<1>3. CASE PromoteRefused(j)
  <2> PICK status, st : /\ status = (IF Reason(j) = "must-be-governed-by-sddk"
                                     THEN "sddk-governed" ELSE "rejected")
                        /\ st = Refused(j)
    OBVIOUS
  <2>1. status \in Statuses /\ j # i
    BY <1>1, <1>3 DEF Statuses, PromoteRefused
  <2>2. SameStatus(here, st, i)
    BY <1>0, <1>3, RefusalSame DEF PromoteRefused, Refused
  <2> PICK a : a = Record(st, j, status)
    OBVIOUS
  <2>3. SameStatus(st, a, i)
    BY <2>1, <2>2, RecordSame DEF SameStatus
  <2>4. SameStatus(Here, a, i)
    BY <2>2, <2>3, SameThrough
  <2>5. Leaves(a)
    BY <1>3 DEF PromoteRefused
  <2> QED BY <2>4, <2>5, LeavesSame
<1>4. CASE Discard(j) /\ j # i
  <2>1. SameStatus(here, Record(here, j, "discarded"), i)
    BY <1>0, <1>4, RecordSame DEF Statuses
  <2> QED BY <1>4, <2>1, LeavesSame DEF Discard
<1>5. CASE Discard(j) /\ j = i
  <2> PICK a : a = Record(here, i, "discarded")
    OBVIOUS
  <2>1. StatusIn(a, i) = "discarded"
    BY <1>0, DiscardRecords
  <2>2. graph' = a.graph
    BY <1>5 DEF Discard, Leaves
  <2> QED BY <2>1, <2>2 DEF StaysResolved, StatusIn
<1> QED BY <1>2, <1>3, <1>4, <1>5

\* A change that is promoted for another intent may write the status of this one.
LEMMA ApplyResolves ==
  ASSUME RecordInv, NEW i \in Intents, Exists(graph, i), StatusOf(i) # "draft",
         NEW j \in Intents, PromoteApply(j)
  PROVE  StaysResolved(i)
<1> PICK here, ops, e, st, a : /\ here = Here /\ ops = drafts[j].change
                               /\ e = PatchEvent("patch-applied", ops)
                               /\ st = AppendTo(here, e) /\ a = Record(st, j, "applied")
  OBVIOUS
<1>0. Sound(here) /\ here.ok /\ here.graph = graph /\ Exists(here.graph, i)
  BY HereIs
<1>1. Promotable(j) /\ Current(j) /\ Valid(graph, Base(j), ops) /\ j # i
  BY DEF PromoteApply, Promotable, Resolved
<1>2. Leaves(a)
  BY <1>0, <1>1 DEF PromoteApply, Applied, Propose
<1>3. WellFormed(e) /\ Owned(e)
  <2>1. ops \in Patches \cup {<< >>}
    BY <1>1, DraftKept
  <2>2. ops \in Seq(Step) /\ \A k \in DOMAIN ops : IsOperation(ops[k])
    <3>1. CASE ops \in Patches
      BY <3>1, ConstantsAssumption
    <3>2. CASE ops = << >>
      BY <3>2
    <3> QED BY <2>1, <3>1, <3>2
  <2> QED BY <2>2, PatchEvents, OwnEvents DEF PatchEvent
<1>4. CASE Writes(e, i, Status)
  BY <1>4 DEF StaysResolved, WrittenByOthers
<1>5. CASE ~Writes(e, i, Status)
  <2>1. SameStatus(here, st, i)
    BY <1>0, <1>3, <1>5, AppendSame
  <2>2. SameStatus(st, a, i)
    BY <1>1, <2>1, RecordSame DEF SameStatus, Statuses
  <2>3. SameStatus(Here, a, i)
    BY <2>1, <2>2, SameThrough
  <2> QED BY <1>2, <2>3, LeavesSame
<1> QED BY <1>4, <1>5

\* The bridge's event is about a proposal.
LEMMA EvaluatedSame ==
  ASSUME NEW st, Sound(st), Fresh(Proposals, st.graph) # {},
         NEW i \in Intents, Exists(st.graph, i), NEW j \in Intents, NEW t \in Subjects,
         NEW answer, NEW e
  PROVE  /\ SameStatus(st, Submit(st, j, t, answer, e).store, i)
         /\ SameStatus(st, Evaluated(st, j, t, e, answer).store, i)
<1> PICK p, st2 : p = (CHOOSE s \in Fresh(Proposals, st.graph) : TRUE)
                  /\ st2 = SubmitEvent(st, p, j, t)
  OBVIOUS
<1>1. p \in Proposals
  BY DEF Fresh
<1>2. SameStatus(st, st2, i)
  BY <1>1, SubmitSame
<1>3. Submit(st, j, t, answer, e).store = st2
  BY DEF Submit, Submission
<1>4. Evaluated(st, j, t, e, answer).store = st2
  BY <1>3 DEF Evaluated, NotProposed, Submission
<1> QED BY <1>2, <1>3, <1>4

LEMMA PromoteSubmitResolves ==
  ASSUME RecordInv, NEW i \in Intents, Exists(graph, i), StatusOf(i) # "draft",
         NEW j \in Intents, NEW answer, PromoteSubmit(j, answer)
  PROVE  StaysResolved(i)
<1> PICK here, st, t : here = Here /\ st = Refused(j) /\ t = drafts[j].target
  OBVIOUS
<1>0. Sound(here) /\ here.ok /\ here.graph = graph /\ Exists(here.graph, i)
  BY HereIs
<1>1. /\ Promotable(j) /\ ~Valid(graph, Base(j), drafts[j].change) /\ j # i
      /\ Fresh(Proposals, graph) # {}
  BY DEF PromoteSubmit, Promotable, Resolved
<1>2. SameStatus(here, st, i)
  BY <1>0, <1>1, RefusalSame DEF Refused
<1>3. CASE answer = "failed"
  BY <1>2, <1>3, LeavesSame DEF PromoteSubmit
<1>4. CASE answer # "failed"
  <2> PICK sub, a : sub = Submit(st, j, t, answer, None) /\ a = Record(sub.store, j, "submitted")
    OBVIOUS
  <2>1. Adds(graph, st.graph, {})
    BY <1>0, <1>1, RefusalSucceeds DEF Refused
  <2>2. Fresh(Proposals, st.graph) # {} /\ t \in Subjects
    BY <1>1, <2>1, DraftKept, NamespacesAssumption DEF Fresh, Adds, Draft
  <2>3. SameStatus(st, sub.store, i)
    BY <1>2, <2>2, EvaluatedSame DEF SameStatus
  <2>4. SameStatus(sub.store, a, i)
    BY <1>1, <2>3, RecordSame DEF SameStatus, Statuses
  <2>5. Leaves(a)
    BY <1>4 DEF PromoteSubmit, PromoteSubmitted, Submitted, Submission
  <2>6. SameStatus(Here, a, i)
    BY <1>2, <2>3, <2>4, SameThrough
  <2> QED BY <2>5, <2>6, LeavesSame
<1> QED BY <1>3, <1>4

LEMMA PulledUpResolves ==
  ASSUME RecordInv, NEW i \in Intents, NEW st, SameStatus(Here, st, i),
         Fresh(Proposals, st.graph) # {},
         NEW j \in Intents, NEW t \in Subjects, NEW e, NEW answer,
         PulledUp(st, j, t, e, answer)
  PROVE  StaysResolved(i)
<1>1. CASE answer = "failed"
  BY <1>1, LeavesSame DEF PulledUp
<1>2. CASE answer # "failed"
  <2> PICK a : a = Evaluated(st, j, t, e, answer).store
    OBVIOUS
  <2>1. SameStatus(st, a, i)
    BY EvaluatedSame DEF SameStatus
  <2>2. Leaves(a)
    BY <1>2 DEF PulledUp, Submitted
  <2>3. SameStatus(Here, a, i)
    BY <2>1, SameThrough
  <2> QED BY <2>2, <2>3, LeavesSame
<1> QED BY <1>1, <1>2

LEMMA PullUpResolves ==
  ASSUME RecordInv, NEW i \in Intents, Exists(graph, i), NEW e, NEW answer,
         \/ \E j \in Intents : PullUpFor(j, Project, e, answer)
         \/ PullUpDrafting(Project, e, answer)
  PROVE  StaysResolved(i)
<1> PICK here, st : here = Here /\ st = Materialised(here, Project)
  OBVIOUS
<1>0. /\ Sound(here) /\ here.ok /\ here.graph = graph /\ Exists(here.graph, i)
      /\ Project \in Subjects
  BY HereIs, NamespacesAssumption, ConstantsAssumption
<1>1. /\ SameStatus(here, st, i) /\ Leads(here, st) /\ st.ok /\ Exists(st.graph, Project)
      /\ Adds(graph, st.graph, {Project})
  BY <1>0, MaterialisedSame, MaterialisedSucceeds
<1>2. Sound(st) /\ Exists(st.graph, i) /\ Fresh(Proposals, graph) # {}
  BY <1>1 DEF SameStatus, PullUpFor, PullUpDrafting, PullUpPossible
<1>3. Fresh(Proposals, st.graph) # {}
  BY <1>1, <1>2, NamespacesAssumption DEF Fresh, Adds
<1>4. ASSUME NEW j \in Intents, PullUpFor(j, Project, e, answer) PROVE StaysResolved(i)
  <2>1. PulledUp(st, j, Project, e, answer)
    BY <1>4 DEF PullUpFor
  <2> QED BY <1>0, <1>1, <1>3, <2>1, PulledUpResolves
<1>5. CASE PullUpDrafting(Project, e, answer)
  <2> PICK j, a : /\ j = (CHOOSE s \in Fresh(Intents, graph) : TRUE)
                  /\ a = Drafted(st, j, Project)
    OBVIOUS
  <2>1. j \in Intents /\ ~Exists(graph, j) /\ PulledUp(a, j, Project, e, answer)
    BY <1>5 DEF PullUpDrafting, Fresh
  <2>2. ~Exists(st.graph, j)
    BY <1>1, <2>1, NamespacesAssumption DEF Adds
  <2>3. SameStatus(st, a, i) /\ Adds(st.graph, a.graph, {j})
    BY <1>0, <1>1, <1>2, <2>1, <2>2, DraftedSame, DraftSucceeds
  <2>4. SameStatus(Here, a, i)
    BY <1>1, <2>3, SameThrough
  <2>5. Fresh(Proposals, a.graph) # {}
    BY <1>3, <2>1, <2>3, NamespacesAssumption DEF Fresh, Adds
  <2> QED BY <1>0, <2>1, <2>4, <2>5, PulledUpResolves
<1> QED BY <1>4, <1>5

LEMMA DraftIntentResolves ==
  ASSUME RecordInv, NEW i \in Intents, Exists(graph, i),
         NEW gesture \in Gestures, DraftIntent(gesture[1], gesture[2])
  PROVE  StaysResolved(i)
<1> PICK j, t, here, a : /\ j = (CHOOSE s \in Fresh(Intents, graph) : TRUE)
                         /\ t = gesture[1] /\ here = Here /\ a = Drafted(here, j, t)
  OBVIOUS
<1>1. /\ j \in Intents /\ ~Exists(graph, j) /\ t \in Subjects /\ Leaves(a)
  BY GovernanceAssumption DEF DraftIntent, Fresh
<1>2. Sound(here) /\ here.graph = graph
  BY HereIs
<1>3. SameStatus(here, a, i)
  BY <1>1, <1>2, DraftedSame
<1> QED BY <1>1, <1>3, LeavesSame

LEMMA PostEventResolves ==
  ASSUME RecordInv, NEW i \in Intents, Exists(graph, i), NEW e \in Events, PostEvent(e)
  PROVE  StaysResolved(i)
<1> PICK here, a : here = Here /\ a = AppendTo(here, e)
  OBVIOUS
<1>1. WellFormed(e) /\ Owned(e) /\ Sound(here) /\ here.graph = graph
  BY HereIs, OwnEvents, ConstantsAssumption
<1>2. CASE Writes(e, i, Status)
  BY <1>2 DEF StaysResolved, WrittenByOthers
<1>3. CASE ~Writes(e, i, Status)
  <2>1. SameStatus(here, a, i)
    BY <1>1, <1>3, AppendSame
  <2> QED BY <2>1, LeavesSame DEF PostEvent
<1> QED BY <1>2, <1>3

LEMMA StatusResolves ==
  ASSUME RecordInv, GovNext, NEW i \in Intents, drafts[i] # None, life' = life,
         StatusOf(i) # "draft"
  PROVE  StaysResolved(i)
<1>0. Exists(graph, i)
  BY HereIs DEF RecordInv, DraftsThere
<1>1. ASSUME NEW gesture \in Gestures, DraftIntent(gesture[1], gesture[2])
      PROVE  StaysResolved(i)
  BY <1>0, <1>1, DraftIntentResolves
<1>2. ASSUME NEW j \in Intents, PromoteStale(j) \/ PromoteRefused(j) \/ Discard(j)
      PROVE  StaysResolved(i)
  BY <1>0, <1>2, PromoteResolves
<1>3. ASSUME NEW j \in Intents, PromoteApply(j)
      PROVE  StaysResolved(i)
  BY <1>0, <1>3, ApplyResolves
<1>4. ASSUME NEW j \in Intents, NEW answer, PromoteSubmit(j, answer)
      PROVE  StaysResolved(i)
  BY <1>0, <1>4, PromoteSubmitResolves
<1>5. ASSUME NEW e, NEW answer,
             \/ \E j \in Intents : PullUpFor(j, Project, e, answer)
             \/ PullUpDrafting(Project, e, answer)
      PROVE  StaysResolved(i)
  BY <1>0, <1>5, PullUpResolves
<1>6. CASE SyncWorkflow
  <2>1. PICK order \in Orders : Leaves(Synced(order))
    BY <1>6 DEF SyncWorkflow
  <2>2. SameStatus(Here, Synced(order), i)
    BY <1>0, SyncedSame
  <2> QED BY <2>1, <2>2, LeavesSame
<1>7. ASSUME NEW c \in Cycles, SddkCommits(c)
      PROVE  StaysResolved(i)
  BY <1>7 DEF SddkCommits, StaysResolved, StatusOf
<1>8. ASSUME NEW e \in Events, PostEvent(e)
      PROVE  StaysResolved(i)
  BY <1>0, <1>8, PostEventResolves
<1>9. ~Restart
  <2>1. life \in Nat
    BY DEF RecordInv, Recording
  <2> QED BY <2>1 DEF Restart
<1> QED BY <1>1, <1>2, <1>3, <1>4, <1>5, <1>6, <1>7, <1>8, <1>9 DEF GovNext

\* An intent is resolved once: in one life of the server a resolved intent can
\* only be discarded, whatever is drafted, promoted, pulled up and synced in
\* whatever order, unless a client writes its status: for any patches and events.
THEOREM IntentsResolveOnce == GovSpec => ResolvedOnce
<1>1. RecordInv /\ [GovNext]_govVars => RecordInv'
  BY RecordInvNext
<1>2. RecordInv /\ [GovNext]_govVars =>
        [ \A i \in Intents :
            (drafts[i] # None /\ drafts'[i] # None /\ life' = life /\ StatusOf(i) # "draft") =>
               \/ graph'.subjects[i].props[Status] \in {StatusOf(i), "discarded"}
               \/ WrittenByOthers(i, Status) ]_govVars
  BY StatusResolves DEF StaysResolved
<1> QED BY <1>1, <1>2, RecordInit, PTL DEF GovSpec, ResolvedOnce
================================================================================
