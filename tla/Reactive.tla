------------------------------- MODULE Reactive -------------------------------
(***************************************************************************)
(* Reactive behaviors: POST /events appends an event and then dispatches   *)
(* the built-in behaviors on it; each advisory they return is appended     *)
(* with the trigger as its cause.  The whole dispatch runs under the       *)
(* store's write lock, against the live graph: a behavior sees the         *)
(* advisories of the behaviors before it.                                  *)
(***************************************************************************)
EXTENDS Replay

CONSTANTS
  WorkItems,    \* sddk subjects of kind work-item
  Advisories,   \* subjects an advisory may be given (fresh uuids)
  MaxPosts      \* bound on the number of posted events

ASSUME ReactiveAssumption ==
  WorkItems \subseteq SddkSubjects /\ Advisories \subseteq Subjects

VARIABLES
  dispatch,   \* the dispatch in progress
  raised      \* history: which output of which trigger each advisory is

reactiveVars == <<vars, dispatch, raised>>

BehaviorNames == {"impact", "contradiction", "stale-evidence", "missing-evidence"}
Builtin == <<"impact", "contradiction", "stale-evidence", "missing-evidence">>

Output == [behavior : BehaviorNames, about : Subjects,
           because : RelationKind \cup {"none"}]

\* trigger: log position of the trigger; left: behaviors still to run;
\* outputs: what the current one returned and is not appended yet.
Quiet == [trigger |-> 0, left |-> << >>, outputs |-> {}]
Dispatch == [trigger : Nat, left : Seq(BehaviorNames), outputs : SUBSET Output]

ReactiveTypeOK ==
  /\ TypeOK
  /\ dispatch \in Dispatch
  /\ raised \subseteq [at : Nat, cause : Nat, output : Output]

ReactiveInit == Init /\ dispatch = Quiet /\ raised = {}

-----------------------------------------------------------------------------
(* The built-in behaviors.                                                  *)

Subscribes(behavior) ==
  CASE behavior = "impact"        -> {"subject-updated", "subject-deprecated"}
    [] behavior = "contradiction" -> {"relation-declared"}
    [] behavior = "stale-evidence"   -> {"subject-deprecated"}
    [] behavior = "missing-evidence" -> {"subject-defined"}

Advise(behavior, about, because) ==
  [behavior |-> behavior, about |-> about, because |-> because]

\* Every direct dependent of what changed.
Impact(g, e) ==
  { Advise("impact", r.from, r.kind) :
      r \in {f \in g.relations : f.to = e.subject /\ f.kind = "depends_on"} }

Contradiction(e) ==
  IF e.relation = "contradicts"
  THEN { Advise("contradiction", e.subject, "contradicts") } ELSE {}

\* Everything the deprecated subject supports.
StaleEvidence(g, e) ==
  { Advise("stale-evidence", r.to, r.kind) :
      r \in {f \in g.relations :
               f.from = e.subject /\ f.kind \in {"provides_evidence_for", "verifies"}} }

MissingEvidence(g, e) ==
  IF /\ e.subject \in WorkItems
     /\ \A r \in g.relations : ~(r.to = e.subject /\ r.kind = "provides_evidence_for")
  THEN { Advise("missing-evidence", e.subject, "none") } ELSE {}

React(behavior, g, e) ==
  CASE behavior = "impact"         -> Impact(g, e)
    [] behavior = "contradiction"  -> Contradiction(e)
    [] behavior = "stale-evidence" -> StaleEvidence(g, e)
    [] OTHER                       -> MissingEvidence(g, e)

-----------------------------------------------------------------------------
(* append_and_react.                                                        *)

Posts == Cardinality(DOMAIN log) - Cardinality(raised)

PostEvent(e) ==
  /\ dispatch = Quiet
  /\ \/ Posts < MaxPosts /\ AppendEvent(e)
     \/ AppendDuplicate(e)
  /\ UNCHANGED <<dispatch, raised>>

ProjectStep == Project /\ UNCHANGED <<dispatch, raised>>

\* The trigger is durable: the behaviors run next.
CommitTrigger ==
  /\ dispatch = Quiet
  /\ Commit
  /\ dispatch' = [trigger |-> Len(log'), left |-> Builtin, outputs |-> {}]
  /\ UNCHANGED raised

\* Mutants of RunBehavior: the last entry is taken for the trigger; a behavior
\* runs again until it has nothing left to say.
RunBehaviorOnLast ==
  /\ dispatch.left # << >> /\ dispatch.outputs = {}
  /\ pending = Idle
  /\ LET behavior == Head(dispatch.left)
         trigger  == log[Len(log)].event
     IN dispatch' = [dispatch EXCEPT
          !.left = Tail(@),
          !.outputs = IF trigger.kind \in Subscribes(behavior)
                      THEN React(behavior, graph, trigger) ELSE {}]
  /\ UNCHANGED <<vars, raised>>
RunBehaviorAgain ==
  /\ dispatch.left # << >> /\ dispatch.outputs = {}
  /\ pending = Idle
  /\ LET behavior == Head(dispatch.left)
         trigger  == log[dispatch.trigger].event
         outputs  == IF trigger.kind \in Subscribes(behavior)
                     THEN React(behavior, graph, trigger) ELSE {}
     IN dispatch' = [dispatch EXCEPT
          !.left = IF outputs = {} THEN Tail(@) ELSE @, !.outputs = outputs]
  /\ UNCHANGED <<vars, raised>>

RunBehavior ==
  /\ dispatch.left # << >> /\ dispatch.outputs = {}
  /\ pending = Idle
  /\ LET behavior == Head(dispatch.left)
         trigger  == log[dispatch.trigger].event
     IN dispatch' = [dispatch EXCEPT
          !.left = Tail(@),
          !.outputs = IF trigger.kind \in Subscribes(behavior)
                      THEN React(behavior, graph, trigger) ELSE {}]
  /\ UNCHANGED <<vars, raised>>

\* advisory_ref: a generated id.
Unused == {s \in Advisories : ~Exists(graph, s)}

\* Mutant of AdvisoryEvent: the behavior writes to the subject itself.
UpdateInstead(advisory, output) ==
  [id |-> FreshId, kind |-> "subject-updated", subject |-> output.about,
   other |-> output.about, also |-> << >>, relation |-> "mentions",
   authority |-> "advisory", props |-> CHOOSE p \in Properties : p # NoProps,
   ops |-> << >>]

AdvisoryEvent(advisory, output) ==
  [id |-> FreshId, kind |-> "advisory-raised", subject |-> advisory,
   other |-> output.about, also |-> << >>, relation |-> "mentions",
   authority |-> "advisory", props |-> NoProps, ops |-> << >>]

RaiseAdvisory(output) ==
  /\ pending = Idle
  /\ Unused # {}
  /\ Begin("append", AdvisoryEvent(CHOOSE s \in Unused : TRUE, output), "committed")
  /\ UNCHANGED <<dispatch, raised>>

\* The advisory about `output` is in the log, with the trigger as its cause.
CommitAdvisory(output) ==
  /\ dispatch # Quiet
  /\ Commit
  /\ pending.event.other = output.about
  /\ dispatch' = [dispatch EXCEPT !.outputs = @ \ {output}]
  /\ raised' = raised \cup
       {[at |-> Len(log'), cause |-> dispatch.trigger, output |-> output]}

\* `store.append(..)?`: an error leaves the dispatch, what is left of it is lost.
AbortDispatch == Abort /\ dispatch' = Quiet /\ UNCHANGED raised

Finish ==
  /\ dispatch # Quiet /\ dispatch.left = << >> /\ dispatch.outputs = {}
  /\ pending = Idle
  /\ dispatch' = Quiet
  /\ UNCHANGED <<vars, raised>>

DispatchNext ==
  \/ ProjectStep \/ CommitTrigger \/ AbortDispatch \/ RunBehavior \/ Finish
  \/ \E output \in dispatch.outputs : RaiseAdvisory(output) \/ CommitAdvisory(output)

ReactiveNext ==
  \/ \E e \in Events : PostEvent(e)
  \/ DispatchNext

\* The handler runs to its end once it has the lock: no step of it waits.
ReactiveSpec ==
  /\ ReactiveInit /\ [][ReactiveNext]_reactiveVars
  /\ WF_reactiveVars(DispatchNext)

-----------------------------------------------------------------------------
\* What the behaviors say of the trigger at position t, judged by the graph the
\* log rebuilds to right after it.
Justified(t) ==
  UNION { IF log[t].event.kind \in Subscribes(b)
          THEN React(b, Replayed(SubSeq(log, 1, t)).graph, log[t].event) ELSE {} :
          b \in BehaviorNames }

\* Once a dispatch is over, every posted event has caused exactly the advisories
\* that the state right after it justifies, each once: the advisories that
\* earlier behaviors appended in between never change what later ones say, and
\* no advisory causes another.
AdvisoriesMatchTriggers ==
  (dispatch = Quiet /\ pending = Idle /\ torn = {}) =>
    \A t \in DOMAIN log :
      LET of == {r \in raised : r.cause = t}
      IN /\ {r.output : r \in of} = Justified(t)
         /\ Cardinality(of) = Cardinality(Justified(t))

\* A behavior cannot turn advisory state into authority (SPEC-003): while a
\* dispatch runs, no subject that was there states anything new, and whatever
\* appears in the graph is advisory.
BehaviorsOnlyAdvise ==
  [][ dispatch # Quiet =>
        /\ \A s \in Subjects : Exists(graph, s) => Stated(graph', s) = Stated(graph, s)
        /\ \A s \in Subjects : Exists(graph', s) /\ ~Exists(graph, s)
                                 => graph'.subjects[s].authority = "advisory"
        /\ \A r \in graph'.relations \ graph.relations : r.authority = "advisory"
    ]_reactiveVars

Caused(t) == {r.output : r \in {q \in raised : q.cause = t}}

\* Whoever posts an event that is logged gets all its advisories in the end:
\* the dispatch neither stops early nor feeds on the advisories it appends.
EveryTriggerAnswered ==
  \A n \in 1..MaxPosts :
    (Len(log) >= n) ~>
      (Len(log) >= n /\ dispatch = Quiet /\ Caused(n) = Justified(n))
=============================================================================
