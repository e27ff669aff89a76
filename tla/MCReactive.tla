------------------------------ MODULE MCReactive ------------------------------
(***************************************************************************)
(* A small world of dependencies and evidence: a depends on the work item  *)
(* w, and on itself; a contradicts and supports w; w may be deprecated     *)
(* too.  Two advisories at most per trigger.                               *)
(***************************************************************************)
EXTENDS Reactive, TLC

CONSTANTS a, b, w, v1, v2, v3, v4

MCSubjects == {a, b, w, v1, v2, v3, v4}
MCSddk == {w}
MCAdvisories == {v1, v2, v3, v4}
MCPropKeys == {"p"}
MCPropValues == {"x"}

Ev(id, kind, s, o, relation) ==
  [id |-> id, kind |-> kind, subject |-> s, other |-> o, also |-> << >>,
   relation |-> relation, authority |-> "authoritative",
   props |-> NoProps, ops |-> << >>]

MCEvents ==
  { Ev("define-a", "subject-defined", a, NoSubject, "mentions"),
    Ev("define-w", "subject-defined", w, NoSubject, "mentions"),
    Ev("depends-aw", "relation-declared", a, w, "depends_on"),
    Ev("depends-aa", "relation-declared", a, a, "depends_on"),
    Ev("contradicts", "relation-declared", a, w, "contradicts"),
    Ev("evidence", "relation-declared", a, w, "provides_evidence_for"),
    Ev("verifies", "relation-declared", a, w, "verifies"),
    Ev("update-w", "subject-updated", w, NoSubject, "mentions"),
    Ev("retire-a", "subject-deprecated", a, NoSubject, "mentions"),
    Ev("retire-w", "subject-deprecated", w, NoSubject, "mentions"),
    Ev("advisory", "advisory-raised", b, a, "mentions") }

MCEventIds == {e.id : e \in MCEvents}
MCPatches == {}
=============================================================================
