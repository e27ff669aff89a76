----------------------------- MODULE MCGraphStore -----------------------------
(***************************************************************************)
(* Finite instances of GraphStore and Replay.  Four subjects: two of       *)
(* Vistalith's namespaces, one of the `sddk` namespace, and one that       *)
(* events create as a message, a fork, an advisory, ... of the others.     *)
(***************************************************************************)
EXTENDS Replay, TLC

CONSTANTS a, b, m, w, x1, x2

MCSubjects == {a, b, m, w}
MCSddk == {w}
MCPropKeys == {"p"}
MCPropValues == {x1, x2}

Prop(v) == [k \in MCPropKeys |-> v]

Ev(id, kind, s, o) ==
  [id |-> id, kind |-> kind, subject |-> s, other |-> o, also |-> << >>,
   relation |-> "mentions", authority |-> "authoritative",
   props |-> Prop(Unset), ops |-> << >>]

\* The raw facts a writer can state about the world.
WorldEvents ==
  { Ev("define-a", "subject-defined", a, NoSubject),
    [Ev("define-w", "subject-defined", w, NoSubject) EXCEPT !.props = Prop(x1)],
    [Ev("observe-w", "subject-defined", w, NoSubject) EXCEPT !.authority = "derived"],
    [Ev("update-w", "subject-updated", w, NoSubject) EXCEPT !.props = Prop(x2)],
    Ev("deprecate-a", "subject-deprecated", a, NoSubject),
    [Ev("update-m", "subject-updated", m, NoSubject) EXCEPT !.props = Prop(x1)],
    [Ev("relate-aw", "relation-declared", a, w)
       EXCEPT !.relation = "depends_on", !.authority = "derived"],
    Ev("relate-aa", "relation-declared", a, a) }

\* Conversation: b is a thread, m its message (or tool call, fork, advisory).
ConversationEvents ==
  { Ev("thread", "thread-started", b, NoSubject),
    [Ev("message", "message-appended", m, b) EXCEPT !.also = <<a>>],
    [Ev("message-twice", "message-appended", m, b) EXCEPT !.also = <<a, a>>],
    [Ev("message-missing", "message-appended", m, b) EXCEPT !.also = <<w>>],
    [Ev("message-self", "message-appended", m, b) EXCEPT !.also = <<m>>],
    Ev("turn", "turn-completed", b, a),
    Ev("turn-unnamed", "turn-completed", b, NoSubject),
    Ev("tool", "tool-invoked", m, b),
    Ev("fork", "thread-forked", m, b),
    Ev("advisory", "advisory-raised", m, b) }

\* Frames, agents, intents and the artifacts observed from outside.
WorkEvents ==
  { Ev("agent", "agent-defined", a, NoSubject),
    [Ev("frame", "frame-started", b, a) EXCEPT !.also = <<a>>],
    [Ev("frame-twice", "frame-started", b, NoSubject) EXCEPT !.also = <<a, a>>],
    Ev("frame-turn", "frame-turn-completed", b, a),
    Ev("frame-turn-unnamed", "frame-turn-completed", b, NoSubject),
    Ev("frame-closed", "frame-closed", b, NoSubject),
    [Ev("run", "agent-run-finished", m, b) EXCEPT !.also = <<a>>],
    Ev("uat", "uat-check-recorded", m, a),
    Ev("intent", "intent-drafted", b, a),
    Ev("promoted", "intent-promoted", b, NoSubject),
    [Ev("proposal", "sddk-proposal-submitted", m, a) EXCEPT !.also = <<b>>],
    Ev("canvas", "canvas-bound", m, a) }

\* Every kind of event, on subjects that may or may not be there.
AllKinds ==
  { Ev("define-a", "subject-defined", a, NoSubject),
    Ev("retire-a", "subject-deprecated", a, NoSubject) }
  \cup ConversationEvents \cup WorkEvents

\* Patches.  The last four pass validation in some states and fail midway.
PatchUpsertW == << Upsert(w, "derived", Prop(x2)) >>
PatchAll ==
  { PatchUpsertW,
    << Upsert(a, "authoritative", Prop(x1)), Retire(a) >>,
    << Upsert(w, "authoritative", Prop(x1)) >>,
    << Declare(Fact(a, "verifies", w, "authoritative")) >>,
    << Retire(w) >>,
    << Upsert(a, "derived", Prop(x2)),
       Declare(Fact(a, "depends_on", w, "derived")) >>,
    << Upsert(m, "advisory", Prop(x1)),
       Declare(Fact(a, "depends_on", w, "derived")),
       Declare(Fact(a, "depends_on", w, "derived")) >> }

IdOf(events) == {e.id : e \in events}
MCEventIds == IdOf(WorldEvents \cup AllKinds)
NoPatches == {}
=============================================================================
