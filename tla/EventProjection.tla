---------------------------- MODULE EventProjection ----------------------------
(***************************************************************************)
(* apply_event as one function: all the steps of an event, then the        *)
(* revision bump; or the graph as the first failing step leaves it.  And   *)
(* what a log of events projects to.                                       *)
(***************************************************************************)
EXTENDS SemanticGraph

\* The result of a projection: the graph, and whether every step succeeded.
Ran(ok, g) == [ok |-> ok, graph |-> g]

\* One primitive, unless an earlier one has failed.
RunStep(r, st, seq) ==
  IF r.ok /\ StepOk(r.graph, st) THEN Ran(TRUE, StepEffect(r.graph, st, seq))
  ELSE Ran(FALSE, r.graph)

\* The result after the first n steps, for every n.
StepRuns(g, steps, seq) ==
  LET run[n \in 0..Len(steps)] ==
        IF n = 0 THEN Ran(TRUE, g) ELSE RunStep(run[n-1], steps[n], seq)
  IN run

RunSteps(g, steps, seq) == StepRuns(g, steps, seq)[Len(steps)]

ApplyEvent(r, e, seq) ==
  LET run == RunSteps(r.graph, Steps(e), seq)
  IN IF r.ok /\ run.ok
     THEN Ran(TRUE, [run.graph EXCEPT !.revision = RevisionAfter(run.graph, e)])
     ELSE Ran(FALSE, run.graph)

-----------------------------------------------------------------------------
(* The projection of a log.                                                 *)

\* Mutant of Replays: sequences are assigned from one.
ReplaysFromOne(entries) ==
  LET run[n \in 0..Len(entries)] ==
        IF n = 0 THEN Ran(TRUE, EmptyGraph)
        ELSE ApplyEvent(run[n-1], entries[n].event, n)
  IN run

\* The result of replaying the first n entries, for every n.
Replays(entries) ==
  LET run[n \in 0..Len(entries)] ==
        IF n = 0 THEN Ran(TRUE, EmptyGraph)
        ELSE ApplyEvent(run[n-1], entries[n].event, n - 1)
  IN run

Replayed(entries) == Replays(entries)[Len(entries)]
=============================================================================
