------------------------------ MODULE AtomicStore ------------------------------
(***************************************************************************)
(* What GraphStore promises its callers: a log and the graph it projects   *)
(* to, which change together and at once.  An append whose projection      *)
(* fails changes neither.                                                  *)
(***************************************************************************)
EXTENDS EventProjection

VARIABLES
  entries,  \* the log
  world     \* the graph

Init == entries = << >> /\ world = EmptyGraph

Submit(e) ==
  LET result == ApplyEvent(Ran(TRUE, world), e, Len(entries))
  IN /\ result.ok
     /\ world' = result.graph
     /\ entries' = Append(entries, [event |-> e, revision |-> world'.revision])

New(e) == \A i \in DOMAIN entries : entries[i].event.id # e.id

\* A patch applies only if it holds against the world as it is; it may be
\* refused at any time, since its base revision may be stale.
Patch(ops) ==
  \/ Valid(world, world.revision, ops) /\ Submit(PatchEvent("patch-applied", ops))
  \/ Submit(PatchEvent("patch-rejected", << >>))

Next ==
  \/ \E e \in Events : New(e) /\ Submit(e)
  \/ \E ops \in Patches : Patch(ops)

Spec == Init /\ [][Next]_<<entries, world>>
=============================================================================
