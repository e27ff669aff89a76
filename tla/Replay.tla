-------------------------------- MODULE Replay --------------------------------
(***************************************************************************)
(* Replay, rebuild and time travel of GraphStore: what the durable log     *)
(* says the graph is, next to the live projection.                         *)
(***************************************************************************)
EXTENDS GraphStore, EventProjection

\* GraphStore::rebuild: each entry must give the revision it is stored with.
Rebuilds(entries) ==
  /\ Replayed(entries).ok
  /\ \A i \in DOMAIN entries :
       Replayed(SubSeq(entries, 1, i)).graph.revision = entries[i].revision

\* Mutants of Prefix: the cut excludes the revision asked for; the cut counts
\* entries, as if every entry made a revision.
PrefixBelow(revision) ==
  LET above == {i \in DOMAIN log : log[i].revision >= revision}
  IN IF above = {} THEN log
     ELSE SubSeq(log, 1, (CHOOSE i \in above : \A j \in above : i <= j) - 1)
PrefixBySequence(revision) == SubSeq(log, 1, revision)

\* GraphStore::graph_at_revision: the longest prefix at or below `revision`.
Prefix(revision) ==
  LET above == {i \in DOMAIN log : log[i].revision > revision}
  IN IF above = {} THEN log
     ELSE SubSeq(log, 1, (CHOOSE i \in above : \A j \in above : i <= j) - 1)

GraphAtRevision(revision) == Replayed(Prefix(revision))

-----------------------------------------------------------------------------
\* As long as no append was aborted midway, the live graph is exactly what the
\* log rebuilds to, revision by revision (README, hard invariant 4).
GraphIsProjectionOfLog ==
  (pending = Idle /\ torn = {}) =>
    Rebuilds(log) /\ Replayed(log).graph = graph

\* Time travel gives a reader back exactly the graph it saw at that revision,
\* across the rejections that share a revision number.
TimeTravelIsExact ==
  (pending = Idle /\ torn = {}) =>
    \A c \in Clients : GraphAtRevision(seen[c].revision) = Ran(TRUE, seen[c])

\* Travelling to a revision of the log lands on that revision (the debug
\* assertion in graph_at_revision), also when a torn append has made a part of
\* the log unplayable: then time travel answers an error, never another state.
TimeTravelLands ==
  pending = Idle =>
    \A n \in 0..graph.revision :
      LET there == GraphAtRevision(n)
      IN /\ there.ok => there.graph.revision = n
         /\ torn = {} => there.ok

\* store.rs, on StoreError: "The store is never left half-mutated: the event
\* is only committed once its projection has succeeded."
NeverHalfMutated == pending = Idle => Replayed(log).graph = graph

\* The store as its callers should see it: every append happens at once.
Atomic == INSTANCE AtomicStore WITH entries <- log, world <- Settled

\* Running the primitive steps one by one on the live graph and committing
\* afterwards implements the atomic store, up to the first append that tears:
\* every action until then is one of its actions or changes nothing of it.
AtomicUntilTorn ==
  /\ Atomic!Init
  /\ [][torn' = {} => [Atomic!Next]_<<log, Settled>>]_vars
=============================================================================
