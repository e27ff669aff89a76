------------------------------ MODULE GraphStore ------------------------------
(***************************************************************************)
(* GraphStore of vistalith-graph: the durable event log, the graph         *)
(* projected from it, and patches with optimistic concurrency.             *)
(*                                                                         *)
(* An append runs the primitive steps of its event on the live graph, one  *)
(* action per step, and ends with Commit (the log entry is written) or     *)
(* Abort (it is not).  The server holds the store's write lock for the     *)
(* whole append, so no other action is enabled while one is pending; what  *)
(* an Abort leaves behind in the graph, every later reader sees.           *)
(***************************************************************************)
EXTENDS SemanticGraph

CONSTANTS
  Clients,       \* clients that read the graph and propose patches
  MaxLog         \* bound: nothing is appended to a log this long

ASSUME StoreAssumption == Clients # {} /\ MaxLog \in Nat

VARIABLES
  log,      \* EventLog.entries: committed events with the revision they gave
  graph,    \* the live projection
  pending,  \* the append in progress: its event and the steps still to run
  reply,    \* what the last finished operation answered
  seen,     \* per client, the graph it last read (GET /graph)
  torn      \* history: the kinds of events whose append was aborted midway

vars == <<log, graph, pending, reply, seen, torn>>

Replies == { "none", "committed", "duplicate-event-id", "projection-error",
             "applied", "stale-base", "must-be-governed-by-sddk",
             "unknown-subject" }

\* Which entry point a pending append came through, and its answer on success.
Routes == {"append", "patch"}
Idle == [route |-> "idle"]
Pending == [route : Routes, event : Event, steps : Seq(Step),
            answer : Replies, start : Graph]

LogEntry == [event : Event, revision : Nat]

TypeOK ==
  /\ log \in Seq(LogEntry)
  /\ graph \in Graph
  /\ pending \in {Idle} \cup Pending
  /\ reply \in Replies
  /\ seen \in [Clients -> Graph]
  /\ torn \subseteq EventKind

Init ==
  /\ log = << >>
  /\ graph = EmptyGraph
  /\ pending = Idle
  /\ reply = "none"
  /\ seen = [c \in Clients |-> EmptyGraph]
  /\ torn = {}

-----------------------------------------------------------------------------
(* Append and project.                                                      *)

\* EventLog::contains; a generated id never collides.
Logged(id) == id # FreshId /\ \E i \in DOMAIN log : log[i].event.id = id

Begin(route, e, answer) ==
  /\ Len(log) < MaxLog
  /\ pending' = [route |-> route, event |-> e, steps |-> Steps(e),
                 answer |-> answer, start |-> graph]
  /\ UNCHANGED <<log, graph, reply, seen, torn>>

AppendEvent(e) ==
  /\ pending = Idle
  /\ ~Logged(e.id)
  /\ Begin("append", e, "committed")

AppendDuplicate(e) ==
  /\ pending = Idle
  /\ Logged(e.id)
  /\ reply' = "duplicate-event-id"
  /\ UNCHANGED <<log, graph, pending, seen, torn>>

\* apply_event: the next primitive succeeds.
Project ==
  /\ pending # Idle
  /\ pending.steps # << >>
  /\ StepOk(graph, Head(pending.steps))
  /\ graph' = StepEffect(graph, Head(pending.steps), Len(log))
  /\ pending' = [pending EXCEPT !.steps = Tail(@)]
  /\ UNCHANGED <<log, reply, seen, torn>>

\* Mutant of Abort: the entry is written whether or not the projection succeeds.
AbortLogged ==
  /\ pending # Idle
  /\ pending.steps # << >>
  /\ ~StepOk(graph, Head(pending.steps))
  /\ pending' = Idle
  /\ reply' = "projection-error"
  /\ log' = Append(log, [event |-> pending.event, revision |-> graph.revision])
  /\ UNCHANGED <<graph, seen, torn>>

\* apply_event returns an error: `append` leaves by `?`, the graph stays as it is.
Abort ==
  /\ pending # Idle
  /\ pending.steps # << >>
  /\ ~StepOk(graph, Head(pending.steps))
  /\ pending' = Idle
  /\ reply' = "projection-error"
  /\ torn' = IF graph = pending.start THEN torn
             ELSE torn \cup {pending.event.kind}
  /\ UNCHANGED <<log, graph, seen>>

\* apply_event bumps the revision and EventLog::commit writes the entry.
Commit ==
  /\ pending # Idle
  /\ pending.steps = << >>
  /\ LET revision == RevisionAfter(graph, pending.event)
     IN /\ graph' = [graph EXCEPT !.revision = revision]
        /\ log' = Append(log, [event |-> pending.event, revision |-> revision])
  /\ reply' = pending.answer
  /\ pending' = Idle
  /\ UNCHANGED <<seen, torn>>

-----------------------------------------------------------------------------
(* Clients: read the graph, then propose a patch on what was read.          *)

ReadGraph(c) ==
  /\ pending = Idle
  /\ seen' = [seen EXCEPT ![c] = graph]
  /\ UNCHANGED <<log, graph, pending, reply, torn>>

\* propose_patch with the client's revision as base: both outcomes append.
ProposePatch(c, ops) ==
  /\ pending = Idle
  /\ IF Valid(graph, seen[c].revision, ops)
     THEN Begin("patch", PatchEvent("patch-applied", ops), "applied")
     ELSE Begin("patch", PatchEvent("patch-rejected", << >>),
                Rejection(graph, seen[c].revision, ops))

Next ==
  \/ \E e \in Events : AppendEvent(e) \/ AppendDuplicate(e)
  \/ Project
  \/ Abort
  \/ Commit
  \/ \E c \in Clients : ReadGraph(c)
  \/ \E c \in Clients, ops \in Patches : ProposePatch(c, ops)

Spec == Init /\ [][Next]_vars

-----------------------------------------------------------------------------
(* Properties.                                                              *)

\* The graph as the append under way found it.
Settled == IF pending = Idle THEN graph ELSE pending.start

\* No relation ever dangles: both ends of every relation the graph holds are
\* subjects of the graph, after any sequence of appends, patches and failures
\* (projection.rs inserts several relations without looking at their ends).
EndpointsExist ==
  \A r \in graph.relations : Exists(graph, r.from) /\ Exists(graph, r.to)

\* A client whose revision is current has seen the current graph: the base
\* revision of a patch identifies the state it was made against.  The append
\* that is aborted midway is the one thing that breaks it (NeverHalfMutated).
RevisionIdentifiesGraph ==
  (pending = Idle /\ torn = {}) =>
    \A c \in Clients : seen[c].revision = graph.revision => seen[c] = graph

\* Only five kinds of events can be aborted after they have mutated the
\* graph; every other projection makes all the checks that can fail first.
OnlyTheseTear ==
  torn \subseteq { "patch-applied", "message-appended", "frame-started",
                   "turn-completed", "frame-turn-completed" }

\* What an SDDK-owned node states, without its cursor.
Stated(g, s) == [g.subjects[s] EXCEPT !.touched = 0]

\* A proposed patch, applied or failing midway, never changes what an
\* SDDK-owned subject states, never makes a subject SDDK-owned, and never adds
\* an authoritative fact about a subject of the SDDK namespace (README,
\* hard invariant 2): validation looks only at the graph before the patch.
PatchRespectsSddk ==
  [][ (pending # Idle /\ pending.route = "patch") =>
        /\ \A s \in Subjects : SddkOwned(graph, s) <=> SddkOwned(graph', s)
        /\ \A s \in Subjects : SddkOwned(graph, s) => Stated(graph', s) = Stated(graph, s)
        /\ \A r \in graph'.relations \ graph.relations :
             r.authority = "authoritative" => {r.from, r.to} \cap SddkSubjects = {}
    ]_vars

\* The log tells the revision apart from the number of entries: each entry
\* carries the revision of its predecessor, plus one unless it is a rejection,
\* and outside an append the graph is at the revision of the last entry.
RevisionsAccountedFor ==
  LET revisionAt(i) == IF i = 0 THEN 0 ELSE log[i].revision
  IN /\ \A i \in DOMAIN log :
          log[i].revision = revisionAt(i-1)
            + (IF log[i].event.kind = "patch-rejected" THEN 0 ELSE 1)
     /\ graph.revision = revisionAt(Len(log))

\* The log holds no event id twice, however often a writer retries.
NoEventTwice ==
  \A i, j \in DOMAIN log :
    i # j /\ log[i].event.id # FreshId => log[i].event.id # log[j].event.id
=============================================================================
