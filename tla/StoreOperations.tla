---------------------------- MODULE StoreOperations ----------------------------
(***************************************************************************)
(* GraphStore as one handler sees it: a value that its appends and patches *)
(* are threaded through.  A handler without an await between its appends   *)
(* has the store to itself (the server's write lock), so the whole handler *)
(* is one step; what an append that fails midway did to the graph stays.   *)
(***************************************************************************)
EXTENDS EventProjection

\* ok: no append of this handler has failed yet; the handler leaves at the
\* first that does, so the later ones change nothing.
Store(log, graph) == [log |-> log, graph |-> graph, ok |-> TRUE]

EventOf(kind, s, o, p) ==
  [id |-> FreshId, kind |-> kind, subject |-> s, other |-> o, also |-> << >>,
   relation |-> "mentions", authority |-> "derived", props |-> p, ops |-> << >>]

Holds(st, id) ==
  id # FreshId /\ \E i \in DOMAIN st.log : st.log[i].event.id = id

\* GraphStore::append.
AppendTo(st, e) ==
  IF ~st.ok \/ Holds(st, e.id) THEN [st EXCEPT !.ok = FALSE]
  ELSE LET run == ApplyEvent(Ran(TRUE, st.graph), e, Len(st.log)) IN
       [log |-> IF run.ok
                THEN Append(st.log, [event |-> e, revision |-> run.graph.revision])
                ELSE st.log,
        graph |-> run.graph, ok |-> run.ok]

\* An append whose caller takes a duplicate id for success.
AppendOnce(st, e) == IF Holds(st, e.id) THEN st ELSE AppendTo(st, e)

\* GraphStore::propose_patch: both outcomes are events.
Propose(st, base, ops) ==
  AppendTo(st, IF Valid(st.graph, base, ops)
               THEN PatchEvent("patch-applied", ops)
               ELSE PatchEvent("patch-rejected", << >>))
=============================================================================
