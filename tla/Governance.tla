------------------------------- MODULE Governance -------------------------------
(***************************************************************************)
(* Visual intents and the SDDK bridge: how a proposed change becomes one   *)
(* of the graph, or work that SDDK governs, next to SDDK's own ledger.     *)
(*                                                                         *)
(* Every handler here keeps the store's write lock from its first look at  *)
(* the graph to its last append and awaits nothing in between: each is one *)
(* action.  SDDK's ledger and receipts are durable; Vistalith's log lives  *)
(* in the process.                                                         *)
(***************************************************************************)
EXTENDS StoreOperations, PullUp

CONSTANTS
  Intents,        \* ids that drafts are given, visual:visual-proposal:<uuid>
  Proposals,      \* ids that SDDK proposals are given
  Cycles,         \* sddk:workflow:<cycle>
  Project,        \* the observed project, sddk:project:<id>
  Status, Cursor, \* the properties `status` and `ledger_sequence`
  Sequence(_),    \* the value of `ledger_sequence` for a position of the ledger
  Malformed,      \* a change that carries no valid list of operations
  Gestures,       \* what clients draft: a target and a change
  Evaluations,    \* the evaluations that pull-ups carry
  MaxLedger,      \* bound on the events in SDDK's ledger
  MaxReceipts,    \* bound on the receipts SDDK issues
  MaxLength,      \* bound: no handler starts on a log this long
  MaxLives        \* bound on the lives of the server process

Statuses == {"draft", "applied", "sddk-governed", "submitted", "stale",
             "rejected", "discarded"}

\* sync_workflow's id of the event for the n-th ledger event, of cycle c: a
\* digest that no other event is given.
SyncId(c, n) == <<c, n>>
SyncIds == Cycles \X (1..MaxLedger)

\* Ids of namespaces `visual`, `vistalith` and `sddk`.
ASSUME NamespacesAssumption ==
  /\ Intents \subseteq Subjects \ SddkSubjects
  /\ Proposals \subseteq Subjects \ SddkSubjects
  /\ Intents \cap Proposals = {}
  /\ Cycles \subseteq SddkSubjects /\ Project \in SddkSubjects

ASSUME GovernanceAssumption ==
  /\ {Status, Cursor} \subseteq PropKeys
  /\ Statuses \cup {Sequence(n) : n \in 1..MaxLedger} \subseteq PropValues
  /\ Malformed \notin Patches
  /\ Evaluations \subseteq Evaluation
  /\ Gestures \subseteq Subjects \X (Patches \cup {Malformed})

ASSUME SyncAssumption ==
  /\ MaxLedger \in Nat
  /\ SyncIds \subseteq EventIds
  /\ \A e \in Events : e.id \notin SyncIds

VARIABLES
  log, graph,  \* the store
  drafts,      \* what intent-drafted wrote to each intent, once
  proposals,   \* what sddk-proposal-submitted wrote to each proposal
  bridged,     \* whether this server was started with a bridge
  ledger,      \* SDDK: the cycles of its events, in ledger order
  receipts,    \* SDDK: the receipts it has issued
  synced,      \* the length of the ledger at the last sync of this life
  life         \* how often the server was started

govVars == <<log, graph, drafts, proposals, bridged, ledger, receipts, synced, life>>

Decisions == {"allowed", "refused", "not-proposed"}

None == [made |-> FALSE]
Draft == [made : {TRUE}, target : Subjects, base : Nat,
          change : Patches \cup {<< >>, Malformed}]
Proposal == [made : {TRUE}, intent : Subjects, target : Subjects,
             decision : Decisions, receipt : Nat]

\* known: whether the intent was in the graph when SDDK was asked.
Receipt == [intent : Subjects, known : BOOLEAN, life : Nat,
            for : Evaluation \cup {None}]

Entry == [event : Event, revision : Nat]

GovTypeOK ==
  /\ log \in Seq(Entry) /\ graph \in Graph
  /\ drafts \in [Intents -> Draft \cup {None}]
  /\ proposals \in [Proposals -> Proposal \cup {None}]
  /\ bridged \in BOOLEAN
  /\ ledger \in Seq(Cycles) /\ Len(ledger) <= MaxLedger
  /\ receipts \in Seq(Receipt)
  /\ synced \in 0..Len(ledger)
  /\ life \in Nat

Fresh(ids, g) == {s \in ids : ~Exists(g, s)}
Prop(key, value) == [k \in PropKeys |-> IF k = key THEN value ELSE Unset]

StartServer ==
  /\ log = << >> /\ graph = EmptyGraph
  /\ drafts = [i \in Intents |-> None]
  /\ proposals = [p \in Proposals |-> None]
  /\ synced = 0

GovInit ==
  /\ StartServer
  /\ bridged \in BOOLEAN
  /\ ledger = << >> /\ receipts = << >> /\ life = 1

Here == Store(log, graph)
Leaves(st) == log' = st.log /\ graph' = st.graph
Open == Len(log) < MaxLength

-----------------------------------------------------------------------------
(* Intents.                                                                 *)

Drafted(st, i, t) ==
  AppendTo(st, EventOf("intent-drafted", i, t, Prop(Status, "draft")))

\* draft_intent: the base is the revision that its own event produces.
DraftIntent(t, change) ==
  /\ Open /\ Exists(graph, t) /\ Fresh(Intents, graph) # {}
  /\ LET i == CHOOSE s \in Fresh(Intents, graph) : TRUE IN
       /\ Leaves(Drafted(Here, i, t))
       /\ drafts' = [drafts EXCEPT ![i] =
            [made |-> TRUE, target |-> t, base |-> graph.revision + 1, change |-> change]]
  /\ UNCHANGED <<proposals, bridged, ledger, receipts, synced, life>>

\* record: the outcome of an intent, as an intent-promoted event.
Record(st, i, status) ==
  AppendTo(st, EventOf("intent-promoted", i, NoSubject, Prop(Status, status)))

StatusOf(i) == graph.subjects[i].props[Status]

\* Mutant of Resolved: an intent is done only when its change is in the graph.
ResolvedIfApplied(i) == StatusOf(i) = "applied"

Resolved(i) == StatusOf(i) # "draft"

\* Mutant of Base: the patch is made against the graph as it is.
BaseOfNow(i) == graph.revision

Base(i) == drafts[i].base

\* An intent that can get to its patch.
Promotable(i) == Open /\ drafts[i] # None /\ ~Resolved(i)
Current(i) == Base(i) = graph.revision /\ drafts[i].change # Malformed

PromoteStale(i) ==
  /\ Promotable(i)
  /\ Base(i) # graph.revision
  /\ Leaves(Record(Here, i, "stale"))
  /\ UNCHANGED <<drafts, proposals, bridged, ledger, receipts, synced, life>>

Applied(i) == Record(Propose(Here, Base(i), drafts[i].change), i, "applied")

\* The patch holds, and is applied (or tears) before the outcome is recorded.
PromoteApply(i) ==
  /\ Promotable(i) /\ Current(i)
  /\ Valid(graph, Base(i), drafts[i].change)
  /\ Leaves(Applied(i))
  /\ UNCHANGED <<drafts, proposals, bridged, ledger, receipts, synced, life>>

Refused(i) == Propose(Here, Base(i), drafts[i].change)
Reason(i) == Rejection(graph, Base(i), drafts[i].change)

\* Refused, by this graph or by SDDK's ownership without a bridge to SDDK.
PromoteRefused(i) ==
  /\ Promotable(i) /\ Current(i)
  /\ ~Valid(graph, Base(i), drafts[i].change)
  /\ Reason(i) = "must-be-governed-by-sddk" => ~bridged
  /\ Leaves(Record(Refused(i), i,
       IF Reason(i) = "must-be-governed-by-sddk" THEN "sddk-governed" ELSE "rejected"))
  /\ UNCHANGED <<drafts, proposals, bridged, ledger, receipts, synced, life>>

\* discard_intent looks at no status.
Discard(i) ==
  /\ Open /\ drafts[i] # None
  /\ Leaves(Record(Here, i, "discarded"))
  /\ UNCHANGED <<drafts, proposals, bridged, ledger, receipts, synced, life>>

-----------------------------------------------------------------------------
(* The bridge.                                                              *)

\* SDDK's capability gateway.  Denied and approval-required are one answer
\* here: neither executes anything, and both are recorded in the same way.
GatewayAnswers ==
  {"refused", "failed"} \cup IF Len(receipts) < MaxReceipts THEN {"allowed"} ELSE {}

\* What a submission leaves behind: the store, SDDK's receipts and what was
\* written to the proposal's node.
Submission(st, rs, ps) == [store |-> st, receipts |-> rs, proposals |-> ps]

Submitted(sub) ==
  Leaves(sub.store) /\ receipts' = sub.receipts /\ proposals' = sub.proposals

\* The event of proposal p about intent i: it fails if i or t is not there.
SubmitEvent(st, p, i, t) ==
  AppendTo(st, [EventOf("sddk-proposal-submitted", p, t, NoProps) EXCEPT !.also = <<i>>])

ProposalOf(i, t, decision, receipt) ==
  [made |-> TRUE, intent |-> i, target |-> t, decision |-> decision, receipt |-> receipt]

\* Mutant of Submit: the event is appended before SDDK is asked, and names no
\* receipt.
SubmitUnreceipted(st, i, t, answer, evaluation) ==
  LET p  == CHOOSE s \in Fresh(Proposals, st.graph) : TRUE
      st2 == SubmitEvent(st, p, i, t)
      rs  == IF answer = "allowed"
             THEN Append(receipts, [intent |-> i, known |-> Exists(st.graph, i),
                                    life |-> life, for |-> evaluation])
             ELSE receipts
  IN Submission(st2, rs, IF st2.ok
       THEN [proposals EXCEPT ![p] = ProposalOf(i, t, answer, 0)] ELSE proposals)

\* submit_evidence_proposal: SDDK decides and writes its receipt, then the
\* decision is appended here.
Submit(st, i, t, answer, evaluation) ==
  LET p  == CHOOSE s \in Fresh(Proposals, st.graph) : TRUE
      st2 == SubmitEvent(st, p, i, t)
      rs  == IF answer = "allowed"
             THEN Append(receipts, [intent |-> i, known |-> Exists(st.graph, i),
                                    life |-> life, for |-> evaluation])
             ELSE receipts
  IN Submission(st2, rs, IF st2.ok
       THEN [proposals EXCEPT ![p] =
               ProposalOf(i, t, answer, IF answer = "allowed" THEN Len(rs) ELSE 0)]
       ELSE proposals)

\* The outcome is recorded behind the submission.
PromoteSubmitted(i, sub) ==
  Submitted(Submission(Record(sub.store, i, "submitted"), sub.receipts, sub.proposals))

\* A refusal for SDDK's ownership, handed to SDDK; what the gateway decides
\* about is the intent's target.  The intent is submitted unless SDDK fails,
\* which leaves the rejection of the patch and the intent a draft.
PromoteSubmit(i, answer) ==
  /\ Promotable(i) /\ Current(i) /\ bridged
  /\ ~Valid(graph, Base(i), drafts[i].change)
  /\ Reason(i) = "must-be-governed-by-sddk"
  /\ Fresh(Proposals, graph) # {}
  /\ IF answer = "failed"
     THEN Leaves(Refused(i)) /\ UNCHANGED <<receipts, proposals>>
     ELSE PromoteSubmitted(i, Submit(Refused(i), i, drafts[i].target, answer, None))
  /\ UNCHANGED <<drafts, bridged, ledger, synced, life>>

\* A subject that is not there yet is defined as an observation.
Materialised(st, t) ==
  IF Exists(st.graph, t) THEN st
  ELSE AppendTo(st, EventOf("subject-defined", t, NoSubject, NoProps))

\* An evaluation below a proposal is an event of its own and never asks SDDK.
NotProposed(st, i, t) ==
  LET p   == CHOOSE s \in Fresh(Proposals, st.graph) : TRUE
      st2 == SubmitEvent(st, p, i, t)
  IN Submission(st2, receipts, IF st2.ok
       THEN [proposals EXCEPT ![p] = ProposalOf(i, t, "not-proposed", 0)]
       ELSE proposals)

Evaluated(st, i, t, e, answer) ==
  IF Classify(e) = "sddk-proposal" THEN Submit(st, i, t, answer, e)
  ELSE NotProposed(st, i, t)

\* The handler leaves where SDDK fails, with what it appended until then.
PulledUp(st, i, t, e, answer) ==
  IF answer = "failed"
  THEN Leaves(st) /\ UNCHANGED <<receipts, proposals>>
  ELSE Submitted(Evaluated(st, i, t, e, answer))

PullUpPossible(answer, e) ==
  /\ Open /\ bridged /\ Fresh(Proposals, graph) # {}
  /\ Classify(e) # "sddk-proposal" => answer = "refused"     \* it is not asked

\* post_sddk_pull_up for an intent the caller names: any id, drafted or not.
PullUpFor(i, t, e, answer) ==
  /\ PullUpPossible(answer, e)
  /\ PulledUp(Materialised(Here, t), i, t, e, answer)
  /\ UNCHANGED <<drafts, bridged, ledger, synced, life>>

\* The same without an intent: one is drafted, with no operations.
PullUpDrafting(t, e, answer) ==
  /\ PullUpPossible(answer, e)
  /\ Fresh(Intents, graph) # {}
  /\ LET i == CHOOSE s \in Fresh(Intents, graph) : TRUE
         there == Materialised(Here, t)
     IN /\ drafts' = [drafts EXCEPT ![i] =
             [made |-> TRUE, target |-> t, base |-> there.graph.revision + 1,
              change |-> << >>]]
        /\ PulledUp(Drafted(there, i, t), i, t, e, answer)
  /\ UNCHANGED <<bridged, ledger, synced, life>>

-----------------------------------------------------------------------------
(* Workflow sync.                                                           *)

Of(c, length) == {n \in 1..length : ledger[n] = c}
Newest(S) == CHOOSE n \in S : \A k \in S : k <= n

\* Mutant of SyncEvent: every run of the sync makes events of its own.
SyncEventFresh(st, c) ==
  EventOf(IF Exists(st.graph, c) THEN "subject-updated" ELSE "subject-defined",
          c, NoSubject, Prop(Cursor, Sequence(Newest(Of(c, Len(ledger))))))

\* The cycle as its latest ledger event has it.
SyncEvent(st, c) ==
  [EventOf(IF Exists(st.graph, c) THEN "subject-updated" ELSE "subject-defined",
           c, NoSubject, Prop(Cursor, Sequence(Newest(Of(c, Len(ledger))))))
   EXCEPT !.id = SyncId(c, Newest(Of(c, Len(ledger))))]

FromProject(c) == Fact(c, "derives_from", Project, "derived")

Derived(st, c) ==
  IF Related(st.graph, FromProject(c)) THEN st
  ELSE AppendTo(st, [EventOf("relation-declared", c, Project, NoProps)
                     EXCEPT !.relation = "derives_from"])

\* Mutant of SyncCycle: a cycle that is skipped is skipped for good.
SyncCycleIfNew(st, c) == IF Exists(st.graph, c) THEN st
                         ELSE Derived(AppendOnce(st, SyncEvent(st, c)), c)

SyncCycle(st, c) == Derived(AppendOnce(st, SyncEvent(st, c)), c)

Observed == {c \in Cycles : Of(c, Len(ledger)) # {}}

\* The cycles of the ledger in an order of their ids, each once.
Orders ==
  { order \in UNION {[1..k -> Observed] : k \in 0..Len(ledger)} :
      \A c \in Observed : \E i \in DOMAIN order :
        order[i] = c /\ \A j \in DOMAIN order : order[j] = c => i = j }

\* The store after the project and the first n cycles, for every n.
SyncRuns(order) ==
  LET run[n \in 0..Len(order)] ==
        IF n = 0 THEN Materialised(Here, Project) ELSE SyncCycle(run[n-1], order[n])
  IN run

Synced(order) == SyncRuns(order)[Len(order)]

SyncWorkflow ==
  /\ Open /\ bridged
  /\ \E order \in Orders : Leaves(Synced(order))
  /\ synced' = Len(ledger)
  /\ UNCHANGED <<drafts, proposals, bridged, ledger, receipts, life>>

-----------------------------------------------------------------------------
(* Everybody else.                                                          *)

\* SDDK commits a workflow event.
SddkCommits(c) ==
  /\ Len(ledger) < MaxLedger
  /\ ledger' = Append(ledger, c)
  /\ UNCHANGED <<log, graph, drafts, proposals, bridged, receipts, synced, life>>

\* Another client's event.
PostEvent(e) ==
  /\ Open /\ ~Holds(Here, e.id)
  /\ Leaves(AppendTo(Here, e))
  /\ UNCHANGED <<drafts, proposals, bridged, ledger, receipts, synced, life>>

\* The process ends, with its log; the next one may have the bridge or not.
Restart ==
  /\ life < MaxLives
  /\ life' = life + 1
  /\ log' = << >> /\ graph' = EmptyGraph
  /\ drafts' = [i \in Intents |-> None]
  /\ proposals' = [p \in Proposals |-> None]
  /\ synced' = 0
  /\ bridged' \in BOOLEAN
  /\ UNCHANGED <<ledger, receipts>>

GovNext ==
  \/ \E gesture \in Gestures : DraftIntent(gesture[1], gesture[2])
  \/ \E i \in Intents : PromoteStale(i) \/ PromoteApply(i) \/ PromoteRefused(i) \/ Discard(i)
  \/ \E answer \in GatewayAnswers :
       \/ \E i \in Intents : PromoteSubmit(i, answer)
       \/ \E e \in Evaluations :
            \/ \E i \in Intents : PullUpFor(i, Project, e, answer)
            \/ PullUpDrafting(Project, e, answer)
  \/ SyncWorkflow
  \/ \E c \in Cycles : SddkCommits(c)
  \/ \E e \in Events : PostEvent(e)
  \/ Restart

GovSpec == GovInit /\ [][GovNext]_govVars

-----------------------------------------------------------------------------
Kind(n) == log[n].event.kind
StatusSet(n) == log[n].event.props[Status]

\* An event the server made itself, whatever clients post.
Made(n) == log[n].event.id = FreshId

\* A change enters the graph by promotion only as the very next revision after
\* its draft was made, with no event of anybody else in between, and its
\* outcome directly follows it: no promotion stops in between, and none says
\* "applied" of a change that is not there.
AppliedAsPreviewed ==
  \A n \in DOMAIN log : Made(n) =>
    /\ Kind(n) = "patch-applied" =>
         n < Len(log) /\ Kind(n+1) = "intent-promoted" /\ StatusSet(n+1) = "applied"
    /\ Kind(n) = "intent-promoted" /\ StatusSet(n) = "applied" =>
         LET i == log[n].event.subject IN
           /\ n > 1 /\ Kind(n-1) = "patch-applied"
           /\ log[n-1].event.ops = drafts[i].change
           /\ \E d \in 1..(n-2) :
                /\ Kind(d) = "intent-drafted" /\ log[d].event.subject = i
                /\ \A k \in (d+1)..(n-2) : Kind(k) = "patch-rejected"

\* Whether an event writes a property of s, as its own subject or by a patch.
Writes(e, s, key) ==
  \/ e.subject = s /\ e.props[key] # Unset
  \/ /\ e.kind = "patch-applied"
     /\ \E j \in DOMAIN e.ops : /\ e.ops[j].op = "upsert" /\ e.ops[j].subject = s
                               /\ e.ops[j].props[key] # Unset

\* What others may write: a client posts an event, a change is promoted that
\* writes it.
WrittenByOthers(s, key) ==
  \/ \E e \in Events : PostEvent(e) /\ Writes(e, s, key)
  \/ \E i \in Intents : PromoteApply(i)
                       /\ Writes(PatchEvent("patch-applied", drafts[i].change), s, key)

\* An intent is resolved once: whatever is promoted, retried and discarded in
\* whatever order, the only thing that can still happen to a resolved intent is
\* that it is discarded (discard_intent would do that to an applied one too),
\* unless a client writes the status of an intent itself.
ResolvedOnce ==
  [][ \A i \in Intents :
        (drafts[i] # None /\ drafts'[i] # None /\ life' = life /\ StatusOf(i) # "draft") =>
           \/ graph'.subjects[i].props[Status] \in {StatusOf(i), "discarded"}
           \/ WrittenByOthers(i, Status) ]_govVars

\* What the bridge submits is on record on both sides: of the receipts SDDK
\* issued in this life of the server each is in exactly one proposal, about
\* the same intent, except those for an intent that was never drafted, whose
\* event cannot be appended after the fact; and no proposal that SDDK did not
\* allow claims a receipt.
ReceiptsRecorded ==
  /\ \A n \in DOMAIN receipts : receipts[n].life = life =>
       LET on == {p \in Proposals : proposals[p] # None /\ proposals[p].receipt = n}
       IN IF receipts[n].known
          THEN Cardinality(on) = 1 /\ \A p \in on : proposals[p].intent = receipts[n].intent
          ELSE on = {}
  /\ \A p \in Proposals : proposals[p] # None =>
       (proposals[p].decision = "allowed" <=> proposals[p].receipt # 0)

\* A pull-up reaches SDDK only with an evaluation that also passes the check a
\* caller makes who asks for a proposal (validate_for).
PullUpsEarned ==
  \A n \in DOMAIN receipts :
    receipts[n].for # None => ValidateFor(receipts[n].for, "sddk-proposal") = "ok"

\* A sync that finds nothing new in SDDK's ledger appends nothing (bridge
\* lib.rs, on sync_workflow), whatever happened to the graph since the last.
SyncIdempotent ==
  (bridged /\ synced = Len(ledger) /\ synced > 0) =>
    \A order \in Orders : Synced(order).log = log

\* Someone other than the sync has written the cursor of cycle c after entry n.
Overwritten(c, n) == \E k \in (n+1)..Len(log) : Writes(log[k].event, c, Cursor)

\* The log projects to the cursor that c has.  It does not where an append that
\* tore has written the cursor: that is in the graph and not in the log.
Accounted(c) ==
  LET replayed == Replayed(log)
  IN /\ replayed.ok
     /\ replayed.graph.subjects[c].props[Cursor] = graph.subjects[c].props[Cursor]

\* After a sync every cycle of the ledger is in the graph, tied to the project,
\* the log has the event of its newest entry, and its cursor is as new as the
\* ledger was then, also in a server that was restarted and has lost its log;
\* only a later write of someone else, in the log or torn, can hide that.
SyncReflectsLedger ==
  \A c \in Cycles : Of(c, synced) # {} =>
    LET n == Newest(Of(c, synced)) IN
    /\ Exists(graph, c) /\ Related(graph, FromProject(c))
    /\ \E k \in DOMAIN log :
         /\ log[k].event.id = SyncId(c, n)
         /\ \/ graph.subjects[c].props[Cursor] = Sequence(n)
            \/ Overwritten(c, k)
            \/ ~Accounted(c)
=============================================================================
