--------------------------------- MODULE Tools ---------------------------------
(***************************************************************************)
(* The unified tool catalog: MCP servers and their connections, scoped     *)
(* grants, and the calls of the turn that holds the store's write lock.    *)
(*                                                                         *)
(* Only the turn waits for that lock.  Registering, deleting, refreshing   *)
(* and granting take small locks of their own, one at a time, so they run  *)
(* between any two steps of a turn and of each other; a turn works with    *)
(* the catalog that was built before it got the lock.                      *)
(***************************************************************************)
EXTENDS Naturals, Sequences, FiniteSets, Bags

CONSTANTS
  Servers,      \* names of MCP servers, as their places in the order of names
  ToolNames,    \* names of tools on the remote servers
  Ids,          \* catalog ids
  CatalogId,    \* the id of a server's tool: both names sanitized
  RemoteName,   \* the tool name read back from a server's id
  Listings,     \* per server, what it advertises, time after time
  MaxConns,     \* bound on the connections ever made
  MaxSessions,  \* bound on the sessions of one connection
  MaxLost,      \* bound on the connections whose transport ever closes
  MaxHandlers,  \* bound on the management requests under way
  MaxGiven      \* bound on the calls ever granted for a tool

Hints == {"read-only", "destructive", "silent"}

ASSUME ToolsAssumption ==
  /\ Servers \subseteq Nat
  /\ CatalogId \in [Servers -> [ToolNames -> Ids]]
  /\ RemoteName \in [Servers -> [Ids -> ToolNames]]
  /\ \A s \in Servers : Listings[s] \in Seq(Seq([name : ToolNames, hint : Hints]))
                        /\ Len(Listings[s]) >= 1
  /\ \A s \in Servers, n \in ToolNames :
       LET id == CatalogId[s][n] IN CatalogId[s][RemoteName[s][id]] = id
  /\ MaxConns \in Nat /\ MaxSessions \in Nat /\ MaxLost \in Nat /\ MaxGiven \in Nat

VARIABLES
  offer,       \* per server, which of its listings it advertises now
  conns,       \* the McpConnection objects ever made
  registered,  \* McpManager.connections: server to connection, 0 for none
  disabled,    \* McpManager.disabled
  handlers,    \* a bag: the management requests between two of their steps
  grants,      \* GrantStore.grants: the calls left, 0 for no grant
  denied,      \* GrantStore.denied
  turn,        \* the turn under way: its catalog and its call
  given,       \* history: the calls ever granted for each id
  runs,        \* history: how often each id's tool ran on a grant
  free         \* history: what ran without a grant

toolVars == <<offer, conns, registered, disabled, handlers, grants, denied,
              turn, given, runs, free>>

\* known: the listing behind the descriptors; session: how often it was opened,
\* and at which listing; overlapped: the last refresh was one of an earlier session.
Connection == [server : Servers, known : Nat, open : BOOLEAN, session : Nat,
               opened : Nat, overlapped : BOOLEAN]

Consequences == {"read-only", "write", "destructive"}
Entry == [id : Ids, remote : ToolNames, consequence : Consequences,
          conn : Nat, known : Nat]

NoCall == [stage |-> "none"]
Call == [stage : {"sent", "ran", "lost"}, attempt : 1..2, id : Ids, entry : Entry,
         paid : BOOLEAN]
NoTurn == [catalog |-> << >>, call |-> NoCall, on |-> FALSE]

\* The fields of a request are what it has looked up: two may be just the same.
Handler == [op : {"register", "delete", "revoke", "disable", "enable"}, server : Servers,
            conn : Nat]
     \cup [op : {"grant"}, id : Ids, calls : 1..MaxGiven]
     \cup [op : {"refresh"}, conn : Nat, known : Nat, session : Nat]

UnderWay == BagToSet(handlers)
Begun(h) == handlers (+) SetToBag({h})
Done(h) == handlers (-) SetToBag({h})

ToolsTypeOK ==
  /\ \A c \in DOMAIN conns : conns[c] \in Connection
  /\ registered \in [Servers -> 0..Len(conns)]
  /\ disabled \subseteq Servers
  /\ IsABag(handlers) /\ UnderWay \subseteq Handler
  /\ grants \in [Ids -> 0..MaxGiven] /\ denied \subseteq Ids
  /\ turn.call # NoCall => turn.on /\ turn.call \in Call
  /\ DOMAIN turn.catalog \subseteq Servers
  /\ \A s \in DOMAIN turn.catalog : turn.catalog[s] \in Seq(Entry)

ToolsInit ==
  /\ offer = [s \in Servers |-> 1]
  /\ conns = << >>
  /\ registered = [s \in Servers |-> 0]
  /\ disabled = {} /\ handlers = EmptyBag
  /\ grants = [i \in Ids |-> 0]
  /\ denied \in SUBSET Ids
  /\ turn = NoTurn
  /\ given = [i \in Ids |-> 0] /\ runs = [i \in Ids |-> 0]
  /\ free = {}

-----------------------------------------------------------------------------
(* The catalog.                                                             *)

\* Mutant of Consequence: a server that says nothing is believed harmless.
ConsequenceTrusting(hint) ==
  IF hint = "destructive" THEN "destructive" ELSE "read-only"

\* consequence_from_annotations
Consequence(hint) == IF hint = "silent" THEN "write" ELSE hint

\* mcp_tool_descriptor and entries: the id of each tool that is known, and the
\* remote name that is read back from the id.
Entries(c) ==
  LET s == conns[c].server
      listing == Listings[s][conns[c].known]
  IN [i \in DOMAIN listing |->
        [id |-> CatalogId[s][listing[i].name],
         remote |-> RemoteName[s][CatalogId[s][listing[i].name]],
         consequence |-> Consequence(listing[i].hint),
         conn |-> c, known |-> conns[c].known]]

\* McpManager::connections: registered and not disabled.
Enabled == {s \in Servers : registered[s] # 0 /\ s \notin disabled}

\* unified_catalog: what each of them lists, server by server.
Catalog == [s \in Enabled |-> Entries(registered[s])]

Least(S) == CHOOSE n \in S : \A k \in S : n <= k

PlacesOf(listed, id) == {i \in DOMAIN listed : listed[i].id = id}
ServersOf(catalog, id) == {s \in DOMAIN catalog : PlacesOf(catalog[s], id) # {}}

Listed(catalog, id) == ServersOf(catalog, id) # {}

\* ToolRegistry::get: the first entry with that id.
Get(catalog, id) ==
  LET listed == catalog[Least(ServersOf(catalog, id))]
  IN listed[Least(PlacesOf(listed, id))]

-----------------------------------------------------------------------------
(* Servers: McpManager and the handlers of /mcp/servers.                    *)

\* McpConnection::open: a session, and the listing of the moment.
Opened(s, session) ==
  [server |-> s, known |-> offer[s], open |-> TRUE, session |-> session,
   opened |-> offer[s], overlapped |-> FALSE]

\* The name is free; the handler goes on to connect, without a lock, and so does
\* another that asks before this one is done.
RegisterBegin(s) ==
  /\ registered[s] = 0
  /\ Len(conns) < MaxConns
  /\ handlers' = Begun([op |-> "register", server |-> s, conn |-> 0])
  /\ UNCHANGED <<offer, conns, registered, disabled, grants, denied, turn, given, runs, free>>

\* The connection is inserted, in the place of one that was quicker: that stays
\* open as long as a turn has it in its catalog.
RegisterInsert(h) ==
  /\ h.op = "register" /\ Len(conns) < MaxConns
  /\ conns' = Append(conns, Opened(h.server, 1))
  /\ registered' = [registered EXCEPT ![h.server] = Len(conns')]
  /\ handlers' = Done(h)
  /\ UNCHANGED <<offer, disabled, grants, denied, turn, given, runs, free>>

RegisterFail(h) ==
  /\ h.op = "register"
  /\ handlers' = Done(h)
  /\ UNCHANGED <<offer, conns, registered, disabled, grants, denied, turn, given, runs, free>>

\* take: first the mark ...
DeleteBegin(s) ==
  /\ disabled' = disabled \ {s}
  /\ handlers' = Begun([op |-> "delete", server |-> s, conn |-> 0])
  /\ UNCHANGED <<offer, conns, registered, grants, denied, turn, given, runs, free>>

\* ... then the connection; nothing is left to do if there is none ...
DeleteTake(h) ==
  /\ h.op = "delete"
  /\ registered' = [registered EXCEPT ![h.server] = 0]
  /\ handlers' = IF registered[h.server] = 0 THEN Done(h)
                  ELSE Done(h) (+) SetToBag({[op |-> "revoke", server |-> h.server,
                                              conn |-> registered[h.server]]})
  /\ UNCHANGED <<offer, conns, disabled, grants, denied, turn, given, runs, free>>

\* ... and the grants and denials of the tools it lists now.
DeleteRevoke(h) ==
  /\ h.op = "revoke"
  /\ LET gone == {Entries(h.conn)[i].id : i \in DOMAIN Entries(h.conn)} IN
       /\ grants' = [i \in Ids |-> IF i \in gone THEN 0 ELSE grants[i]]
       /\ denied' = denied \ gone
  /\ handlers' = Done(h)
  /\ UNCHANGED <<offer, conns, registered, disabled, turn, given, runs, free>>

\* set_disabled looks the server up, and marks it later.
DisableBegin(s, op) ==
  /\ registered[s] # 0
  /\ handlers' = Begun([op |-> op, server |-> s, conn |-> 0])
  /\ UNCHANGED <<offer, conns, registered, disabled, grants, denied, turn, given, runs, free>>

DisableMark(h) ==
  /\ h.op \in {"disable", "enable"}
  /\ disabled' = IF h.op = "disable" THEN disabled \cup {h.server}
                 ELSE disabled \ {h.server}
  /\ handlers' = Done(h)
  /\ UNCHANGED <<offer, conns, registered, grants, denied, turn, given, runs, free>>

\* refresh: the session answers with its listing ...
RefreshAnswer(s) ==
  /\ registered[s] # 0 /\ conns[registered[s]].open
  /\ handlers' = Begun([op |-> "refresh", conn |-> registered[s], known |-> offer[s],
                                 session |-> conns[registered[s]].session])
  /\ UNCHANGED <<offer, conns, registered, disabled, grants, denied, turn, given, runs, free>>

\* ... which replaces what is known by then, of whatever session.
RefreshStore(h) ==
  /\ h.op = "refresh"
  /\ conns' = [conns EXCEPT ![h.conn].known = h.known,
                            ![h.conn].overlapped = h.session # conns[h.conn].session]
  /\ handlers' = Done(h)
  /\ UNCHANGED <<offer, registered, disabled, grants, denied, turn, given, runs, free>>

-----------------------------------------------------------------------------
(* Grants: the handlers of /tools.                                          *)

GrantBegin(id, n) ==
  /\ Listed(Catalog, id) /\ id \notin denied
  /\ given[id] + n <= MaxGiven
  /\ handlers' = Begun([op |-> "grant", id |-> id, calls |-> n])
  /\ UNCHANGED <<offer, conns, registered, disabled, grants, denied, turn, given, runs, free>>

\* grant replaces what is left of the last one.
GrantStored(h) ==
  /\ h.op = "grant" /\ given[h.id] + h.calls <= MaxGiven
  /\ grants' = [grants EXCEPT ![h.id] = h.calls]
  /\ given' = [given EXCEPT ![h.id] = @ + h.calls]
  /\ handlers' = Done(h)
  /\ UNCHANGED <<offer, conns, registered, disabled, denied, turn, runs, free>>

Revoke(id) ==
  /\ grants[id] # 0
  /\ grants' = [grants EXCEPT ![id] = 0]
  /\ UNCHANGED <<offer, conns, registered, disabled, handlers, denied, turn, given, runs, free>>

-----------------------------------------------------------------------------
(* The turn and its calls.                                                  *)

\* The catalog as it is when the request comes in.
TurnBegin ==
  /\ ~turn.on
  /\ turn' = [catalog |-> Catalog, call |-> NoCall, on |-> TRUE]
  /\ UNCHANGED <<offer, conns, registered, disabled, handlers, grants, denied, given, runs, free>>

\* The turn is over, or its client has left, also in the middle of a call.
TurnEnd ==
  /\ turn.on
  /\ turn' = NoTurn
  /\ UNCHANGED <<offer, conns, registered, disabled, handlers, grants, denied, given, runs, free>>

Asked(id, paid) ==
  turn' = [turn EXCEPT !.call =
             [stage |-> "sent", attempt |-> 1, id |-> id,
              entry |-> Get(turn.catalog, id), paid |-> paid]]

Callable(id) ==
  turn.on /\ turn.call = NoCall /\ Listed(turn.catalog, id) /\ id \notin denied

\* Mutant of Spent: the last call of a grant is free.
SpentIfMany(id) == [grants EXCEPT ![id] = IF @ > 1 THEN @ - 1 ELSE @]

\* GrantStore::consume, before anything is executed.
Spent(id) == [grants EXCEPT ![id] = @ - 1]

\* ToolRegistry::invoke: a read-only tool needs no grant ...
InvokeFree(id) ==
  /\ Callable(id) /\ Get(turn.catalog, id).consequence = "read-only"
  /\ Asked(id, FALSE)
  /\ UNCHANGED <<offer, conns, registered, disabled, handlers, grants, denied, given, runs, free>>

\* ... any other spends a call of it first.  Without one, or denied, or gone
\* from the catalog, it is refused and nothing changes.
InvokePaid(id) ==
  /\ Callable(id) /\ Get(turn.catalog, id).consequence # "read-only"
  /\ grants[id] > 0
  /\ grants' = Spent(id)
  /\ Asked(id, TRUE)
  /\ UNCHANGED <<offer, conns, registered, disabled, handlers, denied, given, runs, free>>

At(stages) == turn.on /\ turn.call.stage \in stages
On == conns[turn.call.entry.conn]

\* The session is up and the server has a tool of that name now: it runs.
ToolRuns ==
  /\ At({"sent"}) /\ On.open
  /\ LET e == turn.call.entry
         listing == Listings[On.server][offer[On.server]]
     IN /\ \E i \in DOMAIN listing : listing[i].name = e.remote
        /\ IF turn.call.paid
           THEN runs' = [runs EXCEPT ![turn.call.id] = @ + 1] /\ UNCHANGED free
           ELSE /\ free' = free \cup
                     {[server |-> On.server, id |-> e.id, remote |-> e.remote,
                       known |-> e.known]}
                /\ UNCHANGED runs
  /\ turn' = [turn EXCEPT !.call.stage = "ran"]
  /\ UNCHANGED <<offer, conns, registered, disabled, handlers, grants, denied, given>>

\* The answer, or an error of a session that is still up.
CallAnswered ==
  /\ At({"sent", "ran"}) /\ On.open
  /\ turn' = [turn EXCEPT !.call = NoCall]
  /\ UNCHANGED <<offer, conns, registered, disabled, handlers, grants, denied, given, runs, free>>

\* An error, and the transport is closed: once, the connection is reopened.
CallFails ==
  /\ At({"sent", "ran"}) /\ ~On.open
  /\ turn' = IF turn.call.attempt = 1 THEN [turn EXCEPT !.call.stage = "lost"]
             ELSE [turn EXCEPT !.call = NoCall]
  /\ UNCHANGED <<offer, conns, registered, disabled, handlers, grants, denied, given, runs, free>>

\* Mutant of Reopened: the descriptors of the old session are kept.
ReopenedAsWas(c) ==
  [Opened(c.server, c.session + 1) EXCEPT !.known = c.known]

Reopened(c) == Opened(c.server, c.session + 1)

\* reconnect swaps the session and the descriptors; then the call goes again,
\* whether or not the tool has run.
Reconnect ==
  /\ At({"lost"})
  /\ conns' = [conns EXCEPT ![turn.call.entry.conn] = Reopened(@)]
  /\ turn' = [turn EXCEPT !.call.stage = "sent", !.call.attempt = 2]
  /\ UNCHANGED <<offer, registered, disabled, handlers, grants, denied, given, runs, free>>

ReconnectFails ==
  /\ At({"lost"})
  /\ turn' = [turn EXCEPT !.call = NoCall]
  /\ UNCHANGED <<offer, conns, registered, disabled, handlers, grants, denied, given, runs, free>>

-----------------------------------------------------------------------------
(* The servers themselves.                                                  *)

\* Who has the connection: the manager, a request, or the turn by its catalog.
\* One that nobody has is dropped.
Held(c) ==
  \/ \E s \in Servers : registered[s] = c
  \/ \E h \in UnderWay : h.op \in {"refresh", "revoke"} /\ h.conn = c
  \/ \E s \in DOMAIN turn.catalog : \E i \in DOMAIN turn.catalog[s] : turn.catalog[s][i].conn = c

TransportCloses(c) ==
  /\ Held(c)
  /\ conns[c].open /\ conns[c].session < MaxSessions
  /\ Cardinality({d \in DOMAIN conns : d # c /\ (~conns[d].open \/ conns[d].session > 1)})
       < MaxLost
  /\ conns' = [conns EXCEPT ![c].open = FALSE]
  /\ UNCHANGED <<offer, registered, disabled, handlers, grants, denied, turn, given, runs, free>>

OfferChanges(s) ==
  /\ offer[s] < Len(Listings[s])
  /\ offer' = [offer EXCEPT ![s] = @ + 1]
  /\ UNCHANGED <<conns, registered, disabled, handlers, grants, denied, turn, given, runs, free>>

Requests ==
  \/ \E s \in Servers : RegisterBegin(s) \/ DeleteBegin(s) \/ RefreshAnswer(s)
  \/ \E s \in Servers, op \in {"disable", "enable"} : DisableBegin(s, op)
  \/ \E id \in Ids, n \in 1..MaxGiven : GrantBegin(id, n)

Continue(h) ==
  \/ RegisterInsert(h) \/ RegisterFail(h)
  \/ DeleteTake(h) \/ DeleteRevoke(h)
  \/ DisableMark(h) \/ RefreshStore(h) \/ GrantStored(h)

Calls ==
  \/ TurnBegin \/ TurnEnd
  \/ \E id \in Ids : InvokeFree(id) \/ InvokePaid(id)
  \/ ToolRuns \/ CallAnswered \/ CallFails \/ Reconnect \/ ReconnectFails

ToolsNext ==
  \/ BagCardinality(handlers) < MaxHandlers /\ Requests
  \/ \E id \in Ids : Revoke(id)
  \/ \E h \in UnderWay : Continue(h)
  \/ Calls
  \/ \E c \in DOMAIN conns : TransportCloses(c)
  \/ \E s \in Servers : OfferChanges(s)

ToolsSpec == ToolsInit /\ [][ToolsNext]_toolVars

-----------------------------------------------------------------------------
\* A tool that writes runs at most twice for every call it was ever granted,
\* over all turns, refusals, failures, reconnections and replaced servers: the
\* second time only because a call is repeated whose transport closed.
RunsBounded == \A id \in Ids : runs[id] <= 2 * given[id]

\* The tools of a listing that have an id; if there are several, the first hides
\* the others.
HavingId(s, listing, id) == {i \in DOMAIN listing : CatalogId[s][listing[i].name] = id}
Hidden(s, listing, i) ==
  \E j \in 1..(i-1) : CatalogId[s][listing[j].name] = CatalogId[s][listing[i].name]

\* An MCP tool can never sneak in as read-only (mcp.rs), whatever was listed,
\* reconnected, replaced or granted since the turn's catalog was made: in the
\* listing behind that, the server itself had the first tool of the id called as
\* read-only, and so whatever it lists under the very name that ran - except
\* what is hidden behind a tool of another name and the same id.
NoneSneaksIn ==
  \A f \in free :
    LET listing == Listings[f.server][f.known]
        called  == HavingId(f.server, listing, f.id)
    IN /\ called # {} /\ listing[Least(called)].hint = "read-only"
       /\ \A i \in DOMAIN listing :
            listing[i].name = f.remote /\ ~Hidden(f.server, listing, i)
              => listing[i].hint = "read-only"

\* What a connection lists is never older than its session, so a reconnected
\* server is called by what it advertises now, except after a refresh that was
\* answered by a session before and came late, until the next one.
ListingFollowsSession ==
  \A c \in DOMAIN conns : conns[c].overlapped \/ conns[c].known >= conns[c].opened
=============================================================================
