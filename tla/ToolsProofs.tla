------------------------------ MODULE ToolsProofs ------------------------------
(***************************************************************************)
(* What holds of the tools for every number of servers, tools, grants,     *)
(* connections and management requests.                                    *)
(***************************************************************************)
EXTENDS Tools, SequenceTheorems, WellFoundedInduction, TLAPS

-----------------------------------------------------------------------------
(* The requests under way are a bag.  What is proved of them is about each, *)
(* so that it matters which there are, and not how many are alike.          *)

LEMMA RequestsSame == handlers' = handlers => UnderWay' = UnderWay
BY DEF UnderWay

LEMMA NoRequests == handlers = EmptyBag => UnderWay = {}
BY DEF UnderWay, EmptyBag, SetToBag, BagToSet

LEMMA Added ==
  ASSUME NEW B, NEW h
  PROVE  DOMAIN (B (+) SetToBag({h})) = DOMAIN B \cup {h}
BY DEF (+), SetToBag

LEMMA Removed ==
  ASSUME NEW B, NEW h
  PROVE  DOMAIN (B (-) SetToBag({h})) \subseteq DOMAIN B
BY DEF (-), SetToBag

LEMMA RequestBegun ==
  ASSUME NEW h, handlers' = Begun(h)
  PROVE  UnderWay' = UnderWay \cup {h}
<1>1. DOMAIN (handlers (+) SetToBag({h})) = DOMAIN handlers \cup {h}
  BY Added
<1>2. DOMAIN (handlers') = DOMAIN (handlers (+) SetToBag({h}))
  BY DEF Begun
<1> QED BY <1>1, <1>2 DEF UnderWay, BagToSet

LEMMA RequestDone ==
  ASSUME NEW h, handlers' = Done(h)
  PROVE  UnderWay' \subseteq UnderWay
<1>1. DOMAIN (handlers (-) SetToBag({h})) \subseteq DOMAIN handlers
  BY Removed
<1>2. DOMAIN (handlers') = DOMAIN (handlers (-) SetToBag({h}))
  BY DEF Done
<1> QED BY <1>1, <1>2 DEF UnderWay, BagToSet

\* The second step of a deletion may leave a third.
LEMMA RequestTaken ==
  ASSUME NEW h, DeleteTake(h)
  PROVE  \A x \in UnderWay' : x \in UnderWay \/ x.op = "revoke"
<1> DEFINE r == [op |-> "revoke", server |-> h.server, conn |-> registered[h.server]]
<1>1. CASE handlers' = Done(h)
  BY <1>1, RequestDone
<1>2. CASE handlers' = Done(h) (+) SetToBag({r})
  <2>1. DOMAIN (handlers') = DOMAIN Done(h) \cup {r}
    BY <1>2, Added
  <2>2. DOMAIN Done(h) \subseteq DOMAIN handlers
    BY Removed DEF Done
  <2>3. r.op = "revoke"
    OBVIOUS
  <2> HIDE DEF r
  <2> QED BY <2>1, <2>2, <2>3 DEF UnderWay, BagToSet
<1> QED BY <1>1, <1>2 DEF DeleteTake

-----------------------------------------------------------------------------
(* Grants and runs.  RunsBounded alone is not inductive: a call that was    *)
(* paid for is no longer in the grants and not yet in the runs.             *)

\* The calls under way, for whatever entry of the catalog.
CallUnderWay(entry) ==
  [stage : {"sent", "ran", "lost"}, attempt : 1..2, id : Ids, entry : {entry},
   paid : BOOLEAN]

TurnWellFormed ==
  /\ turn = [catalog |-> turn.catalog, call |-> turn.call, on |-> turn.on]
  /\ turn.call # NoCall =>
       /\ turn.call \in CallUnderWay(turn.call.entry)
       /\ turn.call.stage = "lost" => turn.call.attempt = 1

Counted ==
  /\ grants \in [Ids -> Nat] /\ given \in [Ids -> Nat] /\ runs \in [Ids -> Nat]
  /\ \A h \in UnderWay : h.op = "grant" => h.id \in Ids /\ h.calls \in Nat

\* How often the call under way may still run its tool.
Left(id) ==
  IF turn.call = NoCall THEN 0
  ELSE IF ~turn.call.paid \/ turn.call.id # id THEN 0
  ELSE (IF turn.call.stage = "sent" THEN 1 ELSE 0)
       + (IF turn.call.attempt = 1 THEN 1 ELSE 0)

\* Every call ever granted is left, spent or revoked; a spent one runs twice.
Balanced == \A id \in Ids : runs[id] + 2 * grants[id] + Left(id) <= 2 * given[id]

RunsInv == TurnWellFormed /\ Counted /\ Balanced

\* The steps that leave every count and the turn alone.
LEMMA CountsKept ==
  ASSUME RunsInv, UNCHANGED <<grants, given, runs, turn>>,
         \A h \in UnderWay' : h.op = "grant" => h.id \in Ids /\ h.calls \in Nat
  PROVE  RunsInv'
BY DEF RunsInv, TurnWellFormed, Counted, Balanced, Left, CallUnderWay

\* The steps that only take grants away.
LEMMA GrantsLost ==
  ASSUME RunsInv, UNCHANGED <<given, runs, turn>>, grants' \in [Ids -> Nat],
         \A id \in Ids : grants'[id] <= grants[id],
         \A h \in UnderWay' : h \in UnderWay
  PROVE  RunsInv'
<1>1. TurnWellFormed' /\ Counted'
  BY DEF RunsInv, TurnWellFormed, Counted, CallUnderWay
<1>2. \A id \in Ids : Left(id)' = Left(id) /\ Left(id) \in Nat
  BY DEF Left, RunsInv, TurnWellFormed
<1>3. Balanced'
  <2> SUFFICES ASSUME NEW id \in Ids
               PROVE  runs'[id] + 2 * grants'[id] + Left(id)' <= 2 * given'[id]
    BY DEF Balanced
  <2>1. runs[id] + 2 * grants[id] + Left(id) <= 2 * given[id]
    BY DEF RunsInv, Balanced
  <2>2. grants'[id] <= grants[id]
    OBVIOUS
  <2>3. /\ grants[id] \in Nat /\ grants'[id] \in Nat /\ runs[id] \in Nat /\ given[id] \in Nat
        /\ runs'[id] = runs[id] /\ given'[id] = given[id]
    BY DEF RunsInv, Counted
  <2> QED BY <1>2, <2>1, <2>2, <2>3
<1> QED BY <1>1, <1>3 DEF RunsInv

\* A call that is over has no runs left.
LEMMA CallOver ==
  ASSUME RunsInv, UNCHANGED <<grants, given, runs, handlers>>,
         turn' = [turn EXCEPT !.call = NoCall] \/ turn' = NoTurn
           \/ turn' = [catalog |-> Catalog, call |-> NoCall, on |-> TRUE]
  PROVE  RunsInv'
<1>1. turn'.call = NoCall /\ TurnWellFormed'
  BY DEF RunsInv, TurnWellFormed, NoTurn
<1>2. \A id \in Ids : Left(id)' = 0 /\ Left(id) \in Nat
  BY <1>1 DEF Left, RunsInv, TurnWellFormed
<1>3. Counted'
  BY RequestsSame DEF RunsInv, Counted
<1>4. Balanced'
  BY <1>2, <1>3 DEF RunsInv, Counted, Balanced
<1> QED BY <1>1, <1>3, <1>4 DEF RunsInv

LEMMA CallStep ==
  ASSUME RunsInv, UNCHANGED <<handlers, given>>, turn.call # NoCall,
         NEW stage \in {"sent", "ran", "lost"}, NEW attempt \in 1..2,
         stage = "lost" => attempt = 1,
         turn' = [turn EXCEPT !.call = [@ EXCEPT !.stage = stage, !.attempt = attempt]],
         grants' = grants, runs' \in [Ids -> Nat],
         \A id \in Ids : runs'[id] + Left(id)' <= runs[id] + Left(id)
  PROVE  RunsInv'
<1>1. TurnWellFormed'
  BY DEF RunsInv, TurnWellFormed, CallUnderWay, NoCall
<1>2. Counted'
  BY RequestsSame DEF RunsInv, Counted
<1>3. \A id \in Ids : Left(id)' \in Nat /\ Left(id) \in Nat
  BY <1>1 DEF Left, RunsInv, TurnWellFormed
<1>4. Balanced'
  <2> SUFFICES ASSUME NEW id \in Ids
               PROVE  runs'[id] + 2 * grants'[id] + Left(id)' <= 2 * given'[id]
    BY DEF Balanced
  <2>1. runs[id] + 2 * grants[id] + Left(id) <= 2 * given[id]
    BY DEF RunsInv, Balanced
  <2>2. /\ grants[id] \in Nat /\ runs[id] \in Nat /\ given[id] \in Nat /\ runs'[id] \in Nat
        /\ grants'[id] = grants[id] /\ given'[id] = given[id]
    BY DEF RunsInv, Counted
  <2>3. runs'[id] + Left(id)' <= runs[id] + Left(id)
    OBVIOUS
  <2> QED BY <1>3, <2>1, <2>2, <2>3
<1> QED BY <1>1, <1>2, <1>4 DEF RunsInv

\* A call that is sent: to begin with it has no runs left, in the end two if a
\* grant was spent for it.
LEMMA CallSent ==
  ASSUME RunsInv, NEW id \in Ids, turn.call = NoCall, UNCHANGED <<handlers, given, runs>>,
         \/ Asked(id, FALSE) /\ grants' = grants
         \/ Asked(id, TRUE) /\ grants[id] > 0 /\ grants' = Spent(id)
  PROVE  RunsInv'
<1> DEFINE call(paid) == [stage |-> "sent", attempt |-> 1, id |-> id,
                          entry |-> Get(turn.catalog, id), paid |-> paid]
<1>1. PICK paid \in BOOLEAN :
        /\ turn' = [turn EXCEPT !.call = call(paid)]
        /\ IF paid THEN grants[id] > 0 /\ grants' = [grants EXCEPT ![id] = @ - 1]
           ELSE grants' = grants
  BY DEF Asked, Spent
<1>2. turn'.call = call(paid) /\ turn'.call # NoCall
  BY <1>1 DEF RunsInv, TurnWellFormed, NoCall
<1>3. TurnWellFormed'
  BY <1>1, <1>2 DEF RunsInv, TurnWellFormed, CallUnderWay
<1>4. Counted'
  BY <1>1, RequestsSame DEF RunsInv, Counted
<1>5. \A x \in Ids : Left(x) = 0 /\ Left(x)' = IF paid /\ x = id THEN 2 ELSE 0
  BY <1>2 DEF Left
<1>6. Balanced'
  <2> SUFFICES ASSUME NEW x \in Ids
               PROVE  runs'[x] + 2 * grants'[x] + Left(x)' <= 2 * given'[x]
    BY DEF Balanced
  <2>1. runs[x] + 2 * grants[x] + Left(x) <= 2 * given[x]
    BY DEF RunsInv, Balanced
  <2>2. /\ grants[x] \in Nat /\ runs[x] \in Nat /\ given[x] \in Nat
        /\ runs'[x] = runs[x] /\ given'[x] = given[x]
    BY DEF RunsInv, Counted
  <2>3. grants'[x] = IF paid /\ x = id THEN grants[x] - 1 ELSE grants[x]
    BY <1>1 DEF RunsInv, Counted
  <2> QED BY <1>5, <2>1, <2>2, <2>3
<1> QED BY <1>3, <1>4, <1>6 DEF RunsInv

\* Management requests: a grant that is under way is for a tool of the catalog.
LEMMA RequestsKeep ==
  ASSUME RunsInv, Requests
  PROVE  RunsInv'
<1>1. UNCHANGED <<grants, given, runs, turn>>
  BY DEF Requests, RegisterBegin, DeleteBegin, RefreshAnswer, DisableBegin, GrantBegin
<1>2. ASSUME NEW h \in UnderWay', h.op = "grant"
      PROVE  h.id \in Ids /\ h.calls \in Nat
  <2>1. h \in UnderWay => h.id \in Ids /\ h.calls \in Nat
    BY <1>2 DEF RunsInv, Counted
  <2>2. ASSUME NEW id \in Ids, NEW n \in 1..MaxGiven, GrantBegin(id, n)
        PROVE  h.id \in Ids /\ h.calls \in Nat
    <3>1. h \in UnderWay \/ h = [op |-> "grant", id |-> id, calls |-> n]
      BY <1>2, <2>2, RequestBegun DEF GrantBegin
    <3> QED BY <2>1, <3>1, ToolsAssumption
  <2>3. ASSUME NEW s \in Servers, RegisterBegin(s) \/ DeleteBegin(s) \/ RefreshAnswer(s)
        PROVE  h \in UnderWay
    <3>1. \E r : handlers' = Begun(r) /\ r.op # "grant"
      BY <2>3 DEF RegisterBegin, DeleteBegin, RefreshAnswer
    <3> QED BY <1>2, <3>1, RequestBegun
  <2>4. ASSUME NEW s \in Servers, NEW op \in {"disable", "enable"}, DisableBegin(s, op)
        PROVE  h \in UnderWay
    <3>1. \E r : handlers' = Begun(r) /\ r.op # "grant"
      BY <2>4 DEF DisableBegin
    <3> QED BY <1>2, <3>1, RequestBegun
  <2> QED BY <2>1, <2>2, <2>3, <2>4 DEF Requests
<1> QED BY <1>1, <1>2, CountsKept

\* Their second halves: a stored grant brings two runs for each of its calls, a
\* removed server takes the grants of its tools with it.
LEMMA ContinuationsKeep ==
  ASSUME RunsInv, NEW h \in UnderWay, Continue(h)
  PROVE  RunsInv'
<1>1. \A x \in UnderWay : x.op = "grant" => x.id \in Ids /\ x.calls \in Nat
  BY DEF RunsInv, Counted
<1>2. CASE GrantStored(h)
  <2>1. TurnWellFormed'
    BY <1>2 DEF GrantStored, RunsInv, TurnWellFormed, CallUnderWay
  <2>2. Counted'
    BY <1>1, <1>2, RequestDone DEF GrantStored, RunsInv, Counted
  <2>3. Balanced'
    <3> SUFFICES ASSUME NEW id \in Ids
                 PROVE  runs'[id] + 2 * grants'[id] + Left(id)' <= 2 * given'[id]
      BY DEF Balanced
    <3>1. runs[id] + 2 * grants[id] + Left(id) <= 2 * given[id]
      BY DEF RunsInv, Balanced
    <3>2. grants[id] \in Nat /\ runs[id] \in Nat /\ given[id] \in Nat /\ h.calls \in Nat
      BY <1>1, <1>2 DEF GrantStored, RunsInv, Counted
    <3>3. Left(id) \in Nat /\ Left(id)' = Left(id) /\ runs'[id] = runs[id]
      BY <1>2 DEF GrantStored, Left, RunsInv, TurnWellFormed
    <3>4. /\ grants'[id] = IF id = h.id THEN h.calls ELSE grants[id]
          /\ given'[id] = IF id = h.id THEN given[id] + h.calls ELSE given[id]
      BY <1>1, <1>2 DEF GrantStored, RunsInv, Counted
    <3> QED BY <3>1, <3>2, <3>3, <3>4
  <2> QED BY <2>1, <2>2, <2>3 DEF RunsInv
<1>3. CASE DeleteRevoke(h)
  <2>1. /\ UNCHANGED <<given, runs, turn>> /\ \A x \in UnderWay' : x \in UnderWay
        /\ \E gone : grants' = [i \in Ids |-> IF i \in gone THEN 0 ELSE grants[i]]
    BY <1>3, RequestDone DEF DeleteRevoke
  <2>2. grants' \in [Ids -> Nat] /\ \A id \in Ids : grants'[id] <= grants[id]
    BY <2>1 DEF RunsInv, Counted
  <2> QED BY <2>1, <2>2, GrantsLost
<1>4. CASE RegisterInsert(h) \/ RegisterFail(h) \/ DisableMark(h) \/ RefreshStore(h)
  BY <1>1, <1>4, RequestDone, CountsKept
     DEF RegisterInsert, RegisterFail, DisableMark, RefreshStore
<1>5. CASE DeleteTake(h)
  <2>1. \A x \in UnderWay' : x.op = "grant" => x \in UnderWay
    BY <1>5, RequestTaken
  <2> QED BY <1>1, <1>5, <2>1, CountsKept DEF DeleteTake
<1> QED BY <1>2, <1>3, <1>4, <1>5 DEF Continue

\* The turn and its calls.
LEMMA CallsKeep ==
  ASSUME RunsInv, Calls
  PROVE  RunsInv'
<1>1. CASE TurnBegin \/ TurnEnd \/ CallAnswered \/ ReconnectFails
  BY <1>1, CallOver DEF TurnBegin, TurnEnd, CallAnswered, ReconnectFails
<1>2. ASSUME NEW id \in Ids, InvokeFree(id) \/ InvokePaid(id)
      PROVE  RunsInv'
  BY <1>2, CallSent DEF InvokeFree, InvokePaid, Callable
<1>3. CASE ToolRuns
  <2>1. /\ UNCHANGED <<handlers, given, grants>> /\ turn.call.stage = "sent"
        /\ turn' = [turn EXCEPT !.call.stage = "ran"]
        /\ runs' = IF turn.call.paid THEN [runs EXCEPT ![turn.call.id] = @ + 1] ELSE runs
    BY <1>3 DEF ToolRuns, At
  <2>2. turn.call # NoCall /\ turn.call.attempt \in 1..2
    BY <2>1 DEF NoCall, RunsInv, TurnWellFormed, CallUnderWay
  <2>3. turn' = [turn EXCEPT !.call = [@ EXCEPT !.stage = "ran", !.attempt = turn.call.attempt]]
    BY <2>1, <2>2 DEF RunsInv, TurnWellFormed, CallUnderWay
  <2>4. runs' \in [Ids -> Nat]
    BY <2>1, <2>2 DEF RunsInv, TurnWellFormed, Counted, CallUnderWay
  <2>5. ASSUME NEW id \in Ids
        PROVE  runs'[id] + Left(id)' <= runs[id] + Left(id)
    BY <2>1, <2>2, <2>3 DEF Left, NoCall, RunsInv, TurnWellFormed, Counted, CallUnderWay
  <2> QED BY <2>1, <2>2, <2>3, <2>4, <2>5, CallStep
<1>4. CASE CallFails
  <2>1. /\ UNCHANGED <<handlers, given, grants, runs>> /\ turn.call.stage \in {"sent", "ran"}
        /\ turn' = IF turn.call.attempt = 1 THEN [turn EXCEPT !.call.stage = "lost"]
                   ELSE [turn EXCEPT !.call = NoCall]
    BY <1>4 DEF CallFails, At
  <2>2. CASE turn.call.attempt = 1
    <3>1. turn.call # NoCall
      BY <2>1 DEF NoCall
    <3>2. turn' = [turn EXCEPT !.call = [@ EXCEPT !.stage = "lost", !.attempt = 1]]
      BY <2>1, <2>2, <3>1 DEF RunsInv, TurnWellFormed, CallUnderWay
    <3>3. ASSUME NEW id \in Ids
          PROVE  runs'[id] + Left(id)' <= runs[id] + Left(id)
      BY <2>1, <2>2, <3>1, <3>2 DEF Left, NoCall, RunsInv, TurnWellFormed, Counted, CallUnderWay
    <3>4. runs' \in [Ids -> Nat]
      BY <2>1 DEF RunsInv, Counted
    <3> QED BY <2>1, <3>1, <3>2, <3>3, <3>4, CallStep
  <2>3. CASE turn.call.attempt # 1
    BY <2>1, <2>3, CallOver
  <2> QED BY <2>2, <2>3
<1>5. CASE Reconnect
  <2>1. /\ UNCHANGED <<handlers, given, grants, runs>> /\ turn.call.stage = "lost"
        /\ turn' = [turn EXCEPT !.call.stage = "sent", !.call.attempt = 2]
    BY <1>5 DEF Reconnect, At
  <2>2. turn.call # NoCall /\ turn.call.attempt = 1
    BY <2>1 DEF NoCall, RunsInv, TurnWellFormed
  <2>3. turn' = [turn EXCEPT !.call = [@ EXCEPT !.stage = "sent", !.attempt = 2]]
    BY <2>1, <2>2 DEF RunsInv, TurnWellFormed, CallUnderWay
  <2>4. /\ turn'.call.stage = "sent" /\ turn'.call.attempt = 2 /\ turn'.call # NoCall
        /\ turn'.call.id = turn.call.id /\ turn'.call.paid = turn.call.paid
    BY <2>1, <2>2 DEF NoCall, RunsInv, TurnWellFormed, CallUnderWay
  <2>5. ASSUME NEW id \in Ids
        PROVE  runs'[id] + Left(id)' <= runs[id] + Left(id)
    <3>1. Left(id)' = Left(id)
      BY <2>1, <2>2, <2>4 DEF Left
    <3>2. Left(id) \in Nat /\ runs[id] \in Nat /\ runs'[id] = runs[id]
      BY <2>1 DEF Left, RunsInv, Counted
    <3> QED BY <3>1, <3>2
  <2>6. runs' \in [Ids -> Nat]
    BY <2>1 DEF RunsInv, Counted
  <2>7. "sent" \in {"sent", "ran", "lost"} /\ 2 \in 1..2 /\ "sent" # "lost"
    OBVIOUS
  <2> QED BY <2>1, <2>2, <2>3, <2>5, <2>6, <2>7, CallStep
<1> QED BY <1>1, <1>2, <1>3, <1>4, <1>5 DEF Calls

LEMMA RunsInvInit == ToolsInit => RunsInv
BY NoRequests DEF ToolsInit, NoTurn, RunsInv, TurnWellFormed, Counted, Balanced, Left

LEMMA RunsInvNext ==
  ASSUME RunsInv, [ToolsNext]_toolVars
  PROVE  RunsInv'
<1>1. ASSUME NEW id \in Ids, Revoke(id)
      PROVE  RunsInv'
  <2>1. grants' \in [Ids -> Nat] /\ \A x \in Ids : grants'[x] <= grants[x]
    BY <1>1 DEF Revoke, RunsInv, Counted
  <2> QED BY <1>1, <2>1, RequestsSame, GrantsLost DEF Revoke
<1>2. ASSUME \/ \E c \in DOMAIN conns : TransportCloses(c)
             \/ \E s \in Servers : OfferChanges(s)
             \/ UNCHANGED toolVars
      PROVE  RunsInv'
  <2>1. UNCHANGED <<grants, given, runs, turn, handlers>>
    BY <1>2 DEF TransportCloses, OfferChanges, toolVars
  <2> QED BY <2>1, RequestsSame, CountsKept DEF RunsInv, Counted
<1> QED BY <1>1, <1>2, RequestsKeep, ContinuationsKeep, CallsKeep DEF ToolsNext

\* A tool that writes runs at most twice for every call that was ever granted:
\* GrantStore::consume and the one retry of McpConnection::call, for any number
\* of servers, connections, requests and grants.
THEOREM RunsAlwaysBounded == ToolsSpec => []RunsBounded
<1>1. RunsInv => RunsBounded
  <2> SUFFICES ASSUME RunsInv, NEW id \in Ids PROVE runs[id] <= 2 * given[id]
    BY DEF RunsBounded
  <2>1. runs[id] + 2 * grants[id] + Left(id) <= 2 * given[id]
    BY DEF RunsInv, Balanced
  <2>2. /\ grants[id] \in Nat /\ runs[id] \in Nat /\ given[id] \in Nat
        /\ Left(id) \in Nat
    BY DEF RunsInv, TurnWellFormed, Counted, Left
  <2> QED BY <2>1, <2>2
<1> QED BY <1>1, RunsInvInit, RunsInvNext, PTL DEF ToolsSpec

-----------------------------------------------------------------------------
(* Sessions and listings.  A refresh that is under way carries the session  *)
(* that answered it, and a listing at least as new as that session.         *)

ConnectionsTyped ==
  /\ offer \in [Servers -> Nat]
  /\ conns \in Seq(Connection)
  /\ registered \in [Servers -> 0..Len(conns)]
  /\ \A s \in Servers : registered[s] # 0 => conns[registered[s]].server = s
  /\ \A h \in UnderWay :
       /\ h.op = "refresh" => h.conn \in DOMAIN conns /\ h.session \in Nat /\ h.known \in Nat
       /\ h.op \in {"register", "delete"} => h.server \in Servers

OpenedBefore == \A c \in DOMAIN conns : conns[c].opened <= offer[conns[c].server]

RefreshesFollow ==
  \A h \in UnderWay : h.op = "refresh" =>
    /\ h.session <= conns[h.conn].session
    /\ h.session = conns[h.conn].session => h.known >= conns[h.conn].opened

ListingsInv == ConnectionsTyped /\ OpenedBefore /\ RefreshesFollow /\ ListingFollowsSession

LEMMA OpenedIsConnection ==
  ASSUME offer \in [Servers -> Nat], NEW s \in Servers, NEW n \in Nat
  PROVE  /\ Opened(s, n) \in Connection
         /\ Opened(s, n).server = s /\ Opened(s, n).session = n
         /\ Opened(s, n).opened = offer[s] /\ Opened(s, n).known = offer[s]
BY DEF Opened, Connection

LEMMA ConnectionAt ==
  ASSUME ListingsInv, NEW c \in DOMAIN conns
  PROVE  /\ conns[c] \in Connection
         /\ conns[c].server \in Servers /\ offer[conns[c].server] \in Nat
         /\ conns[c].session \in Nat /\ conns[c].opened \in Nat /\ conns[c].known \in Nat
         /\ conns[c].opened <= offer[conns[c].server]
         /\ conns[c].overlapped \/ conns[c].known >= conns[c].opened
<1>1. conns[c] \in Connection
  BY DEF ListingsInv, ConnectionsTyped
<1>2. /\ conns[c].server \in Servers /\ conns[c].session \in Nat
      /\ conns[c].opened \in Nat /\ conns[c].known \in Nat
  BY <1>1 DEF Connection
<1> QED BY <1>1, <1>2 DEF ListingsInv, ConnectionsTyped, OpenedBefore, ListingFollowsSession

\* The steps that change no connection and add no refresh.
LEMMA ConnectionsKept ==
  ASSUME ListingsInv, UNCHANGED <<offer, conns>>,
         registered' \in [Servers -> 0..Len(conns)],
         \A s \in Servers : registered'[s] \in {0, registered[s]},
         \A h \in UnderWay' : \/ h \in UnderWay
                              \/ h.op = "register" /\ h.server \in Servers
                              \/ h.op = "delete" /\ h.server \in Servers
                              \/ h.op \in {"disable", "enable", "revoke", "grant"}
  PROVE  ListingsInv'
<1>1. ConnectionsTyped'
  BY DEF ListingsInv, ConnectionsTyped
<1>2. RefreshesFollow'
  BY DEF ListingsInv, RefreshesFollow
<1>3. OpenedBefore' /\ ListingFollowsSession'
  BY DEF ListingsInv, OpenedBefore, ListingFollowsSession
<1> QED BY <1>1, <1>2, <1>3 DEF ListingsInv

\* The steps that change one connection: not its server, never back to an
\* earlier session, and a new session is opened at what is advertised now.
LEMMA ConnectionChanged ==
  ASSUME ListingsInv, UNCHANGED <<offer, registered>>, \A h \in UnderWay' : h \in UnderWay,
         NEW c \in DOMAIN conns, NEW new \in Connection,
         conns' = [conns EXCEPT ![c] = new],
         new.server = conns[c].server, new.opened <= offer[new.server],
         new.session >= conns[c].session,
         new.session = conns[c].session => new.opened = conns[c].opened,
         new.overlapped \/ new.known >= new.opened
  PROVE  ListingsInv'
<1>1. /\ conns' \in Seq(Connection) /\ Len(conns') = Len(conns)
      /\ DOMAIN conns' = DOMAIN conns
      /\ \A d \in DOMAIN conns : conns'[d] = IF d = c THEN new ELSE conns[d]
  BY DEF ListingsInv, ConnectionsTyped
<1>2. ConnectionsTyped'
  BY <1>1 DEF ListingsInv, ConnectionsTyped
<1>3. RefreshesFollow'
  <2> SUFFICES ASSUME NEW h \in UnderWay, h.op = "refresh"
               PROVE  /\ h.session <= conns'[h.conn].session
                      /\ h.session = conns'[h.conn].session => h.known >= conns'[h.conn].opened
    BY DEF RefreshesFollow
  <2>1. /\ h.session <= conns[h.conn].session
        /\ h.session = conns[h.conn].session => h.known >= conns[h.conn].opened
        /\ h.conn \in DOMAIN conns /\ h.session \in Nat
    BY DEF ListingsInv, ConnectionsTyped, RefreshesFollow
  <2>2. new.session \in Nat /\ conns[h.conn].session \in Nat
    BY <2>1, ConnectionAt DEF Connection
  <2> QED BY <1>1, <2>1, <2>2
<1>4. OpenedBefore' /\ ListingFollowsSession'
  BY <1>1 DEF ListingsInv, OpenedBefore, ListingFollowsSession
<1> QED BY <1>2, <1>3, <1>4 DEF ListingsInv

LEMMA ListingsInvNext ==
  ASSUME ListingsInv, [ToolsNext]_toolVars
  PROVE  ListingsInv'
<1> USE DEF ListingsInv, ConnectionsTyped
<1>1. ASSUME NEW s \in Servers, RegisterBegin(s) \/ DeleteBegin(s)
      PROVE  ListingsInv'
  <2>1. PICK r : handlers' = Begun(r) /\ r.op \in {"register", "delete"} /\ r.server = s
    <3> DEFINE r(op) == [op |-> op, server |-> s, conn |-> 0]
    <3>1. handlers' = Begun(r("register")) \/ handlers' = Begun(r("delete"))
      BY <1>1 DEF RegisterBegin, DeleteBegin
    <3>2. \A op : r(op).op = op /\ r(op).server = s
      OBVIOUS
    <3> HIDE DEF r
    <3> QED BY <3>1, <3>2
  <2>2. \A h \in UnderWay' : h \in UnderWay \/ h = r
    BY <2>1, RequestBegun
  <2>3. UNCHANGED <<offer, conns, registered>>
    BY <1>1 DEF RegisterBegin, DeleteBegin
  <2> QED BY <2>1, <2>2, <2>3, ConnectionsKept
<1>2. ASSUME NEW s \in Servers, NEW op \in {"disable", "enable"}, DisableBegin(s, op)
      PROVE  ListingsInv'
  <2>1. PICK r : handlers' = Begun(r) /\ r.op = op
    BY <1>2 DEF DisableBegin
  <2>2. \A h \in UnderWay' : h \in UnderWay \/ h = r
    BY <2>1, RequestBegun
  <2>3. UNCHANGED <<offer, conns, registered>>
    BY <1>2 DEF DisableBegin
  <2> QED BY <2>1, <2>2, <2>3, ConnectionsKept
<1>3. ASSUME NEW id \in Ids, NEW n \in 1..MaxGiven, GrantBegin(id, n)
      PROVE  ListingsInv'
  <2>1. PICK r : handlers' = Begun(r) /\ r.op = "grant"
    BY <1>3 DEF GrantBegin
  <2>2. \A h \in UnderWay' : h \in UnderWay \/ h = r
    BY <2>1, RequestBegun
  <2>3. UNCHANGED <<offer, conns, registered>>
    BY <1>3 DEF GrantBegin
  <2> QED BY <2>1, <2>2, <2>3, ConnectionsKept
<1>4. ASSUME NEW s \in Servers, RefreshAnswer(s)
      PROVE  ListingsInv'
  <2> DEFINE c == registered[s]
             r == [op |-> "refresh", conn |-> c, known |-> offer[s],
                   session |-> conns[c].session]
  <2>1. /\ UNCHANGED <<offer, conns, registered>> /\ UnderWay' = UnderWay \cup {r}
        /\ c \in DOMAIN conns /\ conns[c].server = s
    BY <1>4, RequestBegun DEF RefreshAnswer
  <2>2. conns[c] \in Connection /\ offer[s] \in Nat /\ conns[c].opened <= offer[s]
    BY <2>1 DEF OpenedBefore
  <2>3. ConnectionsTyped'
    <3>1. /\ r.op = "refresh" /\ r.conn \in DOMAIN conns
          /\ r.session \in Nat /\ r.known \in Nat
      BY <2>1, <2>2 DEF Connection
    <3>2. \A h \in UnderWay' : h \in UnderWay \/ h = r
      BY <2>1
    <3> HIDE DEF r
    <3> QED BY <2>1, <3>1, <3>2
  <2>4. RefreshesFollow'
    BY <2>1, <2>2 DEF RefreshesFollow, Connection
  <2>5. OpenedBefore' /\ ListingFollowsSession'
    BY <2>1 DEF OpenedBefore, ListingFollowsSession
  <2> QED BY <2>3, <2>4, <2>5
<1>5. ASSUME NEW h \in UnderWay, RegisterInsert(h)
      PROVE  ListingsInv'
  <2> DEFINE new == Opened(h.server, 1)
  <2>1. h.server \in Servers /\ new \in Connection /\ new.server = h.server
        /\ new.opened = offer[h.server] /\ new.known = offer[h.server]
    BY <1>5, OpenedIsConnection DEF RegisterInsert
  <2>2. /\ conns' = Append(conns, new) /\ offer' = offer
        /\ registered' = [registered EXCEPT ![h.server] = Len(conns')]
        /\ UnderWay' \subseteq UnderWay
    BY <1>5, RequestDone DEF RegisterInsert
  <2> HIDE DEF new
  <2>3. /\ conns' \in Seq(Connection) /\ Len(conns') = Len(conns) + 1
        /\ \A d \in DOMAIN conns : d \in DOMAIN conns' /\ conns'[d] = conns[d]
        /\ conns'[Len(conns')] = new
        /\ \A d \in DOMAIN conns' : d \in DOMAIN conns \/ d = Len(conns')
    BY <2>1, <2>2
  <2>4. ConnectionsTyped'
    BY <2>1, <2>2, <2>3
  <2>5. RefreshesFollow'
    BY <2>2, <2>3 DEF RefreshesFollow
  <2>6. OpenedBefore' /\ ListingFollowsSession'
    BY <2>1, <2>2, <2>3 DEF OpenedBefore, ListingFollowsSession
  <2> QED BY <2>4, <2>5, <2>6
<1>6. ASSUME NEW h \in UnderWay,
             RegisterFail(h) \/ DisableMark(h) \/ DeleteRevoke(h) \/ GrantStored(h)
      PROVE  ListingsInv'
  <2>1. UNCHANGED <<offer, conns, registered>> /\ handlers' = Done(h)
    BY <1>6 DEF RegisterFail, DisableMark, DeleteRevoke, GrantStored
  <2> QED BY <2>1, RequestDone, ConnectionsKept
<1>7. ASSUME NEW h \in UnderWay, DeleteTake(h)
      PROVE  ListingsInv'
  <2>1. /\ UNCHANGED <<offer, conns>>
        /\ registered' = [registered EXCEPT ![h.server] = 0]
    BY <1>7 DEF DeleteTake
  <2>2. \A x \in UnderWay' : x \in UnderWay \/ x.op = "revoke"
    BY <1>7, RequestTaken
  <2>3. /\ registered' \in [Servers -> 0..Len(conns)]
        /\ \A s \in Servers : registered'[s] \in {0, registered[s]}
    <3>1. registered \in [Servers -> 0..Len(conns)] /\ 0 \in 0..Len(conns)
      OBVIOUS
    <3> HIDE DEF ListingsInv, ConnectionsTyped
    <3> QED BY <2>1, <3>1
  <2> QED BY <2>1, <2>2, <2>3, ConnectionsKept
<1>8. ASSUME NEW h \in UnderWay, RefreshStore(h)
      PROVE  ListingsInv'
  <2> DEFINE c == conns[h.conn]
             new == [c EXCEPT !.known = h.known,
                              !.overlapped = h.session # c.session]
  <2>1. h.conn \in DOMAIN conns /\ h.known \in Nat /\ c \in Connection
    BY <1>8 DEF RefreshStore
  <2>2. /\ new \in Connection /\ new.server = c.server /\ new.opened = c.opened
        /\ new.session = c.session /\ new.known = h.known
        /\ new.overlapped = (h.session # c.session)
    BY <2>1 DEF Connection
  <2>3. conns' = [conns EXCEPT ![h.conn] = new] /\ UNCHANGED <<offer, registered>>
        /\ UnderWay' \subseteq UnderWay
    BY <1>8, <2>1, RequestDone DEF RefreshStore, Connection
  <2>4. h.session = c.session => h.known >= c.opened
    BY <1>8 DEF RefreshStore, RefreshesFollow
  <2>5. c.opened <= offer[c.server] /\ c.session \in Nat
    BY <2>1, ConnectionAt
  <2> HIDE DEF new, ListingsInv, ConnectionsTyped
  <2>6. new.opened <= offer[new.server] /\ new.session >= conns[h.conn].session
    BY <2>2, <2>5
  <2>7. new.overlapped \/ new.known >= new.opened
    BY <2>2, <2>4
  <2>8. \A x \in UnderWay' : x \in UnderWay
    BY <2>3
  <2> QED BY <2>1, <2>2, <2>3, <2>6, <2>7, <2>8, ConnectionChanged
<1>9. ASSUME Calls
      PROVE  ListingsInv'
  <2>1. CASE ~Reconnect
    <3>1. UNCHANGED <<offer, conns, registered, handlers>>
      BY <1>9, <2>1 DEF Calls, TurnBegin, TurnEnd, InvokeFree, InvokePaid, ToolRuns,
                        CallAnswered, CallFails, ReconnectFails
    <3> QED BY <3>1, RequestsSame, ConnectionsKept
  <2>2. CASE Reconnect
    <3> DEFINE n == turn.call.entry.conn
               new == Opened(conns[n].server, conns[n].session + 1)
    <3>1. /\ conns' = [conns EXCEPT ![n] = new]
          /\ UNCHANGED <<offer, registered, handlers>>
      BY <2>2 DEF Reconnect, Reopened
    <3>2. CASE n \notin DOMAIN conns
      BY <3>1, <3>2, RequestsSame, ConnectionsKept
    <3>3. CASE n \in DOMAIN conns
      <4>1. /\ conns[n].server \in Servers /\ conns[n].session \in Nat
            /\ conns[n].session + 1 \in Nat
        BY <3>3, ConnectionAt
      <4>2. /\ new \in Connection /\ new.server = conns[n].server
            /\ new.session = conns[n].session + 1
            /\ new.opened = offer[new.server] /\ new.known = new.opened
            /\ new.opened \in Nat
        <5> DEFINE s == conns[n].server
                   k == conns[n].session + 1
        <5>1. s \in Servers /\ k \in Nat /\ offer \in [Servers -> Nat]
          BY <4>1
        <5>2. offer[s] \in Nat /\ new = Opened(s, k)
          BY <5>1
        <5> HIDE DEF new, s, k, ListingsInv, ConnectionsTyped
        <5>3. /\ Opened(s, k) \in Connection
              /\ Opened(s, k).server = s /\ Opened(s, k).session = k
              /\ Opened(s, k).opened = offer[s] /\ Opened(s, k).known = offer[s]
          BY <5>1, OpenedIsConnection
        <5> QED BY <5>2, <5>3 DEF s, k
      <4>3. \A x \in UnderWay' : x \in UnderWay
        BY <3>1, RequestsSame
      <4> HIDE DEF new, n, ListingsInv, ConnectionsTyped
      <4>4. /\ new.opened <= offer[new.server] /\ new.session >= conns[n].session
            /\ new.session # conns[n].session /\ new.known >= new.opened
        BY <4>1, <4>2
      <4> QED BY <3>1, <3>3, <4>2, <4>3, <4>4, ConnectionChanged
    <3> QED BY <3>2, <3>3
  <2> QED BY <2>1, <2>2
<1>10. ASSUME NEW c \in DOMAIN conns, TransportCloses(c)
       PROVE  ListingsInv'
  <2> DEFINE new == [conns[c] EXCEPT !.open = FALSE]
  <2>1. conns[c] \in Connection
    OBVIOUS
  <2>2. /\ new \in Connection /\ new.server = conns[c].server
        /\ new.opened = conns[c].opened /\ new.session = conns[c].session
        /\ new.known = conns[c].known /\ new.overlapped = conns[c].overlapped
    BY <2>1 DEF Connection
  <2>3. conns' = [conns EXCEPT ![c] = new] /\ UNCHANGED <<offer, registered, handlers>>
    BY <1>10 DEF TransportCloses
  <2>4. /\ conns[c].overlapped \/ conns[c].known >= conns[c].opened
        /\ conns[c].opened <= offer[conns[c].server] /\ conns[c].session \in Nat
    BY ConnectionAt
  <2>5. /\ new.opened <= offer[new.server] /\ new.session >= conns[c].session
        /\ new.overlapped \/ new.known >= new.opened
        /\ \A x \in UnderWay' : x \in UnderWay
    BY <2>2, <2>3, <2>4, RequestsSame
  <2> HIDE DEF new, ListingsInv, ConnectionsTyped
  <2> QED BY <2>2, <2>3, <2>5, ConnectionChanged
<1>11. ASSUME NEW s \in Servers, OfferChanges(s)
       PROVE  ListingsInv'
  <2>1. /\ UNCHANGED <<conns, registered, handlers>> /\ offer' \in [Servers -> Nat]
        /\ \A x \in Servers : offer'[x] >= offer[x]
    BY <1>11 DEF OfferChanges
  <2>2. OpenedBefore'
    <3> SUFFICES ASSUME NEW c \in DOMAIN conns
                 PROVE  conns[c].opened <= offer'[conns[c].server]
      BY <2>1 DEF OpenedBefore
    <3>1. /\ conns[c].server \in Servers /\ offer[conns[c].server] \in Nat
          /\ conns[c].opened \in Nat /\ conns[c].opened <= offer[conns[c].server]
      BY ConnectionAt
    <3> QED BY <2>1, <3>1
  <2>3. ConnectionsTyped' /\ RefreshesFollow' /\ ListingFollowsSession'
    BY <2>1, RequestsSame DEF RefreshesFollow, ListingFollowsSession
  <2> QED BY <2>2, <2>3
<1>12. ASSUME (\E id \in Ids : Revoke(id)) \/ UNCHANGED toolVars
       PROVE  ListingsInv'
  <2>1. UNCHANGED <<offer, conns, registered, handlers>>
    BY <1>12 DEF Revoke, toolVars
  <2> QED BY <2>1, RequestsSame, ConnectionsKept
<1> QED BY <1>1, <1>2, <1>3, <1>4, <1>5, <1>6, <1>7, <1>8, <1>9, <1>10, <1>11, <1>12
        DEF ToolsNext, Requests, Continue

LEMMA ListingsInvInit == ToolsInit => ListingsInv
BY NoRequests DEF ToolsInit, ListingsInv, ConnectionsTyped, OpenedBefore, RefreshesFollow,
       ListingFollowsSession

\* What a connection lists is never older than its session, unless a refresh
\* that the session before had answered came late: McpConnection::reconnect and
\* refresh, for any number of servers, sessions and overlapping requests.
THEOREM ListingsFollowSessions == ToolsSpec => []ListingFollowsSession
<1>1. ListingsInv => ListingFollowsSession
  BY DEF ListingsInv
<1> QED BY <1>1, ListingsInvInit, ListingsInvNext, PTL DEF ToolsSpec
-----------------------------------------------------------------------------
(* What runs without a grant.  A catalog outlives the listings that it was  *)
(* made from, so the invariant says of each of its entries which listing    *)
(* that was, and that it still is one of the entry's connection's server.   *)

LEMMA LeastOf ==
  ASSUME NEW S \in SUBSET Nat, S # {}
  PROVE  Least(S) \in S /\ \A k \in S : Least(S) <= k
<1>1. PICK n \in S : \A k \in S : <<k, n>> \notin OpToRel(<, Nat)
  BY WFMin, NatLessThanWellFounded, Zenon
<1>2. \A k \in S : ~(k < n)
  BY <1>1, Zenon DEF OpToRel
<1>3. \A k \in S : n <= k
  BY <1>2
<1> QED BY <1>3 DEF Least

\* What a connection listed when it knew the n-th listing of its server.
ListedBy(c, n) ==
  LET s == conns[c].server
      listing == Listings[s][n]
  IN [i \in DOMAIN listing |->
        [id |-> CatalogId[s][listing[i].name],
         remote |-> RemoteName[s][CatalogId[s][listing[i].name]],
         consequence |-> Consequence(listing[i].hint),
         conn |-> c, known |-> n]]

\* What is listed of a server is all that some connection once listed, in order.
CatalogFromListings ==
  /\ DOMAIN turn.catalog \subseteq Nat
  /\ \A s \in DOMAIN turn.catalog :
       \E c \in DOMAIN conns : \E n \in DOMAIN Listings[conns[c].server] :
         turn.catalog[s] = ListedBy(c, n)

\* The entry is made of the first tool of its id in the listing that it knows.
FirstOfItsId(e) ==
  /\ e.conn \in DOMAIN conns
  /\ LET s == conns[e.conn].server
         listing == Listings[s][e.known]
         called == HavingId(s, listing, e.id)
     IN /\ e.known \in DOMAIN Listings[s]
        /\ called # {}
        /\ e.remote = RemoteName[s][e.id]
        /\ e.consequence = Consequence(listing[Least(called)].hint)

CallFromCatalog ==
  turn.call # NoCall =>
    /\ FirstOfItsId(turn.call.entry)
    /\ turn.call.paid \/ turn.call.entry.consequence = "read-only"

\* What a connection knows is a listing of its server.
KnownListed ==
  /\ \A s \in Servers : offer[s] \in DOMAIN Listings[s]
  /\ \A c \in DOMAIN conns : conns[c].known \in DOMAIN Listings[conns[c].server]
  /\ \A h \in UnderWay :
       h.op = "refresh" => h.known \in DOMAIN Listings[conns[h.conn].server]

SneakInv == CatalogFromListings /\ CallFromCatalog /\ KnownListed /\ NoneSneaksIn

\* Connections are added and change, but not their servers.
ServersStay ==
  \A c \in DOMAIN conns : c \in DOMAIN conns' /\ conns'[c].server = conns[c].server

LEMMA ListingAt ==
  ASSUME ListingsInv, NEW c \in DOMAIN conns, NEW n \in DOMAIN Listings[conns[c].server]
  PROVE  /\ conns[c].server \in Servers
         /\ Listings[conns[c].server][n] \in Seq([name : ToolNames, hint : Hints])
<1> DEFINE s == conns[c].server
           R == [name : ToolNames, hint : Hints]
<1>1. s \in Servers
  BY ConnectionAt
<1>2. Listings[s] \in Seq(Seq(R))
  BY <1>1, ToolsAssumption
<1>3. n \in 1..Len(Listings[s])
  BY <1>2
<1> HIDE DEF R
<1>4. Listings[s][n] \in Seq(R)
  BY <1>2, <1>3, ElementOfSeq, Zenon
<1> QED BY <1>1, <1>4 DEF R

\* ToolRegistry::get finds the first tool of an id in what a server lists.
LEMMA GetIsFirst ==
  ASSUME ListingsInv, CatalogFromListings, NEW id, Listed(turn.catalog, id)
  PROVE  FirstOfItsId(Get(turn.catalog, id))
<1> DEFINE catalog == turn.catalog
           x == Least(ServersOf(catalog, id))
<1>1. x \in DOMAIN catalog /\ PlacesOf(catalog[x], id) # {}
  <2>1. ServersOf(catalog, id) \in SUBSET Nat /\ ServersOf(catalog, id) # {}
    BY DEF CatalogFromListings, Listed, ServersOf
  <2>2. x \in ServersOf(catalog, id)
    BY <2>1, LeastOf
  <2> QED BY <2>2 DEF ServersOf
<1>2. PICK c \in DOMAIN conns : \E n \in DOMAIN Listings[conns[c].server] :
        catalog[x] = ListedBy(c, n)
  BY <1>1 DEF CatalogFromListings
<1> PICK n \in DOMAIN Listings[conns[c].server] : catalog[x] = ListedBy(c, n)
  BY <1>2
<1> DEFINE s == conns[c].server
           listing == Listings[s][n]
           called == HavingId(s, listing, id)
           entry(i) == [id |-> CatalogId[s][listing[i].name],
                        remote |-> RemoteName[s][CatalogId[s][listing[i].name]],
                        consequence |-> Consequence(listing[i].hint),
                        conn |-> c, known |-> n]
<1>3. catalog[x] = [i \in DOMAIN listing |-> entry(i)]
  BY <1>2 DEF ListedBy
<1>4. \A i : /\ entry(i).id = CatalogId[s][listing[i].name]
             /\ entry(i).remote = RemoteName[s][entry(i).id]
             /\ entry(i).consequence = Consequence(listing[i].hint)
             /\ entry(i).conn = c /\ entry(i).known = n
  OBVIOUS
<1> HIDE DEF entry, x
<1>5. PlacesOf(catalog[x], id) = called
  BY <1>3, <1>4 DEF PlacesOf, HavingId
<1>6. called \in SUBSET Nat
  <2>1. DOMAIN listing \in SUBSET Nat
    BY ListingAt
  <2> QED BY <2>1 DEF HavingId
<1>7. Least(called) \in called
  BY <1>1, <1>5, <1>6, LeastOf
<1>8. Get(catalog, id) = entry(Least(called))
  BY <1>3, <1>5, <1>7 DEF Get, x, HavingId
<1>9. entry(Least(called)).id = id
  BY <1>4, <1>7 DEF HavingId
<1>10. called # {}
  BY <1>1, <1>5
<1> DEFINE e == Get(catalog, id)
<1>11. /\ e.id = id /\ e.conn = c /\ e.known = n /\ e.remote = RemoteName[s][id]
       /\ e.consequence = Consequence(listing[Least(called)].hint)
  BY <1>4, <1>8, <1>9
<1> HIDE DEF e
<1>12. FirstOfItsId(e)
  BY <1>10, <1>11 DEF FirstOfItsId
<1> QED BY <1>12 DEF e

\* What is hidden apart, a listing has one tool of the name that is read back:
\* that name sanitizes to the same id again.
LEMMA FirstDecides ==
  ASSUME ListingsInv, NEW e, FirstOfItsId(e), e.consequence = "read-only"
  PROVE  LET s == conns[e.conn].server
             listing == Listings[s][e.known]
             called == HavingId(s, listing, e.id)
         IN /\ called # {} /\ listing[Least(called)].hint = "read-only"
            /\ \A i \in DOMAIN listing :
                 listing[i].name = e.remote /\ ~Hidden(s, listing, i)
                   => listing[i].hint = "read-only"
<1> DEFINE s == conns[e.conn].server
           listing == Listings[s][e.known]
           called == HavingId(s, listing, e.id)
           k == Least(called)
<1>1. /\ s \in Servers /\ DOMAIN listing = 1..Len(listing) /\ Len(listing) \in Nat
      /\ \A i \in DOMAIN listing : listing[i].name \in ToolNames
  <2> DEFINE R == [name : ToolNames, hint : Hints]
  <2>1. s \in Servers /\ listing \in Seq(R)
    BY ListingAt DEF FirstOfItsId
  <2> HIDE DEF R, s, listing
  <2>2. DOMAIN listing = 1..Len(listing) /\ Len(listing) \in Nat
    BY <2>1
  <2>3. \A i \in DOMAIN listing : listing[i] \in R
    BY <2>1, <2>2, ElementOfSeq
  <2> QED BY <2>1, <2>2, <2>3 DEF R
<1>2. called # {} /\ e.remote = RemoteName[s][e.id] /\ Consequence(listing[k].hint) = "read-only"
  BY DEF FirstOfItsId
<1> HIDE DEF s, listing, k
<1>3. k \in called /\ \A i \in called : k <= i
  <2>1. called \in SUBSET Nat
    BY <1>1 DEF HavingId
  <2> QED BY <1>2, <2>1, LeastOf DEF k
<1>4. listing[k].hint = "read-only"
  BY <1>2 DEF Consequence
<1>5. CatalogId[s][e.remote] = e.id
  <2>1. k \in DOMAIN listing /\ CatalogId[s][listing[k].name] = e.id
    BY <1>3 DEF HavingId
  <2>2. listing[k].name \in ToolNames
    BY <1>1, <2>1
  <2> QED BY <1>1, <1>2, <2>1, <2>2, ToolsAssumption
<1>6. ASSUME NEW i \in DOMAIN listing, listing[i].name = e.remote, ~Hidden(s, listing, i)
      PROVE  listing[i].hint = "read-only"
  <2>1. i \in called
    BY <1>5, <1>6 DEF HavingId
  <2>2. k <= i /\ CatalogId[s][listing[k].name] = CatalogId[s][listing[i].name]
    BY <1>3, <2>1 DEF HavingId
  <2>3. k \in 1..Len(listing) /\ i \in 1..Len(listing)
    BY <1>1, <1>3, <1>6 DEF HavingId
  <2>4. ~(k \in 1..(i-1))
    BY <1>6, <2>2 DEF Hidden
  <2>5. k = i
    BY <1>1, <2>2, <2>3, <2>4
  <2> QED BY <1>4, <2>5
<1> QED BY <1>2, <1>4, <1>6 DEF s, listing, k

\* Neither a change of listings nor a new connection touches what was listed.
LEMMA ListedStays ==
  ASSUME ServersStay
  PROVE  /\ \A e : FirstOfItsId(e) => FirstOfItsId(e)'
         /\ \A c \in DOMAIN conns : \A n : /\ c \in DOMAIN conns'
                                          /\ conns'[c].server = conns[c].server
                                          /\ ListedBy(c, n)' = ListedBy(c, n)
<1>1. ASSUME NEW e, FirstOfItsId(e)
      PROVE  FirstOfItsId(e)'
  <2>1. e.conn \in DOMAIN conns' /\ conns'[e.conn].server = conns[e.conn].server
    BY <1>1 DEF FirstOfItsId, ServersStay
  <2> QED BY <1>1, <2>1 DEF FirstOfItsId, HavingId
<1>2. ASSUME NEW c \in DOMAIN conns, NEW n
      PROVE  /\ c \in DOMAIN conns' /\ conns'[c].server = conns[c].server
             /\ ListedBy(c, n)' = ListedBy(c, n)
  <2>1. c \in DOMAIN conns' /\ conns'[c].server = conns[c].server
    BY DEF ServersStay
  <2>2. ListedBy(c, n)' = ListedBy(c, n)
    BY <2>1, Zenon DEF ListedBy
  <2> QED BY <2>1, <2>2
<1> QED BY <1>1, <1>2

\* Every step leaves the servers of the connections alone, and what is known is
\* a listing of theirs.
LEMMA KnownListedNext ==
  ASSUME ListingsInv, KnownListed, [ToolsNext]_toolVars
  PROVE  ServersStay /\ KnownListed'
<1> USE DEF ListingsInv, ConnectionsTyped
<1>1. ASSUME UNCHANGED <<offer, conns>>,
             \A h \in UnderWay' : h.op # "refresh" \/ h \in UnderWay
      PROVE  ServersStay /\ KnownListed'
  BY <1>1 DEF ServersStay, KnownListed
<1>2. ASSUME NEW s \in Servers, RefreshAnswer(s)
      PROVE  ServersStay /\ KnownListed'
  <2>1. /\ UNCHANGED <<offer, conns>> /\ registered[s] \in DOMAIN conns
        /\ conns[registered[s]].server = s
        /\ \A h \in UnderWay' : \/ h \in UnderWay
                                \/ h.known = offer[s] /\ h.conn = registered[s]
    <3> DEFINE r == [op |-> "refresh", conn |-> registered[s], known |-> offer[s],
                     session |-> conns[registered[s]].session]
    <3>1. \A h \in UnderWay' : h \in UnderWay \/ h = r
      BY <1>2, RequestBegun DEF RefreshAnswer
    <3> QED BY <1>2, <3>1 DEF RefreshAnswer
  <2> QED BY <2>1 DEF ServersStay, KnownListed
<1>3. ASSUME NEW h \in UnderWay, RegisterInsert(h)
      PROVE  ServersStay /\ KnownListed'
  <2> DEFINE new == Opened(h.server, 1)
  <2>1. h.server \in Servers /\ new.server = h.server /\ new.known = offer[h.server]
    BY <1>3 DEF RegisterInsert, Opened
  <2>2. conns' = Append(conns, new) /\ offer' = offer /\ UnderWay' \subseteq UnderWay
    BY <1>3, RequestDone DEF RegisterInsert
  <2> HIDE DEF new
  <2>3. /\ \A d \in DOMAIN conns : d \in DOMAIN conns' /\ conns'[d] = conns[d]
        /\ \A d \in DOMAIN conns' : d \in DOMAIN conns \/ conns'[d] = new
    BY <2>2
  <2> QED BY <2>1, <2>2, <2>3 DEF ServersStay, KnownListed
<1>4. ASSUME NEW c \in DOMAIN conns, NEW new, conns' = [conns EXCEPT ![c] = new],
             offer' = offer, UnderWay' \subseteq UnderWay,
             new.server = conns[c].server, new.known \in DOMAIN Listings[new.server]
      PROVE  ServersStay /\ KnownListed'
  BY <1>4 DEF ServersStay, KnownListed
<1>5. ASSUME NEW h \in UnderWay, RefreshStore(h)
      PROVE  ServersStay /\ KnownListed'
  <2> DEFINE new == [conns[h.conn] EXCEPT !.known = h.known,
                       !.overlapped = h.session # conns[h.conn].session]
  <2>1. h.conn \in DOMAIN conns /\ conns[h.conn] \in Connection
    BY <1>5 DEF RefreshStore
  <2>2. new.server = conns[h.conn].server /\ new.known = h.known
    BY <2>1 DEF Connection
  <2>3. conns' = [conns EXCEPT ![h.conn] = new] /\ offer' = offer /\ UnderWay' \subseteq UnderWay
    BY <1>5, <2>1, RequestDone DEF RefreshStore, Connection
  <2>4. h.known \in DOMAIN Listings[conns[h.conn].server]
    BY <1>5 DEF RefreshStore, KnownListed
  <2> HIDE DEF new
  <2> QED BY <1>4, <2>1, <2>2, <2>3, <2>4
<1>6. CASE Reconnect
  <2> DEFINE n == turn.call.entry.conn
             new == Opened(conns[n].server, conns[n].session + 1)
  <2>1. conns' = [conns EXCEPT ![n] = new] /\ offer' = offer /\ UnderWay' = UnderWay
    BY <1>6, RequestsSame DEF Reconnect, Reopened
  <2>2. CASE n \notin DOMAIN conns
    BY <1>1, <2>1, <2>2
  <2>3. CASE n \in DOMAIN conns
    <3>1. new.server = conns[n].server /\ new.known = offer[new.server]
          /\ conns[n].server \in Servers
      BY <2>3, ConnectionAt DEF Opened
    <3>2. new.known \in DOMAIN Listings[new.server]
      BY <3>1 DEF KnownListed
    <3> HIDE DEF new, n
    <3> QED BY <1>4, <2>1, <2>3, <3>1, <3>2
  <2> QED BY <2>2, <2>3
<1>7. ASSUME NEW c \in DOMAIN conns, TransportCloses(c)
      PROVE  ServersStay /\ KnownListed'
  <2> DEFINE new == [conns[c] EXCEPT !.open = FALSE]
  <2>1. conns[c] \in Connection
    OBVIOUS
  <2>2. new.server = conns[c].server /\ new.known = conns[c].known
    BY <2>1 DEF Connection
  <2>3. conns' = [conns EXCEPT ![c] = new] /\ offer' = offer /\ UnderWay' = UnderWay
    BY <1>7, RequestsSame DEF TransportCloses
  <2>4. new.known \in DOMAIN Listings[new.server]
    BY <2>2 DEF KnownListed
  <2> HIDE DEF new
  <2> QED BY <1>4, <2>2, <2>3, <2>4
<1>8. ASSUME NEW s \in Servers, OfferChanges(s)
      PROVE  ServersStay /\ KnownListed'
  <2>1. /\ conns' = conns /\ UnderWay' = UnderWay /\ offer' = [offer EXCEPT ![s] = @ + 1]
        /\ offer[s] \in Nat /\ offer[s] < Len(Listings[s])
    BY <1>8, RequestsSame DEF OfferChanges
  <2>2. offer[s] + 1 \in DOMAIN Listings[s]
    BY <2>1, ToolsAssumption
  <2> QED BY <2>1, <2>2 DEF ServersStay, KnownListed
<1>9. ASSUME Requests, \A s \in Servers : ~RefreshAnswer(s)
      PROVE  ServersStay /\ KnownListed'
  <2>1. /\ UNCHANGED <<offer, conns>>
        /\ \A h \in UnderWay' : h.op # "refresh" \/ h \in UnderWay
    <3>1. /\ UNCHANGED <<offer, conns>>
          /\ \E r : handlers' = Begun(r) /\ r.op # "refresh"
      <4>1. CASE \E s \in Servers : RegisterBegin(s) \/ DeleteBegin(s)
        BY <4>1 DEF RegisterBegin, DeleteBegin
      <4>2. CASE \E s \in Servers, op \in {"disable", "enable"} : DisableBegin(s, op)
        BY <4>2 DEF DisableBegin
      <4>3. CASE \E id \in Ids, n \in 1..MaxGiven : GrantBegin(id, n)
        BY <4>3 DEF GrantBegin
      <4> QED BY <1>9, <4>1, <4>2, <4>3 DEF Requests
    <3> QED BY <3>1, RequestBegun
  <2> QED BY <1>1, <2>1
<1>10. ASSUME NEW h \in UnderWay, Continue(h), ~RegisterInsert(h), ~RefreshStore(h)
       PROVE  ServersStay /\ KnownListed'
  <2>1. /\ UNCHANGED <<offer, conns>>
        /\ \A x \in UnderWay' : x.op # "refresh" \/ x \in UnderWay
    <3>1. UNCHANGED <<offer, conns>> /\ (DeleteTake(h) \/ handlers' = Done(h))
      BY <1>10 DEF Continue, RegisterFail, DeleteTake, DeleteRevoke, DisableMark, GrantStored
    <3> QED BY <3>1, RequestTaken, RequestDone
  <2> QED BY <1>1, <2>1
<1>11. ASSUME Calls, ~Reconnect
       PROVE  ServersStay /\ KnownListed'
  <2>1. UNCHANGED <<offer, conns, handlers>>
    BY <1>11 DEF Calls, TurnBegin, TurnEnd, InvokeFree, InvokePaid, ToolRuns,
                 CallAnswered, CallFails, ReconnectFails
  <2> QED BY <1>1, <2>1, RequestsSame
<1>12. ASSUME (\E id \in Ids : Revoke(id)) \/ UNCHANGED toolVars
       PROVE  ServersStay /\ KnownListed'
  <2>1. UNCHANGED <<offer, conns, handlers>>
    BY <1>12 DEF Revoke, toolVars
  <2> QED BY <1>1, <2>1, RequestsSame
<1> QED BY <1>2, <1>3, <1>5, <1>6, <1>7, <1>8, <1>9, <1>10, <1>11, <1>12 DEF ToolsNext, Requests
\* A turn's catalog keeps coming from listings until it is made anew, and its
\* call comes from it.
LEMMA SneakInvNext ==
  ASSUME ListingsInv, TurnWellFormed, SneakInv, [ToolsNext]_toolVars
  PROVE  SneakInv'
<1>1. ServersStay /\ KnownListed'
  BY KnownListedNext DEF SneakInv
<1>2. \A e : FirstOfItsId(e) => FirstOfItsId(e)'
  BY <1>1, ListedStays
<1>3. ASSUME turn'.catalog = turn.catalog
      PROVE  CatalogFromListings'
  <2> SUFFICES ASSUME NEW s \in DOMAIN turn.catalog
               PROVE  \E c \in DOMAIN conns' : \E n \in DOMAIN Listings[conns'[c].server] :
                        turn.catalog[s] = ListedBy(c, n)'
    BY <1>3 DEF SneakInv, CatalogFromListings
  <2>1. PICK c \in DOMAIN conns : \E n \in DOMAIN Listings[conns[c].server] :
          turn.catalog[s] = ListedBy(c, n)
    BY DEF SneakInv, CatalogFromListings
  <2> QED BY <1>1, <2>1, ListedStays
<1>4. ASSUME turn'.call = NoCall
      PROVE  CallFromCatalog'
  BY <1>4 DEF CallFromCatalog
<1>5. ASSUME turn'.call.entry = turn.call.entry, turn'.call.paid = turn.call.paid,
             turn.call # NoCall
      PROVE  CallFromCatalog'
  BY <1>2, <1>5 DEF SneakInv, CallFromCatalog
<1>6. ASSUME free' = free
      PROVE  NoneSneaksIn'
  BY <1>6 DEF SneakInv, NoneSneaksIn
<1>7. CASE UNCHANGED <<turn, free>>
  <2>1. CASE turn.call = NoCall
    BY <1>1, <1>3, <1>4, <1>6, <1>7, <2>1 DEF SneakInv
  <2>2. CASE turn.call # NoCall
    BY <1>1, <1>3, <1>5, <1>6, <1>7, <2>2 DEF SneakInv
  <2> QED BY <2>1, <2>2
<1>8. CASE TurnBegin
  <2>1. turn' = [catalog |-> Catalog, call |-> NoCall, on |-> TRUE] /\ free' = free
    BY <1>8 DEF TurnBegin
  <2>2. CatalogFromListings'
    <3>1. ASSUME NEW s \in Enabled
          PROVE  /\ s \in Nat
                 /\ \E c \in DOMAIN conns : \E n \in DOMAIN Listings[conns[c].server] :
                      Catalog[s] = ListedBy(c, n)
      <4>1. s \in Servers /\ registered[s] \in DOMAIN conns
        BY DEF Enabled, ListingsInv, ConnectionsTyped
      <4>2. conns[registered[s]].known \in DOMAIN Listings[conns[registered[s]].server]
        BY <4>1 DEF SneakInv, KnownListed
      <4>3. Catalog[s] = ListedBy(registered[s], conns[registered[s]].known)
        BY DEF Catalog, Entries, ListedBy
      <4> QED BY <4>1, <4>2, <4>3, ToolsAssumption
    <3>2. turn'.catalog = Catalog /\ DOMAIN Catalog = Enabled
      BY <2>1 DEF Catalog
    <3> HIDE DEF Catalog
    <3>3. ASSUME NEW s \in DOMAIN turn'.catalog
          PROVE  /\ s \in Nat
                 /\ \E c \in DOMAIN conns' : \E n \in DOMAIN Listings[conns'[c].server] :
                      turn'.catalog[s] = ListedBy(c, n)'
      <4>1. PICK c \in DOMAIN conns : \E n \in DOMAIN Listings[conns[c].server] :
              turn'.catalog[s] = ListedBy(c, n)
        BY <3>1, <3>2
      <4> QED BY <1>1, <3>1, <3>2, <4>1, ListedStays
    <3> QED BY <3>3 DEF CatalogFromListings
  <2> QED BY <1>1, <1>4, <1>6, <2>1, <2>2 DEF SneakInv
<1>9. CASE TurnEnd
  <2>1. turn' = NoTurn /\ free' = free
    BY <1>9 DEF TurnEnd
  <2>2. CatalogFromListings' /\ turn'.call = NoCall
    BY <2>1 DEF NoTurn, CatalogFromListings
  <2> QED BY <1>1, <1>4, <1>6, <2>1, <2>2 DEF SneakInv
<1>10. ASSUME NEW id \in Ids, InvokeFree(id) \/ InvokePaid(id)
       PROVE  SneakInv'
  <2> DEFINE e == Get(turn.catalog, id)
  <2>1. PICK paid \in BOOLEAN :
          /\ turn' = [turn EXCEPT !.call = [stage |-> "sent", attempt |-> 1, id |-> id,
                                            entry |-> e, paid |-> paid]]
          /\ paid \/ e.consequence = "read-only"
          /\ Listed(turn.catalog, id) /\ free' = free
    BY <1>10 DEF InvokeFree, InvokePaid, Callable, Asked
  <2>2. FirstOfItsId(e)
    BY <2>1, GetIsFirst DEF SneakInv
  <2>3. turn'.catalog = turn.catalog /\ turn'.call.entry = e /\ turn'.call.paid = paid
    BY <2>1 DEF TurnWellFormed
  <2> HIDE DEF e
  <2>4. CallFromCatalog'
    BY <1>2, <2>1, <2>2, <2>3 DEF CallFromCatalog
  <2> QED BY <1>1, <1>3, <1>6, <2>1, <2>3, <2>4 DEF SneakInv
<1>11. CASE ToolRuns
  <2> DEFINE e == turn.call.entry
             s == conns[e.conn].server
             ran == [server |-> s, id |-> e.id, remote |-> e.remote, known |-> e.known]
  <2>1. turn.call # NoCall
    BY <1>11 DEF ToolRuns, At, NoCall
  <2>2. /\ turn'.catalog = turn.catalog /\ turn'.call.entry = e
        /\ turn'.call.paid = turn.call.paid
    BY <1>11, <2>1 DEF ToolRuns, TurnWellFormed, CallUnderWay
  <2>3. FirstOfItsId(e) /\ (turn.call.paid \/ e.consequence = "read-only")
    BY <2>1 DEF SneakInv, CallFromCatalog
  <2>4. IF turn.call.paid THEN free' = free ELSE free' = free \cup {ran}
    BY <1>11 DEF ToolRuns, On
  <2>5. NoneSneaksIn'
    <3>1. CASE turn.call.paid
      BY <1>6, <2>4, <3>1
    <3>2. CASE ~turn.call.paid
      <4>1. /\ ran.server = s /\ ran.id = e.id
            /\ ran.remote = e.remote /\ ran.known = e.known
        OBVIOUS
      <4> HIDE DEF ran, e
      <4>2. LET listing == Listings[s][e.known]
                called == HavingId(s, listing, e.id)
            IN /\ called # {} /\ listing[Least(called)].hint = "read-only"
               /\ \A i \in DOMAIN listing :
                    listing[i].name = e.remote /\ ~Hidden(s, listing, i)
                      => listing[i].hint = "read-only"
        BY <2>3, <3>2, FirstDecides
      <4> HIDE DEF s
      <4> QED BY <2>4, <3>2, <4>1, <4>2 DEF SneakInv, NoneSneaksIn
    <3> QED BY <3>1, <3>2
  <2> QED BY <1>1, <1>3, <1>5, <2>1, <2>2, <2>5 DEF SneakInv
<1>12. CASE CallAnswered \/ ReconnectFails
  <2>1. turn' = [turn EXCEPT !.call = NoCall] /\ free' = free
    BY <1>12 DEF CallAnswered, ReconnectFails
  <2>2. turn'.catalog = turn.catalog /\ turn'.call = NoCall
    BY <2>1 DEF TurnWellFormed
  <2> QED BY <1>1, <1>3, <1>4, <1>6, <2>1, <2>2 DEF SneakInv
<1>13. CASE CallFails
  <2>1. /\ turn.call # NoCall /\ free' = free
        /\ turn' = [turn EXCEPT !.call.stage = "lost"] \/ turn' = [turn EXCEPT !.call = NoCall]
    BY <1>13 DEF CallFails, At, NoCall
  <2>2. turn'.catalog = turn.catalog
    BY <2>1 DEF TurnWellFormed
  <2>3. \/ turn'.call = NoCall
        \/ turn'.call.entry = turn.call.entry /\ turn'.call.paid = turn.call.paid
    BY <2>1 DEF TurnWellFormed, CallUnderWay
  <2> QED BY <1>1, <1>3, <1>4, <1>5, <1>6, <2>1, <2>2, <2>3 DEF SneakInv
<1>14. CASE Reconnect
  <2>1. turn.call # NoCall /\ free' = free
        /\ turn' = [turn EXCEPT !.call.stage = "sent", !.call.attempt = 2]
    BY <1>14 DEF Reconnect, At, NoCall
  <2>2. /\ turn'.catalog = turn.catalog /\ turn'.call.entry = turn.call.entry
        /\ turn'.call.paid = turn.call.paid
    BY <2>1 DEF TurnWellFormed, CallUnderWay
  <2> QED BY <1>1, <1>3, <1>5, <1>6, <2>1, <2>2 DEF SneakInv
<1>15. ASSUME ~Calls
       PROVE  UNCHANGED <<turn, free>>
  <2>1. CASE Requests
    BY <2>1 DEF Requests, RegisterBegin, DeleteBegin, RefreshAnswer, DisableBegin, GrantBegin
  <2>2. CASE \E h \in UnderWay : Continue(h)
    BY <2>2 DEF Continue, RegisterInsert, RegisterFail, DeleteTake, DeleteRevoke,
                DisableMark, RefreshStore, GrantStored
  <2>3. CASE \/ \E id \in Ids : Revoke(id)
             \/ \E c \in DOMAIN conns : TransportCloses(c)
             \/ \E s \in Servers : OfferChanges(s)
             \/ UNCHANGED toolVars
    BY <2>3 DEF Revoke, TransportCloses, OfferChanges, toolVars
  <2> QED BY <1>15, <2>1, <2>2, <2>3 DEF ToolsNext
<1> QED BY <1>7, <1>8, <1>9, <1>10, <1>11, <1>12, <1>13, <1>14, <1>15 DEF Calls

LEMMA SneakInvInit == ToolsInit => SneakInv
<1> SUFFICES ASSUME ToolsInit PROVE SneakInv
  OBVIOUS
<1>1. CatalogFromListings /\ CallFromCatalog
  BY DEF ToolsInit, NoTurn, CatalogFromListings, CallFromCatalog
<1>2. KnownListed
  <2>1. \A s \in Servers : offer[s] \in DOMAIN Listings[s]
    BY ToolsAssumption DEF ToolsInit
  <2> QED BY <2>1, NoRequests DEF ToolsInit, KnownListed
<1>3. NoneSneaksIn
  BY DEF ToolsInit, NoneSneaksIn
<1> QED BY <1>1, <1>2, <1>3 DEF SneakInv

\* An MCP tool can never sneak in as read-only (consequence_from_annotations):
\* when a call runs without a grant, the server had listed the first tool of the
\* id called as read-only, in the listing its turn's catalog was made from, and
\* had listed as nothing else a tool of the very name that ran unless that was
\* hidden behind another name with the same id; whatever has been registered,
\* removed, listed anew or reconnected since.
THEOREM NoToolSneaksIn == ToolsSpec => []NoneSneaksIn
<1>1. ToolsInit => RunsInv /\ ListingsInv /\ SneakInv
  BY RunsInvInit, ListingsInvInit, SneakInvInit
<1>2. RunsInv /\ ListingsInv /\ SneakInv /\ [ToolsNext]_toolVars
        => (RunsInv /\ ListingsInv /\ SneakInv)'
  BY RunsInvNext, ListingsInvNext, SneakInvNext DEF RunsInv
<1>3. RunsInv /\ ListingsInv /\ SneakInv => NoneSneaksIn
  BY DEF SneakInv
<1> QED BY <1>1, <1>2, <1>3, PTL DEF ToolsSpec
================================================================================
