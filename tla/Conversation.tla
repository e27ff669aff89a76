------------------------------ MODULE Conversation ------------------------------
(***************************************************************************)
(* ConversationEngine of vistalith-agent-runtime: threads, turns with      *)
(* their tool rounds, and forks.  Everything the engine does is an append  *)
(* to the store, so the state is the durable items in log order and what   *)
(* the graph says of the threads.                                          *)
(*                                                                         *)
(* A handler holds the store's write lock for a whole turn, also while it  *)
(* awaits the provider or a tool: a turn is a sequence of actions between  *)
(* its awaits, and nothing else happens until it ends.  It may end at any  *)
(* await: by a provider error, or because the client goes away and the     *)
(* handler's future is dropped.                                            *)
(***************************************************************************)
EXTENDS Naturals, Sequences, FiniteSets

CONSTANTS
  Threads,     \* thread subjects
  ModelNames,  \* "named" / "unnamed": whether the name is a valid subject id
  MaxMention,  \* bound on the positions of the messages that get mentioned
  MaxItems,    \* bound: no turn or fork starts in a log of so many items
  MaxCalls     \* bound on the tool calls in one answer

MAX_TOOL_ROUNDS == 2

ASSUME ConversationAssumption ==
  /\ ModelNames \subseteq {"named", "unnamed"}
  /\ MaxMention \in Nat /\ MaxItems \in Nat /\ MaxCalls \in Nat

VARIABLES
  items,     \* durable items of all threads, in log order
  turns,     \* the `turns` property of each thread in the graph
  live,      \* the threads that exist
  turn,      \* the turn in progress
  torn,      \* history: threads with a turn-completed event that tore
  skewed     \* history: forks of a torn or a skewed thread

conversationVars == <<items, turns, live, turn, torn, skewed>>

Roles == {"user", "assistant", "tool"}

\* A message (kind is its role), a tool call or a turn completion.  `of` and
\* `mention` are positions: of the original of a copy and of the message it
\* mentions, 0 if none; `touched` is the node's last_event_sequence.
Item == [thread : Threads, kind : Roles \cup {"call", "turn"}, turn : Nat,
         of : Nat, mention : Nat, touched : Nat, tokens : Nat]

Quiet == [thread |-> "none"]
Turn == [thread : Threads, number : Nat \ {0}, rounds : 0..MAX_TOOL_ROUNDS,
         calls : Nat, ran : BOOLEAN, tokens : Nat]

ConversationTypeOK ==
  /\ items \in Seq(Item)
  /\ turns \in [Threads -> Nat]
  /\ live \subseteq Threads
  /\ turn \in {Quiet} \cup Turn
  /\ torn \subseteq Threads /\ skewed \subseteq Threads

ConversationInit ==
  /\ items = << >>
  /\ turns = [t \in Threads |-> 0]
  /\ live = {}
  /\ turn = Quiet
  /\ torn = {} /\ skewed = {}

-----------------------------------------------------------------------------
(* Items.                                                                   *)

NewItem(t, kind, number) ==
  [thread |-> t, kind |-> kind, turn |-> number, of |-> 0, mention |-> 0,
   touched |-> 0, tokens |-> 0]

IsMessage(item) == item.kind \in Roles

\* A message that mentions another one moves that one's cursor as well.
Added(log, item) ==
  LET n == Len(log) + 1
      before == IF item.mention = 0 THEN log
                ELSE [log EXCEPT ![item.mention].touched = n]
  IN Append(before, [item EXCEPT !.touched = n])

Messages(log, t) == {i \in DOMAIN log : log[i].thread = t /\ IsMessage(log[i])}

\* Mutants of Earlier: the cursor alone decides; equal keys come in any order.
EarlierByCursor(log, i, j) == log[i].touched < log[j].touched
EarlierTiesReversed(log, i, j) ==
  \/ log[i].turn < log[j].turn
  \/ log[i].turn = log[j].turn /\ log[i].touched < log[j].touched
  \/ log[i].turn = log[j].turn /\ log[i].touched = log[j].touched /\ j < i

\* The order of thread_history: by turn, then by the node's cursor; equal keys
\* keep the order of the ids, which are ordered by time.
Earlier(log, i, j) ==
  \/ log[i].turn < log[j].turn
  \/ log[i].turn = log[j].turn /\ log[i].touched < log[j].touched
  \/ log[i].turn = log[j].turn /\ log[i].touched = log[j].touched /\ i < j

-----------------------------------------------------------------------------
(* Threads and turns.                                                       *)

StartThread(t) ==
  /\ turn = Quiet
  /\ t \notin live
  /\ live' = live \cup {t}
  /\ UNCHANGED <<items, turns, turn, torn, skewed>>

\* Mutant of NextTurn: every attempt at a turn counts.
NextTurnOfAttempts(t) ==
  1 + Cardinality({i \in DOMAIN items : items[i].thread = t /\ items[i].kind = "user"})

NextTurn(t) == turns[t] + 1

AskedTurn(t, number) ==
  [thread |-> t, number |-> number, rounds |-> 0, calls |-> 0,
   ran |-> FALSE, tokens |-> 0]

\* send_user_message_opts up to its first await: the user message is durable.
BeginTurn(t, mention) ==
  /\ turn = Quiet
  /\ t \in live
  /\ Len(items) < MaxItems
  /\ items' = Added(items, [NewItem(t, "user", NextTurn(t)) EXCEPT !.mention = mention])
  /\ turn' = AskedTurn(t, NextTurn(t))
  /\ UNCHANGED <<turns, live, torn, skewed>>

\* An empty message, an unknown thread: an error before anything is appended.
RefuseMessage ==
  /\ turn = Quiet
  /\ UNCHANGED conversationVars

Asking == turn # Quiet /\ turn.calls = 0

\* The provider answers with tool calls and there is a round left for them.
AnswerCalls(n) ==
  /\ Asking
  /\ turn.rounds < MAX_TOOL_ROUNDS
  /\ turn' = [turn EXCEPT !.rounds = @ + 1, !.calls = n, !.tokens = @ + 1]
  /\ UNCHANGED <<items, turns, live, torn, skewed>>

\* run_tool_calls: the tool runs while the handler awaits it ...
RunTool ==
  /\ turn # Quiet /\ turn.calls > 0 /\ ~turn.ran
  /\ turn' = [turn EXCEPT !.ran = TRUE]
  /\ UNCHANGED <<items, turns, live, torn, skewed>>

\* ... and then the call and its output become items.
RecordCall ==
  /\ turn # Quiet /\ turn.ran
  /\ items' = Added(Added(items, NewItem(turn.thread, "call", turn.number)),
                    NewItem(turn.thread, "tool", turn.number))
  /\ turn' = [turn EXCEPT !.calls = @ - 1, !.ran = FALSE]
  /\ UNCHANGED <<turns, live, torn, skewed>>

Answer == NewItem(turn.thread, "assistant", turn.number)
Completion ==
  [NewItem(turn.thread, "turn", turn.number) EXCEPT !.tokens = turn.tokens + 1]

\* Mutant of Finished: the completion goes first.
FinishedFirst(model) ==
  Added(IF model = "named" THEN Added(items, Completion) ELSE items, Answer)

\* The assistant's message, and the completion unless its projection fails.
Finished(model) ==
  IF model = "named" THEN Added(Added(items, Answer), Completion)
  ELSE Added(items, Answer)

\* The provider answers with text, or with calls after the last round.
\* Projecting turn-completed sets `turns` before it refuses the model's name.
AnswerText(model) ==
  /\ Asking
  /\ items' = Finished(model)
  /\ turns' = [turns EXCEPT ![turn.thread] = turn.number]
  /\ torn' = IF model = "named" THEN torn ELSE torn \cup {turn.thread}
  /\ turn' = Quiet
  /\ UNCHANGED <<live, skewed>>

\* `complete(..).await?`: what the turn has appended so far stays.
ProviderFails ==
  /\ Asking
  /\ turn' = Quiet
  /\ UNCHANGED <<items, turns, live, torn, skewed>>

\* The client disconnects while the handler awaits the provider or a tool.
Disconnect ==
  /\ turn # Quiet
  /\ turn' = Quiet
  /\ UNCHANGED <<items, turns, live, torn, skewed>>

-----------------------------------------------------------------------------
(* Forks.                                                                   *)

\* What a fork takes over: messages and completions up to the limit.  A tool
\* call is let through by the turn of the last message taken, which never
\* exceeds the limit, so every call of the source is taken.
Taken(s, limit, item) ==
  item.thread = s /\ (item.kind = "call" \/ item.turn <= limit)

\* The k-th item, if it is taken: it is appended to the fork as the original was
\* to its source, and a completion sets `turns` as the original did.
CopyStep(sofar, f, s, limit, k) ==
  IF ~Taken(s, limit, items[k]) THEN sofar
  ELSE [log   |-> Added(sofar.log, [items[k] EXCEPT !.thread = f, !.of = k]),
        turns |-> IF items[k].kind = "turn" THEN items[k].turn ELSE sofar.turns]

\* The log and the fork's `turns` when the first k items have been gone through.
Copying(f, s, limit) ==
  LET copied[k \in 0..Len(items)] ==
        IF k = 0 THEN [log |-> items, turns |-> limit]
        ELSE CopyStep(copied[k-1], f, s, limit, k)
  IN copied

Min2(a, b) == IF a <= b THEN a ELSE b

\* fork_thread: the limit is the source's `turns` at most.
Fork(f, s, upTo) ==
  /\ turn = Quiet
  /\ f \notin live /\ s \in live
  /\ Len(items) < MaxItems
  /\ LET copied == Copying(f, s, Min2(upTo, turns[s]))[Len(items)]
     IN /\ items' = copied.log
        /\ turns' = [turns EXCEPT ![f] = copied.turns]
  /\ skewed' = IF s \in torn \cup skewed THEN skewed \cup {f} ELSE skewed
  /\ live' = live \cup {f}
  /\ UNCHANGED <<turn, torn>>

-----------------------------------------------------------------------------
\* What a message may mention: nothing, or a message that is there already.
Mentionable ==
  {0} \cup {i \in DOMAIN items : i <= MaxMention /\ IsMessage(items[i])}

ConversationNext ==
  \/ \E t \in Threads : StartThread(t)
  \/ \E t \in Threads, mention \in Mentionable : BeginTurn(t, mention)
  \/ RefuseMessage
  \/ \E n \in 1..MaxCalls : AnswerCalls(n)
  \/ RunTool \/ RecordCall
  \/ \E model \in ModelNames : AnswerText(model)
  \/ ProviderFails \/ Disconnect
  \/ \E f, s \in Threads, upTo \in 0..MaxItems : Fork(f, s, upTo)

ConversationSpec == ConversationInit /\ [][ConversationNext]_conversationVars

-----------------------------------------------------------------------------
Completions(t) == {i \in DOMAIN items : items[i].thread = t /\ items[i].kind = "turn"}

\* The completed turns of a thread are numbered 1, 2, 3, ... in log order and
\* its turn counter is the last of them: after turns that failed or were
\* dropped halfway and are tried again, and in forks at any turn, of forks.
TurnsConsecutive ==
  \A t \in live \ (torn \cup skewed) :
    /\ {items[i].turn : i \in Completions(t)} = 1..turns[t]
    /\ \A i, j \in Completions(t) : i < j => items[i].turn < items[j].turn

\* A completed turn has a question, exactly one answer and nothing after them,
\* in the thread it was held in and in every fork that took it over; also in
\* threads where a completion tore, but not in forks of these.
TurnsAnswered ==
  \A i \in DOMAIN items : (items[i].kind = "turn" /\ items[i].thread \notin skewed) =>
    LET ofTurn == {j \in Messages(items, items[i].thread) : items[j].turn = items[i].turn}
    IN /\ \E j \in ofTurn : items[j].kind = "user"
       /\ \E j \in ofTurn : {k \in ofTurn : items[k].kind = "assistant"} = {j}
       /\ \A j \in ofTurn : j < i

\* A user message was appended and the provider was not asked yet.
Prompted == turn # Quiet /\ turn.rounds = 0

\* The history of the turn's thread ends with the prompt of the turn.
PromptEndsHistory ==
  LET prompt == Len(items) IN
    /\ prompt \in Messages(items, turn.thread)
    /\ items[prompt].kind = "user" /\ items[prompt].turn = turn.number
    /\ \A i \in Messages(items, turn.thread) \ {prompt} : Earlier(items, i, prompt)

\* What the provider is sent when a turn begins ends with the user's prompt,
\* whatever the messages mention and however many turns failed before, in every
\* thread that is not the fork of a torn one.
PromptIsLast ==
  Prompted /\ turn.thread \notin skewed => PromptEndsHistory

\* conversation.rs, on thread_history: "Includes the just-appended user prompt as
\* the final message".
PromptAlwaysLast == Prompted => PromptEndsHistory

Mentioned(i) == \E j \in DOMAIN items : items[j].mention = i

\* The history lists two messages in the order in which they were appended,
\* unless the earlier one was mentioned since and they are of the same turn.
HistoryInOrder ==
  \A t \in live \ skewed : \A i, j \in Messages(items, t) :
    (i < j /\ Earlier(items, j, i)) =>
      items[i].turn = items[j].turn /\ Mentioned(i)

\* A turn asks the provider at most once more than it runs tool rounds: a
\* model that always answers with calls still ends the turn.
AnswersBounded == turn # Quiet => turn.tokens <= MAX_TOOL_ROUNDS
=============================================================================
