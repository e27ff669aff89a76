-------------------------------- MODULE Frames --------------------------------
(***************************************************************************)
(* Frames of vistalith-agent-runtime: bounded execution contexts with a    *)
(* thread of their own.  A frame turn is an ordinary turn on that thread,  *)
(* with guards before it and accounting after it; the thread stays an      *)
(* ordinary thread that clients can also write to directly.                *)
(*                                                                         *)
(* post_frame_turn reads the frame's prompt and tools before it has the    *)
(* write lock; nothing that runs in between changes them, and              *)
(* run_frame_turn reads everything else again under the lock.              *)
(***************************************************************************)
EXTENDS Conversation

CONSTANTS
  FrameIds,      \* frame subjects
  MaxTurns,      \* bound on the turn budgets given to frames
  TokenBudgets   \* token budgets given to frames, 0 for none

ASSUME FramesAssumption ==
  /\ MaxTurns \in Nat \ {0} /\ TokenBudgets \subseteq Nat
  /\ "none" \notin Threads   \* the mark of a frame without a thread

VARIABLES
  frames,   \* the frame subjects in the graph
  request,  \* the frame request whose turn is in progress
  charges,  \* the durable frame-turn-completed events
  runs      \* frames with a durable agent-run-finished event

frameVars == <<frames, request, charges, runs>>
allVars == <<conversationVars, frameVars>>

Outcomes == {"completed", "aborted", "turns-exhausted", "budget-exhausted"}

NotStarted == [status |-> "none"]
Frame == [status : {"open"} \cup Outcomes, thread : Threads \cup {"none"},
          turns : Nat, used : Nat, max : Nat, budget : Nat]

NoRequest == [frame |-> "none"]
Request == [frame : FrameIds, agent : BOOLEAN]

FramesTypeOK ==
  /\ ConversationTypeOK
  /\ frames \in [FrameIds -> Frame \cup {NotStarted}]
  /\ request \in Request \cup {NoRequest}
  /\ charges \in Seq([frame : FrameIds, turn : Nat, tokens : Nat])
  /\ runs \subseteq FrameIds

FramesInit ==
  /\ ConversationInit
  /\ frames = [f \in FrameIds |-> NotStarted]
  /\ request = NoRequest
  /\ charges = << >>
  /\ runs = {}

-----------------------------------------------------------------------------
(* Starting and closing.                                                    *)

Open(f) == frames[f].status = "open"
Closed(f) == frames[f].status \in Outcomes

NewFrame(t, max, budget) ==
  [status |-> "open", thread |-> t, turns |-> 0, used |-> 0,
   max |-> max, budget |-> budget]

\* start_frame: the frame, its thread and the `contains` relation.
StartFrame(f, t, max, budget) ==
  /\ frames[f] = NotStarted
  /\ StartThread(t)
  /\ frames' = [frames EXCEPT ![f] = NewFrame(t, max, budget)]
  /\ UNCHANGED <<request, charges, runs>>

\* start_frame with a subject listed twice: the projection of frame-started
\* fails at the second mention, and start_frame leaves by `?`.
StartFrameTorn(f, max, budget) ==
  /\ turn = Quiet
  /\ frames[f] = NotStarted
  /\ frames' = [frames EXCEPT ![f] = NewFrame("none", max, budget)]
  /\ UNCHANGED <<conversationVars, request, charges, runs>>

\* Mutant of ClosedAs: the frame need not be open (require_open is missing).
ClosedAnyway(f, outcome) ==
  [frames EXCEPT ![f] = [@ EXCEPT !.status = outcome]]

\* close_frame: an error, and no change, unless the frame is open.
ClosedAs(f, outcome) ==
  [frames EXCEPT ![f] = IF @.status = "open" THEN [@ EXCEPT !.status = outcome] ELSE @]

CloseFrame(f, outcome) ==
  /\ turn = Quiet
  /\ frames[f] # NotStarted
  /\ frames' = ClosedAs(f, outcome)
  /\ UNCHANGED <<conversationVars, request, charges, runs>>

-----------------------------------------------------------------------------
(* Frame turns.                                                             *)

TokensOut(frame) == frame.budget > 0 /\ frame.used >= frame.budget
TurnsOut(frame) == frame.turns >= frame.max

\* Before a turn the turns are looked at first, after it the tokens.
OutcomeBefore(frame) ==
  IF TurnsOut(frame) THEN "turns-exhausted"
  ELSE IF TokensOut(frame) THEN "budget-exhausted" ELSE "none"

OutcomeAfter(frame) ==
  IF TokensOut(frame) THEN "budget-exhausted"
  ELSE IF TurnsOut(frame) THEN "turns-exhausted" ELSE "none"

\* run_frame_turn on an open frame with a budget used up: close it, answer an error.
RefuseExhausted(f) ==
  /\ turn = Quiet
  /\ Open(f)
  /\ OutcomeBefore(frames[f]) # "none"
  /\ frames' = ClosedAs(f, OutcomeBefore(frames[f]))
  /\ UNCHANGED <<conversationVars, request, charges, runs>>

\* Mutant of MayRun: the frame's budgets are not looked at.
MayRunIfOpen(f) == Open(f) /\ frames[f].thread # "none"

\* A closed frame, or one without a thread, answers an error and changes nothing.
MayRun(f) ==
  Open(f) /\ OutcomeBefore(frames[f]) = "none" /\ frames[f].thread # "none"

FrameTurn(f) ==
  /\ MayRun(f)
  /\ BeginTurn(frames[f].thread, 0)
  /\ request' = [frame |-> f, agent |-> FALSE]
  /\ UNCHANGED <<frames, charges, runs>>

AGENT_TURNS == 5

\* start_agent_frame: the agent's turn budget within the server's, at least one.
EffectiveTurns(agentTurns) ==
  IF agentTurns = 0 THEN 1 ELSE Min2(agentTurns, AGENT_TURNS)

\* post_agent_run: a frame for the agent, and its first turn under the same lock.
AgentRun(f, t, agentTurns, budget) ==
  /\ turn = Quiet
  /\ frames[f] = NotStarted /\ t \notin live
  /\ Len(items) < MaxItems
  /\ live' = live \cup {t}
  /\ items' = Added(items, NewItem(t, "user", 1))
  /\ turn' = AskedTurn(t, 1)
  /\ frames' = [frames EXCEPT ![f] = NewFrame(t, EffectiveTurns(agentTurns), budget)]
  /\ request' = [frame |-> f, agent |-> TRUE]
  /\ UNCHANGED <<turns, torn, skewed, charges, runs>>

\* Mutant of Charged: the tokens replace those charged before.
ChargedLast(frame, number, tokens) ==
  [frame EXCEPT !.turns = number, !.used = tokens]

\* The projection of frame-turn-completed.
Charged(frame, number, tokens) ==
  [frame EXCEPT !.turns = number, !.used = @ + tokens]

\* finish_agent_run, if the turn is that of an agent run.
RunsAfter(f) == IF request.agent THEN runs \cup {f} ELSE runs

\* The turn of a frame is completed: charge it, and close the frame if that
\* exhausts a budget.
Account(f) ==
  LET tokens  == turn.tokens + 1
      charged == Charged(frames[f], turn.number, tokens)
      outcome == OutcomeAfter(charged)
  IN /\ charges' = Append(charges,
                     [frame |-> f, turn |-> turn.number, tokens |-> tokens])
     /\ frames' = [frames EXCEPT ![f] =
          IF outcome = "none" THEN charged ELSE [charged EXCEPT !.status = outcome]]
     /\ runs' = RunsAfter(f)

\* A turn that tears at its completion is an error: nothing is charged.
FinishTurn(model) ==
  /\ AnswerText(model)
  /\ IF request = NoRequest \/ model = "unnamed"
     THEN UNCHANGED <<frames, charges, runs>>
     ELSE Account(request.frame)
  /\ request' = NoRequest

EndTurn ==
  /\ ProviderFails \/ Disconnect
  /\ request' = NoRequest
  /\ UNCHANGED <<frames, charges, runs>>

-----------------------------------------------------------------------------
ThreadStep ==
  \/ \E t \in Threads : StartThread(t)
  \/ \E t \in Threads, mention \in Mentionable : BeginTurn(t, mention)
  \/ RefuseMessage
  \/ \E n \in 1..MaxCalls : AnswerCalls(n)
  \/ RunTool \/ RecordCall
  \/ \E f, s \in Threads, upTo \in 0..MaxItems : Fork(f, s, upTo)

FrameStep(f) ==
  \/ \E max \in 0..MaxTurns, budget \in TokenBudgets :
       \/ \E t \in Threads : StartFrame(f, t, max, budget) \/ AgentRun(f, t, max, budget)
       \/ StartFrameTorn(f, max, budget)
  \/ FrameTurn(f)
  \/ RefuseExhausted(f)
  \/ \E outcome \in {"completed", "aborted"} : CloseFrame(f, outcome)

FramesNext ==
  \/ ThreadStep /\ UNCHANGED frameVars
  \/ \E f \in FrameIds : FrameStep(f)
  \/ \E model \in ModelNames : FinishTurn(model)
  \/ EndTurn

FramesSpec == FramesInit /\ [][FramesNext]_allVars

-----------------------------------------------------------------------------
\* The charges of a frame.
ChargedTo(f) == {n \in DOMAIN charges : charges[n].frame = f}

\* The tokens charged to a frame by the first n charges.
Tokens(charge, f) == IF charge.frame = f THEN charge.tokens ELSE 0

Spent(log, f) ==
  LET spent[n \in 0..Len(log)] ==
        IF n = 0 THEN 0 ELSE spent[n-1] + Tokens(log[n], f)
  IN spent

\* The durable outcome of the first close wins (frames.rs, on close_frame): once
\* closed, by a client, by a budget or before a turn, a frame keeps its outcome
\* and its accounting for ever.
FirstCloseWins ==
  [][ \A f \in FrameIds : Closed(f) => frames'[f] = frames[f] ]_allVars

\* A frame is never charged for more turns than it was given, and nothing is
\* charged to it once its tokens are used up: a token budget is overrun by one
\* turn at most.
BudgetsHold ==
  \A f \in FrameIds : frames[f] # NotStarted =>
    /\ Cardinality(ChargedTo(f)) <= frames[f].max
    /\ frames[f].budget > 0 =>
         \A n \in ChargedTo(f) : Spent(charges, f)[n-1] < frames[f].budget

\* A turn of the thread that is completed in the log with these tokens.
Completed(log, t, number, tokens) ==
  \E i \in DOMAIN log : /\ log[i].thread = t /\ log[i].kind = "turn"
                        /\ log[i].turn = number /\ log[i].tokens = tokens

\* The accounting is backed by the log: the tokens a frame has used are those of
\* its charges, its turns are those of the last charge, and every charge is for a
\* turn of the frame's thread that is completed in the log with exactly these
\* tokens, none charged twice.  An agent run that is on record was charged.
UsageBacked ==
  \A f \in FrameIds : frames[f] # NotStarted =>
    /\ frames[f].used = Spent(charges, f)[Len(charges)]
    /\ f \in runs => ChargedTo(f) # {}
    /\ \A n \in ChargedTo(f) :
         /\ Completed(items, frames[f].thread, charges[n].turn, charges[n].tokens)
         /\ \A m \in ChargedTo(f) : m < n => charges[m].turn < charges[n].turn
         /\ (\A m \in ChargedTo(f) : m <= n) => frames[f].turns = charges[n].turn
=============================================================================
