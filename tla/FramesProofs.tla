------------------------------ MODULE FramesProofs ------------------------------
(***************************************************************************)
(* What holds of threads, turns, forks and frames for any threads,         *)
(* mentions, logs, budgets and failures.                                   *)
(***************************************************************************)
EXTENDS Frames, SequenceTheorems, WellFoundedInduction, FiniteSetTheorems, TLAPS

-----------------------------------------------------------------------------
(* How often a turn asks the provider.                                      *)

\* A turn under way: the answers with calls it has got are its tool rounds.
TurnOf(t, number, rounds, calls, ran) ==
  [thread |-> t, number |-> number, rounds |-> rounds, calls |-> calls,
   ran |-> ran, tokens |-> rounds]

IsTurn(x) ==
  \E t, number, calls, ran : \E rounds \in 0..MAX_TOOL_ROUNDS :
    x = TurnOf(t, number, rounds, calls, ran)

TurnInv == turn # Quiet => IsTurn(turn)

LEMMA TurnIsNotQuiet ==
  ASSUME NEW x, IsTurn(x)
  PROVE  x # Quiet
<1>1. DOMAIN x = {"thread", "number", "rounds", "calls", "ran", "tokens"}
  BY DEF IsTurn, TurnOf
<1>2. DOMAIN Quiet = {"thread"}
  BY DEF Quiet
<1> QED BY <1>1, <1>2

LEMMA AskedIsTurn ==
  ASSUME NEW t, NEW number
  PROVE  IsTurn(AskedTurn(t, number))
<1>1. AskedTurn(t, number) = TurnOf(t, number, 0, 0, FALSE)
  BY DEF AskedTurn, TurnOf
<1>2. 0 \in 0..MAX_TOOL_ROUNDS
  BY DEF MAX_TOOL_ROUNDS
<1> QED BY <1>1, <1>2 DEF IsTurn

\* The steps of a turn between its begin and its end.
Within ==
  \/ \E n \in 1..MaxCalls : AnswerCalls(n)
  \/ RunTool \/ RecordCall

LEMMA WithinTurn ==
  ASSUME TurnInv, Within
  PROVE  turn # Quiet /\ turn' # Quiet /\ TurnInv'
<1>1. turn # Quiet
  BY DEF Within, AnswerCalls, Asking, RunTool, RecordCall
<1>2. PICK t, number, calls, ran : \E rounds \in 0..MAX_TOOL_ROUNDS :
        turn = TurnOf(t, number, rounds, calls, ran)
  BY <1>1 DEF TurnInv, IsTurn
<1>3. PICK rounds \in 0..MAX_TOOL_ROUNDS : turn = TurnOf(t, number, rounds, calls, ran)
  BY <1>2
<1>4. ASSUME NEW n \in 1..MaxCalls, AnswerCalls(n)
      PROVE  IsTurn(turn')
  <2>1. turn' = TurnOf(t, number, rounds + 1, n, ran)
    BY <1>3, <1>4 DEF AnswerCalls, TurnOf
  <2>2. rounds + 1 \in 0..MAX_TOOL_ROUNDS
    BY <1>3, <1>4 DEF AnswerCalls, TurnOf, MAX_TOOL_ROUNDS
  <2> QED BY <2>1, <2>2 DEF IsTurn
<1>5. ASSUME RunTool
      PROVE  IsTurn(turn')
  <2>1. turn' = TurnOf(t, number, rounds, calls, TRUE)
    BY <1>3, <1>5 DEF RunTool, TurnOf
  <2> QED BY <1>3, <2>1 DEF IsTurn
<1>6. ASSUME RecordCall
      PROVE  IsTurn(turn')
  <2>1. turn' = TurnOf(t, number, rounds, calls - 1, FALSE)
    BY <1>3, <1>6 DEF RecordCall, TurnOf
  <2> QED BY <1>3, <2>1 DEF IsTurn
<1> QED BY <1>1, <1>4, <1>5, <1>6, TurnIsNotQuiet DEF Within, TurnInv

LEMMA TurnInvInit == ConversationInit => TurnInv
BY DEF ConversationInit, TurnInv

LEMMA TurnInvNext ==
  ASSUME TurnInv, [ConversationNext]_conversationVars
  PROVE  TurnInv'
<1>1. ASSUME NEW t \in Threads, NEW mention \in Mentionable, BeginTurn(t, mention)
      PROVE  TurnInv'
  BY <1>1, AskedIsTurn DEF BeginTurn, TurnInv
<1>2. ASSUME NEW f \in Threads, NEW s \in Threads, NEW upTo \in 0..MaxItems, Fork(f, s, upTo)
      PROVE  TurnInv'
  BY <1>2 DEF Fork, TurnInv
<1>3. ASSUME \/ \E t \in Threads : StartThread(t)
             \/ RefuseMessage \/ UNCHANGED conversationVars
      PROVE  TurnInv'
  BY <1>3 DEF StartThread, RefuseMessage, conversationVars, TurnInv
<1>4. ASSUME \/ \E model \in ModelNames : AnswerText(model)
             \/ ProviderFails \/ Disconnect
      PROVE  TurnInv'
  BY <1>4 DEF AnswerText, ProviderFails, Disconnect, TurnInv
<1> QED BY <1>1, <1>2, <1>3, <1>4, WithinTurn DEF ConversationNext, Within

\* A model that answers every request with tool calls still ends the turn:
\* send_user_message_opts counts its rounds, whatever the threads and the log.
THEOREM AnswersAlwaysBounded == ConversationSpec => []AnswersBounded
<1>1. TurnInv => AnswersBounded
  BY DEF TurnInv, IsTurn, TurnOf, AnswersBounded, MAX_TOOL_ROUNDS
<1> QED BY <1>1, TurnInvInit, TurnInvNext, PTL DEF ConversationSpec


-----------------------------------------------------------------------------
(* Induction over the natural numbers, for sets.                            *)

LEMMA LeastOf ==
  ASSUME NEW S \in SUBSET Nat, S # {}
  PROVE  \E n \in S : \A m \in S : ~(m < n)
<1>1. PICK n \in S : \A m \in S : <<m, n>> \notin OpToRel(<, Nat)
  BY WFMin, NatLessThanWellFounded, Zenon
<1> QED BY <1>1, Zenon DEF OpToRel

LEMMA InductionUpTo ==
  ASSUME NEW last \in Nat, NEW S, 0 \in S,
         \A n \in 1..last : n - 1 \in S => n \in S
  PROVE  \A n \in 0..last : n \in S
<1> DEFINE Bad == {n \in 0..last : n \notin S}
<1> SUFFICES ASSUME Bad # {} PROVE FALSE
  OBVIOUS
<1>1. PICK n \in Bad : \A m \in Bad : ~(m < n)
  <2>1. Bad \in SUBSET Nat
    OBVIOUS
  <2> QED BY <2>1, LeastOf
<1>2. n \in 1..last /\ n - 1 \in 0..last /\ n - 1 < n
  OBVIOUS
<1>3. n - 1 \in S
  BY <1>1, <1>2
<1> QED BY <1>2, <1>3

-----------------------------------------------------------------------------
(* What adding an item does to a log.                                       *)

\* Two items that differ in their cursor at most, or are copies of each other.
Like(x, y) ==
  /\ x.kind = y.kind /\ x.turn = y.turn
  /\ x.mention = y.mention /\ x.tokens = y.tokens

\* The log goes on after old, with items of thread t only.
GoesOn(log, old, t) ==
  /\ Len(old) <= Len(log)
  /\ \A i \in 1..Len(old) : Like(log[i], old[i]) /\ log[i].thread = old[i].thread
                            /\ log[i].of = old[i].of
  /\ \A i \in (Len(old)+1)..Len(log) : log[i].thread = t

\* A message mentions an earlier one, and its cursor is its own position unless
\* a later message mentioned it.
CursorsOK(log) ==
  \A i \in 1..Len(log) :
    /\ log[i].mention < i
    /\ i <= log[i].touched /\ log[i].touched <= Len(log)
    /\ log[i].touched = i \/ \E j \in 1..Len(log) : log[j].mention = i

LogOK(log) == log \in Seq(Item) /\ CursorsOK(log)

LEMMA Retouched ==
  ASSUME NEW item \in Item, NEW n \in Nat
  PROVE  [item EXCEPT !.touched = n] \in Item
BY DEF Item

LEMMA AddedIs ==
  ASSUME NEW log \in Seq(Item), NEW item \in Item, item.mention <= Len(log)
  PROVE  /\ Added(log, item) \in Seq(Item)
         /\ Len(Added(log, item)) = Len(log) + 1
         /\ \A i \in 1..Len(log) :
              Added(log, item)[i] = IF i = item.mention
                                    THEN [log[i] EXCEPT !.touched = Len(log) + 1]
                                    ELSE log[i]
         /\ Added(log, item)[Len(log) + 1] = [item EXCEPT !.touched = Len(log) + 1]
<1> DEFINE n == Len(log) + 1
           before == IF item.mention = 0 THEN log
                     ELSE [log EXCEPT ![item.mention].touched = n]
           last == [item EXCEPT !.touched = n]
<1>0. n \in Nat /\ item.mention \in Nat
  BY DEF Item
<1>1. last \in Item
  BY <1>0, Retouched
<1>2. before \in Seq(Item) /\ Len(before) = Len(log)
  <2>1. CASE item.mention = 0
    BY <2>1
  <2>2. CASE item.mention # 0
    <3>1. item.mention \in 1..Len(log)
      BY <1>0, <2>2
    <3>2. [log[item.mention] EXCEPT !.touched = n] \in Item
      <4>1. log[item.mention] \in Item
        BY <3>1
      <4> QED BY <1>0, <4>1, Retouched
    <3>3. before = [log EXCEPT ![item.mention] = [log[item.mention] EXCEPT !.touched = n]]
      BY <2>2
    <3> QED BY <3>1, <3>2, <3>3, ExceptSeq
  <2> QED BY <2>1, <2>2
<1>3. \A i \in 1..Len(log) :
        before[i] = IF i = item.mention THEN [log[i] EXCEPT !.touched = n] ELSE log[i]
  BY <1>0
<1>4. Added(log, item) = Append(before, last)
  BY DEF Added
<1> HIDE DEF before, last
<1>5. /\ Append(before, last) \in Seq(Item)
      /\ Len(Append(before, last)) = Len(log) + 1
      /\ \A i \in 1..Len(log) : Append(before, last)[i] = before[i]
      /\ Append(before, last)[Len(log) + 1] = last
  BY <1>1, <1>2, AppendProperties
<1> QED BY <1>3, <1>4, <1>5 DEF last

LEMMA AddedGoesOn ==
  ASSUME NEW log, LogOK(log), NEW item \in Item, item.mention <= Len(log)
  PROVE  /\ LogOK(Added(log, item))
         /\ Len(Added(log, item)) = Len(log) + 1
         /\ GoesOn(Added(log, item), log, item.thread)
         /\ Like(Added(log, item)[Len(log) + 1], item)
         /\ Added(log, item)[Len(log) + 1].of = item.of
<1> DEFINE new == Added(log, item)
           n == Len(log) + 1
<1>1. log \in Seq(Item) /\ Len(log) \in Nat /\ n \in Nat
  BY DEF LogOK
<1>2. /\ new \in Seq(Item) /\ Len(new) = n
      /\ \A i \in 1..Len(log) :
           new[i] = IF i = item.mention THEN [log[i] EXCEPT !.touched = n] ELSE log[i]
      /\ new[n] = [item EXCEPT !.touched = n]
  BY <1>1, AddedIs
<1> HIDE DEF new
<1>3. \A i \in 1..Len(log) : log[i] \in Item
  BY <1>1
<1>4. \A i \in 1..Len(log) :
        /\ new[i].kind = log[i].kind /\ new[i].turn = log[i].turn
        /\ new[i].mention = log[i].mention /\ new[i].tokens = log[i].tokens
        /\ new[i].thread = log[i].thread /\ new[i].of = log[i].of
        /\ new[i].touched = IF i = item.mention THEN n ELSE log[i].touched
  BY <1>2, <1>3 DEF Item
<1>5. /\ new[n].kind = item.kind /\ new[n].turn = item.turn
      /\ new[n].mention = item.mention /\ new[n].tokens = item.tokens
      /\ new[n].thread = item.thread /\ new[n].of = item.of
      /\ new[n].touched = n
  BY <1>2 DEF Item
<1>6. item.mention \in Nat
  BY DEF Item
<1>7. CursorsOK(new)
  <2> SUFFICES ASSUME NEW i \in 1..n
               PROVE  /\ new[i].mention < i
                      /\ i <= new[i].touched /\ new[i].touched <= n
                      /\ new[i].touched = i \/ \E j \in 1..n : new[j].mention = i
    BY <1>2 DEF CursorsOK
  <2>1. CASE i = n
    BY <1>1, <1>5, <1>6, <2>1
  <2>2. CASE i # n
    <3>1. i \in 1..Len(log)
      BY <1>1, <2>2
    <3>2. /\ log[i].mention < i
          /\ i <= log[i].touched /\ log[i].touched <= Len(log)
          /\ log[i].touched = i \/ \E j \in 1..Len(log) : log[j].mention = i
      BY <3>1 DEF LogOK, CursorsOK
    <3>3. log[i].touched \in Nat
      BY <1>3, <3>1 DEF Item
    <3>4. new[i].touched = i \/ \E j \in 1..n : new[j].mention = i
      <4>1. CASE i = item.mention
        BY <1>1, <1>5, <4>1
      <4>2. CASE i # item.mention /\ log[i].touched = i
        BY <1>4, <3>1, <4>2
      <4>3. CASE \E j \in 1..Len(log) : log[j].mention = i
        BY <1>1, <1>4, <4>3
      <4> QED BY <3>2, <4>1, <4>2, <4>3
    <3> QED BY <1>1, <1>4, <3>1, <3>2, <3>3, <3>4
  <2> QED BY <2>1, <2>2
<1>8. GoesOn(new, log, item.thread)
  <2>1. \A i \in (Len(log)+1)..Len(new) : i = n
    BY <1>1, <1>2
  <2>2. Len(log) <= Len(new)
    BY <1>1, <1>2
  <2> QED BY <1>4, <1>5, <2>1, <2>2 DEF GoesOn, Like
<1> QED BY <1>2, <1>5, <1>7, <1>8 DEF LogOK, Like, new

-----------------------------------------------------------------------------
(* A thread whose log is sound, and what items do to it.                    *)

\* No message is of a later turn than the next, no answer or completion of a
\* later one than the counter says.
Numbered(log, t, c) ==
  \A i \in 1..Len(log) : log[i].thread = t =>
    /\ IsMessage(log[i]) => log[i].turn <= c + 1
    /\ log[i].kind = "assistant" => log[i].turn <= c
    /\ log[i].kind = "turn" => 1 <= log[i].turn /\ log[i].turn <= c

\* The turns of messages never go back, and no turn has two answers or two
\* completions.
Ordered(log, t) ==
  \A i, j \in 1..Len(log) : (i < j /\ log[i].thread = t /\ log[j].thread = t) =>
    /\ IsMessage(log[i]) /\ IsMessage(log[j]) => log[i].turn <= log[j].turn
    /\ log[i].kind = log[j].kind /\ log[i].kind \in {"assistant", "turn"}
         => log[i].turn < log[j].turn

HasItem(log, t, kind, n) ==
  \E i \in 1..Len(log) : log[i].thread = t /\ log[i].kind = kind /\ log[i].turn = n

\* A completed turn has a question and an answer, and its messages came before.
AnsweredIn(log, t) ==
  \A i \in 1..Len(log) : (log[i].thread = t /\ log[i].kind = "turn") =>
    /\ HasItem(log, t, "user", log[i].turn)
    /\ HasItem(log, t, "assistant", log[i].turn)
    /\ \A j \in 1..Len(log) :
         (log[j].thread = t /\ IsMessage(log[j]) /\ log[j].turn = log[i].turn) => j < i

Sound(log, t, c) == Numbered(log, t, c) /\ Ordered(log, t) /\ AnsweredIn(log, t)

\* Every turn up to the counter is completed.
Complete(log, t, c) == \A n \in 1..c : HasItem(log, t, "turn", n)

\* The new log is the old one and one item of thread t.
OneMore(new, log, t) ==
  /\ LogOK(new) /\ LogOK(log) /\ GoesOn(new, log, t) /\ Len(new) = Len(log) + 1

LEMMA AddedIsOneMore ==
  ASSUME NEW log, LogOK(log), NEW item \in Item, item.mention <= Len(log)
  PROVE  OneMore(Added(log, item), log, item.thread)
BY AddedGoesOn DEF OneMore

LEMMA Typed ==
  ASSUME NEW log, LogOK(log)
  PROVE  /\ Len(log) \in Nat /\ DOMAIN log = 1..Len(log)
         /\ \A i \in 1..Len(log) : log[i] \in Item /\ log[i].turn \in Nat
<1>1. log \in Seq(Item)
  BY DEF LogOK
<1>2. \A i \in 1..Len(log) : log[i] \in Item
  BY <1>1
<1>3. \A x \in Item : x.turn \in Nat
  BY DEF Item
<1> QED BY <1>1, <1>2, <1>3

LEMMA ItemsStay ==
  ASSUME NEW new, NEW log, LogOK(new), LogOK(log), NEW u, GoesOn(new, log, u),
         NEW t, NEW kind, NEW n, HasItem(log, t, kind, n)
  PROVE  HasItem(new, t, kind, n)
<1>1. PICK i \in 1..Len(log) : log[i].thread = t /\ log[i].kind = kind /\ log[i].turn = n
  BY DEF HasItem
<1>2. i \in 1..Len(new)
  BY Typed DEF GoesOn
<1> QED BY <1>1, <1>2 DEF HasItem, GoesOn, Like

\* Whatever is added to other threads leaves a thread as it is.
LEMMA OthersAreLeftAlone ==
  ASSUME NEW new, NEW log, LogOK(new), LogOK(log), NEW u, GoesOn(new, log, u),
         NEW t, t # u, NEW c \in Nat
  PROVE  /\ Sound(log, t, c) => Sound(new, t, c)
         /\ Complete(log, t, c) => Complete(new, t, c)
<1>1. \A i \in 1..Len(new) : new[i].thread = t =>
        i \in 1..Len(log) /\ Like(new[i], log[i]) /\ log[i].thread = t
  <2>1. \A i \in 1..Len(new) : i \in 1..Len(log) \/ i \in (Len(log)+1)..Len(new)
    BY Typed
  <2> QED BY <2>1 DEF GoesOn
<1>2. ASSUME Sound(log, t, c) PROVE Sound(new, t, c)
  <2>1. Numbered(new, t, c)
    BY <1>1, <1>2 DEF Sound, Numbered, Like, IsMessage
  <2>2. Ordered(new, t)
    BY <1>1, <1>2 DEF Sound, Ordered, Like, IsMessage
  <2>3. AnsweredIn(new, t)
    <3> SUFFICES ASSUME NEW i \in 1..Len(new), new[i].thread = t, new[i].kind = "turn"
                 PROVE  /\ HasItem(new, t, "user", new[i].turn)
                        /\ HasItem(new, t, "assistant", new[i].turn)
                        /\ \A j \in 1..Len(new) :
                             (new[j].thread = t /\ IsMessage(new[j])
                              /\ new[j].turn = new[i].turn) => j < i
      BY DEF AnsweredIn
    <3>1. /\ i \in 1..Len(log) /\ log[i].thread = t /\ log[i].kind = "turn"
          /\ log[i].turn = new[i].turn
      BY <1>1 DEF Like
    <3>2. /\ HasItem(log, t, "user", new[i].turn)
          /\ HasItem(log, t, "assistant", new[i].turn)
          /\ \A j \in 1..Len(log) :
               (log[j].thread = t /\ IsMessage(log[j]) /\ log[j].turn = new[i].turn) => j < i
      BY <1>2, <3>1 DEF Sound, AnsweredIn
    <3>3. \A j \in 1..Len(new) :
            (new[j].thread = t /\ IsMessage(new[j]) /\ new[j].turn = new[i].turn) => j < i
      BY <1>1, <3>2 DEF Like, IsMessage
    <3> QED BY <3>2, <3>3, ItemsStay
  <2> QED BY <2>1, <2>2, <2>3 DEF Sound
<1>3. ASSUME Complete(log, t, c) PROVE Complete(new, t, c)
  BY <1>3, ItemsStay DEF Complete
<1> QED BY <1>2, <1>3

\* In the new log, an item is one of the old or the last.
LEMMA OldOrLast ==
  ASSUME NEW new, NEW log, NEW t, OneMore(new, log, t)
  PROVE  /\ Len(log) \in Nat /\ Len(new) = Len(log) + 1
         /\ new[Len(new)].thread = t /\ Len(new) \in 1..Len(new)
         /\ \A i \in 1..Len(new) :
              \/ i = Len(new)
              \/ /\ i \in 1..Len(log) /\ i < Len(new)
                 /\ Like(new[i], log[i]) /\ new[i].thread = log[i].thread
                 /\ log[i].turn \in Nat
<1>1. Len(log) \in Nat /\ Len(new) = Len(log) + 1
  BY Typed DEF OneMore
<1>2. \A i \in 1..Len(new) : i = Len(new) \/ (i \in 1..Len(log) /\ i < Len(new))
  BY <1>1
<1>3. Len(new) \in (Len(log)+1)..Len(new) /\ Len(new) \in 1..Len(new)
  BY <1>1
<1> QED BY <1>1, <1>2, <1>3, Typed DEF OneMore, GoesOn

\* A question, a call or its output joins the turn that is not completed.
LEMMA JoinsTurn ==
  ASSUME NEW new, NEW log, NEW t, OneMore(new, log, t), NEW c \in Nat,
         Sound(log, t, c), new[Len(new)].kind \in {"user", "tool", "call"},
         new[Len(new)].turn = c + 1
  PROVE  Sound(new, t, c)
<1> DEFINE n == Len(new)
<1>1. n \in 1..n /\ new[n].kind \notin {"turn", "assistant"}
  BY OldOrLast
<1>2. Numbered(new, t, c)
  BY <1>1, OldOrLast DEF Sound, Numbered, Like, IsMessage
<1>3. Ordered(new, t)
  <2> SUFFICES ASSUME NEW i \in 1..n, NEW j \in 1..n, i < j,
                      new[i].thread = t, new[j].thread = t
               PROVE  /\ IsMessage(new[i]) /\ IsMessage(new[j]) => new[i].turn <= new[j].turn
                      /\ new[i].kind = new[j].kind /\ new[i].kind \in {"assistant", "turn"}
                           => new[i].turn < new[j].turn
    BY DEF Ordered
  <2>1. i \in 1..Len(log) /\ Like(new[i], log[i]) /\ log[i].thread = t /\ log[i].turn \in Nat
    BY OldOrLast
  <2>2. CASE j = n
    BY <1>1, <2>1, <2>2 DEF Sound, Numbered, Like, IsMessage
  <2>3. CASE j # n
    <3>1. j \in 1..Len(log) /\ Like(new[j], log[j]) /\ log[j].thread = t
      BY <2>3, OldOrLast
    <3> QED BY <2>1, <3>1 DEF Sound, Ordered, Like, IsMessage
  <2> QED BY <2>2, <2>3
<1>4. AnsweredIn(new, t)
  <2> SUFFICES ASSUME NEW i \in 1..n, new[i].thread = t, new[i].kind = "turn"
               PROVE  /\ HasItem(new, t, "user", new[i].turn)
                      /\ HasItem(new, t, "assistant", new[i].turn)
                      /\ \A j \in 1..n :
                           (new[j].thread = t /\ IsMessage(new[j])
                            /\ new[j].turn = new[i].turn) => j < i
    BY DEF AnsweredIn
  <2>1. /\ i \in 1..Len(log) /\ log[i].thread = t /\ log[i].kind = "turn"
        /\ log[i].turn = new[i].turn /\ log[i].turn \in Nat
    BY <1>1, OldOrLast DEF Like
  <2>2. /\ HasItem(log, t, "user", new[i].turn)
        /\ HasItem(log, t, "assistant", new[i].turn)
        /\ \A j \in 1..Len(log) :
             (log[j].thread = t /\ IsMessage(log[j]) /\ log[j].turn = new[i].turn) => j < i
    BY <2>1 DEF Sound, AnsweredIn
  <2>3. new[i].turn <= c
    BY <2>1 DEF Sound, Numbered
  <2>4. \A j \in 1..n :
          (new[j].thread = t /\ IsMessage(new[j]) /\ new[j].turn = new[i].turn) => j < i
    <3> SUFFICES ASSUME NEW j \in 1..n, new[j].thread = t, IsMessage(new[j]),
                        new[j].turn = new[i].turn
                 PROVE  j < i
      OBVIOUS
    <3>1. j # n
      BY <2>1, <2>3
    <3>2. j \in 1..Len(log) /\ Like(new[j], log[j]) /\ log[j].thread = t
      BY <3>1, OldOrLast
    <3> QED BY <2>2, <3>2 DEF Like, IsMessage
  <2> QED BY <2>2, <2>4, ItemsStay DEF OneMore
<1> QED BY <1>2, <1>3, <1>4 DEF Sound

\* The answer is the first item of its turn that counts.
LEMMA AnswerCounts ==
  ASSUME NEW new, NEW log, NEW t, OneMore(new, log, t), NEW c \in Nat,
         Sound(log, t, c), new[Len(new)].kind = "assistant",
         new[Len(new)].turn = c + 1
  PROVE  /\ Sound(new, t, c + 1)
         /\ \A i \in 1..Len(new) :
              new[i].thread = t /\ new[i].kind = "turn" => new[i].turn <= c
<1> DEFINE n == Len(new)
<1>1. n \in 1..n /\ new[n].kind = "assistant" /\ new[n].turn = c + 1
  BY OldOrLast
<1>2. \A i \in 1..n : (i # n /\ new[i].thread = t) =>
        /\ new[i].turn \in Nat
        /\ IsMessage(new[i]) => new[i].turn <= c + 1
        /\ new[i].kind = "assistant" => new[i].turn <= c
        /\ new[i].kind = "turn" => 1 <= new[i].turn /\ new[i].turn <= c
  BY OldOrLast DEF Sound, Numbered, Like, IsMessage
<1>3. Numbered(new, t, c + 1)
  <2> SUFFICES ASSUME NEW i \in 1..n, new[i].thread = t
               PROVE  /\ IsMessage(new[i]) => new[i].turn <= (c + 1) + 1
                      /\ new[i].kind = "assistant" => new[i].turn <= c + 1
                      /\ new[i].kind = "turn" => 1 <= new[i].turn /\ new[i].turn <= c + 1
    BY DEF Numbered
  <2>1. CASE i = n
    BY <1>1, <2>1
  <2>2. CASE i # n
    BY <1>2, <2>2
  <2> QED BY <2>1, <2>2
<1>4. Ordered(new, t)
  <2> SUFFICES ASSUME NEW i \in 1..n, NEW j \in 1..n, i < j,
                      new[i].thread = t, new[j].thread = t
               PROVE  /\ IsMessage(new[i]) /\ IsMessage(new[j]) => new[i].turn <= new[j].turn
                      /\ new[i].kind = new[j].kind /\ new[i].kind \in {"assistant", "turn"}
                           => new[i].turn < new[j].turn
    BY DEF Ordered
  <2>0. i # n
    BY OldOrLast
  <2>1. i \in 1..Len(log) /\ Like(new[i], log[i]) /\ log[i].thread = t
    BY <2>0, OldOrLast
  <2>2. CASE j = n
    BY <1>1, <1>2, <2>0, <2>2
  <2>3. CASE j # n
    <3>1. j \in 1..Len(log) /\ Like(new[j], log[j]) /\ log[j].thread = t
      BY <2>3, OldOrLast
    <3> QED BY <2>1, <3>1 DEF Sound, Ordered, Like, IsMessage
  <2> QED BY <2>2, <2>3
<1>5. AnsweredIn(new, t)
  <2> SUFFICES ASSUME NEW i \in 1..n, new[i].thread = t, new[i].kind = "turn"
               PROVE  /\ HasItem(new, t, "user", new[i].turn)
                      /\ HasItem(new, t, "assistant", new[i].turn)
                      /\ \A j \in 1..n :
                           (new[j].thread = t /\ IsMessage(new[j])
                            /\ new[j].turn = new[i].turn) => j < i
    BY DEF AnsweredIn
  <2>0. i # n
    BY <1>1
  <2>1. /\ i \in 1..Len(log) /\ log[i].thread = t /\ log[i].kind = "turn"
        /\ log[i].turn = new[i].turn
    BY <2>0, OldOrLast DEF Like
  <2>2. /\ HasItem(log, t, "user", new[i].turn)
        /\ HasItem(log, t, "assistant", new[i].turn)
        /\ \A j \in 1..Len(log) :
             (log[j].thread = t /\ IsMessage(log[j]) /\ log[j].turn = new[i].turn) => j < i
    BY <2>1 DEF Sound, AnsweredIn
  <2>3. new[i].turn <= c /\ new[i].turn \in Nat
    BY <1>2, <2>0
  <2>4. \A j \in 1..n :
          (new[j].thread = t /\ IsMessage(new[j]) /\ new[j].turn = new[i].turn) => j < i
    <3> SUFFICES ASSUME NEW j \in 1..n, new[j].thread = t, IsMessage(new[j]),
                        new[j].turn = new[i].turn
                 PROVE  j < i
      OBVIOUS
    <3>1. j # n
      BY <1>1, <2>3
    <3>2. j \in 1..Len(log) /\ Like(new[j], log[j]) /\ log[j].thread = t
      BY <3>1, OldOrLast
    <3> QED BY <2>2, <3>2 DEF Like, IsMessage
  <2> QED BY <2>2, <2>4, ItemsStay DEF OneMore
<1>6. \A i \in 1..n : new[i].thread = t /\ new[i].kind = "turn" => new[i].turn <= c
  BY <1>1, <1>2
<1> QED BY <1>3, <1>4, <1>5, <1>6 DEF Sound

\* The completion, right after the answer.
LEMMA CompletionCloses ==
  ASSUME NEW new, NEW log, NEW t, OneMore(new, log, t), NEW c \in Nat,
         Sound(log, t, c + 1),
         \A i \in 1..Len(log) :
           log[i].thread = t /\ log[i].kind = "turn" => log[i].turn <= c,
         HasItem(log, t, "user", c + 1), HasItem(log, t, "assistant", c + 1),
         new[Len(new)].kind = "turn", new[Len(new)].turn = c + 1
  PROVE  /\ Sound(new, t, c + 1)
         /\ Complete(log, t, c) => Complete(new, t, c + 1)
<1> DEFINE n == Len(new)
<1>1. /\ n \in 1..n /\ new[n].kind = "turn" /\ new[n].turn = c + 1 /\ new[n].thread = t
      /\ ~IsMessage(new[n])
  BY OldOrLast DEF IsMessage, Roles
<1>2. Numbered(new, t, c + 1)
  <2> SUFFICES ASSUME NEW i \in 1..n, new[i].thread = t
               PROVE  /\ IsMessage(new[i]) => new[i].turn <= (c + 1) + 1
                      /\ new[i].kind = "assistant" => new[i].turn <= c + 1
                      /\ new[i].kind = "turn" => 1 <= new[i].turn /\ new[i].turn <= c + 1
    BY DEF Numbered
  <2>1. CASE i = n
    BY <1>1, <2>1
  <2>2. CASE i # n
    <3>1. i \in 1..Len(log) /\ Like(new[i], log[i]) /\ log[i].thread = t
      BY <2>2, OldOrLast
    <3> QED BY <3>1 DEF Sound, Numbered, Like, IsMessage
  <2> QED BY <2>1, <2>2
<1>3. Ordered(new, t)
  <2> SUFFICES ASSUME NEW i \in 1..n, NEW j \in 1..n, i < j,
                      new[i].thread = t, new[j].thread = t
               PROVE  /\ IsMessage(new[i]) /\ IsMessage(new[j]) => new[i].turn <= new[j].turn
                      /\ new[i].kind = new[j].kind /\ new[i].kind \in {"assistant", "turn"}
                           => new[i].turn < new[j].turn
    BY DEF Ordered
  <2>0. i # n
    BY OldOrLast
  <2>1. i \in 1..Len(log) /\ Like(new[i], log[i]) /\ log[i].thread = t /\ log[i].turn \in Nat
    BY <2>0, OldOrLast
  <2>2. CASE j = n
    <3>1. log[i].kind = "turn" => log[i].turn <= c
      BY <2>1
    <3>2. new[i].kind = new[j].kind => new[i].turn < new[j].turn
      BY <1>1, <2>1, <2>2, <3>1 DEF Like
    <3> QED BY <1>1, <2>2, <3>2
  <2>3. CASE j # n
    <3>1. j \in 1..Len(log) /\ Like(new[j], log[j]) /\ log[j].thread = t
      BY <2>3, OldOrLast
    <3> QED BY <2>1, <3>1 DEF Sound, Ordered, Like, IsMessage
  <2> QED BY <2>2, <2>3
<1>4. AnsweredIn(new, t)
  <2> SUFFICES ASSUME NEW i \in 1..n, new[i].thread = t, new[i].kind = "turn"
               PROVE  /\ HasItem(new, t, "user", new[i].turn)
                      /\ HasItem(new, t, "assistant", new[i].turn)
                      /\ \A j \in 1..n :
                           (new[j].thread = t /\ IsMessage(new[j])
                            /\ new[j].turn = new[i].turn) => j < i
    BY DEF AnsweredIn
  <2>1. CASE i = n
    <3>1. \A j \in 1..n : IsMessage(new[j]) => j < n
      BY <1>1, OldOrLast
    <3>2. HasItem(new, t, "user", c + 1) /\ HasItem(new, t, "assistant", c + 1)
      BY ItemsStay DEF OneMore
    <3> QED BY <1>1, <2>1, <3>1, <3>2
  <2>2. CASE i # n
    <3>1. /\ i \in 1..Len(log) /\ log[i].thread = t /\ log[i].kind = "turn"
          /\ log[i].turn = new[i].turn
      BY <2>2, OldOrLast DEF Like
    <3>2. /\ HasItem(log, t, "user", new[i].turn)
          /\ HasItem(log, t, "assistant", new[i].turn)
          /\ \A j \in 1..Len(log) :
               (log[j].thread = t /\ IsMessage(log[j]) /\ log[j].turn = new[i].turn) => j < i
      BY <3>1 DEF Sound, AnsweredIn
    <3>3. ASSUME NEW j \in 1..n, new[j].thread = t, IsMessage(new[j]),
                 new[j].turn = new[i].turn
          PROVE  j < i
      <4>1. j \in 1..Len(log) /\ Like(new[j], log[j]) /\ log[j].thread = t
        BY <1>1, <3>3, OldOrLast
      <4> QED BY <3>2, <3>3, <4>1 DEF Like, IsMessage
    <3> QED BY <3>2, <3>3, ItemsStay DEF OneMore
  <2> QED BY <2>1, <2>2
<1>5. ASSUME Complete(log, t, c) PROVE Complete(new, t, c + 1)
  <2> SUFFICES ASSUME NEW m \in 1..(c + 1) PROVE HasItem(new, t, "turn", m)
    BY DEF Complete
  <2>1. CASE m = c + 1
    BY <1>1, <2>1 DEF HasItem
  <2>2. CASE m # c + 1
    <3>1. m \in 1..c
      BY <2>2
    <3> QED BY <1>5, <3>1, ItemsStay DEF Complete, OneMore
  <2> QED BY <2>1, <2>2
<1> QED BY <1>2, <1>3, <1>4, <1>5 DEF Sound

-----------------------------------------------------------------------------
(* Forks.  Copying is a recursive function; that it exists is proved by     *)
(* induction on the items gone through.                                     *)

LEMMA CopyingUnfold ==
  ASSUME Len(items) \in Nat, NEW f, NEW s, NEW limit
  PROVE  /\ Copying(f, s, limit)[0] = [log |-> items, turns |-> limit]
         /\ \A k \in 1..Len(items) :
              Copying(f, s, limit)[k] = CopyStep(Copying(f, s, limit)[k-1], f, s, limit, k)
<1> DEFINE base == [log |-> items, turns |-> limit]
           last == Len(items)
           Of(g, n) == g = [k \in 0..n |-> IF k = 0 THEN base
                                           ELSE CopyStep(g[k-1], f, s, limit, k)]
           S == {n \in Nat : \E g : Of(g, n)}
<1>1. 0 \in S
  <2> DEFINE g == [k \in 0..0 |-> base]
  <2>1. \A k \in 0..0 : k = 0
    OBVIOUS
  <2>2. Of(g, 0)
    BY <2>1
  <2> QED BY <2>2
<1>2. ASSUME NEW m \in 1..last, m - 1 \in S PROVE m \in S
  <2>0. PICK n \in Nat : n = m - 1
    OBVIOUS
  <2>1. PICK g : Of(g, n)
    BY <1>2, <2>0
  <2> DEFINE h == [k \in 0..m |-> IF k <= n THEN g[k]
                                  ELSE CopyStep(g[n], f, s, limit, m)]
  <2>2. ASSUME NEW k \in 0..m
        PROVE  h[k] = IF k = 0 THEN base ELSE CopyStep(h[k-1], f, s, limit, k)
    <3>1. CASE k = 0
      BY <2>1, <3>1
    <3>2. CASE k # 0 /\ k <= n
      BY <2>1, <3>2
    <3>3. CASE k = m
      <4>1. k # 0 /\ ~(k <= n) /\ k - 1 = n /\ n \in 0..m /\ n <= n
        BY <2>0, <3>3
      <4>2. h[k] = CopyStep(g[n], f, s, limit, k) /\ h[k-1] = g[n]
        BY <3>3, <4>1
      <4> QED BY <4>1, <4>2
    <3>4. k = 0 \/ (k # 0 /\ k <= n) \/ k = m
      BY <2>0
    <3> QED BY <3>1, <3>2, <3>3, <3>4
  <2>3. Of(h, m)
    BY <2>2
  <2> HIDE DEF h, Of
  <2>4. \E x : Of(x, m)
    BY <2>3
  <2> QED BY <2>4
<1>3. last \in S
  <2> HIDE DEF S
  <2>1. last \in Nat /\ last \in 0..last
    OBVIOUS
  <2>2. \A m \in 1..last : m - 1 \in S => m \in S
    BY <1>2
  <2> HIDE DEF last
  <2>3. \A n \in 0..last : n \in S
    BY <1>1, <2>1, <2>2, InductionUpTo
  <2> QED BY <2>1, <2>3
<1>4. \E g : Of(g, last)
  BY <1>3
<1>5. Copying(f, s, limit) = CHOOSE g : Of(g, last)
  BY DEF Copying
<1>6. Of(Copying(f, s, limit), last)
  <2> HIDE DEF Of
  <2> QED BY <1>4, <1>5
<1>7. \A k \in 0..last :
        Copying(f, s, limit)[k] = IF k = 0 THEN base
                                  ELSE CopyStep(Copying(f, s, limit)[k-1], f, s, limit, k)
  <2> DEFINE c == Copying(f, s, limit)
  <2>1. c = [k \in 0..last |-> IF k = 0 THEN base ELSE CopyStep(c[k-1], f, s, limit, k)]
    BY <1>6
  <2> HIDE DEF c
  <2>2. \A k \in 0..last : c[k] = IF k = 0 THEN base ELSE CopyStep(c[k-1], f, s, limit, k)
    BY <2>1
  <2> QED BY <2>2 DEF c
<1> QED BY <1>7

\* The first k items have been gone through: the new items are copies, in order,
\* of those that are taken, and c is the turn of the last completion among them.
CopiedSoFar(log, c, f, s, limit, k) ==
  /\ LogOK(log) /\ GoesOn(log, items, f)
  /\ \A i \in (Len(items)+1)..Len(log) :
       /\ log[i].of \in 1..k /\ Taken(s, limit, items[log[i].of])
       /\ Like(log[i], items[log[i].of])
  /\ \A i, j \in (Len(items)+1)..Len(log) : i < j => log[i].of < log[j].of
  /\ \A o \in 1..k : Taken(s, limit, items[o]) =>
       \E i \in (Len(items)+1)..Len(log) : log[i].of = o
  /\ c \in Nat
  /\ \/ /\ c = limit
        /\ \A o \in 1..k : Taken(s, limit, items[o]) => items[o].kind # "turn"
     \/ \E o \in 1..k :
          /\ Taken(s, limit, items[o]) /\ items[o].kind = "turn" /\ c = items[o].turn
          /\ \A p \in 1..k :
               (Taken(s, limit, items[p]) /\ items[p].kind = "turn") => p <= o

LEMMA CopyNone ==
  ASSUME LogOK(items), NEW f, NEW s, NEW limit \in Nat
  PROVE  CopiedSoFar(items, limit, f, s, limit, 0)
<1>1. Len(items) \in Nat
  BY Typed
<1>2. GoesOn(items, items, f)
  BY <1>1 DEF GoesOn, Like
<1> QED BY <1>1, <1>2 DEF CopiedSoFar

LEMMA CopyOne ==
  ASSUME LogOK(items), NEW f \in Threads, NEW s, NEW limit \in Nat,
         NEW log, NEW c, NEW k \in 1..Len(items),
         CopiedSoFar(log, c, f, s, limit, k - 1)
  PROVE  LET next == CopyStep([log |-> log, turns |-> c], f, s, limit, k)
         IN CopiedSoFar(next.log, next.turns, f, s, limit, k)
<1> DEFINE last == Len(items)
           taken == Taken(s, limit, items[k])
           copy == [items[k] EXCEPT !.thread = f, !.of = k]
           new == Added(log, copy)
           d == IF items[k].kind = "turn" THEN items[k].turn ELSE c
<1>0. last \in Nat /\ k \in Nat /\ items[k] \in Item /\ items[k].turn \in Nat
  BY Typed
<1>1. /\ LogOK(log) /\ GoesOn(log, items, f) /\ c \in Nat
      /\ Len(log) \in Nat /\ last <= Len(log)
  BY Typed DEF CopiedSoFar, GoesOn
<1>2. ASSUME ~taken PROVE CopiedSoFar(log, c, f, s, limit, k)
  BY <1>0, <1>2 DEF CopiedSoFar
<1>3. ASSUME taken PROVE CopiedSoFar(new, d, f, s, limit, k)
  <2>1. /\ copy \in Item /\ copy.thread = f /\ copy.of = k /\ Like(copy, items[k])
        /\ copy.mention = items[k].mention
    BY <1>0 DEF Item, Like
  <2>2. copy.mention <= Len(log)
    <3>1. items[k].mention < k
      BY DEF LogOK, CursorsOK
    <3>2. items[k].mention \in Nat
      BY <1>0 DEF Item
    <3> QED BY <1>0, <1>1, <2>1, <3>1, <3>2
  <2> HIDE DEF copy
  <2>3. /\ LogOK(new) /\ Len(new) = Len(log) + 1 /\ GoesOn(new, log, f)
        /\ Like(new[Len(new)], copy) /\ new[Len(new)].of = k
    BY <1>1, <2>1, <2>2, AddedGoesOn
  <2>4. Like(new[Len(new)], items[k])
    BY <2>1, <2>3 DEF Like
  <2> HIDE DEF new
  <2>5. \A i \in (last+1)..Len(new) :
          \/ i = Len(new)
          \/ /\ i \in (last+1)..Len(log) /\ i \in 1..Len(log) /\ i < Len(new)
             /\ new[i].of = log[i].of /\ Like(new[i], log[i])
    <3>1. \A i \in (last+1)..Len(new) : i = Len(new) \/
            (i \in (last+1)..Len(log) /\ i \in 1..Len(log) /\ i < Len(new))
      BY <1>0, <1>1, <2>3
    <3> QED BY <2>3, <3>1 DEF GoesOn
  <2>6. Len(new) \in (last+1)..Len(new)
    BY <1>0, <1>1, <2>3
  <2>7. \A i \in (last+1)..Len(log) : i \in (last+1)..Len(new) /\ i \in 1..Len(log)
                                      /\ new[i].of = log[i].of
    <3>1. \A i \in (last+1)..Len(log) : i \in (last+1)..Len(new) /\ i \in 1..Len(log)
      BY <1>0, <1>1, <2>3
    <3> QED BY <2>3, <3>1 DEF GoesOn
  <2>8. GoesOn(new, items, f)
    <3>1. last <= Len(new)
      BY <1>0, <1>1, <2>3
    <3>2. \A i \in 1..last : Like(new[i], items[i]) /\ new[i].thread = items[i].thread
                             /\ new[i].of = items[i].of
      <4>1. \A i \in 1..last : i \in 1..Len(log)
        BY <1>0, <1>1
      <4> QED BY <1>1, <2>3, <4>1 DEF GoesOn, Like
    <3>3. \A i \in (last+1)..Len(new) : new[i].thread = f
      <4>1. \A i \in (last+1)..Len(log) : log[i].thread = f
        BY <1>1 DEF GoesOn
      <4>2. \A i \in (Len(log)+1)..Len(new) : new[i].thread = f
        BY <2>3 DEF GoesOn
      <4>3. \A i \in 1..Len(log) : new[i].thread = log[i].thread
        BY <2>3 DEF GoesOn
      <4>4. \A i \in (last+1)..Len(new) :
              (i \in (last+1)..Len(log) /\ i \in 1..Len(log)) \/ i \in (Len(log)+1)..Len(new)
        BY <1>0, <1>1, <2>3
      <4> QED BY <4>1, <4>2, <4>3, <4>4
    <3> QED BY <3>1, <3>2, <3>3 DEF GoesOn
  <2>9. \A i \in (last+1)..Len(new) :
          /\ new[i].of \in 1..k /\ Taken(s, limit, items[new[i].of])
          /\ Like(new[i], items[new[i].of])
    <3> SUFFICES ASSUME NEW i \in (last+1)..Len(new)
                 PROVE  /\ new[i].of \in 1..k /\ Taken(s, limit, items[new[i].of])
                        /\ Like(new[i], items[new[i].of])
      OBVIOUS
    <3>1. CASE i = Len(new)
      BY <1>0, <1>3, <2>3, <2>4, <3>1
    <3>2. CASE i # Len(new)
      <4>1. i \in (last+1)..Len(log) /\ new[i].of = log[i].of /\ Like(new[i], log[i])
        BY <2>5, <3>2
      <4>2. /\ log[i].of \in 1..(k-1) /\ Taken(s, limit, items[log[i].of])
            /\ Like(log[i], items[log[i].of])
        BY <4>1 DEF CopiedSoFar
      <4>3. log[i].of \in 1..k
        BY <1>0, <4>2
      <4> QED BY <4>1, <4>2, <4>3 DEF Like
    <3> QED BY <3>1, <3>2
  <2>10. \A i, j \in (last+1)..Len(new) : i < j => new[i].of < new[j].of
    <3> SUFFICES ASSUME NEW i \in (last+1)..Len(new), NEW j \in (last+1)..Len(new), i < j
                 PROVE  new[i].of < new[j].of
      OBVIOUS
    <3>1. i # Len(new)
      BY <1>0, <1>1, <2>3
    <3>2. i \in (last+1)..Len(log) /\ new[i].of = log[i].of
      BY <2>5, <3>1
    <3>3. log[i].of \in 1..(k-1)
      BY <3>2 DEF CopiedSoFar
    <3>4. CASE j = Len(new)
      BY <1>0, <2>3, <3>2, <3>3, <3>4
    <3>5. CASE j # Len(new)
      <4>1. j \in (last+1)..Len(log) /\ new[j].of = log[j].of
        BY <2>5, <3>5
      <4> QED BY <3>2, <4>1 DEF CopiedSoFar
    <3> QED BY <3>4, <3>5
  <2>11. \A o \in 1..k : Taken(s, limit, items[o]) =>
           \E i \in (last+1)..Len(new) : new[i].of = o
    <3> SUFFICES ASSUME NEW o \in 1..k, Taken(s, limit, items[o])
                 PROVE  \E i \in (last+1)..Len(new) : new[i].of = o
      OBVIOUS
    <3>1. CASE o = k
      BY <2>3, <2>6, <3>1
    <3>2. CASE o # k
      <4>1. o \in 1..(k-1)
        BY <1>0, <3>2
      <4>2. PICK i \in (last+1)..Len(log) : log[i].of = o
        BY <4>1 DEF CopiedSoFar
      <4> QED BY <2>7, <4>2
    <3> QED BY <3>1, <3>2
  <2>12. /\ d \in Nat
         /\ \/ /\ d = limit
               /\ \A o \in 1..k : Taken(s, limit, items[o]) => items[o].kind # "turn"
            \/ \E o \in 1..k :
                 /\ Taken(s, limit, items[o]) /\ items[o].kind = "turn" /\ d = items[o].turn
                 /\ \A p \in 1..k :
                      (Taken(s, limit, items[p]) /\ items[p].kind = "turn") => p <= o
    <3>1. CASE items[k].kind = "turn"
      BY <1>0, <1>3, <3>1
    <3>2. CASE items[k].kind # "turn"
      <4>1. \A o \in 1..k : o \in 1..(k-1) \/ o = k
        BY <1>0
      <4>2. \A o \in 1..(k-1) : o \in 1..k
        BY <1>0
      <4> QED BY <1>1, <3>2, <4>1, <4>2 DEF CopiedSoFar
    <3> QED BY <3>1, <3>2
  <2> HIDE DEF d
  <2> QED BY <2>3, <2>8, <2>9, <2>10, <2>11, <2>12 DEF CopiedSoFar
<1> QED BY <1>2, <1>3 DEF CopyStep

LEMMA ForkIs ==
  ASSUME LogOK(items), NEW f \in Threads, NEW s, NEW limit \in Nat
  PROVE  LET forked == Copying(f, s, limit)[Len(items)]
         IN CopiedSoFar(forked.log, forked.turns, f, s, limit, Len(items))
<1> DEFINE last == Len(items)
           at(k) == Copying(f, s, limit)[k]
           S == {k \in Nat : \E log, c : /\ at(k) = [log |-> log, turns |-> c]
                                         /\ CopiedSoFar(log, c, f, s, limit, k)}
<1>1. last \in Nat /\ last \in 0..last
  BY Typed
<1>2. /\ at(0) = [log |-> items, turns |-> limit]
      /\ \A k \in 1..last : at(k) = CopyStep(at(k-1), f, s, limit, k)
  BY <1>1, CopyingUnfold
<1> HIDE DEF at
<1>3. 0 \in S
  BY <1>2, CopyNone
<1>4. ASSUME NEW k \in 1..last, k - 1 \in S PROVE k \in S
  <2>1. PICK log, c : /\ at(k-1) = [log |-> log, turns |-> c]
                      /\ CopiedSoFar(log, c, f, s, limit, k - 1)
    BY <1>4
  <2> DEFINE next == CopyStep([log |-> log, turns |-> c], f, s, limit, k)
  <2>2. at(k) = next
    BY <1>2, <2>1
  <2>3. CopiedSoFar(next.log, next.turns, f, s, limit, k)
    BY <2>1, CopyOne
  <2>4. next = [log |-> next.log, turns |-> next.turns]
    BY DEF CopyStep
  <2> HIDE DEF next
  <2> QED BY <1>1, <2>2, <2>3, <2>4
<1> HIDE DEF S
<1>5. \A k \in 1..last : k - 1 \in S => k \in S
  BY <1>4
<1>6. last \in S
  <2> HIDE DEF last
  <2>1. \A k \in 0..last : k \in S
    BY <1>1, <1>3, <1>5, InductionUpTo
  <2> QED BY <1>1, <2>1
<1>7. PICK log, c : /\ at(last) = [log |-> log, turns |-> c]
                    /\ CopiedSoFar(log, c, f, s, limit, last)
  BY <1>6 DEF S
<1> QED BY <1>7 DEF at

\* A fork of a complete thread is complete up to its limit.
LEMMA ForkSound ==
  ASSUME LogOK(items), NEW f, NEW s, NEW limit \in Nat, NEW log, NEW c,
         CopiedSoFar(log, c, f, s, limit, Len(items)),
         \A i \in 1..Len(items) : items[i].thread # f,
         NEW n \in Nat, limit <= n, Sound(items, s, n), Complete(items, s, n)
  PROVE  c = limit /\ Sound(log, f, c) /\ Complete(log, f, c)
<1> DEFINE last == Len(items)
           New == (last+1)..Len(log)
<1>1. /\ LogOK(log) /\ GoesOn(log, items, f) /\ c \in Nat
      /\ last \in Nat /\ Len(log) \in Nat /\ last <= Len(log)
  BY Typed DEF CopiedSoFar, GoesOn
<1>2. \A i \in 1..last : items[i] \in Item /\ items[i].turn \in Nat
  BY Typed
<1>3. \A i \in New :
        /\ i \in 1..Len(log) /\ log[i].thread = f /\ log[i].of \in 1..last
        /\ items[log[i].of].thread = s /\ Like(log[i], items[log[i].of])
        /\ log[i].kind # "call" => log[i].turn <= limit
        /\ log[i].turn \in Nat
  <2>1. \A i \in New : i \in 1..Len(log) /\ log[i].thread = f
    BY <1>1 DEF GoesOn
  <2>2. \A i \in New : /\ log[i].of \in 1..last /\ Taken(s, limit, items[log[i].of])
                       /\ Like(log[i], items[log[i].of])
    BY DEF CopiedSoFar
  <2> QED BY <1>2, <2>1, <2>2 DEF Taken, Like
<1>4. \A i \in 1..Len(log) : log[i].thread = f => i \in New
  <2>1. \A i \in 1..Len(log) : i \in 1..last \/ i \in New
    BY <1>1
  <2>2. \A i \in 1..last : log[i].thread # f
    BY <1>1 DEF GoesOn
  <2> QED BY <2>1, <2>2
<1>5. \A i, j \in New : i < j => log[i].of < log[j].of
  BY DEF CopiedSoFar
<1>6. ASSUME NEW kind, NEW m \in Nat, m <= limit, HasItem(items, s, kind, m)
      PROVE  HasItem(log, f, kind, m)
  <2>1. PICK o \in 1..last : items[o].thread = s /\ items[o].kind = kind /\ items[o].turn = m
    BY <1>6 DEF HasItem
  <2>2. Taken(s, limit, items[o])
    BY <1>6, <2>1 DEF Taken
  <2>3. PICK i \in New : log[i].of = o
    BY <2>2 DEF CopiedSoFar
  <2> QED BY <1>3, <2>1, <2>3 DEF HasItem, Like
<1>7. c = limit
  <2>1. CASE \E o \in 1..last :
               /\ Taken(s, limit, items[o]) /\ items[o].kind = "turn" /\ c = items[o].turn
               /\ \A p \in 1..last :
                    (Taken(s, limit, items[p]) /\ items[p].kind = "turn") => p <= o
    <3>1. PICK o \in 1..last :
               /\ Taken(s, limit, items[o]) /\ items[o].kind = "turn" /\ c = items[o].turn
               /\ \A p \in 1..last :
                    (Taken(s, limit, items[p]) /\ items[p].kind = "turn") => p <= o
      BY <2>1
    <3>2. items[o].thread = s /\ items[o].turn <= limit /\ 1 <= items[o].turn
          /\ items[o].turn \in Nat
      BY <1>2, <3>1 DEF Taken, Sound, Numbered
    <3>3. limit \in 1..n
      BY <3>2
    <3>4. PICK p \in 1..last : /\ items[p].thread = s /\ items[p].kind = "turn"
                               /\ items[p].turn = limit
      BY <3>3 DEF Complete, HasItem
    <3>5. p <= o
      BY <3>1, <3>4 DEF Taken
    <3>6. p < o => items[p].turn < items[o].turn
      BY <3>1, <3>2, <3>4 DEF Sound, Ordered
    <3>7. ~(p < o)
      BY <3>2, <3>4, <3>6
    <3>8. p = o
      BY <1>1, <3>5, <3>7
    <3> QED BY <3>1, <3>4, <3>8
  <2> QED BY <2>1 DEF CopiedSoFar
<1>8. Numbered(log, f, limit)
  <2> SUFFICES ASSUME NEW i \in 1..Len(log), log[i].thread = f
               PROVE  /\ IsMessage(log[i]) => log[i].turn <= limit + 1
                      /\ log[i].kind = "assistant" => log[i].turn <= limit
                      /\ log[i].kind = "turn" => 1 <= log[i].turn /\ log[i].turn <= limit
    BY DEF Numbered
  <2>1. i \in New
    BY <1>4
  <2>2. log[i].kind = "turn" => 1 <= log[i].turn
    BY <1>3, <2>1 DEF Sound, Numbered, Like
  <2>3. IsMessage(log[i]) => log[i].kind # "call"
    BY DEF IsMessage, Roles
  <2> QED BY <1>3, <2>1, <2>2, <2>3
<1>9. Ordered(log, f)
  <2> SUFFICES ASSUME NEW i \in 1..Len(log), NEW j \in 1..Len(log), i < j,
                      log[i].thread = f, log[j].thread = f
               PROVE  /\ IsMessage(log[i]) /\ IsMessage(log[j]) => log[i].turn <= log[j].turn
                      /\ log[i].kind = log[j].kind /\ log[i].kind \in {"assistant", "turn"}
                           => log[i].turn < log[j].turn
    BY DEF Ordered
  <2>1. i \in New /\ j \in New /\ log[i].of < log[j].of
    BY <1>4, <1>5
  <2> QED BY <1>3, <2>1 DEF Sound, Ordered, Like, IsMessage
<1>10. AnsweredIn(log, f)
  <2> SUFFICES ASSUME NEW i \in 1..Len(log), log[i].thread = f, log[i].kind = "turn"
               PROVE  /\ HasItem(log, f, "user", log[i].turn)
                      /\ HasItem(log, f, "assistant", log[i].turn)
                      /\ \A j \in 1..Len(log) :
                           (log[j].thread = f /\ IsMessage(log[j])
                            /\ log[j].turn = log[i].turn) => j < i
    BY DEF AnsweredIn
  <2> DEFINE o == log[i].of
  <2>1. /\ i \in New /\ o \in 1..last /\ items[o].thread = s /\ items[o].kind = "turn"
        /\ items[o].turn = log[i].turn /\ log[i].turn <= limit /\ log[i].turn \in Nat
    BY <1>3, <1>4 DEF Like
  <2>2. /\ HasItem(items, s, "user", log[i].turn)
        /\ HasItem(items, s, "assistant", log[i].turn)
        /\ \A j \in 1..last :
             (items[j].thread = s /\ IsMessage(items[j]) /\ items[j].turn = log[i].turn) => j < o
    BY <2>1 DEF Sound, AnsweredIn
  <2>3. ASSUME NEW j \in 1..Len(log), log[j].thread = f, IsMessage(log[j]),
               log[j].turn = log[i].turn
        PROVE  j < i
    <3>1. j \in New /\ log[j].of \in 1..last /\ log[j].of < o
      BY <1>3, <1>4, <2>2, <2>3 DEF Like, IsMessage
    <3>2. i < j => o < log[j].of
      BY <1>5, <2>1, <3>1
    <3>3. i # j
      BY <1>1, <2>1, <3>1
    <3> QED BY <1>1, <2>1, <3>1, <3>2, <3>3
  <2> QED BY <1>6, <2>1, <2>2, <2>3
<1>11. Complete(log, f, limit)
  <2> SUFFICES ASSUME NEW m \in 1..limit PROVE HasItem(log, f, "turn", m)
    BY DEF Complete
  <2>1. m \in 1..n /\ m \in Nat /\ m <= limit
    OBVIOUS
  <2> QED BY <1>6, <2>1 DEF Complete
<1> QED BY <1>7, <1>8, <1>9, <1>10, <1>11 DEF Sound

-----------------------------------------------------------------------------
(* The invariant of the threads.  TurnsConsecutive, TurnsAnswered and        *)
(* PromptIsLast are about completed turns or prompts; what makes them        *)
(* inductive is what holds of the turns that were not completed.             *)

\* A turn in progress is the next of its thread and its prompt is in the log,
\* as the last item until a tool has run.
TurnOK ==
  turn # Quiet =>
    /\ turn.thread \in live /\ turn.number = turns[turn.thread] + 1
    /\ HasItem(items, turn.thread, "user", turn.number)
    /\ turn.calls > 0 => turn.rounds > 0
    /\ turn.ran => turn.calls > 0
    /\ turn.rounds = 0 =>
         /\ items # << >>
         /\ items[Len(items)].thread = turn.thread /\ items[Len(items)].kind = "user"
         /\ items[Len(items)].turn = turn.number

ThreadsOK ==
  \A t \in Threads \ skewed :
    /\ Sound(items, t, turns[t])
    /\ t \notin torn => Complete(items, t, turns[t])

\* A thread that does not exist has no turns and no items.
OnlyLive ==
  /\ \A t \in Threads : t \notin live => turns[t] = 0
  /\ \A i \in 1..Len(items) : items[i].thread \in live

ConversationInv ==
  ConversationTypeOK /\ LogOK(items) /\ OnlyLive /\ TurnOK /\ ThreadsOK

LEMMA EmptyThread ==
  ASSUME NEW log, LogOK(log), NEW t, \A i \in 1..Len(log) : log[i].thread # t
  PROVE  Sound(log, t, 0) /\ Complete(log, t, 0)
BY DEF Sound, Numbered, Ordered, AnsweredIn, Complete

LEMMA QuietIsNoTurn == Quiet \notin Turn
<1>1. \A x \in Turn : DOMAIN x = {"thread", "number", "rounds", "calls", "ran", "tokens"}
  BY DEF Turn
<1>2. DOMAIN Quiet = {"thread"}
  BY DEF Quiet
<1> QED BY <1>1, <1>2

LEMMA TypedTurn ==
  ASSUME ConversationTypeOK, turn # Quiet
  PROVE  /\ turn \in Turn /\ turn.thread \in Threads /\ turn.number \in Nat \ {0}
         /\ turn.calls \in Nat /\ turn.tokens \in Nat /\ turn.ran \in BOOLEAN
         /\ turn.rounds \in 0..MAX_TOOL_ROUNDS
<1>1. turn \in Turn
  BY DEF ConversationTypeOK
<1> QED BY <1>1 DEF Turn

Kinds == Roles \cup {"call", "turn"}

LEMMA NewItemIs ==
  ASSUME NEW t \in Threads, NEW kind \in Kinds, NEW number \in Nat
  PROVE  /\ NewItem(t, kind, number) \in Item
         /\ NewItem(t, kind, number).thread = t /\ NewItem(t, kind, number).kind = kind
         /\ NewItem(t, kind, number).turn = number /\ NewItem(t, kind, number).mention = 0
BY DEF NewItem, Item, Kinds

LEMMA ItemWith ==
  ASSUME NEW item \in Item, NEW n \in Nat
  PROVE  /\ [item EXCEPT !.mention = n] \in Item /\ [item EXCEPT !.tokens = n] \in Item
         /\ [item EXCEPT !.mention = n].thread = item.thread
         /\ [item EXCEPT !.mention = n].kind = item.kind
         /\ [item EXCEPT !.mention = n].turn = item.turn
         /\ [item EXCEPT !.mention = n].mention = n
         /\ [item EXCEPT !.tokens = n].thread = item.thread
         /\ [item EXCEPT !.tokens = n].kind = item.kind
         /\ [item EXCEPT !.tokens = n].turn = item.turn
         /\ [item EXCEPT !.tokens = n].mention = item.mention
         /\ [item EXCEPT !.tokens = n].tokens = n
BY DEF Item

LEMMA ConversationInvInit == ConversationInit => ConversationInv
<1> SUFFICES ASSUME ConversationInit PROVE ConversationInv
  OBVIOUS
<1>1. items = << >> /\ turns = [t \in Threads |-> 0] /\ live = {} /\ turn = Quiet
      /\ torn = {} /\ skewed = {}
  BY DEF ConversationInit
<1>2. ConversationTypeOK
  BY <1>1 DEF ConversationTypeOK
<1>3. LogOK(items) /\ Len(items) = 0
  BY <1>1 DEF LogOK, CursorsOK
<1>4. ThreadsOK
  BY <1>1, <1>3, EmptyThread DEF ThreadsOK
<1> QED BY <1>1, <1>2, <1>3, <1>4 DEF ConversationInv, OnlyLive, TurnOK

\* The next turn of a thread begins; the thread may be new.
LEMMA TurnAsked ==
  ASSUME ConversationInv, NEW t \in Threads, NEW mention \in Nat, mention <= Len(items),
         items' = Added(items, [NewItem(t, "user", turns[t] + 1) EXCEPT !.mention = mention]),
         turn' = AskedTurn(t, turns[t] + 1), live' = live \cup {t},
         UNCHANGED <<turns, torn, skewed>>
  PROVE  ConversationInv'
<1> DEFINE item == [NewItem(t, "user", turns[t] + 1) EXCEPT !.mention = mention]
           n == Len(items')
<1>1. /\ ConversationTypeOK /\ LogOK(items) /\ turns[t] \in Nat
      /\ turns \in [Threads -> Nat] /\ live \subseteq Threads
  BY DEF ConversationInv, ConversationTypeOK
<1>2. /\ item \in Item /\ item.thread = t /\ item.kind = "user"
      /\ item.turn = turns[t] + 1 /\ item.mention = mention
  <2>1. "user" \in Kinds /\ turns[t] + 1 \in Nat
    BY <1>1 DEF Kinds, Roles
  <2> DEFINE plain == NewItem(t, "user", turns[t] + 1)
  <2>2. plain \in Item /\ plain.thread = t /\ plain.kind = "user" /\ plain.turn = turns[t] + 1
    BY <2>1, NewItemIs
  <2> HIDE DEF plain
  <2>3. LET x == [plain EXCEPT !.mention = mention]
        IN /\ x \in Item /\ x.thread = plain.thread /\ x.kind = plain.kind
           /\ x.turn = plain.turn /\ x.mention = mention
    BY <2>2, ItemWith
  <2> QED BY <2>2, <2>3 DEF plain
<1> HIDE DEF item
<1>3. /\ OneMore(items', items, t) /\ LogOK(items')
      /\ n = Len(items) + 1 /\ n \in Nat /\ n \in 1..n /\ Len(items) \in Nat
      /\ items'[n].kind = "user" /\ items'[n].turn = turns[t] + 1 /\ items'[n].thread = t
  <2>1. items' = Added(items, item)
    BY DEF item
  <2>2. OneMore(items', items, t) /\ LogOK(items') /\ n = Len(items) + 1
        /\ Like(items'[n], item)
    BY <1>1, <1>2, <2>1, AddedGoesOn DEF OneMore
  <2>3. Len(items) \in Nat
    BY <1>1, Typed
  <2> QED BY <1>2, <2>2, <2>3, OldOrLast DEF Like
<1>4. ConversationTypeOK'
  <2>1. items' \in Seq(Item)
    BY <1>3 DEF LogOK
  <2>2. turn' \in Turn
    BY <1>1 DEF AskedTurn, Turn, MAX_TOOL_ROUNDS
  <2> QED BY <1>1, <2>1, <2>2 DEF ConversationTypeOK
<1>5. OnlyLive'
  <2>1. \A i \in 1..n : items'[i].thread \in live'
    BY <1>3, OldOrLast DEF ConversationInv, OnlyLive
  <2>2. \A u \in Threads : u \notin live' => turns'[u] = 0
    BY DEF ConversationInv, OnlyLive
  <2> QED BY <2>1, <2>2 DEF OnlyLive
<1>6. TurnOK'
  <2>1. /\ turn'.thread = t /\ turn'.number = turns[t] + 1 /\ turn'.calls = 0
        /\ turn'.ran = FALSE
    BY DEF AskedTurn
  <2>2. HasItem(items', t, "user", turns[t] + 1)
    BY <1>3 DEF HasItem
  <2>3. items' # << >>
    BY <1>3
  <2> QED BY <1>1, <1>3, <2>1, <2>2, <2>3 DEF TurnOK
<1>7. ThreadsOK'
  <2> SUFFICES ASSUME NEW u \in Threads, u \notin skewed
               PROVE  /\ Sound(items', u, turns[u])
                      /\ u \notin torn => Complete(items', u, turns[u])
    BY DEF ThreadsOK
  <2>1. /\ Sound(items, u, turns[u]) /\ turns[u] \in Nat
        /\ u \notin torn => Complete(items, u, turns[u])
    BY <1>1 DEF ConversationInv, ThreadsOK
  <2>2. CASE u = t
    <3>1. Sound(items', u, turns[u])
      BY <1>3, <2>1, <2>2, JoinsTurn
    <3>2. u \notin torn => Complete(items', u, turns[u])
      BY <1>1, <1>3, <2>1, <2>2, ItemsStay DEF OneMore, Complete
    <3> QED BY <3>1, <3>2
  <2>3. CASE u # t
    BY <1>1, <1>3, <2>1, <2>3, OthersAreLeftAlone DEF OneMore
  <2> QED BY <2>2, <2>3
<1> QED BY <1>3, <1>4, <1>5, <1>6, <1>7 DEF ConversationInv

LEMMA BeginKeepsInv ==
  ASSUME ConversationInv, NEW t \in Threads, NEW mention \in Mentionable, BeginTurn(t, mention)
  PROVE  ConversationInv'
<1>1. mention \in Nat /\ mention <= Len(items)
  <2>1. Len(items) \in Nat /\ DOMAIN items = 1..Len(items)
    BY Typed DEF ConversationInv
  <2> QED BY <2>1 DEF Mentionable
<1>2. live' = live \cup {t}
  BY DEF BeginTurn
<1> QED BY <1>1, <1>2, TurnAsked DEF BeginTurn, NextTurn

LEMMA StartKeepsInv ==
  ASSUME ConversationInv, NEW t \in Threads, StartThread(t)
  PROVE  ConversationInv'
BY DEF StartThread, ConversationInv, ConversationTypeOK, OnlyLive, TurnOK, ThreadsOK

\* The turn goes on and nothing is appended.
LEMMA TurnGoesOnInv ==
  ASSUME ConversationInv,
         (\E n \in 1..MaxCalls : AnswerCalls(n)) \/ RunTool
  PROVE  ConversationInv'
<1>1. ConversationTypeOK /\ turn # Quiet
  BY DEF ConversationInv, AnswerCalls, RunTool, Asking
<1>2. /\ turn \in Turn /\ turn.calls \in Nat /\ turn.tokens \in Nat
      /\ turn.rounds \in 0..MAX_TOOL_ROUNDS
  BY <1>1, TypedTurn
<1>3. ASSUME NEW n \in 1..MaxCalls, AnswerCalls(n)
      PROVE  /\ turn' \in Turn /\ turn'.thread = turn.thread /\ turn'.number = turn.number
             /\ turn'.calls > 0 => turn'.rounds > 0
             /\ turn'.ran => turn'.calls > 0
             /\ turn'.rounds = 0 => turn.rounds = 0
             /\ UNCHANGED <<items, turns, live, torn, skewed>>
  <2>1. n \in Nat /\ n > 0
    OBVIOUS
  <2>2. turn.rounds + 1 \in 0..MAX_TOOL_ROUNDS /\ turn.tokens + 1 \in Nat
    <3>1. turn.rounds < MAX_TOOL_ROUNDS
      BY <1>3 DEF AnswerCalls
    <3> QED BY <1>2, <3>1 DEF MAX_TOOL_ROUNDS
  <2>3. turn' = [turn EXCEPT !.rounds = @ + 1, !.calls = n, !.tokens = @ + 1]
    BY <1>3 DEF AnswerCalls
  <2>4. turn' \in Turn
    BY <1>2, <2>1, <2>2, <2>3 DEF Turn
  <2>5. /\ turn'.thread = turn.thread /\ turn'.number = turn.number
        /\ turn'.calls = n /\ turn'.rounds = turn.rounds + 1
    BY <1>2, <2>3 DEF Turn
  <2>6. turn'.rounds # 0 /\ turn'.rounds > 0
    BY <1>2, <2>5
  <2> QED BY <1>3, <2>1, <2>4, <2>5, <2>6 DEF AnswerCalls
<1>4. ASSUME RunTool
      PROVE  /\ turn' \in Turn /\ turn'.thread = turn.thread /\ turn'.number = turn.number
             /\ turn'.calls > 0 => turn'.rounds > 0
             /\ turn'.ran => turn'.calls > 0
             /\ turn'.rounds = 0 => turn.rounds = 0
             /\ UNCHANGED <<items, turns, live, torn, skewed>>
  <2>1. turn' = [turn EXCEPT !.ran = TRUE]
    BY <1>4 DEF RunTool
  <2>2. turn' \in Turn
    BY <1>2, <2>1 DEF Turn
  <2>3. /\ turn'.thread = turn.thread /\ turn'.number = turn.number
        /\ turn'.calls = turn.calls /\ turn'.rounds = turn.rounds
    BY <1>2, <2>1 DEF Turn
  <2> QED BY <1>1, <1>4, <2>2, <2>3 DEF RunTool, ConversationInv, TurnOK
<1>5. /\ turn' \in Turn /\ turn'.thread = turn.thread /\ turn'.number = turn.number
      /\ turn'.calls > 0 => turn'.rounds > 0
      /\ turn'.ran => turn'.calls > 0
      /\ turn'.rounds = 0 => turn.rounds = 0
      /\ UNCHANGED <<items, turns, live, torn, skewed>>
  BY <1>3, <1>4
<1>6. TurnOK'
  BY <1>1, <1>5 DEF ConversationInv, TurnOK
<1> QED BY <1>5, <1>6 DEF ConversationInv, ConversationTypeOK, OnlyLive, ThreadsOK

\* The turn ends without an answer.
LEMMA TurnDroppedInv ==
  ASSUME ConversationInv, turn' = Quiet, UNCHANGED <<items, turns, live, torn, skewed>>
  PROVE  ConversationInv'
BY DEF ConversationInv, ConversationTypeOK, OnlyLive, TurnOK, ThreadsOK

\* An item that mentions nothing, added to the thread of the turn.
LEMMA ItemOfTurn ==
  ASSUME NEW log, LogOK(log), NEW item \in Item, item.mention = 0
  PROVE  LET new == Added(log, item) IN
         /\ OneMore(new, log, item.thread) /\ Len(new) = Len(log) + 1
         /\ Len(log) \in Nat /\ Len(new) \in Nat /\ Len(new) \in 1..Len(new)
         /\ new[Len(new)].kind = item.kind /\ new[Len(new)].turn = item.turn
         /\ new[Len(new)].tokens = item.tokens
         /\ new[Len(new)].thread = item.thread
<1>1. Len(log) \in Nat /\ item.mention <= Len(log)
  BY Typed
<1>2. LET new == Added(log, item) IN
      /\ OneMore(new, log, item.thread) /\ Len(new) = Len(log) + 1
      /\ Like(new[Len(log) + 1], item)
  BY <1>1, AddedGoesOn DEF OneMore
<1> QED BY <1>1, <1>2, OldOrLast DEF Like

LEMMA RecordKeepsInv ==
  ASSUME ConversationInv, RecordCall
  PROVE  ConversationInv'
<1> DEFINE t == turn.thread
           call == NewItem(t, "call", turn.number)
           output == NewItem(t, "tool", turn.number)
           mid == Added(items, call)
<1>1. /\ ConversationTypeOK /\ LogOK(items) /\ turn # Quiet /\ turn \in Turn
      /\ t \in Threads /\ turn.number \in Nat /\ turn.calls \in Nat /\ turn.ran
      /\ turns \in [Threads -> Nat]
  BY TypedTurn DEF ConversationInv, RecordCall, ConversationTypeOK
<1>2. /\ t \in live /\ turn.number = turns[t] + 1 /\ turn.calls > 0 /\ turn.rounds > 0
      /\ HasItem(items, t, "user", turn.number)
  BY <1>1 DEF ConversationInv, TurnOK
<1>3. "call" \in Kinds /\ "tool" \in Kinds
  BY DEF Kinds, Roles
<1>4. /\ call \in Item /\ call.thread = t /\ call.kind = "call" /\ call.turn = turn.number
      /\ call.mention = 0
      /\ output \in Item /\ output.thread = t /\ output.kind = "tool"
      /\ output.turn = turn.number /\ output.mention = 0
  BY <1>1, <1>3, NewItemIs
<1>5. items' = Added(mid, output)
  BY DEF RecordCall
<1> HIDE DEF call, output
<1>6. /\ OneMore(mid, items, t) /\ mid[Len(mid)].kind = "call"
      /\ mid[Len(mid)].turn = turn.number /\ LogOK(mid)
  BY <1>1, <1>4, ItemOfTurn DEF OneMore
<1> HIDE DEF mid
<1>7. /\ OneMore(items', mid, t) /\ items'[Len(items')].kind = "tool"
      /\ items'[Len(items')].turn = turn.number /\ LogOK(items')
  BY <1>4, <1>5, <1>6, ItemOfTurn DEF OneMore
<1>8. UNCHANGED <<turns, live, torn, skewed>>
  BY DEF RecordCall
<1>9. ConversationTypeOK'
  <2>1. items' \in Seq(Item)
    BY <1>7 DEF LogOK
  <2>2. turn' \in Turn
    <3>1. turn.calls - 1 \in Nat
      BY <1>1, <1>2
    <3> QED BY <1>1, <3>1 DEF RecordCall, Turn
  <2> QED BY <1>1, <1>8, <2>1, <2>2 DEF ConversationTypeOK
<1>10. OnlyLive'
  <2>1. \A i \in 1..Len(mid) : mid[i].thread \in live
    BY <1>2, <1>6, OldOrLast DEF ConversationInv, OnlyLive
  <2>2. \A i \in 1..Len(items') : items'[i].thread \in live
    BY <1>2, <1>7, <2>1, OldOrLast
  <2> QED BY <1>8, <2>2 DEF ConversationInv, OnlyLive
<1>11. TurnOK'
  <2>1. /\ turn'.thread = t /\ turn'.number = turn.number /\ turn'.rounds = turn.rounds
        /\ turn'.ran = FALSE
    BY <1>1 DEF RecordCall, Turn
  <2>2. HasItem(items', t, "user", turn.number)
    BY <1>2, <1>6, <1>7, ItemsStay DEF OneMore
  <2>3. turn.rounds # 0
    BY <1>2
  <2> QED BY <1>2, <1>8, <2>1, <2>2, <2>3 DEF TurnOK
<1>12. ThreadsOK'
  <2> SUFFICES ASSUME NEW u \in Threads, u \notin skewed
               PROVE  /\ Sound(items', u, turns[u])
                      /\ u \notin torn => Complete(items', u, turns[u])
    BY <1>8 DEF ThreadsOK
  <2>1. /\ Sound(items, u, turns[u]) /\ turns[u] \in Nat
        /\ u \notin torn => Complete(items, u, turns[u])
    BY <1>1 DEF ConversationInv, ThreadsOK
  <2>2. CASE u = t
    <3>1. Sound(mid, u, turns[u])
      BY <1>2, <1>6, <2>1, <2>2, JoinsTurn
    <3>2. Sound(items', u, turns[u])
      BY <1>2, <1>7, <2>1, <2>2, <3>1, JoinsTurn
    <3>3. u \notin torn => Complete(items', u, turns[u])
      BY <1>6, <1>7, <2>1, ItemsStay DEF OneMore, Complete
    <3> QED BY <3>2, <3>3
  <2>3. CASE u # t
    <3>1. Sound(mid, u, turns[u]) /\ (u \notin torn => Complete(mid, u, turns[u]))
      BY <1>6, <2>1, <2>3, OthersAreLeftAlone DEF OneMore
    <3> QED BY <1>7, <2>1, <2>3, <3>1, OthersAreLeftAlone DEF OneMore
  <2> QED BY <2>2, <2>3
<1> QED BY <1>7, <1>9, <1>10, <1>11, <1>12 DEF ConversationInv

LEMMA AnswerItems ==
  ASSUME ConversationTypeOK, turn # Quiet
  PROVE  /\ Answer \in Item /\ Answer.thread = turn.thread /\ Answer.kind = "assistant"
         /\ Answer.turn = turn.number /\ Answer.mention = 0
         /\ Completion \in Item /\ Completion.thread = turn.thread
         /\ Completion.kind = "turn" /\ Completion.turn = turn.number
         /\ Completion.mention = 0 /\ Completion.tokens = turn.tokens + 1
<1> DEFINE plain == NewItem(turn.thread, "turn", turn.number)
           tokens == turn.tokens + 1
<1>1. /\ "assistant" \in Kinds /\ "turn" \in Kinds /\ tokens \in Nat
      /\ turn.thread \in Threads /\ turn.number \in Nat
  BY TypedTurn DEF Kinds, Roles
<1>2. /\ plain \in Item /\ plain.thread = turn.thread /\ plain.kind = "turn"
      /\ plain.turn = turn.number /\ plain.mention = 0
  BY <1>1, NewItemIs
<1>3. Completion = [plain EXCEPT !.tokens = tokens]
  BY DEF Completion
<1> HIDE DEF plain, tokens
<1>4. LET x == [plain EXCEPT !.tokens = tokens]
      IN /\ x \in Item /\ x.thread = plain.thread /\ x.kind = plain.kind
         /\ x.turn = plain.turn /\ x.mention = plain.mention /\ x.tokens = tokens
  BY <1>1, <1>2, ItemWith
<1>5. /\ Answer \in Item /\ Answer.thread = turn.thread /\ Answer.kind = "assistant"
      /\ Answer.turn = turn.number /\ Answer.mention = 0
  BY <1>1, NewItemIs DEF Answer
<1> QED BY <1>2, <1>3, <1>4, <1>5 DEF tokens

LEMMA AnswerKeepsInv ==
  ASSUME ConversationInv, NEW model, AnswerText(model)
  PROVE  ConversationInv'
<1> DEFINE t == turn.thread
           c == turns[t]
           mid == Added(items, Answer)
<1>1. /\ ConversationTypeOK /\ LogOK(items) /\ turn # Quiet /\ turn \in Turn
      /\ t \in Threads /\ turn.number \in Nat /\ turn.tokens \in Nat
      /\ turns \in [Threads -> Nat] /\ c \in Nat
  BY TypedTurn DEF ConversationInv, AnswerText, Asking, ConversationTypeOK
<1>2. t \in live /\ turn.number = c + 1 /\ HasItem(items, t, "user", turn.number)
  BY <1>1 DEF ConversationInv, TurnOK
<1>3. /\ Answer \in Item /\ Answer.thread = t /\ Answer.kind = "assistant"
      /\ Answer.turn = turn.number /\ Answer.mention = 0
  BY <1>1, AnswerItems
<1>4. /\ Completion \in Item /\ Completion.thread = t /\ Completion.kind = "turn"
      /\ Completion.turn = turn.number /\ Completion.mention = 0
      /\ Completion.tokens = turn.tokens + 1
  BY <1>1, AnswerItems
<1>5. items' = IF model = "named" THEN Added(mid, Completion) ELSE mid
  BY DEF AnswerText, Finished
<1>6. /\ OneMore(mid, items, t) /\ mid[Len(mid)].kind = "assistant"
      /\ mid[Len(mid)].turn = turn.number /\ mid[Len(mid)].thread = t
      /\ LogOK(mid) /\ Len(mid) \in 1..Len(mid)
  BY <1>1, <1>3, ItemOfTurn DEF OneMore
<1> HIDE DEF mid
<1>7. /\ UNCHANGED <<live, skewed>> /\ turn' = Quiet
      /\ turns' = [turns EXCEPT ![t] = c + 1]
      /\ torn' = IF model = "named" THEN torn ELSE torn \cup {t}
  BY <1>2 DEF AnswerText
<1>8. \A i \in 1..Len(mid) : mid[i].thread \in live
  BY <1>2, <1>6, OldOrLast DEF ConversationInv, OnlyLive
<1>9. /\ t \notin skewed => Sound(mid, t, c + 1)
      /\ t \notin skewed => \A i \in 1..Len(mid) :
           mid[i].thread = t /\ mid[i].kind = "turn" => mid[i].turn <= c
      /\ \A u \in Threads \ skewed : u # t =>
           Sound(mid, u, turns[u]) /\ (u \notin torn => Complete(mid, u, turns[u]))
  <2>1. \A u \in Threads \ skewed :
          /\ Sound(items, u, turns[u]) /\ turns[u] \in Nat
          /\ u \notin torn => Complete(items, u, turns[u])
    BY <1>1 DEF ConversationInv, ThreadsOK
  <2> QED BY <1>1, <1>2, <1>6, <2>1, AnswerCounts, OthersAreLeftAlone DEF OneMore
<1>10. CASE model = "named"
  <2>1. /\ OneMore(items', mid, t) /\ items'[Len(items')].kind = "turn"
        /\ items'[Len(items')].turn = turn.number /\ LogOK(items')
    BY <1>4, <1>5, <1>6, <1>10, ItemOfTurn DEF OneMore
  <2>2. HasItem(mid, t, "user", c + 1)
    BY <1>2, <1>6, ItemsStay DEF OneMore
  <2>3. HasItem(mid, t, "assistant", c + 1)
    BY <1>2, <1>6 DEF HasItem
  <2>4. ThreadsOK'
    <3> SUFFICES ASSUME NEW u \in Threads, u \notin skewed
                 PROVE  /\ Sound(items', u, turns'[u])
                        /\ u \notin torn => Complete(items', u, turns'[u])
      BY <1>7, <1>10 DEF ThreadsOK
    <3>1. CASE u = t
      <4>1. Sound(items', t, c + 1) /\ (Complete(mid, t, c) => Complete(items', t, c + 1))
        BY <1>1, <1>2, <1>9, <2>1, <2>2, <2>3, <3>1, CompletionCloses
      <4>2. t \notin torn => Complete(mid, t, c)
        BY <1>1, <1>6, <3>1, ItemsStay DEF ConversationInv, ThreadsOK, OneMore, Complete
      <4> QED BY <1>1, <1>7, <3>1, <4>1, <4>2
    <3>2. CASE u # t
      <4>1. Sound(mid, u, turns[u]) /\ (u \notin torn => Complete(mid, u, turns[u]))
        BY <1>9, <3>2
      <4>2. turns'[u] = turns[u] /\ turns[u] \in Nat
        BY <1>1, <1>7, <3>2
      <4> QED BY <2>1, <3>2, <4>1, <4>2, OthersAreLeftAlone DEF OneMore
    <3> QED BY <3>1, <3>2
  <2>5. \A i \in 1..Len(items') : items'[i].thread \in live
    BY <1>2, <1>8, <2>1, OldOrLast
  <2>6. OnlyLive'
    BY <1>1, <1>2, <1>7, <2>5 DEF ConversationInv, OnlyLive
  <2>7. ConversationTypeOK'
    BY <1>1, <1>7, <1>10, <2>1 DEF ConversationTypeOK, LogOK
  <2> QED BY <1>7, <2>1, <2>4, <2>6, <2>7 DEF ConversationInv, TurnOK
<1>11. CASE model # "named"
  <2>1. items' = mid
    BY <1>5, <1>11
  <2>2. ThreadsOK'
    <3> SUFFICES ASSUME NEW u \in Threads, u \notin skewed
                 PROVE  /\ Sound(mid, u, turns'[u])
                        /\ u \notin torn' => Complete(mid, u, turns'[u])
      BY <1>7, <2>1 DEF ThreadsOK
    <3>1. CASE u = t
      BY <1>1, <1>7, <1>9, <1>11, <3>1
    <3>2. CASE u # t
      <4>1. turns'[u] = turns[u] /\ (u \notin torn' => u \notin torn)
        BY <1>1, <1>7, <3>2
      <4> QED BY <1>9, <3>2, <4>1
    <3> QED BY <3>1, <3>2
  <2>3. OnlyLive'
    BY <1>1, <1>2, <1>7, <1>8, <2>1 DEF ConversationInv, OnlyLive
  <2>4. ConversationTypeOK'
    BY <1>1, <1>6, <1>7, <1>11, <2>1 DEF ConversationTypeOK, LogOK
  <2> QED BY <1>6, <1>7, <2>1, <2>2, <2>3, <2>4 DEF ConversationInv, TurnOK
<1> QED BY <1>10, <1>11

LEMMA ForkKeepsInv ==
  ASSUME ConversationInv, MaxItems \in Nat, NEW f \in Threads, NEW s \in Threads,
         NEW upTo \in 0..MaxItems, Fork(f, s, upTo)
  PROVE  ConversationInv'
<1> DEFINE limit == Min2(upTo, turns[s])
           copied == Copying(f, s, limit)[Len(items)]
           log == copied.log
           c == copied.turns
<1>1. /\ ConversationTypeOK /\ LogOK(items) /\ turns \in [Threads -> Nat]
      /\ turn = Quiet /\ f \notin live /\ s \in live /\ s # f
  BY DEF ConversationInv, ConversationTypeOK, Fork
<1>2. limit \in Nat /\ limit <= turns[s] /\ turns[s] \in Nat
  BY <1>1 DEF Min2
<1>3. /\ items' = log /\ turns' = [turns EXCEPT ![f] = c] /\ live' = live \cup {f}
      /\ skewed' = IF s \in torn \cup skewed THEN skewed \cup {f} ELSE skewed
      /\ UNCHANGED <<turn, torn>>
  BY DEF Fork
<1> HIDE DEF limit
<1>4. CopiedSoFar(log, c, f, s, limit, Len(items))
  BY <1>1, <1>2, ForkIs
<1> HIDE DEF copied, log, c
<1>5. LogOK(log) /\ GoesOn(log, items, f) /\ c \in Nat
  BY <1>4 DEF CopiedSoFar
<1>6. \A i \in 1..Len(items) : items[i].thread \in live /\ items[i].thread # f
  BY <1>1 DEF ConversationInv, OnlyLive
<1>7. \A i \in 1..Len(log) : log[i].thread \in live'
  <2>1. Len(items) \in Nat /\ Len(log) \in Nat
    BY <1>1, <1>5, Typed
  <2>2. \A i \in 1..Len(log) : i \in 1..Len(items) \/ i \in (Len(items)+1)..Len(log)
    BY <2>1
  <2> QED BY <1>3, <1>5, <1>6, <2>2 DEF GoesOn
<1>8. ConversationTypeOK'
  BY <1>1, <1>3, <1>5 DEF ConversationTypeOK, LogOK
<1>9. OnlyLive'
  BY <1>1, <1>3, <1>7 DEF ConversationInv, OnlyLive
<1>10. ThreadsOK'
  <2> SUFFICES ASSUME NEW u \in Threads, u \notin skewed'
               PROVE  /\ Sound(log, u, turns'[u])
                      /\ u \notin torn => Complete(log, u, turns'[u])
    BY <1>3 DEF ThreadsOK
  <2>0. u \notin skewed
    BY <1>3
  <2>1. CASE u = f
    <3>1. s \notin torn /\ s \notin skewed
      BY <1>3, <2>1
    <3>2. Sound(items, s, turns[s]) /\ Complete(items, s, turns[s])
      BY <3>1 DEF ConversationInv, ThreadsOK
    <3>3. Sound(log, f, c) /\ Complete(log, f, c)
      BY <1>1, <1>2, <1>4, <1>6, <3>2, ForkSound
    <3> QED BY <1>1, <1>3, <2>1, <3>3
  <2>2. CASE u # f
    <3>1. /\ Sound(items, u, turns[u]) /\ turns[u] \in Nat
          /\ u \notin torn => Complete(items, u, turns[u])
      BY <1>1, <2>0 DEF ConversationInv, ThreadsOK
    <3>2. turns'[u] = turns[u]
      BY <1>1, <1>3, <2>2
    <3> QED BY <1>1, <1>5, <2>2, <3>1, <3>2, OthersAreLeftAlone
  <2> QED BY <2>1, <2>2
<1> QED BY <1>1, <1>3, <1>5, <1>8, <1>9, <1>10 DEF ConversationInv, TurnOK

LEMMA ConversationInvNext ==
  ASSUME ConversationInv, [ConversationNext]_conversationVars
  PROVE  ConversationInv'
<1>1. MaxItems \in Nat
  BY ConversationAssumption
<1>2. ASSUME NEW f \in Threads, NEW s \in Threads, NEW upTo \in 0..MaxItems, Fork(f, s, upTo)
      PROVE  ConversationInv'
  BY <1>1, <1>2, ForkKeepsInv
<1>3. ASSUME RefuseMessage \/ UNCHANGED conversationVars
      PROVE  ConversationInv'
  BY <1>3 DEF RefuseMessage, conversationVars, ConversationInv, ConversationTypeOK,
              OnlyLive, TurnOK, ThreadsOK
<1>4. ASSUME ProviderFails \/ Disconnect
      PROVE  ConversationInv'
  BY <1>4, TurnDroppedInv DEF ProviderFails, Disconnect
<1> QED BY <1>2, <1>3, <1>4, BeginKeepsInv, StartKeepsInv, TurnGoesOnInv, RecordKeepsInv,
           AnswerKeepsInv DEF ConversationNext

\* ConversationInv is an invariant, for any threads, mentions, failures and forks.
THEOREM ThreadsAreSound == ConversationSpec => []ConversationInv
<1> QED BY ConversationInvInit, ConversationInvNext, PTL DEF ConversationSpec

-----------------------------------------------------------------------------
(* What follows from it.                                                    *)

LEMMA InvConsecutive == ConversationInv => TurnsConsecutive
<1> SUFFICES ASSUME ConversationInv, NEW t \in live, t \notin torn, t \notin skewed
             PROVE  /\ {items[i].turn : i \in Completions(t)} = 1..turns[t]
                    /\ \A i, j \in Completions(t) : i < j => items[i].turn < items[j].turn
  BY DEF TurnsConsecutive
<1>1. t \in Threads /\ turns[t] \in Nat /\ LogOK(items)
  BY DEF ConversationInv, ConversationTypeOK
<1>2. Sound(items, t, turns[t]) /\ Complete(items, t, turns[t])
  BY <1>1 DEF ConversationInv, ThreadsOK
<1>3. DOMAIN items = 1..Len(items) /\ \A i \in 1..Len(items) : items[i].turn \in Nat
  BY <1>1, Typed
<1>4. \A i \in Completions(t) : i \in 1..Len(items) /\ items[i].thread = t
                                /\ items[i].kind = "turn"
  BY <1>3 DEF Completions
<1>5. \A i \in Completions(t) : items[i].turn \in 1..turns[t]
  BY <1>1, <1>2, <1>3, <1>4 DEF Sound, Numbered
<1>6. \A n \in 1..turns[t] : \E i \in Completions(t) : items[i].turn = n
  BY <1>2, <1>3 DEF Complete, HasItem, Completions
<1>7. \A i, j \in Completions(t) : i < j => items[i].turn < items[j].turn
  BY <1>2, <1>4 DEF Sound, Ordered
<1> QED BY <1>5, <1>6, <1>7

LEMMA InvAnswered == ConversationInv => TurnsAnswered
<1> SUFFICES ASSUME ConversationInv, NEW i \in DOMAIN items, items[i].kind = "turn",
                    items[i].thread \notin skewed
             PROVE  LET ofTurn == {j \in Messages(items, items[i].thread) :
                                     items[j].turn = items[i].turn}
                    IN /\ \E j \in ofTurn : items[j].kind = "user"
                       /\ \E j \in ofTurn : {k \in ofTurn : items[k].kind = "assistant"} = {j}
                       /\ \A j \in ofTurn : j < i
  BY DEF TurnsAnswered
<1> DEFINE t == items[i].thread
           n == items[i].turn
           ofTurn == {j \in Messages(items, t) : items[j].turn = n}
<1>1. LogOK(items)
  BY DEF ConversationInv
<1>2. /\ DOMAIN items = 1..Len(items) /\ Len(items) \in Nat
      /\ \A j \in 1..Len(items) : items[j].turn \in Nat /\ items[j] \in Item
  BY <1>1, Typed
<1>3. t \in Threads
  BY <1>2 DEF Item
<1>4. Sound(items, t, turns[t])
  BY <1>3 DEF ConversationInv, ThreadsOK
<1>5. \A j : j \in ofTurn <=> /\ j \in 1..Len(items) /\ items[j].thread = t
                              /\ IsMessage(items[j]) /\ items[j].turn = n
  BY <1>2 DEF Messages
<1>6. /\ HasItem(items, t, "user", n) /\ HasItem(items, t, "assistant", n)
      /\ \A j \in 1..Len(items) :
           (items[j].thread = t /\ IsMessage(items[j]) /\ items[j].turn = n) => j < i
  BY <1>2, <1>4 DEF Sound, AnsweredIn
<1>7. \A j : (items[j].kind = "user" \/ items[j].kind = "assistant") => IsMessage(items[j])
  BY DEF IsMessage, Roles
<1>8. PICK u \in 1..Len(items) : items[u].thread = t /\ items[u].kind = "user" /\ items[u].turn = n
  BY <1>6 DEF HasItem
<1>9. PICK a \in 1..Len(items) : /\ items[a].thread = t /\ items[a].kind = "assistant"
                                 /\ items[a].turn = n
  BY <1>6 DEF HasItem
<1>10. u \in ofTurn /\ a \in ofTurn
  BY <1>5, <1>7, <1>8, <1>9
<1>11. \A k \in ofTurn : items[k].kind = "assistant" => k = a
  <2> SUFFICES ASSUME NEW k \in ofTurn, items[k].kind = "assistant", k # a
               PROVE  FALSE
    OBVIOUS
  <2>1. k \in 1..Len(items) /\ items[k].thread = t /\ items[k].turn = n /\ n \in Nat
    BY <1>2, <1>5
  <2>2. k < a \/ a < k
    BY <2>1
  <2> QED BY <1>4, <1>9, <2>1, <2>2 DEF Sound, Ordered
<1>12. \A j \in ofTurn : j < i
  BY <1>5, <1>6
<1> HIDE DEF ofTurn
<1>13. {k \in ofTurn : items[k].kind = "assistant"} = {a}
  BY <1>9, <1>10, <1>11
<1>14. /\ \E j \in ofTurn : items[j].kind = "user"
       /\ \E j \in ofTurn : {k \in ofTurn : items[k].kind = "assistant"} = {j}
       /\ \A j \in ofTurn : j < i
  BY <1>8, <1>10, <1>12, <1>13
<1> QED BY <1>14 DEF ofTurn

LEMMA InvPrompt == ConversationInv => PromptIsLast
<1> SUFFICES ASSUME ConversationInv, Prompted, turn.thread \notin skewed
             PROVE  PromptEndsHistory
  BY DEF PromptIsLast
<1> DEFINE t == turn.thread
           prompt == Len(items)
<1>1. /\ turn # Quiet /\ turn.rounds = 0 /\ LogOK(items) /\ ConversationTypeOK
      /\ t \in Threads /\ turn.number \in Nat
  BY TypedTurn DEF ConversationInv, Prompted
<1>2. /\ turn.number = turns[t] + 1 /\ items # << >>
      /\ items[prompt].thread = t /\ items[prompt].kind = "user"
      /\ items[prompt].turn = turn.number
  BY <1>1 DEF ConversationInv, TurnOK
<1>3. /\ DOMAIN items = 1..Len(items) /\ prompt \in Nat
      /\ \A i \in 1..Len(items) : items[i].turn \in Nat /\ items[i].touched \in Nat
  <2>1. \A x \in Item : x.touched \in Nat
    BY DEF Item
  <2> QED BY <1>1, <2>1, Typed
<1>4. prompt \in 1..Len(items)
  BY <1>1, <1>2, <1>3 DEF LogOK
<1>5. prompt \in Messages(items, t)
  BY <1>2, <1>3, <1>4 DEF Messages, IsMessage, Roles
<1>6. ASSUME NEW i \in Messages(items, t), i # prompt
      PROVE  Earlier(items, i, prompt)
  <2>1. i \in 1..Len(items) /\ items[i].thread = t /\ IsMessage(items[i])
    BY <1>3 DEF Messages
  <2>2. items[i].turn <= items[prompt].turn
    BY <1>1, <1>2, <2>1 DEF ConversationInv, ThreadsOK, Sound, Numbered
  <2>3. items[i].touched <= prompt /\ items[prompt].touched = prompt
    <3>1. items[i].touched <= prompt /\ items[prompt].touched <= prompt
          /\ prompt <= items[prompt].touched
      BY <1>1, <1>4, <2>1 DEF LogOK, CursorsOK
    <3> QED BY <1>3, <1>4, <3>1
  <2>4. i < prompt
    BY <1>3, <1>6, <2>1
  <2> QED BY <1>3, <1>4, <2>1, <2>2, <2>3, <2>4 DEF Earlier
<1> QED BY <1>2, <1>5, <1>6 DEF PromptEndsHistory

LEMMA InvInOrder == ConversationInv => HistoryInOrder
<1> SUFFICES ASSUME ConversationInv, NEW t \in live, t \notin skewed,
                    NEW i \in Messages(items, t), NEW j \in Messages(items, t),
                    i < j, Earlier(items, j, i)
             PROVE  items[i].turn = items[j].turn /\ Mentioned(i)
  BY DEF HistoryInOrder
<1>1. LogOK(items) /\ t \in Threads
  BY DEF ConversationInv, ConversationTypeOK
<1>2. /\ DOMAIN items = 1..Len(items)
      /\ \A k \in 1..Len(items) : items[k].turn \in Nat /\ items[k].touched \in Nat
  <2>1. \A x \in Item : x.touched \in Nat
    BY DEF Item
  <2> QED BY <1>1, <2>1, Typed
<1>3. /\ i \in 1..Len(items) /\ items[i].thread = t /\ IsMessage(items[i])
      /\ j \in 1..Len(items) /\ items[j].thread = t /\ IsMessage(items[j])
  BY <1>2 DEF Messages
<1>4. items[i].turn <= items[j].turn
  BY <1>1, <1>3 DEF ConversationInv, ThreadsOK, Sound, Ordered
<1>5. items[i].turn = items[j].turn /\ items[j].touched < items[i].touched
  BY <1>2, <1>3, <1>4 DEF Earlier
<1>6. j <= items[j].touched
  BY <1>1, <1>3 DEF LogOK, CursorsOK
<1>7. items[i].touched # i
  BY <1>2, <1>3, <1>5, <1>6
<1>8. \E k \in 1..Len(items) : items[k].mention = i
  BY <1>1, <1>3, <1>7 DEF LogOK, CursorsOK
<1> QED BY <1>2, <1>5, <1>8 DEF Mentioned

\* The completed turns of a thread are numbered 1, 2, 3, ... in log order, and
\* next_turn goes on from there: after failed turns, in forks and their forks.
THEOREM TurnsAlwaysConsecutive == ConversationSpec => []TurnsConsecutive
BY ThreadsAreSound, InvConsecutive, PTL

\* A completed turn has a question and exactly one answer and nothing after
\* them, where it was held and in every fork that took it over.
THEOREM TurnsAlwaysAnswered == ConversationSpec => []TurnsAnswered
BY ThreadsAreSound, InvAnswered, PTL

\* What the provider is sent first in a turn ends with the user's prompt,
\* whatever failed before and whatever the messages mention.
THEOREM PromptAlwaysEndsHistory == ConversationSpec => []PromptIsLast
BY ThreadsAreSound, InvPrompt, PTL

\* thread_history swaps two messages only within a turn, and only if the earlier
\* one was mentioned.
THEOREM HistoryAlwaysInOrder == ConversationSpec => []HistoryInOrder
BY ThreadsAreSound, InvInOrder, PTL

-----------------------------------------------------------------------------
(* Closing.  FirstCloseWins rests on what a frame request may assume while  *)
(* its turn runs: nobody else closes its frame.                             *)

FrameInv ==
  /\ TurnInv
  /\ DOMAIN frames = FrameIds /\ frames = [f \in FrameIds |-> frames[f]]
  /\ turn = Quiet => request = NoRequest
  /\ request # NoRequest => request.frame \in FrameIds /\ Open(request.frame)

\* No frame is closed, and those that are stay what they are.
KeepsClosed == \A f \in FrameIds : Closed(f) => frames'[f] = frames[f]

LEMMA OpenIsNotClosed ==
  ASSUME NEW f
  PROVE  /\ Open(f) => ~Closed(f)
         /\ frames[f] = NotStarted => ~Closed(f)
BY DEF Open, Closed, Outcomes, NotStarted

\* Between its appends a turn does not look at its frame.
LEMMA TurnGoesOn ==
  ASSUME FrameInv, Within, UNCHANGED frameVars
  PROVE  FrameInv' /\ KeepsClosed
BY WithinTurn DEF FrameInv, frameVars, KeepsClosed, Open

\* What clients do with threads while no turn runs.
LEMMA ThreadsKeep ==
  ASSUME FrameInv, turn = Quiet, TurnInv', UNCHANGED frameVars
  PROVE  FrameInv' /\ KeepsClosed
BY DEF FrameInv, frameVars, KeepsClosed, Open

LEMMA ThreadStepKeeps ==
  ASSUME FrameInv, ThreadStep, UNCHANGED frameVars
  PROVE  FrameInv' /\ KeepsClosed
<1>1. ThreadStep => ConversationNext
  BY DEF ThreadStep, ConversationNext
<1>2. TurnInv'
  BY <1>1, TurnInvNext DEF FrameInv
<1>3. CASE Within
  BY <1>3, TurnGoesOn
<1>4. CASE ~Within
  <2>1. turn = Quiet
    BY <1>4 DEF ThreadStep, Within, StartThread, BeginTurn, RefuseMessage, Fork
  <2> QED BY <1>2, <2>1, ThreadsKeep
<1> QED BY <1>3, <1>4

\* The steps on one frame: it is open, or was not started yet, or nothing
\* changes; and no turn runs before.
LEMMA FrameStepKeeps ==
  ASSUME FrameInv, NEW f \in FrameIds, FrameStep(f)
  PROVE  FrameInv' /\ KeepsClosed
<1>1. turn = Quiet /\ request = NoRequest
  BY DEF FrameStep, StartFrame, StartThread, AgentRun, StartFrameTorn, FrameTurn, BeginTurn,
         RefuseExhausted, CloseFrame, FrameInv
<1>2. /\ DOMAIN frames = FrameIds
      /\ frames = [g \in FrameIds |-> frames[g]]
  BY DEF FrameInv
<1>3. ASSUME NEW t, NEW max, NEW budget, StartFrame(f, t, max, budget)
      PROVE  FrameInv' /\ KeepsClosed
  <2>1. /\ frames' = [frames EXCEPT ![f] = NewFrame(t, max, budget)]
        /\ frames[f] = NotStarted /\ UNCHANGED <<turn, request>>
    BY <1>3 DEF StartFrame, StartThread
  <2> QED BY <1>1, <1>2, <2>1, OpenIsNotClosed DEF FrameInv, TurnInv, KeepsClosed
<1>4. ASSUME NEW max, NEW budget, StartFrameTorn(f, max, budget)
      PROVE  FrameInv' /\ KeepsClosed
  <2>1. /\ frames' = [frames EXCEPT ![f] = NewFrame("none", max, budget)]
        /\ frames[f] = NotStarted /\ UNCHANGED <<turn, request>>
    BY <1>4 DEF StartFrameTorn, conversationVars
  <2> QED BY <1>1, <1>2, <2>1, OpenIsNotClosed DEF FrameInv, TurnInv, KeepsClosed
<1>5. ASSUME NEW t, NEW turnBudget, NEW budget, AgentRun(f, t, turnBudget, budget)
      PROVE  FrameInv' /\ KeepsClosed
  <2>1. /\ frames' = [frames EXCEPT ![f] = NewFrame(t, EffectiveTurns(turnBudget), budget)]
        /\ frames[f] = NotStarted /\ request' = [frame |-> f, agent |-> TRUE]
        /\ IsTurn(turn')
    BY <1>5, AskedIsTurn DEF AgentRun
  <2>2. Open(f)'
    BY <1>2, <2>1 DEF Open, NewFrame
  <2> QED BY <1>2, <2>1, <2>2, OpenIsNotClosed, TurnIsNotQuiet
          DEF FrameInv, TurnInv, KeepsClosed, NoRequest
<1>6. CASE FrameTurn(f)
  <2>1. /\ UNCHANGED frames /\ Open(f) /\ request' = [frame |-> f, agent |-> FALSE]
        /\ IsTurn(turn')
    BY <1>6, AskedIsTurn DEF FrameTurn, MayRun, BeginTurn
  <2> QED BY <1>2, <2>1, TurnIsNotQuiet DEF FrameInv, TurnInv, KeepsClosed, Open
<1>7. ASSUME NEW outcome, frames' = ClosedAs(f, outcome), UNCHANGED <<turn, request>>
      PROVE  FrameInv' /\ KeepsClosed
  <2>1. \A g \in FrameIds : Closed(g) => frames'[g] = frames[g]
    BY <1>2, <1>7, OpenIsNotClosed DEF ClosedAs, Open
  <2> QED BY <1>1, <1>2, <1>7, <2>1 DEF FrameInv, TurnInv, KeepsClosed, ClosedAs
<1>8. CASE RefuseExhausted(f)
  BY <1>7, <1>8 DEF RefuseExhausted, conversationVars
<1>9. ASSUME NEW outcome, CloseFrame(f, outcome)
      PROVE  FrameInv' /\ KeepsClosed
  BY <1>7, <1>9 DEF CloseFrame, conversationVars
<1> QED BY <1>3, <1>4, <1>5, <1>6, <1>8, <1>9 DEF FrameStep

\* A turn that ends charges its own frame, which is still open.
LEMMA TurnEnds ==
  ASSUME FrameInv, (\E model \in ModelNames : FinishTurn(model)) \/ EndTurn
  PROVE  FrameInv' /\ KeepsClosed
<1>1. turn' = Quiet /\ request' = NoRequest
  BY DEF FinishTurn, AnswerText, EndTurn, ProviderFails, Disconnect
<1>2. \/ UNCHANGED frames
      \/ request # NoRequest /\ \E new : frames' = [frames EXCEPT ![request.frame] = new]
  BY DEF FinishTurn, EndTurn, Account
<1>3. request # NoRequest => request.frame \in FrameIds /\ ~Closed(request.frame)
  BY OpenIsNotClosed DEF FrameInv
<1> QED BY <1>1, <1>2, <1>3 DEF FrameInv, TurnInv, KeepsClosed

LEMMA FrameInvNext ==
  ASSUME FrameInv, [FramesNext]_allVars
  PROVE  FrameInv' /\ KeepsClosed
<1>1. CASE UNCHANGED allVars
  BY <1>1 DEF allVars, conversationVars, frameVars, FrameInv, TurnInv, KeepsClosed, Open
<1> QED BY <1>1, ThreadStepKeeps, FrameStepKeeps, TurnEnds DEF FramesNext

\* Once closed, by a client, by a budget or before a turn, a frame keeps its
\* outcome and its accounting for ever: close_frame and run_frame_turn, for any
\* number of frames, threads and requests.
THEOREM FirstCloseAlwaysWins == FramesSpec => FirstCloseWins
<1>1. FramesInit => FrameInv
  BY DEF FramesInit, ConversationInit, FrameInv, TurnInv
<1>2. FrameInv /\ [FramesNext]_allVars => FrameInv'
  BY FrameInvNext
<1>3. FrameInv /\ [FramesNext]_allVars => [KeepsClosed]_allVars
  BY FrameInvNext
<1> QED BY <1>1, <1>2, <1>3, PTL DEF FramesSpec, FirstCloseWins, KeepsClosed

-----------------------------------------------------------------------------
(* Budgets and accounting.  BudgetsHold and UsageBacked speak of what was    *)
(* charged; to know that the next charge is in order takes what holds while  *)
(* a frame's turn runs and how a frame's turns relate to its thread's.       *)

\* What was charged to a frame that was started.
ChargesOK(f) ==
  /\ Cardinality(ChargedTo(f)) <= frames[f].turns
  /\ Cardinality(ChargedTo(f)) <= frames[f].max
  /\ frames[f].used = Spent(charges, f)[Len(charges)]
  /\ f \in runs => ChargedTo(f) # {}
  /\ frames[f].thread # "none" =>
       frames[f].thread \in live /\ frames[f].turns <= turns[frames[f].thread]
  /\ \A n \in ChargedTo(f) :
       /\ charges[n].turn <= frames[f].turns
       /\ frames[f].budget > 0 => Spent(charges, f)[n-1] < frames[f].budget
       /\ Completed(items, frames[f].thread, charges[n].turn, charges[n].tokens)
       /\ \A m \in ChargedTo(f) : m < n => charges[m].turn < charges[n].turn
       /\ (\A m \in ChargedTo(f) : m <= n) => frames[f].turns = charges[n].turn

\* The turn that runs for a frame is on its thread and within its budgets.
RequestOK ==
  request # NoRequest =>
    LET f == request.frame IN
      /\ f \in FrameIds /\ turn # Quiet /\ frames[f] # NotStarted
      /\ frames[f].thread = turn.thread /\ frames[f].thread # "none"
      /\ frames[f].turns < frames[f].max /\ ~TokensOut(frames[f])

AccountsOK ==
  \A f \in FrameIds : IF frames[f] = NotStarted THEN ChargedTo(f) = {} /\ f \notin runs
                      ELSE ChargesOK(f)

Charge == [frame : FrameIds, turn : Nat, tokens : Nat]

FramesTyped ==
  /\ frames \in [FrameIds -> Frame \cup {NotStarted}]
  /\ charges \in Seq(Charge)

AccountInv == ConversationInv /\ FrameInv /\ FramesTyped /\ RequestOK /\ AccountsOK

\* What a step does to the threads: they stay, their counters never go back and
\* their items stay.
ItemsKept == /\ Len(items) \in Nat /\ Len(items') \in Nat /\ Len(items) <= Len(items')
             /\ \A i \in 1..Len(items) : Like(items'[i], items[i])
                                         /\ items'[i].thread = items[i].thread
ThreadsGrow ==
  live \subseteq live' /\ (\A t \in live : turns[t] <= turns'[t]) /\ ItemsKept

LEMMA OnlyOneThreadGrows ==
  ASSUME ConversationInv, ConversationInv', NEW t, GoesOn(items', items, t)
  PROVE  ItemsKept
BY Typed DEF ConversationInv, GoesOn, ItemsKept

LEMMA ItemsUnchanged ==
  ASSUME ConversationInv, UNCHANGED items
  PROVE  ItemsKept
BY Typed DEF ConversationInv, ItemsKept, Like

LEMMA GoesOnTwice ==
  ASSUME NEW new, NEW mid, NEW log, LogOK(new), LogOK(mid), LogOK(log), NEW t,
         GoesOn(new, mid, t), GoesOn(mid, log, t)
  PROVE  GoesOn(new, log, t)
<1>1. /\ Len(log) \in Nat /\ Len(mid) \in Nat /\ Len(new) \in Nat
      /\ Len(log) <= Len(mid) /\ Len(mid) <= Len(new)
  BY Typed DEF GoesOn
<1>2. \A i \in 1..Len(log) : i \in 1..Len(mid)
  BY <1>1
<1>3. \A i \in (Len(log)+1)..Len(new) :
        \/ i \in (Len(log)+1)..Len(mid) /\ i \in 1..Len(mid)
        \/ i \in (Len(mid)+1)..Len(new)
  BY <1>1
<1>4. Len(log) <= Len(new)
  BY <1>1
<1> QED BY <1>2, <1>3, <1>4 DEF GoesOn, Like

LEMMA BeginGrows ==
  ASSUME ConversationInv, ConversationInv', NEW t \in Threads,
         NEW item \in Item, item.thread = t, item.mention <= Len(items),
         items' = Added(items, item), live \subseteq live', UNCHANGED turns
  PROVE  ThreadsGrow
<1>1. GoesOn(items', items, t)
  BY AddedGoesOn DEF ConversationInv
<1>2. \A u \in live : turns[u] \in Nat
  BY DEF ConversationInv, ConversationTypeOK
<1> QED BY <1>1, <1>2, OnlyOneThreadGrows DEF ThreadsGrow

LEMMA RecordGrows ==
  ASSUME ConversationInv, ConversationInv', RecordCall
  PROVE  ThreadsGrow
<1> DEFINE t == turn.thread
           call == NewItem(t, "call", turn.number)
           output == NewItem(t, "tool", turn.number)
           mid == Added(items, call)
<1>1. LogOK(items) /\ LogOK(items') /\ t \in Threads /\ turn.number \in Nat
  BY TypedTurn DEF ConversationInv, RecordCall
<1>2. "call" \in Kinds /\ "tool" \in Kinds
  BY DEF Kinds, Roles
<1>3. /\ call \in Item /\ call.thread = t /\ call.mention = 0
      /\ output \in Item /\ output.thread = t /\ output.mention = 0
  BY <1>1, <1>2, NewItemIs
<1>4. items' = Added(mid, output)
  BY DEF RecordCall
<1> HIDE DEF call, output
<1>5. LogOK(mid) /\ GoesOn(mid, items, t)
  BY <1>1, <1>3, ItemOfTurn DEF OneMore
<1> HIDE DEF mid
<1>6. GoesOn(items', mid, t)
  BY <1>3, <1>4, <1>5, ItemOfTurn DEF OneMore
<1>7. GoesOn(items', items, t)
  BY <1>1, <1>5, <1>6, GoesOnTwice
<1>8. \A u \in live : turns[u] \in Nat
  BY DEF ConversationInv, ConversationTypeOK
<1> QED BY <1>7, <1>8, OnlyOneThreadGrows DEF ThreadsGrow, RecordCall

\* The last item of a completed turn is its completion, with the tokens it used.
LEMMA AnswerGrows ==
  ASSUME ConversationInv, ConversationInv', NEW model, AnswerText(model)
  PROVE  /\ ThreadsGrow
         /\ turns'[turn.thread] = turn.number
         /\ model = "named" => Completed(items', turn.thread, turn.number, turn.tokens + 1)
<1> DEFINE t == turn.thread
           mid == Added(items, Answer)
<1>1. /\ LogOK(items) /\ LogOK(items') /\ turn # Quiet /\ t \in Threads
      /\ turn.number \in Nat /\ turn.tokens \in Nat /\ turns \in [Threads -> Nat]
      /\ live \subseteq Threads
  BY TypedTurn DEF ConversationInv, AnswerText, Asking, ConversationTypeOK
<1>2. turn.number = turns[t] + 1
  BY <1>1 DEF ConversationInv, TurnOK
<1>3. /\ Answer \in Item /\ Answer.thread = t /\ Answer.mention = 0
      /\ Completion \in Item /\ Completion.thread = t /\ Completion.kind = "turn"
      /\ Completion.turn = turn.number /\ Completion.mention = 0
      /\ Completion.tokens = turn.tokens + 1
  BY <1>1, AnswerItems DEF ConversationInv
<1>5. items' = IF model = "named" THEN Added(mid, Completion) ELSE mid
  BY DEF AnswerText, Finished
<1>6. LogOK(mid) /\ GoesOn(mid, items, t)
  BY <1>1, <1>3, ItemOfTurn DEF OneMore
<1> HIDE DEF mid
<1>7. turns' = [turns EXCEPT ![t] = turn.number] /\ UNCHANGED live
  BY DEF AnswerText
<1>8. \A u \in live : turns[u] <= turns'[u]
  BY <1>1, <1>2, <1>7
<1>9. CASE model = "named"
  <2> DEFINE n == Len(items')
  <2>1. /\ GoesOn(items', mid, t) /\ n \in 1..n
        /\ items'[n].kind = "turn" /\ items'[n].turn = turn.number
        /\ items'[n].tokens = turn.tokens + 1 /\ items'[n].thread = t
    BY <1>3, <1>5, <1>6, <1>9, ItemOfTurn DEF OneMore
  <2>2. GoesOn(items', items, t)
    BY <1>1, <1>6, <2>1, GoesOnTwice
  <2>3. DOMAIN items' = 1..n
    BY <1>1, Typed
  <2>4. Completed(items', t, turn.number, turn.tokens + 1)
    BY <2>1, <2>3 DEF Completed
  <2> QED BY <1>1, <1>7, <1>8, <2>2, <2>4, OnlyOneThreadGrows DEF ThreadsGrow
<1>10. CASE model # "named"
  BY <1>1, <1>5, <1>6, <1>7, <1>8, <1>10, OnlyOneThreadGrows DEF ThreadsGrow
<1> QED BY <1>9, <1>10

LEMMA ForkGrows ==
  ASSUME ConversationInv, ConversationInv', NEW f \in Threads, NEW s \in Threads,
         NEW upTo \in 0..MaxItems, Fork(f, s, upTo)
  PROVE  ThreadsGrow
<1> DEFINE limit == Min2(upTo, turns[s])
           copied == Copying(f, s, limit)[Len(items)]
<1>1. /\ turns \in [Threads -> Nat] /\ live \subseteq Threads /\ LogOK(items)
      /\ f \notin live /\ MaxItems \in Nat
  BY ConversationAssumption DEF ConversationInv, ConversationTypeOK, Fork
<1>2. limit \in Nat
  BY <1>1 DEF Min2
<1>3. /\ items' = copied.log /\ live' = live \cup {f}
      /\ turns' = [turns EXCEPT ![f] = copied.turns]
  BY DEF Fork
<1> HIDE DEF limit
<1>4. CopiedSoFar(copied.log, copied.turns, f, s, limit, Len(items))
  BY <1>1, <1>2, ForkIs
<1> HIDE DEF copied
<1>5. GoesOn(items', items, f)
  BY <1>3, <1>4 DEF CopiedSoFar
<1>6. \A t \in live : turns[t] <= turns'[t]
  BY <1>1, <1>3
<1> QED BY <1>3, <1>5, <1>6, OnlyOneThreadGrows DEF ThreadsGrow

LEMMA NothingGrows ==
  ASSUME ConversationInv, UNCHANGED <<items, turns>>, live \subseteq live'
  PROVE  ThreadsGrow
<1>1. \A t \in live : turns[t] \in Nat
  BY DEF ConversationInv, ConversationTypeOK
<1> QED BY <1>1, ItemsUnchanged DEF ThreadsGrow

LEMMA BeginThreadGrows ==
  ASSUME ConversationInv, ConversationInv', NEW t \in Threads, NEW mention \in Mentionable,
         BeginTurn(t, mention)
  PROVE  ThreadsGrow
<1> DEFINE plain == NewItem(t, "user", NextTurn(t))
<1>1. Len(items) \in Nat /\ DOMAIN items = 1..Len(items)
  BY Typed DEF ConversationInv
<1>2. mention \in Nat /\ mention <= Len(items)
  BY <1>1 DEF Mentionable
<1>3. "user" \in Kinds /\ NextTurn(t) \in Nat
  BY DEF Kinds, Roles, NextTurn, ConversationInv, ConversationTypeOK
<1>4. plain \in Item /\ plain.thread = t
  BY <1>3, NewItemIs
<1>5. items' = Added(items, [plain EXCEPT !.mention = mention]) /\ UNCHANGED <<turns, live>>
  BY DEF BeginTurn
<1> HIDE DEF plain
<1>6. LET x == [plain EXCEPT !.mention = mention]
      IN x \in Item /\ x.thread = plain.thread /\ x.mention = mention
  BY <1>2, <1>4, ItemWith
<1> QED BY <1>2, <1>4, <1>5, <1>6, BeginGrows

LEMMA ThreadStepGrows ==
  ASSUME ConversationInv, ConversationInv', ThreadStep
  PROVE  ThreadsGrow
<1>1. ASSUME NEW t \in Threads, StartThread(t) PROVE ThreadsGrow
  BY <1>1, NothingGrows DEF StartThread
<1>2. ASSUME RefuseMessage \/ RunTool \/ \E n \in 1..MaxCalls : AnswerCalls(n)
      PROVE  ThreadsGrow
  <2>1. UNCHANGED <<items, turns, live>>
    BY <1>2 DEF RefuseMessage, conversationVars, RunTool, AnswerCalls
  <2> QED BY <2>1, NothingGrows
<1> QED BY <1>1, <1>2, BeginThreadGrows, RecordGrows, ForkGrows DEF ThreadStep

-----------------------------------------------------------------------------
LEMMA NotStartedIsNoFrame == NotStarted \notin Frame
<1>1. \A x \in Frame : DOMAIN x = {"status", "thread", "turns", "used", "max", "budget"}
  BY DEF Frame
<1>2. DOMAIN NotStarted = {"status"}
  BY DEF NotStarted
<1> QED BY <1>1, <1>2

LEMMA StartedIsFrame ==
  ASSUME FramesTyped, NEW f \in FrameIds, frames[f] # NotStarted
  PROVE  /\ frames[f] \in Frame /\ frames[f].turns \in Nat /\ frames[f].used \in Nat
         /\ frames[f].max \in Nat /\ frames[f].budget \in Nat
         /\ frames[f].thread \in Threads \cup {"none"}
<1>1. frames[f] \in Frame
  BY DEF FramesTyped
<1> QED BY <1>1 DEF Frame

\* The frame's accounting, and not its outcome.
SameAccount(x, y) ==
  /\ x.thread = y.thread /\ x.turns = y.turns /\ x.used = y.used
  /\ x.max = y.max /\ x.budget = y.budget

\* What is completed in the log stays completed.
LEMMA CompletedStays ==
  ASSUME ConversationInv, ConversationInv', ThreadsGrow,
         NEW t, NEW number, NEW tokens, Completed(items, t, number, tokens)
  PROVE  Completed(items', t, number, tokens)
<1>1. DOMAIN items = 1..Len(items) /\ DOMAIN items' = 1..Len(items')
  BY Typed DEF ConversationInv
<1>2. \A i \in DOMAIN items : i \in DOMAIN items' /\ Like(items'[i], items[i])
                              /\ items'[i].thread = items[i].thread
  BY <1>1 DEF ThreadsGrow, ItemsKept
<1> QED BY <1>2 DEF Completed, Like

\* A frame that is not charged by a step keeps its accounts.
LEMMA AccountKept ==
  ASSUME NEW f \in FrameIds, ChargesOK(f), FramesTyped, frames[f] # NotStarted,
         SameAccount(frames'[f], frames[f]), UNCHANGED <<charges, runs>>,
         ThreadsGrow, ConversationInv, ConversationInv'
  PROVE  ChargesOK(f)'
<1>1. ChargedTo(f)' = ChargedTo(f)
  BY DEF ChargedTo
<1>2. \A t, number, tokens :
        Completed(items, t, number, tokens) => Completed(items', t, number, tokens)
  BY CompletedStays
<1>3. frames[f].thread # "none" =>
        frames[f].thread \in live' /\ frames[f].turns <= turns'[frames[f].thread]
  <2> SUFFICES ASSUME frames[f].thread # "none"
               PROVE  frames[f].thread \in live' /\ frames[f].turns <= turns'[frames[f].thread]
    OBVIOUS
  <2> DEFINE t == frames[f].thread
  <2>1. /\ t \in live /\ t \in live' /\ turns[t] <= turns'[t] /\ frames[f].turns <= turns[t]
    BY DEF ChargesOK, ThreadsGrow
  <2>2. turns[t] \in Nat /\ turns'[t] \in Nat /\ frames[f].turns \in Nat
    BY <2>1, StartedIsFrame DEF ConversationInv, ConversationTypeOK
  <2> QED BY <2>1, <2>2
<1> QED BY <1>1, <1>2, <1>3 DEF ChargesOK, SameAccount

LEMMA AccountsKept ==
  ASSUME AccountsOK, FramesTyped, UNCHANGED <<frames, charges, runs>>,
         ThreadsGrow, ConversationInv, ConversationInv'
  PROVE  AccountsOK'
<1>1. \A f \in FrameIds : frames[f] # NotStarted => ChargesOK(f)'
  BY AccountKept DEF AccountsOK, SameAccount
<1>2. \A f \in FrameIds : ChargedTo(f)' = ChargedTo(f)
  BY DEF ChargedTo
<1> QED BY <1>1, <1>2 DEF AccountsOK

-----------------------------------------------------------------------------
(* Spent is a recursive function; its values, one charge at a time.         *)

LEMMA SpentUnfold ==
  ASSUME NEW log, Len(log) \in Nat, NEW f
  PROVE  /\ Spent(log, f)[0] = 0
         /\ \A n \in 1..Len(log) :
              Spent(log, f)[n] = Spent(log, f)[n-1] + Tokens(log[n], f)
<1> DEFINE last == Len(log)
           Of(g, n) == g = [k \in 0..n |-> IF k = 0 THEN 0 ELSE g[k-1] + Tokens(log[k], f)]
           S == {n \in Nat : \E g : Of(g, n)}
<1>1. 0 \in S
  <2> DEFINE g == [k \in 0..0 |-> 0]
  <2>1. \A k \in 0..0 : k = 0
    OBVIOUS
  <2>2. Of(g, 0)
    BY <2>1
  <2> QED BY <2>2
<1>2. ASSUME NEW m \in 1..last, m - 1 \in S PROVE m \in S
  <2>0. PICK n \in Nat : n = m - 1
    OBVIOUS
  <2>1. PICK g : Of(g, n)
    BY <1>2, <2>0
  <2> DEFINE h == [k \in 0..m |-> IF k <= n THEN g[k] ELSE g[n] + Tokens(log[m], f)]
  <2>2. ASSUME NEW k \in 0..m
        PROVE  h[k] = IF k = 0 THEN 0 ELSE h[k-1] + Tokens(log[k], f)
    <3>1. CASE k = 0
      BY <2>1, <3>1
    <3>2. CASE k # 0 /\ k <= n
      BY <2>1, <3>2
    <3>3. CASE k = m
      <4>1. k # 0 /\ ~(k <= n) /\ k - 1 = n /\ n \in 0..m /\ n <= n
        BY <2>0, <3>3
      <4>2. h[k] = g[n] + Tokens(log[k], f) /\ h[k-1] = g[n]
        BY <3>3, <4>1
      <4> QED BY <4>1, <4>2
    <3>4. k = 0 \/ (k # 0 /\ k <= n) \/ k = m
      BY <2>0
    <3> QED BY <3>1, <3>2, <3>3, <3>4
  <2>3. Of(h, m)
    BY <2>2
  <2> HIDE DEF h, Of
  <2>4. \E x : Of(x, m)
    BY <2>3
  <2> QED BY <2>4
<1>3. last \in S
  <2> HIDE DEF S
  <2>1. last \in Nat /\ last \in 0..last
    OBVIOUS
  <2>2. \A m \in 1..last : m - 1 \in S => m \in S
    BY <1>2
  <2> HIDE DEF last
  <2>3. \A n \in 0..last : n \in S
    BY <1>1, <2>1, <2>2, InductionUpTo
  <2> QED BY <2>1, <2>3
<1>4. \E g : Of(g, last)
  BY <1>3
<1>5. Spent(log, f) = CHOOSE g : Of(g, last)
  BY DEF Spent
<1>6. Of(Spent(log, f), last)
  <2> HIDE DEF Of
  <2> QED BY <1>4, <1>5
<1>7. \A n \in 0..last :
        Spent(log, f)[n] = IF n = 0 THEN 0 ELSE Spent(log, f)[n-1] + Tokens(log[n], f)
  <2> DEFINE c == Spent(log, f)
  <2>1. c = [n \in 0..last |-> IF n = 0 THEN 0 ELSE c[n-1] + Tokens(log[n], f)]
    BY <1>6
  <2> HIDE DEF c
  <2>2. \A n \in 0..last : c[n] = IF n = 0 THEN 0 ELSE c[n-1] + Tokens(log[n], f)
    BY <2>1
  <2> QED BY <2>2 DEF c
<1> QED BY <1>7

LEMMA SpentType ==
  ASSUME NEW log \in Seq(Charge), NEW f
  PROVE  \A n \in 0..Len(log) : Spent(log, f)[n] \in Nat
<1> DEFINE last == Len(log)
           S == {n \in Nat : Spent(log, f)[n] \in Nat}
<1>1. last \in Nat /\ \A n \in 1..last : log[n] \in Charge
  OBVIOUS
<1>2. \A n \in 1..last : Tokens(log[n], f) \in Nat
  BY <1>1 DEF Tokens, Charge
<1>3. 0 \in S
  BY <1>1, SpentUnfold
<1>4. ASSUME NEW n \in 1..last, n - 1 \in S PROVE n \in S
  <2>1. Spent(log, f)[n] = Spent(log, f)[n-1] + Tokens(log[n], f)
    BY <1>1, SpentUnfold
  <2>2. Spent(log, f)[n-1] \in Nat
    BY <1>4
  <2> QED BY <1>2, <2>1, <2>2
<1>5. \A n \in 1..last : n - 1 \in S => n \in S
  BY <1>4
<1> HIDE DEF S
<1>6. \A n \in 0..last : n \in S
  <2> HIDE DEF last
  <2> QED BY <1>1, <1>3, <1>5, InductionUpTo
<1> QED BY <1>6 DEF S

LEMMA SpentNone ==
  ASSUME NEW log \in Seq(Charge), NEW f, \A n \in 1..Len(log) : log[n].frame # f
  PROVE  Spent(log, f)[Len(log)] = 0
<1> DEFINE last == Len(log)
           S == {n \in Nat : Spent(log, f)[n] = 0}
<1>1. last \in Nat
  OBVIOUS
<1>2. 0 \in S
  BY <1>1, SpentUnfold
<1>3. ASSUME NEW n \in 1..last, n - 1 \in S PROVE n \in S
  <2>1. Spent(log, f)[n] = Spent(log, f)[n-1] + Tokens(log[n], f)
    BY <1>1, SpentUnfold
  <2>2. Tokens(log[n], f) = 0
    BY DEF Tokens
  <2>3. Spent(log, f)[n-1] = 0
    BY <1>3
  <2> QED BY <2>1, <2>2, <2>3
<1>4. \A n \in 1..last : n - 1 \in S => n \in S
  BY <1>3
<1> HIDE DEF S
<1>5. last \in S
  <2>1. last \in 0..last
    BY <1>1
  <2> HIDE DEF last
  <2>2. \A n \in 0..last : n \in S
    BY <1>1, <1>2, <1>4, InductionUpTo
  <2> QED BY <2>1, <2>2
<1> QED BY <1>5 DEF S

LEMMA SpentAppend ==
  ASSUME NEW log \in Seq(Charge), NEW charge \in Charge, NEW f
  PROVE  LET new == Append(log, charge) IN
         /\ \A n \in 0..Len(log) : Spent(new, f)[n] = Spent(log, f)[n]
         /\ Spent(new, f)[Len(log) + 1] = Spent(log, f)[Len(log)] + Tokens(charge, f)
<1> DEFINE new == Append(log, charge)
           last == Len(log)
           S == {n \in Nat : Spent(new, f)[n] = Spent(log, f)[n]}
<1>1. /\ last \in Nat /\ Len(new) = last + 1 /\ new[last + 1] = charge
      /\ \A n \in 1..last : new[n] = log[n] /\ n \in 1..Len(new)
      /\ last + 1 \in 1..Len(new) /\ last \in 0..last /\ (last + 1) - 1 = last
  OBVIOUS
<1> HIDE DEF new
<1>2. 0 \in S
  BY <1>1, SpentUnfold
<1>3. ASSUME NEW n \in 1..last, n - 1 \in S PROVE n \in S
  <2>1. Spent(log, f)[n] = Spent(log, f)[n-1] + Tokens(log[n], f)
    BY <1>1, SpentUnfold
  <2>2. Spent(new, f)[n] = Spent(new, f)[n-1] + Tokens(log[n], f)
    BY <1>1, SpentUnfold
  <2>3. Spent(new, f)[n-1] = Spent(log, f)[n-1]
    BY <1>3
  <2> QED BY <2>1, <2>2, <2>3
<1>4. \A n \in 1..last : n - 1 \in S => n \in S
  BY <1>3
<1> HIDE DEF S
<1>5. \A n \in 0..last : n \in S
  <2> HIDE DEF last
  <2> QED BY <1>1, <1>2, <1>4, InductionUpTo
<1>6. \A n \in 0..last : Spent(new, f)[n] = Spent(log, f)[n]
  BY <1>5 DEF S
<1>7. Spent(new, f)[last + 1] = Spent(new, f)[last] + Tokens(charge, f)
  BY <1>1, SpentUnfold
<1> QED BY <1>1, <1>6, <1>7 DEF new

-----------------------------------------------------------------------------
(* The threads of frames are threads as any other.                          *)

LEMMA FrameThread ==
  ASSUME FramesTyped, NEW f \in FrameIds, MayRun(f)
  PROVE  frames[f].thread \in Threads /\ frames[f] # NotStarted
<1>1. frames[f] # NotStarted
  BY DEF MayRun, Open, NotStarted
<1> QED BY <1>1, StartedIsFrame DEF MayRun

LEMMA AgentRunAsks ==
  ASSUME ConversationInv, NEW f, NEW t \in Threads, NEW agentTurns, NEW budget,
         AgentRun(f, t, agentTurns, budget)
  PROVE  /\ ConversationInv'
         /\ \E item \in Item : item.thread = t /\ item.mention = 0
                               /\ items' = Added(items, item)
<1> DEFINE plain == NewItem(t, "user", 1)
<1>1. turns[t] = 0 /\ Len(items) \in Nat
  BY Typed DEF AgentRun, ConversationInv, OnlyLive
<1>2. "user" \in Kinds /\ 1 \in Nat /\ turns[t] + 1 = 1
  BY <1>1 DEF Kinds, Roles
<1>3. plain \in Item /\ plain.thread = t /\ plain.mention = 0
  BY <1>2, NewItemIs
<1>4. [plain EXCEPT !.mention = 0] = plain
  BY DEF NewItem
<1>5. items' = Added(items, plain)
  BY DEF AgentRun
<1> HIDE DEF plain
<1>6. items' = Added(items, [plain EXCEPT !.mention = 0])
  BY <1>4, <1>5
<1>7. 0 \in Nat /\ 0 <= Len(items)
  BY <1>1
<1>8. ConversationInv'
  BY <1>2, <1>6, <1>7, TurnAsked DEF AgentRun, plain
<1> QED BY <1>3, <1>5, <1>8

LEMMA ConversationInvFrames ==
  ASSUME ConversationInv, FramesTyped, [FramesNext]_allVars
  PROVE  ConversationInv'
<1>1. ASSUME UNCHANGED conversationVars PROVE ConversationInv'
  BY <1>1, ConversationInvNext
<1>2. ASSUME ThreadStep PROVE ConversationInv'
  BY <1>2, ConversationInvNext DEF ThreadStep, ConversationNext
<1>3. ASSUME NEW f \in FrameIds, FrameTurn(f) PROVE ConversationInv'
  <2>1. frames[f].thread \in Threads /\ BeginTurn(frames[f].thread, 0)
    BY <1>3, FrameThread DEF FrameTurn
  <2>2. 0 \in Mentionable
    BY DEF Mentionable
  <2> QED BY <2>1, <2>2, BeginKeepsInv
<1>4. ASSUME NEW f \in FrameIds, FrameStep(f) PROVE ConversationInv'
  <2>1. ASSUME NEW t \in Threads, NEW max, NEW budget,
               StartFrame(f, t, max, budget) \/ AgentRun(f, t, max, budget)
        PROVE  ConversationInv'
    BY <2>1, StartKeepsInv, AgentRunAsks DEF StartFrame
  <2>2. ASSUME \/ RefuseExhausted(f)
               \/ \E max, budget : StartFrameTorn(f, max, budget)
               \/ \E outcome : CloseFrame(f, outcome)
        PROVE  ConversationInv'
    BY <1>1, <2>2 DEF StartFrameTorn, RefuseExhausted, CloseFrame
  <2> QED BY <1>3, <1>4, <2>1, <2>2 DEF FrameStep
<1>5. ASSUME NEW model, FinishTurn(model) PROVE ConversationInv'
  BY <1>5, AnswerKeepsInv DEF FinishTurn
<1>6. ASSUME EndTurn PROVE ConversationInv'
  BY <1>6, TurnDroppedInv DEF EndTurn, ProviderFails, Disconnect
<1>7. UNCHANGED allVars => UNCHANGED conversationVars
  BY DEF allVars
<1> QED BY <1>1, <1>2, <1>4, <1>5, <1>6, <1>7 DEF FramesNext

-----------------------------------------------------------------------------
(* The accounts, step by step.                                              *)

\* A frame that starts has no charges.
LEMMA NewAccount ==
  ASSUME FramesTyped, AccountsOK, ThreadsGrow, ConversationInv, ConversationInv',
         NEW f \in FrameIds, frames[f] = NotStarted,
         NEW t \in Threads \cup {"none"}, t # "none" => t \in live',
         NEW max \in Nat, NEW budget \in Nat,
         frames' = [frames EXCEPT ![f] = NewFrame(t, max, budget)],
         UNCHANGED <<charges, runs>>
  PROVE  AccountsOK' /\ FramesTyped'
<1> DEFINE frame == NewFrame(t, max, budget)
<1>1. /\ frame \in Frame /\ frame.thread = t /\ frame.turns = 0 /\ frame.used = 0
      /\ frame.max = max /\ frame.budget = budget
  BY DEF NewFrame, Frame
<1> HIDE DEF frame
<1>2. frames' = [frames EXCEPT ![f] = frame]
  BY DEF frame
<1>3. FramesTyped'
  BY <1>1, <1>2 DEF FramesTyped
<1>4. frames'[f] = frame /\ \A g \in FrameIds : g # f => frames'[g] = frames[g]
  BY <1>2 DEF FramesTyped
<1>5. \A g \in FrameIds : ChargedTo(g)' = ChargedTo(g)
  BY DEF ChargedTo
<1>6. ChargesOK(f)'
  <2>1. ChargedTo(f) = {} /\ f \notin runs
    BY DEF AccountsOK
  <2>2. \A n \in 1..Len(charges) : charges[n].frame # f
    <3>1. DOMAIN charges = 1..Len(charges)
      BY DEF FramesTyped
    <3> QED BY <2>1, <3>1 DEF ChargedTo
  <2>3. Spent(charges, f)[Len(charges)] = 0
    BY <2>2, SpentNone DEF FramesTyped
  <2>4. Cardinality({}) = 0
    BY FS_EmptySet
  <2>5. t # "none" => t \in live' /\ 0 <= turns'[t]
    BY DEF ConversationInv, ConversationTypeOK
  <2>6. Cardinality(ChargedTo(f)') = 0 /\ ChargedTo(f)' = {}
    BY <1>5, <2>1, <2>4
  <2>7. 0 <= max /\ 0 <= frame.turns
    BY <1>1
  <2>8. frame.used = Spent(charges, f)[Len(charges)] /\ f \notin runs'
    BY <1>1, <2>1, <2>3
  <2>9. frame.thread # "none" => frame.thread \in live' /\ frame.turns <= turns'[frame.thread]
    BY <1>1, <2>5
  <2>10. frames'[f] = frame /\ charges' = charges /\ Cardinality(ChargedTo(f)') <= frame.max
    BY <1>1, <1>4, <2>6, <2>7
  <2> QED BY <2>6, <2>7, <2>8, <2>9, <2>10 DEF ChargesOK
<1>7. \A g \in FrameIds : (g # f /\ frames[g] # NotStarted) => ChargesOK(g)'
  BY <1>4, AccountKept DEF AccountsOK, SameAccount
<1>8. frames'[f] # NotStarted
  BY <1>1, <1>4, NotStartedIsNoFrame
<1>9. \A g \in FrameIds :
        IF frames'[g] = NotStarted THEN ChargedTo(g)' = {} /\ g \notin runs'
        ELSE ChargesOK(g)'
  BY <1>4, <1>5, <1>6, <1>7, <1>8 DEF AccountsOK
<1> QED BY <1>3, <1>9 DEF AccountsOK

\* Closing a frame leaves its accounts alone.
LEMMA CloseAccount ==
  ASSUME FramesTyped, AccountsOK, ThreadsGrow, ConversationInv, ConversationInv',
         NEW f \in FrameIds, NEW outcome \in Outcomes, frames' = ClosedAs(f, outcome),
         UNCHANGED <<charges, runs>>
  PROVE  AccountsOK' /\ FramesTyped'
<1> DEFINE closed == [frames[f] EXCEPT !.status = outcome]
<1>1. CASE ~Open(f)
  <2>1. frames' = frames
    BY <1>1 DEF ClosedAs, Open, FramesTyped
  <2> QED BY <2>1, AccountsKept DEF FramesTyped
<1>2. CASE Open(f)
  <2>1. frames[f] # NotStarted
    BY <1>2 DEF Open, NotStarted
  <2>2. frames[f] \in Frame
    BY <2>1, StartedIsFrame
  <2>3. closed \in Frame /\ SameAccount(closed, frames[f])
    BY <2>2 DEF Frame, SameAccount
  <2>4. frames' = [frames EXCEPT ![f] = closed]
    BY <1>2 DEF ClosedAs, Open, FramesTyped
  <2> HIDE DEF closed
  <2>5. FramesTyped'
    BY <2>3, <2>4 DEF FramesTyped
  <2>6. frames'[f] = closed /\ \A g \in FrameIds : g # f => frames'[g] = frames[g]
    BY <2>4 DEF FramesTyped
  <2>7. frames'[f] # NotStarted
    BY <2>3, <2>6, NotStartedIsNoFrame
  <2>8. \A g \in FrameIds : frames[g] # NotStarted =>
          ChargesOK(g)' /\ frames'[g] # NotStarted
    <3>1. \A g \in FrameIds : frames[g] # NotStarted => SameAccount(frames'[g], frames[g])
      BY <2>3, <2>6 DEF SameAccount
    <3> QED BY <2>6, <2>7, <3>1, AccountKept DEF AccountsOK
  <2>9. \A g \in FrameIds : ChargedTo(g)' = ChargedTo(g)
    BY DEF ChargedTo
  <2>10. \A g \in FrameIds : frames[g] = NotStarted => frames'[g] = NotStarted
    BY <2>1, <2>6
  <2> QED BY <2>5, <2>8, <2>9, <2>10 DEF AccountsOK
<1> QED BY <1>1, <1>2

\* What the charge of a completed turn does to the charges.
LEMMA OneMoreCharge ==
  ASSUME charges \in Seq(Charge), NEW charge \in Charge, charges' = Append(charges, charge)
  PROVE  LET n == Len(charges) + 1 IN
         /\ charges' \in Seq(Charge) /\ Len(charges') = n /\ charges'[n] = charge
         /\ \A i \in 1..Len(charges) : charges'[i] = charges[i]
         /\ ChargedTo(charge.frame)' = ChargedTo(charge.frame) \cup {n}
         /\ \A g : g # charge.frame => ChargedTo(g)' = ChargedTo(g)
         /\ \A g : ChargedTo(g) \subseteq 1..Len(charges)
<1> DEFINE n == Len(charges) + 1
<1>1. /\ charges' \in Seq(Charge) /\ Len(charges') = n /\ charges'[n] = charge
      /\ \A i \in 1..Len(charges) : charges'[i] = charges[i]
      /\ Len(charges) \in Nat /\ DOMAIN charges = 1..Len(charges)
      /\ DOMAIN charges' = 1..n
  BY AppendProperties
<1>2. 1..n = 1..Len(charges) \cup {n} /\ n \notin 1..Len(charges)
  BY <1>1
<1>3. \A g : ChargedTo(g) = {i \in 1..Len(charges) : charges[i].frame = g}
  BY <1>1 DEF ChargedTo
<1>4. \A g : ChargedTo(g)' = {i \in 1..n : charges'[i].frame = g}
  BY <1>1 DEF ChargedTo
<1> HIDE DEF n
<1>5. ChargedTo(charge.frame)' = ChargedTo(charge.frame) \cup {n}
  BY <1>1, <1>2, <1>3, <1>4
<1>6. \A g : g # charge.frame => ChargedTo(g)' = ChargedTo(g)
  BY <1>1, <1>2, <1>3, <1>4
<1> QED BY <1>1, <1>3, <1>5, <1>6 DEF n

LEMMA ChargedIs ==
  ASSUME NEW frame \in Frame, NEW number \in Nat, NEW tokens \in Nat
  PROVE  LET charged == Charged(frame, number, tokens) IN
         /\ charged \in Frame /\ charged.thread = frame.thread /\ charged.turns = number
         /\ charged.used = frame.used + tokens /\ charged.max = frame.max
         /\ charged.budget = frame.budget
<1>1. frame.used \in Nat /\ frame.used + tokens \in Nat
  BY DEF Frame
<1> QED BY <1>1 DEF Charged, Frame

\* The turn that is charged to its frame is a new one, on record with the tokens
\* it is charged, and the frame's budgets were not used up before.
LEMMA ChargeAccount ==
  ASSUME AccountInv, ConversationInv', AnswerText("named"), request # NoRequest,
         NEW f, f = request.frame, Account(f)
  PROVE  AccountsOK' /\ FramesTyped'
<1> DEFINE k == turn.tokens + 1
           n == Len(charges) + 1
           charge == [frame |-> f, turn |-> turn.number, tokens |-> k]
           old == frames[f]
           charged == Charged(old, turn.number, k)
           outcome == OutcomeAfter(charged)
           new == IF outcome = "none" THEN charged ELSE [charged EXCEPT !.status = outcome]
<1>1. /\ ConversationInv /\ FramesTyped /\ f \in FrameIds /\ old # NotStarted
      /\ old.thread = turn.thread /\ old.thread # "none" /\ turn # Quiet
      /\ old.turns < old.max /\ ~TokensOut(old) /\ ChargesOK(f) /\ old \in Frame
  BY StartedIsFrame DEF AccountInv, RequestOK, AccountsOK
<1>2. /\ turn.thread \in Threads /\ turn.number \in Nat /\ k \in Nat
      /\ turns[turn.thread] \in Nat /\ turn.number = turns[turn.thread] + 1
      /\ turn.thread \in live
  BY <1>1, TypedTurn DEF ConversationInv, ConversationTypeOK, TurnOK
<1>3. /\ old.turns \in Nat /\ old.used \in Nat /\ old.max \in Nat /\ old.budget \in Nat
      /\ old.turns < turn.number
  BY <1>1, <1>2, StartedIsFrame DEF ChargesOK
<1>4. /\ ThreadsGrow /\ turns'[turn.thread] = turn.number
      /\ Completed(items', turn.thread, turn.number, k)
  BY <1>1, AnswerGrows
<1>5. /\ charges' = Append(charges, charge) /\ frames' = [frames EXCEPT ![f] = new]
      /\ runs' \subseteq runs \cup {f}
  BY DEF Account, RunsAfter
<1>6. charge \in Charge /\ charge.frame = f /\ charge.turn = turn.number /\ charge.tokens = k
  BY <1>1, <1>2 DEF Charge
<1>7. /\ charged \in Frame /\ charged.thread = old.thread /\ charged.turns = turn.number
      /\ charged.used = old.used + k /\ charged.max = old.max /\ charged.budget = old.budget
  BY <1>1, <1>2, ChargedIs
<1>8. outcome = "none" \/ outcome \in Outcomes
  BY DEF OutcomeAfter, Outcomes
<1> HIDE DEF charge, charged, outcome
<1>9. new \in Frame /\ SameAccount(new, charged)
  BY <1>7, <1>8 DEF Frame, SameAccount
<1> HIDE DEF new
<1>10. /\ frames' \in [FrameIds -> Frame \cup {NotStarted}] /\ frames'[f] = new
       /\ \A g \in FrameIds : g # f => frames'[g] = frames[g]
  BY <1>1, <1>5, <1>9 DEF FramesTyped
<1>11. /\ new.thread = turn.thread /\ new.turns = turn.number /\ new.used = old.used + k
       /\ new.max = old.max /\ new.budget = old.budget /\ new # NotStarted
  BY <1>1, <1>7, <1>9, NotStartedIsNoFrame DEF SameAccount
<1>12. charges \in Seq(Charge)
  BY <1>1 DEF FramesTyped
<1>13. /\ charges' \in Seq(Charge) /\ Len(charges') = n /\ charges'[n] = charge
       /\ \A i \in 1..Len(charges) : charges'[i] = charges[i]
       /\ ChargedTo(f)' = ChargedTo(f) \cup {n}
       /\ \A g : g # f => ChargedTo(g)' = ChargedTo(g)
       /\ \A g : ChargedTo(g) \subseteq 1..Len(charges)
  BY <1>5, <1>6, <1>12, OneMoreCharge
<1>14. Len(charges) \in Nat /\ n \notin 1..Len(charges)
  BY <1>12
<1>15. \A g : /\ \A i \in 0..Len(charges) : Spent(charges', g)[i] = Spent(charges, g)[i]
              /\ Spent(charges', g)[n] = Spent(charges, g)[Len(charges)] + Tokens(charge, g)
  BY <1>5, <1>6, <1>12, SpentAppend
<1>16. \A t, number, tokens :
         Completed(items, t, number, tokens) => Completed(items', t, number, tokens)
  BY <1>1, <1>4, CompletedStays
<1>17. ChargesOK(f)'
  <2>1. /\ Cardinality(ChargedTo(f)') <= new.turns /\ Cardinality(ChargedTo(f)') <= new.max
    <3>1. IsFiniteSet(ChargedTo(f)) /\ Cardinality(ChargedTo(f)) \in Nat
      <4>1. IsFiniteSet(1..Len(charges))
        BY <1>14, FS_Interval
      <4>2. IsFiniteSet(ChargedTo(f))
        BY <1>13, <4>1, FS_Subset
      <4> QED BY <4>2, FS_CardinalityType
    <3>2. Cardinality(ChargedTo(f)') = Cardinality(ChargedTo(f)) + 1
      BY <1>13, <1>14, <3>1, FS_AddElement
    <3>3. Cardinality(ChargedTo(f)) <= old.turns
      BY <1>1 DEF ChargesOK
    <3> QED BY <1>1, <1>2, <1>3, <1>11, <3>1, <3>2, <3>3
  <2>2. new.used = Spent(charges', f)[n]
    BY <1>1, <1>6, <1>11, <1>15 DEF ChargesOK, Tokens
  <2>3. ChargedTo(f)' # {}
    BY <1>13
  <2>4. new.thread \in live' /\ new.turns <= turns'[new.thread]
    BY <1>2, <1>4, <1>11 DEF ThreadsGrow
  <2>5. ASSUME NEW i \in ChargedTo(f)
        PROVE  /\ i \in 1..Len(charges) /\ charges'[i] = charges[i] /\ charges[i].turn \in Nat
               /\ charges[i].turn < turn.number
               /\ new.budget > 0 => Spent(charges', f)[i-1] < new.budget
               /\ Completed(items', new.thread, charges[i].turn, charges[i].tokens)
               /\ \A m \in ChargedTo(f) : m < i => charges[m].turn < charges[i].turn
    <3>1. i \in 1..Len(charges) /\ charges'[i] = charges[i] /\ charges[i] \in Charge
      BY <1>12, <1>13
    <3>2. charges[i].turn \in Nat
      BY <3>1 DEF Charge
    <3>3. charges[i].turn <= old.turns
      BY <1>1 DEF ChargesOK
    <3>4. old.budget > 0 => Spent(charges, f)[i-1] < old.budget
      BY <1>1 DEF ChargesOK
    <3>5. Spent(charges', f)[i-1] = Spent(charges, f)[i-1]
      <4>1. i - 1 \in 0..Len(charges)
        BY <1>14, <3>1
      <4> QED BY <1>15, <4>1
    <3>6. Completed(items, old.thread, charges[i].turn, charges[i].tokens)
      BY <1>1 DEF ChargesOK
    <3>7. \A m \in ChargedTo(f) : m < i => charges[m].turn < charges[i].turn
      BY <1>1 DEF ChargesOK
    <3>8. charges[i].turn < turn.number
      BY <1>2, <1>3, <3>2, <3>3
    <3> QED BY <1>1, <1>11, <1>16, <3>1, <3>2, <3>4, <3>5, <3>6, <3>7, <3>8
  <2>6. /\ charges'[n].turn = turn.number /\ charges'[n].tokens = k
        /\ new.budget > 0 => Spent(charges', f)[n-1] < new.budget
    <3>1. n - 1 = Len(charges) /\ Len(charges) \in 0..Len(charges)
      BY <1>14
    <3>2. Spent(charges', f)[n-1] = old.used
      BY <1>1, <1>15, <3>1 DEF ChargesOK
    <3>3. old.budget > 0 => old.used < old.budget
      BY <1>1, <1>3 DEF TokensOut
    <3> QED BY <1>6, <1>11, <1>13, <3>2, <3>3
  <2>7. \A i \in ChargedTo(f) : i < n /\ ~(n < i) /\ ~(n <= i)
    BY <1>13, <1>14
  <2>8. ASSUME NEW i \in ChargedTo(f)'
        PROVE  /\ charges'[i].turn <= new.turns
               /\ new.budget > 0 => Spent(charges', f)[i-1] < new.budget
               /\ Completed(items', new.thread, charges'[i].turn, charges'[i].tokens)
               /\ \A m \in ChargedTo(f)' : m < i => charges'[m].turn < charges'[i].turn
               /\ (\A m \in ChargedTo(f)' : m <= i) => new.turns = charges'[i].turn
    <3>1. CASE i = n
      <4>1. turn.number <= turn.number /\ ~(n < n)
        BY <1>2, <1>14
      <4>2. Completed(items', new.thread, charges'[n].turn, charges'[n].tokens)
        BY <1>4, <1>11, <2>6
      <4>3. \A m \in ChargedTo(f)' : m < n => charges'[m].turn < turn.number
        BY <1>13, <2>5, <4>1
      <4> QED BY <1>11, <2>6, <3>1, <4>1, <4>2, <4>3
    <3>2. CASE i \in ChargedTo(f)
      <4>1. charges'[i].turn <= turn.number
        BY <1>2, <2>5, <3>2
      <4>2. \A m \in ChargedTo(f)' : m < i => m \in ChargedTo(f)
        BY <1>13, <2>7, <3>2
      <4>3. n \in ChargedTo(f)' /\ ~(n <= i)
        BY <1>13, <2>7, <3>2
      <4>4. \A m \in ChargedTo(f)' : m < i => charges'[m].turn < charges'[i].turn
        BY <2>5, <3>2, <4>2
      <4> QED BY <1>11, <2>5, <3>2, <4>1, <4>3, <4>4
    <3> QED BY <1>13, <3>1, <3>2
  <2> QED BY <1>10, <1>13, <2>1, <2>2, <2>3, <2>4, <2>8 DEF ChargesOK
<1>18. ASSUME NEW g \in FrameIds, g # f, frames[g] # NotStarted
       PROVE  ChargesOK(g)'
  <2>1. ChargesOK(g) /\ frames'[g] = frames[g] /\ ChargedTo(g)' = ChargedTo(g)
    BY <1>10, <1>13, <1>18 DEF AccountInv, AccountsOK
  <2>2. /\ Spent(charges', g)[n] = Spent(charges, g)[Len(charges)]
        /\ \A i \in ChargedTo(g) : /\ i \in 1..Len(charges) /\ charges'[i] = charges[i]
                                    /\ Spent(charges', g)[i-1] = Spent(charges, g)[i-1]
    <3>1. \A i \in 1..Len(charges) : i - 1 \in 0..Len(charges)
      BY <1>14
    <3>2. Tokens(charge, g) = 0
      BY <1>6, <1>18 DEF Tokens
    <3>3. Spent(charges, g)[Len(charges)] \in Nat
      BY <1>12, <1>14, SpentType
    <3> QED BY <1>13, <1>15, <3>1, <3>2, <3>3
  <2>3. g \in runs' => g \in runs
    BY <1>5, <1>18
  <2>4. frames[g].thread # "none" =>
          frames[g].thread \in live' /\ frames[g].turns <= turns'[frames[g].thread]
    <3> SUFFICES ASSUME frames[g].thread # "none"
                 PROVE  /\ frames[g].thread \in live'
                        /\ frames[g].turns <= turns'[frames[g].thread]
      OBVIOUS
    <3> DEFINE t == frames[g].thread
    <3>1. t \in live /\ t \in live' /\ turns[t] <= turns'[t] /\ frames[g].turns <= turns[t]
      BY <1>4, <2>1 DEF ChargesOK, ThreadsGrow
    <3>2. turns[t] \in Nat /\ turns'[t] \in Nat /\ frames[g].turns \in Nat
      BY <1>1, <1>18, <3>1, StartedIsFrame DEF ConversationInv, ConversationTypeOK
    <3> QED BY <3>1, <3>2
  <2>5. frames[g].used = Spent(charges', g)[Len(charges')]
    BY <1>13, <2>1, <2>2 DEF ChargesOK
  <2>6. \A i \in ChargedTo(g) :
          /\ charges'[i].turn <= frames[g].turns
          /\ frames[g].budget > 0 => Spent(charges', g)[i-1] < frames[g].budget
          /\ Completed(items', frames[g].thread, charges'[i].turn, charges'[i].tokens)
          /\ \A m \in ChargedTo(g) : m < i => charges'[m].turn < charges'[i].turn
          /\ (\A m \in ChargedTo(g) : m <= i) => frames[g].turns = charges'[i].turn
    BY <1>16, <2>1, <2>2 DEF ChargesOK
  <2> QED BY <2>1, <2>3, <2>4, <2>5, <2>6 DEF ChargesOK
<1>19. ASSUME NEW g \in FrameIds, g # f, frames[g] = NotStarted
       PROVE  frames'[g] = NotStarted /\ ChargedTo(g)' = {} /\ g \notin runs'
  BY <1>5, <1>10, <1>13, <1>19 DEF AccountInv, AccountsOK
<1>20. AccountsOK'
  BY <1>10, <1>11, <1>17, <1>18, <1>19 DEF AccountsOK
<1> QED BY <1>10, <1>13, <1>20 DEF FramesTyped

-----------------------------------------------------------------------------
(* AccountInv, step by step.  FrameInv and ConversationInv are kept anyway,  *)
(* what is left is the rest of it.                                           *)

AccountRest == FramesTyped /\ RequestOK /\ AccountsOK

\* The turn in progress stays what it is and so do the frames.
LEMMA ThreadStepAccounts ==
  ASSUME AccountInv, ConversationInv', ThreadStep, UNCHANGED frameVars
  PROVE  AccountRest'
<1>1. UNCHANGED <<frames, request, charges, runs>>
  BY DEF frameVars
<1>2. ThreadsGrow
  BY ThreadStepGrows DEF AccountInv
<1>3. FramesTyped' /\ AccountsOK'
  BY <1>1, <1>2, AccountsKept DEF AccountInv, FramesTyped
<1>4. RequestOK'
  <2> SUFFICES ASSUME request # NoRequest PROVE RequestOK'
    BY <1>1 DEF RequestOK
  <2>1. turn # Quiet
    BY DEF AccountInv, RequestOK
  <2>2. Within
    BY <2>1 DEF ThreadStep, Within, StartThread, BeginTurn, RefuseMessage, Fork
  <2>3. turn' # Quiet
    BY <2>2, WithinTurn DEF AccountInv, FrameInv
  <2>4. turn \in Turn
    BY <2>1 DEF AccountInv, ConversationInv, ConversationTypeOK
  <2>5. turn'.thread = turn.thread
    <3>1. CASE RunTool
      BY <2>4, <3>1 DEF RunTool, Turn
    <3>2. CASE RecordCall
      BY <2>4, <3>2 DEF RecordCall, Turn
    <3>3. CASE \E n \in 1..MaxCalls : AnswerCalls(n)
      BY <2>4, <3>3 DEF AnswerCalls, Turn
    <3> QED BY <2>2, <3>1, <3>2, <3>3 DEF Within
  <2> QED BY <1>1, <2>3, <2>5 DEF AccountInv, RequestOK
<1> QED BY <1>3, <1>4 DEF AccountRest

LEMMA NoRequestIsNone ==
  ASSUME NEW f, NEW agent
  PROVE  [frame |-> f, agent |-> agent] # NoRequest
<1>1. /\ DOMAIN [frame |-> f, agent |-> agent] = {"frame", "agent"}
      /\ DOMAIN NoRequest = {"frame"}
  BY DEF NoRequest
<1> QED BY <1>1

LEMMA StartAccounts ==
  ASSUME AccountInv, ConversationInv', NEW f \in FrameIds,
         NEW max \in 0..MaxTurns, NEW budget \in TokenBudgets,
         \/ \E t \in Threads : StartFrame(f, t, max, budget)
         \/ StartFrameTorn(f, max, budget)
  PROVE  AccountRest'
<1>1. max \in Nat /\ budget \in Nat
  BY FramesAssumption
<1>2. /\ UNCHANGED <<items, turns, turn, request, charges, runs>> /\ live \subseteq live'
      /\ turn = Quiet /\ frames[f] = NotStarted
  BY DEF StartFrame, StartThread, StartFrameTorn, conversationVars
<1>3. ThreadsGrow
  BY <1>2, NothingGrows DEF AccountInv
<1>4. PICK u \in Threads \cup {"none"} :
        /\ u # "none" => u \in live'
        /\ frames' = [frames EXCEPT ![f] = NewFrame(u, max, budget)]
  BY DEF StartFrame, StartThread, StartFrameTorn
<1>5. AccountsOK' /\ FramesTyped'
  BY <1>1, <1>2, <1>3, <1>4, NewAccount DEF AccountInv
<1>6. request = NoRequest
  BY <1>2 DEF AccountInv, FrameInv
<1> QED BY <1>2, <1>5, <1>6 DEF AccountRest, RequestOK

\* An agent's first turn runs within its frame's budgets: there is at least one
\* turn in the budget, and nothing is used yet.
LEMMA AgentRunAccounts ==
  ASSUME AccountInv, ConversationInv', NEW f \in FrameIds, NEW t \in Threads,
         NEW agentTurns \in 0..MaxTurns, NEW budget \in TokenBudgets,
         AgentRun(f, t, agentTurns, budget)
  PROVE  AccountRest'
<1> DEFINE max == EffectiveTurns(agentTurns)
<1>1. max \in Nat /\ 0 < max /\ budget \in Nat
  BY FramesAssumption DEF EffectiveTurns, AGENT_TURNS, Min2
<1> HIDE DEF max
<1>2. /\ UNCHANGED <<turns, charges, runs>> /\ live' = live \cup {t}
      /\ frames[f] = NotStarted /\ frames' = [frames EXCEPT ![f] = NewFrame(t, max, budget)]
      /\ turn' = AskedTurn(t, 1) /\ request' = [frame |-> f, agent |-> TRUE]
  BY DEF AgentRun, max
<1>3. PICK item \in Item : /\ item.thread = t /\ item.mention = 0
                           /\ items' = Added(items, item)
  BY AgentRunAsks DEF AccountInv
<1>4. item.mention <= Len(items)
  BY <1>3, Typed DEF AccountInv, ConversationInv
<1>5. ThreadsGrow
  BY <1>2, <1>3, <1>4, BeginGrows DEF AccountInv
<1>6. AccountsOK' /\ FramesTyped'
  BY <1>1, <1>2, <1>5, NewAccount DEF AccountInv
<1>7. RequestOK'
  <2>1. frames'[f] = NewFrame(t, max, budget)
    BY <1>2 DEF AccountInv, FramesTyped
  <2>2. /\ frames'[f].thread = t /\ frames'[f].turns = 0 /\ frames'[f].max = max
        /\ frames'[f].used = 0 /\ frames'[f].budget = budget
        /\ frames'[f].status = "open"
    BY <2>1 DEF NewFrame
  <2>3. frames'[f] # NotStarted
    BY <2>2 DEF NotStarted
  <2>4. turn' # Quiet /\ turn'.thread = t
    BY <1>2, AskedIsTurn, TurnIsNotQuiet DEF AskedTurn
  <2>5. ~TokensOut(frames'[f])
    BY <1>1, <2>2 DEF TokensOut
  <2>6. t # "none"
    BY FramesAssumption
  <2>7. request'.frame = f
    BY <1>2
  <2> QED BY <1>1, <2>2, <2>3, <2>4, <2>5, <2>6, <2>7 DEF RequestOK
<1> QED BY <1>6, <1>7 DEF AccountRest

LEMMA FrameTurnAccounts ==
  ASSUME AccountInv, ConversationInv', NEW f \in FrameIds, FrameTurn(f)
  PROVE  AccountRest'
<1>1. /\ MayRun(f) /\ BeginTurn(frames[f].thread, 0) /\ UNCHANGED <<frames, charges, runs>>
      /\ request' = [frame |-> f, agent |-> FALSE]
  BY DEF FrameTurn
<1>2. frames[f].thread \in Threads /\ frames[f] # NotStarted
  BY <1>1, FrameThread DEF AccountInv
<1>3. 0 \in Mentionable
  BY DEF Mentionable
<1>4. ThreadsGrow
  BY <1>1, <1>2, <1>3, BeginThreadGrows DEF AccountInv
<1>5. FramesTyped' /\ AccountsOK'
  BY <1>1, <1>4, AccountsKept DEF AccountInv, FramesTyped
<1>6. turn' # Quiet /\ turn'.thread = frames[f].thread
  BY <1>1, AskedIsTurn, TurnIsNotQuiet DEF BeginTurn, AskedTurn
<1>7. frames[f].turns < frames[f].max /\ ~TokensOut(frames[f]) /\ frames[f].thread # "none"
  <2>1. ~TurnsOut(frames[f]) /\ ~TokensOut(frames[f]) /\ frames[f].thread # "none"
    BY <1>1 DEF MayRun, OutcomeBefore
  <2> QED BY <1>2, <2>1, StartedIsFrame DEF AccountInv, TurnsOut
<1>8. RequestOK'
  <2>1. request'.frame = f /\ frames' = frames
    BY <1>1
  <2> QED BY <1>2, <1>6, <1>7, <2>1 DEF RequestOK
<1> QED BY <1>5, <1>8 DEF AccountRest

LEMMA CloseAccounts ==
  ASSUME AccountInv, ConversationInv', NEW f \in FrameIds,
         RefuseExhausted(f) \/ \E outcome \in {"completed", "aborted"} : CloseFrame(f, outcome)
  PROVE  AccountRest'
<1>1. PICK outcome \in Outcomes : frames' = ClosedAs(f, outcome)
  BY DEF RefuseExhausted, CloseFrame, OutcomeBefore, Outcomes
<1>2. UNCHANGED <<items, turns, live, turn, request, charges, runs>> /\ turn = Quiet
  BY DEF RefuseExhausted, CloseFrame, conversationVars
<1>3. ThreadsGrow
  BY <1>2, NothingGrows DEF AccountInv
<1>4. AccountsOK' /\ FramesTyped'
  BY <1>1, <1>2, <1>3, CloseAccount DEF AccountInv
<1>5. request = NoRequest
  BY <1>2 DEF AccountInv, FrameInv
<1> QED BY <1>2, <1>4, <1>5 DEF AccountRest, RequestOK

\* However a turn ends, its frame's accounts are in order.
LEMMA EndAccounts ==
  ASSUME AccountInv, ConversationInv', (\E model \in ModelNames : FinishTurn(model)) \/ EndTurn
  PROVE  AccountRest'
<1>1. request' = NoRequest
  BY DEF FinishTurn, EndTurn
<1>2. RequestOK'
  BY <1>1 DEF RequestOK
<1>3. ASSUME ThreadsGrow, UNCHANGED <<frames, charges, runs>>
      PROVE  FramesTyped' /\ AccountsOK'
  BY <1>3, AccountsKept DEF AccountInv, FramesTyped
<1>4. ASSUME NEW model \in ModelNames, FinishTurn(model)
      PROVE  FramesTyped' /\ AccountsOK'
  <2>1. AnswerText(model)
    BY <1>4 DEF FinishTurn
  <2>2. CASE request = NoRequest \/ model = "unnamed"
    <3>1. UNCHANGED <<frames, charges, runs>>
      BY <1>4, <2>2 DEF FinishTurn
    <3> QED BY <1>3, <2>1, <3>1, AnswerGrows DEF AccountInv
  <2>3. CASE request # NoRequest /\ model # "unnamed"
    <3>1. model = "named"
      BY <2>3, ConversationAssumption
    <3>2. PICK f : f = request.frame
      OBVIOUS
    <3>3. Account(f)
      BY <1>4, <2>3, <3>2 DEF FinishTurn
    <3> QED BY <2>1, <2>3, <3>1, <3>2, <3>3, ChargeAccount
  <2> QED BY <2>2, <2>3
<1>5. ASSUME EndTurn PROVE FramesTyped' /\ AccountsOK'
  <2>1. UNCHANGED <<items, turns, live, frames, charges, runs>>
    BY <1>5 DEF EndTurn, ProviderFails, Disconnect
  <2> QED BY <1>3, <2>1, NothingGrows DEF AccountInv
<1> QED BY <1>2, <1>4, <1>5 DEF AccountRest

LEMMA AccountInvNext ==
  ASSUME AccountInv, [FramesNext]_allVars
  PROVE  AccountInv'
<1>1. ConversationInv' /\ FrameInv'
  BY ConversationInvFrames, FrameInvNext DEF AccountInv
<1>2. CASE UNCHANGED allVars
  <2>1. UNCHANGED <<items, turns, live, turn, frames, request, charges, runs>>
    BY <1>2 DEF allVars, conversationVars, frameVars
  <2>2. FramesTyped' /\ AccountsOK'
    BY <1>1, <2>1, NothingGrows, AccountsKept DEF AccountInv, FramesTyped
  <2>3. RequestOK'
    BY <2>1 DEF AccountInv, RequestOK
  <2> QED BY <1>1, <2>2, <2>3 DEF AccountInv
<1>3. ASSUME NEW f \in FrameIds, FrameStep(f) PROVE AccountRest'
  <2>1. ASSUME NEW max \in 0..MaxTurns, NEW budget \in TokenBudgets,
               \/ \E t \in Threads : StartFrame(f, t, max, budget) \/ AgentRun(f, t, max, budget)
               \/ StartFrameTorn(f, max, budget)
        PROVE  AccountRest'
    BY <1>1, <2>1, StartAccounts, AgentRunAccounts
  <2> QED BY <1>1, <1>3, <2>1, FrameTurnAccounts, CloseAccounts DEF FrameStep
<1>4. CASE ThreadStep /\ UNCHANGED frameVars
  BY <1>1, <1>4, ThreadStepAccounts DEF AccountInv, AccountRest
<1>5. CASE FramesNext
  BY <1>1, <1>3, <1>4, <1>5, EndAccounts DEF FramesNext, AccountInv, AccountRest
<1> QED BY <1>2, <1>5

LEMMA AccountInvInit == FramesInit => AccountInv
<1> SUFFICES ASSUME FramesInit PROVE AccountInv
  OBVIOUS
<1>1. ConversationInv
  BY ConversationInvInit DEF FramesInit
<1>2. FrameInv
  BY DEF FramesInit, ConversationInit, FrameInv, TurnInv
<1>3. FramesTyped
  BY DEF FramesInit, FramesTyped
<1>4. RequestOK
  BY DEF FramesInit, RequestOK
<1>5. AccountsOK
  BY DEF FramesInit, AccountsOK, ChargedTo
<1> QED BY <1>1, <1>2, <1>3, <1>4, <1>5 DEF AccountInv

LEMMA InvBudgets == AccountInv => BudgetsHold
BY DEF AccountInv, AccountsOK, ChargesOK, BudgetsHold

LEMMA InvBacked == AccountInv => UsageBacked
BY DEF AccountInv, AccountsOK, ChargesOK, UsageBacked

\* AccountInv is an invariant, for any frames, budgets, failures and whatever
\* clients write to the frames' threads.
THEOREM AccountsInOrder == FramesSpec => []AccountInv
BY AccountInvInit, AccountInvNext, PTL DEF FramesSpec

LEMMA RequestTyped ==
  ASSUME AccountInv, request \in Request \cup {NoRequest}, runs \subseteq FrameIds,
         [FramesNext]_allVars
  PROVE  request' \in Request \cup {NoRequest} /\ runs' \subseteq FrameIds
<1>1. ASSUME UNCHANGED frameVars \/ UNCHANGED <<request, runs>>
      PROVE  request' \in Request \cup {NoRequest} /\ runs' \subseteq FrameIds
  BY <1>1 DEF frameVars
<1>2. ASSUME NEW f \in FrameIds, FrameStep(f)
      PROVE  request' \in Request \cup {NoRequest} /\ runs' \subseteq FrameIds
  <2>1. /\ UNCHANGED runs
        /\ \/ UNCHANGED request
           \/ \E agent \in BOOLEAN : request' = [frame |-> f, agent |-> agent]
    BY <1>2 DEF FrameStep, StartFrame, StartFrameTorn, AgentRun, FrameTurn, RefuseExhausted,
                CloseFrame
  <2> QED BY <2>1 DEF Request
<1>3. ASSUME NEW model \in ModelNames, FinishTurn(model)
      PROVE  request' \in Request \cup {NoRequest} /\ runs' \subseteq FrameIds
  <2>1. /\ request' = NoRequest
        /\ runs' = runs \/ (request # NoRequest /\ runs' = RunsAfter(request.frame))
    <3>1. CASE request = NoRequest \/ model = "unnamed"
      BY <1>3, <3>1 DEF FinishTurn
    <3>2. CASE ~(request = NoRequest \/ model = "unnamed")
      <4>1. Account(request.frame) /\ request' = NoRequest
        BY <1>3, <3>2 DEF FinishTurn
      <4> QED BY <3>2, <4>1 DEF Account
    <3> QED BY <3>1, <3>2
  <2>2. request # NoRequest => request.frame \in FrameIds
    BY DEF AccountInv, FrameInv
  <2> QED BY <2>1, <2>2 DEF RunsAfter
<1>4. EndTurn => request' = NoRequest /\ UNCHANGED runs
  BY DEF EndTurn
<1>5. CASE UNCHANGED allVars
  BY <1>1, <1>5 DEF allVars
<1>6. CASE FramesNext
  BY <1>1, <1>2, <1>3, <1>4, <1>6 DEF FramesNext
<1> QED BY <1>5, <1>6

\* Every variable has its type, the conversation's ones included.
THEOREM FramesTypeCorrect == FramesSpec => []FramesTypeOK
<1> DEFINE Inv == /\ AccountInv /\ request \in Request \cup {NoRequest}
                  /\ runs \subseteq FrameIds
<1>1. FramesInit => Inv
  BY AccountInvInit DEF FramesInit
<1>2. Inv /\ [FramesNext]_allVars => Inv'
  BY AccountInvNext, RequestTyped
<1>3. Inv => FramesTypeOK
  BY DEF AccountInv, ConversationInv, FramesTyped, Charge, FramesTypeOK
<1> QED BY <1>1, <1>2, <1>3, PTL DEF FramesSpec

\* run_frame_turn: a frame is never charged for more turns than it was given,
\* and a token budget is overrun by one turn at most.
THEOREM BudgetsAlwaysHold == FramesSpec => []BudgetsHold
BY AccountsInOrder, InvBudgets, PTL

\* What a frame used is what its charges say, and every charge is for a turn of
\* its thread that is completed in the log with these tokens, none charged twice.
THEOREM UsageAlwaysBacked == FramesSpec => []UsageBacked
BY AccountsInOrder, InvBacked, PTL

\* A frame's thread is a thread as any other: what holds of conversations holds
\* of those that frames and agents hold.
THEOREM FramesKeepThreadsSound ==
  FramesSpec => [](TurnsConsecutive /\ TurnsAnswered /\ PromptIsLast /\ HistoryInOrder)
<1>1. AccountInv => TurnsConsecutive /\ TurnsAnswered /\ PromptIsLast /\ HistoryInOrder
  BY InvConsecutive, InvAnswered, InvPrompt, InvInOrder DEF AccountInv
<1> QED BY <1>1, AccountsInOrder, PTL
================================================================================
