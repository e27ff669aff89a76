---------------------------- MODULE StreamingProofs ----------------------------
(***************************************************************************)
(* The streamed turn implements the answer stream, for any number of       *)
(* requests, any bounds of the channels, any providers and any clients.    *)
(***************************************************************************)
EXTENDS Streaming, TLAPS

Stages == {"new", "opened", "queued", "ended"} \cup Active
Hands == {Waiting, Stopped} \cup {Holding(f) : f \in Frame}

Typed ==
  /\ stage \in [Requests -> Stages]
  /\ verdict \in [Requests -> {"none", "done", "error"}]
  /\ said \in [Requests -> Nat]
  /\ deltas \in [Requests -> Seq(Nat)]
  /\ forward \in [Requests -> Hands]
  /\ frames \in [Requests -> Seq(Frame)]
  /\ there \in [Requests -> BOOLEAN]
  /\ seen \in [Requests -> Seq(Frame)]

\* The k-th frame of the answer, as far as the turn has got.
FrameAt(r, k) == IF k <= said[r] THEN Delta(k) ELSE Terminal(verdict[r])

\* How many frames the forwarder has passed on.
Passed(r) == Len(seen[r]) + Len(frames[r])

\* The channel holds the deltas behind the n-th, up to the last that was sent.
Rest(r, n) ==
  /\ said[r] = n + Len(deltas[r])
  /\ \A k \in 1..Len(deltas[r]) : deltas[r][k] = n + k

\* While the client stays, the frames for it are the answer's, from the next it
\* will read to the last delta that was sent: some in its channel, perhaps one
\* in the forwarder's hand, the rest in the channel behind.
InOrder(r) ==
  /\ \A k \in 1..Len(frames[r]) : frames[r][k] = FrameAt(r, Len(seen[r]) + k)
  /\ \/ forward[r] = Waiting /\ Rest(r, Passed(r))
     \/ forward[r] = Holding(Delta(Passed(r) + 1)) /\ Rest(r, Passed(r) + 1)
     \/ /\ forward[r] = Holding(Terminal(verdict[r])) /\ verdict[r] # "none"
        /\ Rest(r, Passed(r)) /\ deltas[r] = << >>
     \/ /\ forward[r] = Stopped /\ verdict[r] # "none"
        /\ Passed(r) = said[r] + 1

DeliveryInv(r) ==
  /\ verdict[r] = "none" <=> stage[r] # "ended"
  /\ there[r] => InOrder(r)

StreamInv == Typed /\ \A r \in Requests : DeliveryInv(r)

\* A step of the answer stream of r, or none.
AnswerStep(r) == Answer(r)!Next \/ UNCHANGED Answer(r)!answerVars

Mine(r) == <<stage[r], verdict[r], said[r], deltas[r], forward[r], frames[r],
             there[r], seen[r]>>

LEMMA Lengths ==
  ASSUME Typed, NEW r \in Requests
  PROVE  /\ Len(seen[r]) \in Nat /\ Len(frames[r]) \in Nat /\ Len(deltas[r]) \in Nat
         /\ said[r] \in Nat /\ Passed(r) \in Nat
         /\ Passed(r) = Len(seen[r]) + Len(frames[r])
         /\ \A k \in 1..Len(frames[r]) :
              k \in Nat /\ Len(seen[r]) + k <= Passed(r) /\ Len(seen[r]) + k \in Nat
BY DEF Typed, Passed

\* A frame that moves from one count to the other leaves their sum.
LEMMA Sums ==
  ASSUME NEW a \in Nat, NEW b \in Nat
  PROVE  /\ a + (b + 1) = (a + b) + 1
         /\ a + (b + 1) = (a + 1) + b
         /\ b # 0 => (a + 1) + (b - 1) = a + b
OBVIOUS

LEMMA MineKept ==
  ASSUME NEW r \in Requests, DeliveryInv(r), Mine(r)' = Mine(r)
  PROVE  DeliveryInv(r)' /\ AnswerStep(r)
<1>1. /\ stage'[r] = stage[r] /\ verdict'[r] = verdict[r] /\ said'[r] = said[r]
      /\ deltas'[r] = deltas[r] /\ forward'[r] = forward[r] /\ frames'[r] = frames[r]
      /\ there'[r] = there[r] /\ seen'[r] = seen[r]
  BY DEF Mine
<1>2. Passed(r)' = Passed(r) /\ \A n : Rest(r, n)' <=> Rest(r, n)
  BY <1>1 DEF Passed, Rest
<1>3. \A k : FrameAt(r, k)' = FrameAt(r, k)
  BY <1>1 DEF FrameAt
<1>4. InOrder(r) => InOrder(r)'
  BY <1>1, <1>2, <1>3 DEF InOrder
<1>5. AnswerStep(r)
  BY <1>1 DEF AnswerStep, Answer!answerVars
<1> QED BY <1>1, <1>4, <1>5 DEF DeliveryInv

LEMMA StreamInvInit == StreamInit => StreamInv /\ \A r \in Requests : Answer(r)!Init
BY DEF StreamInit, StreamInv, Typed, Stages, Hands, DeliveryInv, InOrder, Passed, Rest,
       Waiting, Answer!Init

-----------------------------------------------------------------------------
(* The turn.                                                                *)

\* Steps between the begin and the end of turns, and of the provider, are
\* nothing to the client.
LEMMA TurnGoesOn ==
  ASSUME StreamInv, UNCHANGED <<verdict, said, deltas, deliveryVars>>,
         stage' \in [Requests -> Stages],
         \A r \in Requests : stage'[r] = "ended" <=> stage[r] = "ended"
  PROVE  StreamInv' /\ \A r \in Requests : AnswerStep(r)
<1>1. Typed'
  BY DEF StreamInv, Typed, deliveryVars
<1>2. ASSUME NEW r \in Requests
      PROVE  DeliveryInv(r)' /\ AnswerStep(r)
  <2>1. InOrder(r) => InOrder(r)'
    BY DEF InOrder, Passed, Rest, FrameAt, deliveryVars
  <2>2. AnswerStep(r)
    BY DEF AnswerStep, Answer!answerVars, deliveryVars
  <2> QED BY <2>1, <2>2 DEF StreamInv, DeliveryInv, deliveryVars
<1> QED BY <1>1, <1>2 DEF StreamInv

LEMMA TurnEnds ==
  ASSUME StreamInv, NEW r \in Requests, NEW v \in {"done", "error"}, stage[r] # "ended",
         EndTurn(r, v), UNCHANGED <<said, deltas, deliveryVars>>
  PROVE  StreamInv' /\ \A q \in Requests : AnswerStep(q)
<1>1. /\ stage' = [stage EXCEPT ![r] = "ended"] /\ verdict' = [verdict EXCEPT ![r] = v]
      /\ UNCHANGED <<said, deltas, forward, frames, there, seen>>
  BY DEF EndTurn, deliveryVars
<1>2. Typed'
  BY <1>1 DEF StreamInv, Typed, Stages
<1>3. verdict[r] = "none" /\ verdict'[r] = v /\ stage'[r] = "ended"
  BY <1>1 DEF StreamInv, Typed, DeliveryInv
<1>4. InOrder(r) => InOrder(r)'
  <2> SUFFICES ASSUME InOrder(r) PROVE InOrder(r)'
    OBVIOUS
  <2>1. \/ forward[r] = Waiting /\ Rest(r, Passed(r))
        \/ forward[r] = Holding(Delta(Passed(r) + 1)) /\ Rest(r, Passed(r) + 1)
    BY <1>3 DEF InOrder
  <2>2. /\ Passed(r)' = Passed(r) /\ \A n : Rest(r, n)' <=> Rest(r, n)
        /\ Passed(r) \in Nat /\ said[r] \in Nat /\ Len(deltas[r]) \in Nat
        /\ Len(seen[r]) \in Nat /\ Len(frames[r]) \in Nat
    BY <1>1 DEF Passed, Rest, StreamInv, Typed
  <2>3. Passed(r) <= said[r]
    BY <2>1, <2>2 DEF Rest
  <2>4. ASSUME NEW k \in 1..Len(frames[r])
        PROVE  FrameAt(r, Len(seen[r]) + k)' = FrameAt(r, Len(seen[r]) + k)
    <3>1. Len(seen[r]) + k <= said[r]
      <4>1. /\ said[r] \in Nat /\ Passed(r) \in Nat
            /\ Len(seen[r]) + k \in Nat /\ Len(seen[r]) + k <= Passed(r)
        BY Lengths DEF StreamInv
      <4> QED BY <2>3, <4>1
    <3> QED BY <1>1, <3>1 DEF FrameAt
  <2>5. \A k \in 1..Len(frames[r]) : frames'[r][k] = FrameAt(r, Len(seen[r]) + k)'
    BY <1>1, <2>4 DEF InOrder
  <2> QED BY <1>1, <2>1, <2>2, <2>5 DEF InOrder
<1>5. DeliveryInv(r)'
  BY <1>1, <1>3, <1>4 DEF StreamInv, DeliveryInv
<1>6. AnswerStep(r)
  BY <1>1, <1>3 DEF AnswerStep, Answer!Next, Answer!Conclude
<1>7. ASSUME NEW q \in Requests, q # r
      PROVE  DeliveryInv(q)' /\ AnswerStep(q)
  <2>1. Mine(q)' = Mine(q)
    BY <1>1, <1>7 DEF Mine, StreamInv, Typed
  <2> QED BY <2>1, MineKept DEF StreamInv
<1> QED BY <1>2, <1>5, <1>6, <1>7 DEF StreamInv

LEMMA DeltaSent ==
  ASSUME StreamInv, NEW r \in Requests, SendDelta(r)
  PROVE  StreamInv' /\ \A q \in Requests : AnswerStep(q)
<1>1. /\ stage[r] = "sending" /\ stage' = [stage EXCEPT ![r] = "streaming"]
      /\ said' = [said EXCEPT ![r] = @ + 1]
      /\ IF forward[r] = Stopped THEN UNCHANGED deltas
         ELSE deltas' = [deltas EXCEPT ![r] = Append(@, said[r] + 1)]
      /\ UNCHANGED <<verdict, forward, frames, there, seen>>
  BY DEF SendDelta, Unheard, deliveryVars
<1>2. Typed'
  <2>1. stage' \in [Requests -> Stages] /\ said' \in [Requests -> Nat]
    BY <1>1 DEF StreamInv, Typed, Stages, Active
  <2>2. deltas' \in [Requests -> Seq(Nat)]
    <3>1. deltas[r] \in Seq(Nat) /\ said[r] + 1 \in Nat
      BY DEF StreamInv, Typed
    <3>2. Append(deltas[r], said[r] + 1) \in Seq(Nat)
      BY <3>1
    <3> QED BY <1>1, <3>2 DEF StreamInv, Typed
  <2> QED BY <1>1, <2>1, <2>2 DEF StreamInv, Typed
<1>3. verdict[r] = "none" /\ stage'[r] = "streaming" /\ said'[r] = said[r] + 1
  BY <1>1 DEF StreamInv, Typed, DeliveryInv
<1>4. InOrder(r) => InOrder(r)'
  <2> SUFFICES ASSUME InOrder(r) PROVE InOrder(r)'
    OBVIOUS
  <2>1. \/ forward[r] = Waiting /\ Rest(r, Passed(r))
        \/ forward[r] = Holding(Delta(Passed(r) + 1)) /\ Rest(r, Passed(r) + 1)
    BY <1>3 DEF InOrder
  <2>2. /\ Passed(r)' = Passed(r)
        /\ Passed(r) \in Nat /\ said[r] \in Nat /\ Len(deltas[r]) \in Nat
        /\ Len(seen[r]) \in Nat /\ Len(frames[r]) \in Nat /\ deltas[r] \in Seq(Nat)
    BY <1>1 DEF Passed, StreamInv, Typed
  <2>3. Passed(r) <= said[r]
    BY <2>1, <2>2 DEF Rest
  <2>4. ASSUME NEW k \in 1..Len(frames[r])
        PROVE  FrameAt(r, Len(seen[r]) + k)' = FrameAt(r, Len(seen[r]) + k)
    <3>1. Len(seen[r]) + k <= said[r] /\ Len(seen[r]) + k <= said[r] + 1
      <4>1. /\ said[r] \in Nat /\ Passed(r) \in Nat
            /\ Len(seen[r]) + k \in Nat /\ Len(seen[r]) + k <= Passed(r)
        BY Lengths DEF StreamInv
      <4> QED BY <2>3, <4>1
    <3>2. seen'[r] = seen[r]
      BY <1>1
    <3> QED BY <1>3, <3>1, <3>2 DEF FrameAt
  <2>5. \A k \in 1..Len(frames[r]) : frames'[r][k] = FrameAt(r, Len(seen[r]) + k)'
    BY <1>1, <2>4 DEF InOrder
  <2>6. forward[r] # Stopped
    BY <2>1 DEF Waiting, Holding, Stopped
  <2>7. deltas'[r] = Append(deltas[r], said[r] + 1)
    BY <1>1, <2>6 DEF StreamInv, Typed
  <2>8. ASSUME NEW n \in Nat, Rest(r, n)
        PROVE  Rest(r, n)'
    <3>1. Len(deltas'[r]) = Len(deltas[r]) + 1
      BY <2>2, <2>7
    <3>2. ASSUME NEW k \in 1..Len(deltas'[r])
          PROVE  deltas'[r][k] = n + k
      <4>1. CASE k = Len(deltas[r]) + 1
        BY <2>2, <2>7, <2>8, <4>1 DEF Rest
      <4>2. CASE k \in 1..Len(deltas[r])
        BY <2>2, <2>7, <2>8, <4>2 DEF Rest
      <4> QED BY <2>2, <3>1, <4>1, <4>2
    <3>3. said'[r] = n + Len(deltas'[r])
      BY <1>3, <2>2, <2>8, <3>1 DEF Rest
    <3> QED BY <3>2, <3>3 DEF Rest
  <2> QED BY <1>1, <2>1, <2>2, <2>5, <2>8 DEF InOrder
<1>5. DeliveryInv(r)'
  BY <1>1, <1>3, <1>4 DEF StreamInv, DeliveryInv
<1>6. AnswerStep(r)
  BY <1>1, <1>3 DEF AnswerStep, Answer!Next, Answer!Say
<1>7. ASSUME NEW q \in Requests, q # r
      PROVE  DeliveryInv(q)' /\ AnswerStep(q)
  <2>1. Mine(q)' = Mine(q)
    BY <1>1, <1>7 DEF Mine, StreamInv, Typed
  <2> QED BY <2>1, MineKept DEF StreamInv
<1> QED BY <1>2, <1>5, <1>6, <1>7 DEF StreamInv

-----------------------------------------------------------------------------
(* The forwarder and the client.                                            *)

\* The forwarder's hand holds one thing at a time.
LEMMA HandsDiffer ==
  ASSUME NEW f, NEW g, NEW n, NEW v \in {"done", "error"}
  PROVE  /\ Waiting # Stopped /\ Holding(f) # Waiting /\ Holding(f) # Stopped
         /\ Holding(f) = Holding(g) => f = g
         /\ Holding(f).at = "sending" /\ Holding(f).frame = f
         /\ Delta(n) # Terminal(v) /\ Delta(n).event = "delta"
         /\ Terminal(v).event # "delta"
         /\ Waiting.at # "sending" /\ Stopped.at # "sending"
BY DEF Waiting, Stopped, Holding, Delta, Terminal

\* A step of the forwarder or the client of r is nothing to the others.
LEMMA OthersKept ==
  ASSUME StreamInv, NEW r \in Requests, UNCHANGED turnVars,
         \A q \in Requests : q # r =>
           /\ deltas'[q] = deltas[q] /\ forward'[q] = forward[q] /\ frames'[q] = frames[q]
           /\ there'[q] = there[q] /\ seen'[q] = seen[q]
  PROVE  \A q \in Requests : q # r => DeliveryInv(q)' /\ AnswerStep(q)
<1> SUFFICES ASSUME NEW q \in Requests, q # r
             PROVE  DeliveryInv(q)' /\ AnswerStep(q)
  OBVIOUS
<1>1. Mine(q)' = Mine(q)
  BY DEF Mine, turnVars
<1> QED BY <1>1, MineKept DEF StreamInv

LEMMA DeltaTaken ==
  ASSUME StreamInv, NEW r \in Requests, TakeDelta(r)
  PROVE  StreamInv' /\ \A q \in Requests : AnswerStep(q)
<1>1. /\ forward[r] = Waiting /\ deltas[r] # << >>
      /\ forward' = [forward EXCEPT ![r] = Holding(Delta(Head(deltas[r])))]
      /\ deltas' = [deltas EXCEPT ![r] = Tail(@)]
      /\ UNCHANGED <<stage, verdict, said, frames, there, seen>> /\ UNCHANGED turnVars
  BY DEF TakeDelta, turnVars
<1>2. deltas[r] \in Seq(Nat) /\ Head(deltas[r]) \in Nat /\ Tail(deltas[r]) \in Seq(Nat)
      /\ Len(Tail(deltas[r])) = Len(deltas[r]) - 1 /\ Len(deltas[r]) \in Nat \ {0}
      /\ Head(deltas[r]) = deltas[r][1]
      /\ \A k \in 1..(Len(deltas[r]) - 1) : Tail(deltas[r])[k] = deltas[r][k + 1]
  BY <1>1 DEF StreamInv, Typed
<1>3. Holding(Delta(Head(deltas[r]))) \in Hands
  BY <1>2 DEF Hands, Frame, Delta
<1>4. Typed'
  BY <1>1, <1>2, <1>3 DEF StreamInv, Typed
<1>5. deltas'[r] = Tail(deltas[r]) /\ forward'[r] = Holding(Delta(Head(deltas[r])))
  BY <1>1 DEF StreamInv, Typed
<1>6. ASSUME InOrder(r)
      PROVE  InOrder(r)'
  <2>1. Rest(r, Passed(r)) /\ Passed(r) \in Nat /\ said[r] \in Nat
    BY <1>1, <1>6, HandsDiffer, Lengths DEF InOrder, StreamInv
  <2>2. Head(deltas[r]) = Passed(r) + 1
    BY <1>2, <2>1 DEF Rest
  <2>3. said[r] = Passed(r) + 1 + Len(Tail(deltas[r]))
    BY <1>2, <2>1 DEF Rest
  <2>4. ASSUME NEW k \in 1..Len(Tail(deltas[r]))
        PROVE  Tail(deltas[r])[k] = Passed(r) + 1 + k
    <3>1. k + 1 \in 1..Len(deltas[r]) /\ k \in 1..(Len(deltas[r]) - 1)
      BY <1>2
    <3>2. Tail(deltas[r])[k] = deltas[r][k + 1]
      BY <1>2, <3>1
    <3>3. deltas[r][k + 1] = Passed(r) + (k + 1)
      BY <2>1, <3>1 DEF Rest
    <3> QED BY <1>2, <2>1, <3>2, <3>3
  <2>5. Passed(r)' = Passed(r) /\ \A k : FrameAt(r, k)' = FrameAt(r, k)
    BY <1>1 DEF Passed, FrameAt
  <2>6. Rest(r, Passed(r) + 1)'
    BY <1>1, <1>5, <2>3, <2>4, <2>5 DEF Rest
  <2> QED BY <1>1, <1>5, <1>6, <2>2, <2>5, <2>6 DEF InOrder
<1>7. DeliveryInv(r)' /\ AnswerStep(r)
  BY <1>1, <1>6 DEF StreamInv, DeliveryInv, AnswerStep, Answer!answerVars
<1>8. \A q \in Requests : q # r => DeliveryInv(q)' /\ AnswerStep(q)
  BY <1>1, OthersKept DEF StreamInv, Typed
<1> QED BY <1>4, <1>7, <1>8 DEF StreamInv

LEMMA ResultTaken ==
  ASSUME StreamInv, NEW r \in Requests, TakeResult(r)
  PROVE  StreamInv' /\ \A q \in Requests : AnswerStep(q)
<1>1. /\ forward[r] = Waiting /\ deltas[r] = << >> /\ stage[r] = "ended"
      /\ forward' = [forward EXCEPT ![r] = Holding(Terminal(verdict[r]))]
      /\ UNCHANGED <<stage, verdict, said, deltas, frames, there, seen>> /\ UNCHANGED turnVars
  BY DEF TakeResult, Concluded, turnVars
<1>2. verdict[r] \in {"done", "error"}
  BY <1>1 DEF StreamInv, Typed, DeliveryInv
<1>3. Holding(Terminal(verdict[r])) \in Hands
  BY <1>2 DEF Hands, Frame, Terminal
<1>4. Typed'
  BY <1>1, <1>3 DEF StreamInv, Typed
<1>5. forward'[r] = Holding(Terminal(verdict[r]))
  BY <1>1 DEF StreamInv, Typed
<1>6. ASSUME InOrder(r)
      PROVE  InOrder(r)'
  <2>1. Rest(r, Passed(r))
    BY <1>1, <1>6, HandsDiffer DEF InOrder
  <2>2. Passed(r)' = Passed(r) /\ \A k : FrameAt(r, k)' = FrameAt(r, k)
    BY <1>1 DEF Passed, FrameAt
  <2>3. Rest(r, Passed(r))'
    BY <1>1, <2>1, <2>2 DEF Rest
  <2> QED BY <1>1, <1>2, <1>5, <1>6, <2>2, <2>3 DEF InOrder
<1>7. DeliveryInv(r)' /\ AnswerStep(r)
  BY <1>1, <1>6 DEF StreamInv, DeliveryInv, AnswerStep, Answer!answerVars
<1>8. \A q \in Requests : q # r => DeliveryInv(q)' /\ AnswerStep(q)
  BY <1>1, OthersKept DEF StreamInv, Typed
<1> QED BY <1>4, <1>7, <1>8 DEF StreamInv

\* What the client has been passed is no more than what was sent, but for the
\* terminal frame of a turn that ended.
LEMMA PassedBounded ==
  ASSUME StreamInv, NEW r \in Requests, InOrder(r)
  PROVE  Passed(r) <= said[r] \/ (verdict[r] # "none" /\ Passed(r) = said[r] + 1)
<1>1. said[r] \in Nat /\ Passed(r) \in Nat /\ Len(deltas[r]) \in Nat
  BY Lengths DEF StreamInv
<1> QED BY <1>1 DEF InOrder, Rest

\* What the forwarder has in its hand is the frame that comes next.
LEMMA HeldIsNext ==
  ASSUME StreamInv, NEW r \in Requests, NEW f \in Frame, InOrder(r), forward[r] = Holding(f)
  PROVE  /\ f = FrameAt(r, Passed(r) + 1)
         /\ f.event = "delta" => Rest(r, Passed(r) + 1)
         /\ f.event # "delta" => verdict[r] # "none" /\ Passed(r) = said[r]
<1>1. said[r] \in Nat /\ Passed(r) \in Nat /\ Len(deltas[r]) \in Nat
  BY Lengths DEF StreamInv
<1>2. CASE forward[r] = Holding(Delta(Passed(r) + 1)) /\ Rest(r, Passed(r) + 1)
  <2>1. f = Delta(Passed(r) + 1) /\ f.event = "delta"
    BY <1>2 DEF Holding, Delta
  <2>2. Passed(r) + 1 <= said[r]
    BY <1>1, <1>2 DEF Rest
  <2> QED BY <1>2, <2>1, <2>2 DEF FrameAt
<1>3. CASE /\ forward[r] = Holding(Terminal(verdict[r])) /\ verdict[r] # "none"
           /\ Rest(r, Passed(r)) /\ deltas[r] = << >>
  <2>1. f = Terminal(verdict[r]) /\ f.event = verdict[r]
    BY <1>3 DEF Holding, Terminal
  <2>2. Passed(r) = said[r] /\ ~(Passed(r) + 1 <= said[r])
    BY <1>1, <1>3 DEF Rest
  <2>3. f.event # "delta"
    BY <2>1 DEF StreamInv, Typed
  <2> QED BY <1>3, <2>1, <2>2, <2>3 DEF FrameAt
<1>4. forward[r] # Waiting /\ forward[r] # Stopped
  BY DEF Holding, Waiting, Stopped
<1> QED BY <1>2, <1>3, <1>4 DEF InOrder

LEMMA FrameForwarded ==
  ASSUME StreamInv, NEW r \in Requests, ForwardFrame(r)
  PROVE  StreamInv' /\ \A q \in Requests : AnswerStep(q)
<1>1. /\ forward[r].at = "sending"
      /\ UNCHANGED <<stage, verdict, said, there, seen>> /\ UNCHANGED turnVars
  BY DEF ForwardFrame, turnVars
<1>2. PICK f \in Frame : forward[r] = Holding(f)
  <2>1. forward[r] \in Hands
    BY DEF StreamInv, Typed
  <2>2. forward[r] # Waiting /\ forward[r] # Stopped
    BY <1>1, HandsDiffer
  <2> QED BY <2>1, <2>2 DEF Hands
<1>3. forward[r].frame = f /\ Waiting \in Hands /\ Stopped \in Hands
  BY <1>2 DEF Holding, Hands
<1>4. AnswerStep(r)
  BY <1>1 DEF AnswerStep, Answer!answerVars
<1>5. CASE ~there[r]
  <2>1. /\ forward' = [forward EXCEPT ![r] = Stopped]
        /\ deltas' = [deltas EXCEPT ![r] = << >>] /\ UNCHANGED frames
    BY <1>5 DEF ForwardFrame
  <2>2. Typed'
    BY <1>1, <1>3, <2>1 DEF StreamInv, Typed
  <2>3. DeliveryInv(r)'
    BY <1>1, <1>5 DEF StreamInv, DeliveryInv
  <2>4. \A q \in Requests : q # r => DeliveryInv(q)' /\ AnswerStep(q)
    BY <1>1, <2>1, OthersKept DEF StreamInv, Typed
  <2> QED BY <1>4, <2>2, <2>3, <2>4 DEF StreamInv
<1>6. CASE there[r]
  <2>1. /\ frames' = [frames EXCEPT ![r] = Append(@, f)]
        /\ forward' = [forward EXCEPT ![r] = IF f.event = "delta" THEN Waiting ELSE Stopped]
        /\ UNCHANGED deltas
    BY <1>3, <1>6 DEF ForwardFrame
  <2>2. Append(frames[r], f) \in Seq(Frame) /\ Len(Append(frames[r], f)) = Len(frames[r]) + 1
    BY <1>2 DEF StreamInv, Typed
  <2>3. Typed'
    BY <1>1, <1>3, <2>1, <2>2 DEF StreamInv, Typed
  <2>4. /\ frames'[r] = Append(frames[r], f)
        /\ forward'[r] = IF f.event = "delta" THEN Waiting ELSE Stopped
    BY <2>1 DEF StreamInv, Typed
  <2>5. InOrder(r)'
    <3>1. InOrder(r) /\ said[r] \in Nat /\ Passed(r) \in Nat
          /\ Len(seen[r]) \in Nat /\ Len(frames[r]) \in Nat /\ frames[r] \in Seq(Frame)
      BY <1>6, Lengths DEF StreamInv, DeliveryInv, Typed
    <3>2. /\ f = FrameAt(r, Passed(r) + 1)
          /\ f.event = "delta" => Rest(r, Passed(r) + 1)
          /\ f.event # "delta" => verdict[r] # "none" /\ Passed(r) = said[r]
      BY <1>2, <3>1, HeldIsNext
    <3>3. Passed(r)' = Passed(r) + 1
      <4>1. Len(seen'[r]) = Len(seen[r]) /\ Len(frames'[r]) = Len(frames[r]) + 1
        BY <1>1, <2>2, <2>4
      <4>2. Len(seen[r]) + (Len(frames[r]) + 1) = (Len(seen[r]) + Len(frames[r])) + 1
        BY <3>1, Sums, Zenon
      <4> QED BY <4>1, <4>2, Zenon DEF Passed
    <3>4. /\ \A k : FrameAt(r, k)' = FrameAt(r, k)
          /\ \A n : Rest(r, n)' <=> Rest(r, n)
      BY <1>1, <2>1 DEF FrameAt, Rest
    <3>5. ASSUME NEW k \in 1..Len(frames'[r])
          PROVE  frames'[r][k] = FrameAt(r, Len(seen[r]) + k)
      <4>1. CASE k \in 1..Len(frames[r])
        <5>1. frames'[r][k] = frames[r][k]
          BY <1>2, <2>4, <3>1, <4>1
        <5> QED BY <3>1, <4>1, <5>1 DEF InOrder
      <4>2. CASE k = Len(frames[r]) + 1
        <5>1. frames'[r][k] = f
          BY <1>2, <2>4, <3>1, <4>2
        <5>2. Len(seen[r]) \in Nat /\ Len(frames[r]) \in Nat
              /\ Passed(r) = Len(seen[r]) + Len(frames[r])
          BY <3>1 DEF Passed
        <5>3. Len(seen[r]) + (Len(frames[r]) + 1) = (Len(seen[r]) + Len(frames[r])) + 1
          BY <5>2, Sums, Zenon
        <5>4. Len(seen[r]) + k = Passed(r) + 1
          BY <4>2, <5>2, <5>3, Zenon
        <5> QED BY <3>2, <5>1, <5>4
      <4> QED BY <2>2, <2>4, <3>1, <4>1, <4>2
    <3>6. \A k \in 1..Len(frames'[r]) : frames'[r][k] = FrameAt(r, Len(seen[r]) + k)'
      BY <1>1, <3>5 DEF FrameAt
    <3>7. CASE f.event = "delta"
      BY <2>4, <3>2, <3>3, <3>4, <3>6, <3>7 DEF InOrder
    <3>8. CASE f.event # "delta"
      BY <1>1, <2>4, <3>2, <3>3, <3>6, <3>8 DEF InOrder
    <3> QED BY <3>7, <3>8
  <2>6. DeliveryInv(r)'
    BY <1>1, <2>5 DEF StreamInv, DeliveryInv
  <2>7. \A q \in Requests : q # r => DeliveryInv(q)' /\ AnswerStep(q)
    BY <1>1, <2>1, OthersKept DEF StreamInv, Typed
  <2> QED BY <1>4, <2>3, <2>6, <2>7 DEF StreamInv
<1>7. there[r] \in BOOLEAN
  BY DEF StreamInv, Typed
<1> QED BY <1>5, <1>6, <1>7

LEMMA FrameRead ==
  ASSUME StreamInv, NEW r \in Requests, Read(r)
  PROVE  StreamInv' /\ \A q \in Requests : AnswerStep(q)
<1>1. /\ there[r] /\ frames[r] # << >>
      /\ seen' = [seen EXCEPT ![r] = Append(@, Head(frames[r]))]
      /\ frames' = [frames EXCEPT ![r] = Tail(@)]
      /\ UNCHANGED <<stage, verdict, said, deltas, forward, there>> /\ UNCHANGED turnVars
  BY DEF Read, turnVars
<1>2. /\ frames[r] \in Seq(Frame) /\ Head(frames[r]) \in Frame /\ Tail(frames[r]) \in Seq(Frame)
      /\ Len(Tail(frames[r])) = Len(frames[r]) - 1 /\ Len(frames[r]) \in Nat \ {0}
      /\ Head(frames[r]) = frames[r][1]
      /\ \A k \in 1..(Len(frames[r]) - 1) : Tail(frames[r])[k] = frames[r][k + 1]
      /\ seen[r] \in Seq(Frame) /\ Len(seen[r]) \in Nat
  BY <1>1 DEF StreamInv, Typed
<1>3. /\ Append(seen[r], Head(frames[r])) \in Seq(Frame)
      /\ Len(Append(seen[r], Head(frames[r]))) = Len(seen[r]) + 1
  BY <1>2
<1>4. Typed'
  BY <1>1, <1>2, <1>3 DEF StreamInv, Typed
<1>5. seen'[r] = Append(seen[r], Head(frames[r])) /\ frames'[r] = Tail(frames[r])
  BY <1>1 DEF StreamInv, Typed
<1>6. InOrder(r) /\ said[r] \in Nat /\ Passed(r) \in Nat
  BY <1>1, Lengths DEF StreamInv, DeliveryInv
<1>7. Len(seen'[r]) = Len(seen[r]) + 1 /\ Len(frames'[r]) = Len(frames[r]) - 1
  BY <1>2, <1>3, <1>5
<1>8. InOrder(r)'
  <2>0. Len(seen[r]) \in Nat /\ Len(frames[r]) \in Nat /\ Len(seen'[r]) \in Nat
    BY <1>2, <1>7
  <2>1. Passed(r)' = Passed(r)
    <3>1. Len(frames[r]) # 0
      BY <1>2
    <3>2. (Len(seen[r]) + 1) + (Len(frames[r]) - 1) = Len(seen[r]) + Len(frames[r])
      BY <2>0, <3>1, Sums, Zenon
    <3> QED BY <1>7, <3>2, Zenon DEF Passed
  <2>2. /\ \A k : FrameAt(r, k)' = FrameAt(r, k)
        /\ \A n : Rest(r, n)' <=> Rest(r, n)
    BY <1>1 DEF FrameAt, Rest
  <2>3. ASSUME NEW k \in 1..Len(frames'[r])
        PROVE  frames'[r][k] = FrameAt(r, Len(seen'[r]) + k)
    <3>1. k \in 1..(Len(frames[r]) - 1) /\ k + 1 \in 1..Len(frames[r])
      BY <1>2, <1>7
    <3>2. frames'[r][k] = frames[r][k + 1]
      BY <1>2, <1>5, <3>1
    <3>3. frames[r][k + 1] = FrameAt(r, Len(seen[r]) + (k + 1))
      BY <1>6, <3>1 DEF InOrder
    <3>4. k \in Nat
      OBVIOUS
    <3>5. Len(seen[r]) + (k + 1) = Len(seen'[r]) + k
      <4>1. Len(seen[r]) + (k + 1) = (Len(seen[r]) + 1) + k
        BY <2>0, <3>4, Sums, Zenon
      <4> QED BY <1>7, <4>1, Zenon
    <3> QED BY <3>2, <3>3, <3>5
  <2> QED BY <1>1, <1>6, <2>1, <2>2, <2>3 DEF InOrder
<1>9. AnswerStep(r)
  <2>1. 1 \in 1..Len(frames[r]) /\ Len(seen[r]) + 1 <= Passed(r)
    BY <1>2 DEF Passed
  <2>2. Head(frames[r]) = FrameAt(r, Len(seen[r]) + 1)
    BY <1>2, <1>6, <2>1 DEF InOrder
  <2>3. CASE Len(seen[r]) + 1 <= said[r]
    <3>1. Head(frames[r]) = Delta(Len(seen[r]) + 1) /\ Len(seen[r]) < said[r]
      BY <1>2, <1>6, <2>2, <2>3 DEF FrameAt
    <3>2. Answer(r)!See
      BY <1>1, <1>5, <3>1 DEF Answer!See, Delta, Answer!Delta
    <3> QED BY <3>2 DEF AnswerStep, Answer!Next
  <2>4. CASE ~(Len(seen[r]) + 1 <= said[r])
    <3>1. Passed(r) <= said[r] \/ (verdict[r] # "none" /\ Passed(r) = said[r] + 1)
      BY <1>6, PassedBounded
    <3>2. verdict[r] # "none" /\ Len(seen[r]) = said[r]
      BY <1>2, <1>6, <2>1, <2>4, <3>1
    <3>3. Head(frames[r]) = Terminal(verdict[r])
      BY <2>2, <2>4 DEF FrameAt
    <3>4. Answer(r)!Hear
      BY <1>1, <1>5, <3>2, <3>3 DEF Answer!Hear, Terminal, Answer!Terminal
    <3> QED BY <3>4 DEF AnswerStep, Answer!Next
  <2> QED BY <2>3, <2>4
<1>10. DeliveryInv(r)'
  BY <1>1, <1>8 DEF StreamInv, DeliveryInv
<1>11. \A q \in Requests : q # r => DeliveryInv(q)' /\ AnswerStep(q)
  BY <1>1, OthersKept DEF StreamInv, Typed
<1> QED BY <1>4, <1>9, <1>10, <1>11 DEF StreamInv

LEMMA ClientLeft ==
  ASSUME StreamInv, NEW r \in Requests, Leave(r)
  PROVE  StreamInv' /\ \A q \in Requests : AnswerStep(q)
<1>1. /\ there' = [there EXCEPT ![r] = FALSE] /\ frames' = [frames EXCEPT ![r] = << >>]
      /\ UNCHANGED <<stage, verdict, said, deltas, forward, seen>> /\ UNCHANGED turnVars
  BY DEF Leave, turnVars
<1>2. Typed'
  BY <1>1 DEF StreamInv, Typed
<1>3. there'[r] = FALSE
  BY <1>1 DEF StreamInv, Typed
<1>4. DeliveryInv(r)'
  BY <1>1, <1>3 DEF StreamInv, DeliveryInv
<1>5. AnswerStep(r)
  BY <1>1, <1>3 DEF AnswerStep, Answer!Next, Answer!Leave
<1>6. \A q \in Requests : q # r => DeliveryInv(q)' /\ AnswerStep(q)
  BY <1>1, OthersKept DEF StreamInv, Typed
<1> QED BY <1>2, <1>4, <1>5, <1>6 DEF StreamInv

-----------------------------------------------------------------------------
(* The steps of one request, and the whole.                                 *)

LEMMA TurnStepped ==
  ASSUME StreamInv, NEW r \in Requests, Open(r) \/ Turn(r) \/ FailTurn(r) \/ RunTools(r)
  PROVE  StreamInv' /\ \A q \in Requests : AnswerStep(q)
<1>1. CASE SendDelta(r)
  BY <1>1, DeltaSent
<1>2. CASE \/ Open(r) \/ Enqueue(r) \/ BeginTurn(r) \/ AskProvider(r)
           \/ ReceiveDelta(r) \/ ReceiveCalls(r) \/ RunTools(r)
           \/ ReceiveClosed(r) /\ ran
  <2>1. PICK s \in Stages : s # "ended" /\ stage[r] # "ended" /\ stage' = [stage EXCEPT ![r] = s]
    BY <1>2 DEF Stages, Active, Open, Enqueue, BeginTurn, AskProvider, ReceiveDelta,
                ReceiveCalls, RunTools, ReceiveClosed, Hears
  <2>2. UNCHANGED <<verdict, said, deltas, deliveryVars>>
    BY <1>2 DEF Open, Enqueue, BeginTurn, AskProvider, ReceiveDelta,
                ReceiveCalls, RunTools, ReceiveClosed
  <2>3. stage' \in [Requests -> Stages]
    BY <2>1 DEF StreamInv, Typed
  <2>4. \A q \in Requests : stage'[q] = "ended" <=> stage[q] = "ended"
    BY <2>1 DEF StreamInv, Typed
  <2> QED BY <2>2, <2>3, <2>4, TurnGoesOn
<1>3. CASE FailTurn(r) \/ ReceiveAnswer(r) \/ (ReceiveClosed(r) /\ ~ran)
  <2>1. PICK v \in {"done", "error"} : EndTurn(r, v)
    BY <1>3 DEF FailTurn, ReceiveAnswer, ReceiveClosed
  <2>2. stage[r] # "ended" /\ UNCHANGED <<said, deltas, deliveryVars>>
    BY <1>3 DEF FailTurn, ReceiveAnswer, ReceiveClosed, Hears
  <2> QED BY <2>1, <2>2, TurnEnds
<1> QED BY <1>1, <1>2, <1>3 DEF Turn

LEMMA ProviderStepped ==
  ASSUME StreamInv, Provider \/ UNCHANGED streamVars
  PROVE  StreamInv' /\ \A q \in Requests : AnswerStep(q)
<1>1. UNCHANGED <<stage, verdict, said, deltas, deliveryVars>>
  BY DEF Provider, Speak, Break, Finish, streamVars, turnVars
<1>2. stage' \in [Requests -> Stages]
  BY <1>1 DEF StreamInv, Typed
<1> QED BY <1>1, <1>2, TurnGoesOn

LEMMA StreamStepped ==
  StreamInv /\ [StreamNext]_streamVars => StreamInv' /\ \A q \in Requests : AnswerStep(q)
<1> SUFFICES ASSUME StreamInv, [StreamNext]_streamVars
             PROVE  StreamInv' /\ \A q \in Requests : AnswerStep(q)
  OBVIOUS
<1>1. CASE Provider \/ UNCHANGED streamVars
  BY <1>1, ProviderStepped
<1>2. ASSUME NEW r \in Requests, Open(r) \/ Turn(r) \/ FailTurn(r) \/ RunTools(r)
      PROVE  StreamInv' /\ \A q \in Requests : AnswerStep(q)
  BY <1>2, TurnStepped
<1>3. ASSUME NEW r \in Requests, Forwarder(r) \/ Read(r) \/ Leave(r)
      PROVE  StreamInv' /\ \A q \in Requests : AnswerStep(q)
  BY <1>3, DeltaTaken, ResultTaken, FrameForwarded, FrameRead, ClientLeft DEF Forwarder
<1> QED BY <1>1, <1>2, <1>3 DEF StreamNext

\* Every streamed request gets its turn's deltas in order and without a gap,
\* then the one frame that says how the turn ended: whatever the bounds of the
\* three channels, the number of requests and of tool rounds, and whoever of
\* provider, turn, forwarder and client is slow or gives up.
THEOREM AnswersDeliveredInOrder == StreamSpec => DeliversAnswerStream
<1>1. StreamInit => StreamInv /\ \A r \in Requests : Answer(r)!Init
  BY StreamInvInit
<1>2. StreamInv /\ [StreamNext]_streamVars => StreamInv'
  BY StreamStepped
<1>3. StreamInv /\ [StreamNext]_streamVars =>
        [\A r \in Requests : Answer(r)!Next \/ UNCHANGED Answer(r)!answerVars]_streamVars
  BY StreamStepped DEF AnswerStep
<1> QED BY <1>1, <1>2, <1>3, PTL DEF StreamSpec, DeliversAnswerStream
=============================================================================
