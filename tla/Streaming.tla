-------------------------------- MODULE Streaming --------------------------------
(***************************************************************************)
(* Streamed turns: POST /threads/{id}/messages/stream of vistalith-server, *)
(* send_user_message_streaming_opts of the engine, and stream_complete of  *)
(* the providers.                                                          *)
(*                                                                         *)
(* Four parties and three bounded channels per request:                    *)
(*                                                                         *)
(*   provider --events--> turn --deltas--> forwarder --frames--> client    *)
(*                                                                         *)
(* The turn runs on a task of its own and holds the store's write lock     *)
(* from its begin to its end.  The lock is fair: the head of the queue has *)
(* it, and everybody else waits.                                           *)
(***************************************************************************)
EXTENDS Naturals, Sequences, FiniteSets

CONSTANTS
  Requests,    \* streamed requests
  EventBound,  \* 16: the channel from the provider
  DeltaBound,  \* 16: the channel to the forwarder
  FrameBound,  \* 32: the channel to the client
  ToolRounds,  \* MAX_TOOL_ROUNDS
  MaxDeltas    \* per request, bound on the deltas of one completion

ASSUME StreamingAssumption ==
  /\ EventBound \in Nat \ {0} /\ DeltaBound \in Nat \ {0} /\ FrameBound \in Nat \ {0}
  /\ ToolRounds \in Nat /\ MaxDeltas \in [Requests -> Nat]

VARIABLES
  stage,    \* where the turn of each request is
  queue,    \* who has the write lock, and who waits for it, in order
  round,    \* the tool rounds of the turn under way
  ran,      \* tool_round_ran, of the completion under way
  producer, \* the provider's task: idle, streaming or finished
  spoken,   \* the deltas of the completion under way
  events,   \* the channel from the provider
  deltas,   \* the channels to the forwarders
  forward,  \* the forwarders: waiting, with a frame in hand, or stopped
  frames,   \* the channels to the clients
  verdict,  \* the result each turn sent when it ended
  there,    \* whether the client is still connected
  said,     \* history: how many deltas each turn has sent
  seen      \* history: the frames each client has read

providerVars == <<producer, spoken, events>>
turnVars == <<stage, queue, round, ran, verdict, said>>
deliveryVars == <<forward, frames, there, seen>>
streamVars == <<turnVars, providerVars, deltas, deliveryVars>>

Delta(n) == [event |-> "delta", n |-> n]
Terminal(v) == [event |-> v, n |-> 0]
Said == [event |-> "delta"]
Finished(calls) == [event |-> "finished", calls |-> calls]

Waiting == [at |-> "waiting"]
Stopped == [at |-> "stopped"]
Holding(frame) == [at |-> "sending", frame |-> frame]

Active == {"asking", "streaming", "sending", "tools"}
Frame == [event : {"delta", "done", "error"}, n : Nat]

StreamTypeOK ==
  /\ stage \in [Requests -> {"new", "opened", "queued", "ended"} \cup Active]
  /\ queue \in Seq(Requests)
  /\ round \in 0..ToolRounds /\ ran \in BOOLEAN
  /\ producer \in {"idle", "streaming", "finished"} /\ spoken \in Nat
  /\ Len(events) <= EventBound
  /\ verdict \in [Requests -> {"none", "done", "error"}]
  /\ said \in [Requests -> Nat] /\ there \in [Requests -> BOOLEAN]
  /\ \A r \in Requests :
       /\ deltas[r] \in Seq(Nat) /\ Len(deltas[r]) <= DeltaBound
       /\ frames[r] \in Seq(Frame) /\ Len(frames[r]) <= FrameBound
       /\ seen[r] \in Seq(Frame)
       /\ forward[r].at = "sending" => forward[r].frame \in Frame
       /\ stage[r] \in Active => queue # << >> /\ Head(queue) = r

StreamInit ==
  /\ stage = [r \in Requests |-> "new"]
  /\ queue = << >> /\ round = 0 /\ ran = FALSE
  /\ producer = "idle" /\ spoken = 0 /\ events = << >>
  /\ deltas = [r \in Requests |-> << >>]
  /\ forward = [r \in Requests |-> Waiting]
  /\ frames = [r \in Requests |-> << >>]
  /\ verdict = [r \in Requests |-> "none"]
  /\ there = [r \in Requests |-> TRUE]
  /\ said = [r \in Requests |-> 0]
  /\ seen = [r \in Requests |-> << >>]

Room(channel, bound) == Len(channel) < bound

-----------------------------------------------------------------------------
(* The handler and its turn.                                                *)

\* The checks that fail fast need the read lock: nobody has the write lock or
\* waits for it.  Then the tasks are spawned and the response begins.
Open(r) ==
  /\ stage[r] = "new" /\ queue = << >>
  /\ stage' = [stage EXCEPT ![r] = "opened"]
  /\ UNCHANGED <<queue, round, ran, verdict, said, providerVars, deltas, deliveryVars>>

\* The turn's task gets to run, and asks for the write lock.
Enqueue(r) ==
  /\ stage[r] = "opened"
  /\ stage' = [stage EXCEPT ![r] = "queued"]
  /\ queue' = Append(queue, r)
  /\ UNCHANGED <<round, ran, verdict, said, providerVars, deltas, deliveryVars>>

\* It has the lock, and the user's message is durable.
BeginTurn(r) ==
  /\ stage[r] = "queued" /\ Head(queue) = r
  /\ stage' = [stage EXCEPT ![r] = "asking"]
  /\ round' = 0 /\ ran' = FALSE
  /\ UNCHANGED <<queue, verdict, said, providerVars, deltas, deliveryVars>>

\* The turn returns: its sender of deltas is dropped, its result sent, its lock
\* released, and a provider still streaming finds nobody listening.
EndTurn(r, v) ==
  /\ stage' = [stage EXCEPT ![r] = "ended"]
  /\ verdict' = [verdict EXCEPT ![r] = v]
  /\ queue' = Tail(queue)
  /\ producer' = "idle" /\ spoken' = 0 /\ events' = << >>

\* An empty message is refused with the lock held; asking the provider may fail.
\* The appends of the message and of the tools do not: see README.
FailTurn(r) ==
  /\ \/ stage[r] = "queued" /\ Head(queue) = r
     \/ stage[r] = "asking"
  /\ EndTurn(r, "error")
  /\ UNCHANGED <<round, ran, said, deltas, deliveryVars>>

\* stream_complete: the provider's task is spawned.
AskProvider(r) ==
  /\ stage[r] = "asking"
  /\ stage' = [stage EXCEPT ![r] = "streaming"]
  /\ ran' = FALSE
  /\ producer' = "streaming" /\ spoken' = 0 /\ events' = << >>
  /\ UNCHANGED <<queue, round, verdict, said, deltas, deliveryVars>>

Hears(r, event) ==
  /\ stage[r] = "streaming" /\ events # << >> /\ Head(events).event = event

ReceiveDelta(r) ==
  /\ Hears(r, "delta")
  /\ events' = Tail(events)
  /\ stage' = [stage EXCEPT ![r] = "sending"]
  /\ UNCHANGED <<queue, round, ran, verdict, said, producer, spoken, deltas, deliveryVars>>

\* Mutant of Unheard: only a client that reads makes room.
UnheardNever(r) == FALSE

\* The forwarder has stopped, and its end of the channel is gone.
Unheard(r) == forward[r] = Stopped

\* deltas.send(text).await, whose error is ignored.
SendDelta(r) ==
  /\ stage[r] = "sending"
  /\ IF Unheard(r) THEN UNCHANGED deltas
     ELSE /\ Room(deltas[r], DeltaBound)
          /\ deltas' = [deltas EXCEPT ![r] = Append(@, said[r] + 1)]
  /\ said' = [said EXCEPT ![r] = @ + 1]
  /\ stage' = [stage EXCEPT ![r] = "streaming"]
  /\ UNCHANGED <<queue, round, ran, verdict, providerVars, deliveryVars>>

MoreTools == Head(events).calls /\ round < ToolRounds

\* The completion asks for tools, and there is a round left for them.
ReceiveCalls(r) ==
  /\ Hears(r, "finished") /\ MoreTools
  /\ events' = Tail(events)
  /\ stage' = [stage EXCEPT ![r] = "tools"]
  /\ round' = round + 1 /\ ran' = TRUE
  /\ UNCHANGED <<queue, verdict, said, producer, spoken, deltas, deliveryVars>>

RunTools(r) ==
  /\ stage[r] = "tools"
  /\ stage' = [stage EXCEPT ![r] = "streaming"]
  /\ UNCHANGED <<queue, round, ran, verdict, said, providerVars, deltas, deliveryVars>>

\* The answer, which is appended even if it says nothing (`complete` refuses one
\* with neither text nor calls; here nobody looks).  The append of the turn's end
\* may fail: a model's name need not do for the id of a subject.
ReceiveAnswer(r) ==
  /\ Hears(r, "finished") /\ ~MoreTools
  /\ \E v \in {"done", "error"} : EndTurn(r, v)
  /\ UNCHANGED <<round, ran, said, deltas, deliveryVars>>

\* The channel is closed: on to the next round, or EmptyResponse.
ReceiveClosed(r) ==
  /\ stage[r] = "streaming" /\ events = << >> /\ producer = "finished"
  /\ IF ran
     THEN /\ stage' = [stage EXCEPT ![r] = "asking"]
          /\ UNCHANGED <<queue, verdict, providerVars>>
     ELSE EndTurn(r, "error")
  /\ UNCHANGED <<round, ran, said, deltas, deliveryVars>>

-----------------------------------------------------------------------------
(* The provider's task.                                                     *)

Speak ==
  /\ producer = "streaming" /\ spoken < MaxDeltas[Head(queue)] /\ Room(events, EventBound)
  /\ events' = Append(events, Said)
  /\ spoken' = spoken + 1
  /\ UNCHANGED <<producer, turnVars, deltas, deliveryVars>>

\* The terminal event, with tool calls or without, after any text or none.
Finish(calls) ==
  /\ producer = "streaming" /\ Room(events, EventBound)
  /\ events' = Append(events, Finished(calls))
  /\ producer' = "finished"
  /\ UNCHANGED <<spoken, turnVars, deltas, deliveryVars>>

\* A stream that breaks is closed without a terminal event.
Break ==
  /\ producer = "streaming"
  /\ producer' = "finished"
  /\ UNCHANGED <<spoken, events, turnVars, deltas, deliveryVars>>

-----------------------------------------------------------------------------
(* The forwarder and the client.                                            *)

TakeDelta(r) ==
  /\ forward[r] = Waiting /\ deltas[r] # << >>
  /\ forward' = [forward EXCEPT ![r] = Holding(Delta(Head(deltas[r])))]
  /\ deltas' = [deltas EXCEPT ![r] = Tail(@)]
  /\ UNCHANGED <<turnVars, providerVars, frames, there, seen>>

\* Mutant of Concluded: as soon as there is a result.
ConcludedAtOnce(r) == stage[r] = "ended"

\* Mutant of Concluded: only an answer concludes.
ConcludedWell(r) == verdict[r] = "done" /\ deltas[r] = << >>

\* The channel of deltas is closed and empty, and the result is there.
Concluded(r) == stage[r] = "ended" /\ deltas[r] = << >>

TakeResult(r) ==
  /\ forward[r] = Waiting /\ Concluded(r)
  /\ forward' = [forward EXCEPT ![r] = Holding(Terminal(verdict[r]))]
  /\ UNCHANGED <<turnVars, providerVars, deltas, frames, there, seen>>

\* After a terminal frame, or when the client has left, the forwarder stops,
\* and what its channel still holds is dropped.
ForwardFrame(r) ==
  /\ forward[r].at = "sending"
  /\ IF ~there[r]
     THEN /\ forward' = [forward EXCEPT ![r] = Stopped]
          /\ deltas' = [deltas EXCEPT ![r] = << >>]
          /\ UNCHANGED frames
     ELSE /\ Room(frames[r], FrameBound)
          /\ frames' = [frames EXCEPT ![r] = Append(@, forward[r].frame)]
          /\ forward' = [forward EXCEPT ![r] =
               IF forward[r].frame.event = "delta" THEN Waiting ELSE Stopped]
          /\ UNCHANGED deltas
  /\ UNCHANGED <<turnVars, providerVars, there, seen>>

Read(r) ==
  /\ there[r] /\ frames[r] # << >>
  /\ seen' = [seen EXCEPT ![r] = Append(@, Head(frames[r]))]
  /\ frames' = [frames EXCEPT ![r] = Tail(@)]
  /\ UNCHANGED <<turnVars, providerVars, deltas, forward, there>>

Leave(r) ==
  /\ there[r] /\ stage[r] # "new"
  /\ there' = [there EXCEPT ![r] = FALSE]
  /\ frames' = [frames EXCEPT ![r] = << >>]
  /\ UNCHANGED <<turnVars, providerVars, deltas, forward, seen>>

-----------------------------------------------------------------------------
\* The steps the server's tasks take by themselves.
Turn(r) ==
  \/ Enqueue(r) \/ BeginTurn(r) \/ AskProvider(r) \/ ReceiveDelta(r) \/ SendDelta(r)
  \/ ReceiveCalls(r) \/ ReceiveAnswer(r) \/ ReceiveClosed(r)

Forwarder(r) == TakeDelta(r) \/ TakeResult(r) \/ ForwardFrame(r)

\* The steps that others take: the provider, the tools, the client.
Provider == Speak \/ Break \/ \E calls \in BOOLEAN : Finish(calls)

StreamNext ==
  \/ Provider
  \/ \E r \in Requests :
       \/ Open(r) \/ Turn(r) \/ FailTurn(r) \/ RunTools(r)
       \/ Forwarder(r) \/ Read(r) \/ Leave(r)

\* Tokio runs every task that can go on.
StreamSpec ==
  /\ StreamInit /\ [][StreamNext]_streamVars
  /\ \A r \in Requests : WF_streamVars(Turn(r)) /\ WF_streamVars(Forwarder(r))

\* What the code does not guarantee, for it has no timeout: that the provider
\* goes on when it has room to, that a tool returns, that a client reads.
ProviderAnswers == []<>~(producer = "streaming" /\ Room(events, EventBound))
ToolsReturn == \A r \in Requests : []<>(stage[r] # "tools")
ClientsReadOn == \A r \in Requests : []<>(~there[r] \/ frames[r] = << >>)

-----------------------------------------------------------------------------
Answer(r) == INSTANCE AnswerStream WITH
  said <- said[r], verdict <- verdict[r], seen <- seen[r], there <- there[r]

\* Whatever the four parties' pace, and whoever else streams: a client reads
\* the deltas in order without a gap and then one terminal frame, which says
\* how the turn ended, and nothing more (server lib.rs, on the handler).
DeliversAnswerStream ==
  /\ \A r \in Requests : Answer(r)!Init
  /\ [][ \A r \in Requests :
           Answer(r)!Next \/ UNCHANGED Answer(r)!answerVars ]_streamVars

\* Every stream is concluded and the write lock is given back, so that every
\* other request is served, if the provider and the tools answer and every
\* client reads on or leaves: a client that stays gets its terminal frame, also
\* when the turn fails, and one that leaves in the middle holds up nobody.
StreamsConclude ==
  ProviderAnswers /\ ToolsReturn /\ ClientsReadOn =>
    \A r \in Requests :
      (stage[r] = "opened") ~>
        /\ stage[r] = "ended"
        /\ ~there[r] \/ \E k \in DOMAIN seen[r] : seen[r][k] = Terminal(verdict[r])

Unread(r) == said[r] - Len(seen[r])
Capacity == DeltaBound + FrameBound + 1

\* A client that stays and reads nothing at all holds up the store only when
\* both channels and the forwarder's hand are full of its deltas: any shorter
\* answer ends, and releases the lock, without it.
SlowClientsBuffered ==
  ProviderAnswers /\ ToolsReturn =>
    \A r \in Requests :
      (stage[r] \in Active) ~> (stage[r] = "ended" \/ (there[r] /\ Unread(r) >= Capacity))
=============================================================================
