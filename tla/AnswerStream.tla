------------------------------ MODULE AnswerStream ------------------------------
(***************************************************************************)
(* What POST /threads/{id}/messages/stream promises its client: the deltas *)
(* of the turn as the model streams, in order and without a gap, then one  *)
(* terminal frame, `done` or `error`, and nothing after it.                *)
(***************************************************************************)
EXTENDS Naturals, Sequences

VARIABLES
  said,     \* how many deltas the turn has produced
  verdict,  \* how the turn ended, "none" before it did
  seen,     \* the frames the client has read
  there     \* the client has not left

answerVars == <<said, verdict, seen, there>>

Delta(n) == [event |-> "delta", n |-> n]
Terminal(v) == [event |-> v, n |-> 0]

Init == said = 0 /\ verdict = "none" /\ seen = << >> /\ there = TRUE

Say == /\ verdict = "none"
       /\ said' = said + 1
       /\ UNCHANGED <<verdict, seen, there>>

Conclude == /\ verdict = "none"
            /\ verdict' \in {"done", "error"}
            /\ UNCHANGED <<said, seen, there>>

See == /\ there /\ Len(seen) < said
       /\ seen' = Append(seen, Delta(Len(seen) + 1))
       /\ UNCHANGED <<said, verdict, there>>

\* The terminal frame makes seen longer than said: nothing can follow it.
Hear == /\ there /\ verdict # "none" /\ Len(seen) = said
        /\ seen' = Append(seen, Terminal(verdict))
        /\ UNCHANGED <<said, verdict, there>>

Leave == there' = FALSE /\ UNCHANGED <<said, verdict, seen>>

Next == Say \/ Conclude \/ See \/ Hear \/ Leave

Spec == Init /\ [][Next]_answerVars
=============================================================================
