------------------------------ MODULE Heartbeat ------------------------------
(***************************************************************************)
(* The liveness of a control channel (client.go): what Connect negotiates, *)
(* the heartbeats that heartbeatLoop sends, the acknowledgements that      *)
(* handleHeartbeat accepts, and the read deadline that every message       *)
(* renews.  Time is counted in ticks.  The engine is external: it answers  *)
(* heartbeats in order, each within MaxDelay ticks of its sending, and may *)
(* miss up to MaxMissed in a row.                                          *)
(***************************************************************************)
EXTENDS Naturals, Sequences

CONSTANTS
  Intervals,    \* what cfg.HeartbeatInterval may be; 0 disables heartbeats
  MinInterval,  \* minHeartbeatInterval
  MaxInterval,  \* maxHeartbeatInterval
  Offers,       \* the liveness the engine may answer with, besides NoOffer
  MaxTimeout,   \* maxHeartbeatTimeout
  MaxDelay, MaxMissed,
  Width,        \* of heartbeatSequence, in bits
  MaxSends,     \* bounds a behaviour
  NoOffer

VARIABLES
  interval,         \* heartbeatInterval, 0 when disabled
  timeout,          \* heartbeatTimeout, 0 when not negotiated
  state,            \* "new", "open", "failed", "closed"
  sequence,         \* heartbeatSequence
  acknowledgement,  \* heartbeatAcknowledgement
  nextSend,         \* ticks until the ticker fires
  sending,          \* a heartbeat is being written: its sequence, or 0
  deadline,         \* ticks until the read deadline
  wire,             \* heartbeats written and not yet answered, with their age
  missed,           \* how many in a row the engine left unanswered
  silent,           \* ticks since the last message was read
  engineDead,       \* the engine answers no more
  sends

vars == <<interval, timeout, state, sequence, acknowledgement, nextSend, sending, deadline,
          wire, missed, silent, engineDead, sends>>

\* resolveControlChannelConfig.
ValidInterval(i) == i = 0 \/ i \in MinInterval..MaxInterval

\* validateNegotiatedControlLiveness.
Validate(i, offer) ==
  IF offer = NoOffer THEN [ok |-> TRUE, timeout |-> 0]
  ELSE [ok |-> i > 0 /\ offer.interval = i /\ offer.timeout \in i..MaxTimeout, timeout |-> offer.timeout]

Init ==
  /\ interval \in {i \in Intervals : ValidInterval(i)}
  /\ timeout = 0 /\ state = "new" /\ sequence = 0 /\ acknowledgement = 0
  /\ nextSend = 0 /\ sending = 0 /\ deadline = 0 /\ wire = <<>>
  /\ missed = 0 /\ silent = 0 /\ engineDead = FALSE /\ sends = 0

\* The end of Connect: the first deadline, and the loops.
Connect(offer) ==
  /\ state = "new"
  /\ LET v == Validate(interval, offer) IN
     IF v.ok THEN state' = "open" /\ timeout' = v.timeout /\ deadline' = v.timeout
             ELSE state' = "failed" /\ UNCHANGED <<timeout, deadline>>
  /\ UNCHANGED <<interval, sequence, acknowledgement, nextSend, sending, wire, missed, silent, engineDead, sends>>

\* uint64 arithmetic.
Successor(s) == IF (s + 1) % 2^Width = 0 THEN 1 ELSE (s + 1) % 2^Width

\* sendHeartbeat: the number is taken under mu, the write comes after it.
SendHeartbeat ==
  /\ state = "open" /\ interval > 0 /\ timeout > 0 /\ nextSend = 0 /\ sending = 0
  /\ sends < MaxSends /\ sends' = sends + 1
  /\ sequence' = Successor(sequence)
  /\ sending' = sequence'
  /\ nextSend' = interval
  /\ UNCHANGED <<interval, timeout, state, acknowledgement, deadline, wire, missed, silent, engineDead>>

WriteHeartbeat ==
  /\ state = "open" /\ sending # 0
  /\ wire' = Append(wire, [sequence |-> sending, age |-> 0])
  /\ sending' = 0
  /\ UNCHANGED <<interval, timeout, state, sequence, acknowledgement, nextSend, deadline, missed, silent,
                 engineDead, sends>>

\* The engine leaves a heartbeat unanswered.
Miss ==
  /\ wire # <<>> /\ (engineDead \/ missed < MaxMissed)
  /\ wire' = Tail(wire)
  /\ missed' = IF engineDead THEN missed ELSE missed + 1
  /\ UNCHANGED <<interval, timeout, state, sequence, acknowledgement, nextSend, sending, deadline, silent,
                 engineDead, sends>>

EngineDies ==
  /\ ~engineDead /\ state = "open" /\ engineDead' = TRUE
  /\ UNCHANGED <<interval, timeout, state, sequence, acknowledgement, nextSend, sending, deadline, wire,
                 missed, silent, sends>>

\* handleHeartbeat.
Acceptable(ack) == ack # 0 /\ ack > acknowledgement /\ ack <= sequence

\* What readLoop does with the deadline when it has read a message.
Refresh == timeout

\* readLoop reads the acknowledgement of the oldest heartbeat.
ReadAcknowledgement ==
  /\ state = "open" /\ wire # <<>> /\ ~engineDead
  /\ wire' = Tail(wire) /\ missed' = 0 /\ silent' = 0
  /\ deadline' = Refresh
  /\ IF Acceptable(Head(wire).sequence)
     THEN acknowledgement' = Head(wire).sequence /\ UNCHANGED state
     ELSE state' = "closed" /\ UNCHANGED acknowledgement
  /\ UNCHANGED <<interval, timeout, sequence, nextSend, sending, engineDead, sends>>

\* Any other message of the engine.
ReadOther ==
  /\ state = "open" /\ timeout > 0 /\ ~engineDead
  /\ silent' = 0 /\ deadline' = Refresh
  /\ UNCHANGED <<interval, timeout, state, sequence, acknowledgement, nextSend, sending, wire, missed,
                 engineDead, sends>>

\* The read deadline has passed.
ReadExpires ==
  /\ state = "open" /\ timeout > 0 /\ deadline = 0
  /\ state' = "closed"
  /\ UNCHANGED <<interval, timeout, sequence, acknowledgement, nextSend, sending, deadline, wire, missed,
                 silent, engineDead, sends>>

\* Time passes unless something is due: a send, a deadline, an answer.
Tick ==
  /\ state = "open" /\ timeout > 0 /\ sending = 0 /\ nextSend > 0 /\ deadline > 0
  /\ engineDead \/ \A i \in DOMAIN wire : wire[i].age < MaxDelay
  /\ nextSend' = nextSend - 1 /\ deadline' = deadline - 1 /\ silent' = silent + 1
  /\ wire' = [i \in DOMAIN wire |-> [wire[i] EXCEPT !.age = @ + 1]]
  /\ UNCHANGED <<interval, timeout, state, sequence, acknowledgement, sending, missed, engineDead, sends>>

Next ==
  \/ \E offer \in Offers \cup {NoOffer} : Connect(offer)
  \/ SendHeartbeat \/ WriteHeartbeat \/ Miss \/ EngineDies \/ ReadAcknowledgement
  \/ ReadOther \/ ReadExpires \/ Tick

Spec == Init /\ [][Next]_vars

-----------------------------------------------------------------------------
\* A negotiated timeout lies between the interval and maxHeartbeatTimeout.
TypeOK ==
  /\ interval \in {0} \cup MinInterval..MaxInterval
  /\ timeout = 0 \/ (interval > 0 /\ timeout \in interval..MaxTimeout)
  /\ state \in {"new", "open", "failed", "closed"}
  /\ sequence \in 0..2^Width - 1 /\ acknowledgement \in 0..sequence /\ sending \in {0, sequence}
  /\ nextSend \in 0..interval /\ deadline \in 0..(timeout + interval)
  /\ wire \in Seq([sequence : 1..sequence, age : Nat])
  /\ missed \in 0..MaxMissed /\ silent \in Nat /\ engineDead \in BOOLEAN /\ sends \in 0..MaxSends

\* "Missing heartbeats below that grace do not change the route": when the
\* delays of a live engine and the answers it misses fit in the timeout, the
\* channel is never closed, neither by the deadline of readLoop nor by
\* handleHeartbeat.
GraceSuffices ==
  state = "closed" /\ ~engineDead => timeout <= (MaxMissed + 1) * interval + MaxDelay

\* Whatever the ages and gaps of the answers, the next answer the engine owes
\* is one that handleHeartbeat accepts.
AnswersAcceptable == state = "open" /\ wire # <<>> => Acceptable(Head(wire).sequence)

\* With liveness negotiated, the channel is not open longer than the timeout
\* after the last message read.
SilenceBounded == state = "open" /\ timeout > 0 => silent <= timeout

\* A live engine keeps its channel, a silent one loses it in time, and no owed
\* answer is taken for invalid.
HeartbeatInv == TypeOK /\ GraceSuffices /\ AnswersAcceptable /\ SilenceBounded
=============================================================================
