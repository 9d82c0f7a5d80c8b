----------------------------- MODULE SessionLog -----------------------------
(* What a WebTTY client may rely on in the messages of one session: the    *)
(* acknowledgement of Open comes before any output, a stream carries       *)
(* nothing after its end, and Close comes once, after the ends of all the  *)
(* streams of the session.                                                 *)
EXTENDS Naturals, Sequences

CONSTANT Streams     \* the output streams a session may have

VARIABLE log         \* the messages written to the connection, heartbeats left out

Plain(type) == [type |-> type, of |-> "session"]

\* The message m is in the log.
Logged(m) == \E i \in 1..Len(log) : log[i] = m

Init == log = <<>>

Hello == log = <<>> /\ log' = <<Plain("hello")>>

Ack == ~Logged(Plain("ack")) /\ log' = Append(log, Plain("ack"))

Reject == log' = Append(log, Plain("error"))

Output(t) ==
  /\ Logged(Plain("ack")) /\ ~Logged([type |-> "eos", of |-> t]) /\ ~Logged(Plain("close"))
  /\ log' = Append(log, [type |-> "data", of |-> t])

End(t) ==
  /\ Logged(Plain("ack")) /\ ~Logged([type |-> "eos", of |-> t]) /\ ~Logged(Plain("close"))
  /\ log' = Append(log, [type |-> "eos", of |-> t])

\* Close is last, but for the refusal of a message the session cannot take.
Close ==
  /\ \E t \in Streams : Logged([type |-> "eos", of |-> t])
  /\ \A t \in Streams : Logged([type |-> "data", of |-> t]) => Logged([type |-> "eos", of |-> t])
  /\ ~Logged(Plain("close"))
  /\ log' = Append(log, Plain("close"))

Next == Hello \/ Ack \/ Reject \/ Close \/ \E t \in Streams : Output(t) \/ End(t)

Spec == Init /\ [][Next]_log
=============================================================================
