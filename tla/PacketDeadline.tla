--------------------------- MODULE PacketDeadline ---------------------------
(***************************************************************************)
(* packetDeadline (packet_deadline.go), the deadline of a packet socket,   *)
(* and the reads that wait on it (packetListenerWrapper.ReadFrom).  A read *)
(* takes the deadline and a channel; the channel is closed when the        *)
(* deadline is changed or passes, and the read then looks again.           *)
(***************************************************************************)
EXTENDS Naturals

CONSTANTS
  Readers,   \* reads that find no packet
  MaxTime,   \* bound on the clock
  MaxSets    \* bound on the calls of set

Zero == 0            \* the zero time: no deadline
Times == 1 .. MaxTime

VARIABLES
  now,
  deadline,
  changed,    \* the current channel; each set makes the next one
  signalled,  \* channels that are closed
  timers,     \* armed timers: the channel and the time of each
  fired,      \* functions of timers that have started and wait for mu
  reader      \* the reads: where they are and what they took

vars == <<now, deadline, changed, signalled, timers, fired, reader>>

Idle == [pc |-> "idle", deadline |-> Zero, changed |-> 0]

Init ==
  /\ now = 1 /\ deadline = Zero /\ changed = 0
  /\ signalled = {} /\ timers = {} /\ fired = {}
  /\ reader = [r \in Readers |-> Idle]

\* set: Stop takes an armed timer away, not a function that has started.
Set(t) ==
  /\ changed < MaxSets
  /\ deadline' = t /\ changed' = changed + 1
  /\ signalled' = signalled \cup {changed} \cup (IF t # Zero /\ t <= now THEN {changed'} ELSE {})
  /\ timers' = IF t > now THEN {[changed |-> changed', at |-> t]} ELSE {}
  /\ UNCHANGED <<now, fired, reader>>

\* External: time passes and the timer starts its function.
Tick ==
  /\ now < MaxTime /\ now' = now + 1
  /\ UNCHANGED <<deadline, changed, signalled, timers, fired, reader>>

TimerFires(tm) ==
  /\ tm \in timers /\ tm.at <= now
  /\ timers' = timers \ {tm} /\ fired' = fired \cup {tm.changed}
  /\ UNCHANGED <<now, deadline, changed, signalled, reader>>

\* The function of a timer, under mu: it closes its own channel if current.
Expire(ch) ==
  /\ ch \in fired
  /\ fired' = fired \ {ch}
  /\ signalled' = IF changed = ch THEN signalled \cup {ch} ELSE signalled
  /\ UNCHANGED <<now, deadline, changed, timers, reader>>

\* snapshot, under mu.
Snapshot(r) ==
  /\ reader[r].pc \in {"idle", "top"}
  /\ reader' = [reader EXCEPT ![r] = [pc |-> "compare", deadline |-> deadline, changed |-> changed]]
  /\ UNCHANGED <<now, deadline, changed, signalled, timers, fired>>

\* The deadline taken is compared with the clock, without mu.
Compare(r) ==
  /\ reader[r].pc = "compare"
  /\ reader' = [reader EXCEPT ![r].pc =
                  IF reader[r].deadline # Zero /\ reader[r].deadline <= now THEN "timeout" ELSE "wait"]
  /\ UNCHANGED <<now, deadline, changed, signalled, timers, fired>>

\* The channel is closed: the read looks again.
Wake(r) ==
  /\ reader[r].pc = "wait" /\ reader[r].changed \in signalled
  /\ reader' = [reader EXCEPT ![r] = [Idle EXCEPT !.pc = "top"]]
  /\ UNCHANGED <<now, deadline, changed, signalled, timers, fired>>

ReadStep(r) == Snapshot(r) \/ Compare(r) \/ Wake(r)

Next ==
  \/ \E t \in {Zero} \cup Times : Set(t)
  \/ Tick
  \/ \E tm \in timers : TimerFires(tm)
  \/ \E ch \in fired : Expire(ch)
  \/ \E r \in Readers : ReadStep(r)

Spec == Init /\ [][Next]_vars

\* The clock goes on while a timer is armed, timers fire, reads go on; nobody
\* has to call set.
Fairness ==
  /\ WF_vars(timers # {} /\ Tick)
  /\ WF_vars(\E tm \in timers : TimerFires(tm))
  /\ WF_vars(\E ch \in fired : Expire(ch))
  /\ \A r \in Readers : WF_vars(reader[r].pc # "idle" /\ ReadStep(r))

-----------------------------------------------------------------------------
\* Types of the state; at most one timer is armed.
TypeOK ==
  /\ now \in Times
  /\ deadline \in {Zero} \cup Times
  /\ changed \in 0 .. MaxSets
  /\ signalled \subseteq 0 .. changed
  /\ timers \subseteq [changed : 0 .. MaxSets, at : Times]
  /\ \A a, b \in timers : a = b
  /\ fired \subseteq 0 .. changed
  /\ reader \in [Readers -> [pc : {"idle", "top", "compare", "wait", "timeout"},
                             deadline : {Zero} \cup Times, changed : 0 .. MaxSets]]

\* No wake-up is lost: a read waits on a channel that is closed already, or on
\* the current one, with the current deadline; and if there is a deadline, a
\* timer for that very channel and time is armed or has started its function.
NoLostWakeup ==
  \A r \in Readers : reader[r].pc = "wait" /\ reader[r].changed \notin signalled =>
    /\ reader[r].changed = changed /\ reader[r].deadline = deadline
    /\ deadline # Zero => changed \in fired \/ [changed |-> changed, at |-> deadline] \in timers

\* The current channel is closed only if its deadline has passed: the late
\* function of a timer that set could not stop does not touch the next channel,
\* on which reads would then spin without blocking.
NoSpuriousSignal == changed \in signalled => deadline # Zero /\ deadline <= now

\* What the deadline keeps for the reads that wait on it.
DeadlineInv == TypeOK /\ NoLostWakeup /\ NoSpuriousSignal

\* No read waits with a deadline: it has timed out, through every change of
\* the deadline in between, unless the deadline was removed.
Settled == \A r \in Readers : reader[r].pc \in {"idle", "timeout"} \/ deadline = Zero
=============================================================================
