----------------------------- MODULE ProxyDrain -----------------------------
(***************************************************************************)
(* drainingProxyTransport (client.go): the reference-counted QUIC          *)
(* transport a control channel uses to dial its proxied connections.       *)
(* When the control channel fails the transport is detached: it admits no  *)
(* new dial, but the connections already handed out live on and the last   *)
(* of them closes the underlying transport.  When the channel is closed    *)
(* deliberately the underlying transport is closed at once.                *)
(*                                                                         *)
(* Every critical section of t.mu is one step; closeUnderlying runs after  *)
(* the unlock and is a step of its own.                                    *)
(***************************************************************************)
EXTENDS Integers, FiniteSets, FiniteSetTheorems, TLAPS

CONSTANT Dials  \* the calls of Dial, each with the connection it may return

ASSUME DialsFinite == IsFiniteSet(Dials)

VARIABLES
  active,      \* t.active
  detached,    \* t.detached
  closed,      \* t.closed
  underlying,  \* "open" until closeOnce has run closeAutoTransport(t.dialer)
  dial,        \* where each call of Dial, and its connection, stands
  pendingClose \* callers that computed closeNow and have not run closeOnce yet

vars == <<active, detached, closed, underlying, dial, pendingClose>>

\* A dial is "idle" (not called), "dialing" (inside t.dialer.Dial), "dialed"
\* (connected, the second look at t.detached still to come), "dropped" (that
\* look saw a detach, or the dial failed: release still to come), "refused",
\* "open" (handed to the caller), "closing" (its Close is running, release still
\* to come) or "closed" (released).
DialStates == {"idle", "dialing", "dialed", "dropped", "refused", "open", "closing", "closed"}

\* The dials that hold a reference: they raised active and did not release it.
Holding == {d \in Dials : dial[d] \in {"dialing", "dialed", "dropped", "open", "closing"}}

TypeOK ==
  /\ active \in Nat
  /\ detached \in BOOLEAN
  /\ closed \in BOOLEAN
  /\ underlying \in {"open", "closed"}
  /\ dial \in [Dials -> DialStates]
  /\ pendingClose \in Nat

Init ==
  /\ active = 0
  /\ detached = FALSE
  /\ closed = FALSE
  /\ underlying = "open"
  /\ dial = [d \in Dials |-> "idle"]
  /\ pendingClose = 0

-----------------------------------------------------------------------------
(* Dial: the admission check and active++.                                 *)
Dial(d) ==
  /\ dial[d] = "idle"
  /\ IF detached \/ closed
       THEN dial' = [dial EXCEPT ![d] = "refused"] /\ UNCHANGED active
       ELSE dial' = [dial EXCEPT ![d] = "dialing"] /\ active' = active + 1
  /\ UNCHANGED <<detached, closed, underlying, pendingClose>>

(* t.dialer.Dial returns a connection; a closed transport never does.      *)
DialConnects(d) ==
  /\ dial[d] = "dialing"
  /\ underlying = "open"
  /\ dial' = [dial EXCEPT ![d] = "dialed"]
  /\ UNCHANGED <<active, detached, closed, underlying, pendingClose>>

(* t.dialer.Dial fails: network error, cancelled context or closed.        *)
DialFails(d) ==
  /\ dial[d] = "dialing"
  /\ dial' = [dial EXCEPT ![d] = "dropped"]
  /\ UNCHANGED <<active, detached, closed, underlying, pendingClose>>

(* The second look at t.detached, after the dial returned.                 *)
DialChecks(d) ==
  /\ dial[d] = "dialed"
  /\ dial' = [dial EXCEPT ![d] = IF detached \/ closed THEN "dropped" ELSE "open"]
  /\ UNCHANGED <<active, detached, closed, underlying, pendingClose>>

(* drainingProxyConn.Close: once.Do closes the connection, then releases.  *)
ConnClose(d) ==
  /\ dial[d] = "open"
  /\ dial' = [dial EXCEPT ![d] = "closing"]
  /\ UNCHANGED <<active, detached, closed, underlying, pendingClose>>

(* release: active-- and the decision to close the underlying transport.   *)
Release(d) ==
  /\ dial[d] \in {"dropped", "closing"}
  /\ dial' = [dial EXCEPT ![d] = "closed"]
  /\ active' = IF active > 0 THEN active - 1 ELSE active
  /\ pendingClose' = IF detached /\ active' = 0 THEN pendingClose + 1 ELSE pendingClose
  /\ UNCHANGED <<detached, closed, underlying>>

\* Mutant of Detach: it closes the transport without looking at t.active.
DetachClosesAtOnce ==
  /\ ~detached
  /\ detached' = TRUE
  /\ pendingClose' = pendingClose + 1
  /\ UNCHANGED <<active, closed, underlying, dial>>

(* Detach: the control channel failed and preserves its streams.  Its      *)
(* cleanup runs once and calls either Detach or Close.                     *)
Detach ==
  /\ ~detached
  /\ detached' = TRUE
  /\ pendingClose' = IF active = 0 THEN pendingClose + 1 ELSE pendingClose
  /\ UNCHANGED <<active, closed, underlying, dial>>

(* Close: the control channel was closed deliberately.                     *)
Close ==
  /\ ~detached
  /\ closed' = TRUE
  /\ detached' = TRUE
  /\ pendingClose' = pendingClose + 1
  /\ UNCHANGED <<active, underlying, dial>>

(* closeUnderlying: closeOnce makes every call after the first a no-op.    *)
CloseUnderlying ==
  /\ pendingClose > 0
  /\ pendingClose' = pendingClose - 1
  /\ underlying' = "closed"
  /\ UNCHANGED <<active, detached, closed, dial>>
-----------------------------------------------------------------------------
Next ==
  \/ \E d \in Dials :
       Dial(d) \/ DialConnects(d) \/ DialFails(d) \/ DialChecks(d) \/ ConnClose(d) \/ Release(d)
  \/ Detach
  \/ Close
  \/ CloseUnderlying

\* A dial returns (its context has a deadline) and the code after it runs to
\* its end; nothing makes the application close a connection.
Runs == (\E d \in Dials : DialFails(d) \/ DialChecks(d) \/ Release(d)) \/ CloseUnderlying
Fairness == WF_vars(Runs)

Spec == Init /\ [][Next]_vars /\ Fairness

-----------------------------------------------------------------------------
(* Detaching never cuts a connection: unless the channel was closed        *)
(* deliberately, the underlying transport is closed only once no dial is   *)
(* in flight and every connection handed out by Dial has been closed.      *)
DetachKeepsConns == underlying = "closed" /\ ~closed => Holding = {}

(* In the end: after Detach or Close, once the last reference is gone, the *)
(* underlying transport is closed: no QUIC connection outlives its users.  *)
DrainedIsClosed == detached /\ Holding = {} => underlying = "closed"

-----------------------------------------------------------------------------
(* Proofs, for every finite set of dials.                                  *)

(* The inductive invariant: t.active counts the dials that hold a          *)
(* reference, and whoever is about to close, or has closed, the transport  *)
(* other than by a deliberate Close did so after a detach and with no      *)
(* reference left.                                                         *)
DrainInv ==
  /\ TypeOK
  /\ active = Cardinality(Holding)
  /\ closed => detached
  /\ (pendingClose > 0 \/ underlying = "closed") /\ ~closed => detached /\ Holding = {}

(* Holding is finite, so its cardinality is a natural number, zero only    *)
(* when it is empty; adding or removing one dial moves it by one.          *)
LEMMA HoldingFacts ==
  /\ IsFiniteSet(Holding)
  /\ Cardinality(Holding) \in Nat
  /\ Cardinality(Holding) = 0 <=> Holding = {}
  /\ \A d \in Dials \ Holding : Cardinality(Holding \cup {d}) = Cardinality(Holding) + 1
  /\ \A d \in Holding : Cardinality(Holding \ {d}) = Cardinality(Holding) - 1
<1>1. IsFiniteSet(Holding)
  BY DialsFinite, FS_Subset DEF Holding
<1>2. QED
  BY <1>1, FS_CardinalityType, FS_EmptySet, FS_AddElement, FS_RemoveElement

LEMMA DrainInit == Init => DrainInv
<1> SUFFICES ASSUME Init PROVE DrainInv
  OBVIOUS
<1>1. Holding = {}
  BY DEF Init, Holding
<1>2. Cardinality(Holding) = 0
  BY <1>1, FS_EmptySet
<1>3. TypeOK
  BY DEF Init, TypeOK, DialStates
<1>4. ~closed /\ ~(pendingClose > 0) /\ underlying # "closed"
  BY DEF Init
<1>5. QED
  BY <1>1, <1>2, <1>3, <1>4 DEF Init, DrainInv

LEMMA DrainStep == DrainInv /\ [Next]_vars => DrainInv'
<1> SUFFICES ASSUME DrainInv, [Next]_vars PROVE DrainInv'
  OBVIOUS
<1> USE DEF DrainInv, TypeOK, DialStates
<1>1. ASSUME NEW d \in Dials, Dial(d) PROVE DrainInv'
  <2>1. CASE detached \/ closed
    <3>1. Holding' = Holding
      BY <1>1, <2>1 DEF Dial, Holding
    <3>2. QED
      BY <1>1, <2>1, <3>1 DEF Dial
  <2>2. CASE ~(detached \/ closed)
    <3>1. Holding' = Holding \cup {d} /\ d \in Dials \ Holding
      BY <1>1, <2>2 DEF Dial, Holding
    <3>2. QED
      BY <1>1, <2>2, <3>1, HoldingFacts DEF Dial
  <2>3. QED
    BY <2>1, <2>2
<1>2. ASSUME NEW d \in Dials, DialConnects(d) \/ DialFails(d) \/ DialChecks(d) \/ ConnClose(d)
      PROVE  DrainInv'
  <2>1. Holding' = Holding
    BY <1>2 DEF DialConnects, DialFails, DialChecks, ConnClose, Holding
  <2>2. QED
    BY <1>2, <2>1 DEF DialConnects, DialFails, DialChecks, ConnClose
<1>3. ASSUME NEW d \in Dials, Release(d) PROVE DrainInv'
  <2>1. Holding' = Holding \ {d} /\ d \in Holding
    BY <1>3 DEF Release, Holding
  <2>2. Cardinality(Holding') = Cardinality(Holding) - 1 /\ active > 0
    BY <2>1, HoldingFacts
  <2>3. Cardinality(Holding') = 0 => Holding' = {}
    BY <2>1, HoldingFacts, FS_RemoveElement, FS_EmptySet
  <2>4. QED
    BY <1>3, <2>1, <2>2, <2>3 DEF Release
<1>4. CASE Detach
  <2>1. Holding' = Holding
    BY <1>4 DEF Detach, Holding
  <2>2. QED
    BY <1>4, <2>1, HoldingFacts DEF Detach
<1>5. CASE Close
  <2>1. Holding' = Holding
    BY <1>5 DEF Close, Holding
  <2>2. QED
    BY <1>5, <2>1 DEF Close
<1>6. CASE CloseUnderlying
  <2>1. Holding' = Holding
    BY <1>6 DEF CloseUnderlying, Holding
  <2>2. QED
    BY <1>6, <2>1 DEF CloseUnderlying
<1>7. CASE UNCHANGED vars
  BY <1>7 DEF vars, Holding
<1>8. QED
  BY <1>1, <1>2, <1>3, <1>4, <1>5, <1>6, <1>7 DEF Next

(* Detaching the transport of a failed control channel never closes the    *)
(* underlying transport under a dial in flight or an open connection,      *)
(* however many dials and connections there are.                           *)
THEOREM DetachKeepsConnsAlways == Spec => []DetachKeepsConns
<1>1. DrainInv => DetachKeepsConns
  BY DEF DrainInv, DetachKeepsConns
<1>2. QED
  BY <1>1, DrainInit, DrainStep, PTL DEF Spec

(* Type correctness of the transport's state.                              *)
THEOREM ProxyDrainTypes == Spec => []TypeOK
<1>1. DrainInv => TypeOK
  BY DEF DrainInv
<1>2. QED
  BY <1>1, DrainInit, DrainStep, PTL DEF Spec
=============================================================================
