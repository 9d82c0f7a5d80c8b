------------------------------ MODULE DialRace ------------------------------
(***************************************************************************)
(* raceDialRoutes (dial_routes.go), which Transport.Dial and               *)
(* QUICTransport.connect call: routes, pairs of a target and a proxy       *)
(* address, are dialled in order, a second one starting when the first     *)
(* fails or is slow, until one succeeds.                                   *)
(***************************************************************************)
EXTENDS Integers, FiniteSets

CONSTANTS
  Targets,  \* number of target addresses
  Proxies   \* number of proxy addresses, 1 when there is no proxy

VARIABLES
  pc,       \* "idle", "select", "drain", "returned"
  ended,    \* the caller's context has ended
  stopped,  \* cancel of the race's own context was called
  next,     \* index of the route to start next
  attempt,  \* what the goroutine of each route is doing
  conn,     \* the connection it made
  timer,    \* the fallback timer is armed
  won,      \* the route whose result was taken, or -1
  result    \* what the race returns: "none", "conn", "ended", "failed"

vars == <<pc, ended, stopped, next, attempt, conn, timer, won, result>>

Count == Targets * Proxies
Routes == 0..(Count - 1)

\* dialRoutes.at: consecutive routes differ in their proxy and in their target.
At(i) ==
  [target |-> ((i \div Proxies) + (i % Proxies)) % Targets, proxy |-> i % Proxies]

Active == {r \in Routes : attempt[r] \in {"running", "sent"}}
Init ==
  /\ pc = "idle" /\ ended = FALSE /\ stopped = FALSE
  /\ next = 0
  /\ attempt = [r \in Routes |-> "none"]
  /\ conn = [r \in Routes |-> "none"]
  /\ timer = FALSE /\ won = -1 /\ result = "none"

Start(r) == [attempt EXCEPT ![r] = "running"]

\* A context that has ended already fails at once.
Begin ==
  /\ pc = "idle"
  /\ IF ended
     THEN pc' = "returned" /\ result' = "ended" /\ UNCHANGED <<next, attempt, timer>>
     ELSE /\ pc' = "select" /\ attempt' = Start(0) /\ next' = 1 /\ timer' = TRUE
          /\ result' = result
  /\ UNCHANGED <<ended, stopped, conn, won>>

\* The goroutine of a route: dialRoute or connectRoute, with every handshake.
\* It closes what it made when it fails.
AttemptSucceeds(r) ==
  /\ attempt[r] = "running"
  /\ attempt' = [attempt EXCEPT ![r] = "sent"]
  /\ conn' = [conn EXCEPT ![r] = "open"]
  /\ UNCHANGED <<pc, ended, stopped, next, timer, won, result>>

AttemptFails(r) ==
  /\ attempt[r] = "running"
  /\ attempt' = [attempt EXCEPT ![r] = "sent"]
  /\ UNCHANGED <<pc, ended, stopped, next, conn, timer, won, result>>

\* case <-timer.C
Slow ==
  /\ pc = "select" /\ timer /\ Active # {}
  /\ timer' = FALSE
  /\ IF next < Count /\ Cardinality(Active) < 2
     THEN attempt' = Start(next) /\ next' = next + 1
     ELSE UNCHANGED <<attempt, next>>
  /\ UNCHANGED <<pc, ended, stopped, conn, won, result>>

\* case result := <-results, a failure: the next route starts at once.
TakeFailure(r) ==
  /\ pc = "select" /\ attempt[r] = "sent" /\ conn[r] = "none"
  /\ IF next < Count
     THEN /\ attempt' = [attempt EXCEPT ![r] = "taken", ![next] = "running"]
          /\ next' = next + 1
          /\ timer' = (timer \/ Cardinality(Active) < 2)
     ELSE attempt' = [attempt EXCEPT ![r] = "taken"] /\ UNCHANGED <<next, timer>>
  /\ UNCHANGED <<pc, ended, stopped, conn, won, result>>

\* A connection: the others are cancelled and waited for.
TakeSuccess(r) ==
  /\ pc = "select" /\ attempt[r] = "sent" /\ conn[r] = "open"
  /\ attempt' = [attempt EXCEPT ![r] = "taken"]
  /\ won' = r /\ stopped' = TRUE /\ pc' = "drain"
  /\ UNCHANGED <<ended, next, conn, timer, result>>

\* case <-ctx.Done()
TakeEnd ==
  /\ pc = "select" /\ ended /\ Active # {}
  /\ stopped' = TRUE /\ pc' = "drain"
  /\ UNCHANGED <<ended, next, attempt, conn, timer, won, result>>

\* drain closes a connection that came too late.
Drain(r) ==
  /\ pc = "drain" /\ attempt[r] = "sent"
  /\ attempt' = [attempt EXCEPT ![r] = "taken"]
  /\ conn' = [conn EXCEPT ![r] = IF @ = "open" THEN "closed" ELSE @]
  /\ UNCHANGED <<pc, ended, stopped, next, timer, won, result>>

\* drain is over.  A connection won is given up if the caller's context ended
\* meanwhile.
Return ==
  /\ pc = "drain" /\ Active = {}
  /\ pc' = "returned"
  /\ result' = IF won # -1 /\ ~ended THEN "conn" ELSE "ended"
  /\ conn' = IF won # -1 /\ ended THEN [conn EXCEPT ![won] = "closed"] ELSE conn
  /\ UNCHANGED <<ended, stopped, next, attempt, timer, won>>

\* The loop ends without a connection: every route has failed.
GiveUp ==
  /\ pc = "select" /\ Active = {}
  /\ pc' = "returned"
  /\ result' = IF ended THEN "ended" ELSE "failed"
  /\ UNCHANGED <<ended, stopped, next, attempt, conn, timer, won>>

\* The caller cancels, or its deadline passes.
End ==
  /\ ~ended
  /\ ended' = TRUE
  /\ UNCHANGED <<pc, stopped, next, attempt, conn, timer, won, result>>

RaceStep ==
  \/ Begin \/ TakeEnd \/ Return \/ GiveUp
  \/ \E r \in Routes : TakeFailure(r) \/ TakeSuccess(r) \/ Drain(r)

Next ==
  \/ RaceStep \/ Slow \/ End
  \/ \E r \in Routes : AttemptSucceeds(r) \/ AttemptFails(r)

Spec == Init /\ [][Next]_vars

\* The race goes on as long as it can, and an attempt ends: its context has a
\* deadline, the budget of the route.
Runs == (pc # "idle" /\ RaceStep) \/ \E r \in Routes : AttemptSucceeds(r) \/ AttemptFails(r)
Fairness == WF_vars(Runs)

-----------------------------------------------------------------------------
TypeOK ==
  /\ pc \in {"idle", "select", "drain", "returned"}
  /\ ended \in BOOLEAN /\ stopped \in BOOLEAN /\ timer \in BOOLEAN
  /\ next \in 0..Count
  /\ attempt \in [Routes -> {"none", "running", "sent", "taken"}]
  /\ conn \in [Routes -> {"none", "open", "closed"}]
  /\ won \in Routes \cup {-1}
  /\ result \in {"none", "conn", "ended", "failed"}

\* At most two routes run at once, so that a goroutine never blocks on the
\* channel of results, whose capacity is two.
AtMostTwo == Cardinality(Active) <= 2

\* Every loser is cancelled, closed and joined before the race returns, and
\* the connection it returns is the only one left open.
LosersJoined ==
  pc = "returned" =>
    /\ \A r \in Routes : attempt[r] \in {"none", "taken"}
    /\ \A r \in Routes : conn[r] = "open" => result = "conn" /\ won = r
    /\ result = "conn" => conn[won] = "open"

\* The race fails only after it has tried every target through every proxy.
AllRoutesTried ==
  result = "failed" =>
    {At(r) : r \in {q \in Routes : attempt[q] = "taken"}}
      = [target : 0..(Targets - 1), proxy : 0..(Proxies - 1)]

\* The connections of the race and the routes it tries.
RaceInv == TypeOK /\ AtMostTwo /\ LosersJoined /\ AllRoutesTried

\* The race is over, even if no address answered.
AllReturned == pc \in {"idle", "returned"}
=============================================================================
