----------------------------- MODULE RunTunnel -----------------------------
(* One worker of "rstream run": the retry loop over control channel        *)
(* generations, the goroutine that accepts from the current tunnel, the    *)
(* session group that owns the accepted relays across generations, and the *)
(* relays with their two copying directions.  Of the control channel it    *)
(* has what reaches the relays: it is lost, or closed with what it owns.   *)
EXTENDS Integers, FiniteSets

CONSTANTS
  Sessions,        \* the connections that may be accepted
  Kinds,           \* kinds of tunnel: served by proxyTCP or by proxyUDP
  Paths,           \* what accepted connections run over
  RetryInitial, RetryMax,   \* the backoff
  AcceptInitial, AcceptMax, \* the delays after a temporary Accept error
  Width,           \* bits of a time.Duration
  MaxFailures,     \* bound: failures of generations
  MaxPauses        \* bound: temporary Accept errors

\* The settings the code has; assumed where the constants get their values.
RetryAssumption ==
  /\ RetryInitial \in Nat \ {0} /\ RetryMax \in Nat /\ RetryInitial <= RetryMax
  /\ AcceptInitial \in Nat \ {0} /\ AcceptMax \in Nat
  /\ Width \in Nat \ {0} /\ RetryMax < 2^(Width - 1) /\ 2 * AcceptMax < 2^(Width - 1)
  /\ Kinds \subseteq {"bytestream", "datagram"} /\ Paths \subseteq {"tls", "quic", "proxy"} /\ MaxFailures \in Nat /\ MaxPauses \in Nat

VARIABLES
  kind,         \* of the tunnel
  path,         \* "tls": a connection each; "quic": the worker's own QUIC connection;
                \* "proxy": the QUIC connection of a proxy endpoint, the control channel's
  cancelled,    \* the worker's context
  run,          \* where the worker is
  then,         \* and how it goes on after the generation is closed
  transport,    \* its transport
  ctrl,         \* the control channel of the current generation
  listener,     \* its tunnel
  serve,        \* the accepting goroutine
  backoff, delay, fresh,  \* backoff.current, the wait chosen last, none failed since ready
  pause,        \* acceptRetryDelay
  group,        \* the session group: closed, its map, its wait group, the snapshot of Close
  session,      \* the relays
  failures, pauses

genVars == <<transport, ctrl, listener, serve>>
retryVars == <<backoff, delay, fresh>>
boundVars == <<kind, path, failures, pauses>>
vars == <<cancelled, run, then, genVars, retryVars, pause, group, session, boundVars>>

Directions == {"up", "down"}
Idle == [at |-> "none", owner |-> "none", inbound |-> "none", outbound |-> "none", up |-> "none", down |-> "none", seen |-> FALSE]

Wrap(x) == ((x + 2^(Width - 1)) % 2^Width) - 2^(Width - 1)

\* The sessions' context is done.
SessionsCancelled == cancelled \/ group.closed

TypeOK ==
  /\ kind \in Kinds /\ path \in Paths /\ cancelled \in BOOLEAN
  /\ run \in {"transport", "check", "connect", "create", "serve", "drain", "tunnel", "control", "await",
              "retry", "backoff", "leave", "group", "closing", "done"}
  /\ then \in {"leave", "retry"} /\ ctrl \in {"none", "open", "lost", "closed"}
  /\ transport \in {"none", "open", "closed"} /\ listener \in {"none", "open", "closed"}
  /\ serve \in {"none", "accept", "pause", "ended"}
  /\ backoff \in Int /\ delay \in Int /\ fresh \in BOOLEAN /\ pause \in 0..AcceptMax
  /\ group \in [closed : BOOLEAN, active : SUBSET Sessions, wg : SUBSET Sessions, snapshot : SUBSET Sessions]
  /\ session \in [Sessions ->
       [at : {"none", "dial", "relay", "leaving", "forgotten", "done"}, owner : {"none", "open", "lost", "closed"},
        inbound : {"none", "open", "closed"}, outbound : {"none", "open", "closed"},
        up : {"none", "copy", "eof", "err"}, down : {"none", "copy", "eof", "err"}, seen : BOOLEAN]]
  /\ failures \in 0..MaxFailures /\ pauses \in 0..MaxPauses

Init ==
  /\ kind \in Kinds /\ path \in Paths /\ cancelled = FALSE /\ run = "transport" /\ then = "leave"
  /\ transport = "none" /\ ctrl = "none" /\ listener = "none" /\ serve = "none"
  /\ backoff = RetryInitial /\ delay = 0 /\ fresh = TRUE /\ pause = 0
  /\ group = [closed |-> FALSE, active |-> {}, wg |-> {}, snapshot |-> {}]
  /\ session = [s \in Sessions |-> Idle]
  /\ failures = 0 /\ pauses = 0

----------------------------------------------------------------------------
(* The worker: run, runOnceReady and serveWithCtx. *)

\* The configured transport is built, or the worker ends at once.
NewTransport ==
  /\ run = "transport"
  /\ \/ run' = "check" /\ transport' = "open"
     \/ run' = "group" /\ UNCHANGED transport
  /\ UNCHANGED <<cancelled, then, ctrl, listener, serve, retryVars, pause, group, session, boundVars>>

Check ==
  /\ run = "check"
  /\ run' = IF cancelled THEN "leave" ELSE "connect"
  /\ UNCHANGED <<cancelled, then, genVars, retryVars, pause, group, session, boundVars>>

\* How run goes on after an error of a generation: a fatal one, or the
\* cancellation, ends it; another is retried.
Failed ==
  \/ then' = "leave" /\ UNCHANGED boundVars
  \/ then' = "retry" /\ failures < MaxFailures /\ failures' = failures + 1 /\ UNCHANGED <<kind, path, pauses>>

\* Connect; without a control channel only the client is closed.
Connect ==
  /\ run = "connect"
  /\ \/ run' = "create" /\ ctrl' = "open" /\ UNCHANGED <<then, boundVars>>
     \/ Failed /\ run' = then' /\ UNCHANGED ctrl
  /\ UNCHANGED <<cancelled, transport, listener, serve, retryVars, pause, group, session>>

\* The tunnel is there: ready is called and the accepting goroutine started.
Ready ==
  /\ run = "create" /\ ctrl = "open"
  /\ run' = "serve" /\ listener' = "open" /\ serve' = "accept" /\ pause' = 0
  /\ backoff' = RetryInitial /\ fresh' = TRUE
  /\ UNCHANGED <<cancelled, then, transport, ctrl, delay, group, session, boundVars>>

CreateFails ==
  /\ run = "create"
  /\ Failed /\ run' = "control"
  /\ UNCHANGED <<cancelled, genVars, retryVars, pause, group, session>>

----------------------------------------------------------------------------
(* How a generation ends. *)

\* What the control channel has in its maps: the datagram channels of the
\* tunnel, and the connections of its proxy endpoints.
Owned == {s \in Sessions : session[s].owner = "open"}
Channels == IF kind = "datagram" /\ path = "quic" THEN Owned ELSE {}
Proxied == IF path = "proxy" THEN Owned ELSE {}

Shut(r) == [r EXCEPT !.owner = "closed", !.inbound = "closed"]
Cut(S) == session' = [s \in Sessions |-> IF s \in S THEN Shut(session[s]) ELSE session[s]]


\* The control channel ends with an error nobody asked for: its cleanup keeps
\* accepted channels and detaches the transports of the proxy endpoints, which
\* from then on close with their last connection.
Lost ==
  /\ listener' = (IF listener = "open" THEN "closed" ELSE listener) /\ ctrl' = "lost"
  /\ session' = [s \in Sessions |-> IF s \in Owned THEN [session[s] EXCEPT !.owner = "lost"] ELSE session[s]]

\* tunnel.Close: at once, with the engine's answer, or with the end of a
\* control channel that cannot deliver the request or does not answer it.
CloseTunnel ==
  \/ listener # "open" /\ UNCHANGED <<ctrl, listener, session>>
  \/ listener = "open" /\ listener' = "closed" /\ Cut(Channels) /\ UNCHANGED ctrl
  \/ listener = "open" /\ Lost

\* serveWithCtx sees the context done and closes the tunnel.
Withdraw ==
  /\ run = "serve" /\ cancelled
  /\ run' = "drain" /\ CloseTunnel
  /\ UNCHANGED <<cancelled, then, transport, serve, retryVars, pause, group, boundVars>>

Withdrawn ==
  /\ run = "drain" /\ serve = "ended"
  /\ run' = "tunnel" /\ then' = "leave" /\ serve' = "none"
  /\ UNCHANGED <<cancelled, transport, ctrl, listener, retryVars, pause, group, session, boundVars>>

\* The accepting goroutine ended: the generation is over.  That the tunnel was
\* closed is no fatal error.
GenerationEnds ==
  /\ run = "serve" /\ serve = "ended"
  /\ \/ cancelled /\ then' = "leave" /\ UNCHANGED boundVars
     \/ ~cancelled /\ Failed /\ (ctrl = "open" => then' = "retry")
  /\ run' = "tunnel" /\ serve' = "none"
  /\ UNCHANGED <<cancelled, transport, ctrl, listener, retryVars, pause, group, session>>

\* The deferred calls of runOnceReady: tunnel.Close, ...
TunnelClosed ==
  /\ run = "tunnel"
  /\ run' = "control" /\ CloseTunnel
  /\ UNCHANGED <<cancelled, then, transport, serve, retryVars, pause, group, boundVars>>

\* ... ctrl.Close, which closes what the channel owns unless it was lost
\* before, ...
CloseControl ==
  /\ run = "control"
  /\ run' = "await"
  /\ IF ctrl = "open"
     THEN /\ ctrl' = "closed"
          /\ session' = [s \in Sessions |-> IF s \in Channels \cup Proxied THEN Shut(session[s])
                                           ELSE IF s \in Owned THEN [session[s] EXCEPT !.owner = "closed"] ELSE session[s]]
     ELSE UNCHANGED <<ctrl, session>>
  /\ UNCHANGED <<cancelled, then, transport, listener, serve, retryVars, pause, group, boundVars>>

\* ... and waits until the channel's goroutines have ended; and client.Close,
\* to which the transport does not belong.
ControlClosed ==
  /\ run = "await"
  /\ run' = then /\ ctrl' = "none" /\ listener' = "none"
  /\ UNCHANGED <<cancelled, then, transport, serve, retryVars, pause, group, session, boundVars>>

----------------------------------------------------------------------------
(* The retry loop and the end of run. *)

\* backoff.Next: the wait and the backoff after it.
BackoffNext ==
  LET c == IF backoff < RetryInitial THEN RetryInitial ELSE backoff IN
  [value |-> c, next |-> IF c >= RetryMax - c THEN RetryMax ELSE Wrap(2 * c)]

\* jitterRetry takes up to a fifth off.
Jitter(d) == d - (d \div 5) .. d

Retry ==
  /\ run = "retry"
  /\ backoff' = BackoffNext.next /\ delay' \in Jitter(BackoffNext.value)
  /\ fresh' = FALSE /\ run' = "backoff"
  /\ UNCHANGED <<cancelled, then, genVars, pause, group, session, boundVars>>

RetryWait ==
  /\ run = "backoff"
  /\ \/ run' = "check"
     \/ cancelled /\ run' = "leave"
  /\ UNCHANGED <<cancelled, then, genVars, retryVars, pause, group, session, boundVars>>

\* The deferred calls of run: the transport, with the streams and channels on
\* its connection, then the group.
CloseTransport ==
  /\ run = "leave"
  /\ transport' = "closed" /\ run' = "group"
  /\ Cut(IF path = "quic" THEN {s \in Sessions : session[s].inbound = "open"} ELSE {})
  /\ UNCHANGED <<cancelled, then, ctrl, listener, serve, retryVars, pause, group, boundVars>>

\* Group.Close up to its unlock.
GroupClose ==
  /\ run = "group"
  /\ group' = [group EXCEPT !.closed = TRUE, !.snapshot = group.active]
  /\ run' = "closing"
  /\ UNCHANGED <<cancelled, then, genVars, retryVars, pause, session, boundVars>>

GroupCloseConn ==
  /\ run = "closing"
  /\ \E s \in group.snapshot :
       /\ session' = [session EXCEPT ![s].inbound = "closed"]
       /\ group' = [group EXCEPT !.snapshot = @ \ {s}]
  /\ UNCHANGED <<cancelled, then, run, genVars, retryVars, pause, boundVars>>

\* Its Wait returns, the worker ends and the handle's done is closed.
GroupJoined ==
  /\ run = "closing" /\ group.snapshot = {} /\ group.wg = {}
  /\ run' = "done"
  /\ UNCHANGED <<cancelled, then, genVars, retryVars, pause, group, session, boundVars>>

----------------------------------------------------------------------------
(* serveTCP and serveUDP: the accepting goroutine. *)

\* A connection is accepted and started in the group, which is not closed
\* before the accepting goroutine has ended.
Accept(s) ==
  /\ serve = "accept" /\ listener = "open" /\ session[s] = Idle
  /\ pause' = 0
  /\ session' = [session EXCEPT ![s].at = "dial", ![s].inbound = "open", ![s].owner = "open"]
  /\ group' = [group EXCEPT !.active = @ \cup {s}, !.wg = @ \cup {s}]
  /\ UNCHANGED <<cancelled, run, then, genVars, retryVars, boundVars>>

\* NextAcceptDelay of a temporary error.
NextAcceptDelay(d) ==
  LET c == IF d <= 0 THEN AcceptInitial ELSE Wrap(2 * d) IN
  IF AcceptMax > 0 /\ c > AcceptMax THEN AcceptMax ELSE c

AcceptPauses ==
  /\ serve = "accept" /\ listener = "open" /\ pauses < MaxPauses
  /\ serve' = "pause" /\ pause' = NextAcceptDelay(pause) /\ pauses' = pauses + 1
  /\ UNCHANGED <<cancelled, then, run, transport, ctrl, listener, retryVars, group, session, kind, path, failures>>

\* The pause is over, or the context ends it and Accept's error is returned.
AcceptResumes ==
  /\ serve = "pause"
  /\ serve' = "accept" \/ (cancelled /\ serve' = "ended")
  /\ UNCHANGED <<cancelled, then, run, transport, ctrl, listener, retryVars, pause, group, session, boundVars>>

AcceptFails ==
  /\ serve = "accept" /\ listener = "closed"
  /\ serve' = "ended"
  /\ UNCHANGED <<cancelled, then, run, transport, ctrl, listener, retryVars, pause, group, session, boundVars>>

----------------------------------------------------------------------------
(* The relays: Group.Start's goroutine, proxyTCP and proxyUDP. *)

\* The upstream is dialled under the sessions' context.
Dial(s) ==
  /\ session[s].at = "dial"
  /\ \/ session' = [session EXCEPT ![s].at = "leaving", ![s].inbound = "closed"]
     \/ session' = [session EXCEPT ![s].at = "relay", ![s].outbound = "open", ![s].up = "copy", ![s].down = "copy"]
  /\ UNCHANGED <<cancelled, then, run, genVars, retryVars, pause, group, boundVars>>

\* The AfterFunc of the sessions' context.
CancelRelay(s) ==
  /\ session[s].at = "relay" /\ SessionsCancelled
  /\ {session[s].inbound, session[s].outbound} # {"closed"}
  /\ session' = [session EXCEPT ![s].inbound = "closed", ![s].outbound = "closed"]
  /\ UNCHANGED <<cancelled, then, run, genVars, retryVars, pause, group, boundVars>>

\* The connection copied to, and whether it has a CloseWrite: the upstream's
\* has, and the accepted one unless it is wrapped for a proxy endpoint.
Dst(d) == IF d = "up" THEN "outbound" ELSE "inbound"
HasCloseWrite(d) == d = "up" \/ path # "proxy"

\* copyAndCloseWrite returns: with an error of the copy, the only result on a
\* closed connection, or with that of CloseWrite; without a CloseWrite the
\* connection is closed.
CopyEnds(s, d) ==
  /\ session[s].at = "relay" /\ session[s][d] = "copy"
  /\ \/ session' = [session EXCEPT ![s][d] = "err"]
     \/ /\ kind = "bytestream" /\ "closed" \notin {session[s].inbound, session[s].outbound}
        /\ session' = [session EXCEPT ![s][d] = "eof", ![s][Dst(d)] = IF HasCloseWrite(d) THEN @ ELSE "closed"]
  /\ UNCHANGED <<cancelled, run, then, genVars, retryVars, pause, group, boundVars>>

\* The first result: an error, or any end of a datagram relay, closes both sides.
FirstEnds(s) ==
  /\ session[s].at = "relay" /\ ~session[s].seen
  /\ \E d \in Directions :
       /\ session[s][d] \in {"eof", "err"}
       /\ session' = IF kind = "datagram" \/ session[s][d] = "err"
                     THEN [session EXCEPT ![s].seen = TRUE, ![s].inbound = "closed", ![s].outbound = "closed"]
                     ELSE [session EXCEPT ![s].seen = TRUE]
  /\ UNCHANGED <<cancelled, then, run, genVars, retryVars, pause, group, boundVars>>

\* Both are in: the deferred closes.
RelayReturns(s) ==
  /\ session[s].at = "relay" /\ session[s].seen
  /\ \A d \in Directions : session[s][d] # "copy"
  /\ session' = [session EXCEPT ![s].at = "leaving", ![s].inbound = "closed", ![s].outbound = "closed"]
  /\ UNCHANGED <<cancelled, then, run, genVars, retryVars, pause, group, boundVars>>

Forget(s) ==
  /\ session[s].at = "leaving"
  /\ session' = [session EXCEPT ![s].at = "forgotten"]
  /\ group' = [group EXCEPT !.active = @ \ {s}]
  /\ UNCHANGED <<cancelled, then, run, genVars, retryVars, pause, boundVars>>

SessionDone(s) ==
  /\ session[s].at = "forgotten"
  /\ session' = [session EXCEPT ![s].at = "done"]
  /\ group' = [group EXCEPT !.wg = @ \ {s}]
  /\ UNCHANGED <<cancelled, then, run, genVars, retryVars, pause, boundVars>>

----------------------------------------------------------------------------
(* The environment. *)

\* The control channel is lost, and the tunnel with it.
ControlLost ==
  /\ ctrl = "open"
  /\ Lost
  /\ UNCHANGED <<cancelled, run, then, transport, serve, retryVars, pause, group, boundVars>>

\* The engine closes the tunnel and leaves the control channel up.
TunnelEnded ==
  /\ listener = "open" /\ failures < MaxFailures
  /\ listener' = "closed" /\ Cut(Channels)
  /\ UNCHANGED <<cancelled, run, then, transport, ctrl, serve, retryVars, pause, group, boundVars>>

\* The handle is stopped or the command's context done.
Cancel ==
  /\ ~cancelled /\ run # "done"
  /\ cancelled' = TRUE
  /\ UNCHANGED <<run, then, genVars, retryVars, pause, group, session, boundVars>>

----------------------------------------------------------------------------

WorkerStep ==
  \/ NewTransport \/ Check \/ Connect \/ Ready \/ CreateFails \/ Withdraw \/ Withdrawn
  \/ GenerationEnds \/ TunnelClosed \/ CloseControl \/ Retry \/ RetryWait \/ CloseTransport
  \/ GroupClose \/ GroupCloseConn \/ GroupJoined
ServeStep == AcceptPauses \/ AcceptResumes \/ AcceptFails \/ \E s \in Sessions : Accept(s)
RelayStep(s) ==
  \/ Dial(s) \/ CancelRelay(s) \/ FirstEnds(s) \/ RelayReturns(s) \/ Forget(s) \/ SessionDone(s)

\* A read of a closed connection fails, and so does the copy to the upstream
\* once that is closed; what the upstream does not send is never written.
CopyFails(s, d) == /\ session[s].outbound = "closed" \/ (d = "up" /\ session[s].inbound = "closed")
                   /\ CopyEnds(s, d)

Finished == run = "done" /\ UNCHANGED vars

Next ==
  \/ WorkerStep \/ ControlClosed \/ ServeStep \/ ControlLost \/ TunnelEnded \/ Cancel \/ Finished
  \/ \E s \in Sessions : RelayStep(s) \/ \E d \in Directions : CopyEnds(s, d)

RunSpec == Init /\ [][Next]_vars

\* The goroutines go on while one can, but for ctrl.Close: the channel's own
\* goroutines, which it waits for, may not end.  A copy ends once it reads a
\* closed connection, and is otherwise as long as its peers like.
Runs ==
  \/ WorkerStep \/ AcceptResumes \/ AcceptFails
  \/ \E s \in Sessions : RelayStep(s) \/ \E d \in Directions : CopyFails(s, d)

----------------------------------------------------------------------------
(* Properties. *)

\* When the worker's done channel closes no relay is left: all have ended,
\* their two connections, the control channel and the transport are closed,
\* and nothing accepts.
DoneJoined ==
  run = "done" =>
    /\ serve = "none" /\ ctrl = "none" /\ transport # "open"
    /\ \A s \in Sessions :
         /\ session[s].at \in {"none", "done"}
         /\ session[s].inbound # "open" /\ session[s].outbound # "open"

\* The worker ends, and its relays with it.
Ending == SessionsCancelled \/ transport = "closed"

\* A relay both directions of which copy loses its accepted connection with
\* its generation only when the worker itself closed the control channel: a
\* lost channel, whose cleanup has to tell the two ends apart, leaves it alone
\* on every path ("established customer sessions" outlive their generation),
\* and over TLS so does the other.
RelaysOutlive ==
  \A s \in Sessions :
    session[s].up = "copy" /\ session[s].down = "copy" /\ session[s].inbound = "closed" =>
      Ending \/ (session[s].owner = "closed" /\ path # "tls")

\* A clean end of one direction of a TCP relay leaves the other its
\* connections: half-close is passed on, not turned into a close.  On a proxy
\* endpoint only from the client to the upstream: the accepted connection has
\* no CloseWrite there, and the upstream's end closes it.
HalfCloseKept ==
  kind = "bytestream" =>
    \A s \in Sessions :
      {session[s].up, session[s].down} = {"eof", "copy"} /\ session[s].inbound = "closed" =>
        Ending \/ (path = "proxy" /\ (session[s].down = "eof" \/ session[s].owner = "closed"))

\* Whatever the failures, the backoff stays between its initial value and the
\* ceiling without overflow, starts over after a tunnel was established, and
\* no wait exceeds the ceiling.
BackoffInRange ==
  /\ backoff \in RetryInitial..RetryMax /\ delay \in 0..RetryMax
  /\ fresh => backoff = RetryInitial

\* What the worker and its relays keep at any moment.
TunnelInv == TypeOK /\ DoneJoined /\ RelaysOutlive /\ HalfCloseKept /\ BackoffInRange

\* The relays of a stopped worker have all ended, wherever its generations
\* were, and so has the worker unless it is in a ctrl.Close that does not
\* return; and a relay with a failed direction has ended: its other copy is not
\* left waiting on a peer that may never speak again.  Not so with datagram
\* channels, whose Close need not return either.
Settled ==
  kind = "bytestream" \/ path # "quic" =>
    /\ cancelled => run \in {"await", "done"} /\ \A s \in Sessions : session[s].at \in {"none", "done"}
    /\ \A s \in Sessions : "err" \in {session[s].up, session[s].down} => session[s].at = "done"
=============================================================================
