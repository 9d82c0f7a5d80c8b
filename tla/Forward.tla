---- MODULE Forward ----
(***************************************************************************)
(* rstream forward and rstream files: one tunnel kept up across control    *)
(* channel generations, the relays that outlive a generation, the HTTP     *)
(* requests of a file share that do not, the status the user sees, and the *)
(* way out.                                                                *)
(***************************************************************************)
EXTENDS Naturals, FiniteSets

CONSTANTS Conns,  \* connections that can come through the tunnel
          MaxGens \* control channels one after the other

VARIABLES cfg,     \* [retry, ui, kind, owned]: options, kind of tunnel, "tcp" | "udp" | "files", and
                   \* whether the control channel owns what is accepted: the connections of a
                   \* proxy endpoint over QUIC, which have no CloseWrite, or datagram channels
          main,    \* where run and runOnce are
          gen,     \* control channels opened so far
          err,     \* why runOnce returns
          reported,\* the error was shown as a status
          status,  \* the last status shown
          ctrl,    \* the control channel: "none" | "open" | "closed"
          tunnel,  \* the tunnel: "none" | "open" | "lost" with its control channel | "ended" | "closed"
          ctx,     \* the run is cancelled: interrupt, or the user left the UI
          gate,    \* stopping, of serveFilesHTTP
          group,   \* the session group: "open" | "closed"
          ended,   \* the client is closed and the UI stopped
          c        \* connection -> its relay or request

vars == <<cfg, main, gen, err, reported, status, ctrl, tunnel, ctx, gate, group, ended, c>>

Configs == [retry : BOOLEAN, ui : BOOLEAN, kind : {"tcp", "udp", "files"}, owned : BOOLEAN]
Fresh == [st |-> "none", gen |-> 0, ctl |-> "up", inb |-> "none", outb |-> "none", up |-> "copy", down |-> "copy",
          seen |-> FALSE, row |-> "none"]
Live(x) == c[x].st \in {"dial", "relay", "request"}

\* Errors that forwardRetryableError gives up on: a cancelled context, any
\* expired deadline, and the engine's final refusals.
forwardRetryableError(e) == e \in {"network", "unavailable", "lost"}

\* What connecting can end with.  A transport error of a project that the
\* control plane says is not active becomes a final refusal, and a dial that
\* runs out of its own 30 s ends with an expired deadline.
ConnectErrors == {"network", "unavailable", "deadline", "refused", "inactive"} \cup IF ctx THEN {"canceled"} ELSE {}

\* Shows a status; runs on to the next statement.
Show(st) == status' = st
Leave(e, rep) == main' = "closing" /\ err' = e /\ reported' = rep

----------------------------------------------------------------------------
(* run and runOnce *)

\* The top of the loop.
Begin ==
  /\ main = "top"
  /\ IF ctx THEN main' = "leaving" /\ err' = "canceled" /\ UNCHANGED <<status, reported>>
     ELSE main' = "connect" /\ Show("connecting") /\ err' = "none" /\ reported' = FALSE
  /\ UNCHANGED <<cfg, gen, ctrl, tunnel, ctx, gate, group, ended, c>>

Connect ==
  /\ main = "connect"
  /\ \/ /\ gen < MaxGens
        /\ gen' = gen + 1 /\ ctrl' = "open" /\ Show("connected") /\ main' = "create"
        /\ UNCHANGED <<err, reported>>
     \/ /\ \E e \in ConnectErrors : Leave(e, TRUE)
        /\ Show("failed") /\ UNCHANGED <<gen, ctrl>>
  /\ UNCHANGED <<cfg, tunnel, ctx, gate, group, ended, c>>

\* CreateTunnel, the properties and the addresses of the tunnel, then online.
\* A file share refuses properties that contradict its password, unreported.
CreateTunnel ==
  /\ main = "create"
  /\ \/ /\ tunnel' = "open" /\ Show("online") /\ main' = "serving" /\ gate' = FALSE
        /\ UNCHANGED <<err, reported>>
     \/ /\ \E e \in {"network", "refused", "deadline"} : Leave(e, TRUE)
        /\ tunnel' \in {"none", "open"} /\ Show("failed") /\ UNCHANGED gate
     \/ /\ cfg.kind = "files" /\ Leave("refused", FALSE)
        /\ tunnel' = "open" /\ UNCHANGED <<status, gate>>
  /\ UNCHANGED <<cfg, gen, ctrl, ctx, group, ended, c>>

\* serveTCP and serveUDP start a relay in the group, with a row in the UI; the
\* HTTP server of a file share admits a request while the gate is open.
Accept(x) ==
  /\ main \in {"serving", "stopping"} /\ tunnel = "open" /\ c[x].st = "none" /\ ~gate
  /\ c' = [c EXCEPT ![x] = [Fresh EXCEPT !.st = IF cfg.kind = "files" THEN "request" ELSE "dial",
                                         !.gen = gen, !.inb = "open", !.row = IF cfg.ui THEN "active" ELSE "none"]]
  /\ UNCHANGED <<cfg, main, gen, err, reported, status, ctrl, tunnel, ctx, gate, group, ended>>

\* The control channel is lost or the tunnel ended: Accept fails for good.
ServeEnds ==
  /\ main = "serving" /\ tunnel \in {"lost", "ended"}
  /\ IF cfg.kind = "files" THEN main' = "draining" /\ gate' = TRUE /\ err' = "lost" /\ UNCHANGED reported
     ELSE Leave("lost", FALSE) /\ UNCHANGED gate
  /\ UNCHANGED <<cfg, gen, status, ctrl, tunnel, ctx, group, ended, c>>

\* serveWithCtx and serveFilesHTTP see the cancelled context, close the
\* listener and wait for the accept loop.
CtxStops ==
  /\ main = "serving" /\ ctx
  /\ main' = "stopping"
  /\ UNCHANGED <<cfg, gen, err, reported, status, ctrl, tunnel, ctx, gate, group, ended, c>>

AcceptLoopEnds ==
  /\ main = "stopping"
  /\ tunnel' = (IF tunnel = "lost" THEN "lost" ELSE "closed")
  /\ IF cfg.kind = "files" THEN main' = "draining" /\ gate' = TRUE /\ err' = "canceled" /\ UNCHANGED reported
     ELSE Leave("canceled", FALSE) /\ UNCHANGED gate
  /\ UNCHANGED <<cfg, gen, status, ctrl, ctx, group, ended, c>>

\* requests.Wait, after the requests' context is cancelled and the server shut
\* down or closed.
RequestsDone ==
  /\ main = "draining" /\ \A x \in Conns : ~Live(x)
  /\ main' = "closing"
  /\ UNCHANGED <<cfg, gen, err, reported, status, ctrl, tunnel, ctx, gate, group, ended, c>>

\* The deferred closes of the tunnel and of the control channel, the status of
\* an end that was not shown, and the choice between a retry and the way out.
\* Unless it was lost before, the control channel closes what it owns.
CloseGeneration ==
  /\ main = "closing"
  /\ c' = [x \in Conns |-> IF Live(x) /\ c[x].ctl = "up"
                           THEN [c[x] EXCEPT !.ctl = "shut", !.inb = IF cfg.owned THEN "closed" ELSE @] ELSE c[x]]
  /\ tunnel' = (IF tunnel = "none" THEN "none" ELSE "closed")
  /\ ctrl' = (IF ctrl = "none" THEN "none" ELSE "closed")
  /\ IF reported THEN UNCHANGED status ELSE Show("disconnected")
  /\ main' = IF forwardRetryableError(err) /\ cfg.retry THEN "waiting" ELSE "leaving"
  /\ UNCHANGED <<cfg, gen, err, reported, ctx, gate, group, ended>>

\* The reconnect interval, or the cancelled context.
WaitEnds ==
  /\ main = "waiting"
  /\ main' = IF ctx THEN "leaving" ELSE "top"
  /\ ctrl' = "none" /\ tunnel' = "none"
  /\ UNCHANGED <<cfg, gen, err, reported, status, ctx, gate, group, ended, c>>

\* Group.Close: no more sessions, their context cancelled, their inbound sides
\* closed.
CloseGroup ==
  /\ main = "leaving"
  /\ group' = "closed" /\ main' = "joining"
  /\ c' = [x \in Conns |-> IF Live(x) THEN [c[x] EXCEPT !.inb = "closed"] ELSE c[x]]
  /\ UNCHANGED <<cfg, gen, err, reported, status, ctrl, tunnel, ctx, gate, ended>>

\* The group's wait, then the deferred calls of the command: the UI stops, the
\* client and the file service are closed.
Return ==
  /\ main = "joining" /\ \A x \in Conns : ~Live(x)
  /\ main' = "returned" /\ ended' = TRUE
  /\ UNCHANGED <<cfg, gen, err, reported, status, ctrl, tunnel, ctx, gate, group, c>>

----------------------------------------------------------------------------
(* Relays and requests *)

Over(r) == [r EXCEPT !.st = "over", !.inb = "closed", !.outb = IF @ = "none" THEN "none" ELSE "closed",
                     !.row = IF @ = "none" THEN "none" ELSE "closed"]

DialUpstream(x) ==
  /\ c[x].st = "dial"
  /\ \/ group = "open" /\ c' = [c EXCEPT ![x].st = "relay", ![x].outb = "open"]
     \/ c' = [c EXCEPT ![x] = Over(@)]
  /\ UNCHANGED <<cfg, main, gen, err, reported, status, ctrl, tunnel, ctx, gate, group, ended>>

\* A direction whose source or destination was closed under it: copying from
\* the inbound side fails at once, copying from the upstream only once that
\* side is closed too.
CopyFails(x) ==
  /\ c[x].st = "relay"
  /\ \/ c[x].up = "copy" /\ (c[x].inb = "closed" \/ c[x].outb = "closed") /\ c' = [c EXCEPT ![x].up = "error"]
     \/ c[x].down = "copy" /\ c[x].outb = "closed" /\ c' = [c EXCEPT ![x].down = "error"]
  /\ UNCHANGED <<cfg, main, gen, err, reported, status, ctrl, tunnel, ctx, gate, group, ended>>


\* The first result of Bidirectional, or of the two loops of proxyUDP: an
\* error, or any end of a datagram relay, closes both sides.
FirstEnds(x) ==
  /\ c[x].st = "relay" /\ ~c[x].seen
  /\ LET ends == {d \in {"up", "down"} : c[x][d] # "copy"} IN
     \E d \in ends :
       c' = [c EXCEPT ![x] = IF @[d] = "error" \/ cfg.kind = "udp"
                             THEN [@ EXCEPT !.seen = TRUE, !.inb = "closed", !.outb = "closed"]
                             ELSE [@ EXCEPT !.seen = TRUE]]
  /\ UNCHANGED <<cfg, main, gen, err, reported, status, ctrl, tunnel, ctx, gate, group, ended>>

SecondEnds(x) ==
  /\ c[x].st = "relay" /\ c[x].seen /\ c[x].up # "copy" /\ c[x].down # "copy"
  /\ c' = [c EXCEPT ![x] = Over(@)]
  /\ UNCHANGED <<cfg, main, gen, err, reported, status, ctrl, tunnel, ctx, gate, group, ended>>

\* A request ends by itself, or because its context is cancelled and its
\* connection closed.
RequestCancelled(x) ==
  /\ c[x].st = "request" /\ (gate \/ ctx)
  /\ c' = [c EXCEPT ![x] = Over(@)]
  /\ UNCHANGED <<cfg, main, gen, err, reported, status, ctrl, tunnel, ctx, gate, group, ended>>

\* The peers: a side finishes or breaks, and what the upstream sends cannot be
\* written once the inbound side is closed.  The clean end is passed on with
\* CloseWrite, or with Close to a connection without one.
PeerEnds(x) ==
  /\ \/ /\ c[x].st = "relay"
        /\ \E d \in {"up", "down"} : \E how \in IF c[x].inb = "open" THEN {"ok", "error"} ELSE {"error"} :
             /\ c[x][d] = "copy"
             /\ c' = [c EXCEPT ![x][d] = how,
                               ![x].inb = IF <<d, how, cfg.kind>> = <<"down", "ok", "tcp">> /\ cfg.owned
                                          THEN "closed" ELSE @]
     \/ c[x].st = "request" /\ c' = [c EXCEPT ![x] = Over(@)]
  /\ UNCHANGED <<cfg, main, gen, err, reported, status, ctrl, tunnel, ctx, gate, group, ended>>

\* Interrupt, or the user leaves the UI; the control channel is lost, which
\* leaves accepted connections alone; the engine ends the tunnel, and its
\* datagram channels.
Stop ==
  /\ ~ctx /\ main # "returned" /\ ctx' = TRUE
  /\ UNCHANGED <<cfg, main, gen, err, reported, status, ctrl, tunnel, gate, group, ended, c>>
ControlLost ==
  /\ tunnel = "open" /\ main = "serving" /\ tunnel' = "lost"
  /\ c' = [x \in Conns |-> IF Live(x) /\ c[x].ctl = "up" THEN [c[x] EXCEPT !.ctl = "lost"] ELSE c[x]]
  /\ UNCHANGED <<cfg, main, gen, err, reported, status, ctrl, ctx, gate, group, ended>>
TunnelEnded ==
  /\ tunnel = "open" /\ main = "serving" /\ tunnel' = "ended"
  /\ c' = [x \in Conns |-> IF Live(x) /\ c[x].ctl = "up" /\ cfg.owned /\ cfg.kind = "udp"
                           THEN [c[x] EXCEPT !.ctl = "shut", !.inb = "closed"] ELSE c[x]]
  /\ UNCHANGED <<cfg, main, gen, err, reported, status, ctrl, ctx, gate, group, ended>>

----------------------------------------------------------------------------
Init ==
  /\ cfg \in Configs /\ main = "top" /\ gen = 0 /\ err = "none" /\ reported = FALSE /\ status = "none"
  /\ ctrl = "none" /\ tunnel = "none" /\ ctx = FALSE /\ gate = FALSE /\ group = "open" /\ ended = FALSE
  /\ c = [x \in Conns |-> Fresh]

MainSteps ==
  \/ Begin \/ CreateTunnel \/ ServeEnds \/ CtxStops \/ AcceptLoopEnds \/ RequestsDone
  \/ WaitEnds \/ CloseGroup \/ Return
RelaySteps(x) == DialUpstream(x) \/ CopyFails(x) \/ FirstEnds(x) \/ SecondEnds(x) \/ RequestCancelled(x)
Runs == MainSteps \/ Connect \/ (ctrl = "none" /\ CloseGeneration) \/ \E x \in Conns : RelaySteps(x)
Next == Runs \/ CloseGeneration \/ Stop \/ ControlLost \/ TunnelEnded \/ \E x \in Conns : Accept(x) \/ PeerEnds(x)

Spec == Init /\ [][Next]_vars
\* The goroutines run, but for the Close of a control channel, which need not
\* return; nothing is assumed of the engine, of the upstream or of the clients.
FairSpec == Spec /\ WF_vars(Runs)

TypeOK ==
  /\ main \in {"top", "connect", "create", "serving", "stopping", "draining", "closing", "waiting", "leaving", "joining", "returned"}
  /\ gen \in 0..MaxGens /\ ctrl \in {"none", "open", "closed"} /\ tunnel \in {"none", "open", "lost", "ended", "closed"}
  /\ status \in {"none", "connecting", "connected", "online", "failed", "disconnected"}
  /\ DOMAIN c = Conns

\* When the command returns nothing it opened is left: no relay or request
\* runs, the control channel and the tunnel are closed, the client is closed,
\* the UI is stopped and shows no live connection.
NothingLeft ==
  main = "returned" =>
    /\ ended /\ ctrl # "open" /\ tunnel \in {"none", "closed"}
    /\ \A x \in Conns : c[x].st \in {"none", "over"} /\ c[x].row # "active" /\ c[x].outb # "open"

\* A relay outlives its generation: as long as both its directions copy, only
\* the end of the command closes it, or the Close of a control channel that
\* still owned it; never the loss of one.
RelaysOutlive ==
  \A x \in Conns : c[x].st = "relay" /\ c[x].up = "copy" /\ c[x].down = "copy" /\ group = "open"
                     => c[x].outb = "open" /\ (c[x].inb = "open" \/ (c[x].ctl = "shut" /\ cfg.owned))

\* A request of a file share does not: no generation begins, and the service
\* is not closed, while a request of an earlier one is handled.
RequestsJoined ==
  \A x \in Conns : c[x].st = "request" => c[x].gen = gen /\ main \in {"serving", "stopping", "draining"}

\* The status is true: "online" is shown only while the tunnel is served or is
\* just ending, and whoever waits for a reconnection or was left with an error
\* sees that it failed.
StatusTrue ==
  /\ status = "online" => ctrl = "open" /\ tunnel # "none"
  /\ main \in {"waiting", "returned"} /\ gen > 0 => status \in {"failed", "disconnected"}

\* Half-close is kept: after a clean end of one direction the other goes on
\* until it ends itself.  Only an upstream's end closes a connection of a proxy
\* endpoint.
HalfCloseKept ==
  \A x \in Conns : c[x].st = "relay" /\ cfg.kind = "tcp" /\ c[x].seen =>
    /\ c[x].outb = "closed" => "error" \in {c[x].up, c[x].down}
    /\ c[x].inb = "closed" /\ "error" \notin {c[x].up, c[x].down} /\ group = "open" =>
         cfg.owned /\ (c[x].down = "ok" \/ c[x].ctl = "shut")

ForwardInv == NothingLeft /\ RelaysOutlive /\ RequestsJoined /\ StatusTrue /\ HalfCloseKept

\* A half-closed relay: its client has finished sending, its upstream has not.
Waiting == \E x \in Conns : c[x].st = "relay" /\ c[x].seen /\ c[x].up = "ok" /\ c[x].down = "copy" /\ c[x].outb = "open"

\* Under fair goroutines the command returns once it is stopped, unless a relay
\* waits for its upstream or the Close of the control channel, or of a datagram
\* channel, does not return.
Settled == ctx /\ ~Waiting /\ ~(cfg.owned /\ cfg.kind = "udp") => main = "returned" \/ (main = "closing" /\ ctrl = "open")
====
