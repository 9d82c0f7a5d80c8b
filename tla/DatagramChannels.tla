-------------------------- MODULE DatagramChannels --------------------------
(***************************************************************************)
(* The datagram channels of one QUIC datagram tunnel (client.go,           *)
(* quic_transport.go): a proxy request registers a channel with the        *)
(* control channel and with the transport, and queues it on the listener   *)
(* of the tunnel; Accept takes it from there.  A channel is closed by the  *)
(* application, the engine, the end of the tunnel, the end of the control  *)
(* channel or the loss of the QUIC connection, once.                       *)
(*                                                                         *)
(* Closing runs inside sync.Once: a second caller waits until the first    *)
(* one is through, and the first one may itself run the cleanup of the     *)
(* control channel when it cannot tell the engine.                         *)
(***************************************************************************)
EXTENDS Naturals, Sequences

CONSTANTS
  Streams,        \* proxy requests
  ChannelIds,     \* what the stream IDs may be shortened to
  Acceptors,
  QueueSize,      \* of the listener: 10 in the code
  TransportLoss,  \* whether the QUIC connection may be lost
  None

VARIABLES
  idOf,          \* the channel ID of a stream
  worker,        \* per stream: where its proxy request is
  channels,      \* controlChannelImpl.datagramChannels
  listening,     \* the tunnel's entry in datagramTunnels
  listened,      \* per stream: it saw that entry
  registry,      \* QUICTransport.datagramChannels
  connected,     \* the QUIC connection is up
  queue,         \* quicDatagramListener.conns
  listenerDone,  \* the context of the listener
  tunnelDone,    \* the context of the tunnel
  lifecycleDone, \* lifecycleCtx
  ctlClosed,     \* controlChannelImpl.closed
  preserve,      \* preserveStreams of the cleanup
  state,         \* per channel: its once
  local,         \* channels closed by Close rather than initiateClose
  delivery,      \* channels whose deliveryState is accepted
  accepting,     \* per acceptor
  returned,      \* channels that Accept returned
  responded,     \* streams whose ProxyConnRsp is written
  notified,      \* streams whose DatagramChannelClose is written
  cleaner,       \* the cleanup of the control channel
  reader,        \* the cleanup that readLoop runs
  loser          \* the channels a lost connection still has to close

mapVars == <<channels, listening, registry, connected>>
ctxVars == <<listenerDone, tunnelDone, lifecycleDone, ctlClosed, preserve>>
chanVars == <<state, local, delivery>>
engineVars == <<responded, notified>>
cleanVars == <<cleaner, reader, loser>>
vars == <<idOf, worker, listened, mapVars, queue, ctxVars, chanVars, accepting, returned, engineVars,
          cleanVars>>

\* A cleanup: where it is, the channels it has still to close, the one it is
\* closing, and whether it closes the listener.
Idle == [pc |-> "idle", todo |-> {}, at |-> None, listener |-> FALSE]

Init ==
  /\ idOf \in [Streams -> ChannelIds]
  /\ worker = [s \in Streams |-> "idle"]
  /\ channels = {} /\ listening = TRUE /\ registry = {} /\ connected = TRUE
  /\ listened = [s \in Streams |-> FALSE]
  /\ queue = <<>>
  /\ listenerDone = FALSE /\ tunnelDone = FALSE /\ lifecycleDone = FALSE
  /\ ctlClosed = FALSE /\ preserve = FALSE
  /\ state = [s \in Streams |-> "open"]
  /\ local = {} /\ delivery = {}
  /\ accepting = [a \in Acceptors |-> None]
  /\ returned = {} /\ responded = {} /\ notified = {}
  /\ cleaner = Idle /\ reader = Idle /\ loser = Idle

Taken(map, s) == \E r \in map : idOf[r] = idOf[s]

-----------------------------------------------------------------------------
(* quicDatagramChannel.close.  BeginClose is a caller entering the once.   *)

BeginClose(s, isLocal) ==
  /\ state[s] = "open"
  /\ state' = [state EXCEPT ![s] = "closing"]
  /\ local' = IF isLocal THEN local \cup {s} ELSE local

\* onClose, and the conditions of onLocalClose: neither a tunnel that has
\* ended nor a closed control channel is told.
Unregister(s) ==
  /\ state[s] = "closing"
  /\ channels' = channels \ {s}
  /\ registry' = registry \ {s}
  /\ state' = [state EXCEPT ![s] = IF s \in local /\ ~tunnelDone /\ ~ctlClosed THEN "notify" ELSE "closed"]
  /\ UNCHANGED <<idOf, worker, listened, listening, connected, queue, ctxVars, local, delivery, accepting,
                 returned, engineVars, cleanVars>>

\* notifyDatagramChannelClose waits for the answer to the proxy request.
Notify(s) ==
  /\ state[s] = "notify"
  /\ state' = [state EXCEPT ![s] = "closed"]
  /\ \/ s \in responded /\ ~lifecycleDone /\ connected /\ notified' = notified \cup {s}
     \/ lifecycleDone /\ UNCHANGED notified
  /\ UNCHANGED <<idOf, worker, listened, mapVars, queue, ctxVars, local, delivery, accepting, returned,
                 responded, cleanVars>>

\* detachCleanupLocked, under mu; onError then runs the cleanup.
Detach(err) ==
  /\ ctlClosed' = TRUE /\ preserve' = err
  /\ cleaner' = [pc |-> "tunnels", todo |-> channels, at |-> None, listener |-> listening]
  /\ channels' = {} /\ listening' = FALSE

\* The answer does not come in time or the message cannot be written: onError,
\* inside the once.  A caller that does not get the write lock in time returns
\* its error and leaves the control channel alone.
NotifyFails(s) ==
  /\ state[s] = "notify"
  /\ \/ /\ ~ctlClosed
        /\ state' = [state EXCEPT ![s] = "cleaning"]
        /\ Detach(TRUE)
     \/ /\ ctlClosed \/ s \in responded
        /\ state' = [state EXCEPT ![s] = "closed"]
        /\ UNCHANGED <<ctlClosed, preserve, cleaner, channels, listening>>
  /\ UNCHANGED <<idOf, worker, listened, registry, connected, queue, listenerDone, tunnelDone, lifecycleDone, local,
                 delivery, accepting, returned, engineVars, reader, loser>>

\* onError returns when it has run the cleanup.
Cleaned(s) ==
  /\ state[s] = "cleaning" /\ cleaner.pc = "done"
  /\ state' = [state EXCEPT ![s] = "closed"]
  /\ UNCHANGED <<idOf, worker, listened, mapVars, queue, ctxVars, local, delivery, accepting, returned,
                 engineVars, cleanVars>>

-----------------------------------------------------------------------------
(* handleDatagramProxyConnReq, in a proxy worker.                          *)

WorkerGoes(s, to) == worker' = [worker EXCEPT ![s] = to]

\* Under mu.  A channel that is not registered is closed on the spot.
Register(s) ==
  /\ worker[s] = "idle" /\ ~lifecycleDone
  /\ IF ctlClosed \/ Taken(channels, s)
     THEN /\ WorkerGoes(s, "respond") /\ UNCHANGED <<channels, listened>>
          /\ state' = [state EXCEPT ![s] = "closed"]
     ELSE /\ channels' = channels \cup {s}
          /\ listened' = [listened EXCEPT ![s] = listening]
          /\ WorkerGoes(s, "registry") /\ UNCHANGED state
  /\ UNCHANGED <<idOf, listening, registry, connected, queue, ctxVars, local, delivery, accepting, returned,
                 engineVars, cleanVars>>

\* registerDatagramChannel of the transport.
RegisterTransport(s) ==
  /\ worker[s] = "registry"
  /\ IF ~connected \/ Taken(registry, s)
     THEN channels' = channels \ {s} /\ WorkerGoes(s, "close") /\ UNCHANGED registry
     ELSE registry' = registry \cup {s} /\ WorkerGoes(s, "deliver") /\ UNCHANGED channels
  /\ UNCHANGED <<idOf, listened, listening, connected, queue, ctxVars, chanVars, accepting, returned, engineVars,
                 cleanVars>>

Deliver(s) ==
  /\ worker[s] = "deliver"
  /\ IF listened[s] /\ Len(queue) < QueueSize
     THEN queue' = Append(queue, s) /\ WorkerGoes(s, "respond")
     ELSE WorkerGoes(s, "close") /\ UNCHANGED queue
  /\ UNCHANGED <<idOf, listened, mapVars, ctxVars, chanVars, accepting, returned, engineVars, cleanVars>>

WorkerCloses(s) ==
  /\ worker[s] = "close" /\ BeginClose(s, FALSE)
  /\ UNCHANGED <<idOf, worker, listened, mapVars, queue, ctxVars, delivery, accepting, returned, engineVars,
                 cleanVars>>

WorkerClosed(s) ==
  /\ worker[s] = "close" /\ state[s] = "closed"
  /\ WorkerGoes(s, "respond")
  /\ UNCHANGED <<idOf, listened, mapVars, queue, ctxVars, chanVars, accepting, returned, engineVars, cleanVars>>

\* The response loop writes the answer and marks the channel.
Respond(s) ==
  /\ worker[s] = "respond" /\ ~lifecycleDone
  /\ WorkerGoes(s, "done")
  /\ responded' = responded \cup {s}
  /\ UNCHANGED <<idOf, listened, mapVars, queue, ctxVars, chanVars, accepting, returned, notified, cleanVars>>

-----------------------------------------------------------------------------
(* quicDatagramListener.Accept.                                            *)

Accepting(a) == accepting[a] # None

AcceptPop(a) ==
  /\ accepting[a] = None /\ queue # <<>>
  /\ accepting' = [accepting EXCEPT ![a] = [pc |-> "popped", ch |-> Head(queue)]]
  /\ queue' = Tail(queue)
  /\ UNCHANGED <<idOf, worker, listened, mapVars, ctxVars, chanVars, returned, engineVars, cleanVars>>

\* The listener was closed meanwhile: Close of the channel, inside Accept.
AcceptLate(a) ==
  /\ Accepting(a) /\ accepting[a].pc = "popped" /\ listenerDone
  /\ LET s == accepting[a].ch IN
     \/ BeginClose(s, TRUE) /\ UNCHANGED accepting
     \/ state[s] = "closed" /\ accepting' = [accepting EXCEPT ![a] = None] /\ UNCHANGED <<state, local>>
  /\ UNCHANGED <<idOf, worker, listened, mapVars, queue, ctxVars, delivery, returned, engineVars, cleanVars>>

AcceptCheck(a) ==
  /\ Accepting(a) /\ accepting[a].pc = "popped" /\ ~listenerDone
  /\ accepting' = [accepting EXCEPT ![a].pc = "checked"]
  /\ UNCHANGED <<idOf, worker, listened, mapVars, queue, ctxVars, chanVars, returned, engineVars, cleanVars>>

\* The compare-and-swap of deliveryState; a channel is in the queue only once.
AcceptMark(a) ==
  /\ Accepting(a) /\ accepting[a].pc = "checked"
  /\ delivery' = delivery \cup {accepting[a].ch}
  /\ accepting' = [accepting EXCEPT ![a].pc = "marked"]
  /\ UNCHANGED <<idOf, worker, listened, mapVars, queue, ctxVars, state, local, returned, engineVars, cleanVars>>

\* A channel that is closed already is skipped.
AcceptReturns(a) ==
  /\ Accepting(a) /\ accepting[a].pc = "marked"
  /\ accepting' = [accepting EXCEPT ![a] = None]
  /\ returned' = IF state[accepting[a].ch] # "open" THEN returned ELSE returned \cup {accepting[a].ch}
  /\ UNCHANGED <<idOf, worker, listened, mapVars, queue, ctxVars, chanVars, engineVars, cleanVars>>

\* The application closes a channel it was given.
AppCloses(s) ==
  /\ s \in returned /\ BeginClose(s, TRUE)
  /\ UNCHANGED <<idOf, worker, listened, mapVars, queue, ctxVars, delivery, accepting, returned, engineVars,
                 cleanVars>>

-----------------------------------------------------------------------------
(* The cleanups.  Each is a list of channels closed one after the other,   *)
(* after the listener if it has one to close: p is its state, p2 the next. *)

\* initiateClose of the channel a cleanup is at.
Closing(p, p2, isLocal) ==
  /\ p.at # None
  /\ \/ BeginClose(p.at, isLocal) /\ p2 = p
     \/ state[p.at] = "closed" /\ p2 = [p EXCEPT !.at = None] /\ UNCHANGED <<state, local>>

\* quicDatagramListener.Close: cancel, then everything in the queue.
ListenerDrain(p, p2) ==
  /\ p.pc = "listener" /\ p.at = None
  /\ listenerDone' = TRUE
  /\ IF queue = <<>> THEN p2 = [p EXCEPT !.pc = "channels"] /\ UNCHANGED queue
                     ELSE p2 = [p EXCEPT !.at = Head(queue)] /\ queue' = Tail(queue)

\* controlChannelCleanup.run: after the loss of the control channel the
\* accepted channels stay.
Spared(s) == preserve /\ s \in delivery

NextChannel(p, p2, spares) ==
  /\ p.pc = "channels" /\ p.at = None
  /\ IF p.todo = {} THEN p2 = [p EXCEPT !.pc = "done"]
     ELSE \E s \in p.todo :
            p2 = [p EXCEPT !.todo = @ \ {s}, !.at = IF spares /\ Spared(s) THEN None ELSE s]

\* controlChannelCleanup.run before it closes anything: the end of the tunnel's
\* context, then of lifecycleCtx.
CleanerCancels ==
  /\ \/ /\ cleaner.pc = "tunnels"
        /\ cleaner' = [cleaner EXCEPT !.pc = "lifecycle"]
        /\ tunnelDone' = (tunnelDone \/ cleaner.listener) /\ UNCHANGED lifecycleDone
     \/ /\ cleaner.pc = "lifecycle"
        /\ cleaner' = [cleaner EXCEPT !.pc = IF cleaner.listener THEN "listener" ELSE "channels"]
        /\ lifecycleDone' = TRUE /\ UNCHANGED tunnelDone
  /\ UNCHANGED <<idOf, worker, listened, mapVars, queue, listenerDone, ctlClosed, preserve, chanVars, accepting,
                 returned, engineVars, reader, loser>>

CleanerStep ==
  /\ \/ ListenerDrain(cleaner, cleaner') /\ UNCHANGED <<state, local>>
     \/ NextChannel(cleaner, cleaner', TRUE) /\ UNCHANGED <<state, local, queue, listenerDone>>
     \/ Closing(cleaner, cleaner', FALSE) /\ UNCHANGED <<queue, listenerDone>>
  /\ UNCHANGED <<idOf, worker, listened, mapVars, tunnelDone, lifecycleDone, ctlClosed, preserve, delivery,
                 accepting, returned, engineVars, reader, loser>>

ReaderStep ==
  /\ \/ ListenerDrain(reader, reader') /\ UNCHANGED <<state, local>>
     \/ NextChannel(reader, reader', FALSE) /\ UNCHANGED <<state, local, queue, listenerDone>>
     \/ Closing(reader, reader', FALSE) /\ UNCHANGED <<queue, listenerDone>>
  /\ UNCHANGED <<idOf, worker, listened, mapVars, tunnelDone, lifecycleDone, ctlClosed, preserve, delivery,
                 accepting, returned, engineVars, cleaner, loser>>

LoserStep ==
  /\ \/ NextChannel(loser, loser', FALSE) /\ UNCHANGED <<state, local>>
     \/ Closing(loser, loser', TRUE)
  /\ UNCHANGED <<idOf, worker, listened, mapVars, queue, ctxVars, delivery, accepting, returned, engineVars,
                 cleaner, reader>>

\* onError from anywhere else: a failure, or Close of the control channel.
OnError ==
  /\ ~ctlClosed /\ \E err \in BOOLEAN : Detach(err)
  /\ UNCHANGED <<idOf, worker, listened, registry, connected, queue, listenerDone, tunnelDone, lifecycleDone, chanVars,
                 accepting, returned, engineVars, reader, loser>>

ReaderFree == reader.pc \in {"idle", "done"} /\ reader.at = None /\ ~ctlClosed

\* handleDatagramChannelClose.
PeerCloses(s) ==
  /\ ReaderFree /\ s \in channels
  /\ channels' = channels \ {s}
  /\ reader' = [Idle EXCEPT !.pc = "channels", !.todo = {s}]
  /\ UNCHANGED <<idOf, worker, listened, listening, registry, connected, queue, ctxVars, chanVars, accepting,
                 returned, engineVars, cleaner, loser>>

\* handleCloseTunnelRsp: the tunnel's context is cancelled first.
TunnelCloses ==
  /\ ReaderFree /\ listening
  /\ listening' = FALSE /\ channels' = {} /\ tunnelDone' = TRUE
  /\ reader' = [pc |-> "listener", todo |-> channels, at |-> None, listener |-> TRUE]
  /\ UNCHANGED <<idOf, worker, listened, registry, connected, queue, listenerDone, lifecycleDone, ctlClosed,
                 preserve, chanVars, accepting, returned, engineVars, cleaner, loser>>

\* invalidateConnection, or Close of the transport.
ConnectionLost ==
  /\ TransportLoss /\ connected
  /\ connected' = FALSE /\ registry' = {}
  /\ loser' = [Idle EXCEPT !.pc = "channels", !.todo = registry]
  /\ UNCHANGED <<idOf, worker, listened, channels, listening, queue, ctxVars, chanVars, accepting, returned,
                 engineVars, cleaner, reader>>

-----------------------------------------------------------------------------
CloseStep(s) == Unregister(s) \/ Notify(s) \/ Cleaned(s)

WorkerStep(s) ==
  Register(s) \/ RegisterTransport(s) \/ Deliver(s) \/ WorkerCloses(s) \/ WorkerClosed(s) \/ Respond(s)

\* Only the application calls Accept.
AcceptStep(a) == AcceptLate(a) \/ AcceptCheck(a) \/ AcceptMark(a) \/ AcceptReturns(a)

Next ==
  \/ \E s \in Streams : CloseStep(s) \/ NotifyFails(s) \/ WorkerStep(s) \/ AppCloses(s) \/ PeerCloses(s)
  \/ \E a \in Acceptors : AcceptPop(a) \/ AcceptStep(a)
  \/ CleanerCancels \/ CleanerStep \/ ReaderStep \/ LoserStep \/ OnError \/ TunnelCloses \/ ConnectionLost

Spec == Init /\ [][Next]_vars

\* Goroutines go on, and a notification does not wait for ever: its context
\* has a deadline.
Fairness ==
  /\ \A s \in Streams : WF_vars(CloseStep(s) \/ NotifyFails(s)) /\ WF_vars(worker[s] # "idle" /\ WorkerStep(s))
  /\ \A a \in Acceptors : WF_vars(AcceptStep(a))
  /\ WF_vars(CleanerCancels \/ CleanerStep) /\ WF_vars(ReaderStep) /\ WF_vars(LoserStep)

FairSpec == Spec /\ Fairness

-----------------------------------------------------------------------------
TypeOK ==
  /\ idOf \in [Streams -> ChannelIds]
  /\ worker \in [Streams -> {"idle", "registry", "deliver", "close", "respond", "done"}]
  /\ channels \subseteq Streams /\ registry \subseteq Streams
  /\ \A r, s \in channels : idOf[r] = idOf[s] => r = s
  /\ \A r, s \in registry : idOf[r] = idOf[s] => r = s
  /\ listened \in [Streams -> BOOLEAN]
  /\ queue \in Seq(Streams) /\ Len(queue) <= QueueSize
  /\ state \in [Streams -> {"open", "closing", "notify", "cleaning", "closed"}]
  /\ local \subseteq Streams /\ delivery \subseteq Streams
  /\ returned \subseteq Streams
  /\ responded \subseteq Streams /\ notified \subseteq Streams
  /\ {listening, connected, listenerDone, tunnelDone, lifecycleDone, ctlClosed, preserve} \subseteq BOOLEAN

\* The engine is told that a channel closed only after it got the answer to
\* the proxy request of that stream, and only about closes that began here.
CloseAfterResponse == \A s \in notified : s \in responded /\ s \in local

\* A channel that closed is not in the map of the control channel.
ClosedUnregistered == \A s \in Streams : state[s] = "closed" => s \notin channels

\* controlChannelCleanup.finish: the loops are gone and doneCh is closed.
Finished ==
  /\ cleaner.pc = "done" /\ reader.pc \in {"idle", "done"}
  /\ \A s \in Streams : worker[s] \notin {"registry", "deliver", "close"}

\* When doneCh closes, a channel is closed unless it was accepted.
UnacceptedClosed ==
  Finished => \A s \in Streams : state[s] = "open" => s \in delivery \/ worker[s] = "idle"

\* What holds of the channels of a tunnel at any moment.
ChannelInv == TypeOK /\ CloseAfterResponse /\ ClosedUnregistered /\ UnacceptedClosed

\* The cleanup of the control channel completes, whoever runs it and whatever
\* is being closed at the time.
CleanupCompletes == ctlClosed ~> Finished

\* The same, of a state: no cleanup is under way.
Settled == ctlClosed => Finished
=============================================================================
