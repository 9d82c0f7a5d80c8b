---------------------------- MODULE QUICTransport ----------------------------
(***************************************************************************)
(* QUICTransport (quic_transport.go): one QUIC connection shared by every  *)
(* Dial, re-established after a failure, and the registry of datagram      *)
(* channels with the goroutine that reads datagrams for them.              *)
(*                                                                         *)
(* Connections are numbered in the order in which they are established.    *)
(* A call holds mu for one step of the model at a time.  Each dialer may,  *)
(* once it has a stream, register one datagram channel for it, as          *)
(* packetDialDatagramChannel and the proxy workers of a tunnel do.  Whoever *)
(* detaches the channels closes them one by one, and goes on only when     *)
(* each Close has returned.                                                *)
(***************************************************************************)
EXTENDS Naturals, FiniteSets

CONSTANTS
  Dialers,   \* calls of Dial, each with the channel it may register
  Tunnelled, \* those whose channel is one of a tunnel: its Close tells the engine, and need not return
  Wants,     \* the origins the dialers may ask for, as functions of them
  Closers,   \* calls of Close; the transport may be used again after one
  MaxConns,  \* bound on the connections established
  NoGen

VARIABLES
  quicConn,   \* the shared connection, 0 for nil
  gen,        \* closeGeneration
  connecting, \* the dialer whose connect is in flight, or NoGen
  live,       \* connections that are up
  owned,      \* connections whose resources are not closed yet
  dropping,   \* connections that some goroutine has taken out to close
  flights,    \* connects that are over
  origin,     \* the origin of each connection
  born,       \* the generation in which each was asked for
  pc,
  attempt,    \* Dial: the attempt, 0 or 1
  seen,       \* connection: the generation it began in
  mine,       \* the connection of a dialer, 0 for nil
  flight,     \* the connect a waiter waits for
  wants,      \* the origin each dialer asks for
  cancelled,  \* dialers whose context ended; or whose connect Close cancelled
  aborted,
  chan,       \* the datagram channel of each dialer
  by,         \* who detached it and is to close it: a dialer, a closer, the reader of a
              \* connection or, for 0, a user of the connection
  running,    \* datagramReadRunning
  reader,     \* datagramReadLoop of each connection
  readDone,   \* datagramReadDone: the connection whose loop closes it, or 0
  cpc,
  took        \* Close: the connection and the readDone it took

connVars == <<quicConn, gen, connecting, flights, live, owned, dropping, origin, born>>
dialVars == <<pc, attempt, seen, mine, flight>>
chanVars == <<chan, by, running, reader, readDone>>
closeVars == <<cpc, took>>
vars == <<connVars, dialVars, wants, cancelled, aborted, chanVars, closeVars>>

Conns == 1..MaxConns
Established == {c \in Conns : born[c] # NoGen}

Init ==
  /\ quicConn = 0 /\ gen = 0 /\ connecting = NoGen
  /\ flights = 0 /\ live = {} /\ owned = {} /\ dropping = {}
  /\ origin = [c \in Conns |-> NoGen] /\ born = [c \in Conns |-> NoGen]
  /\ pc = [d \in Dialers |-> "idle"]
  /\ attempt = [d \in Dialers |-> 0]
  /\ seen = [d \in Dialers |-> NoGen]
  /\ mine = [d \in Dialers |-> 0] /\ flight = [d \in Dialers |-> 0]
  /\ wants \in Wants
  /\ cancelled = {} /\ aborted = {}
  /\ chan = [d \in Dialers |-> "none"] /\ by = [d \in Dialers |-> NoGen]
  /\ running = FALSE
  /\ reader = [c \in Conns |-> "none"]
  /\ readDone = 0
  /\ cpc = [k \in Closers |-> "idle"]
  /\ took = [k \in Closers |-> [conn |-> 0, reader |-> 0]]

\* detachDatagramChannelsLocked, by a.
DetachChannels(a) ==
  /\ chan' = [d \in Dialers |-> IF chan[d] = "registered" THEN "closing" ELSE chan[d]]
  /\ by' = [d \in Dialers |-> IF chan[d] = "registered" THEN a ELSE by[d]]
  /\ running' = FALSE

\* Under mu: the channels, and the fields of the connection.
Detach(a) ==
  /\ gen' = gen + 1
  /\ quicConn' = 0
  /\ dropping' = IF quicConn = 0 THEN dropping ELSE dropping \cup {quicConn}
  /\ DetachChannels(a)

\* The loop over the channels that a detached is through.
AllClosed(a) == \A d \in Dialers : by[d] = a => chan[d] = "closed"

-----------------------------------------------------------------------------
(* Dial.                                                                   *)

\* One pass of the loop of connection, under mu.
Connection(d) ==
  /\ pc[d] \in {"idle", "again"}
  /\ \/ /\ seen[d] \notin {NoGen, gen}
        /\ pc' = [pc EXCEPT ![d] = "failed"]
        /\ seen' = [seen EXCEPT ![d] = NoGen]
        /\ UNCHANGED <<connecting, mine, flight>>
     \/ /\ seen[d] \in {NoGen, gen} /\ quicConn # 0
        /\ seen' = [seen EXCEPT ![d] = NoGen]
        /\ IF origin[quicConn] = wants[d]
           THEN /\ mine' = [mine EXCEPT ![d] = quicConn]
                /\ pc' = [pc EXCEPT ![d] = "open"]
           ELSE /\ pc' = [pc EXCEPT ![d] = "failed"]
                /\ mine' = mine
        /\ UNCHANGED <<connecting, flight>>
     \/ /\ seen[d] \in {NoGen, gen} /\ quicConn = 0 /\ connecting # NoGen
        /\ seen' = [seen EXCEPT ![d] = gen]
        /\ flight' = [flight EXCEPT ![d] = flights + 1]
        /\ pc' = [pc EXCEPT ![d] = "wait"]
        /\ UNCHANGED <<connecting, mine>>
     \/ /\ seen[d] \in {NoGen, gen} /\ quicConn = 0 /\ connecting = NoGen
        /\ seen' = [seen EXCEPT ![d] = gen]
        /\ connecting' = d
        /\ pc' = [pc EXCEPT ![d] = "connect"]
        /\ UNCHANGED <<mine, flight>>
  /\ UNCHANGED <<quicConn, gen, flights, live, owned, dropping, origin, born, attempt, wants, cancelled,
                 aborted, chanVars, closeVars>>

\* A waiter wakes when the connect it waits for is over, or its context ends.
Wake(d) ==
  /\ pc[d] = "wait"
  /\ \/ flights >= flight[d] /\ pc' = [pc EXCEPT ![d] = "again"] /\ seen' = seen
     \/ /\ d \in cancelled
        /\ pc' = [pc EXCEPT ![d] = "failed"] /\ seen' = [seen EXCEPT ![d] = NoGen]
  /\ flight' = [flight EXCEPT ![d] = 0]
  /\ UNCHANGED <<connVars, attempt, mine, wants, cancelled, aborted, chanVars, closeVars>>

\* connectFn, external: it makes a connection or fails, and may do either
\* after its context ended.
ConnectSucceeds(d) ==
  /\ pc[d] = "connect"
  /\ \E c \in Conns \ Established :
       /\ \A e \in Conns \ Established : c <= e
       /\ live' = live \cup {c} /\ owned' = owned \cup {c}
       /\ origin' = [origin EXCEPT ![c] = wants[d]]
       /\ born' = [born EXCEPT ![c] = seen[d]]
       /\ mine' = [mine EXCEPT ![d] = c]
  /\ pc' = [pc EXCEPT ![d] = "install"]
  /\ UNCHANGED <<quicConn, gen, connecting, flights, dropping, attempt, seen, flight, wants, cancelled, aborted,
                 chanVars, closeVars>>

ConnectFails(d) ==
  /\ pc[d] = "connect"
  /\ pc' = [pc EXCEPT ![d] = "install"]
  /\ UNCHANGED <<connVars, attempt, seen, mine, flight, wants, cancelled, aborted, chanVars, closeVars>>

InstallLeaks(d) ==
  /\ pc[d] = "install"
  /\ connecting' = NoGen /\ flights' = flights + 1
  /\ aborted' = aborted \ {d}
  /\ quicConn' = IF mine[d] # 0 /\ seen[d] = gen THEN mine[d] ELSE quicConn
  /\ pc' = [pc EXCEPT ![d] = IF mine[d] = 0 \/ seen[d] # gen THEN "failed" ELSE "open"]
  /\ seen' = [seen EXCEPT ![d] = NoGen]
  /\ UNCHANGED <<gen, live, owned, dropping, origin, born, attempt, mine, flight, wants, cancelled,
                 chanVars, closeVars>>

\* Under mu: the connect is over, and its result is stale after a Close or an
\* invalidation.
Install(d) ==
  /\ pc[d] = "install"
  /\ connecting' = NoGen /\ flights' = flights + 1
  /\ aborted' = aborted \ {d}
  /\ quicConn' = IF mine[d] # 0 /\ seen[d] = gen THEN mine[d] ELSE quicConn
  /\ pc' = [pc EXCEPT ![d] = CASE mine[d] = 0 -> "failed"
                               [] seen[d] # gen -> "discard"
                               [] OTHER -> "open"]
  /\ seen' = [seen EXCEPT ![d] = NoGen]
  /\ UNCHANGED <<gen, live, owned, dropping, origin, born, attempt, mine, flight, wants, cancelled,
                 chanVars, closeVars>>

\* A stale connection is closed with its resources.
Discard(d) ==
  /\ pc[d] = "discard"
  /\ live' = live \ {mine[d]} /\ owned' = owned \ {mine[d]}
  /\ pc' = [pc EXCEPT ![d] = "failed"] /\ mine' = [mine EXCEPT ![d] = 0]
  /\ UNCHANGED <<quicConn, gen, connecting, flights, dropping, origin, born, attempt, seen, flight,
                 wants, cancelled, aborted,
                 chanVars, closeVars>>

\* OpenStreamSync, external.
StreamOpens(d) ==
  /\ pc[d] = "open" /\ mine[d] \in live
  /\ pc' = [pc EXCEPT ![d] = "streaming"]
  /\ UNCHANGED <<connVars, attempt, seen, mine, flight, wants, cancelled, aborted, chanVars, closeVars>>

\* Without a stream Dial gives up if its context has ended, or else
\* invalidates the connection, unless another goroutine did.
StreamFails(d) ==
  /\ pc[d] = "open" /\ (d \in cancelled \/ mine[d] \notin live)
  /\ pc' = [pc EXCEPT ![d] = IF d \in cancelled THEN "failed" ELSE "drop"]
  /\ IF d \notin cancelled /\ quicConn = mine[d]
     THEN Detach(d) /\ mine' = mine
     ELSE mine' = [mine EXCEPT ![d] = 0] /\ UNCHANGED <<quicConn, gen, dropping, chan, by, running>>
  /\ attempt' = attempt
  /\ UNCHANGED <<connecting, flights, live, owned, origin, born, seen, flight, wants, cancelled, aborted, reader, readDone,
                 closeVars>>

\* invalidateConnection returns, and Dial tries once more.
Retry(d) ==
  /\ pc[d] = "drop" /\ mine[d] \notin owned /\ AllClosed(d)
  /\ attempt' = [attempt EXCEPT ![d] = @ + 1]
  /\ pc' = [pc EXCEPT ![d] = IF attempt[d] = 1 THEN "failed" ELSE "again"]
  /\ mine' = [mine EXCEPT ![d] = 0]
  /\ UNCHANGED <<connVars, seen, flight, wants, cancelled, aborted, chanVars, closeVars>>

Cancel(d) ==
  /\ d \notin cancelled /\ pc[d] \notin {"streaming", "failed"}
  /\ cancelled' = cancelled \cup {d}
  /\ UNCHANGED <<connVars, dialVars, wants, aborted, chanVars, closeVars>>

-----------------------------------------------------------------------------
(* The connection.                                                         *)

\* The peer or the network ends a connection.
ConnDies(c) ==
  /\ c \in live
  /\ live' = live \ {c}
  /\ UNCHANGED <<quicConn, gen, connecting, flights, owned, dropping, origin, born, dialVars, wants, cancelled, aborted,
                 chanVars, closeVars>>

\* A stream or a datagram send meets the error and invalidates the connection.
Invalidate(c) ==
  /\ c = quicConn /\ c \notin live
  /\ Detach(0)
  /\ UNCHANGED <<connecting, flights, live, owned, origin, born, dialVars, wants, cancelled, aborted, reader, readDone,
                 closeVars>>

\* What invalidateConnection and Close do next, without mu: the connection and
\* its resources are closed, and after them the detached channels.
Teardown(c) ==
  /\ c \in dropping
  /\ live' = live \ {c} /\ owned' = owned \ {c} /\ dropping' = dropping \ {c}
  /\ UNCHANGED <<quicConn, gen, connecting, flights, origin, born, dialVars, wants, cancelled, aborted, chanVars,
                 closeVars>>

-----------------------------------------------------------------------------
(* Datagram channels.                                                      *)

\* registerDatagramChannel starts a reader of the shared connection if none
\* is running.
Register(d) ==
  /\ pc[d] = "streaming" /\ chan[d] = "none"
  /\ chan' = [chan EXCEPT ![d] = IF quicConn = 0 THEN "closing" ELSE "registered"]
  /\ IF quicConn = 0 \/ running
     THEN UNCHANGED <<running, reader, readDone>>
     ELSE /\ running' = TRUE
          /\ reader' = [reader EXCEPT ![quicConn] = "reading"]
          /\ readDone' = quicConn
  /\ by' = by
  /\ UNCHANGED <<connVars, dialVars, wants, cancelled, aborted, closeVars>>

\* The channel is closed by its user, or by the watcher of its stream once the
\* connection that carries the stream is gone: it leaves the registry.
ChannelCloses(d) ==
  /\ chan[d] = "registered"
  /\ chan' = [chan EXCEPT ![d] = "closing"]
  /\ UNCHANGED <<connVars, dialVars, wants, cancelled, aborted, by, running, reader, readDone, closeVars>>

\* Its once is through, and the watcher of its stream has ended.
ChannelClosed(d) ==
  /\ chan[d] = "closing"
  /\ chan' = [chan EXCEPT ![d] = "closed"]
  /\ UNCHANGED <<connVars, dialVars, wants, cancelled, aborted, by, running, reader, readDone, closeVars>>

\* datagramReadLoop: the first error invalidates the connection.
ReaderFails(c) ==
  /\ reader[c] = "reading" /\ c \notin live
  /\ IF quicConn = c
     THEN Detach(c) /\ reader' = [reader EXCEPT ![c] = "close"]
     ELSE /\ reader' = [reader EXCEPT ![c] = "sweep"]
          /\ UNCHANGED <<quicConn, gen, dropping, chan, by, running>>
  /\ UNCHANGED <<connecting, flights, live, owned, origin, born, dialVars, wants, cancelled, aborted, readDone,
                 closeVars>>

\* closeDatagramChannelsForConn, when another goroutine invalidated it first:
\* the channels of a connection established since are left alone.
Sweep(c) ==
  /\ reader[c] = "sweep"
  /\ reader' = [reader EXCEPT ![c] = "close"]
  /\ IF quicConn # 0 THEN UNCHANGED <<chan, by, running>> ELSE DetachChannels(c)
  /\ UNCHANGED <<connVars, dialVars, wants, cancelled, aborted, readDone, closeVars>>

\* The loop ends, and closes its done channel, after the Close of each channel
\* it detached.
ReaderEnds(c) ==
  /\ reader[c] = "close" /\ AllClosed(c)
  /\ reader' = [reader EXCEPT ![c] = "ended"]
  /\ UNCHANGED <<connVars, dialVars, wants, cancelled, aborted, chan, by, running, readDone, closeVars>>

-----------------------------------------------------------------------------
(* Close.                                                                  *)

\* Under mu; connectCancel is called just after.
Close(k) ==
  /\ cpc[k] = "idle"
  /\ Detach(k)
  /\ took' = [took EXCEPT ![k] = [conn |-> quicConn, reader |-> readDone]]
  /\ aborted' = IF connecting = NoGen THEN aborted ELSE aborted \cup {connecting}
  /\ cpc' = [cpc EXCEPT ![k] = "wait"]
  /\ UNCHANGED <<connecting, flights, live, owned, origin, born, dialVars, wants, cancelled, reader, readDone>>

\* Close returns once the connection it took is closed, the Close of each
\* channel it detached has returned, and the reader it found has ended.
CloseReturns(k) ==
  /\ cpc[k] = "wait"
  /\ took[k].conn \notin owned /\ AllClosed(k)
  /\ took[k].reader # 0 => reader[took[k].reader] = "ended"
  /\ cpc' = [cpc EXCEPT ![k] = "done"]
  /\ UNCHANGED <<connVars, dialVars, wants, cancelled, aborted, chanVars, took>>

-----------------------------------------------------------------------------
DialStep(d) ==
  Connection(d) \/ Wake(d) \/ Install(d) \/ Discard(d) \/ StreamFails(d) \/ Retry(d)

ConnStep(c) == Teardown(c) \/ ReaderFails(c) \/ Sweep(c) \/ ReaderEnds(c)

Next ==
  \/ \E d \in Dialers : \/ DialStep(d) \/ ConnectSucceeds(d) \/ ConnectFails(d) \/ StreamOpens(d)
                        \/ Cancel(d) \/ Register(d) \/ ChannelCloses(d) \/ ChannelClosed(d)
  \/ \E c \in Conns : ConnDies(c) \/ Invalidate(c) \/ ConnStep(c)
  \/ \E k \in Closers : Close(k) \/ CloseReturns(k)

Spec == Init /\ [][Next]_vars

(***************************************************************************)
(* Goroutines go on as long as they can; connect returns once its context  *)
(* has ended, and the watcher of a stream sees its connection end.  Of the *)
(* Close of a tunnel's channel nothing is assumed: DatagramChannels shows  *)
(* a case in which it never returns.                                       *)
(***************************************************************************)
Runs ==
  \/ \E d \in Dialers :
       \/ pc[d] # "idle" /\ DialStep(d)
       \/ d \in cancelled \cup aborted /\ ConnectFails(d)
       \/ mine[d] \notin live /\ ChannelCloses(d)
       \/ d \notin Tunnelled /\ ChannelClosed(d)
  \/ \E c \in Conns : ConnStep(c)
  \/ \E k \in Closers : CloseReturns(k)
Fairness == WF_vars(Runs)

-----------------------------------------------------------------------------
TypeOK ==
  /\ quicConn \in Conns \cup {0}
  /\ gen \in Nat
  /\ connecting \in Dialers \cup {NoGen}
  /\ live \in SUBSET owned
  /\ flights \in Nat
  /\ owned \in SUBSET Established
  /\ dropping \in SUBSET owned
  /\ pc \in [Dialers -> {"idle", "again", "wait", "connect", "install", "discard", "open",
                         "drop", "streaming", "failed"}]
  /\ attempt \in [Dialers -> 0..2]
  /\ mine \in [Dialers -> Conns \cup {0}]
  /\ flight \in [Dialers -> 0..(flights + 1)]
  /\ wants \in Wants
  /\ cancelled \in SUBSET Dialers /\ aborted \in SUBSET Dialers
  /\ chan \in [Dialers -> {"none", "registered", "closing", "closed"}]
  /\ by \in [Dialers -> Dialers \cup Closers \cup Conns \cup {0, NoGen}]
  /\ running \in BOOLEAN
  /\ reader \in [Conns -> {"none", "reading", "sweep", "close", "ended"}]
  /\ readDone \in Conns \cup {0}
  /\ cpc \in [Closers -> {"idle", "wait", "done"}]

\* The shared connection was asked for in the current generation: none
\* survives a Close or an invalidation that ran while it was being made.
CurrentGeneration == quicConn # 0 => born[quicConn] = gen

\* Every connection that was established is the shared one, is being closed by
\* the goroutine that took it out, is in the hands of the dial that made it,
\* or is closed with its socket and its proxy.
NoLeak ==
  owned \subseteq {quicConn} \cup dropping
                  \cup {mine[d] : d \in {e \in Dialers : pc[e] \in {"install", "discard"}}}

\* One connect is in flight at a time, and a dial is given a connection to
\* the origin it asked for.
SingleFlight ==
  /\ \A d \in Dialers : pc[d] \in {"connect", "install"} => connecting = d
  /\ \A d \in Dialers : pc[d] \in {"open", "streaming"} => origin[mine[d]] = wants[d]

\* As long as a datagram channel is registered, the shared connection is
\* there and its reader runs, whatever older readers do: no channel is deaf.
ReaderForChannels ==
  (\E d \in Dialers : chan[d] = "registered") =>
    quicConn # 0 /\ running /\ reader[quicConn] = "reading"

\* The shared connection and its datagram reader, whatever Close, failures and
\* concurrent dials did.
QUICInv == TypeOK /\ CurrentGeneration /\ NoLeak /\ SingleFlight /\ ReaderForChannels

\* a waits for the Close of a tunnel's channel.
HeldUp(a) == \E d \in Tunnelled : by[d] = a /\ chan[d] = "closing"

\* No dial whose context ended is still in progress, whatever the connect it
\* makes or waits for does, and no Close waits. The one thing that holds them
\* up, context or not, is the Close of a tunnel's channel that does not
\* return, in the call itself or in the reader that Close waits for.
AllReturned ==
  /\ \A d \in Dialers : d \in cancelled /\ pc[d] # "idle" => pc[d] \in {"failed", "streaming"} \/ HeldUp(d)
  /\ \A k \in Closers : cpc[k] = "wait" => HeldUp(k) \/ (took[k].reader # 0 /\ HeldUp(took[k].reader))
=============================================================================
