----------------------------- MODULE ClientClose -----------------------------
(***************************************************************************)
(* The life of a Client (client.go, api.go, api_http3.go): the calls that  *)
(* open connections on it (Connect, PacketDial, Dial), the QUIC dials of   *)
(* its HTTP/3 API transport, and Close, which may run at any moment.       *)
(*                                                                         *)
(* A dial is registered in dialCancels while it is pending.  PacketDial    *)
(* registers twice: "outer" covers its whole exchange, "inner" the dial of *)
(* dialEngineWithTransportConfig alone, the only one Connect and Dial      *)
(* have.  The goroutine that context.AfterFunc starts closes the           *)
(* connection when the context of a call in its opening exchange ends.     *)
(* The engine and the network are external: a dial and an exchange may     *)
(* succeed, fail or never end.                                             *)
(***************************************************************************)
EXTENDS Naturals, FiniteSets

CONSTANTS
  Calls,      \* calls of Connect, PacketDial and Dial
  Kind,       \* which method each call is
  Requests,   \* dials of the HTTP/3 API transport
  MaxDialers, \* QUIC transports the API transport owns at once (4 in the code)
  ZeroRTT     \* Client.ZeroRTT: Dial does not wait for the engine's answer

VARIABLES
  closed,     \* Client.closed
  cpc,        \* where Close is
  dials,      \* Client.dialCancels
  sweep,      \* what the loop Close is in has still to cancel or to close
  ended,      \* registrations whose context is cancelled
  cancelled,  \* calls and requests whose caller cancelled its context
  transport,  \* Client.Transport and ownsTransport; quic: it is, or selects, a QUICTransport,
              \* whose connections are streams of one QUIC connection
  mode,       \* what a call is doing: PacketDial falls back to Dial
  pc,
  conn,       \* the connection of a call
  intr,       \* its AfterFunc goroutine
  failed,     \* the error it has met, if any
  api,        \* Client.apiHTTP3: made, closed and the transports it owns
  owned       \* the QUICTransport of each API dial

callVars == <<mode, pc, conn, intr, failed>>
closeVars == <<closed, cpc, sweep>>
apiVars == <<api, owned>>
vars == <<closed, cpc, dials, sweep, ended, cancelled, transport, callVars, apiVars>>

Keys == (Calls \X {"outer", "inner"}) \cup (Requests \X {"inner"})

Outer(c) == <<c, "outer">>
Inner(c) == <<c, "inner">>

\* The context a call hands to AfterFunc: the caller's in Connect, the
\* registered one in PacketDial.
CallDone(c) == c \in cancelled \/ (mode[c] = "packet" /\ Outer(c) \in ended)
DialDone(c) == CallDone(c) \/ Inner(c) \in ended
RequestDone(r) == r \in cancelled \/ Inner(r) \in ended

Init ==
  /\ closed = FALSE /\ cpc = "idle" /\ dials = {} /\ sweep = {}
  /\ ended = {} /\ cancelled = {}
  /\ transport \in [made : BOOLEAN, owned : BOOLEAN, open : {TRUE}, quic : BOOLEAN]  \* none, borrowed or owned
  /\ transport.owned => transport.made
  /\ mode = Kind
  /\ pc = [c \in Calls |-> "idle"]
  /\ conn = [c \in Calls |-> "none"]
  /\ intr = [c \in Calls |-> "none"]
  /\ failed = [c \in Calls |-> FALSE]
  /\ api = [made |-> FALSE, closed |-> FALSE, dialers |-> {}]
  /\ owned = [r \in Requests |-> [pc |-> "idle", gen |-> 0, seen |-> 0, conn |-> "none"]]

-----------------------------------------------------------------------------
(* Calls.                                                                  *)

\* Connect looks at its context first, and getEngine fails on a closed client.
Begin(c) ==
  /\ pc[c] = "idle"
  /\ LET refused == mode[c] = "connect" /\ (c \in cancelled \/ closed) IN
     /\ failed' = [failed EXCEPT ![c] = refused]
     /\ pc' = [pc EXCEPT ![c] = CASE refused -> "returned"
                                  [] mode[c] = "packet" -> "register"
                                  [] OTHER -> "dial"]
  /\ UNCHANGED <<closeVars, dials, ended, cancelled, transport, mode, conn, intr, apiVars>>

\* A beginDial that finds the client closed registers nothing.
Register(k) == dials' = IF closed THEN dials ELSE dials \cup {k}

\* The beginDial of packetDialDatagramChannel. A transport known to have no
\* datagrams (not an AutoTransport that has still to select) makes the
\* channel unavailable before anything is dialled.
BeginPacket(c) ==
  /\ pc[c] = "register"
  /\ Register(Outer(c))
  /\ failed' = [failed EXCEPT ![c] = closed]
  /\ \E next \in {"dial"} \cup IF transport.made /\ ~transport.quic THEN {"leave"} ELSE {} :
       pc' = [pc EXCEPT ![c] = IF closed THEN "returned" ELSE next]
  /\ UNCHANGED <<closeVars, ended, cancelled, transport, mode, conn, intr, apiVars>>

\* The beginDial of dialEngineWithTransportConfig.
BeginDial(c) ==
  /\ pc[c] = "dial"
  /\ Register(Inner(c))
  /\ failed' = [failed EXCEPT ![c] = closed]
  /\ pc' = [pc EXCEPT ![c] = IF closed THEN "leave" ELSE "transport"]
  /\ UNCHANGED <<closeVars, ended, cancelled, transport, mode, conn, intr, apiVars>>

TransportUnchecked(c) ==
  /\ pc[c] = "transport"
  /\ transport' = IF transport.made THEN transport ELSE [transport EXCEPT !.made = TRUE, !.owned = TRUE]
  /\ failed' = failed
  /\ pc' = [pc EXCEPT ![c] = "dialling"]
  /\ UNCHANGED <<closeVars, dials, ended, cancelled, mode, conn, intr, apiVars>>

\* A closed client gets a dialer that fails; an open one without a transport
\* makes an AutoTransport and owns it.
DefaultTunnelTransport(c) ==
  /\ pc[c] = "transport"
  /\ transport' = IF closed \/ transport.made THEN transport ELSE [transport EXCEPT !.made = TRUE, !.owned = TRUE]
  /\ failed' = [failed EXCEPT ![c] = closed]
  /\ pc' = [pc EXCEPT ![c] = IF closed THEN "dialled" ELSE "dialling"]
  /\ UNCHANGED <<closeVars, dials, ended, cancelled, mode, conn, intr, apiVars>>

\* The transport's Dial.
DialSucceeds(c) ==
  /\ pc[c] = "dialling" /\ transport.open
  /\ conn' = [conn EXCEPT ![c] = "open"]
  /\ pc' = [pc EXCEPT ![c] = "dialled"]
  /\ UNCHANGED <<closeVars, dials, ended, cancelled, transport, mode, intr, failed, apiVars>>

DialFails(c) ==
  /\ pc[c] = "dialling"
  /\ failed' = [failed EXCEPT ![c] = TRUE]
  /\ pc' = [pc EXCEPT ![c] = "dialled"]
  /\ UNCHANGED <<closeVars, dials, ended, cancelled, transport, mode, conn, intr, apiVars>>

FinishUnarmed(c) ==
  /\ pc[c] = "dialled"
  /\ dials' = dials \ {Inner(c)}
  /\ ended' = ended \cup {Inner(c)}
  /\ intr' = [intr EXCEPT ![c] = "stopped"]
  /\ pc' = [pc EXCEPT ![c] = IF failed[c] THEN "leave" ELSE "exchange"]
  /\ UNCHANGED <<closeVars, cancelled, transport, mode, conn, failed, apiVars>>

\* The deferred finishDial: leave the registry and end the dial's context.
\* With a connection, Connect and PacketDial then arm the interrupt.
FinishDial(c) ==
  /\ pc[c] = "dialled"
  /\ dials' = dials \ {Inner(c)}
  /\ ended' = ended \cup {Inner(c)}
  /\ intr' = [intr EXCEPT ![c] = IF failed[c] \/ mode[c] = "stream" THEN "none" ELSE "armed"]
  /\ pc' = [pc EXCEPT ![c] = IF failed[c] THEN "leave" ELSE "exchange"]
  /\ UNCHANGED <<closeVars, cancelled, transport, mode, conn, failed, apiVars>>

\* The AfterFunc goroutine: it starts once the context ends, and closes.
InterruptStarts(c) ==
  /\ intr[c] = "armed" /\ CallDone(c)
  /\ intr' = [intr EXCEPT ![c] = "started"]
  /\ UNCHANGED <<closeVars, dials, ended, cancelled, transport, mode, pc, conn, failed, apiVars>>

InterruptCloses(c) ==
  /\ intr[c] = "started"
  /\ intr' = [intr EXCEPT ![c] = "done"]
  /\ conn' = [conn EXCEPT ![c] = "closed"]
  /\ UNCHANGED <<closeVars, dials, ended, cancelled, transport, mode, pc, failed, apiVars>>

AfterExchange(c) == IF mode[c] = "stream" THEN "leave" ELSE "stop"

\* The request is written and the answer read; Dial with ZeroRTT reads none.
\* PacketDial registers its channel with the QUIC transport.
ExchangeSucceeds(c) ==
  /\ pc[c] = "exchange" /\ conn[c] = "open" /\ (mode[c] = "packet" => transport.quic)
  /\ pc' = [pc EXCEPT ![c] = AfterExchange(c)]
  /\ UNCHANGED <<closeVars, dials, ended, cancelled, transport, mode, conn, intr, failed, apiVars>>

\* An error of the engine, of the connection or of the answer: PacketDial and
\* Dial close the connection at once, Connect after it stopped the interrupt.
ExchangeFails(c) ==
  /\ pc[c] = "exchange"
  /\ failed' = [failed EXCEPT ![c] = TRUE]
  /\ conn' = [conn EXCEPT ![c] = IF mode[c] = "connect" THEN @ ELSE "closed"]
  /\ pc' = [pc EXCEPT ![c] = AfterExchange(c)]
  /\ UNCHANGED <<closeVars, dials, ended, cancelled, transport, mode, intr, apiVars>>

\* The engine or the selected transport has no datagram channel: PacketDial
\* closes the connection, holds none, and reports it not available.
Unavailable(c) ==
  /\ pc[c] = "exchange" /\ mode[c] = "packet"
  /\ conn' = [conn EXCEPT ![c] = "none"]
  /\ pc' = [pc EXCEPT ![c] = "stop"]
  /\ UNCHANGED <<closeVars, dials, ended, cancelled, transport, mode, intr, failed, apiVars>>

\* stopInterrupt; a goroutine that has started is waited for.
StopInterrupt(c) ==
  /\ pc[c] = "stop" /\ intr[c] # "started"
  /\ intr' = [intr EXCEPT ![c] = IF @ = "armed" THEN "stopped" ELSE @]
  /\ pc' = [pc EXCEPT ![c] = "check"]
  /\ UNCHANGED <<closeVars, dials, ended, cancelled, transport, mode, conn, failed, apiVars>>

\* A context that has ended by now fails the call and closes its connection,
\* which Connect leaves to the interrupt when that has run.
CheckCause(c) ==
  /\ pc[c] = "check"
  /\ LET fails == failed[c] \/ CallDone(c) IN
     /\ failed' = [failed EXCEPT ![c] = fails]
     /\ conn' = [conn EXCEPT ![c] = IF fails /\ (mode[c] = "packet" \/ intr[c] = "stopped")
                                   THEN "closed" ELSE @]
  /\ pc' = [pc EXCEPT ![c] = "leave"]
  /\ UNCHANGED <<closeVars, dials, ended, cancelled, transport, mode, intr, apiVars>>

\* PacketDial ends its own registration; without a channel it goes on to Dial.
Return(c) ==
  /\ pc[c] = "leave"
  /\ LET again == mode[c] = "packet" /\ ~failed[c] /\ conn[c] = "none" IN
     /\ mode' = [mode EXCEPT ![c] = IF again THEN "stream" ELSE @]
     /\ pc' = [pc EXCEPT ![c] = IF again THEN "dial" ELSE "returned"]
     /\ ended' = (IF again THEN ended \ {Inner(c)} ELSE ended)
                   \cup (IF mode[c] = "packet" THEN {Outer(c)} ELSE {})
  /\ dials' = dials \ {Outer(c)}
  /\ UNCHANGED <<closeVars, cancelled, transport, conn, intr, failed, apiVars>>

\* The caller cancels the context of its call or request, at any moment.
Cancel(x) ==
  /\ x \notin cancelled
  /\ cancelled' = cancelled \cup {x}
  /\ UNCHANGED <<closeVars, dials, ended, transport, callVars, apiVars>>

-----------------------------------------------------------------------------
(* Dials of the HTTP/3 API transport.                                      *)

\* apiHttpClient makes the transport unless the client is closed.
ApiHttpClient(r) ==
  /\ owned[r].pc = "idle"
  /\ api' = [api EXCEPT !.made = @ \/ ~closed]
  /\ owned' = [owned EXCEPT ![r].pc = IF closed THEN "ended" ELSE "dial"]
  /\ UNCHANGED <<closeVars, dials, ended, cancelled, transport, callVars>>

BeginApiDial(r) ==
  /\ owned[r].pc = "dial"
  /\ Register(Inner(r))
  /\ owned' = [owned EXCEPT ![r].pc = IF closed THEN "ended" ELSE "admit"]
  /\ UNCHANGED <<closeVars, ended, cancelled, transport, callVars, api>>

\* Under apiHTTP3Transport.mu.
Admit(r) ==
  /\ owned[r].pc = "admit"
  /\ LET admitted == ~api.closed /\ Cardinality(api.dialers) < MaxDialers IN
     /\ api' = [api EXCEPT !.dialers = IF admitted THEN @ \cup {r} ELSE @]
     /\ owned' = [owned EXCEPT ![r].pc = IF admitted THEN "connect" ELSE "finish"]
  /\ UNCHANGED <<closeVars, dials, ended, cancelled, transport, callVars>>

\* QUICTransport.connection notes the generation and starts the handshake.
StartConnection(r) ==
  /\ owned[r].pc = "connect"
  /\ owned' = [owned EXCEPT ![r].seen = owned[r].gen, ![r].pc = "handshake"]
  /\ UNCHANGED <<closeVars, dials, ended, cancelled, transport, callVars, api>>

\* raceDialRoutes gives up a connection made after the context ended.
HandshakeSucceeds(r) ==
  /\ owned[r].pc = "handshake" /\ ~RequestDone(r)
  /\ owned' = [owned EXCEPT ![r].conn = "open", ![r].pc = "install"]
  /\ UNCHANGED <<closeVars, dials, ended, cancelled, transport, callVars, api>>

HandshakeFails(r) ==
  /\ owned[r].pc = "handshake"
  /\ owned' = [owned EXCEPT ![r].pc = "release"]
  /\ UNCHANGED <<closeVars, dials, ended, cancelled, transport, callVars, api>>

\* A connection of a transport closed meanwhile is stale.
Install(r) ==
  /\ owned[r].pc = "install"
  /\ owned' = IF owned[r].gen = owned[r].seen
              THEN [owned EXCEPT ![r].pc = "serving"]
              ELSE [owned EXCEPT ![r].pc = "release", ![r].conn = "closed"]
  /\ UNCHANGED <<closeVars, dials, ended, cancelled, transport, callVars, api>>

\* The connection ends by itself: idle, or closed by the peer.
ConnectionEnds(r) ==
  /\ owned[r].pc = "serving" /\ owned[r].conn = "open"
  /\ owned' = [owned EXCEPT ![r].conn = "closed"]
  /\ UNCHANGED <<closeVars, dials, ended, cancelled, transport, callVars, api>>

\* dial returns, with its deferred finish; a goroutine then waits for the end
\* of the connection and releases the transport.
Release(r) ==
  /\ \/ owned[r].pc = "release"
     \/ owned[r].pc = "serving" /\ owned[r].conn = "closed"
  /\ api' = [api EXCEPT !.dialers = @ \ {r}]
  /\ owned' = [owned EXCEPT ![r].gen = @ + 1, ![r].conn = "closed", ![r].pc = "finish"]
  /\ UNCHANGED <<closeVars, dials, ended, cancelled, transport, callVars>>

FinishApiDial(r) ==
  /\ owned[r].pc \in {"serving", "finish"} /\ Inner(r) \notin ended
  /\ dials' = dials \ {Inner(r)}
  /\ ended' = ended \cup {Inner(r)}
  /\ UNCHANGED <<closeVars, cancelled, transport, callVars, apiVars>>

-----------------------------------------------------------------------------
(* Close, under closeOnce.                                                 *)

CloseMarks ==
  /\ cpc = "idle"
  /\ closed' = TRUE /\ cpc' = "registry"
  /\ UNCHANGED <<dials, sweep, ended, cancelled, transport, callVars, apiVars>>

CloseTakesDials ==
  /\ cpc = "registry"
  /\ sweep' = dials /\ dials' = {} /\ cpc' = "cancel"
  /\ UNCHANGED <<closed, ended, cancelled, transport, callVars, apiVars>>

CloseCancels ==
  /\ cpc = "cancel" /\ sweep # {}
  /\ \E k \in sweep : sweep' = sweep \ {k} /\ ended' = ended \cup {k}
  /\ UNCHANGED <<closed, cpc, dials, cancelled, transport, callVars, apiVars>>

\* closeAPIHTTP3Transports takes the transport; its Close takes its dialers.
CloseApi ==
  /\ cpc = "cancel" /\ sweep = {}
  /\ IF api.made
     THEN /\ api' = [api EXCEPT !.closed = TRUE]
          /\ sweep' = api.dialers /\ cpc' = "dialers"
     ELSE UNCHANGED <<api, sweep>> /\ cpc' = "transport"
  /\ UNCHANGED <<closed, dials, ended, cancelled, transport, callVars, owned>>

CloseDialers ==
  /\ cpc = "dialers" /\ sweep # {}
  /\ \E r \in sweep :
       /\ sweep' = sweep \ {r}
       /\ owned' = [owned EXCEPT ![r].gen = @ + 1,
                                 ![r].conn = IF owned[r].pc = "serving" THEN "closed" ELSE @]
  /\ UNCHANGED <<closed, cpc, dials, ended, cancelled, transport, callVars, api>>

\* workers.Wait.
CloseWaits ==
  /\ cpc = "dialers" /\ sweep = {} /\ api.dialers = {}
  /\ cpc' = "transport"
  /\ UNCHANGED <<closed, dials, sweep, ended, cancelled, transport, callVars, apiVars>>

\* An owned transport is closed. A QUICTransport ends its QUIC connection, and
\* with it the stream of every call, one that has returned included.
CloseTransport ==
  /\ cpc = "transport"
  /\ transport' = [transport EXCEPT !.open = ~transport.owned]
  /\ conn' = [c \in Calls |-> IF transport.owned /\ transport.quic /\ conn[c] = "open" THEN "closed" ELSE conn[c]]
  /\ cpc' = "done"
  /\ UNCHANGED <<closed, dials, sweep, ended, cancelled, mode, pc, intr, failed, apiVars>>

-----------------------------------------------------------------------------
CallStep(c) ==
  \/ Begin(c) \/ BeginPacket(c) \/ BeginDial(c) \/ DefaultTunnelTransport(c)
  \/ FinishDial(c) \/ StopInterrupt(c) \/ CheckCause(c) \/ Return(c)
  \/ InterruptStarts(c) \/ InterruptCloses(c)

RequestStep(r) ==
  \/ ApiHttpClient(r) \/ BeginApiDial(r) \/ Admit(r) \/ StartConnection(r)
  \/ Install(r) \/ Release(r) \/ FinishApiDial(r)

CloseStep ==
  \/ CloseTakesDials \/ CloseCancels \/ CloseApi \/ CloseDialers \/ CloseWaits
  \/ CloseTransport

Next ==
  \/ \E c \in Calls : \/ CallStep(c) \/ DialSucceeds(c) \/ DialFails(c)
                      \/ ExchangeSucceeds(c) \/ ExchangeFails(c) \/ Unavailable(c)
  \/ \E r \in Requests : \/ RequestStep(r) \/ HandshakeSucceeds(r)
                         \/ HandshakeFails(r) \/ ConnectionEnds(r)
  \/ \E x \in Calls \cup Requests : Cancel(x)
  \/ CloseMarks \/ CloseStep

Spec == Init /\ [][Next]_vars

(***************************************************************************)
(* Every goroutine goes on as long as it can.  A dial fails once its       *)
(* context has ended or its transport is closed, a read or a write once    *)
(* its connection is closed.  Nothing else the network does is promised;   *)
(* with ZeroRTT, Dial does not wait for an answer.                         *)
(***************************************************************************)
Runs ==
  \/ \E c \in Calls :
       \/ pc[c] # "idle" /\ CallStep(c)
       \/ (DialDone(c) \/ ~transport.open) /\ DialFails(c)
       \/ conn[c] = "closed" /\ ExchangeFails(c)
       \/ mode[c] = "stream" /\ ZeroRTT /\ ExchangeSucceeds(c)
  \/ \E r \in Requests :
       \/ owned[r].pc # "idle" /\ RequestStep(r)
       \/ RequestDone(r) /\ HandshakeFails(r)
  \/ CloseStep
Fairness == WF_vars(Runs)

-----------------------------------------------------------------------------
TypeOK ==
  /\ closed \in BOOLEAN
  /\ cpc \in {"idle", "registry", "cancel", "dialers", "transport", "done"}
  /\ dials \in SUBSET Keys
  /\ sweep \in SUBSET (Keys \cup Requests)
  /\ ended \in SUBSET Keys
  /\ cancelled \in SUBSET (Calls \cup Requests)
  /\ transport \in [made : BOOLEAN, owned : BOOLEAN, open : BOOLEAN, quic : BOOLEAN]
  /\ mode \in [Calls -> {"connect", "packet", "stream"}]
  /\ pc \in [Calls -> {"idle", "register", "dial", "transport", "dialling", "dialled",
                       "exchange", "stop", "check", "leave", "returned"}]
  /\ conn \in [Calls -> {"none", "open", "closed"}]
  /\ intr \in [Calls -> {"none", "armed", "started", "done", "stopped"}]
  /\ failed \in [Calls -> BOOLEAN]
  /\ api \in [made : BOOLEAN, closed : BOOLEAN, dialers : SUBSET Requests]
  /\ Cardinality(api.dialers) <= MaxDialers
  /\ owned \in [Requests -> [pc : {"idle", "dial", "admit", "connect", "handshake",
                                   "install", "serving", "release", "finish", "ended"},
                             gen : 0..2, seen : 0..2, conn : {"none", "open", "closed"}]]

\* A call that returns an error leaves no connection open, and one that
\* returns a connection returns an open one. The end of the call's context
\* never closes it afterwards; Client.Close does, and only where it closes a
\* QUIC transport that the client owns: a stream over TLS, or over a transport
\* of the caller, outlives the client.
ConnectionIffSuccess ==
  \A c \in Calls : pc[c] = "returned" =>
    IF failed[c] THEN conn[c] # "open"
    ELSE conn[c] = IF cpc = "done" /\ transport.owned /\ transport.quic THEN "closed" ELSE "open"

\* Once Close has gone through the registry, the context of every dial that
\* is still pending has ended, whenever the dial began.
PendingDialsEnded ==
  (cpc = "cancel" /\ sweep = {}) \/ cpc \in {"dialers", "transport", "done"} =>
    /\ dials = {}
    /\ \A c \in Calls : pc[c] \in {"transport", "dialling"} => DialDone(c)
    /\ \A r \in Requests : owned[r].pc \in {"admit", "connect", "handshake"} => RequestDone(r)

\* When Close returns, the API transport holds no QUIC connection and no
\* goroutine of it is left, and no call has a stream on a QUIC transport the
\* client owns: none is made, admitted or installed behind its back.
CloseReleases ==
  cpc = "done" =>
    /\ transport.owned /\ transport.quic => \A c \in Calls : conn[c] # "open"
    /\ api.dialers = {}
    /\ \A r \in Requests : owned[r].conn # "open"

\* What a call and Close leave behind, in the types of the client's state.
ClientInv == TypeOK /\ ConnectionIffSuccess /\ PendingDialsEnded /\ CloseReleases

\* A Connect or a PacketDial whose context has ended has returned, whatever
\* the engine does, a PacketDial also once the client is closed; and Close
\* has, although it waits for the goroutines of the API transport.
AllReturned ==
  /\ cpc \in {"idle", "done"}
  /\ \A c \in Calls :
       c \in cancelled \/ (closed /\ mode[c] = "packet") => pc[c] \in {"idle", "returned"}
=============================================================================
