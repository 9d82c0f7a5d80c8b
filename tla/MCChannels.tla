----------------------------- MODULE MCChannels -----------------------------
(* The control channel and what carries packets: the datagram channels of  *)
(* a tunnel, the packet socket made of a listener, and the deadline of a   *)
(* socket.  They share no state, so a behaviour exercises one of them      *)
(* (part) under one load; the variables of the others rest at 0.  Their    *)
(* safety is checked on two instances, ControlSpec and PacketsSpec, and    *)
(* on a smaller one, EndingsSpec, where the others rest as they start,     *)
(* that everything that ends lets go of what waits for it.                 *)
(*                                                                         *)
(* "open": two CreateTunnel calls, a Close of a tunnel and a Close of the  *)
(* channel. "beat": one CreateTunnel and both Close calls, with            *)
(* heartbeats. "proxy": two requests for one worker through queues of one  *)
(* slot with an Accept or a Close of the tunnel, or one request with both, *)
(* after a CreateTunnel whose write did not fail and whose context lives.  *)
(* Of a tunnel's datagram channels, with a queue of one and one Accept     *)
(* loop: two streams, with the same or with different channel IDs, on a    *)
(* QUIC connection that lives ("lives") or that may be lost while the      *)
(* engine closes nothing ("lost"); one stream that meets all of it         *)
(* ("one"). "packets": two connections, which share an address or have one *)
(* each, a queue of one packet, one reader and two Close calls; two reads, *)
(* three calls of set on a clock of four ticks.                            *)
(*                                                                         *)
(* In EndingsSpec one CreateTunnel, one Close of its tunnel and one of the *)
(* channel, with heartbeats ("beat"); one proxied connection and one       *)
(* Accept on a channel that may be lost ("relay"); two proxied connections *)
(* and two workers on one that is not ("serve"); one stream ("one") or two *)
(* of which the engine closes none ("quiet"), on a QUIC connection that    *)
(* lives; two reads, two calls of set on a clock of three ticks            *)
(* ("packets"); two connections and a reader, nobody calls Close           *)
(* ("drain"), or a writer and a Close ("close").                           *)
EXTENDS ControlChannel, TLC

CONSTANTS Conns, Peers, Readers, Writers, SocketClosers, Waiters, MaxTime, MaxSets, TransportLoss

VARIABLES part, load,
  idOf, channelWorker, channels, listening, listened, registry, connected, queue, listenerDone, tunnelDone,
  lifecycleDone, ctlClosed, preserve, state, local, delivery, accepting, returned, channelResponded, notified,
  cleaner, reader, loser,
  peerOf, listenerClosed, admissionStopped, done, shutdownDone, innerClosed, conns, active, shut, ended, pkts,
  listenerAccepting, pump, reading, writing, listenerClosing, took, replaced, stale,
  now, deadline, changed, signalled, timers, fired, deadlineReader

D == INSTANCE DatagramChannels WITH worker <- channelWorker, responded <- channelResponded, Streams <- Conns, ChannelIds <- Peers,
       QueueSize <- 1
L == INSTANCE PacketListener WITH closed <- listenerClosed, accepting <- listenerAccepting, closing <- listenerClosing, QueueSize <- 1
P == INSTANCE PacketDeadline WITH reader <- deadlineReader, Readers <- Waiters

channelVars == <<idOf, channelWorker, channels, listening, listened, registry, connected, queue, listenerDone,
                 tunnelDone, lifecycleDone, ctlClosed, preserve, state, local, delivery, accepting, returned,
                 channelResponded, notified, cleaner, reader, loser>>
listenerVars == <<peerOf, listenerClosed, admissionStopped, done, shutdownDone, innerClosed, conns, active,
                  shut, ended, pkts, listenerAccepting, pump, reading, writing, listenerClosing, took, replaced,
                  stale>>
deadlineVars == <<now, deadline, changed, signalled, timers, fired, deadlineReader>>

controlRest == closing = 0 /\ closed = 0 /\ err = 0 /\ cancelled = 0 /\ conn = 0 /\ pendingTunnels = 0
               /\ tunnels = 0 /\ cleanup = 0 /\ finished = 0 /\ opener = 0 /\ respCh = 0 /\ result = 0 /\ tun = 0
               /\ started = 0 /\ proxyRequests = 0 /\ proxyResponses = 0 /\ worker = 0 /\ responseLoop = 0
               /\ readLoop = 0 /\ heartbeatLoop = 0 /\ strm = 0 /\ accepted = 0 /\ acceptor = 0 /\ tcloser = 0
               /\ closer = 0 /\ engine = 0 /\ responded = 0 /\ early = 0 /\ acked = 0
channelRest == idOf = 0 /\ channelWorker = 0 /\ channels = 0 /\ listening = 0 /\ listened = 0 /\ registry = 0
               /\ connected = 0 /\ queue = 0 /\ listenerDone = 0 /\ tunnelDone = 0 /\ lifecycleDone = 0
               /\ ctlClosed = 0 /\ preserve = 0 /\ state = 0 /\ local = 0 /\ delivery = 0 /\ accepting = 0
               /\ returned = 0 /\ channelResponded = 0 /\ notified = 0 /\ cleaner = 0 /\ reader = 0 /\ loser = 0
listenerRest == peerOf = 0 /\ listenerClosed = 0 /\ admissionStopped = 0 /\ done = 0 /\ shutdownDone = 0
                /\ innerClosed = 0 /\ conns = 0 /\ active = 0 /\ shut = 0 /\ ended = 0 /\ pkts = 0
                /\ listenerAccepting = 0 /\ pump = 0 /\ reading = 0 /\ writing = 0 /\ listenerClosing = 0
                /\ took = 0 /\ replaced = 0 /\ stale = 0
deadlineRest == now = 0 /\ deadline = 0 /\ changed = 0 /\ signalled = 0 /\ timers = 0 /\ fired = 0
                /\ deadlineReader = 0

OneTunnel ==
  /\ Cardinality({o \in Openers : opener[o] # "idle"}) <= 1
  /\ \E id \in Tunnels : engine.tunnels \subseteq {id}
NoAccept == \A a \in Acceptors : acceptor[a].pc = "idle"
NoTunnelClose == \A c \in TClosers : tcloser[c].pc = "idle"
NoProxy == engine.asked = {} /\ NoAccept
Patient == \A o \in Openers : opener[o] \notin {"failed", "cleaning", "committed"}
OneRequest ==
  /\ engine.asked \subseteq {CHOOSE s \in Streams : TRUE}
  /\ \A w \in Workers : worker[w].pc \in {"absent", "idle", "gone"} \/ w = CHOOSE v \in Workers : TRUE
NoClose == \A k \in Closers : closer[k] = "idle"

(* What a load leaves out; another load of its part has it.                *)
Within ==
  CASE load = "open" -> NoProxy
    [] load = "beat" -> NoProxy /\ OneTunnel
    [] load = "proxy" -> NoClose /\ OneTunnel /\ Patient /\ (NoTunnelClose \/ NoAccept \/ Cardinality(engine.asked) <= 1)
    [] load = "relay" -> NoClose /\ NoTunnelClose /\ OneRequest
    [] load = "serve" -> NoClose /\ NoTunnelClose /\ ~closed
    [] load = "lives" -> connected
    [] load = "lost" -> reader.pc = "idle"
    [] load = "one" -> \E c \in Conns : channelWorker[c] = "idle"
    [] load = "quiet" -> connected /\ reader.pc = "idle"
    [] load = "drain" -> (\A k \in SocketClosers : listenerClosing[k] = "idle") /\ \A w \in Writers : writing[w] = None
    [] load = "close" -> \A r \in Readers : reading[r].pc = "idle"
    [] OTHER -> TRUE

Shared(f) == \A x, y \in DOMAIN f : f[x] = f[y]

ControlInit ==
  /\ part = "control" /\ load \in {"open", "beat", "proxy"}
  /\ Init /\ heartbeatLoop = (IF load = "beat" THEN "run" ELSE "gone")
  /\ channelRest /\ listenerRest /\ deadlineRest
PacketsInit ==
  /\ part \in {"channels", "listener", "deadline"}
  /\ load \in IF part = "channels" THEN {"lives", "lost", "one"} ELSE {"packets"}
  /\ controlRest
  /\ IF part = "channels" THEN D!Init ELSE channelRest
  /\ IF part = "listener" THEN L!Init ELSE listenerRest
  /\ IF part = "deadline" THEN P!Init ELSE deadlineRest
EndingsInit ==
  /\ part \in {"control", "channels", "listener", "deadline"}
  /\ load \in CASE part = "control" -> {"beat", "relay", "serve"} [] part = "channels" -> {"one", "quiet"}
             [] part = "listener" -> {"drain", "close"} [] OTHER -> {"packets"}
  /\ Init /\ heartbeatLoop = (IF load = "beat" THEN "run" ELSE "gone")
  /\ D!Init /\ idOf = (CHOOSE f \in [Conns -> Peers] : ~Shared(f))
  /\ L!Init /\ (load # "drain" => peerOf = CHOOSE f \in [Conns -> Peers] : Shared(f))
  /\ P!Init

ChannelsNext ==
  /\ UNCHANGED <<part, load>>
  /\ IF part = "control" THEN Next ELSE UNCHANGED vars
  /\ IF part = "channels" THEN D!Next ELSE UNCHANGED channelVars
  /\ IF part = "listener" THEN L!Next ELSE UNCHANGED listenerVars
  /\ IF part = "deadline" THEN P!Next ELSE UNCHANGED deadlineVars
  /\ Within'

allVars == <<part, load, vars, channelVars, listenerVars, deadlineVars>>

ControlSpec == ControlInit /\ [][ChannelsNext]_allVars
PacketsSpec == PacketsInit /\ [][ChannelsNext]_allVars
(* No action that is fair is enabled in a part at rest.                    *)
EndingsSpec == EndingsInit /\ [][ChannelsNext]_allVars /\ Fairness /\ D!Fairness /\ L!Fairness /\ P!Fairness

(* A stream and a connection, a channel ID and an address share a name.    *)
Symmetry == UNION {Permutations(Openers), Permutations(Tunnels), Permutations(Streams), Permutations(Conns), Permutations(Peers)}

(* DatagramChannels: IDs never collide, the engine hears of a close after  *)
(* its answer, and what was not accepted ends with the control channel.    *)
(* packetListenerWrapper: Close closes and joins everything, accepted      *)
(* paths outlive admission, and no stale packet is delivered.              *)
(* packetDeadline: no wake-up is lost and none is invented.                *)
PacketsInv == /\ part = "channels" => D!ChannelInv
              /\ part = "listener" => L!ListenerInv
              /\ part = "deadline" => P!DeadlineInv

(* The control channel: the first error is followed by doneCh and          *)
(* closedCh, every Close, CreateTunnel and Accept the end concerns         *)
(* returns, and a proxied connection is answered unless the channel ends.  *)
ControlEnds == <>[]Settled

(* The cleanup of the datagram channels completes; ReadFrom, WriteTo and   *)
(* Close of a packet socket that has ended return, and so does a read      *)
(* whose deadline has passed.                                              *)
PacketsEnd == <>[](D!Settled /\ L!Settled /\ P!Settled)
=============================================================================
