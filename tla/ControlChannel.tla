--------------------------- MODULE ControlChannel ---------------------------
(***************************************************************************)
(* The control channel of the SDK (controlChannelImpl, client.go) and the  *)
(* tunnels opened on it (bytestreamTunnelImpl, tunnel.go): CreateTunnel,   *)
(* the read loop and its message handlers, the proxy-connection workers    *)
(* and the response loop, Accept and Close of a tunnel, Close of the       *)
(* channel, and the cleanup every failure ends in.                         *)
(*                                                                         *)
(* One critical section of c.mu is one step.  Whatever the code does       *)
(* between two critical sections (a write, a dial, a channel operation, a  *)
(* select) is a step of its own, so that every interleaving of the         *)
(* goroutines is explored.  A select with several ready cases may take any *)
(* of them, and a case guarded by a timer or by the caller's context is    *)
(* always ready.                                                           *)
(***************************************************************************)
EXTENDS Naturals, Sequences, FiniteSets, Functions

CONSTANTS
  Openers,       \* calls of CreateTunnel; each names its request and its tunnel object
  Tunnels,       \* tunnel IDs the engine may assign
  Streams,       \* proxied connections the engine may request
  Workers,       \* the goroutines of proxyConnectionWorkerLoop
  Acceptors,     \* goroutines calling Accept on a tunnel
  TClosers,      \* goroutines calling Close on a tunnel
  Closers,       \* goroutines calling Close on the control channel
  None,          \* a nil pointer
  QueueLimit,    \* proxyConnectionQueueLimit: capacity of proxyRequests
  ResponseLimit, \* proxyConnectionResponseQueueLimit: capacity of proxyResponses
  ConnLimit      \* capacity of bytestreamTunnelImpl.conns

ASSUME NoneIsNew == None \notin Openers \cup Tunnels \cup Streams
ASSUME LimitsPositive == {QueueLimit, ResponseLimit, ConnLimit} \subseteq Nat \ {0}

VARIABLES
  closing, closed, err,  \* the fields of controlChannelImpl
  cancelled,             \* lifecycleCancel was called
  conn,                  \* the transport connection: "open" or "closed"
  pendingTunnels,        \* requests in c.pendingTunnels
  tunnels,               \* c.tunnels: ID -> tunnel object (the opener it was made for) or None
  cleanup,               \* the controlChannelCleanup being run, if any
  finished,              \* closedCh is closed
  opener, respCh, result,\* CreateTunnel: where it stands, its response channel, its return value
  tun,                   \* the tunnel objects
  started,               \* startProxyRuntimeLocked has run
  proxyRequests, proxyResponses,
  worker, responseLoop, readLoop, heartbeatLoop,
  strm,                  \* the connection of each stream: "none", "open" or "closed"
  accepted,              \* streams Accept returned to the application
  acceptor, tcloser, closer,
  engine,                \* what the engine has received and sent
  responded,             \* streams whose ProxyConnRsp was written
  early,                 \* requests taken in before Close was called on their tunnel
  acked                  \* tunnels closed by the engine's CloseTunnelRsp

ctlVars == <<closing, closed, err, cancelled, conn, pendingTunnels, tunnels, cleanup, finished>>
openVars == <<opener, respCh, result>>
proxyVars == <<started, proxyRequests, proxyResponses, worker, responseLoop>>
loopVars == <<readLoop, heartbeatLoop>>
callVars == <<acceptor, tcloser, closer>>
strmVars == <<strm, accepted>>
histVars == <<responded, early, acked>>
vars == <<ctlVars, openVars, tun, proxyVars, loopVars, callVars, strmVars, engine, histVars>>

-----------------------------------------------------------------------------
Request == [s : Streams, o : Openers]
Response == [s : Streams, o : Openers \cup {None}, ok : BOOLEAN]
Errors == {"nil", "fail"}

Callers == Openers \cup TClosers \cup Closers \cup {"readLoop", "heartbeatLoop", "responseLoop"}

NoTunnel == [made |-> FALSE, id |-> None, closing |-> FALSE, closed |-> FALSE, err |-> "nil",
             cancelled |-> FALSE, pending |-> 0, conns |-> <<>>, drop |-> {}]
IdleCleanup == [pc |-> "idle", who |-> None, preserve |-> FALSE, pend |-> {}, tuns |-> {}, cur |-> None]

CleanupRec ==
  [pc : {"idle", "run", "conn", "finish", "done"}, who : Callers \cup {None}, preserve : BOOLEAN,
   pend : SUBSET Openers, tuns : SUBSET Openers, cur : Openers \cup {None}]
TunnelRec ==
  [made : BOOLEAN, id : Tunnels \cup {None}, closing : BOOLEAN, closed : BOOLEAN, err : Errors,
   cancelled : BOOLEAN, pending : Nat, conns : Seq(Streams), drop : SUBSET Streams]
WorkerRec ==
  [pc : {"absent", "idle", "dialing", "check", "deliver", "recheck", "drop", "respond", "refuse", "gone"},
   task : Request \cup {None}]
ResponseRec ==
  [pc : {"absent", "idle", "writing", "complete", "failed", "cleaning", "gone"}, rsp : Response \cup {None}]
ReadRec ==
  [pc : {"reading", "cleanup", "failed", "exiting", "gone"}, err : Errors, tunnel : Openers \cup {None}]
AcceptorRec == [pc : {"idle", "waiting", "popped"}, o : Openers \cup {None}, s : Streams \cup {None}]
TCloserRec ==
  [pc : {"idle", "drain", "send", "await", "failed", "cleaning", "done"}, o : Openers \cup {None},
   drain : {"nil", "open", "closed"}, send : BOOLEAN, res : Errors \cup {"none", "ctl"}]
EngineRec == [opens : SUBSET Openers, tunnels : SUBSET Tunnels, asked : SUBSET Streams]

CtlTypes ==
  /\ closing \in BOOLEAN /\ closed \in BOOLEAN /\ err \in Errors
  /\ cancelled \in BOOLEAN /\ finished \in BOOLEAN /\ conn \in {"open", "closed"}
  /\ pendingTunnels \in SUBSET Openers
  /\ tunnels \in [Tunnels -> Openers \cup {None}]
  /\ cleanup \in CleanupRec

OpenTypes ==
  /\ opener \in [Openers -> {"idle", "writing", "written", "waiting", "committed", "failed", "cleaning", "done"}]
  /\ respCh \in [Openers -> {"empty", "tunnel", "error", "closed"}]
  /\ result \in [Openers -> {"none", "tunnel", "error"}]

TunTypes ==
  /\ tun \in [Openers -> TunnelRec]
  /\ \A o \in Openers : Len(tun[o].conns) <= ConnLimit

ProxyTypes ==
  /\ started \in BOOLEAN
  /\ proxyRequests \in Seq(Request) /\ Len(proxyRequests) <= QueueLimit
  /\ proxyResponses \in Seq(Response) /\ Len(proxyResponses) <= ResponseLimit
  /\ worker \in [Workers -> WorkerRec]
  /\ \A w \in Workers : worker[w].pc \notin {"absent", "idle", "gone"} => worker[w].task \in Request
  /\ responseLoop \in ResponseRec
  /\ responseLoop.pc \notin {"absent", "idle", "gone"} => responseLoop.rsp \in Response

LoopTypes ==
  /\ readLoop \in ReadRec
  /\ readLoop.pc = "cleanup" => readLoop.tunnel \in Openers
  /\ heartbeatLoop \in {"run", "failed", "cleaning", "gone"}

CallTypes ==
  /\ acceptor \in [Acceptors -> AcceptorRec]
  /\ \A a \in Acceptors : /\ acceptor[a].pc # "idle" => acceptor[a].o \in Openers
                          /\ acceptor[a].pc = "popped" => acceptor[a].s \in Streams
  /\ tcloser \in [TClosers -> TCloserRec]
  /\ \A c \in TClosers : tcloser[c].pc # "idle" => tcloser[c].o \in Openers
  /\ closer \in [Closers -> {"idle", "send", "await", "failed", "cleaning", "join", "done"}]

RestTypes ==
  /\ strm \in [Streams -> {"none", "open", "closed"}]
  /\ accepted \in SUBSET Streams
  /\ engine \in EngineRec
  /\ responded \in SUBSET Streams /\ early \in SUBSET Request /\ acked \in SUBSET Openers

(* Every variable has its type; the queues respect their capacities, and   *)
(* a goroutine in the middle of a task has one.                            *)
TypeOK ==
  CtlTypes /\ OpenTypes /\ TunTypes /\ ProxyTypes /\ LoopTypes /\ CallTypes /\ RestTypes

Init ==
  /\ closing = FALSE /\ closed = FALSE /\ err = "nil"
  /\ cancelled = FALSE /\ conn = "open" /\ finished = FALSE
  /\ pendingTunnels = {} /\ tunnels = [i \in Tunnels |-> None]
  /\ cleanup = IdleCleanup
  /\ opener = [o \in Openers |-> "idle"]
  /\ respCh = [o \in Openers |-> "empty"]
  /\ result = [o \in Openers |-> "none"]
  /\ tun = [o \in Openers |-> NoTunnel]
  /\ started = FALSE /\ proxyRequests = <<>> /\ proxyResponses = <<>>
  /\ worker = [w \in Workers |-> [pc |-> "absent", task |-> None]]
  /\ responseLoop = [pc |-> "absent", rsp |-> None]
  /\ readLoop = [pc |-> "reading", err |-> "nil", tunnel |-> None]
  /\ heartbeatLoop \in {"run", "gone"}  \* started only when the engine agreed to heartbeats
  /\ strm = [s \in Streams |-> "none"] /\ accepted = {}
  /\ acceptor = [a \in Acceptors |-> [pc |-> "idle", o |-> None, s |-> None]]
  /\ tcloser = [c \in TClosers |-> [pc |-> "idle", o |-> None, drain |-> "nil", send |-> FALSE, res |-> "none"]]
  /\ closer = [k \in Closers |-> "idle"]
  /\ engine = [opens |-> {}, tunnels |-> {}, asked |-> {}]
  /\ responded = {} /\ early = {} /\ acked = {}
-----------------------------------------------------------------------------
(* onError and the cleanup it runs                                         *)

(* Mutant: pending requests are not handed to the cleanup.                 *)
OnErrorForgetsPending(e, who) ==
  /\ IF closed
       THEN UNCHANGED <<closed, err, pendingTunnels, tunnels, cleanup>>
       ELSE /\ closed' = TRUE
            /\ err' = e
            /\ cleanup' = [IdleCleanup EXCEPT !.pc = "run", !.who = who, !.tuns = Range(tunnels) \ {None}]
            /\ pendingTunnels' = {}
            /\ tunnels' = [i \in Tunnels |-> None]
  /\ UNCHANGED <<closing, cancelled, conn, finished>>

(* detachCleanupLocked: the first error (nil for a graceful close) marks   *)
(* the channel closed and takes over its maps; later calls do nothing.     *)
OnError(e, who) ==
  /\ IF closed
       THEN UNCHANGED <<closed, err, pendingTunnels, tunnels, cleanup>>
       ELSE /\ closed' = TRUE
            /\ err' = e
            /\ cleanup' = [pc |-> "run", who |-> who, preserve |-> e # "nil" /\ ~closing,
                           pend |-> pendingTunnels, tuns |-> Range(tunnels) \ {None}, cur |-> None]
            /\ pendingTunnels' = {}
            /\ tunnels' = [i \in Tunnels |-> None]
  /\ UNCHANGED <<closing, cancelled, conn, finished>>

(* onError has returned to its caller: a caller whose error was the first  *)
(* one runs the cleanup itself.                                            *)
Returned(who) == cleanup.who = who => cleanup.pc \in {"finish", "done"}

(* tunnel.onErrorLocked: marks the tunnel closed, wakes its waiters and    *)
(* takes the queued connections over.                                      *)
ClosedTunnel(t, e) ==
  IF t.closed THEN t
  ELSE [t EXCEPT !.closed = TRUE, !.err = e, !.drop = Range(t.conns), !.conns = <<>>]

(* tunnelCleanup.run, outside the lock: cancel the tunnel's context and    *)
(* close the connections that were still queued.                           *)
RunTunnelCleanup(o) ==
  /\ tun' = [tun EXCEPT ![o].cancelled = TRUE, ![o].drop = {}]
  /\ strm' = [s \in Streams |-> IF s \in tun[o].drop THEN "closed" ELSE strm[s]]
  /\ UNCHANGED accepted

CleanupPending(o) ==
  /\ cleanup.pc = "run" /\ o \in cleanup.pend
  /\ respCh' = [respCh EXCEPT ![o] = "closed"]
  /\ cleanup' = [cleanup EXCEPT !.pend = @ \ {o}]
  /\ UNCHANGED <<closing, closed, err, cancelled, conn, pendingTunnels, tunnels, finished, opener, result,
                 tun, proxyVars, loopVars, callVars, strmVars, engine, histVars>>

CleanupTunnel(o) ==
  /\ cleanup.pc = "run" /\ cleanup.pend = {} /\ cleanup.cur = None /\ o \in cleanup.tuns
  /\ tun' = [tun EXCEPT ![o] = ClosedTunnel(@, err)]
  /\ cleanup' = [cleanup EXCEPT !.tuns = @ \ {o}, !.cur = o]
  /\ UNCHANGED <<closing, closed, err, cancelled, conn, pendingTunnels, tunnels, finished, openVars,
                 proxyVars, loopVars, callVars, strmVars, engine, histVars>>

CleanupTunnelRun ==
  /\ cleanup.pc = "run" /\ cleanup.cur # None
  /\ RunTunnelCleanup(cleanup.cur)
  /\ cleanup' = [cleanup EXCEPT !.cur = None]
  /\ UNCHANGED <<closing, closed, err, cancelled, conn, pendingTunnels, tunnels, finished, openVars,
                 proxyVars, loopVars, callVars, engine, histVars>>

(* Mutant: the lifecycle context is never cancelled.                       *)
CleanupCancelSkipped ==
  /\ cleanup.pc = "run" /\ cleanup.pend = {} /\ cleanup.tuns = {} /\ cleanup.cur = None
  /\ cleanup' = [cleanup EXCEPT !.pc = "conn"]
  /\ UNCHANGED <<closing, closed, err, cancelled, conn, pendingTunnels, tunnels, finished, openVars, tun,
                 proxyVars, loopVars, callVars, strmVars, engine, histVars>>

(* lifecycleCancel: every tunnel context derives from lifecycleCtx.        *)
CleanupCancel ==
  /\ cleanup.pc = "run" /\ cleanup.pend = {} /\ cleanup.tuns = {} /\ cleanup.cur = None
  /\ cancelled' = TRUE
  /\ cleanup' = [cleanup EXCEPT !.pc = "conn"]
  /\ UNCHANGED <<closing, closed, err, conn, pendingTunnels, tunnels, finished, openVars, tun,
                 proxyVars, loopVars, callVars, strmVars, engine, histVars>>

CleanupConn ==
  /\ cleanup.pc = "conn"
  /\ conn' = "closed"
  /\ cleanup' = [cleanup EXCEPT !.pc = "finish"]
  /\ UNCHANGED <<closing, closed, err, cancelled, pendingTunnels, tunnels, finished, openVars, tun,
                 proxyVars, loopVars, callVars, strmVars, engine, histVars>>

(* lifecycleWG.Wait has returned: every lifecycle goroutine is gone.       *)
LoopsGone ==
  /\ readLoop.pc = "gone" /\ heartbeatLoop = "gone"
  /\ responseLoop.pc \in {"absent", "gone"}
  /\ \A w \in Workers : worker[w].pc \in {"absent", "gone"}

(* finish: join the goroutines, then publish the end on doneCh, closedCh.  *)
Finish ==
  /\ cleanup.pc = "finish"
  /\ LoopsGone
  /\ finished' = TRUE
  /\ cleanup' = [cleanup EXCEPT !.pc = "done"]
  /\ UNCHANGED <<closing, closed, err, cancelled, conn, pendingTunnels, tunnels, openVars, tun,
                 proxyVars, loopVars, callVars, strmVars, engine, histVars>>

-----------------------------------------------------------------------------
(* CreateTunnel and awaitOpenTunnelResult                                  *)

CreateTunnel(o) ==
  /\ opener[o] = "idle"
  /\ IF closed \/ closing
       THEN /\ opener' = [opener EXCEPT ![o] = "done"]
            /\ result' = [result EXCEPT ![o] = "error"]
            /\ UNCHANGED pendingTunnels
       ELSE /\ opener' = [opener EXCEPT ![o] = "writing"]
            /\ pendingTunnels' = pendingTunnels \cup {o}
            /\ UNCHANGED result
  /\ UNCHANGED <<closing, closed, err, cancelled, conn, tunnels, cleanup, finished, respCh, tun,
                 proxyVars, loopVars, callVars, strmVars, engine, histVars>>

(* The engine has the OpenTunnelReq and may answer it; the write has not   *)
(* returned yet.                                                           *)
OpenWritten(o) ==
  /\ opener[o] = "writing" /\ conn = "open"
  /\ opener' = [opener EXCEPT ![o] = "written"]
  /\ engine' = [engine EXCEPT !.opens = @ \cup {o}]
  /\ UNCHANGED <<ctlVars, respCh, result, tun, proxyVars, loopVars, callVars, strmVars, histVars>>

(* writePbMessageContext returned nil.                                     *)
OpenSent(o) ==
  /\ opener[o] = "written"
  /\ opener' = [opener EXCEPT ![o] = "waiting"]
  /\ UNCHANGED <<ctlVars, respCh, result, tun, proxyVars, loopVars, callVars, strmVars, engine, histVars>>

(* The context ended before anything was written: nothing was sent and the *)
(* channel stays usable.                                                   *)
OpenNotWritten(o) ==
  /\ opener[o] = "writing"
  /\ opener' = [opener EXCEPT ![o] = "done"]
  /\ result' = [result EXCEPT ![o] = "error"]
  /\ pendingTunnels' = pendingTunnels \ {o}
  /\ UNCHANGED <<closing, closed, err, cancelled, conn, tunnels, cleanup, finished, respCh, tun,
                 proxyVars, loopVars, callVars, strmVars, engine, histVars>>

(* The write failed or its context ended, before the engine had the        *)
(* request or after, when its answer may have made the tunnel already.     *)
(* The request is forgotten, then onError runs.                            *)
OpenWriteFails(o) ==
  /\ opener[o] \in {"writing", "written"}
  /\ opener' = [opener EXCEPT ![o] = "failed"]
  /\ pendingTunnels' = pendingTunnels \ {o}
  /\ UNCHANGED <<closing, closed, err, cancelled, conn, tunnels, cleanup, finished, respCh, result, tun,
                 proxyVars, loopVars, callVars, strmVars, engine, histVars>>

OpenOnError(o) ==
  /\ opener[o] = "failed"
  /\ OnError("fail", o)
  /\ opener' = [opener EXCEPT ![o] = "cleaning"]
  /\ UNCHANGED <<respCh, result, tun, proxyVars, loopVars, callVars, strmVars, engine, histVars>>

OpenFailed(o) ==
  /\ opener[o] = "cleaning" /\ Returned(o)
  /\ opener' = [opener EXCEPT ![o] = "done"]
  /\ result' = [result EXCEPT ![o] = "error"]
  /\ UNCHANGED <<ctlVars, respCh, tun, proxyVars, loopVars, callVars, strmVars, engine, histVars>>

(* The select takes ctx.Done: a request still pending is withdrawn, one    *)
(* that is not has a result on its way.                                    *)
OpenCancelled(o) ==
  /\ opener[o] = "waiting"
  /\ IF o \in pendingTunnels
       THEN /\ pendingTunnels' = pendingTunnels \ {o}
            /\ opener' = [opener EXCEPT ![o] = "done"]
            /\ result' = [result EXCEPT ![o] = "error"]
       ELSE /\ opener' = [opener EXCEPT ![o] = "committed"]
            /\ UNCHANGED <<pendingTunnels, result>>
  /\ UNCHANGED <<closing, closed, err, cancelled, conn, tunnels, cleanup, finished, respCh, tun,
                 proxyVars, loopVars, callVars, strmVars, engine, histVars>>

(* tunnelFromOpenResult: the response channel has a result or is closed.   *)
OpenResult(o) ==
  /\ opener[o] \in {"waiting", "committed"}
  /\ respCh[o] # "empty"
  /\ opener' = [opener EXCEPT ![o] = "done"]
  /\ result' = [result EXCEPT ![o] = IF respCh[o] = "tunnel" THEN "tunnel" ELSE "error"]
  /\ UNCHANGED <<ctlVars, respCh, tun, proxyVars, loopVars, callVars, strmVars, engine, histVars>>
-----------------------------------------------------------------------------
(* controlChannelImpl.Close                                                *)

Close(k) ==
  /\ closer[k] = "idle"
  /\ closing' = (closing \/ ~closed)
  /\ closer' = [closer EXCEPT ![k] = IF closed THEN "join" ELSE IF closing THEN "await" ELSE "send"]
  /\ UNCHANGED <<closed, err, cancelled, conn, pendingTunnels, tunnels, cleanup, finished, openVars, tun,
                 proxyVars, loopVars, acceptor, tcloser, strmVars, engine, histVars>>

CloseStep(k, from, to) ==
  /\ closer[k] = from
  /\ closer' = [closer EXCEPT ![k] = to]
  /\ UNCHANGED <<openVars, tun, proxyVars, loopVars, acceptor, tcloser, strmVars, engine, histVars>>

CloseWritten(k) == conn = "open" /\ CloseStep(k, "send", "await") /\ UNCHANGED ctlVars
CloseWriteFails(k) == CloseStep(k, "send", "failed") /\ UNCHANGED ctlVars
CloseTimeout(k) == ~finished /\ CloseStep(k, "await", "failed") /\ UNCHANGED ctlVars
CloseOnError(k) == OnError("fail", k) /\ CloseStep(k, "failed", "cleaning")
CloseCleaned(k) == Returned(k) /\ CloseStep(k, "cleaning", "join") /\ UNCHANGED ctlVars
CloseReturn(k) ==
  /\ finished
  /\ \E from \in {"await", "join"} : CloseStep(k, from, "done")
  /\ UNCHANGED ctlVars

-----------------------------------------------------------------------------
(* readLoop and the handlers of handleMessage.  The engine's side of the   *)
(* connection (not in this repository) is folded in: the connection is     *)
(* FIFO and the engine's choices depend only on what it has received, so a *)
(* message is chosen when it is read, among those the engine can have sent.*)

Reading == [pc |-> "reading", err |-> "nil", tunnel |-> None]
ReadFailed(e) == [Reading EXCEPT !.pc = "failed", !.err = e]

(* readPbMessage or SetReadDeadline fails (a network error, EOF, no        *)
(* message within the negotiated heartbeat timeout), or the channel is     *)
(* found closed under the lock after a message was read.                   *)
ReadFails ==
  /\ readLoop.pc = "reading"
  /\ readLoop' = ReadFailed("fail")
  /\ UNCHANGED <<ctlVars, openVars, tun, proxyVars, heartbeatLoop, callVars, strmVars, engine, histVars>>

(* A message was read and the channel is not closed: its handler runs.     *)
Reads == readLoop.pc = "reading" /\ conn = "open" /\ ~closed

(* Mutant: a tunnel ID already in use is registered again.                 *)
OpenTunnelResultOverwrites(o, id) ==
  IF id = None \/ closing
    THEN /\ respCh' = [respCh EXCEPT ![o] = "error"]
         /\ UNCHANGED <<tunnels, tun>>
    ELSE /\ respCh' = [respCh EXCEPT ![o] = "tunnel"]
         /\ tunnels' = [tunnels EXCEPT ![id] = o]
         /\ tun' = [tun EXCEPT ![o] = [NoTunnel EXCEPT !.made = TRUE, !.id = id]]

(* openTunnelResultLocked, for a request that is still pending: an engine  *)
(* error, a tunnel that cannot be registered, or a new tunnel object.      *)
OpenTunnelResult(o, id) ==
  IF id = None \/ closing \/ tunnels[id] # None
    THEN /\ respCh' = [respCh EXCEPT ![o] = "error"]
         /\ UNCHANGED <<tunnels, tun>>
    ELSE /\ respCh' = [respCh EXCEPT ![o] = "tunnel"]
         /\ tunnels' = [tunnels EXCEPT ![id] = o]
         /\ tun' = [tun EXCEPT ![o] = [NoTunnel EXCEPT !.made = TRUE, !.id = id]]

(* Mutant: an answered request stays registered.                           *)
HandleOpenTunnelRspKeeps(o, id) ==
  /\ Reads /\ o \in engine.opens
  /\ engine' = [engine EXCEPT !.opens = @ \ {o}, !.tunnels = (@ \cup {id}) \ {None}]
  /\ IF o \in pendingTunnels THEN OpenTunnelResult(o, id) ELSE UNCHANGED <<respCh, tunnels, tun>>
  /\ UNCHANGED <<closing, closed, err, cancelled, conn, pendingTunnels, cleanup, finished, opener, result,
                 proxyVars, loopVars, callVars, strmVars, histVars>>

(* id is the tunnel ID the engine assigned, None for an engine error.      *)
HandleOpenTunnelRsp(o, id) ==
  /\ Reads /\ o \in engine.opens
  /\ engine' = [engine EXCEPT !.opens = @ \ {o}, !.tunnels = (@ \cup {id}) \ {None}]
  /\ IF o \in pendingTunnels
       THEN /\ pendingTunnels' = pendingTunnels \ {o}
            /\ OpenTunnelResult(o, id)
       ELSE UNCHANGED <<pendingTunnels, respCh, tunnels, tun>>
  /\ UNCHANGED <<closing, closed, err, cancelled, conn, cleanup, finished, opener, result,
                 proxyVars, loopVars, callVars, strmVars, histVars>>

HandleCloseTunnelRsp(id) ==
  /\ Reads /\ id \in engine.tunnels
  /\ LET o == tunnels[id] IN
     IF o = None
       THEN UNCHANGED <<tunnels, tun, readLoop, acked>>
       ELSE /\ tunnels' = [tunnels EXCEPT ![id] = None]
            /\ tun' = [tun EXCEPT ![o] = ClosedTunnel(@, "nil")]
            /\ readLoop' = [Reading EXCEPT !.pc = "cleanup", !.tunnel = o]
            /\ acked' = acked \cup {o}
  /\ UNCHANGED <<closing, closed, err, cancelled, conn, pendingTunnels, cleanup, finished, openVars,
                 proxyVars, heartbeatLoop, callVars, strmVars, engine, responded, early>>

(* The cleanup a handler returns runs outside the lock.                    *)
ReadCleanup ==
  /\ readLoop.pc = "cleanup"
  /\ RunTunnelCleanup(readLoop.tunnel)
  /\ readLoop' = Reading
  /\ UNCHANGED <<ctlVars, openVars, proxyVars, heartbeatLoop, callVars, engine, histVars>>

(* startProxyRuntimeLocked: the first request starts the goroutines.       *)
StartProxyRuntime ==
  /\ started' = TRUE
  /\ worker' = [w \in Workers |-> IF started THEN worker[w] ELSE [pc |-> "idle", task |-> None]]
  /\ responseLoop' = IF started THEN responseLoop ELSE [pc |-> "idle", rsp |-> None]

(* addProxyResponseLocked                                                  *)
AddProxyResponse(o, s) ==
  /\ tun' = IF o = None THEN tun ELSE [tun EXCEPT ![o].pending = @ + 1]
  /\ early' = IF o # None /\ ~tun[o].closing THEN early \cup {[s |-> s, o |-> o]} ELSE early

(* A ProxyConnReq for stream s of tunnel ID id.                            *)
ReadsProxyConnReq(id, s) ==
  /\ Reads /\ id \in engine.tunnels /\ s \notin engine.asked
  /\ engine' = [engine EXCEPT !.asked = @ \cup {s}]
  /\ StartProxyRuntime

(* Mutant: the request queue has no limit.                                 *)
HandleProxyConnReqUnbounded(id, s) ==
  /\ ReadsProxyConnReq(id, s)
  /\ tunnels[id] # None
  /\ proxyRequests' = Append(proxyRequests, [s |-> s, o |-> tunnels[id]])
  /\ AddProxyResponse(tunnels[id], s)
  /\ UNCHANGED <<ctlVars, openVars, proxyResponses, loopVars, callVars, strmVars, responded, acked>>

HandleProxyConnReq(id, s) ==
  /\ ReadsProxyConnReq(id, s)
  /\ LET o == tunnels[id] IN
     /\ o # None /\ Len(proxyRequests) < QueueLimit
     /\ proxyRequests' = Append(proxyRequests, [s |-> s, o |-> o])
     /\ AddProxyResponse(o, s)
  /\ UNCHANGED <<ctlVars, openVars, proxyResponses, loopVars, callVars, strmVars, responded, acked>>

(* rejectProxyConnReqLocked: the tunnel is unknown, the request queue is   *)
(* full, or the request redirects without a credential, which the model    *)
(* does not tell apart from one that does.                                 *)
RejectProxyConnReq(id, s) ==
  /\ ReadsProxyConnReq(id, s)
  /\ LET o == tunnels[id] IN
     IF Len(proxyResponses) < ResponseLimit
       THEN /\ proxyResponses' = Append(proxyResponses, [s |-> s, o |-> o, ok |-> FALSE])
            /\ AddProxyResponse(o, s)
            /\ UNCHANGED readLoop
       ELSE /\ readLoop' = ReadFailed("fail")
            /\ UNCHANGED <<proxyResponses, tun, early>>
  /\ UNCHANGED <<ctlVars, openVars, proxyRequests, heartbeatLoop, callVars, strmVars, responded, acked>>

(* CloseControlChannelRsp ends the loop without an error; a message that a *)
(* handler refuses ends it with one.                                       *)
HandleLastMessage ==
  /\ Reads
  /\ \E e \in Errors : readLoop' = ReadFailed(e)
  /\ UNCHANGED <<ctlVars, openVars, tun, proxyVars, heartbeatLoop, callVars, strmVars, engine, histVars>>

ReadOnError ==
  /\ readLoop.pc = "failed"
  /\ OnError(readLoop.err, "readLoop")
  /\ readLoop' = [readLoop EXCEPT !.pc = "exiting"]
  /\ UNCHANGED <<openVars, tun, proxyVars, heartbeatLoop, callVars, strmVars, engine, histVars>>

ReadExit ==
  /\ readLoop.pc = "exiting" /\ Returned("readLoop")
  /\ readLoop' = [readLoop EXCEPT !.pc = "gone"]
  /\ UNCHANGED <<ctlVars, openVars, tun, proxyVars, heartbeatLoop, callVars, strmVars, engine, histVars>>
-----------------------------------------------------------------------------
(* heartbeatLoop                                                           *)

HeartbeatStep(from, to) ==
  /\ heartbeatLoop = from
  /\ heartbeatLoop' = to
  /\ UNCHANGED <<openVars, tun, proxyVars, readLoop, callVars, strmVars, engine, histVars>>

HeartbeatFails == HeartbeatStep("run", "failed") /\ UNCHANGED ctlVars
HeartbeatExit == cancelled /\ HeartbeatStep("run", "gone") /\ UNCHANGED ctlVars
HeartbeatOnError == OnError("fail", "heartbeatLoop") /\ HeartbeatStep("failed", "cleaning")
HeartbeatGone == Returned("heartbeatLoop") /\ HeartbeatStep("cleaning", "gone") /\ UNCHANGED ctlVars

-----------------------------------------------------------------------------
(* proxyConnectionWorkerLoop: dial, deliver to the tunnel, queue a response *)

WorkerAt(w, pc) == worker[w].pc = pc
WorkerGoes(w, pc) == worker' = [worker EXCEPT ![w].pc = pc]
TaskTunnel(w) == tun[worker[w].task.o]

WorkerExit(w) ==
  /\ WorkerAt(w, "idle") /\ cancelled
  /\ WorkerGoes(w, "gone")
  /\ UNCHANGED <<ctlVars, openVars, tun, started, proxyRequests, proxyResponses, responseLoop,
                 loopVars, callVars, strmVars, engine, histVars>>

(* A task taken after the cancellation is dropped.                         *)
WorkerTake(w) ==
  /\ WorkerAt(w, "idle") /\ proxyRequests # <<>>
  /\ proxyRequests' = Tail(proxyRequests)
  /\ worker' = [worker EXCEPT ![w] = [pc |-> IF cancelled THEN "gone" ELSE "dialing",
                                      task |-> Head(proxyRequests)]]
  /\ UNCHANGED <<ctlVars, openVars, tun, started, proxyResponses, responseLoop,
                 loopVars, callVars, strmVars, engine, histVars>>

(* dialProxyConnection, all its attempts: a connection or an error.        *)
WorkerDial(w) ==
  /\ WorkerAt(w, "dialing")
  /\ \/ WorkerGoes(w, "check") /\ strm' = [strm EXCEPT ![worker[w].task.s] = "open"]
     \/ WorkerGoes(w, "refuse") /\ UNCHANGED strm
  /\ UNCHANGED <<ctlVars, openVars, tun, started, proxyRequests, proxyResponses, responseLoop,
                 loopVars, callVars, accepted, engine, histVars>>

(* deliverProxyConnection, before the send                                 *)
WorkerCheck(w) ==
  /\ WorkerAt(w, "check")
  /\ WorkerGoes(w, IF TaskTunnel(w).closing \/ TaskTunnel(w).closed THEN "drop" ELSE "deliver")
  /\ UNCHANGED <<ctlVars, openVars, tun, started, proxyRequests, proxyResponses, responseLoop,
                 loopVars, callVars, strmVars, engine, histVars>>

WorkerDeliver(w) ==
  /\ WorkerAt(w, "deliver") /\ Len(TaskTunnel(w).conns) < ConnLimit
  /\ tun' = [tun EXCEPT ![worker[w].task.o].conns = Append(@, worker[w].task.s)]
  /\ WorkerGoes(w, "recheck")
  /\ UNCHANGED <<ctlVars, openVars, started, proxyRequests, proxyResponses, responseLoop,
                 loopVars, callVars, strmVars, engine, histVars>>

(* The context, the tunnel's end or the delivery timer won the select.     *)
WorkerUndelivered(w) ==
  /\ WorkerAt(w, "deliver")
  /\ WorkerGoes(w, "drop")
  /\ UNCHANGED <<ctlVars, openVars, tun, started, proxyRequests, proxyResponses, responseLoop,
                 loopVars, callVars, strmVars, engine, histVars>>

(* Mutant: no second look at the tunnel after the send.                    *)
WorkerRecheckTrusts(w) ==
  /\ WorkerAt(w, "recheck")
  /\ WorkerGoes(w, "respond")
  /\ UNCHANGED <<ctlVars, openVars, tun, started, proxyRequests, proxyResponses, responseLoop,
                 loopVars, callVars, strmVars, engine, histVars>>

(* After the send: a tunnel that closed meanwhile may have drained its     *)
(* queue before the send.                                                  *)
WorkerRecheck(w) ==
  /\ WorkerAt(w, "recheck")
  /\ WorkerGoes(w, IF TaskTunnel(w).closed THEN "drop" ELSE "respond")
  /\ UNCHANGED <<ctlVars, openVars, tun, started, proxyRequests, proxyResponses, responseLoop,
                 loopVars, callVars, strmVars, engine, histVars>>

WorkerDrop(w) ==
  /\ WorkerAt(w, "drop")
  /\ strm' = [strm EXCEPT ![worker[w].task.s] = "closed"]
  /\ WorkerGoes(w, "refuse")
  /\ UNCHANGED <<ctlVars, openVars, tun, started, proxyRequests, proxyResponses, responseLoop,
                 loopVars, callVars, accepted, engine, histVars>>

(* queueProxyConnRsp                                                       *)
WorkerRespond(w) ==
  /\ WorkerAt(w, "respond") \/ WorkerAt(w, "refuse")
  /\ \/ /\ Len(proxyResponses) < ResponseLimit
        /\ proxyResponses' = Append(proxyResponses, [s |-> worker[w].task.s, o |-> worker[w].task.o,
                                                     ok |-> WorkerAt(w, "respond")])
        /\ worker' = [worker EXCEPT ![w] = [pc |-> "idle", task |-> None]]
     \/ /\ cancelled
        /\ WorkerGoes(w, "gone")
        /\ UNCHANGED proxyResponses
  /\ UNCHANGED <<ctlVars, openVars, tun, started, proxyRequests, responseLoop,
                 loopVars, callVars, strmVars, engine, histVars>>

-----------------------------------------------------------------------------
(* proxyConnectionResponseLoop                                             *)

ResponseExit ==
  /\ responseLoop.pc = "idle" /\ cancelled
  /\ responseLoop' = [responseLoop EXCEPT !.pc = "gone"]
  /\ UNCHANGED <<ctlVars, openVars, tun, started, proxyRequests, proxyResponses, worker,
                 loopVars, callVars, strmVars, engine, histVars>>

ResponseTake ==
  /\ responseLoop.pc = "idle" /\ proxyResponses # <<>>
  /\ proxyResponses' = Tail(proxyResponses)
  /\ responseLoop' = [pc |-> IF cancelled THEN "gone" ELSE "writing", rsp |-> Head(proxyResponses)]
  /\ UNCHANGED <<ctlVars, openVars, tun, started, proxyRequests, worker,
                 loopVars, callVars, strmVars, engine, histVars>>

ResponseWritten ==
  /\ responseLoop.pc = "writing" /\ conn = "open"
  /\ responseLoop' = [responseLoop EXCEPT !.pc = "complete"]
  /\ responded' = responded \cup {responseLoop.rsp.s}
  /\ UNCHANGED <<ctlVars, openVars, tun, started, proxyRequests, proxyResponses, worker,
                 loopVars, callVars, strmVars, engine, early, acked>>

ResponseWriteFails ==
  /\ responseLoop.pc = "writing"
  /\ responseLoop' = [responseLoop EXCEPT !.pc = "failed"]
  /\ UNCHANGED <<ctlVars, openVars, tun, started, proxyRequests, proxyResponses, worker,
                 loopVars, callVars, strmVars, engine, histVars>>

ResponseOnError ==
  /\ responseLoop.pc = "failed"
  /\ OnError("fail", "responseLoop")
  /\ responseLoop' = [responseLoop EXCEPT !.pc = "cleaning"]
  /\ UNCHANGED <<openVars, tun, started, proxyRequests, proxyResponses, worker,
                 loopVars, callVars, strmVars, engine, histVars>>

ResponseGone ==
  /\ responseLoop.pc = "cleaning" /\ Returned("responseLoop")
  /\ responseLoop' = [responseLoop EXCEPT !.pc = "gone"]
  /\ UNCHANGED <<ctlVars, openVars, tun, started, proxyRequests, proxyResponses, worker,
                 loopVars, callVars, strmVars, engine, histVars>>

(* completeProxyResponseLocked: the last pending response closes           *)
(* proxyDrained, which every Close of the tunnel still draining waits for. *)
ResponseComplete ==
  /\ responseLoop.pc = "complete"
  /\ responseLoop' = [pc |-> "idle", rsp |-> None]
  /\ LET o == responseLoop.rsp.o IN
     IF o = None \/ tun[o].pending = 0
       THEN UNCHANGED <<tun, tcloser>>
       ELSE /\ tun' = [tun EXCEPT ![o].pending = @ - 1]
            /\ tcloser' = [c \in TClosers |->
                 IF tun[o].pending = 1 /\ tcloser[c].o = o /\ tcloser[c].drain = "open"
                   THEN [tcloser[c] EXCEPT !.drain = "closed"] ELSE tcloser[c]]
  /\ UNCHANGED <<ctlVars, openVars, started, proxyRequests, proxyResponses, worker,
                 loopVars, acceptor, closer, strmVars, engine, histVars>>
-----------------------------------------------------------------------------
(* bytestreamTunnelImpl.Accept, on a tunnel CreateTunnel has returned; on a *)
(* closed tunnel it returns an error at once, which changes nothing.       *)

Accept(a, o) ==
  /\ acceptor[a].pc = "idle" /\ result[o] = "tunnel" /\ ~tun[o].closed
  /\ acceptor' = [acceptor EXCEPT ![a] = [pc |-> "waiting", o |-> o, s |-> None]]
  /\ UNCHANGED <<ctlVars, openVars, tun, proxyVars, loopVars, tcloser, closer, strmVars, engine, histVars>>

AcceptPop(a) ==
  /\ acceptor[a].pc = "waiting" /\ tun[acceptor[a].o].conns # <<>>
  /\ LET o == acceptor[a].o IN
     /\ acceptor' = [acceptor EXCEPT ![a] = [pc |-> "popped", o |-> o, s |-> Head(tun[o].conns)]]
     /\ tun' = [tun EXCEPT ![o].conns = Tail(@)]
  /\ UNCHANGED <<ctlVars, openVars, proxyVars, loopVars, tcloser, closer, strmVars, engine, histVars>>

(* The tunnel may have closed since: then the connection is closed and the *)
(* tunnel's error returned.                                                *)
AcceptReturn(a) ==
  /\ acceptor[a].pc = "popped"
  /\ IF tun[acceptor[a].o].closed
       THEN strm' = [strm EXCEPT ![acceptor[a].s] = "closed"] /\ UNCHANGED accepted
       ELSE accepted' = accepted \cup {acceptor[a].s} /\ UNCHANGED strm
  /\ acceptor' = [acceptor EXCEPT ![a] = [pc |-> "idle", o |-> None, s |-> None]]
  /\ UNCHANGED <<ctlVars, openVars, tun, proxyVars, loopVars, tcloser, closer, engine, histVars>>

AcceptError(a) ==
  /\ acceptor[a].pc = "waiting" /\ tun[acceptor[a].o].closed
  /\ acceptor' = [acceptor EXCEPT ![a] = [pc |-> "idle", o |-> None, s |-> None]]
  /\ UNCHANGED <<ctlVars, openVars, tun, proxyVars, loopVars, tcloser, closer, strmVars, engine, histVars>>

-----------------------------------------------------------------------------
(* bytestreamTunnelImpl.Close                                              *)

AfterDrain(send) == IF send THEN "send" ELSE "await"

(* Mutant: Close does not wait for the pending proxy responses.            *)
TunnelCloseAtOnce(c, o) ==
  /\ tcloser[c].pc = "idle" /\ result[o] = "tunnel" /\ ~tun[o].closed
  /\ tcloser' = [tcloser EXCEPT ![c].pc = AfterDrain(~tun[o].closing), ![c].o = o, ![c].send = ~tun[o].closing]
  /\ tun' = [tun EXCEPT ![o].closing = TRUE]
  /\ UNCHANGED <<ctlVars, openVars, proxyVars, loopVars, acceptor, closer, strmVars, engine, histVars>>

TunnelClose(c, o) ==
  /\ tcloser[c].pc = "idle" /\ result[o] = "tunnel"
  /\ LET t == tun[o] IN
     IF t.closed
       THEN /\ tcloser' = [tcloser EXCEPT ![c].pc = "done", ![c].o = o, ![c].res = t.err]
            /\ UNCHANGED tun
       ELSE /\ tcloser' = [tcloser EXCEPT ![c].pc = IF t.pending > 0 THEN "drain" ELSE AfterDrain(~t.closing),
                                          ![c].o = o,
                                          ![c].drain = IF t.pending > 0 THEN "open" ELSE "nil",
                                          ![c].send = ~t.closing]
            /\ tun' = [tun EXCEPT ![o].closing = TRUE]
  /\ UNCHANGED <<ctlVars, openVars, proxyVars, loopVars, acceptor, closer, strmVars, engine, histVars>>

TCloseStep(c, from, to) ==
  /\ tcloser[c].pc = from
  /\ tcloser' = [tcloser EXCEPT ![c].pc = to]
  /\ UNCHANGED <<openVars, tun, proxyVars, loopVars, acceptor, closer, strmVars, engine, histVars>>

TunnelDrained(c) ==
  /\ tcloser[c].drain = "closed"
  /\ TCloseStep(c, "drain", AfterDrain(tcloser[c].send))
  /\ UNCHANGED ctlVars

TunnelCloseWritten(c) == conn = "open" /\ TCloseStep(c, "send", "await") /\ UNCHANGED ctlVars

(* The drain timed out, the CloseTunnelReq could not be written, or the    *)
(* acknowledgement timed out: onError, for the whole control channel.      *)
TunnelCloseFails(c) ==
  /\ \/ TCloseStep(c, "drain", "failed")
     \/ TCloseStep(c, "send", "failed")
     \/ TCloseStep(c, "await", "failed") /\ ~tun[tcloser[c].o].closed /\ ~finished
  /\ UNCHANGED ctlVars

TunnelOnError(c) == OnError("fail", c) /\ TCloseStep(c, "failed", "cleaning")

TunnelCloseResult(c, res) ==
  /\ tcloser' = [tcloser EXCEPT ![c].pc = "done", ![c].res = res]
  /\ UNCHANGED <<ctlVars, openVars, tun, proxyVars, loopVars, acceptor, closer, strmVars, engine, histVars>>

TunnelCloseFailed(c) ==
  /\ tcloser[c].pc = "cleaning" /\ Returned(c)
  /\ TunnelCloseResult(c, "fail")

TunnelCloseAcked(c) ==
  /\ tcloser[c].pc = "await" /\ tun[tcloser[c].o].closed
  /\ TunnelCloseResult(c, tun[tcloser[c].o].err)

(* closeResultAfterControlClosed: "ctl" is the control channel's error.    *)
TunnelCloseControlClosed(c) ==
  /\ tcloser[c].pc \in {"drain", "await"} /\ finished
  /\ LET t == tun[tcloser[c].o] IN TunnelCloseResult(c, IF t.closed THEN t.err ELSE "ctl")

-----------------------------------------------------------------------------
OpenSteps(o) ==
  \/ CreateTunnel(o) \/ OpenWritten(o) \/ OpenSent(o) \/ OpenNotWritten(o) \/ OpenWriteFails(o)
  \/ OpenOnError(o) \/ OpenFailed(o) \/ OpenCancelled(o) \/ OpenResult(o)

CloseSteps(k) ==
  \/ Close(k) \/ CloseWritten(k) \/ CloseWriteFails(k) \/ CloseTimeout(k)
  \/ CloseOnError(k) \/ CloseCleaned(k) \/ CloseReturn(k)

ReadSteps ==
  \/ ReadFails \/ HandleLastMessage
  \/ \E o \in Openers, id \in Tunnels \cup {None} : HandleOpenTunnelRsp(o, id)
  \/ \E id \in Tunnels : HandleCloseTunnelRsp(id)
  \/ \E id \in Tunnels, s \in Streams : HandleProxyConnReq(id, s) \/ RejectProxyConnReq(id, s)
  \/ ReadCleanup \/ ReadOnError \/ ReadExit

CleanupSteps ==
  \/ \E o \in Openers : CleanupPending(o) \/ CleanupTunnel(o)
  \/ CleanupTunnelRun \/ CleanupCancel \/ CleanupConn \/ Finish

HeartbeatSteps == HeartbeatFails \/ HeartbeatExit \/ HeartbeatOnError \/ HeartbeatGone

WorkerSteps(w) ==
  \/ WorkerExit(w) \/ WorkerTake(w) \/ WorkerDial(w) \/ WorkerCheck(w) \/ WorkerDeliver(w)
  \/ WorkerUndelivered(w) \/ WorkerRecheck(w) \/ WorkerDrop(w) \/ WorkerRespond(w)

ResponseSteps ==
  \/ ResponseExit \/ ResponseTake \/ ResponseWritten \/ ResponseWriteFails
  \/ ResponseOnError \/ ResponseGone \/ ResponseComplete

AcceptSteps(a) ==
  \/ \E o \in Openers : Accept(a, o)
  \/ AcceptPop(a) \/ AcceptReturn(a) \/ AcceptError(a)

TunnelCloseSteps(c) ==
  \/ \E o \in Openers : TunnelClose(c, o)
  \/ TunnelDrained(c) \/ TunnelCloseWritten(c) \/ TunnelCloseFails(c) \/ TunnelOnError(c)
  \/ TunnelCloseFailed(c) \/ TunnelCloseAcked(c) \/ TunnelCloseControlClosed(c)

Next ==
  \/ \E o \in Openers : OpenSteps(o)
  \/ \E k \in Closers : CloseSteps(k)
  \/ ReadSteps \/ CleanupSteps \/ HeartbeatSteps \/ ResponseSteps
  \/ \E w \in Workers : WorkerSteps(w)
  \/ \E a \in Acceptors : AcceptSteps(a)
  \/ \E c \in TClosers : TunnelCloseSteps(c)

Spec == Init /\ [][Next]_vars

(* Goroutines that can run do run; a read or write on a closed connection  *)
(* fails; timers and close contexts fire.  A dial need not end: without    *)
(* ZeroRTT dialEndpoint reads the engine's answer with neither context nor *)
(* deadline.  A write without a deadline need not end either while the     *)
(* connection is open: a response's ends with lifecycleCtx, CreateTunnel's *)
(* with the caller's context, of which, as of the engine, nothing is       *)
(* assumed.                                                                *)
Ended == cancelled \/ conn = "closed"
ResponseFair ==
  \/ ResponseExit \/ ResponseTake \/ ResponseOnError \/ ResponseGone \/ ResponseComplete
  \/ Ended /\ (ResponseWritten \/ ResponseWriteFails)
WorkerFair(w) == worker[w].pc # "dialing" /\ WorkerSteps(w)
Fairness ==
  /\ WF_vars(CleanupSteps)
  /\ WF_vars(ReadCleanup \/ ReadOnError \/ ReadExit \/ (conn = "closed" /\ ReadFails))
  /\ WF_vars(HeartbeatExit \/ HeartbeatOnError \/ HeartbeatGone)
  /\ WF_vars(ResponseFair)
  /\ \A w \in Workers : WF_vars(WorkerFair(w))
  /\ \A o \in Openers :
       /\ WF_vars(conn = "closed" /\ (OpenSent(o) \/ OpenWriteFails(o)))
       /\ WF_vars(OpenOnError(o) \/ OpenFailed(o) \/ OpenResult(o))
  /\ \A k \in Closers : WF_vars(CloseSteps(k) /\ closer[k] # "idle")
  /\ \A c \in TClosers : WF_vars(TunnelCloseSteps(c) /\ tcloser[c].pc # "idle")
  /\ \A a \in Acceptors : WF_vars(AcceptPop(a) \/ AcceptReturn(a) \/ AcceptError(a))

-----------------------------------------------------------------------------
(* Properties                                                              *)

(* A request still registered, or handed to the cleanup, has an empty      *)
(* response channel: handleOpenTunnelRsp never sends a second result on    *)
(* the one-slot channel while holding the lock, and the cleanup never      *)
(* closes a channel that already carries a result.                         *)
OneResultPerOpen == \A o \in pendingTunnels \cup cleanup.pend : respCh[o] = "empty"

(* A CreateTunnel that waits for its answer will get one: its request is   *)
(* registered, its result is there, or the cleanup is about to close its   *)
(* channel.  One that gave up registration ("committed") waits without its *)
(* context, so for it the result must exist or be on its way.              *)
NoLostOpen ==
  \A o \in Openers :
    /\ opener[o] = "waiting" => \/ o \in pendingTunnels \cup cleanup.pend
                                \/ respCh[o] # "empty"
    /\ opener[o] = "committed" => o \in cleanup.pend \/ respCh[o] # "empty"

(* A tunnel object that is not closed is reachable: registered under its   *)
(* ID, or held by the running cleanup.  Otherwise no CloseTunnelRsp and no *)
(* channel failure would ever wake its Accept and Close calls.             *)
OpenTunnelTracked ==
  \A o \in Openers :
    tun[o].made /\ ~tun[o].closed => tunnels[tun[o].id] = o \/ o \in cleanup.tuns

(* Once the channel has finished and no Accept is in progress, every       *)
(* proxied connection still open is one Accept returned: neither the       *)
(* tunnel's queue nor a worker keeps one.                                  *)
NoStrandedConn ==
  finished /\ (\A a \in Acceptors : acceptor[a].pc = "idle")
    => \A s \in Streams : strm[s] = "open" => s \in accepted

(* A proxied connection has at most one answer: it is in one place only on *)
(* its way from the request queue to the wire, and there only once.        *)
Taken(w) == worker[w].pc \notin {"absent", "idle", "gone"}
Where(s) ==
  {p \in {"requests", "worker", "responses", "loop", "wire"} :
     \/ p = "requests" /\ \E r \in Range(proxyRequests) : r.s = s
     \/ p = "worker" /\ \E w \in Workers : Taken(w) /\ worker[w].task.s = s
     \/ p = "responses" /\ \E r \in Range(proxyResponses) : r.s = s
     \/ p = "loop" /\ responseLoop.pc \in {"writing", "failed", "cleaning"} /\ responseLoop.rsp.s = s
     \/ p = "wire" /\ s \in responded}
EachOnce(q) == \A i, j \in 1..Len(q) : q[i].s = q[j].s => i = j
OneResponse ==
  /\ EachOnce(proxyRequests) /\ EachOnce(proxyResponses)
  /\ \A v, w \in Workers : Taken(v) /\ Taken(w) /\ worker[v].task.s = worker[w].task.s => v = w
  /\ \A s \in Streams : \A p, q \in Where(s) : p = q

(* A tunnel's proxyPending is the number of its responses still owed, so   *)
(* proxyDrained is closed neither too early nor never.                     *)
Owed(o) ==
  {s \in Streams :
     \/ \E r \in Range(proxyRequests) \cup Range(proxyResponses) : r.s = s /\ r.o = o
     \/ \E w \in Workers : Taken(w) /\ worker[w].task.s = s /\ worker[w].task.o = o
     \/ /\ responseLoop.pc \in {"writing", "complete", "failed", "cleaning"}
        /\ responseLoop.rsp.s = s /\ responseLoop.rsp.o = o}
PendingMatchesOwed == ~closed => \A o \in Openers : tun[o].pending = Cardinality(Owed(o))

(* CloseTunnelReq reaches the wire after the answer to every proxied       *)
(* connection that was taken in before Close was called on the tunnel.     *)
CloseAfterResponses ==
  [][\A c \in TClosers :
       tcloser[c].pc = "send" /\ tcloser'[c].pc = "await"
         => \A r \in early : r.o = tcloser[c].o => r.s \in responded]_vars

(* A tunnel the engine acknowledged as closed never reports the control    *)
(* channel's end from Close, even when both are visible at once.           *)
AckWins == \A c \in TClosers : tcloser[c].res = "ctl" => tcloser[c].o \notin acked

(* A connection Accept returned keeps its data path when the control       *)
(* channel is lost unexpectedly (no Close in progress, no CloseTunnelRsp). *)
AcceptedSurvivesControlLoss ==
  cleanup.preserve /\ acked = {} => \A s \in accepted : strm[s] = "open"

(* What the proxy traffic of a channel keeps: no connection is stranded,   *)
(* doubled or miscounted, and an acknowledged Close is reported as one.    *)
ProxyInv == NoStrandedConn /\ OneResponse /\ PendingMatchesOwed /\ AckWins

(* Nothing waits for what has ended, an endless dial apart.  A closed      *)
(* channel joins its goroutines and every Close returns, unless a worker   *)
(* is still in a dial, which lifecycleWG.Wait then waits for.  Whatever    *)
(* the dials do, a closed channel holds no CreateTunnel and no Accept, the *)
(* Close of a tunnel returns, and a proxied connection that was taken in   *)
(* is answered unless the channel closed: a stuck dial holds up its own    *)
(* connection, and others only when no worker is left for them; a response *)
(* the engine does not take holds up those behind it.                      *)
Dialing == {w \in Workers : worker[w].pc = "dialing"}
HeldUp(s) ==
  \/ \E w \in Dialing : worker[w].task.s = s
  \/ Dialing = Workers /\ \E r \in Range(proxyRequests) : r.s = s
  \/ responseLoop.pc = "writing"
Settled ==
  /\ closed => /\ finished \/ Dialing # {}
               /\ \A o \in Openers : opener[o] \in {"idle", "done"}
               /\ \A a \in Acceptors : acceptor[a].pc = "idle"
  /\ Dialing = {} => \A k \in Closers : closer[k] \in {"idle", "done"}
  /\ \A c \in TClosers : tcloser[c].pc \in {"idle", "done"}
  /\ \A s \in Streams : Where(s) # {} => s \in responded \/ closed \/ HeldUp(s)
=============================================================================
