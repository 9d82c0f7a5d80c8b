----------------------------- MODULE MCCommands -----------------------------
(* The commands that run until they are stopped: "rstream run", forward    *)
(* and files, netcat, the MCP server and what its tools keep, the terminal *)
(* UI, and the file service over WebRTC.  They share no state, so a        *)
(* behaviour exercises one of them (part) under one load; the variables of *)
(* the others rest at 0, those of the reconciler at their initial values.  *)
(*                                                                         *)
(* "run": two tunnel names, two good specs and one that Runner.Start       *)
(* refuses; contents that add, change, remove and refuse tunnels and two   *)
(* that cannot be used; with and without --watch.  "tunnel": a worker of   *)
(* "run", with one session of every kind and path and one failed           *)
(* generation ("relay"), two sessions, the second of which is never        *)
(* half-closed ("pair"), or no session, three failed generations and two   *)
(* temporary Accept errors ("retry"); the ceiling of the backoff is no     *)
(* power of two, at the top of a four-bit duration.  "forward": two        *)
(* connections and two generations.  "netcat": two clients for one slot,   *)
(* or one whose connection cannot be half-closed; "datagrams": one         *)
(* session, or a UDP bridge of two peers for one slot and a queue of one.  *)
(* "mcp": four messages, two workers and a queue of one.  "registry":      *)
(* three tool calls, two processes, two logins.  "ui": two runtimes, two   *)
(* sessions, two discoveries, an update queue of three and an event queue  *)
(* of one.  "rtc": two requests for one slot, a window of two frames.      *)
EXTENDS RunReconcile, Integers, Sequences, TLC

CONSTANTS s1, s2

VARIABLES part, load,
  kind, path, workerCancelled, run, then, transport, ctrl, listener, serve, backoff, delay, fresh, pause, group,
  session, failures, pauses,
  cfg, main, gen, err, reported, status, forwardCtrl, tunnel, ctx, gate, forwardGroup, ended, forwardC,
  exec, whole, netcatMain, netcatDelay, netcatCtx, netcatSession, st, down, up, copy, child,
  mode, idle, input, sent, conn, out, datagramChild, recv, send, datagramMain, taken, datagramCtx, came,
  datagramLoop, eager, udp, cancel, stop, table, datagramS,
  script, next, mcpMain, interrupted, stopped, broken, reg, live, jobs, mcpClosed, worker, wq, writer, res,
  writeErr, abort, mcpFailed, output, cancels,
  call, request, listed, proc, log, registryStarted, refused, sessions, expired, grant, registryToken,
  uiMain, uiCtx, page, cur, switch, shown, rows, uiSession, picker, updates, wakes, config, rt, ses, dis,
  rtcKind, backend, rtcMain, slots, rtcTable, rtcSes, cl, rtcDown, rtcUp, link

Pair(a, b) == [n \in {"web", "api"} |-> IF n = "web" THEN a ELSE b]
MCContents == {Pair("s1", None), Pair("s2", "s1"), Pair("s1", "bad"), Invalid, Duplicate}

MCInputs == {<<>>, <<"frame", "big", "frame">>, <<"frame", "cut">>, <<"bare">>}

Request(i, m) == [kind |-> "request", id |-> i, method |-> m]
CancelOf(i) == [kind |-> "cancel", id |-> i, method |-> ""]
Unreadable == [kind |-> "invalid", id |-> "a", method |-> ""]
MCScripts == {<<Request("a", "call"), CancelOf("a"), Request("a", "call"), Request("b", "call")>>,
              <<Request("a", "initialize"), CancelOf("a"), Unreadable, Request("b", "call")>>,
              <<Request("a", "call"), Request("b", "call"), CancelOf("b"), Request("b", "call")>>}

Expose(protocol, type, publish, version, port, set, off) ==
  [protocol |-> protocol, type |-> type, publish |-> publish, version |-> version, port |-> port, set |-> set, off |-> off]
PlainExpose == Expose("http", "", TRUE, "", FALSE, {}, {})
Switches == {"tokenAuth", "mtls", "upstreamTLS", "guaranteed"}
MCRequests == {r \in {Expose(protocol, type, publish, version, port, set, off) :
  protocol \in {"http", "h2c", "h3", "tls", "dtls", "quic", "tcp", "bytestream", "udp"}, type \in {"", "bytestream", "datagram"},
  publish \in BOOLEAN, version \in {"", "http/1.1", "h3"}, port \in BOOLEAN,
  set \in {o \in SUBSET (Switches \cup {"host", "tlsMode", "geoip"}) : Cardinality(o) <= 2}, off \in {{}, {"mtls"}, {"upstreamTLS"}}} :
  (r.port => r.set = {}) /\ (r.version # "" \/ r.off # {} => Cardinality(r.set) <= 1)}

Kind(write, head, length, writes, panics) ==
  [write |-> write, head |-> head, length |-> length, writes |-> writes, panics |-> panics]
ShortRead == Kind(FALSE, FALSE, -1, 1, FALSE)
MCKinds == {ShortRead, Kind(FALSE, FALSE, 3, 3, FALSE), Kind(FALSE, FALSE, -1, 3, FALSE), Kind(FALSE, FALSE, 3, 2, FALSE),
            Kind(FALSE, FALSE, -1, 1, TRUE), Kind(FALSE, TRUE, 2, 0, FALSE), Kind(FALSE, TRUE, 0, 1, FALSE), Kind(TRUE, FALSE, 1, 1, FALSE)}

T == INSTANCE RunTunnel WITH cancelled <- workerCancelled, Sessions <- {s1, s2}, Kinds <- {"bytestream", "datagram"}, Paths <- {"tls",
       "quic", "proxy"}, RetryInitial <- 1, RetryMax <- 7, AcceptInitial <- 2, AcceptMax <- 3, Width <- 4,
       MaxFailures <- 3, MaxPauses <- 2
F == INSTANCE Forward WITH ctrl <- forwardCtrl, group <- forwardGroup, c <- forwardC, Conns <- {"a", "b"}, MaxGens <- 2
N == INSTANCE Netcat WITH main <- netcatMain, delay <- netcatDelay, ctx <- netcatCtx, session <- netcatSession, Conns <- {"a",
       "b"}, MaxConns <- 1, MaxDelay <- 1
D == INSTANCE NetcatDatagrams WITH child <- datagramChild, main <- datagramMain, ctx <- datagramCtx, loop <- datagramLoop, s <- datagramS,
       Inputs <- MCInputs, Peers <- {"a", "b"}, MaxConns <- 1, QueueSize <- 1, MaxPackets <- 2, MaxDials <- 2
M == INSTANCE MCPServer WITH main <- mcpMain, closed <- mcpClosed, failed <- mcpFailed, Scripts <- MCScripts, Workers <- {"w1", "w2"},
       Queue <- 1
L == INSTANCE MCPRegistry WITH started <- registryStarted, token <- registryToken, Calls <- {"a", "b", "d"}, Pids <- {1, 2},
       Logins <- {"l1", "l2"}, MaxInterval <- 3, Requests <- MCRequests
U == INSTANCE UIRuntime WITH main <- uiMain, ctx <- uiCtx, session <- uiSession, Targets <- {"x"}, MaxRuntimes <- 2, MaxSessions <- 2,
       MaxLoads <- 2, MaxChanges <- 2, QueueSize <- 3, EventQueue <- 1
X == INSTANCE FilesRTC WITH kind <- rtcKind, main <- rtcMain, table <- rtcTable, ses <- rtcSes, down <- rtcDown, up <- rtcUp,
       Reqs <- {"a", "b"}, Kinds <- MCKinds, Backends <- {"webdav", "webrtc"}, Window <- 2, MaxSessions <- 1

ASSUME Settings == NilIsNew /\ T!RetryAssumption

workerVars == <<kind, path, workerCancelled, run, then, transport, ctrl, listener, serve, backoff, delay, fresh,
                pause, group, session, failures, pauses>>
forwardVars == <<cfg, main, gen, err, reported, status, forwardCtrl, tunnel, ctx, gate, forwardGroup, ended,
                 forwardC>>
netcatVars == <<exec, whole, netcatMain, netcatDelay, netcatCtx, netcatSession, st, down, up, copy, child>>
datagramVars == <<mode, idle, input, sent, conn, out, datagramChild, recv, send, datagramMain, taken,
                  datagramCtx, came, datagramLoop, eager, udp, cancel, stop, table, datagramS>>
mcpVars == <<script, next, mcpMain, interrupted, stopped, broken, reg, live, jobs, mcpClosed, worker, wq,
             writer, res, writeErr, abort, mcpFailed, output, cancels>>
registryVars == <<call, request, listed, proc, log, registryStarted, refused, sessions, expired, grant,
                  registryToken>>
uiVars == <<uiMain, uiCtx, page, cur, switch, shown, rows, uiSession, picker, updates, wakes, config, rt, ses,
            dis>>
rtcVars == <<rtcKind, backend, rtcMain, slots, rtcTable, rtcSes, cl, rtcDown, rtcUp, link>>

workerRest == kind = 0 /\ path = 0 /\ workerCancelled = 0 /\ run = 0 /\ then = 0 /\ transport = 0 /\ ctrl = 0
              /\ listener = 0 /\ serve = 0 /\ backoff = 0 /\ delay = 0 /\ fresh = 0 /\ pause = 0 /\ group = 0
              /\ session = 0 /\ failures = 0 /\ pauses = 0
forwardRest == cfg = 0 /\ main = 0 /\ gen = 0 /\ err = 0 /\ reported = 0 /\ status = 0 /\ forwardCtrl = 0
               /\ tunnel = 0 /\ ctx = 0 /\ gate = 0 /\ forwardGroup = 0 /\ ended = 0 /\ forwardC = 0
netcatRest == exec = 0 /\ whole = 0 /\ netcatMain = 0 /\ netcatDelay = 0 /\ netcatCtx = 0 /\ netcatSession = 0
              /\ st = 0 /\ down = 0 /\ up = 0 /\ copy = 0 /\ child = 0
datagramRest == mode = 0 /\ idle = 0 /\ input = 0 /\ sent = 0 /\ conn = 0 /\ out = 0 /\ datagramChild = 0
                /\ recv = 0 /\ send = 0 /\ datagramMain = 0 /\ taken = 0 /\ datagramCtx = 0 /\ came = 0
                /\ datagramLoop = 0 /\ eager = 0 /\ udp = 0 /\ cancel = 0 /\ stop = 0 /\ table = 0
                /\ datagramS = 0
mcpRest == script = 0 /\ next = 0 /\ mcpMain = 0 /\ interrupted = 0 /\ stopped = 0 /\ broken = 0 /\ reg = 0
           /\ live = 0 /\ jobs = 0 /\ mcpClosed = 0 /\ worker = 0 /\ wq = 0 /\ writer = 0 /\ res = 0
           /\ writeErr = 0 /\ abort = 0 /\ mcpFailed = 0 /\ output = 0 /\ cancels = 0
registryRest == call = 0 /\ request = 0 /\ listed = 0 /\ proc = 0 /\ log = 0 /\ registryStarted = 0
                /\ refused = 0 /\ sessions = 0 /\ expired = 0 /\ grant = 0 /\ registryToken = 0
uiRest == uiMain = 0 /\ uiCtx = 0 /\ page = 0 /\ cur = 0 /\ switch = 0 /\ shown = 0 /\ rows = 0 /\ uiSession = 0
          /\ picker = 0 /\ updates = 0 /\ wakes = 0 /\ config = 0 /\ rt = 0 /\ ses = 0 /\ dis = 0
rtcRest == rtcKind = 0 /\ backend = 0 /\ rtcMain = 0 /\ slots = 0 /\ rtcTable = 0 /\ rtcSes = 0 /\ cl = 0
           /\ rtcDown = 0 /\ rtcUp = 0 /\ link = 0

Loads ==
  [run |-> {"all"}, tunnel |-> {"relay", "pair", "retry"}, forward |-> {"one", "two"}, netcat |-> {"half", "whole"},
   datagrams |-> {"session", "bridge"}, mcp |-> {"all"}, registry |-> {"all"}, ui |-> {"switch", "session", "picker", "store", "config"}, rtc |-> {"one", "two"}]

Tools(x, y, z) == call = [a |-> L!Called(x), b |-> L!Called(y), d |-> L!Called(z)]

CommandsInit ==
  /\ part \in DOMAIN Loads /\ load \in Loads[part]
  /\ Init /\ (part # "run" => ~watch /\ file = Pair("s1", None))
  /\ IF part = "tunnel" THEN T!Init /\ (load # "relay" => kind = "bytestream" /\ path = "tls") ELSE workerRest
  /\ IF part = "forward"
     THEN /\ F!Init /\ (cfg.owned => cfg.ui /\ cfg.kind # "files")
          /\ load = "two" => cfg.retry /\ cfg.ui /\ cfg.kind # "udp" /\ ~cfg.owned
     ELSE forwardRest
  /\ IF part = "netcat" THEN N!Init /\ (whole <=> load = "whole") ELSE netcatRest
  /\ IF part = "datagrams"
     THEN /\ D!Init
          /\ IF load = "session" THEN eager = "none" ELSE mode = "stdio" /\ idle = FALSE /\ input = <<>> /\ send = "off"
     ELSE datagramRest
  /\ IF part = "mcp" THEN M!Init ELSE mcpRest
  /\ IF part = "registry"
     THEN /\ \/ Tools("expose", "list", "list")
             \/ /\ request = PlainExpose
                /\ \/ Tools("expose", "expose", "stop") \/ Tools("expose", "stop", "stop")
                   \/ Tools("expose", "list", "stop") \/ Tools("login", "poll", "poll")
          /\ L!Init
     ELSE registryRest
  /\ IF part = "ui" THEN U!Init ELSE uiRest
  /\ IF part = "rtc"
     THEN /\ X!Init
          /\ IF load = "one" THEN rtcKind["b"] = ShortRead ELSE rtcKind = [x \in {"a", "b"} |-> ShortRead] /\ backend = "webrtc"
     ELSE rtcRest

(* What a load leaves out; another load of its part has it.                *)
TunnelWithin ==
  /\ load = "relay" => failures <= 1 /\ pauses = 0 /\ session[s2] = T!Idle
  /\ load = "pair" => /\ failures = 0 /\ pauses = 0
                      /\ "eof" \notin {session[s2].up, session[s2].down}
  /\ load = "retry" => \A x \in {s1, s2} : session[x] = T!Idle
ForwardWithin ==
  IF load = "one" THEN forwardC["b"].st = "none"
  ELSE /\ status = "failed" => gen = 2 /\ err = "network"
       /\ forwardC["b"].inb = "closed" \/ (forwardC["b"].up # "error" /\ forwardC["b"].down = "copy")
NetcatWithin ==
  IF load = "whole" THEN st["b"] = "none"
  ELSE down["b"].peer = "open" /\ up["b"].peer = "open" /\ \A k \in N!AllCopies : copy["b"][k] \notin {"error", "failed"}
RegistryWithin == request # PlainExpose => \A x \in {"b", "d"} : call[x].pc = "start"
UIWithin ==
  /\ load \notin {"switch", "config"} => switch = 0
  /\ load # "session" => uiSession = 0
  /\ load \in {"session", "picker", "config"} => rt[1].ver = 0
  /\ load \notin {"store"} => \A i \in U!Runtimes : rt[i].store # "backoff"
  /\ load \in {"switch", "session", "store"} => config.known = {"x"}
  /\ load \in {"session", "store"} => picker.load = 0
  /\ load \in {"switch", "picker", "config"} => page # "identity"
  /\ load \in {"switch", "config"} => dis[2].st = "off" /\ rt[2].ver <= 1
  /\ load = "switch" => /\ rt[1].ver <= 1 /\ \A n \in 1 .. Len(updates) : updates[n].kind # "discovery"
                        /\ \A i \in U!Runtimes : rt[i].prep # "persist"
  /\ load = "config" => ~uiCtx
RTCWithin == IF load = "one" THEN cl["b"] = X!NoClient
             ELSE \A x \in {"a", "b"} : cl[x].st # "open" /\ rtcSes[x].credits # 2 /\ ~rtcSes[x].lapsed

CommandsNext ==
  /\ UNCHANGED <<part, load>>
  /\ IF part = "run" THEN Next ELSE UNCHANGED vars
  /\ IF part = "tunnel" THEN T!Next /\ TunnelWithin' ELSE UNCHANGED workerVars
  /\ IF part = "forward" THEN F!Next /\ ForwardWithin' ELSE UNCHANGED forwardVars
  /\ IF part = "netcat" THEN N!Next /\ NetcatWithin' ELSE UNCHANGED netcatVars
  /\ IF part = "datagrams" THEN (IF load = "session" THEN D!SessionNext ELSE D!BridgeNext) ELSE UNCHANGED datagramVars
  /\ IF part = "mcp" THEN M!Next ELSE UNCHANGED mcpVars
  /\ IF part = "registry" THEN L!Next /\ RegistryWithin' ELSE UNCHANGED registryVars
  /\ IF part = "ui" THEN U!Next /\ UIWithin' ELSE UNCHANGED uiVars
  /\ IF part = "rtc" THEN X!Next /\ RTCWithin' ELSE UNCHANGED rtcVars

commandVars == <<part, load, vars, workerVars, forwardVars, netcatVars, datagramVars, mcpVars, registryVars, uiVars, rtcVars>>

(* Some goroutine of the command goes on while one can, in the UI each of  *)
(* three kinds, and a cancelled worker ends.  A copy ends once its         *)
(* connection is closed, and is otherwise as long as its peers like; a     *)
(* reader that takes output again and again lets a blocked write through.  *)
RunFairness ==
  /\ WF_vars(part = "run" /\ Runs)
  /\ WF_workerVars(part = "tunnel" /\ T!Runs)
RelayFairness ==
  /\ WF_forwardVars(part = "forward" /\ F!Runs)
  /\ WF_netcatVars(part = "netcat" /\ N!Runs)
  /\ WF_datagramVars(part = "datagrams" /\ load = "session" /\ D!SessionRuns)
  /\ SF_datagramVars(part = "datagrams" /\ load = "session" /\ D!RecvWrites)
  /\ WF_datagramVars(part = "datagrams" /\ load = "bridge" /\ D!BridgeRuns)
ServiceFairness ==
  /\ WF_mcpVars(part = "mcp" /\ M!Server)
  /\ WF_uiVars(part = "ui" /\ UNCHANGED load /\ U!LoopRuns /\ UIWithin')
  /\ WF_uiVars(part = "ui" /\ UNCHANGED load /\ U!WatcherRuns /\ UIWithin')
  /\ WF_uiVars(part = "ui" /\ UNCHANGED load /\ U!Runs /\ UIWithin')
  /\ WF_rtcVars(part = "rtc" /\ UNCHANGED load /\ X!Runs /\ RTCWithin')

(* "run" goes on until it returns; the other commands may come to rest.    *)
Idles == part \notin {"run", "tunnel"} /\ UNCHANGED commandVars

CommandsSpec == CommandsInit /\ [][CommandsNext \/ Idles]_commandVars /\ RunFairness /\ RelayFairness /\ ServiceFairness
(* The reconciler of "rstream run" alone.                                  *)
ReconcileSpec == CommandsInit /\ part = "run" /\ [][CommandsNext]_commandVars



(* The MCP server answers each request once and keeps its registry exact,  *)
(* and its tools lose no process they started and no login.                *)
MCPInv == /\ part = "mcp" => M!TypeOK /\ M!MCPInv
          /\ part = "registry" => L!TypeOK /\ L!RegistryInv

(* A login that was taken out of the file stays out.                       *)
LoginsStayOut == [][part = "registry" => L!StaysRemoved]_commandVars

(* The terminal UI shows the runtime it is on, loses no change of its      *)
(* store, and closes every client it does not show.                        *)
UIInv == part = "ui" => U!TypeOK /\ U!UIInv

(* A transfer over WebRTC keeps its window, is read to its last packet,    *)
(* and holds exactly one slot.                                             *)
RTCInv == part = "rtc" => X!TypeOK /\ X!RTCInv

(* The tunnels come to match the watched source; a stopped command, a      *)
(* relay one direction of which failed, an MCP server whose input ended    *)
(* and a file transfer given up all come to their end.                     *)
CommandsEnd ==
  <>[](/\ part = "run" => Settled
       /\ part = "tunnel" => T!Settled
       /\ part = "forward" => F!Settled
       /\ part = "netcat" => N!Settled
       /\ part = "datagrams" => D!Settled
       /\ part = "mcp" => M!Settled
       /\ part = "ui" => U!Settled
       /\ part = "rtc" /\ load = "one" => X!Settled)
=============================================================================
