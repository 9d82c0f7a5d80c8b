------------------------------ MODULE MCWebTTY ------------------------------
(* The remote terminal.  The components share no state, so a behaviour     *)
(* exercises one of them (part) under one load; the variables of the       *)
(* others rest at 0, those of the session at their initial values.         *)
(*                                                                         *)
(* "session": two messages of the client and one chunk of output; the      *)
(* load names what may happen: the server stops, the client asks for the   *)
(* end, the process leaves one of its own behind, the connection is lost,  *)
(* the process writes.  "client": four servers, from one that refuses to   *)
(* one that goes silent, an event queue and an output limit of one.        *)
(* "handshake": settings with at most three differences from the usual     *)
(* ones, clocks on both sides of each limit; two sessions whose messages   *)
(* may be crossed, or one.  "server": two connections and two generations. *)
(* "discovery": one server with any of the options, or two of a few and a  *)
(* client.  "join": two commands on one session, or one on a sealed one.   *)
EXTENDS WebTTYSession, FiniteSets

VARIABLES part, load,
  mode, pinned, canTerminate, script, feed, clientConn, closing, sent, reader, held, readCh, doneRead, runner,
  eos, heart, beatErr, watcher, cancelled, stopped, ctxDone, closeResult, result, done, events, eventsClosed,
  main, waiter, input, inputs, inputErr, terminator, pending, printed, truncated, code, failed,
  setup, skew, hello, open, verdict, sealed, taken,
  retry, timeout, serverMain, gen, serverStopped, admission, resources, draining, sessions, drained, closer,
  asked, late, serverFiles, serverConn, serverAt,
  offered, options, tunnel, client, known, pc, info, scope, remote, runtime, outcome,
  session, joinPart, request, cmd, machine, joinPc, key, joinClient, joinResult, joinCancelled, joinStdin, exit,
  granted, joinSent

MCScripts == {<<"ack", "data", "data", "close">>, <<"hello", "ack", "eos", "close">>, <<"ack", "eos", "data">>, <<"error">>}

UsualSetup ==
  [server |-> "standard", client |-> "standard", transport |-> "webtransport", identity |-> "p256", resolver |-> TRUE,
   requireGrant |-> TRUE, requireProof |-> TRUE, padded |-> TRUE, expected |-> "server", clientKey |-> "known",
   recipients |-> {"server", "device"}, device |-> "p256"]
Differences(x, usual) == Cardinality({f \in DOMAIN usual : x[f] # usual[f]})

Unset == "unset"
NoOptions == [f \in {"transport", "rstream", "server", "enrollment", "publish", "identity", "identityFile", "e2e", "fs",
                     "token", "name", "keys", "mode", "login"} |-> Unset]
OnTunnel == [NoOptions EXCEPT !.rstream = "yes", !.name = "x"]
Enrolled == [NoOptions EXCEPT !.server = "given", !.login = "given"]
CommandLines ==
  {[NoOptions EXCEPT !.rstream = x, !.transport = t, !.publish = q, !.e2e = e, !.fs = f, !.name = m] :
     x \in {Unset, "yes"}, t \in {Unset, "plain", "webtransport"}, q \in {Unset, "yes", "no"}, e \in {Unset, "yes"},
     f \in {Unset, "webdav"}, m \in {Unset, "x"}}
OptionFiles ==
  {NoOptions, Enrolled, [NoOptions EXCEPT !.server = "given", !.mode = "spawn"], [NoOptions EXCEPT !.identity = "given"],
   [NoOptions EXCEPT !.enrollment = "given", !.rstream = "no", !.keys = "given"]}
TheName == <<"name", "x">>
Env(policy, matches) ==
  [identityFile |-> FALSE, identity |-> FALSE, policy |-> policy, matches |-> matches, serverName |-> TheName]
Policies == {"disabled", "explicit_key", "workspace_managed"}
Offer(cli, given, env) == [cli |-> cli, file |-> given, env |-> env]
FewOffers == {Offer([OnTunnel EXCEPT !.transport = "plain"], NoOptions, Env("disabled", TRUE)),
              Offer([OnTunnel EXCEPT !.e2e = "yes"], NoOptions, Env("disabled", TRUE))}
             \cup {Offer(Enrolled, NoOptions, Env(y, TRUE)) : y \in {"explicit_key", "workspace_managed"}}
MCOffers == {{Offer(l, o, Env(y, m))} : l \in CommandLines, o \in OptionFiles, y \in Policies, m \in BOOLEAN}
            \cup {{x, y} : x \in FewOffers, y \in FewOffers}
Entry(k, signing, identity) == [name |-> TheName, key |-> k, signing |-> signing, identity |-> identity]
MCStores == {{}, {Entry("b", TRUE, TRUE)}, {Entry("a", FALSE, FALSE)},
             {Entry("a", TRUE, FALSE), Entry("b", TRUE, TRUE)}}
UsualClient == [target |-> TheName, transport |-> Unset, discovery |-> TRUE, published |-> FALSE, project |-> TRUE,
                device |-> TRUE, e2e |-> FALSE, identity |-> FALSE, keys |-> {}, knownServer |-> <<>>]
ClientChoices == [target : {TheName, <<"host", "a">>, <<"server", "a">>}, transport : {Unset, "plain"}, discovery : BOOLEAN,
                  published : BOOLEAN, project : BOOLEAN, device : BOOLEAN, e2e : BOOLEAN, identity : BOOLEAN,
                  keys : {{}, {[Entry("a", TRUE, FALSE) EXCEPT !.name = <<>>]}}, knownServer : {<<>>, TheName}]
MCClients == {x \in ClientChoices : Differences(x, UsualClient) <= 2}
MCRegistry == [a |-> [enrolled |-> TRUE, policy |-> "workspace_managed", name |-> TheName],
               b |-> [enrolled |-> TRUE, policy |-> "explicit_key", name |-> <<"name", "y">>]]

Device(loads, id) == [active |-> TRUE, keyed |-> TRUE, loads |-> loads, id |-> id]
MCMachines == {[devices |-> <<>>, identities |-> {"i"}, current |-> "none"],
               [devices |-> <<Device(TRUE, "d"), Device(TRUE, "e")>>, identities |-> {}, current |-> "d"],
               [devices |-> <<Device(FALSE, "d"), Device(TRUE, "e")>>, identities |-> {"i"}, current |-> "d"]}
Grant(kind, recipient, opens) == [kind |-> kind, recipient |-> recipient, opens |-> opens]
MCGrants == {{}, {Grant("workspace_device", "e", TRUE), Grant("public_key", "i", FALSE)},
             {Grant("workspace_device", "d", TRUE), Grant("public_key", "i", TRUE)}}

C == INSTANCE WebTTYClient WITH conn <- clientConn, Scripts <- MCScripts, EventCap <- 1, OutputLimit <- 1, MaxInput <- 1
H == INSTANCE WebTTYHandshake WITH Sessions <- {"a", "b"}, Skews <- {-12, -10, 0, 1, 30}, Delays <- {0, 29, 30, 58, 59, 60, 61}
V == INSTANCE WebTTYServer WITH main <- serverMain, stopped <- serverStopped, files <- serverFiles, conn <- serverConn, at <- serverAt,
       Conns <- {"a", "b"}, MaxGenerations <- 2
D == INSTANCE WebTTYDiscovery WITH Servers <- {"a", "b"}, Offers <- MCOffers, ClientOptions <- MCClients, Registry <- MCRegistry,
       Stores <- MCStores
J == INSTANCE SessionCommands WITH part <- joinPart, pc <- joinPc, client <- joinClient, result <- joinResult, cancelled <- joinCancelled,
       stdin <- joinStdin, sent <- joinSent, Procs <- {"p1", "p2"}, Commands <- {"start", "join", "control",
       "stop"}, Machines <- MCMachines, GrantSets <- MCGrants

clientVars == <<mode, pinned, canTerminate, script, feed, clientConn, closing, sent, reader, held, readCh,
                doneRead, runner, eos, heart, beatErr, watcher, cancelled, stopped, ctxDone, closeResult,
                result, done, events, eventsClosed, main, waiter, input, inputs, inputErr, terminator, pending,
                printed, truncated, code, failed>>
handshakeVars == <<setup, skew, hello, open, verdict, sealed, taken>>
serverVars == <<retry, timeout, serverMain, gen, serverStopped, admission, resources, draining, sessions,
                drained, closer, asked, late, serverFiles, serverConn, serverAt>>
discoveryVars == <<offered, options, tunnel, client, known, pc, info, scope, remote, runtime, outcome>>
joinVars == <<session, joinPart, request, cmd, machine, joinPc, key, joinClient, joinResult, joinCancelled,
              joinStdin, exit, granted, joinSent>>

clientRest == mode = 0 /\ pinned = 0 /\ canTerminate = 0 /\ script = 0 /\ feed = 0 /\ clientConn = 0
              /\ closing = 0 /\ sent = 0 /\ reader = 0 /\ held = 0 /\ readCh = 0 /\ doneRead = 0 /\ runner = 0
              /\ eos = 0 /\ heart = 0 /\ beatErr = 0 /\ watcher = 0 /\ cancelled = 0 /\ stopped = 0
              /\ ctxDone = 0 /\ closeResult = 0 /\ result = 0 /\ done = 0 /\ events = 0 /\ eventsClosed = 0
              /\ main = 0 /\ waiter = 0 /\ input = 0 /\ inputs = 0 /\ inputErr = 0 /\ terminator = 0
              /\ pending = 0 /\ printed = 0 /\ truncated = 0 /\ code = 0 /\ failed = 0
handshakeRest == setup = 0 /\ skew = 0 /\ hello = 0 /\ open = 0 /\ verdict = 0 /\ sealed = 0 /\ taken = 0
serverRest == retry = 0 /\ timeout = 0 /\ serverMain = 0 /\ gen = 0 /\ serverStopped = 0 /\ admission = 0
              /\ resources = 0 /\ draining = 0 /\ sessions = 0 /\ drained = 0 /\ closer = 0 /\ asked = 0
              /\ late = 0 /\ serverFiles = 0 /\ serverConn = 0 /\ serverAt = 0
discoveryRest == offered = 0 /\ options = 0 /\ tunnel = 0 /\ client = 0 /\ known = 0 /\ pc = 0 /\ info = 0
                 /\ scope = 0 /\ remote = 0 /\ runtime = 0 /\ outcome = 0
joinRest == session = 0 /\ joinPart = 0 /\ request = 0 /\ cmd = 0 /\ machine = 0 /\ joinPc = 0 /\ key = 0
            /\ joinClient = 0 /\ joinResult = 0 /\ joinCancelled = 0 /\ joinStdin = 0 /\ exit = 0 /\ granted = 0
            /\ joinSent = 0

Loads == [session |-> {{"stop", "tty"}, {"terminate", "stray"}, {"lost"}, {"lost", "data", "tty"}}, client |-> {{}}, server |-> {{}},
          handshake |-> {{"alone"}, {"crossed"}}, discovery |-> {{"labels"}, {"client"}}, join |-> {{"pair"}, {"alone"}}]

(* What may happen under the load: a restriction of the environment.       *)
SessionWithin ==
  /\ stopper # "idle" => "stop" \in load
  /\ terminationReq => "terminate" \in load
  /\ conn = "lost" => "lost" \in load
  /\ stray => "stray" \in load
  /\ chunks > 0 => "data" \in load
  /\ "tty" \in load /\ loop["read"] = "publish" => tty
HandshakeWithin ==
  IF load = {"alone"} THEN hello["b"] = H!Waiting /\ open["b"] = H!Waiting /\ verdict["b"] = H!Waiting /\ sealed = {}
  ELSE skew = 0 /\ \A x \in {"a", "b"} : /\ open[x].state = "sent" => open[x].time = 0
                                         /\ verdict[x].state # "waiting" => verdict[x].now = 0
ServerWithin == /\ serverConn["a"] \notin {"request", "answered"} /\ serverAt["a"] <= 1
                /\ retry /\ timeout => serverConn["b"] \notin {"request", "answered"}
DiscoveryWithin == load = {"labels"} => pc = "list" /\ tunnel["b"] = D!Off

WebTTYInit ==
  /\ part \in DOMAIN Loads /\ load \in Loads[part]
  /\ Init
  /\ IF part = "client" THEN C!Init /\ canTerminate = pinned /\ (mode = "capture" => pinned) ELSE clientRest
  /\ IF part = "server" THEN V!Init /\ (retry \/ timeout) ELSE serverRest
  /\ IF part = "handshake"
     THEN H!Init /\ HandshakeWithin /\ Differences(setup, UsualSetup) <= IF load = {"crossed"} THEN 1 ELSE 3
     ELSE handshakeRest
  /\ IF part = "discovery"
     THEN (IF load = {"labels"} THEN known = {} /\ client = UsualClient ELSE offered \in SUBSET FewOffers) /\ D!Init
          /\ Cardinality(offered) + Differences(client, UsualClient) <= 3
     ELSE discoveryRest
  /\ IF part = "join"
     THEN /\ J!Init /\ machine["p1"] = machine["p2"] /\ (session.status = "none" <=> cmd["p1"] = "start")
          /\ IF load = {"pair"}
             THEN /\ <<cmd["p1"], cmd["p2"]>> \in {<<"start", "stop">>, <<"control", "stop">>, <<"control", "join">>}
                  /\ ~session.e2e /\ session.grants = {} /\ machine["p1"].devices = <<>>
             ELSE cmd["p1"] \in {"join", "stop"} /\ cmd["p2"] = "start" /\ session.e2e
     ELSE joinRest

WebTTYNext ==
  /\ UNCHANGED <<part, load>>
  /\ IF part = "session" THEN Next /\ SessionWithin' ELSE UNCHANGED vars
  /\ IF part = "client" THEN C!Next ELSE UNCHANGED clientVars
  /\ IF part = "server" THEN V!Next /\ ServerWithin' ELSE UNCHANGED serverVars
  /\ IF part = "handshake" THEN H!Next /\ HandshakeWithin' ELSE UNCHANGED handshakeVars
  /\ IF part = "discovery" THEN D!Next /\ DiscoveryWithin' ELSE UNCHANGED discoveryVars
  /\ IF part = "join" THEN J!Next ELSE UNCHANGED joinVars

webttyVars == <<part, load, vars, clientVars, serverVars, handshakeVars, discoveryVars, joinVars>>

(* Some goroutine of the component goes on while one can.                 *)
WebTTYFairness ==
  /\ WF_vars(part = "session" /\ UNCHANGED load /\ Runs /\ SessionWithin')
  /\ WF_clientVars(part = "client" /\ C!Runs)
  /\ WF_serverVars(part = "server" /\ V!Runs)
  /\ WF_joinVars(part = "join" /\ J!Runs)

WebTTYSpec == WebTTYInit /\ [][WebTTYNext]_webttyVars /\ WebTTYFairness


(* The server's sessions outlive its tunnels, its drain loses none, and    *)
(* what a generation holds is released after its sessions.                 *)
ServerInv == part = "server" => V!TypeOK /\ V!ServerInv

(* Two sides that accept each other agree on who they are and on the       *)
(* session, and payloads are read where they were sent.                    *)
PeersInv == part = "handshake" => H!TypeOK /\ H!HandshakeInv

(* What a server publishes about itself is what its client needs, and a    *)
(* client does not fall back to the clear.                                 *)
DiscoveryInv == part = "discovery" => D!TypeOK /\ D!DiscoveryInv

(* The session commands send input and termination only with control, and  *)
(* confirm an end only when they saw it.                                   *)
JoinInv == part = "join" => J!TypeOK /\ J!SessionsInv

=============================================================================
