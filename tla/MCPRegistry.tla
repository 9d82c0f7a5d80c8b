---- MODULE MCPRegistry ----
(***************************************************************************)
(* The two registries that the tools of the local MCP server keep beside   *)
(* the configuration: mcp-local-tunnels.json, the forward processes it     *)
(* started, and mcp-auth.json, the device logins it began.  Several MCP    *)
(* servers of one user share both files.  An update holds the lock file of *)
(* module FileLock and replaces the file by a rename, so that it is one    *)
(* step here; everything a tool does between two updates interleaves.      *)
(*                                                                         *)
(* Left out: the reuse of a process id by the operating system.            *)
(***************************************************************************)
EXTENDS Naturals, FiniteSets

CONSTANTS Calls,       \* tool calls, of any of the servers
          Pids,        \* process ids of the forward processes
          Logins,      \* device authorizations
          Requests,    \* arguments of rstream_local_tunnel_expose
          MaxInterval  \* bound on the polling interval, in units of 5 s

VARIABLES call,     \* call -> [tool, pc, pid, login, interval, answer]
          request,  \* the arguments of this run's exposures
          listed,   \* mcp-local-tunnels.json: pids of its sessions
          proc,     \* pid -> "none" | "runs" | "gone"
          log,      \* pid -> first decisive line of its log
          started,  \* pid -> the properties forward resolved
          refused,  \* pids a terminate failed on
          sessions, \* mcp-auth.json: login -> interval, 0 when absent
          expired,  \* logins past their expiry
          grant,    \* login -> state of the device code at the control plane
          token     \* login whose token the configuration holds, or "none"

vars == <<call, request, listed, proc, log, started, refused, sessions, expired, grant, token>>
tunnels == <<listed, proc, log, started, refused>>
logins == <<sessions, expired, grant, token>>

BoolOptions == {"tokenAuth", "mtls", "upstreamTLS", "guaranteed"}
Options == BoolOptions \cup {"host", "tlsMode", "geoip"}
NoProps == [ok |-> FALSE, of |-> <<>>]
Accept(p) == [ok |-> TRUE, of |-> p]

\* "protocol" also fixes the HTTP version or the tunnel type; it is applied
\* after tunnel_type and before http_version.
mcpLocalTunnelApplyProtocol(r) ==
  LET http == r.protocol \in {"http", "h2c", "h3"}
      byProtocol == CASE r.protocol = "http" -> "http/1.1" [] r.protocol \in {"h2c", "h3"} -> r.protocol [] OTHER -> ""
  IN [protocol |-> IF http THEN "http" ELSE IF r.protocol \in {"bytestream", "udp"} THEN "" ELSE r.protocol,
      type |-> CASE r.protocol \in {"tcp", "bytestream"} -> "bytestream" [] r.protocol = "udp" -> "datagram"
                 [] OTHER -> r.type,
      version |-> IF r.version # "" THEN r.version ELSE byProtocol,
      publish |-> r.publish, port |-> r.port, set |-> r.set, off |-> r.off]

mcpLocalTunnelValidateProtocolType(p) ==
  p.type # "" /\ p.protocol # "" =>
    CASE p.protocol = "tls" -> p.type = "bytestream"
      [] p.protocol \in {"dtls", "quic"} -> p.type = "datagram"
      [] p.protocol = "http" -> p.type = (IF p.version = "h3" THEN "datagram" ELSE "bytestream")
      [] OTHER -> TRUE

DatagramProtocol(p) == p.protocol \in {"dtls", "quic"} \/ (p.protocol = "http" /\ p.version = "h3")

mcpLocalTunnelUsesDatagram(p) == IF p.type # "" THEN p.type = "datagram" ELSE DatagramProtocol(p)

mcpLocalTunnelApplyTCPPort(p) == p.port => p.protocol = "tcp" /\ p.publish

mcpLocalTunnelValidateTunnelProperties(p) ==
  /\ p.protocol = "tcp" => p.publish /\ p.set \subseteq {"geoip"} /\ p.off = {} /\ p.version = ""
  /\ ~p.publish => p.set \cap {"host", "tokenAuth", "mtls", "geoip"} = {}
  /\ p.version # "" \/ "tokenAuth" \in p.set => p.protocol = "http"
  /\ "tlsMode" \in p.set => p.protocol = "tls"
  /\ "guaranteed" \in p.set => mcpLocalTunnelUsesDatagram(p)
  /\ p.publish /\ p.type = "datagram" => p.protocol # ""

\* MaybeSetGeneratedStableDomain gives a published tunnel a host.
mcpLocalTunnelArgs(r) ==
  LET p == mcpLocalTunnelApplyProtocol(r)
      named == IF p.publish /\ p.protocol # "tcp" THEN [p EXCEPT !.set = @ \cup {"host"}] ELSE p
  IN IF /\ mcpLocalTunnelValidateProtocolType(p)
        /\ mcpLocalTunnelApplyTCPPort(p)
        /\ mcpLocalTunnelValidateTunnelProperties(p)
     THEN Accept(named) ELSE NoProps

\* The command line: a private tunnel says its kind only, a published one
\* its protocol or else its type, and the options that are on.
privateForwardArgs(p) ==
  LET datagram == p.type = "datagram" \/ DatagramProtocol(p)
  IN [protocol |-> "", version |-> "", publish |-> FALSE, port |-> FALSE, off |-> {},
      type |-> IF datagram THEN "datagram" ELSE "bytestream",
      set |-> IF datagram THEN p.set \cap {"guaranteed"} ELSE {}]

forwardArgs(p) ==
  IF ~p.publish THEN privateForwardArgs(p)
  ELSE [p EXCEPT !.type = CASE p.protocol # "" -> "" [] p.type = "datagram" -> "datagram" [] OTHER -> "bytestream",
                 !.version = IF p.protocol = "http" THEN p.version ELSE "",
                 !.port = p.protocol = "tcp" /\ p.port,
                 !.off = {}]

normalizePublishedTCP(p) ==
  IF p.protocol # "tcp" THEN (IF p.port THEN NoProps ELSE Accept(p))
  ELSE IF p.type = "datagram" \/ ~p.publish \/ ~(p.set \subseteq {"geoip"}) \/ p.off # {} \/ p.version # "" THEN NoProps
  ELSE Accept([p EXCEPT !.type = "bytestream", !.publish = TRUE])

\* newTunnelPropertiesFromFlags and tunnelconfig.Resolve on that command line.
Resolve(p) ==
  LET tcp == normalizePublishedTCP(p)
  IN IF \/ p.protocol \notin {"", "http"} /\ (p.version # "" \/ "tokenAuth" \in p.set \cup p.off)
        \/ ~tcp.ok
        \/ "guaranteed" \in p.set \cup p.off /\ ~(p.type = "datagram" \/ (p.type = "" /\ DatagramProtocol(p)))
        \/ p.type = "datagram" /\ p.publish /\ ~DatagramProtocol(p)
     THEN NoProps ELSE tcp

mcpLocalTunnelProcessRunning(p) == proc[p] = "runs"
Alive == {p \in listed : mcpLocalTunnelProcessRunning(p)}

Goto(c, pc) == call' = [call EXCEPT ![c].pc = pc]
Answer(c, a) == call' = [call EXCEPT ![c].pc = "done", ![c].answer = a]
At(c, tool, pc) == call[c].tool = tool /\ call[c].pc = pc

\* mcpLocalTunnelExpose up to the prune of the registry; the arguments are
\* checked before it.
Prune(c) ==
  /\ At(c, "expose", "start")
  /\ IF mcpLocalTunnelArgs(request).ok
     THEN /\ listed' = Alive /\ Goto(c, "launch")
     ELSE /\ Answer(c, "error") /\ UNCHANGED listed
  /\ UNCHANGED <<request, proc, log, started, refused>> /\ UNCHANGED logins

\* startMCPLocalTunnelProcess: a process of its own session, or no process.
Launch(c) ==
  /\ At(c, "expose", "launch")
  /\ \/ \E p \in Pids :
          /\ proc[p] = "none"
          /\ proc' = [proc EXCEPT ![p] = "runs"]
          /\ started' = [started EXCEPT ![p] = Resolve(forwardArgs(mcpLocalTunnelArgs(request).of))]
          /\ call' = [call EXCEPT ![c].pc = "wait", ![c].pid = p]
     \/ Answer(c, "error") /\ UNCHANGED <<proc, started>>
  /\ UNCHANGED <<request, listed, log, refused>> /\ UNCHANGED logins

\* One round of waitMCPLocalTunnelProcessOnline: the log first, then the
\* exit, the 30 s timer or the cancelled request.
WaitOnline(c) ==
  /\ At(c, "expose", "wait")
  /\ Goto(c, CASE log[call[c].pid] = "online" -> "add" [] OTHER -> "undo")
  /\ UNCHANGED request /\ UNCHANGED tunnels /\ UNCHANGED logins

AddSession(c) ==
  /\ At(c, "expose", "add")
  /\ \/ listed' = Alive \cup {call[c].pid} /\ Answer(c, "online")
     \/ Goto(c, "undo") /\ UNCHANGED listed
  /\ UNCHANGED <<request, proc, log, started, refused>> /\ UNCHANGED logins

\* terminateMCPLocalTunnelProcess: an interrupt, up to 2.5 s, then a kill.
\* Its error is dropped by Expose and returned by Stop.
Terminate(c) ==
  /\ call[c].pc = "undo"
  /\ LET p == call[c].pid IN
     \/ /\ proc' = [proc EXCEPT ![p] = "gone"] /\ UNCHANGED refused
        /\ Answer(c, IF call[c].tool = "stop" THEN "stopped" ELSE "error")
     \/ /\ proc[p] = "runs" /\ refused' = refused \cup {p} /\ UNCHANGED proc
        /\ Answer(c, "error")
  /\ UNCHANGED <<request, listed, log, started>> /\ UNCHANGED logins

ListTunnels(c) ==
  /\ At(c, "list", "start")
  /\ listed' = Alive /\ Answer(c, "listed")
  /\ UNCHANGED <<request, proc, log, started, refused>> /\ UNCHANGED logins

\* mcpLocalTunnelStopFromPath takes the session out of the registry before
\* it terminates the process.
TakeSession(c) ==
  /\ At(c, "stop", "start")
  /\ \E p \in Pids :
       /\ proc[p] # "none"
       /\ IF p \in listed
          THEN /\ listed' = listed \ {p}
               /\ IF mcpLocalTunnelProcessRunning(p)
                  THEN call' = [call EXCEPT ![c].pc = "undo", ![c].pid = p]
                  ELSE Answer(c, "stopped")
          ELSE Answer(c, "error") /\ UNCHANGED listed
  /\ UNCHANGED <<request, proc, log, started, refused>> /\ UNCHANGED logins

\* mcpCreateAuthSession: the control plane opens a device authorization,
\* then the session is added and expired ones are dropped.
CreateAuthSession(c) ==
  /\ At(c, "login", "start")
  /\ \E l \in Logins :
       /\ grant[l] = "none"
       /\ grant' = [grant EXCEPT ![l] = "pending"]
       /\ call' = [call EXCEPT ![c].pc = "addLogin", ![c].login = l]
  /\ UNCHANGED <<request, sessions, expired, token>> /\ UNCHANGED tunnels

AddAuthSession(c) ==
  /\ At(c, "login", "addLogin")
  /\ \/ /\ sessions' = [l \in Logins |-> IF l = call[c].login THEN 1 ELSE IF l \in expired THEN 0 ELSE sessions[l]]
        /\ Answer(c, "pending")
     \/ Answer(c, "error") /\ UNCHANGED sessions
  /\ UNCHANGED <<request, expired, grant, token>> /\ UNCHANGED tunnels

\* mcpAuthPoll works on a copy of the session it reads once.
ReadSession(c) ==
  /\ At(c, "poll", "start")
  /\ \E l \in Logins :
       /\ grant[l] # "none"
       /\ IF sessions[l] # 0
          THEN call' = [call EXCEPT ![c].pc = "exchange", ![c].login = l, ![c].interval = sessions[l]]
          ELSE Answer(c, "error")
  /\ UNCHANGED request /\ UNCHANGED tunnels /\ UNCHANGED logins

\* mcpAuthExchangeRaw: expired sessions are removed; otherwise the control
\* plane answers for the device code, and an approved code is consumed.  A
\* request that fails for any other reason (network, cancellation) also ends
\* in the removal of the session.
Exchange(c) ==
  /\ At(c, "poll", "exchange")
  /\ LET l == call[c].login IN
     IF l \in expired THEN Goto(c, "remove") /\ UNCHANGED grant
     ELSE \/ /\ grant[l] = "approved"
             /\ grant' = [grant EXCEPT ![l] = "consumed"]
             /\ Goto(c, "store")
          \/ grant[l] \in {"denied", "consumed"} /\ Goto(c, "remove") /\ UNCHANGED grant
          \/ Goto(c, "remove") /\ UNCHANGED grant
          \/ grant[l] = "pending" /\ Goto(c, "pending") /\ UNCHANGED grant
          \/ /\ grant[l] = "pending" /\ call[c].interval < MaxInterval
             /\ call' = [call EXCEPT ![c].pc = "slow", ![c].interval = @ + 1]
             /\ UNCHANGED grant
  /\ UNCHANGED <<request, sessions, expired, token>> /\ UNCHANGED tunnels

\* ReplaceSession, adding a session that is gone.
ReplaceOrAdd(c) ==
  /\ At(c, "poll", "slow")
  /\ sessions' = [sessions EXCEPT ![call[c].login] = call[c].interval]
  /\ Goto(c, "pending")
  /\ UNCHANGED <<request, expired, grant, token>> /\ UNCHANGED tunnels

\* slow_down: mcpAuthReplaceSession writes the copy over the entry, if there
\* still is one.
ReplaceSession(c) ==
  /\ At(c, "poll", "slow")
  /\ sessions' = [sessions EXCEPT ![call[c].login] = IF @ = 0 THEN 0 ELSE call[c].interval]
  /\ Goto(c, "pending")
  /\ UNCHANGED <<request, expired, grant, token>> /\ UNCHANGED tunnels

\* The token goes into the configuration before the session leaves the
\* registry.
StoreToken(c) ==
  /\ At(c, "poll", "store")
  /\ \/ token' = call[c].login /\ Goto(c, "forget")
     \/ Answer(c, "error") /\ UNCHANGED token
  /\ UNCHANGED <<request, sessions, expired, grant>> /\ UNCHANGED tunnels

\* mcpAuthRemoveSession, whose own failure is ignored.
RemoveSession(c) ==
  /\ call[c].tool = "poll" /\ call[c].pc \in {"remove", "forget"}
  /\ \/ sessions' = [sessions EXCEPT ![call[c].login] = 0]
     \/ UNCHANGED sessions
  /\ Answer(c, IF call[c].pc = "forget" THEN "authenticated" ELSE "error")
  /\ UNCHANGED <<request, expired, grant, token>> /\ UNCHANGED tunnels

\* Still pending: the answer, or with wait=true the interval and another round.
PollAgain(c) ==
  /\ At(c, "poll", "pending")
  /\ Goto(c, "exchange") \/ Answer(c, "pending")
  /\ UNCHANGED request /\ UNCHANGED tunnels /\ UNCHANGED logins

\* The MCP server is killed with the call in progress.
Killed(c) ==
  /\ call[c].pc # "done"
  /\ Answer(c, "killed")
  /\ UNCHANGED request /\ UNCHANGED tunnels /\ UNCHANGED logins

\* The forward process: online, a failed attempt in its log, or its end.  A
\* command line it cannot resolve ends it at once.
ForwardRuns(p) ==
  /\ proc[p] = "runs"
  /\ \/ started[p].ok /\ log[p] = "" /\ \E l \in {"online", "failed"} : log' = [log EXCEPT ![p] = l] /\ UNCHANGED proc
     \/ proc' = [proc EXCEPT ![p] = "gone"] /\ UNCHANGED log
  /\ UNCHANGED <<call, request, listed, started, refused>> /\ UNCHANGED logins

\* The user approves or denies in the browser, and time passes.
UserDecides(l) ==
  /\ \/ grant[l] = "pending" /\ l \notin expired /\ \E g \in {"approved", "denied"} : grant' = [grant EXCEPT ![l] = g]
        /\ UNCHANGED expired
     \/ grant[l] # "none" /\ l \notin expired /\ expired' = expired \cup {l} /\ UNCHANGED grant
  /\ UNCHANGED <<call, request, sessions, token>> /\ UNCHANGED tunnels

Called(t) == [tool |-> t, pc |-> "start", pid |-> 0, login |-> "none", interval |-> 0, answer |-> ""]

Init ==
  /\ call \in [Calls -> {Called(t) : t \in {"expose", "list", "stop", "login", "poll"}}]
  /\ request \in Requests
  /\ listed = {} /\ proc = [p \in Pids |-> "none"] /\ log = [p \in Pids |-> ""]
  /\ started = [p \in Pids |-> NoProps] /\ refused = {}
  /\ sessions = [l \in Logins |-> 0] /\ expired = {} /\ grant = [l \in Logins |-> "none"] /\ token = "none"

Next ==
  \/ \E c \in Calls : \/ Prune(c) \/ Launch(c) \/ WaitOnline(c) \/ AddSession(c) \/ Terminate(c) \/ ListTunnels(c)
                      \/ TakeSession(c) \/ CreateAuthSession(c) \/ AddAuthSession(c) \/ ReadSession(c)
                      \/ Exchange(c) \/ ReplaceSession(c) \/ StoreToken(c) \/ RemoveSession(c) \/ PollAgain(c)
                      \/ Killed(c)
  \/ \E p \in Pids : ForwardRuns(p)
  \/ \E l \in Logins : UserDecides(l)

Spec == Init /\ [][Next]_vars

TypeOK ==
  /\ listed \subseteq Pids /\ refused \subseteq Pids
  /\ \A p \in Pids : proc[p] \in {"none", "runs", "gone"} /\ log[p] \in {"", "online", "failed"}
  /\ \A l \in Logins : /\ sessions[l] \in 0..MaxInterval
                       /\ grant[l] \in {"none", "pending", "approved", "denied", "consumed"}
  /\ expired \subseteq Logins /\ token \in Logins \cup {"none"}

\* A forward process that still runs is in the registry, or some call is about
\* to list or to terminate it, or a stop took it and the kill was refused, or
\* the server that had it in hand was killed: no interleaving of exposures,
\* prunes and stops of several servers loses one.
NoneLost ==
  \A p \in Pids : proc[p] = "runs" =>
    \/ p \in listed
    \/ \E c \in Calls : call[c].pid = p /\ (call[c].pc # "done" \/ call[c].answer = "killed")
    \/ p \in refused

\* Every exposure the tool accepts is one the forward command accepts, with
\* the same visibility, kind of tunnel and delivery guarantee, and, when it is
\* published, the same protocol, version and options.
AsksTheSame ==
  \A p \in Pids : proc[p] # "none" =>
    LET asked == mcpLocalTunnelArgs(request).of
        got == started[p].of
    IN /\ started[p].ok
       /\ got.publish = asked.publish
       /\ mcpLocalTunnelUsesDatagram(got) = mcpLocalTunnelUsesDatagram(asked)
       /\ ("guaranteed" \in got.set) = ("guaranteed" \in asked.set)
       /\ asked.publish => got.set = asked.set /\ got.protocol = asked.protocol /\ got.port = asked.port
                           /\ got.version = asked.version

\* One stop gets one session: of two calls with the same tunnel the second
\* finds nothing, and no process is terminated for another one's session.
OneStopEach ==
  \A c, d \in Calls : c # d /\ At(c, "stop", "undo") /\ At(d, "stop", "undo") => call[c].pid # call[d].pid

\* A call that reports a login authenticated has stored the token of a code
\* that was approved and is spent, and the only spent codes without a stored
\* token belong to calls that failed or were killed after the exchange.
SpentIsStored ==
  /\ \A c \in Calls : call[c].answer = "authenticated" => grant[call[c].login] = "consumed"
  /\ \A l \in Logins : grant[l] = "consumed" =>
       \/ token # "none"
       \/ \E c \in Calls : call[c].login = l /\ (call[c].pc = "store" \/ call[c].answer \in {"error", "killed"})

RegistryInv == NoneLost /\ AsksTheSame /\ OneStopEach /\ SpentIsStored

\* A login that left mcp-auth.json stays out: a late slow_down of another poll
\* replaces an entry and never brings one back.
StaysRemoved ==
  \A l \in Logins : sessions[l] = 0 /\ sessions'[l] # 0 => \E c \in Calls : call[c].pc = "addLogin" /\ call[c].login = l
====
