-------------------------- MODULE WebTTYDiscovery --------------------------
(* How a WebTTY client comes to the settings it dials a server with.  A       *)
(* server command resolves its options (command line over the YAML runtime   *)
(* file), refuses combinations it cannot serve and publishes a tunnel whose   *)
(* properties and labels describe it.  A client lists the tunnels, finds the  *)
(* one it was given a name for, asks the control plane when the labels leave  *)
(* the keys open, and decides on the transport, the recipients of the session *)
(* key and the server identity it insists on.  Servers start and stop while   *)
(* the client is between two of those calls.                                  *)
EXTENDS Naturals, FiniteSets

CONSTANTS
  Servers,       \* the server commands that may run
  Offers,        \* sets of [cli, file, env] records that servers are started with
  ClientOptions, \* what a client command is started with
  Registry,      \* what the control plane knows: [Servers -> [enrolled, policy]]
  Stores         \* contents of the known-servers file: sets of entries

VARIABLES
  offered,  \* what servers are started with in this behaviour
  options,  \* options[s]: what server s runs with, or Off
  tunnel,   \* tunnel[s]: the tunnel s has published, or Off
  client,   \* the client's options
  known,    \* its known-servers file
  pc,       \* the call the client is about to make
  info,     \* the server it found, or Off
  scope,    \* webTTYClientSecurityScope
  remote,   \* the identifier it is going to dial
  runtime,  \* the registered server the control plane is asked about, or Unnamed
  outcome   \* what it decided, or Off

serverVars == <<offered, options, tunnel>>
clientVars == <<pc, info, scope, remote, runtime, outcome>>
vars == <<offered, options, tunnel, client, known, pc, info, scope, remote, runtime, outcome>>

None == "unset"
Off == [off |-> TRUE]
Failed == [failed |-> TRUE]

(* Identifiers of the inventory, tagged by what gives them.                   *)
Unnamed == <<>>
TunnelID(s) == <<"tunnel", s>>
ServerID(s) == <<"server", s>>
Host(s) == <<"host", s>>

-----------------------------------------------------------------------------
(* The server's options.                                                      *)

Fields == {"transport", "rstream", "server", "enrollment", "publish", "identity",
           "identityFile", "e2e", "fs", "token", "name", "keys", "mode", "login"}

(* An explicit selector replaces the alternative selector of the file.        *)
Replaced(cli, f) ==
  \/ f = "identity" /\ cli.identityFile # None /\ cli.identity = None
  \/ f = "identityFile" /\ cli.identity # None /\ cli.identityFile = None
  \/ f = "server" /\ cli.enrollment # None /\ cli.server = None
  \/ f = "enrollment" /\ cli.server # None /\ cli.enrollment = None

applyWebTTYServerRuntimeConfigValues(o) ==
  [f \in Fields |-> IF o.cli[f] # None THEN o.cli[f]
                    ELSE IF Replaced(o.cli, f) THEN None ELSE o.file[f]]

(* A file that turns rstream off and still names a registered server.         *)
Contradicts(r) == r.rstream = "no" /\ (r.server # None \/ r.enrollment # None)

registeredWebTTYServerRequested(r) == r.server # None \/ r.enrollment # None
webttyServerUsesRstream(r) == registeredWebTTYServerRequested(r) \/ r.rstream = "yes"
webTTYServerPublish(r) == r.publish # "no"

IdentityPathExplicit(o, r) ==
  r.identity # None \/ r.identityFile # None \/ o.env.identityFile

(* The flags alone; the enrolment is read later, by the run itself.           *)
webTTYServerE2EActiveFromFlags(o, r) ==
  r.e2e = "yes" \/ IdentityPathExplicit(o, r) \/ o.env.identity

(* An enrolment whose policy asks for keys.                                   *)
webTTYServerEnrollmentRequiresE2E(o, r) ==
  registeredWebTTYServerRequested(r) /\ o.env.policy \in {"explicit_key", "workspace_managed"}

(* applyWebTTYServerDerivedDefaults: a registered server logs users in.       *)
ExecutionMode(r) ==
  IF r.mode # None THEN r.mode
  ELSE IF registeredWebTTYServerRequested(r) THEN "login" ELSE "spawn"

validateWebTTYServerFlags(o, r) ==
  /\ webttyServerUsesRstream(r) => r.token = None
  /\ ~(r.identity # None /\ r.identityFile # None)
  /\ ~webttyServerUsesRstream(r) => r.name = None /\ r.publish = None
  /\ r.fs # None => r.transport \in {None, "websocket"} /\ ~webTTYServerE2EActiveFromFlags(o, r)
  /\ r.transport = "webtransport" /\ registeredWebTTYServerRequested(r) => webTTYServerPublish(r)
  /\ r.transport = "plain" /\ webttyServerUsesRstream(r) /\ ~registeredWebTTYServerRequested(r)
       => r.publish # "yes"
  /\ (ExecutionMode(r) = "login") = (r.login # None)

(* webTTYServerPayloadCryptoResolver: the endpoint identity of the server.    *)
Encrypts(o, r) ==
  webTTYServerE2EActiveFromFlags(o, r) \/ webTTYServerEnrollmentRequiresE2E(o, r)

CryptoLoads(o, r) ==
  Encrypts(o, r) =>
    /\ ~(o.env.identity /\ IdentityPathExplicit(o, r))
    /\ registeredWebTTYServerRequested(r) => o.env.matches

(* What runWebTTYServerOnce refuses before it serves through rstream.  Local  *)
(* servers, with their own token and certificate rules, publish nothing.      *)
Serves(o, r) ==
  /\ webttyServerUsesRstream(r)
  /\ ~Contradicts(r)
  /\ validateWebTTYServerFlags(o, r)
  /\ CryptoLoads(o, r)
  /\ registeredWebTTYServerRequested(r) /\ o.env.policy = "workspace_managed" => r.keys = None
  /\ r.fs # None => ~Encrypts(o, r)

Transport(r) == IF r.transport = None THEN "websocket" ELSE r.transport

(* Labels.  The registered ones come first, the runtime ones override them;   *)
(* the policy is only filled in when nothing has set it.                      *)
applyWebTTYServerLabels(r, labels) ==
  [labels EXCEPT !.transport = Transport(r),
                 !.capabilities = IF r.fs = None THEN {"exec"} ELSE {"exec", "fs"},
                 !.fs = r.fs]

webTTYServerRegisteredLabels(s, o, r, labels) ==
  IF ~registeredWebTTYServerRequested(r) THEN labels
  ELSE [labels EXCEPT
          !.serverID = ServerID(s),
          !.serverName = o.env.serverName,
          !.policy = o.env.policy,
          !.e2e = IF webTTYServerEnrollmentRequiresE2E(o, r) THEN "required" ELSE "disabled",
          !.proof = IF webTTYServerEnrollmentRequiresE2E(o, r) THEN "required" ELSE "none",
          !.hostKey = IF webTTYServerEnrollmentRequiresE2E(o, r) THEN s ELSE None]

applyWebTTYRuntimeSecurityLabels(s, o, r, labels) ==
  [labels EXCEPT
     !.hostKey = IF Encrypts(o, r) THEN s ELSE @,
     !.e2e = IF Encrypts(o, r) THEN "required" ELSE "disabled",
     !.proof = IF Encrypts(o, r) THEN "required" ELSE "none",
     !.policy = IF @ # None THEN @
                ELSE IF Encrypts(o, r) THEN "explicit_key" ELSE "disabled"]

DefaultLabels ==
  [transport |-> None, capabilities |-> {"exec"}, fs |-> None, serverID |-> Unnamed,
   serverName |-> Unnamed, policy |-> None, e2e |-> None, proof |-> None, hostKey |-> None]

newWebTTYServerTunnelProperties(s, o, r) ==
  LET registered == registeredWebTTYServerRequested(r)
      publish == webTTYServerPublish(r) /\ (registered \/ r.transport # "plain")
  IN  [name |-> IF r.name # None THEN <<"name", r.name>>
                ELSE IF registered THEN ServerID(s) ELSE Unnamed,
       publish |-> publish,
       tokenAuth |-> publish,
       protocol |-> IF registered THEN "webtty" ELSE IF publish THEN "http" ELSE None,
       type |-> IF r.transport = "webtransport" THEN "datagram"
                ELSE IF registered THEN "bytestream" ELSE None,
       http |-> IF ~publish \/ registered THEN None
                ELSE IF r.transport = "webtransport" THEN "h3" ELSE "http1.1",
       labels |-> webTTYServerRegisteredLabels(s, o, r, applyWebTTYServerLabels(r, DefaultLabels))]

(* The admission proof of a registered server signs the type and every label. *)
NewWebTTYServerAdmissionProofLabel(s, props) ==
  [server |-> s, type |-> props.type, labels |-> props.labels]

(* Published, with the proof made before the runtime labels.                  *)
PublishedProofFirst(s, o, r) ==
  LET base == newWebTTYServerTunnelProperties(s, o, r)
      proof == IF base.protocol = "webtty" THEN NewWebTTYServerAdmissionProofLabel(s, base) ELSE Off
  IN  [id |-> TunnelID(s), props |-> [base EXCEPT !.labels = applyWebTTYRuntimeSecurityLabels(s, o, r, @)], proof |-> proof]

(* The order of runWebTTYServerOnce: properties, runtime labels, proof.       *)
Published(s, o, r) ==
  LET base == newWebTTYServerTunnelProperties(s, o, r)
      props == [base EXCEPT !.labels = applyWebTTYRuntimeSecurityLabels(s, o, r, @)]
      proof == IF props.protocol = "webtty" THEN NewWebTTYServerAdmissionProofLabel(s, props)
               ELSE Off
  IN  [id |-> TunnelID(s), props |-> props, proof |-> proof]

-----------------------------------------------------------------------------
(* The inventory.                                                             *)

firstNonEmpty(a, b, c) == IF a # Unnamed THEN a ELSE IF b # Unnamed THEN b ELSE c

(* ParseServers keeps the tunnels that are WebTTY servers.                    *)
Parsed(t) ==
  t.props.publish => t.props.protocol \in {None, "http", "webtty"}

parseServer(s, t) ==
  LET labels == t.props.labels
  IN  [server |-> s, id |-> t.id, name |-> t.props.name,
       host |-> IF t.props.publish THEN Host(s) ELSE Unnamed,
       type |-> t.props.type, http |-> t.props.http, publish |-> t.props.publish,
       target |-> firstNonEmpty(labels.serverName, t.props.name, t.id),
       serverID |-> labels.serverID, serverName |-> labels.serverName,
       transport |-> labels.transport, hostKey |-> labels.hostKey, e2e |-> labels.e2e,
       proof |-> labels.proof, policy |-> labels.policy,
       fs |-> IF "fs" \in labels.capabilities THEN labels.fs ELSE None]

ParseServers == {parseServer(s, tunnel[s]) : s \in {x \in Servers : tunnel[x] # Off /\ Parsed(tunnel[x])}}

Identifiers(i) == {i.target, i.id, i.name, i.serverID, i.serverName, i.host} \ {Unnamed}

Matches(target) == {i \in ParseServers : target \in Identifiers(i)}

webTTYRuntimeDialTarget(i) == IF i.serverID # Unnamed THEN i.serverID ELSE i.target

webTTYClientRstreamNeedsControlPlane(i) ==
  \/ i = Off
  \/ i.serverID # Unnamed /\ i.policy \notin {"disabled", "explicit_key"}

webTTYClientSecurityScopeFromServerInfo(target, i) ==
  IF i = Off THEN [target |-> target, hostKey |-> None, e2e |-> FALSE, proof |-> FALSE]
  ELSE [target |-> i.target, hostKey |-> i.hostKey,
        e2e |-> i.e2e = "required" \/ i.hostKey # None \/ i.proof = "required",
        proof |-> i.proof = "required"]

(* What the server advertises against itself and against the request.         *)
ResolveTransport(i, requested) ==
  LET advertised == IF i = Off THEN None
                    ELSE IF i.transport # None THEN i.transport
                    ELSE IF i.type = "datagram" THEN "webtransport" ELSE None
      conflict == /\ i # Off
                  /\ advertised # None
                  /\ \/ i.type # None /\ (advertised = "webtransport") # (i.type = "datagram")
                     \/ advertised = "webtransport" /\ i.http \notin {None, "h3"}
                     \/ requested # None /\ requested # advertised
  IN  IF conflict THEN "conflict"
      ELSE IF advertised # None THEN advertised
      ELSE IF requested # None THEN requested ELSE "websocket"

-----------------------------------------------------------------------------
(* The client's keys.  A source is a recipient key with, when it is a whole   *)
(* endpoint identity, the server's signing key.                               *)

Sources(set) == [ok |-> TRUE, of |-> set]
NoSources == [ok |-> FALSE, of |-> {}]

webTTYFilterKnownServerSourcesForScope(sources, sc) ==
  LET named == {x \in sources : x.name = sc.target}
      keyed == {x \in sources : x.key = sc.hostKey}
  IN  IF sc.target = Unnamed /\ sc.hostKey = None THEN Sources(sources)
      ELSE IF sc.hostKey = None THEN Sources(named)
      ELSE IF named = {} THEN Sources(keyed)
      ELSE IF named \cap keyed = {} THEN NoSources ELSE Sources(named \cap keyed)

(* webTTYRuntimeKnownServerClientIdentity: whose identity the file associates *)
(* with the server, by scope or else by the identity itself.                  *)
Associated(s, sc) ==
  LET filtered == webTTYFilterKnownServerSourcesForScope(known, sc)
  IN  IF filtered.of # {} \/ ~filtered.ok THEN filtered
      ELSE Sources({x \in known : x.signing /\ x.key = s})

(* What the control plane answers for a registered server: its identity when  *)
(* its policy asks for keys, and the device this machine is, if it is one.    *)
webTTYClientRuntimeE2EServerSources(s, sc) ==
  LET entry == Registry[s]
      associated == Associated(s, sc)
  IN  IF entry.policy = "disabled" THEN Sources({})
      ELSE IF \/ ~entry.enrolled
              \/ entry.policy = "workspace_managed" /\ ~client.device
              \/ ~associated.ok
      THEN NoSources
      ELSE Sources({[name |-> Unnamed, key |-> s, signing |-> TRUE,
                     identity |-> \E x \in associated.of : x.identity]})

(* webTTYKnownServerSourcesFromFlags: --known-server picks one entry of the   *)
(* file, --known-server-key gives keys of its own; not both.                  *)
webTTYKnownServerSourcesFromFlags ==
  LET chosen == {x \in known : x.name = client.knownServer}
  IN  IF client.knownServer = Unnamed THEN Sources(client.keys)
      ELSE IF client.keys # {} \/ chosen = {} THEN NoSources
      ELSE Sources({CHOOSE x \in chosen : TRUE})

(* webTTYClientEndpointIdentityForNameOrExplicitSources, or the device's.     *)
OwnIdentity(sources, managed) ==
  client.identity \/ (managed /\ client.device) \/ \E x \in sources : x.identity

(* webTTYExpectedServerIdentityFromKnownSources.                              *)
Expected(sources) == {x.key : x \in {y \in sources : y.signing}}

webTTYClientCryptoFromSources(sc, asked) ==
  LET explicit == webTTYKnownServerSourcesFromFlags
      runtimeSources == IF asked = Unnamed THEN Sources({})
                        ELSE webTTYClientRuntimeE2EServerSources(asked[2], sc)
      managed == runtimeSources.of # {}
      configured == managed \/ explicit.of # {}
      scoped == IF ~configured /\ (sc.hostKey # None \/ sc.e2e)
                THEN webTTYFilterKnownServerSourcesForScope(known, sc) ELSE Sources({})
      sources == IF managed THEN runtimeSources.of
                 ELSE IF configured THEN explicit.of
                 ELSE IF scoped.of # {} THEN scoped.of
                 ELSE IF client.e2e THEN known ELSE {}
      own == OwnIdentity(sources, managed)
  IN  IF ~explicit.ok \/ ~runtimeSources.ok \/ ~scoped.ok THEN Failed
      ELSE IF sources = {} /\ ~client.e2e /\ ~sc.e2e
      THEN [keys |-> {}, expected |-> {}, own |-> FALSE]
      ELSE IF \/ sources = {}
              \/ Cardinality({x \in sources : x.signing}) > 1
              \/ sc.proof /\ Expected(sources) = {}
              \/ Expected(sources) # {} /\ ~own
      THEN Failed
      ELSE [keys |-> {x.key : x \in sources},
            expected |-> Expected(sources),
            own |-> own]

-----------------------------------------------------------------------------
(* Servers come and go.                                                       *)

Start(s) ==
  /\ tunnel[s] = Off
  /\ \E o \in offered :
       LET r == applyWebTTYServerRuntimeConfigValues(o)
       IN  /\ Serves(o, r)
           /\ options' = [options EXCEPT ![s] = o]
           /\ tunnel' = [tunnel EXCEPT ![s] = Published(s, o, r)]
  /\ UNCHANGED <<offered, client, known, clientVars>>

Stop(s) ==
  /\ tunnel[s] # Off
  /\ options' = [options EXCEPT ![s] = Off]
  /\ tunnel' = [tunnel EXCEPT ![s] = Off]
  /\ UNCHANGED <<offered, client, known, clientVars>>

(* The client.  Fail is every error return; it dials nothing.                 *)
Fail ==
  /\ pc' = "failed"
  /\ UNCHANGED <<info, scope, remote, runtime>>

(* resolveWebTTYRuntimeServerInfo over what the engine lists at that moment.  *)
Found(i) ==
  /\ info' = i
  /\ scope' = webTTYClientSecurityScopeFromServerInfo(client.target, i)
  /\ remote' = IF i = Off \/ client.published THEN client.target ELSE webTTYRuntimeDialTarget(i)

(* webTTYClientRuntimeE2EContext of the registered server that was found.     *)
Asks(i) ==
  IF i # Off /\ client.project /\ i.serverID # Unnamed /\ webTTYClientRstreamNeedsControlPlane(i)
  THEN i.serverID ELSE Unnamed

(* --no-discovery, and a public URL whose server is not found or cannot be    *)
(* looked up, go on with what the command line says.                          *)
Undiscovered ==
  /\ Found(Off)
  /\ pc' = "decide"
  /\ UNCHANGED runtime

List ==
  /\ pc = "list"
  /\ UNCHANGED <<serverVars, client, known, outcome>>
  /\ LET matching == Matches(client.target)
     IN  \/ /\ ~client.discovery \/ (client.published /\ Cardinality(matching) # 1)
            /\ Undiscovered
         \/ /\ client.discovery /\ matching = {} /\ ~client.published
            /\ Found(Off)
            /\ pc' = IF client.project THEN "control" ELSE "decide"
            /\ UNCHANGED runtime
         \/ /\ client.discovery /\ Cardinality(matching) = 1
            /\ \E i \in matching : Found(i) /\ runtime' = Asks(i)
            /\ pc' = "decide"
         \/ /\ client.discovery /\ Cardinality(matching) > 1 /\ ~client.published
            /\ Fail

(* A call to the engine or the control plane may fail.                        *)
CallFails ==
  /\ pc \in {"list", "control", "relist"}
  /\ UNCHANGED <<serverVars, client, known, outcome>>
  /\ IF pc = "list" /\ client.published THEN Undiscovered ELSE client.discovery /\ Fail

(* resolveControlPlaneWebTTYServerTarget: nothing runs under the name; a      *)
(* registered server may.                                                     *)
Control ==
  /\ pc = "control"
  /\ UNCHANGED <<serverVars, client, known, info, scope, outcome>>
  /\ LET entries == {s \in DOMAIN Registry : client.target \in {ServerID(s), Registry[s].name}}
     IN  IF Cardinality(entries) > 1 THEN pc' = "failed" /\ UNCHANGED <<remote, runtime>>
         ELSE IF entries = {} THEN pc' = "decide" /\ UNCHANGED <<remote, runtime>>
         ELSE /\ pc' = "relist"
              /\ remote' = ServerID(CHOOSE s \in entries : TRUE)
              /\ runtime' = remote'

Relist ==
  /\ pc = "relist"
  /\ UNCHANGED <<serverVars, client, known, outcome>>
  /\ IF Cardinality(Matches(remote)) # 1
     THEN Fail
     ELSE /\ \E i \in Matches(remote) :
               /\ info' = i
               /\ scope' = [webTTYClientSecurityScopeFromServerInfo(remote, i) EXCEPT
                              !.target = client.target]
          /\ pc' = "decide"
          /\ remote' = remote
          /\ runtime' = IF webTTYClientRstreamNeedsControlPlane(info') THEN remote ELSE Unnamed

(* The rest of runWebTTYClientWithOptions: transport, keys, identities.       *)
Decide ==
  /\ pc = "decide"
  /\ UNCHANGED <<serverVars, client, known>>
  /\ LET transport == ResolveTransport(info, client.transport)
         crypto == webTTYClientCryptoFromSources(scope, runtime)
     IN  IF transport = "conflict" \/ crypto = Failed \/ (~client.discovery /\ client.transport = None)
         THEN Fail /\ UNCHANGED outcome
         ELSE /\ pc' = "dial"
              /\ outcome' = [transport |-> transport, keys |-> crypto.keys,
                             expected |-> crypto.expected, own |-> crypto.own]
              /\ UNCHANGED <<info, scope, remote, runtime>>

Init ==
  /\ offered \in Offers
  /\ options = [s \in Servers |-> Off]
  /\ tunnel = [s \in Servers |-> Off]
  /\ client \in ClientOptions
  /\ known \in Stores
  /\ pc = "list"
  /\ info = Off
  /\ scope = [target |-> Unnamed, hostKey |-> None, e2e |-> FALSE, proof |-> FALSE]
  /\ remote = Unnamed
  /\ runtime = Unnamed
  /\ outcome = Off

Next ==
  \/ \E s \in Servers : Start(s) \/ Stop(s)
  \/ List
  \/ Control
  \/ Relist
  \/ Decide
  \/ CallFails

Spec == Init /\ [][Next]_vars

-----------------------------------------------------------------------------
(* Properties.                                                                *)

TypeOK ==
  /\ \A s \in Servers : (options[s] = Off) = (tunnel[s] = Off)
  /\ pc \in {"list", "control", "relist", "decide", "failed", "dial"}
  /\ (outcome # Off) = (pc = "dial")

Runs(s) == tunnel[s] # Off

(* The labels and properties of a running server tell what its handler        *)
(* enforces: it is in every listing, ResolveTransport finds no conflict and   *)
(* returns the transport it serves, keys are asked for exactly when the       *)
(* handler requires the grant and the client's proof, its file system is      *)
(* announced as it is served, and a managed admission proof signs the very    *)
(* type and labels of the tunnel.                                             *)
LabelsTell ==
  \A s \in Servers : Runs(s) =>
    LET o == options[s]
        r == applyWebTTYServerRuntimeConfigValues(o)
        i == parseServer(s, tunnel[s])
        sc == webTTYClientSecurityScopeFromServerInfo(TunnelID(s), i)
    IN  /\ i \in ParseServers
        /\ ResolveTransport(i, None) = Transport(r)
        /\ sc.e2e = Encrypts(o, r) /\ sc.proof = Encrypts(o, r)
        /\ Encrypts(o, r) => sc.hostKey = s
        /\ i.fs = r.fs
        /\ (tunnel[s].proof # Off) = registeredWebTTYServerRequested(r)
        /\ tunnel[s].proof # Off =>
             tunnel[s].proof.labels = tunnel[s].props.labels /\ tunnel[s].proof.type = tunnel[s].props.type

(* A client that found a server dials that server: the name it was given is   *)
(* one of the server's identifiers or a control-plane name of it, and what it *)
(* dials is one of the server's identifiers too.                              *)
DialsWhatItFound ==
  pc = "dial" /\ info # Off =>
    /\ remote \in Identifiers(info)
    /\ \/ client.target \in Identifiers(info)
       \/ info.serverID # Unnamed /\ client.target = Registry[info.server].name
    /\ client.transport # None => outcome.transport = client.transport

(* A client that found a server which asks for keys never goes on in the      *)
(* clear: it seals to some key, insists on a server identity and brings one   *)
(* of its own.  The key is the advertised one unless the command line gave    *)
(* the keys, the control plane vouches for the server's, or --e2e falls back  *)
(* on the whole known-servers file because nothing in it matches (the server  *)
(* identity it then insists on is another's, and the handshake refuses).      *)
NotInTheClear ==
  pc = "dial" /\ info # Off =>
    /\ info.e2e = "required" => outcome.keys # {} /\ outcome.expected # {} /\ outcome.own
    /\ info.hostKey # None /\ client.keys = {} /\ client.knownServer = Unnamed /\ runtime = Unnamed =>
         \/ outcome.keys = {info.hostKey}
         \/ client.e2e /\ outcome.keys = {x.key : x \in known}
    /\ outcome.expected \subseteq outcome.keys

DiscoveryInv == LabelsTell /\ DialsWhatItFound /\ NotInTheClear
=============================================================================
