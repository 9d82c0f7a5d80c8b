------------------------------- MODULE Doctor -------------------------------
(***************************************************************************)
(* `rstream doctor' (doctor/, cmd/doctor.go): the checks in their order,   *)
(* what each one skips, the two transport probes that run side by side,    *)
(* the temporary tunnel of a deep run, the cancellation at any point and   *)
(* the report the command prints.                                          *)
(***************************************************************************)
EXTENDS Naturals

Nil == ""
Names == {"config", "fips", "context", "token", "mtls", "control_plane_auth", "project", "engine_address", "dns", "tls",
          "quic_transport", "tunnel_transport", "engine_api_discovery", "engine", "tunnel_creation", "cleanup", "execution"}
Statuses == {"pass", "warn", "fail", "skip"}
Setting == [fips : {"off", "ok", "broken"}, config : BOOLEAN, resolves : BOOLEAN, region : BOOLEAN, context : {Nil, "engine", "managed"},
            endpoint : BOOLEAN, engine : {Nil, "bad", "hostless", "ok"}, token : {Nil, "opaque", "garbled", "expired", "valid"},
            stored : BOOLEAN, mtls : {Nil, "file", "external"}, transport : {"tls", "quic", "auto", "unset", "custom"}, deep : BOOLEAN]

VARIABLES s,        \* the configuration diagnosed
          pc,       \* the check the run is at
          ctx,      \* "live" or "ended"
          report,   \* the status of each check made, Nil for one that was not
          twice,    \* the checks reported more than once
          ready,    \* projectReady
          probe,    \* the transport probes: "off", "runs", "ok", "failed"
          held,     \* what the run holds: clients, control channel, tunnel
          mode,     \* the kind of tunnel the deep probe creates
          looked,   \* Run looked at its context before this check
          late      \* how many checks began after the context ended
vars == <<s, pc, ctx, report, twice, ready, probe, held, mode, looked, late>>

Steps == {"config", "fips", "region", "context", "authentication", "control_plane", "project", "address", "dns", "start", "probes", "engine",
          "discovery", "health", "inventory", "deep", "connect", "create", "close_tunnel", "close_control", "finish", "done"}

TypeOK ==
  /\ pc \in Steps /\ ctx \in {"live", "ended"} /\ report \in [Names -> Statuses \cup {Nil}] /\ twice \subseteq Names
  /\ ready \in BOOLEAN /\ probe \in [{"tls", "quic"} -> {"off", "runs", "ok", "failed"}]
  /\ held \subseteq {"client", "control", "tunnel"} /\ mode \in {"private", "published_http"}
  /\ looked \in BOOLEAN /\ late \in Nat

Init ==
  /\ s \in Setting /\ pc = "config" /\ ctx = "live" /\ report = [n \in Names |-> Nil] /\ twice = {} /\ ready = TRUE
  /\ probe = [p \in {"tls", "quic"} |-> "off"] /\ held = {} /\ mode = "private" /\ looked = FALSE /\ late = 0

\* Report.add, for a set of checks at once.
Adds(f) ==
  /\ report' = [n \in Names |-> IF n \in DOMAIN f THEN f[n] ELSE report[n]]
  /\ twice' = twice \cup {n \in DOMAIN f : report[n] # Nil}
Add(name, status) == Adds([n \in {name} |-> status])
\* The steps before which Run looks at its context; Go leaves a step, late when the context ended under it.
Looks == {"fips", "control_plane", "project", "address", "start", "engine", "deep"}
Go(next) == pc' = next /\ looked' = FALSE /\ late' = late + (IF ctx = "ended" /\ pc \in Looks THEN 1 ELSE 0)
At(step) == pc = step /\ (step \in Looks => looked)

\* The tests of the context between the checks: once it ended the run finishes.
Look ==
  /\ pc \in Looks /\ ~looked /\ looked' = TRUE /\ pc' = IF ctx = "ended" THEN "finish" ELSE pc
  /\ UNCHANGED <<s, ctx, report, twice, ready, probe, held, mode, late>>
HasMTLS == s.mtls # Nil
doctorUsesControlPlane == s.context \in {Nil, "managed"}

\* runDoctor: the configuration file is loaded and resolved before the run.
runDoctor ==
  /\ At("config")
  /\ IF ~s.config THEN Add("config", "fail") /\ Go("done")
     ELSE IF ~s.resolves THEN Adds([n \in {"config", "context"} |-> IF n = "config" THEN "pass" ELSE "fail"]) /\ Go("done")
     ELSE Add("config", "pass") /\ Go("fips")
  /\ UNCHANGED <<s, ctx, ready, probe, held, mode>>

\* Run: the cryptographic runtime of a restricted build.
Fips ==
  /\ At("fips")
  /\ IF s.fips = "broken" THEN Add("fips", "fail") /\ Go("finish") ELSE Go("region") /\ UNCHANGED <<report, twice>>
  /\ UNCHANGED <<s, ctx, ready, probe, held, mode>>

\* resolveRegion: a region needs the project's endpoint, a token and the Control plane.
resolveRegion ==
  /\ At("region")
  /\ \/ (s.region => s.context # Nil /\ s.endpoint /\ (s.token # Nil \/ s.stored) /\ ctx = "live") /\ Go("context") /\ UNCHANGED <<report, twice>>
     \/ s.region /\ Add("context", "fail") /\ Go("finish")
  /\ UNCHANGED <<s, ctx, ready, probe, held, mode>>

checkDoctorContext ==
  /\ At("context") /\ Add("context", IF s.context = Nil THEN "warn" ELSE "pass") /\ Go("authentication")
  /\ UNCHANGED <<s, ctx, ready, probe, held, mode>>

\* parseDoctorTokenInfo: an opaque token has no claims, and so no expiry.
parseDoctorTokenInfo == [ok |-> s.token # "garbled", expired |-> s.token = "expired"]
\* checkDoctorToken: an unreadable token is only a warning, an expired one fails.
checkDoctorToken ==
  IF s.token = Nil THEN "fail" ELSE IF ~parseDoctorTokenInfo.ok THEN "warn" ELSE IF parseDoctorTokenInfo.expired THEN "fail" ELSE "pass"

checkDoctorAuthentication ==
  /\ At("authentication") /\ Go("control_plane")
  /\ IF ~HasMTLS THEN Add("token", checkDoctorToken)
     ELSE \E v \in (IF s.mtls = "external" THEN {"pass", "fail"} ELSE {"pass"}) :
            Adds([n \in {"token", "mtls"} |-> IF n = "token" THEN "skip" ELSE v])
  /\ UNCHANGED <<s, ctx, ready, probe, held, mode>>

\* The Control plane is asked who the token is, unless the agent does not need it.
checkDoctorControlPlane ==
  /\ At("control_plane")
  /\ IF doctorUsesControlPlane /\ ~HasMTLS
     THEN /\ \E v \in {"pass", "fail"} : /\ ctx = "ended" => v = "fail"
                                         /\ Add("control_plane_auth", IF s.token = Nil THEN "skip" ELSE v)
          /\ Go("project")
     ELSE Adds([n \in {"control_plane_auth", "project"} |-> "skip"]) /\ Go("address")
  /\ UNCHANGED <<s, ctx, ready, probe, held, mode>>

\* checkDoctorProject: only a project known to be inactive stops the probes, a failed lookup does not.
checkDoctorProject ==
  /\ At("project")
  /\ IF s.context = Nil \/ ~s.endpoint \/ s.token = Nil
     THEN Add("project", "skip") /\ UNCHANGED ready /\ Go("address")
     ELSE \/ Add("project", "fail") /\ UNCHANGED ready /\ Go("address")
          \/ ctx = "live" /\ Add("project", "pass") /\ UNCHANGED ready /\ Go("address")
          \/ ctx = "live" /\ ready' = FALSE /\ Go("deep")
             /\ Adds([n \in {"project", "engine_address", "dns", "tls", "quic_transport", "tunnel_transport", "engine"} |->
                        IF n = "project" THEN "fail" ELSE "skip"])
  /\ UNCHANGED <<s, ctx, probe, held, mode>>

\* doctorEngineHostPort: a URL without a host is an address without one, which is not an error.
doctorEngineHostPort == [err |-> s.engine = "bad", host |-> s.engine = "ok"]

\* checkDoctorNetwork up to the address.
checkDoctorNetwork ==
  /\ At("address")
  /\ Add("engine_address", IF doctorEngineHostPort.err THEN "fail" ELSE IF ~doctorEngineHostPort.host THEN "skip" ELSE "pass")
  /\ Go(IF doctorEngineHostPort.host THEN "dns" ELSE "engine")
  /\ UNCHANGED <<s, ctx, ready, probe, held, mode>>

\* The lookup of the host, whose failure does not stop the probes.
Lookup ==
  /\ At("dns") /\ \E v \in {"pass", "fail"} : (ctx = "ended" => v = "fail") /\ Add("dns", v)
  /\ Go("start") /\ UNCHANGED <<s, ctx, ready, probe, held, mode>>
StartProbes ==
  /\ At("start") /\ probe' = [p \in {"tls", "quic"} |-> "runs"] /\ Go("probes")
  /\ UNCHANGED <<s, ctx, report, twice, ready, held, mode>>

\* What each probe dials with: the TLS one stands in for any known transport, the QUIC one needs a QUIC transport.
doctorTLSTransport == s.transport # "custom"
doctorQUICTransport == s.transport \in {"quic", "auto"}
\* probeDoctorTLS and probeDoctorQUIC, on transports of their own which they close.
Probe(p) ==
  /\ probe[p] = "runs"
  /\ \E v \in {"ok", "failed"} : /\ v = "ok" => (IF p = "tls" THEN doctorTLSTransport ELSE doctorQUICTransport) /\ ctx = "live"
                                 /\ probe' = [probe EXCEPT ![p] = v]
  /\ UNCHANGED <<s, pc, ctx, report, twice, ready, held, mode, looked, late>>

\* The verdict on each transport, which the configured one decides.
doctorConfiguredTransportMode == IF s.transport \in {"tls", "quic"} THEN s.transport ELSE "auto"
doctorTransportProbeStatuses(p) ==
  LET other == IF p = "tls" THEN "quic" ELSE "tls"
      needed == doctorConfiguredTransportMode = p \/ (doctorConfiguredTransportMode = "auto" /\ probe[other] # "ok")
  IN  IF probe[p] = "ok" THEN "pass" ELSE IF needed THEN "fail" ELSE "warn"
Selected ==
  LET configured == doctorConfiguredTransportMode IN
  IF configured # "auto" THEN (IF probe[configured] = "ok" THEN "pass" ELSE "fail")
  ELSE IF probe["quic"] = "ok" THEN "pass" ELSE IF probe["tls"] = "ok" THEN "warn" ELSE "fail"

\* Both results are awaited before the verdicts are written, always in the same order.
ProbesJoin ==
  /\ At("probes") /\ \A p \in {"tls", "quic"} : probe[p] \in {"ok", "failed"}
  /\ Adds([n \in {"tls", "quic_transport", "tunnel_transport"} |->
             IF n = "tunnel_transport" THEN Selected ELSE doctorTransportProbeStatuses(IF n = "tls" THEN "tls" ELSE "quic")])
  /\ Go("engine")
  /\ UNCHANGED <<s, ctx, ready, probe, held, mode>>

\* closeClient, deferred: the client is closed, and a failure to close it is one more failed check.
CloseClient(name, status, next) ==
  /\ held' = {} /\ Go(next)
  /\ \/ Add(name, status)
     \/ Adds([n \in {name, "cleanup"} |-> IF n = name THEN status ELSE "fail"])

\* checkDoctorEngine: a client of its own, and for a certificate the discovery of its API.
checkDoctorEngine ==
  /\ At("engine")
  /\ IF s.engine = Nil \/ (s.token = Nil /\ ~HasMTLS) THEN Add("engine", "skip") /\ Go("deep") /\ UNCHANGED held
     ELSE \/ Add("engine", "fail") /\ Go("deep") /\ UNCHANGED held
          \/ held' = held \cup {"client"} /\ Go(IF HasMTLS THEN "discovery" ELSE "health") /\ UNCHANGED <<report, twice>>
  /\ UNCHANGED <<s, ctx, ready, probe, mode>>

EngineDiscovery ==
  /\ At("discovery")
  /\ \/ CloseClient("engine", "fail", "deep")
     \/ ctx = "live" /\ Add("engine_api_discovery", "pass") /\ Go("health") /\ UNCHANGED held
  /\ UNCHANGED <<s, ctx, ready, probe, mode>>

\* Client.CheckHealth: a refusal restricts, an engine that is not ready fails.
CheckHealth ==
  /\ At("health")
  /\ \/ \E v \in {"warn", "fail"} : (ctx = "ended" => v = "fail") /\ CloseClient("engine", v, "deep")
     \/ ctx = "live" /\ Go("inventory") /\ UNCHANGED <<report, twice, held>>
  /\ UNCHANGED <<s, ctx, ready, probe, mode>>

\* ListClients and ListTunnels.
Inventory ==
  /\ At("inventory")
  /\ \E v \in {"pass", "warn", "fail"} : (ctx = "ended" => v = "fail") /\ CloseClient("engine", v, "deep")
  /\ UNCHANGED <<s, ctx, ready, probe, mode>>

\* checkDoctorTunnelCreation: only a deep run of a usable project creates a tunnel.
checkDoctorTunnelCreation ==
  /\ At("deep")
  /\ IF ~s.deep THEN Go("finish") /\ UNCHANGED <<report, twice, held>>
     ELSE IF ~ready \/ s.engine = Nil \/ (s.token = Nil /\ ~HasMTLS) THEN Add("tunnel_creation", "skip") /\ Go("finish") /\ UNCHANGED held
     ELSE \/ Add("tunnel_creation", "fail") /\ Go("finish") /\ UNCHANGED held
          \/ held' = held \cup {"client"} /\ Go("connect") /\ UNCHANGED <<report, twice>>
  /\ UNCHANGED <<s, ctx, ready, probe, mode>>

\* probeDoctorTunnelCreation: the lifecycle failed and the deferred Close ended what the Engine kept for the control
\* channel; a project without private tunnels is probed once more with a published one.
probeDoctorTunnelCreation ==
  \/ /\ held' = {} /\ Go("finish") /\ UNCHANGED mode
     /\ Add("tunnel_creation", "fail") \/ Adds([n \in {"tunnel_creation", "cleanup"} |-> "fail"])
  \/ /\ mode = "private" /\ mode' = "published_http" /\ held' = {"client"} /\ Go("connect") /\ UNCHANGED <<report, twice>>

\* probeDoctorTunnelLifecycle: connect, create, close the tunnel, close the control channel.
Connect ==
  /\ At("connect")
  /\ \/ probeDoctorTunnelCreation
     \/ ctx = "live" /\ held' = held \cup {"control"} /\ Go("create") /\ UNCHANGED <<report, twice, mode>>
  /\ UNCHANGED <<s, ctx, ready, probe>>
CreateTunnel ==
  /\ At("create")
  /\ \/ probeDoctorTunnelCreation
     \/ ctx = "live" /\ held' = held \cup {"tunnel"} /\ Go("close_tunnel") /\ UNCHANGED <<report, twice, mode>>
  /\ UNCHANGED <<s, ctx, ready, probe>>
CloseTunnel ==
  /\ At("close_tunnel")
  /\ \/ probeDoctorTunnelCreation
     \/ held' = held \ {"tunnel"} /\ Go("close_control") /\ UNCHANGED <<report, twice, mode>>
  /\ UNCHANGED <<s, ctx, ready, probe>>
CloseControl ==
  /\ At("close_control")
  /\ \/ probeDoctorTunnelCreation
     \/ CloseClient("tunnel_creation", "pass", "finish") /\ UNCHANGED mode
  /\ UNCHANGED <<s, ctx, ready, probe>>

\* finish: the interruption is itself a failed check.
finish ==
  /\ At("finish") /\ Go("done")
  /\ IF ctx = "ended" THEN Add("execution", "fail") ELSE UNCHANGED <<report, twice>>
  /\ UNCHANGED <<s, ctx, ready, probe, held, mode>>

\* The caller's context ends.
Cancel ==
  /\ ctx = "live" /\ pc # "done" /\ ctx' = "ended"
  /\ UNCHANGED <<s, pc, report, twice, ready, probe, held, mode, looked, late>>

Run ==
  \/ runDoctor \/ Look \/ Fips \/ resolveRegion \/ checkDoctorContext \/ checkDoctorAuthentication \/ checkDoctorControlPlane
  \/ checkDoctorProject \/ checkDoctorNetwork \/ Lookup \/ StartProbes \/ ProbesJoin \/ checkDoctorEngine \/ EngineDiscovery
  \/ CheckHealth \/ Inventory \/ checkDoctorTunnelCreation \/ Connect \/ CreateTunnel \/ CloseTunnel \/ CloseControl \/ finish
Next == Run \/ Cancel \/ \E p \in {"tls", "quic"} : Probe(p)
Spec == Init /\ [][Next]_vars
\* Every call of the run and of its probes has a deadline.
Runs == Run \/ \E p \in {"tls", "quic"} : Probe(p)
FairSpec == Spec /\ WF_vars(Runs)

\* A run that ended holds no client, control channel or tunnel and left no probe running, whichever check failed or was cancelled.
NothingHeld == pc = "done" => held = {} /\ \A p \in {"tls", "quic"} : probe[p] # "runs"
\* Once the context ended at most the check already chosen is still made, and a project known to be inactive is never probed.
StopsChecking == late <= 1 /\ (~ready => held = {} /\ \A p \in {"tls", "quic"} : probe[p] = "off")
\* A report names a check once (only the cleanup of the two clients may fail twice), and one that was not cut short has a
\* verdict on every area asked for.
WholeReport ==
  /\ twice \subseteq {"cleanup"}
  /\ pc = "done" /\ s.config /\ s.resolves /\ report["execution"] = Nil /\ report["fips"] = Nil /\ report["token"] # Nil =>
       /\ \A n \in {"context", "control_plane_auth", "project", "engine_address", "engine"} : report[n] # Nil
       /\ s.deep <=> report["tunnel_creation"] # Nil
\* The transport the tunnels would use is reported usable exactly when neither probe counts as a failure.
TransportsAgree ==
  report["tunnel_transport"] \in {"pass", "warn", "fail"} =>
    (report["tunnel_transport"] = "fail" <=> "fail" \in {report["tls"], report["quic_transport"]})
\* The run ends, with a report.
Settled == pc = "done"
DoctorInv == NothingHeld /\ StopsChecking /\ WholeReport /\ TransportsAgree
=============================================================================
