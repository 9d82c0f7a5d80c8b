------------------------------ MODULE MCClient ------------------------------
(* What a client rests on.  The components see each other only through the *)
(* result of a call, so a behaviour exercises one of them (part) under one *)
(* load; the variables of the others rest at 0, those of the write path    *)
(* and of the proxy transport at their initial values.                     *)
(*                                                                         *)
(* "writer": three writers, two with a deadline. "heartbeat": sequence     *)
(* numbers of three bits, used up to the last one; offered timeouts below, *)
(* on and above both ends of what is valid and the grace that one missed   *)
(* answer and one tick of delay need. "drain": three dials. "close": Close *)
(* against a Connect and a PacketDial, which may go on to Dial, at most    *)
(* one of them cancelled, on a client that makes its own transport, over   *)
(* TLS or QUIC, or borrows one ("calls"), or against three dials of the    *)
(* HTTP/3 API transport, which owns at most two, on a client that owns its *)
(* transport ("api"). "quic": two dialers and two connections; one Close,  *)
(* one or two origins, no datagram channel ("dials"), a channel for each   *)
(* dialer and no Close ("channels"), or a tunnel's channel and a Close     *)
(* ("close"). "auto": two dialers and one Close. "race": three targets     *)
(* through two proxies. "api": one call of any kind for one of five setups *)
(* ("one"), or a read that shares a discovery with another call ("two").   *)
(* "turn": tokens of every kind, keys the program has or not, lifetimes at *)
(* both ends. "doctor": settings with at most one difference from the      *)
(* usual ones. "signer": one call of any kind with any helper ("one"), or  *)
(* a handshake against another or a check, with a helper that answers well *)
(* or not at all ("two"); the limits of the settings and one beyond each.  *)
EXTENDS ProxyDrain, Integers, Sequences, TLC

CONSTANTS w1, w2, w3, c1, c2, r1, r2, r3, d1, d2, k1, o1, o2, None, NoGen, NoOffer

VARIABLES part, load,
  pc, result, lock, ctx, expired, interrupt, deadline, wrote, wire, sticky, torn, conn,
  interval, timeout, state, sequence, acknowledgement, nextSend, sending, beatDeadline, beatWire, missed,
  silent, engineDead, sends,
  closeClosed, cpc, dials, sweep, ended, cancelled, transport, mode, closePc, closeConn, intr, failed, api,
  owned,
  quicConn, gen, connecting, live, quicOwned, dropping, flights, origin, born, quicPc, attempt, seen, mine,
  flight, wants, quicCancelled, aborted, chan, by, running, reader, readDone, quicCpc, took,
  generation, selected, selecting, cleanup, autoPc, autoSeen, waitsFor, autoEnded, cancel, autoAttempt,
  autoConn, winner, done, cleaner, autoCpc, autoTook,
  racePc, raceEnded, stopped, next, raceAttempt, raceConn, timer, won, raceResult,
  setup, kind, call, cache, apiFlight, pool, useTCP, apiClosed, home, ran, stream,
  given, env, opts, turnPc, turnCtx, out, issued, failure,
  doctorS, doctorPc, doctorCtx, report, twice, ready, probe, held, doctorMode, looked, late,
  storage, provider, cert, now, identity, loading, gate, signerCall, helper

Setup(mtls, token, override, dialer) == [cert |-> mtls, token |-> token, override |-> override, dialer |-> dialer]
PlainSetup == Setup(TRUE, FALSE, FALSE, "tls")
MCSetups == {PlainSetup, Setup(TRUE, FALSE, FALSE, "auto"), Setup(FALSE, TRUE, FALSE, "auto"), Setup(TRUE, FALSE, TRUE, "quic"),
             Setup(TRUE, TRUE, FALSE, "tls")}
Ask(op, project) == [op |-> op, project |-> project]

Token(type, ref, allocate, exp) == [type |-> type, ref |-> ref, allocate |-> allocate, exp |-> exp]
NoToken == Token("", FALSE, FALSE, -1)
GoodToken == Token("pat", TRUE, TRUE, 60)
MCTokens == {NoToken, GoodToken, Token("opaque", FALSE, FALSE, -1), Token("conflict", TRUE, TRUE, 60), Token("pat", TRUE, TRUE, 0),
             Token("pat", TRUE, TRUE, 7200), Token("pat", TRUE, FALSE, 60), Token("pat", FALSE, TRUE, 60), Token("pat", TRUE, TRUE, -1)}
Sources ==
  {x \in [client : BOOLEAN, cert : BOOLEAN, token : MCTokens, key : {"", "p256", "p521"},
          mode : {"auto", "api", "engine", "pat", "app"}, api : BOOLEAN, id : {FALSE}, endpoint : {"", "mine", "other"},
          domain : {"", "opt"}, realm : {"opt"}, ttl : {0, 3600}, serverKey : {""}] :
     /\ x.key # "" \/ x.cert => x.token \in {NoToken, GoodToken}
     /\ x.token \in {NoToken, GoodToken} \/ (x.endpoint # "other" /\ x.domain = "" /\ x.ttl = 0)
     /\ x.cert => x.client /\ x.key = ""
     /\ x.domain = "opt" => x.endpoint # "other" /\ x.ttl = 0}
Prepared ==
  [client : {TRUE}, cert : {FALSE}, token : {NoToken, GoodToken}, key : {"", "p256"}, mode : {"auto", "app"}, api : {TRUE},
   id : BOOLEAN, endpoint : {"", "mine", "other"}, domain : {"", "opt"}, realm : {"", "opt"}, ttl : {0, -1, 1, 3601},
   serverKey : {"p256", "p521"}]
MCOptions == Sources \cup Prepared
Env(used, endpoint, domain, realm, engine) ==
  [used |-> used, endpoint |-> endpoint, domain |-> domain, realm |-> realm, engine |-> engine]
MCEnvs == {Env(FALSE, "", FALSE, FALSE, ""), Env(TRUE, "mine", TRUE, TRUE, "mine"), Env(TRUE, "mine", FALSE, FALSE, "mine"),
           Env(TRUE, "", FALSE, FALSE, "elsewhere")}

UsualSetting ==
  [fips |-> "off", config |-> TRUE, resolves |-> TRUE, region |-> FALSE, context |-> "managed", endpoint |-> TRUE, engine |-> "ok",
   token |-> "valid", stored |-> FALSE, mtls |-> "", transport |-> "auto", deep |-> TRUE]

Setting(timeoutSeconds, concurrency) ==
  [fips |-> FALSE, exec |-> TRUE, other |-> FALSE, print |-> 32, absolute |-> TRUE, timeout |-> timeoutSeconds,
   concurrency |-> concurrency, args |-> 0, names |-> TRUE]
MCSettings ==
  {Setting(<<>>, 0), Setting(<<60>>, 2), Setting(<<61>>, 2), Setting(<<0>>, 2), Setting(<<>>, -1), Setting(<<>>, 33),
   [Setting(<<>>, 1) EXCEPT !.other = TRUE], [Setting(<<>>, 1) EXCEPT !.args = 129]}
Capability(algorithm, inputs) == [algorithm |-> algorithm, inputs |-> inputs]
GoodOffer == <<Capability("rsa_pss_rsae_sha256", <<"message", "digest">>), Capability("rsa_pkcs1_sha256", <<"digest">>)>>
MCOffers ==
  {<<>>, GoodOffer, <<Capability("ed25519", <<"message">>)>>, <<Capability("ed25519", <<"digest">>)>>,
   <<Capability("rsa_pkcs1_sha256", <<"message">>), Capability("rsa_pkcs1_sha256", <<"digest">>)>>,
   <<Capability("rsa_pkcs1_sha256", <<"digest", "digest">>)>>}

W == INSTANCE ControlWriter WITH Writers <- {w1, w2, w3}, HasDeadline <- {w1, w2}
H == INSTANCE Heartbeat WITH deadline <- beatDeadline, wire <- beatWire, Intervals <- 0 .. 3, MinInterval <- 1, MaxInterval <- 2,
       Offers <- [interval : {1, 2}, timeout : 0 .. 8], MaxTimeout <- 7, MaxDelay <- 1, MaxMissed <- 1,
       Width <- 3, MaxSends <- 7
C == INSTANCE ClientClose WITH closed <- closeClosed, pc <- closePc, conn <- closeConn, Calls <- {c1, c2}, Kind <- (c1 :> "connect") @@
       (c2 :> "packet"), Requests <- {r1, r2, r3}, MaxDialers <- 2, ZeroRTT <- TRUE
Q == INSTANCE QUICTransport WITH owned <- quicOwned, pc <- quicPc, cancelled <- quicCancelled, cpc <- quicCpc, Dialers <- {d1, d2},
       Tunnelled <- {d2}, Closers <- {k1}, MaxConns <- 2, Wants <- {(d1 :> o1) @@ (d2 :> o) : o \in {o1, o2}}
A == INSTANCE AutoTransport WITH pc <- autoPc, seen <- autoSeen, ended <- autoEnded, attempt <- autoAttempt, conn <- autoConn,
       cpc <- autoCpc, took <- autoTook, Dialers <- {d1, d2}, Closers <- {k1}
R == INSTANCE DialRace WITH pc <- racePc, ended <- raceEnded, attempt <- raceAttempt, conn <- raceConn, result <- raceResult,
       Targets <- 3, Proxies <- 2
E == INSTANCE EngineAPI WITH flight <- apiFlight, closed <- apiClosed, Calls <- {"a", "b"}, Kinds <- [op : {"read", "write", "sse",
       "ws"}, project : {"p", "q"}], Setups <- MCSetups, MaxEvents <- 2
T == INSTANCE TURNCredentials WITH pc <- turnPc, ctx <- turnCtx, Options <- MCOptions, Envs <- MCEnvs
D == INSTANCE Doctor WITH s <- doctorS, pc <- doctorPc, ctx <- doctorCtx, mode <- doctorMode
S == INSTANCE ExternalSigner WITH call <- signerCall, Calls <- {"a", "b"}, Ops <- {"handshake", "old", "check"}, Settings <- MCSettings,
       Keys <- {"rsa", "ed25519"}, Offers <- MCOffers

writerVars == <<pc, result, lock, ctx, expired, interrupt, deadline, wrote, wire, sticky, torn, conn>>
beatVars == <<interval, timeout, state, sequence, acknowledgement, nextSend, sending, beatDeadline, beatWire,
              missed, silent, engineDead, sends>>
closeVars == <<closeClosed, cpc, dials, sweep, ended, cancelled, transport, mode, closePc, closeConn, intr,
               failed, api, owned>>
quicVars == <<quicConn, gen, connecting, live, quicOwned, dropping, flights, origin, born, quicPc, attempt,
              seen, mine, flight, wants, quicCancelled, aborted, chan, by, running, reader, readDone, quicCpc,
              took>>
autoVars == <<generation, selected, selecting, cleanup, autoPc, autoSeen, waitsFor, autoEnded, cancel,
              autoAttempt, autoConn, winner, done, cleaner, autoCpc, autoTook>>
raceVars == <<racePc, raceEnded, stopped, next, raceAttempt, raceConn, timer, won, raceResult>>
apiVars == <<setup, kind, call, cache, apiFlight, pool, useTCP, apiClosed, home, ran, stream>>
turnVars == <<given, env, opts, turnPc, turnCtx, out, issued, failure>>
doctorVars == <<doctorS, doctorPc, doctorCtx, report, twice, ready, probe, held, doctorMode, looked, late>>
signerVars == <<storage, provider, cert, now, identity, loading, gate, signerCall, helper>>

writerRest == pc = 0 /\ result = 0 /\ lock = 0 /\ ctx = 0 /\ expired = 0 /\ interrupt = 0 /\ deadline = 0
              /\ wrote = 0 /\ wire = 0 /\ sticky = 0 /\ torn = 0 /\ conn = 0
beatRest == interval = 0 /\ timeout = 0 /\ state = 0 /\ sequence = 0 /\ acknowledgement = 0 /\ nextSend = 0
            /\ sending = 0 /\ beatDeadline = 0 /\ beatWire = 0 /\ missed = 0 /\ silent = 0 /\ engineDead = 0
            /\ sends = 0
closeRest == closeClosed = 0 /\ cpc = 0 /\ dials = 0 /\ sweep = 0 /\ ended = 0 /\ cancelled = 0 /\ transport = 0
             /\ mode = 0 /\ closePc = 0 /\ closeConn = 0 /\ intr = 0 /\ failed = 0 /\ api = 0 /\ owned = 0
quicRest == quicConn = 0 /\ gen = 0 /\ connecting = 0 /\ live = 0 /\ quicOwned = 0 /\ dropping = 0
            /\ flights = 0 /\ origin = 0 /\ born = 0 /\ quicPc = 0 /\ attempt = 0 /\ seen = 0 /\ mine = 0
            /\ flight = 0 /\ wants = 0 /\ quicCancelled = 0 /\ aborted = 0 /\ chan = 0 /\ by = 0 /\ running = 0
            /\ reader = 0 /\ readDone = 0 /\ quicCpc = 0 /\ took = 0
autoRest == generation = 0 /\ selected = 0 /\ selecting = 0 /\ cleanup = 0 /\ autoPc = 0 /\ autoSeen = 0
            /\ waitsFor = 0 /\ autoEnded = 0 /\ cancel = 0 /\ autoAttempt = 0 /\ autoConn = 0 /\ winner = 0
            /\ done = 0 /\ cleaner = 0 /\ autoCpc = 0 /\ autoTook = 0
raceRest == racePc = 0 /\ raceEnded = 0 /\ stopped = 0 /\ next = 0 /\ raceAttempt = 0 /\ raceConn = 0
            /\ timer = 0 /\ won = 0 /\ raceResult = 0
apiRest == setup = 0 /\ kind = 0 /\ call = 0 /\ cache = 0 /\ apiFlight = 0 /\ pool = 0 /\ useTCP = 0
           /\ apiClosed = 0 /\ home = 0 /\ ran = 0 /\ stream = 0
turnRest == given = 0 /\ env = 0 /\ opts = 0 /\ turnPc = 0 /\ turnCtx = 0 /\ out = 0 /\ issued = 0
            /\ failure = 0
doctorRest == doctorS = 0 /\ doctorPc = 0 /\ doctorCtx = 0 /\ report = 0 /\ twice = 0 /\ ready = 0 /\ probe = 0
              /\ held = 0 /\ doctorMode = 0 /\ looked = 0 /\ late = 0
signerRest == storage = 0 /\ provider = 0 /\ cert = 0 /\ now = 0 /\ identity = 0 /\ loading = 0 /\ gate = 0
              /\ signerCall = 0 /\ helper = 0

Loads == [writer |-> {"all"}, heartbeat |-> {"all"}, drain |-> {"all"}, close |-> {"calls", "api"}, quic |-> {"dials", "channels", "close"},
          auto |-> {"all"}, race |-> {"all"}, api |-> {"one", "two"}, turn |-> {"all"}, doctor |-> {"all"}, signer |-> {"one", "two"}]

SignerInit ==
  /\ S!Init
  /\ IF load = "one" THEN signerCall["b"].op = "old"
     ELSE /\ S!Accepted(storage) /\ cert = [key |-> "rsa", usage |-> TRUE] /\ now = "valid"
          /\ signerCall["a"].op = "handshake" /\ signerCall["b"].op # "old"

APIInit ==
  /\ E!Init /\ kind["a"].project = "p"
  /\ IF load = "one" THEN kind["b"] = Ask("write", "q")
     ELSE setup = PlainSetup /\ kind["a"].op = "read" /\ kind["b"] \in {Ask("read", "p"), Ask("write", "p"), Ask("write", "q")}

(* What a load leaves out; another load of its part has it.                *)
QUICWithin ==
  /\ quicCancelled \subseteq IF load # "close" /\ wants[d2] = o1 THEN {d1} ELSE {}
  /\ load = "dials" => \A x \in {d1, d2} : chan[x] = "none"
  /\ load = "channels" => wants[d2] = o1 /\ quicCpc[k1] = "idle"
  /\ load = "close" => wants[d2] = o1 /\ chan[d1] = "none"

ClientInit ==
  /\ part \in DOMAIN Loads /\ load \in Loads[part]
  /\ Init /\ W!Init
  /\ IF part = "heartbeat" THEN H!Init ELSE beatRest
  /\ IF part = "close" THEN C!Init /\ (transport.owned <=> load = "api") /\ (transport.made => (transport.quic <=> load = "calls")) ELSE closeRest
  /\ IF part = "quic" THEN Q!Init /\ QUICWithin ELSE quicRest
  /\ IF part = "auto" THEN A!Init ELSE autoRest
  /\ IF part = "race" THEN R!Init ELSE raceRest
  /\ IF part = "api" THEN APIInit ELSE apiRest
  /\ IF part = "turn" THEN T!Init ELSE turnRest
  /\ IF part = "doctor" THEN D!Init /\ Cardinality({f \in DOMAIN doctorS : doctorS[f] # UsualSetting[f]}) <= 1 ELSE doctorRest
  /\ IF part = "signer" THEN SignerInit ELSE signerRest

CloseWithin ==
  IF load = "calls" THEN cancelled \in {{}, {c1}, {c2}} /\ \A x \in {r1, r2, r3} : owned[x].pc = "idle"
  ELSE cancelled \subseteq {r1} /\ \A x \in {c1, c2} : closePc[x] = "idle"
APIWithin ==
  IF load = "one" THEN call["b"].pc = "idle"
  ELSE apiClosed \in {"no", "cancelled"} /\ call["a"].ctx = "live"

SignerWithin ==
  IF load = "one" THEN signerCall["b"].pc = "idle" /\ signerCall["b"].ctx = "live"
  ELSE /\ now = "valid" /\ signerCall["b"].ctx = "live" /\ ~helper["b"].child
       /\ \A c \in {"a", "b"} :
            /\ ~helper[c].over
            /\ \/ helper[c].answer \in {None, S!Response("enrolled", GoodOffer, None)}
               \/ signerCall[c].request.operation = "sign" /\ helper[c].answer = S!Response(None, <<>>, S!Honest(c))

ClientNext ==
  /\ UNCHANGED <<part, load>>
  /\ IF part = "writer" THEN W!Next ELSE UNCHANGED writerVars
  /\ IF part = "heartbeat" THEN H!Next ELSE UNCHANGED beatVars
  /\ IF part = "drain" THEN Next ELSE UNCHANGED vars
  /\ IF part = "close" THEN C!Next /\ CloseWithin' ELSE UNCHANGED closeVars
  /\ IF part = "quic" THEN Q!Next /\ QUICWithin' ELSE UNCHANGED quicVars
  /\ IF part = "auto" THEN A!Next /\ autoEnded' \subseteq {d1} ELSE UNCHANGED autoVars
  /\ IF part = "race" THEN R!Next ELSE UNCHANGED raceVars
  /\ IF part = "api"
     THEN E!Next /\ APIWithin' /\ (load = "two" => \A x \in DOMAIN pool : pool[x].tcp => pool'[x].tcp)
     ELSE UNCHANGED apiVars
  /\ IF part = "turn" THEN T!Next ELSE UNCHANGED turnVars
  /\ IF part = "doctor" THEN D!Next ELSE UNCHANGED doctorVars
  /\ IF part = "signer" THEN S!Next /\ SignerWithin' ELSE UNCHANGED signerVars

clientVars == <<part, load, vars, writerVars, beatVars, closeVars, quicVars, autoVars, raceVars, apiVars, turnVars, doctorVars, signerVars>>

(* Some goroutine of the component goes on while one can.                  *)
ClientFairness ==
  /\ WF_vars(part = "drain" /\ Runs)
  /\ WF_writerVars(part = "writer" /\ W!Runs)
  /\ WF_closeVars(part = "close" /\ UNCHANGED load /\ C!Runs /\ CloseWithin')
  /\ WF_quicVars(part = "quic" /\ Q!Runs)
  /\ WF_autoVars(part = "auto" /\ A!Runs)
  /\ WF_raceVars(part = "race" /\ R!Runs)
  /\ WF_apiVars(part = "api" /\ load = "one" /\ UNCHANGED load /\ E!Runs /\ APIWithin')
  /\ WF_doctorVars(part = "doctor" /\ D!Runs)
  /\ WF_signerVars(part = "signer" /\ UNCHANGED load /\ S!Runs /\ SignerWithin')

ClientSpec == ClientInit /\ [][ClientNext]_clientVars /\ ClientFairness

(* No call of writePbMessageContext is interrupted by another call's       *)
(* context; a live engine within its grace keeps the channel, a silent one *)
(* loses it in time.                                                       *)
LinkInv == W!WriterInv /\ (part = "heartbeat" => H!HeartbeatInv)

(* writePbMessageContext implements the frame log.                         *)
WritesFrames == W!WritesFrames

(* Close leaves no dial, connection or goroutine of the client behind.     *)
ClientInv == part = "close" => C!ClientInv

(* The shared QUIC connection is of the current generation, no connection  *)
(* leaks and no channel is deaf; the pinned connection is open and the     *)
(* losers are closed; at most two attempts at once, every loser joined and *)
(* every route tried before the race fails; a signing helper is gone when  *)
(* its handshake goes on.                                                  *)
TransportsInv == /\ part = "quic" => Q!QUICInv
                 /\ part = "auto" => A!AutoInv
                 /\ part = "race" => R!RaceInv
                 /\ part = "signer" => S!TypeOK /\ S!SignerInv

(* The calls of the Engine's API run their mutation once, at their own     *)
(* project's address; TURN credentials come from the source the program    *)
(* chose; a diagnosis holds nothing when it is done.                       *)
EngineInv == /\ part = "api" => E!TypeOK /\ E!APIInv
             /\ part = "turn" => T!TypeOK /\ T!TURNInv
             /\ part = "doctor" => D!TypeOK /\ D!DoctorInv

(* A cancelled write returns; a proxy transport that was detached or       *)
(* closed is closed once its last reference is gone; calls, dials and      *)
(* races whose context ended return, and so does Close; a call of the API  *)
(* and a diagnosis end, and so does the wait for a signing helper.         *)
ClientEnds ==
  <>[](/\ W!Settled /\ DrainedIsClosed
       /\ part = "close" => C!AllReturned
       /\ part = "quic" => Q!AllReturned
       /\ part = "auto" => A!AllReturned
       /\ part = "race" => R!AllReturned
       /\ part = "api" /\ load = "one" => E!Settled("a")
       /\ part = "doctor" => D!Settled
       /\ part = "signer" => IF load = "one" THEN S!SettledCall("a") ELSE \A c \in {"a", "b"} : S!SettledCall(c))
=============================================================================
