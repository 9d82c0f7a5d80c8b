--------------------------- MODULE WebTTYHandshake ---------------------------
(* The authentication and encryption of a WebTTY session: the server's     *)
(* signed hello, the client's check of it, the open message with its       *)
(* session key grant and client proof, the server's verdict, and the       *)
(* payloads of the streams. Digests and signatures are symbolic: a         *)
(* signature is its key and the transcript. Several sessions of one server *)
(* and one user run at once; the relay may hand a message of one of them   *)
(* to another. Time is counted in half seconds.                            *)
EXTENDS Integers, FiniteSets

CONSTANTS
  Sessions,
  Skews,      \* the server's clock minus the client's
  Delays      \* from the making of a proof to its verification

Suites == {"x25519", "p256"}
Streams == {"stdin", "stdout", "stderr"}
None == "none"
Nothing == [nothing |-> TRUE]
webTTYProofTTL == 60
Leeway == 10

\* What the operators of the two sides decide, and what their builds allow.
Setup ==
  [server : {"standard", "fips"}, client : {"standard", "fips"}, transport : {"websocket", "webtransport"},
   identity : Suites \cup {None}, resolver : BOOLEAN, requireGrant : BOOLEAN, requireProof : BOOLEAN,
   padded : BOOLEAN, expected : {None, "server", "other"}, clientKey : {None, "known", "stranger"},
   recipients : SUBSET {"server", "device"}, device : Suites]

VARIABLES
  setup, skew,
  hello,      \* the server's first message in each session
  open,       \* the client's open message
  verdict,    \* the server's answer: which open it took, when, and the payload key
  sealed,     \* the encrypted payloads sent
  taken       \* history: the encrypted payloads accepted, and where

vars == <<setup, skew, hello, open, verdict, sealed, taken>>

Waiting == [state |-> "waiting"]

TypeOK ==
  /\ setup \in Setup /\ skew \in Skews
  /\ \A s \in Sessions : /\ hello[s].state \in {"waiting", "refused", "silent", "sent"}
                         /\ open[s].state \in {"waiting", "failed", "sent"}
                         /\ verdict[s].state \in {"waiting", "accepted", "rejected"}

Init ==
  /\ setup \in Setup /\ skew \in Skews
  /\ hello = [s \in Sessions |-> Waiting] /\ open = [s \in Sessions |-> Waiting]
  /\ verdict = [s \in Sessions |-> Waiting] /\ sealed = {} /\ taken = {}

----------------------------------------------------------------------------
(* Suites and profiles. *)

\* validateProfileKeyEnvelopeSuite and validateSupportedKeyEnvelopeSuite.
Allowed(profile) == IF profile = "fips" THEN {"p256"} ELSE Suites

\* e2ePayloadSuiteForKeyEnvelopeSuite.
PayloadSuite(suite) == IF suite = "p256" THEN "aes256gcm_random_nonce" ELSE "aes256gcm"

\* validateE2ESuites.
SuitesMatch(profile, grant) == grant.suite \in Allowed(profile) /\ grant.payloadSuite = PayloadSuite(grant.suite)

\* Public, and E2EKeyID and WebTTYSigningKeyID of its keys: an id stands for its key.
Identity(name, suite) == [signing |-> <<name, "signing">>, encryption |-> <<name, "encryption">>, suite |-> suite]

\* CanonicalBytes: every string of a transcript is trimmed.
Trim(scope) == [id |-> scope.id, padded |-> FALSE]

\* CanonicalBytes, of the strings as they are.
RawBytes(t) == t

CanonicalBytes(t) == [t EXCEPT !.scope = Trim(t.scope)]

\* The workspace, project and server ids as the server's configuration writes them.
Scope == [id |-> "server", padded |-> setup.padded]

\* webTTYAuthRequirement.
AuthRequirement == IF setup.requireProof THEN "client_proof" ELSE None

----------------------------------------------------------------------------
(* The server's hello. *)

\* validateFIPSWebTTYServerConfig: everything of E2E or nothing of it.
FIPSServerConfig ==
  \/ setup.identity = None /\ ~setup.resolver /\ ~setup.requireGrant /\ ~setup.requireProof
  \/ setup.identity \in Allowed("fips") /\ setup.resolver /\ setup.requireGrant /\ setup.requireProof

\* validateE2EConfig.
ServerConfig ==
  /\ setup.server = "fips" => setup.transport = "webtransport" /\ FIPSServerConfig
  /\ setup.resolver => setup.identity # None /\ setup.requireProof

ServerTranscript(s) ==
  [of |-> "server", transport |-> setup.transport, scope |-> Scope, session |-> s, nonce |-> s,
   identity |-> Identity("server", setup.identity), auth |-> AuthRequirement,
   payloadSuites |-> {PayloadSuite(setup.identity)}, suites |-> {setup.identity}]

sendServerHelloIfConfigured(s) ==
  IF setup.identity = None THEN [state |-> "silent"]
  ELSE [state |-> "sent", scope |-> Trim(Scope), session |-> s, nonce |-> s,
        identity |-> Identity("server", setup.identity), auth |-> AuthRequirement,
        payloadSuites |-> {PayloadSuite(setup.identity)}, suites |-> {setup.identity},
        proof |-> [key |-> <<"server", "signing">>, on |-> CanonicalBytes(ServerTranscript(s))]]

Hello(s) ==
  /\ hello[s] = Waiting
  /\ hello' = [hello EXCEPT ![s] = IF ServerConfig THEN sendServerHelloIfConfigured(s) ELSE [state |-> "refused"]]
  /\ UNCHANGED <<setup, skew, open, verdict, sealed, taken>>

----------------------------------------------------------------------------
(* The client's check and its open message. *)

\* The identity the client expects; the suite is declared or inferred from the public key.
Expected == Identity(setup.expected, IF setup.expected = "server" THEN setup.identity ELSE "x25519")

\* validateWebTTYServerHelloCrypto.
HelloCrypto(h) ==
  /\ h.identity.suite \in Allowed(setup.client)
  /\ h.payloadSuites = {PayloadSuite(h.identity.suite)} /\ h.suites = {h.identity.suite}

\* The transcript the client rebuilds from the hello it reads.
HelloTranscript(h) ==
  [of |-> "server", transport |-> setup.transport, scope |-> h.scope, session |-> h.session, nonce |-> h.nonce,
   identity |-> h.identity, auth |-> h.auth, payloadSuites |-> h.payloadSuites, suites |-> h.suites]

verifyServerHello(h) ==
  /\ h.state = "sent" /\ HelloCrypto(h) /\ h.identity = Expected
  /\ h.proof = [key |-> h.identity.signing, on |-> CanonicalBytes(HelloTranscript(h))]

\* Recipients of the payload key, with the suites of their public keys.
RecipientSuite(r) == IF r = "server" THEN IF setup.identity = None THEN "x25519" ELSE setup.identity ELSE setup.device

\* inferE2ERecipientSuite and newE2EClientPayloadCipher: one suite for all recipients.
PayloadCrypto ==
  LET suites == {RecipientSuite(r) : r \in setup.recipients}
  IN  Cardinality(suites) = 1 /\ suites \subseteq Allowed(setup.client)

\* implicitE2EKeyContextFromRecipients.
KeyContext == [scope |-> "server", recipients |-> setup.recipients]

\* wrapE2EPayloadKey: one envelope per recipient, bound to the grant's own parameters.
SessionKeyGrant(s) ==
  LET suite == CHOOSE x \in {RecipientSuite(r) : r \in setup.recipients} : TRUE
  IN  [suite |-> suite, payloadSuite |-> PayloadSuite(suite), keyId |-> s, context |-> KeyContext,
       envelopes |-> [r \in setup.recipients |-> [key |-> <<"payload", s>>, keyId |-> s, context |-> KeyContext]]]

Grant(s) == IF setup.recipients = {} THEN Nothing ELSE SessionKeyGrant(s)

\* validateFIPSWebTTYClientConfig.
ClientConfig ==
  /\ setup.recipients # {} => PayloadCrypto
  /\ setup.client = "fips" =>
       /\ setup.transport = "webtransport"
       /\ (setup.recipients # {} \/ setup.clientKey # None \/ setup.expected # None) =>
            setup.recipients # {} /\ setup.clientKey # None /\ setup.expected # None

\* ClientProofTranscript as the two sides fill it in.
ClientTranscript(scope, s, nonce, identity, grant, config, key, issuedAt) ==
  [of |-> "client", transport |-> setup.transport, scope |-> scope, session |-> s, nonce |-> nonce,
   server |-> identity, suite |-> IF grant = Nothing THEN identity.suite ELSE grant.suite,
   grant |-> grant, config |-> config, key |-> key, issuedAt |-> issuedAt, expiresAt |-> issuedAt + webTTYProofTTL]

\* buildOpenMessage: the command differs from session to session.
Config(s) == <<"command", s>>

\* clientProofForOpen: made at time t, in whole seconds; nothing when not asked for.
clientProofForOpen(s, h, t) ==
  IF h = Nothing \/ h.auth = None THEN Nothing
  ELSE LET issuedAt == t - (t % 2)
           key == <<setup.clientKey, "signing">>
           transcript == ClientTranscript(h.scope, h.session, h.nonce, h.identity, Grant(s), Config(s), key, issuedAt)
       IN  [key |-> key, issuedAt |-> issuedAt, expiresAt |-> issuedAt + webTTYProofTTL,
            on |-> CanonicalBytes(transcript)]

\* The client of session s reads the hello its connection carries, which the
\* relay may have taken from session h, and opens. Without an expected identity it does
\* not wait for one.
Open(s, from, t) ==
  /\ open[s] = Waiting
  /\ setup.expected # None => hello[from] # Waiting
  /\ LET h == IF setup.expected = None THEN Nothing ELSE hello[from]
         works == /\ ClientConfig
                  /\ h # Nothing => verifyServerHello(h)
                  /\ h # Nothing /\ h.auth # None => setup.clientKey # None
     IN  open' = [open EXCEPT ![s] =
                    IF ~works THEN [state |-> "failed"]
                    ELSE [state |-> "sent", config |-> Config(s), grant |-> Grant(s), time |-> t,
                          heard |-> IF h = Nothing THEN None ELSE from, proof |-> clientProofForOpen(s, h, t)]]
  /\ UNCHANGED <<setup, skew, hello, verdict, sealed, taken>>

----------------------------------------------------------------------------
(* The server's verdict. *)

\* validateClientProofTimeWindow.
InWindow(proof, now) ==
  /\ proof.expiresAt >= now /\ proof.issuedAt <= now + Leeway
  /\ proof.expiresAt - proof.issuedAt <= webTTYProofTTL

\* webTTYProofSuites.
ProofSuites(o) == o.grant = Nothing \/ SuitesMatch(setup.server, o.grant)

verifyClientProof(s, o, now) ==
  \/ ~setup.requireProof
  \/ /\ o.proof # Nothing /\ setup.identity # None /\ ProofSuites(o) /\ InWindow(o.proof, now)
     /\ o.proof.on = CanonicalBytes(ClientTranscript(Scope, s, s, Identity("server", setup.identity), o.grant, o.config,
                                                     o.proof.key, o.proof.issuedAt))
     /\ o.proof.key = <<"known", "signing">>

\* newE2EServerPayloadCipher: the envelope of this identity opens under the parameters it was sealed with.
Unwraps(g) ==
  /\ SuitesMatch(setup.server, g) /\ g.suite = setup.identity /\ "server" \in DOMAIN g.envelopes
  /\ g.envelopes["server"].keyId = g.keyId /\ g.envelopes["server"].context = g.context

\* prepareOpen up to the process: the proof, then the grant.
prepareOpen(s, o, now) ==
  /\ verifyClientProof(s, o, now)
  /\ o.grant = Nothing => ~setup.requireGrant
  /\ o.grant # Nothing => setup.resolver /\ Unwraps(o.grant)

\* The open of session o arrives at session s.
HandleOpen(s, o, d) ==
  /\ hello[s].state \in {"silent", "sent"} /\ verdict[s] = Waiting /\ open[o].state = "sent"
  /\ LET m == open[o]
         now == m.time + d + skew
     IN  verdict' = [verdict EXCEPT ![s] =
           IF ~prepareOpen(s, m, now) THEN [state |-> "rejected", from |-> o, now |-> now]
           ELSE [state |-> "accepted", from |-> o, now |-> now, grant |-> m.grant]]
  /\ UNCHANGED <<setup, skew, hello, open, sealed, taken>>

----------------------------------------------------------------------------
(* Payloads. *)

\* encryptFunc: sealed under the payload key for one stream, with the grant's parameters attached.
Payload(s, stream, grant) == [of |-> s, stream |-> stream, key |-> <<"payload", grant.keyId>>, keyId |-> grant.keyId,
                              context |-> grant.context, suite |-> grant.payloadSuite]

Encrypts(s, stream) ==
  IF stream = "stdin" THEN open[s].state = "sent" /\ open[s].grant # Nothing
  ELSE verdict[s].state = "accepted" /\ verdict[s].grant # Nothing

GrantOf(s, stream) == IF stream = "stdin" THEN open[s].grant ELSE verdict[s].grant

\* stdinDataMessage of the client, dataMessage of the server.
Seal(s, stream) ==
  /\ Encrypts(s, stream) /\ sealed' = sealed \cup {Payload(s, stream, GrantOf(s, stream))}
  /\ UNCHANGED <<setup, skew, hello, open, verdict, taken>>

\* decryptFunc and validatePayloadEnvelope.
Opens(p, stream, grant) ==
  /\ p.suite = grant.payloadSuite /\ p.keyId = grant.keyId /\ p.context = grant.context
  /\ p.key = <<"payload", grant.keyId>> /\ p.stream = stream

\* The side that holds a stream's other end: the server reads stdin, the client the rest.
Decrypts(s, stream) == IF stream = "stdin" THEN Encrypts(s, "stdout") ELSE Encrypts(s, "stdin")

GrantAt(s, stream) == IF stream = "stdin" THEN verdict[s].grant ELSE open[s].grant

\* A payload arrives at session s as data of the given stream.
Take(s, stream, p) ==
  /\ Decrypts(s, stream) /\ p \in sealed /\ Opens(p, stream, GrantAt(s, stream))
  /\ taken' = taken \cup {<<s, stream, p>>}
  /\ UNCHANGED <<setup, skew, hello, open, verdict, sealed>>

Next ==
  \E s \in Sessions :
    \/ Hello(s)
    \/ \E from \in Sessions, t \in {0, 1} : Open(s, from, t)
    \/ \E o \in Sessions, d \in Delays : HandleOpen(s, o, d)
    \/ \E stream \in Streams : Seal(s, stream)
    \/ \E stream \in Streams, p \in sealed : Take(s, stream, p)

Spec == Init /\ [][Next]_vars

----------------------------------------------------------------------------
(* Properties. *)

\* A server that requires client proofs opens a session only for an open message
\* made for this very session: by the authorized key, after the hello of this
\* session, for the command and the grant the server reads, no longer ago than
\* the proof lives and no further ahead than the leeway (verifyClientProof).
AcceptsItsOwn ==
  \A s \in Sessions :
    (verdict[s].state = "accepted" /\ setup.requireProof) =>
      LET o == open[verdict[s].from]
      IN  /\ setup.clientKey = "known" /\ setup.expected = "server" /\ o.heard = s
          /\ verdict[s].now - o.time \in (-Leeway - 1)..webTTYProofTTL

\* The two sides agree: a client trusts the hello of the server it expects, and an open
\* that reaches its own session in time, between sides configured for each other, is not
\* rejected, whatever their builds and however the ids are padded (CanonicalBytes, e2ePayloadSuiteForKeyEnvelopeSuite).
Configured ==
  /\ ServerConfig /\ ClientConfig
  /\ setup.requireProof => setup.clientKey = "known" /\ setup.expected = "server"
  /\ setup.requireGrant \/ setup.recipients # {} => setup.resolver /\ "server" \in setup.recipients
  /\ setup.recipients # {} => {setup.identity} \subseteq Allowed(setup.server)

OnTime(s) == verdict[s].now - open[s].time \in -Leeway..(webTTYProofTTL - 1)

Trusts ==
  /\ ServerConfig /\ ClientConfig
  /\ setup.expected = "server" /\ setup.identity \in Allowed(setup.client)
  /\ setup.requireProof => setup.clientKey # None

AgreeInTime ==
  \A s \in Sessions :
    /\ open[s].state = "failed" => ~Trusts
    /\ (verdict[s].state = "rejected" /\ verdict[s].from = s /\ open[s].heard \in {None, s}) => ~(Configured /\ OnTime(s))

\* An encrypted payload is read only as the stream it was sealed for, by the other
\* side of the session whose key sealed it (e2ePayloadAAD, validatePayloadEnvelope).
PayloadsInPlace ==
  \A x \in taken :
    /\ x[2] = x[3].stream
    /\ LET from == verdict[IF x[2] = "stdin" THEN x[1] ELSE x[3].of].from
           sealer == IF x[2] = "stdin" THEN x[3].of ELSE x[1]
       IN  from = sealer

HandshakeInv == AcceptsItsOwn /\ AgreeInTime /\ PayloadsInPlace
=============================================================================
