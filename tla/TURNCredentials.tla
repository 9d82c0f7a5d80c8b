--------------------------- MODULE TURNCredentials ---------------------------
(***************************************************************************)
(* How a TURN credential is obtained (turn.go, turn_client.go, turn_app.go,*)
(* config/turn.go): derived locally from a personal access token or an     *)
(* application key, or issued by the Control plane or by the Engine, with  *)
(* the fall back from one to the other. The options come from a program or *)
(* from a configuration (config.CreateTURNCredentialsFromEnv).             *)
(***************************************************************************)
EXTENDS Integers

CONSTANTS Options,  \* the options a program passes
          Envs      \* the configurations options are completed from

Nil == ""
Modes == {"auto", "api", "engine", "pat", "app"}
\* A token: what parseTURNTokenClaims finds in it. exp is its remaining life in seconds, -1 when absent.
Token == [type : {Nil, "opaque", "conflict", "pat", "app"}, ref : BOOLEAN, allocate : BOOLEAN, exp : Int]
NoToken == [type |-> Nil, ref |-> FALSE, allocate |-> FALSE, exp |-> -1]
\* endpoint, domain and realm name where a value comes from, Nil when it is absent.
Option == [client : BOOLEAN, cert : BOOLEAN, token : Token, key : {Nil, "p256", "p521"}, mode : Modes, api : BOOLEAN,
           id : BOOLEAN, endpoint : {Nil, "mine", "other"}, domain : {Nil, "opt", "ctx", "engine"},
           realm : {Nil, "opt", "ctx"}, ttl : Int, serverKey : {Nil, "p256", "p521"}]
Env == [used : BOOLEAN, endpoint : {Nil, "mine"}, domain : BOOLEAN, realm : BOOLEAN, engine : {Nil, "mine", "elsewhere"}]

defaultTTL == 600
maxTTL == 3600

VARIABLES given,    \* the options passed in, and the configuration
          env,
          opts,     \* the options in force
          pc,       \* "start", "select", "keyring", "api", "engine", "done"
          ctx,      \* "live" or "ended"
          out,      \* [by, ttl]: who made the credential, "error" if nobody
          issued,   \* the issuers that executed a request
          failure   \* how the Control plane failed
vars == <<given, env, opts, pc, ctx, out, issued, failure>>

NoOut == [by |-> Nil, ttl |-> 0]
Failed == [by |-> "error", ttl |-> 0]

TypeOK ==
  /\ pc \in {"start", "select", "keyring", "api", "engine", "done"} /\ ctx \in {"live", "ended"}
  /\ out.by \in {Nil, "error", "pat", "app", "api", "engine"} /\ out.ttl \in 0 .. maxTTL
  /\ issued \subseteq {"api", "engine"} /\ failure \in {Nil, "unavailable", "network", "denied", "invalid"}

Init == /\ given \in Options /\ env \in Envs /\ opts = given /\ pc = "start" /\ ctx = "live"
        /\ out = NoOut /\ issued = {} /\ failure = Nil

validateTURNTTL(ttl) == ttl = 0 \/ ttl \in 1 .. 3600
normalizeTURNCredentialTTL(ttl) == IF ttl <= 0 THEN defaultTTL ELSE IF ttl > maxTTL THEN maxTTL ELSE ttl
normalizePATTURNCredentialTTL(ttl, exp) == LET t == normalizeTURNCredentialTTL(ttl) IN IF exp < t THEN exp ELSE t
hasTURNAppCredentials(o) == o.key # Nil
turnLocalTargetAvailable(o) == o.endpoint # Nil /\ o.domain # Nil /\ o.realm # Nil

\* What the claims of a token say: "pat" when a relay credential can be derived from it.
resolveTURNCredentialMode(o) ==
  LET t == o.token IN
  IF o.mode = "api" THEN "api"
  ELSE IF o.mode = "pat" THEN (IF t.type = "pat" /\ t.ref THEN "pat" ELSE "error")
  ELSE IF o.mode # "auto" THEN "error"
  ELSE IF t.type = "conflict" THEN "error"
  ELSE IF t.type = "pat" /\ t.ref /\ t.exp # -1 /\ t.allocate THEN "pat" ELSE "api"

\* createPATTURNCredentials: local, from a token that has not expired.
createPATTURNCredentials(o) ==
  IF turnLocalTargetAvailable(o) /\ o.token.exp > 0
  THEN [by |-> "pat", ttl |-> normalizePATTURNCredentialTTL(o.ttl, o.token.exp)] ELSE Failed

\* deriveAPPTURNCredentials: local, once the key of the server is known and on the same curve.
deriveAPPTURNCredentials(o, server) ==
  IF server = o.key THEN [by |-> "app", ttl |-> normalizeTURNCredentialTTL(o.ttl)] ELSE Failed

\* The token createTURNAppToken signs with a P-521 key.
AppToken == [type |-> "app", ref |-> FALSE, allocate |-> FALSE, exp |-> 60]

\* clusterDomainFromEngine: the host of the engine without the project's name.
clusterDomainFromEngine(endpoint, engine) == IF endpoint # Nil /\ engine = endpoint THEN "engine" ELSE Nil

\* config.CreateTURNCredentialsFromEnv: a context completes the options for its own project only,
\* and a client is made when an engine is known and the mode may need it.
FromEnv(o, e) ==
  LET endpoint == IF o.endpoint # Nil THEN o.endpoint ELSE e.endpoint
      own == endpoint # Nil /\ endpoint = e.endpoint
      domain == IF o.domain # Nil THEN o.domain ELSE IF own /\ e.domain THEN "ctx" ELSE clusterDomainFromEngine(endpoint, e.engine)
      realm == IF o.realm # Nil THEN o.realm ELSE IF own /\ e.realm THEN "ctx" ELSE Nil
  IN  [o EXCEPT !.endpoint = endpoint, !.domain = domain, !.realm = realm,
                !.client = o.client \/ (e.engine # Nil /\ o.mode \in {"auto", "engine"})]

Return(r) == pc' = "done" /\ out' = r
CreateTURNCredentialsFromEnv ==
  /\ pc = "start"
  /\ LET o == IF env.used THEN FromEnv(given, env) ELSE given
         unresolved == env.used /\ given.mode = "pat" /\ o.domain = Nil /\ o.endpoint # Nil /\ env.engine # Nil
     IN  /\ opts' = o
         /\ IF unresolved \/ (env.used /\ o.cert /\ ~o.client) \/ ~validateTURNTTL(o.ttl) THEN Return(Failed)
            ELSE pc' = "select" /\ UNCHANGED out
  /\ UNCHANGED <<given, env, ctx, issued, failure>>

\* The checks every caller meets: one identity, and not two.
Admitted(o) ==
  LET token == o.token # NoToken IN
  IF o.client THEN ~(hasTURNAppCredentials(o) /\ (o.cert \/ token)) /\ ~(o.cert /\ token) /\ (o.cert \/ token \/ hasTURNAppCredentials(o))
  ELSE ~(hasTURNAppCredentials(o) /\ token) /\ (token \/ hasTURNAppCredentials(o))

\* Client.CreateTURNCredentials once the identity is a token: which issuer is asked first.
WithToken(o) ==
  LET mode == resolveTURNCredentialMode(o) IN
  IF o.client /\ o.mode = "engine" THEN pc' = "engine" /\ UNCHANGED out
  ELSE IF o.client /\ o.cert THEN (IF o.mode = "auto" THEN pc' = "engine" /\ UNCHANGED out ELSE Return(Failed))
  ELSE IF mode = "error" THEN Return(Failed)
  ELSE IF mode = "pat" /\ (o.mode = "pat" \/ turnLocalTargetAvailable(o)) THEN Return(createPATTURNCredentials(o))
  ELSE IF o.client /\ o.mode = "auto" /\ ~o.api THEN pc' = "engine" /\ UNCHANGED out
  ELSE pc' = "api" /\ UNCHANGED out

\* Client.CreateTURNCredentials and CreateTURNCredentials: the local derivation, or the issuer to ask.
CreateTURNCredentials ==
  /\ pc = "select"
  /\ IF ~Admitted(opts) THEN Return(Failed) /\ UNCHANGED opts
     ELSE IF hasTURNAppCredentials(opts) /\ (opts.mode = "app" \/ (opts.mode = "auto" /\ turnLocalTargetAvailable(opts)))
          THEN /\ (IF turnLocalTargetAvailable(opts) THEN pc' = "keyring" /\ UNCHANGED out ELSE Return(Failed))
               /\ UNCHANGED opts
     ELSE IF hasTURNAppCredentials(opts)
          THEN IF opts.key # "p521" THEN Return(Failed) /\ UNCHANGED opts
               ELSE opts' = [opts EXCEPT !.token = AppToken, !.key = Nil] /\ WithToken([opts EXCEPT !.token = AppToken, !.key = Nil])
     ELSE WithToken(opts) /\ UNCHANGED opts
  /\ UNCHANGED <<given, env, ctx, issued, failure>>

\* loadTURNAppPublicKey: the key given, or the one of the realm's public keyring.
loadTURNAppPublicKey ==
  /\ pc = "keyring"
  /\ IF opts.serverKey # Nil THEN Return(deriveAPPTURNCredentials(opts, opts.serverKey))
     ELSE \/ Return(Failed)
          \/ ctx = "live" /\ \E k \in {"p256", "p521"} : Return(deriveAPPTURNCredentials(opts, k))
  /\ UNCHANGED <<given, env, opts, ctx, issued, failure>>

\* What a client makes of an issuer's answer, whatever life it names.
Answers == {0, 1, defaultTTL, maxTTL, maxTTL + 1}
validateTURNCredentials(by, ttl) == IF ttl \in 1 .. maxTTL THEN [by |-> by, ttl |-> ttl] ELSE Failed

\* turnEngineFallbackAllowed: only when the Control plane could not be reached or is unavailable.
turnEngineFallbackAllowed(f) == ctx = "live" /\ f \in {"unavailable", "network"}

\* createAPITURNCredentials, and in automatic mode of a client the fall back to its Engine.
createAPITURNCredentials ==
  /\ pc = "api"
  /\ IF ~opts.api \/ (~opts.id /\ opts.endpoint = Nil) THEN Return(Failed) /\ UNCHANGED <<issued, failure>>
     ELSE \/ ctx = "live" /\ issued' = issued \cup {"api"} /\ UNCHANGED failure
             /\ \E t \in Answers : Return(validateTURNCredentials("api", t))
          \/ \E f \in {"unavailable", "network", "denied", "invalid"}, ran \in BOOLEAN :
               /\ ran <=> f \in {"network", "invalid"} /\ ran
               /\ issued' = IF ran THEN issued \cup {"api"} ELSE issued
               /\ failure' = f
               /\ IF opts.client /\ opts.mode = "auto" /\ turnEngineFallbackAllowed(f) /\ opts.endpoint # Nil
                  THEN pc' = "engine" /\ UNCHANGED out ELSE Return(Failed)
  /\ UNCHANGED <<given, env, opts, ctx>>

\* createEngineTURNCredentials: the Engine of the client issues for its own project only.
createEngineTURNCredentials ==
  /\ pc = "engine"
  /\ IF opts.endpoint = "other" \/ (opts.id /\ opts.endpoint = Nil) THEN Return(Failed) /\ UNCHANGED issued
     ELSE \/ Return(Failed) /\ \E ran \in BOOLEAN : issued' = IF ran THEN issued \cup {"engine"} ELSE issued
          \/ ctx = "live" /\ issued' = issued \cup {"engine"} /\ (\E t \in Answers : Return(validateTURNCredentials("engine", t)))
  /\ UNCHANGED <<given, env, opts, ctx, failure>>

\* The caller cancels, or the ten seconds of the whole creation are over.
EndContext == /\ ctx = "live" /\ pc # "done" /\ ctx' = "ended"
              /\ UNCHANGED <<given, env, opts, pc, out, issued, failure>>

Next == \/ CreateTURNCredentialsFromEnv \/ CreateTURNCredentials \/ loadTURNAppPublicKey
        \/ createAPITURNCredentials \/ createEngineTURNCredentials \/ EndContext

Spec == Init /\ [][Next]_vars

(* An explicit mode is the only path taken: no other issuer is asked and none answers in its place. *)
ExplicitMode ==
  given.mode # "auto" =>
    /\ out.by \in {Nil, "error", given.mode}
    /\ issued \subseteq {given.mode}

(* The Engine is asked after the Control plane only when that was unavailable: never after a refusal, *)
(* an invalid answer or the end of the caller's patience, and with the options of the same project. *)
FallsBackRarely ==
  failure # Nil /\ (pc = "engine" \/ out.by = "engine") =>
    failure \in {"unavailable", "network"} /\ opts.client /\ opts.endpoint # Nil

(* A credential never outlives the longest life allowed; one derived here outlives neither the *)
(* request nor the token it comes from. *)
LifeBounded ==
  out.by \notin {Nil, "error"} =>
    /\ out.ttl \in 1 .. maxTTL
    /\ out.by \in {"pat", "app"} /\ opts.ttl > 0 => out.ttl <= opts.ttl
    /\ out.by = "pat" => out.ttl <= opts.token.exp

(* A device with everything prepared never needs the network, and one certificate or key never *)
(* travels with a token: what the context holds for one project is not used for another. *)
PreparedStaysLocal ==
  /\ pc \in {"api", "engine"} /\ opts.mode = "auto" /\ turnLocalTargetAvailable(opts) /\ ~opts.cert =>
       ~(opts.token.type = "pat" /\ opts.token.ref /\ opts.token.exp # -1 /\ opts.token.allocate)
  /\ out.by \in {"pat", "app"} => issued = {}
  /\ given.endpoint # Nil /\ given.endpoint # env.endpoint => opts.domain # "ctx" /\ opts.realm # "ctx"

TURNInv == ExplicitMode /\ FallsBackRarely /\ LifeBounded /\ PreparedStaysLocal
=============================================================================
