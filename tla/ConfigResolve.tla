--------------------------- MODULE ConfigResolve ---------------------------
(***************************************************************************)
(* From a config file, flags and the environment to what a command runs    *)
(* with: the API URL, the context, the engine, the region, the credential  *)
(* and the tunnel transport (config.Resolve and the resolve helpers of the *)
(* commands).  A credential is told apart by where it comes from, a        *)
(* transport by its mode and by one ordinary setting.                      *)
(***************************************************************************)
EXTENDS Naturals, FiniteSets

CONSTANTS Inputs,      \* the flags and environment variables tried
          Configs,     \* the config files tried
          Projects     \* what the control plane may answer for a project

Nil == ""
Missing == [missing |-> TRUE]
DefaultAPIURL == "rstream"

\* auth: token is "", "inline", "empty" (inline without a value), "expired",
\* "keychain", "lost" (a keychain reference without an item) or "bad" (an
\* unusable storage kind); mtls is "", "files", "storage" or "bad".
NoAuth == [token |-> "", mtls |-> ""]
Auths == [token : {"", "inline", "empty", "expired", "keychain", "lost", "bad"},
          mtls : {"", "files", "storage", "bad"}]
NoTransport == [mode |-> "", useQuic |-> "", dns |-> "", proxy |-> {}, proxyTLS |-> FALSE]

VARIABLES input, cfg, project, pc, resolved

vars == <<input, cfg, project, pc, resolved>>

First(values) ==
  LET set == {i \in DOMAIN values : values[i] # ""} IN
  IF set = {} THEN "" ELSE values[CHOOSE i \in set : \A j \in set : i <= j]

\* NormalizeAPIURL drops the trailing slashes.
NormalizeAPIURL(url) == IF url = "u/" THEN "u" ELSE url

(***************************************************************************)
(* Finding environments and contexts.                                      *)
(***************************************************************************)
FindEnvironment(c, api) ==
  LET set == {e \in c.envs : NormalizeAPIURL(e.api) = NormalizeAPIURL(api)} IN
  IF set = {} THEN Missing ELSE CHOOSE e \in set : TRUE

Matches(c, name) == {x \in c.contexts : x.name = name}
Linked(c, name, api) == {x \in Matches(c, name) : NormalizeAPIURL(x.api) = api}
Unlinked(c, name) == {x \in Matches(c, name) : x.api = ""}

\* The Find functions answer a context, nothing, or an error.
Found(set) == [ok |-> TRUE, ctx |-> CHOOSE x \in set : TRUE]
NotFound == [ok |-> TRUE, ctx |-> Missing]
Refused == [ok |-> FALSE, ctx |-> Missing]

FindContextByName(c, name) ==
  CASE Matches(c, name) = {} -> NotFound
    [] Cardinality(Matches(c, name)) > 1 -> Refused
    [] OTHER -> Found(Matches(c, name))

FindContextByNameAndAPIURL(c, name, api) ==
  CASE Matches(c, name) = {} -> NotFound
    [] Cardinality(Linked(c, name, api)) = 1 -> Found(Linked(c, name, api))
    [] OTHER -> Refused

\* mcp: the linked context, or the only one when it is not linked.
FindContextForAPIURL(c, name, api) ==
  CASE Matches(c, name) = {} -> NotFound
    [] Cardinality(Linked(c, name, api)) = 1 -> Found(Linked(c, name, api))
    [] /\ Linked(c, name, api) = {} /\ Cardinality(Matches(c, name)) = 1
       /\ Unlinked(c, name) # {} -> Found(Unlinked(c, name))
    [] OTHER -> Refused

FindContextUnlinked(c, name) ==
  CASE Matches(c, name) = {} -> NotFound
    [] Cardinality(Unlinked(c, name)) = 1 -> Found(Unlinked(c, name))
    [] OTHER -> Refused

(***************************************************************************)
(* Credentials.                                                            *)
(***************************************************************************)
\* TokenFromAuth: [ok, token], ok FALSE for an error.
TokenFromAuth(a) ==
  [ok |-> a.token \notin {"bad", "lost"},
   token |-> IF a.token \in {"inline", "expired", "keychain"} THEN a.token ELSE ""]

HasMTLS(a) == a.mtls # ""

\* A certificate and its key from files, a keychain, a PKCS#11 token or a
\* command: "bad" stands for a source that is ambiguous, incomplete or
\* unusable.
loadMTLSStorageConfig(a) == a.mtls = "storage"
MTLSConfigFromAuth(a) == a.mtls = "files" \/ loadMTLSStorageConfig(a)

\* A context with any credential hides the one of its environment.
selectedAuth(ctx, env) ==
  CASE ctx # Missing /\ ctx.auth # NoAuth -> ctx.auth
    [] env # Missing /\ (ctx = Missing \/ NormalizeAPIURL(ctx.api) = NormalizeAPIURL(env.api)) -> env.auth
    [] OTHER -> NoAuth

\* resolveToken asks the context first and the environment when it has none.
resolveToken(ctx, env) ==
  LET own == IF ctx = Missing THEN TokenFromAuth(NoAuth) ELSE TokenFromAuth(ctx.auth)
      shared == /\ env # Missing
                /\ ctx = Missing \/ NormalizeAPIURL(ctx.api) = NormalizeAPIURL(env.api)
  IN IF own.ok /\ own.token = "" /\ shared THEN TokenFromAuth(env.auth) ELSE own

\* engineOverrideUsesStoredToken: a stored credential would go to an engine
\* that its context does not name.
OverridesEngine(override, ctx) ==
  override # "" /\ (ctx = Missing \/ ctx.engine # override)

Secret(ok, token, mtls, stored) == [ok |-> ok, token |-> token, mtls |-> mtls, stored |-> stored]
NoSecret == Secret(FALSE, "", "", FALSE)

resolveAuthentication(in, ctx, env, override) ==
  LET explicit == First(<<in.flagToken, in.envToken>>)
      auth == IF in.mtlsFiles THEN [token |-> "", mtls |-> "files"] ELSE selectedAuth(ctx, env)
      wanted == in.resolveToken \/ in.requireToken
      only == resolveToken(ctx, env)
      own == TokenFromAuth(auth)
  IN CASE in.tokenOnly /\ explicit # "" -> Secret(TRUE, explicit, "", FALSE)
       [] in.tokenOnly /\ ~wanted -> Secret(TRUE, "", "", FALSE)
       [] in.tokenOnly ->
            IF only.ok /\ ~(only.token # "" /\ OverridesEngine(override, ctx))
            THEN Secret(TRUE, only.token, "", only.token # "") ELSE NoSecret
       [] HasMTLS(auth) /\ (explicit # "" \/ auth.token # "") -> NoSecret
       [] HasMTLS(auth) /\ ~in.mtlsFiles /\ OverridesEngine(override, ctx) -> NoSecret
       [] HasMTLS(auth) /\ ~MTLSConfigFromAuth(auth) -> NoSecret
       [] HasMTLS(auth) -> Secret(TRUE, "", auth.mtls, ~in.mtlsFiles)
       [] explicit # "" -> Secret(TRUE, explicit, "", FALSE)
       [] ~wanted -> Secret(TRUE, "", "", FALSE)
       [] ~own.ok \/ (own.token # "" /\ OverridesEngine(override, ctx)) -> NoSecret
       [] OTHER -> Secret(TRUE, own.token, "", own.token # "")

(***************************************************************************)
(* Transports.                                                             *)
(***************************************************************************)
\* MergeTransport, with each field on its own.
MergeFields(base, over) ==
  [mode |-> First(<<over.mode, base.mode>>), useQuic |-> First(<<over.useQuic, base.useQuic>>),
   dns |-> First(<<over.dns, base.dns>>), proxy |-> over.proxy \cup base.proxy, proxyTLS |-> over.proxyTLS \/ base.proxyTLS]

\* MergeTransport: what the override sets wins; naming a mode drops the
\* legacy QUIC switch of the base and the other way round.
MergeTransport(base, over) ==
  [mode |-> IF over.mode # "" THEN over.mode
            ELSE IF over.useQuic # "" THEN "" ELSE base.mode,
   useQuic |-> IF over.useQuic # "" THEN over.useQuic
               ELSE IF over.mode # "" THEN "" ELSE base.useQuic,
   dns |-> First(<<over.dns, base.dns>>),
   proxy |-> over.proxy \cup base.proxy,
   proxyTLS |-> over.proxyTLS \/ base.proxyTLS]

transportMode(t) ==
  CASE t.mode # "" -> t.mode
    [] t.useQuic = "yes" -> "quic"
    [] t.useQuic = "no" -> "tls"
    [] OTHER -> "auto"

\* FlattenTransportWithError refuses an unknown mode, and TLS settings without
\* an HTTP proxy; the automatic transport builds both of its halves.
FlattenTransport(t) ==
  [ok |-> transportMode(t) \in {"auto", "tls", "quic"} /\ (t.proxyTLS => t.proxy # {} /\ "socks" \notin t.proxy),
   dialers |-> IF transportMode(t) = "auto" THEN {"tls", "quic"} ELSE {transportMode(t)}]

\* A named transport beats the legacy switch, and both beat the file.
Transport(in, ctx, env) ==
  LET filed == CASE ctx = Missing -> NoTransport
                 [] env # Missing /\ ctx.api # "" /\ NormalizeAPIURL(ctx.api) = NormalizeAPIURL(env.api)
                      -> MergeTransport(env.transport, ctx.transport)
                 [] OTHER -> ctx.transport
      named == First(<<in.flagTransport, in.envTransport>>)
  IN CASE named # "" -> [filed EXCEPT !.mode = named, !.useQuic = ""]
       [] in.envUseQuic # "" -> [filed EXCEPT !.mode = "", !.useQuic = in.envUseQuic]
       [] OTHER -> filed

(***************************************************************************)
(* config.Resolve.                                                         *)
(***************************************************************************)
ContextFor(in, c, name, api) ==
  LET linked == FindContextByNameAndAPIURL(c, name, api) IN
  CASE name = "" -> NotFound
    [] api = "" -> FindContextByName(c, name)
    [] linked.ok /\ linked.ctx = Missing -> FindContextUnlinked(c, name)
    [] OTHER -> linked

ContextName(in, c) ==
  First(<<in.flagContext, in.envContext, IF in.ignoreDefault THEN "" ELSE c.default>>)

Failed == [ok |-> FALSE]

Resolve(in, c) ==
  LET asked == NormalizeAPIURL(First(<<in.flagApi, in.envApi>>))
      name == ContextName(in, c)
      found == ContextFor(in, c, name, asked)
      ctx == found.ctx
      api == First(<<asked, IF ctx = Missing THEN "" ELSE NormalizeAPIURL(ctx.api), DefaultAPIURL>>)
      env == IF ctx # Missing /\ ctx.api = "" THEN Missing ELSE FindEnvironment(c, api)
      override == First(<<in.flagEngine, in.envEngine>>)
      engine == First(<<override, IF ctx = Missing THEN "" ELSE ctx.engine>>)
      region == First(<<in.flagRegion, in.envRegion, IF ctx = Missing THEN "" ELSE ctx.region>>)
      auth == resolveAuthentication(in, ctx, env, override)
      transport == Transport(in, ctx, env)
  IN IF /\ found.ok /\ (name # "" => ctx # Missing)
        /\ region # "" => override = "" /\ ctx # Missing /\ ctx.project # ""
        /\ auth.ok /\ auth.token # "expired"
        /\ in.requireEngine => engine # "" \/ region # ""
        /\ in.requireToken => auth.token # "" \/ auth.mtls # ""
        /\ FlattenTransport(transport).ok
     THEN [ok |-> TRUE, api |-> api, ctx |-> ctx, env |-> env, engine |-> engine,
           stable |-> engine, region |-> region, auth |-> auth,
           mode |-> transportMode(transport), transport |-> transport]
     ELSE Failed

(***************************************************************************)
(* The commands: resolve, then look the region up when one is selected.    *)
(***************************************************************************)
Init ==
  /\ input \in Inputs /\ cfg \in Configs /\ project \in Projects
  /\ pc = "resolve" /\ resolved = Failed

ResolveRuntime ==
  /\ pc = "resolve"
  /\ LET r == Resolve(input, cfg) IN
     resolved' = IF r.ok /\ r.region # "" /\ input.requireEngine /\ input.noDiscovery THEN Failed ELSE r
  /\ pc' = CASE ~resolved'.ok -> "failed"
             [] resolved'.region # "" /\ input.requireEngine -> "region"
             [] OTHER -> "done"
  /\ UNCHANGED <<input, cfg, project>>

\* resolveControlPlaneToken: the environment variable, or the token of the
\* environment for this API URL.
controlPlaneToken(in, c, api) ==
  LET env == FindEnvironment(c, api) IN
  CASE in.envToken # "" -> [ok |-> TRUE, token |-> in.envToken]
    [] env = Missing -> [ok |-> TRUE, token |-> ""]
    [] OTHER -> TokenFromAuth(env.auth)

\* resolveRuntimeRegionContext: certificates cannot ask the control plane;
\* the project names the engine of the region and the one for stable domains.
ResolveRegion ==
  /\ pc = "region"
  /\ LET token == IF resolved.auth.token # "" THEN [ok |-> TRUE, token |-> resolved.auth.token]
                  ELSE controlPlaneToken(input, cfg, resolved.api)
     IN \/ /\ resolved.auth.mtls = "" /\ token.ok /\ token.token # ""
           /\ resolved.region \in DOMAIN project.regional
           /\ resolved' = [resolved EXCEPT
                !.engine = project.regional[resolved.region],
                !.stable = First(<<project.engine, project.regional[resolved.region]>>)]
           /\ pc' = "done"
        \/ /\ resolved' = Failed
           /\ pc' = "failed"
  /\ UNCHANGED <<input, cfg, project>>

Next == ResolveRuntime \/ ResolveRegion

Spec == Init /\ [][Next]_vars

(***************************************************************************)
(* Properties.                                                             *)
(***************************************************************************)
TypeOK ==
  /\ pc \in {"resolve", "region", "done", "failed"}
  /\ resolved.ok <=> pc \in {"region", "done"}

\* A stored credential goes only where it was stored for: to the engine its
\* context names (or the region of its project), and never from an
\* environment to a context that is not linked to it or to another API URL.
StoredStaysHome ==
  pc = "done" /\ resolved.auth.stored =>
    /\ \/ resolved.engine = ""
       \/ resolved.ctx # Missing /\ resolved.engine = resolved.ctx.engine
       \/ resolved.region # ""
    /\ \/ /\ resolved.ctx # Missing
          /\ \/ resolved.auth.token # "" /\ resolved.ctx.auth.token = resolved.auth.token
             \/ resolved.auth.mtls # "" /\ resolved.ctx.auth.mtls = resolved.auth.mtls
       \/ /\ resolved.env # Missing /\ NormalizeAPIURL(resolved.env.api) = resolved.api
          /\ resolved.ctx # Missing => NormalizeAPIURL(resolved.ctx.api) = resolved.api

\* A command never runs with a token and a certificate at once, with an
\* expired token, or with none of them when it needs one.
OneCredential ==
  pc = "done" =>
    /\ resolved.auth.token = "" \/ resolved.auth.mtls = ""
    /\ input.requireToken => resolved.auth.token # "" \/ resolved.auth.mtls # ""
    /\ input.requireEngine => resolved.engine # ""

\* The transport a command gets is the one the most specific source names,
\* whichever of the two spellings each source uses.
Named(t) == t.mode # "" \/ t.useQuic # ""
MostSpecific ==
  pc = "done" =>
    LET e == resolved.env
        c == resolved.ctx
        shared == c # Missing /\ e # Missing /\ c.api # "" IN
    resolved.mode =
      CASE First(<<input.flagTransport, input.envTransport>>) # "" -> First(<<input.flagTransport, input.envTransport>>)
        [] input.envUseQuic # "" -> IF input.envUseQuic = "yes" THEN "quic" ELSE "tls"
        [] c # Missing /\ Named(c.transport) -> transportMode(c.transport)
        [] shared -> transportMode(e.transport)
        [] OTHER -> "auto"

ResolveInv == StoredStaysHome /\ OneCredential /\ MostSpecific
=============================================================================
