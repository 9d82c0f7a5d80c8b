---------------------------- MODULE ConfigStore ----------------------------
(***************************************************************************)
(* The commands that change the config file and the tokens kept in the     *)
(* system keychain, run side by side by several processes.  Some commands  *)
(* write back what they loaded when they started (config.WriteAtomic),     *)
(* others apply their change to the latest file under the lock             *)
(* (config.UpdateAtomic).  A process may fail or die between any two of    *)
(* its steps.  Renaming makes a write atomic for the readers, which take   *)
(* no lock.                                                                *)
(***************************************************************************)
EXTENDS Naturals, FiniteSets

CONSTANTS Procs, Commands, Files, MaxRuns

VARIABLES file,        \* the config file
          keychain,    \* accounts with an item in the keychain
          dropped,     \* accounts deleted and not stored again (history)
          lock,        \* who holds config.yaml.lock
          pc, cmd,
          snap,        \* what the process works on
          base,        \* writes when the process loaded snap
          writes, runs

vars == <<file, keychain, dropped, lock, pc, cmd, snap, base, writes, runs>>

R == INSTANCE ConfigResolve
  WITH Inputs <- {}, Configs <- {}, Projects <- {},
       input <- 0, cfg <- 0, project <- 0, pc <- 0, resolved <- 0

NoOne == "nobody"
Idle == [op |-> "none"]
NoAuth == R!NoAuth

\* The keychain account of a context or of an environment.
ContextAccount(name, api) == <<"context", api, name>>
EnvAccount(api) == <<"api", api>>
Account(a) == IF a # NoAuth /\ a.token = "keychain" THEN {a.account} ELSE {}

NewAuth(store, account) ==
  CASE store = "keychain" -> [token |-> "keychain", mtls |-> "", account |-> account]
    [] store = "inline" -> [token |-> "inline", mtls |-> "", account |-> <<>>]
    [] store = "mtls" -> [token |-> "", mtls |-> "storage", account |-> <<>>]

References(f) == UNION {Account(x.auth) : x \in f.contexts \cup f.envs}

TypeOK ==
  /\ lock \in Procs \cup {NoOne}
  /\ pc \in [Procs -> {"idle", "loaded", "ready", "locked"}]
  /\ writes \in 0 .. MaxRuns /\ runs \in 0 .. MaxRuns
  /\ file.default \in STRING
  /\ \A p \in Procs : (lock = p) <=> (pc[p] = "locked")

Init ==
  /\ file \in Files
  /\ keychain = References(file) /\ dropped = {}
  /\ lock = NoOne
  /\ pc = [p \in Procs |-> "idle"] /\ cmd = [p \in Procs |-> Idle]
  /\ snap = [p \in Procs |-> file] /\ base = [p \in Procs |-> 0]
  /\ writes = 0 /\ runs = 0

(***************************************************************************)
(* What each command makes of a config: [ok, cfg].                         *)
(***************************************************************************)
Error == [ok |-> FALSE]
Ok(f) == [ok |-> TRUE, cfg |-> f]

\* resolveContextSelection and selectContext: --api-url, --no-api-url ("-"),
\* or neither.
selectContext(f, c) ==
  CASE c.api = "-" -> R!FindContextUnlinked(f, c.name)
    [] c.api = "" -> R!FindContextByName(f, c.name)
    [] OTHER -> R!FindContextByNameAndAPIURL(f, c.name, c.api)

Selected(found) == found.ok /\ found.ctx # R!Missing
Replace(f, old, new) == [f EXCEPT !.contexts = (@ \ {old}) \cup {new}]

contextUse(f, c) ==
  LET found == selectContext(f, c) IN
  IF Selected(found) THEN Ok([f EXCEPT !.default = c.name]) ELSE Error

\* contextDelete, with the default left as it is.
contextDeleteOnly(f, c) ==
  LET found == selectContext(f, c) IN
  IF Selected(found) THEN Ok([f EXCEPT !.contexts = @ \ {found.ctx}]) ELSE Error

contextDelete(f, c) ==
  LET found == selectContext(f, c) IN
  IF ~Selected(found) THEN Error
  ELSE Ok([f EXCEPT !.contexts = @ \ {found.ctx},
                    !.default = IF @ = c.name THEN "" ELSE @])

Link(api) == IF api = "-" THEN "" ELSE api

NewContext(name, api, auth) ==
  [name |-> name, api |-> api, engine |-> "E", project |-> "", region |-> "",
   auth |-> auth, transport |-> R!NoTransport]

\* Creating refuses any context of that name, whatever its API URL.
contextCreate(f, c) ==
  LET auth == IF c.store = "" THEN NoAuth ELSE NewAuth(c.store, ContextAccount(c.name, Link(c.api)))
      ctx == NewContext(c.name, Link(c.api), auth) IN
  IF R!FindContextByName(f, c.name) # R!NotFound THEN Error
  ELSE Ok([f EXCEPT !.contexts = @ \cup {ctx}, !.default = IF c.default THEN c.name ELSE @])

\* --api-url and --no-api-url relink the only context of the name.
contextUpdate(f, c) ==
  LET found == R!FindContextByName(f, c.name)
      api == IF c.api = "" THEN found.ctx.api ELSE Link(c.api)
      auth == IF c.store = "" THEN found.ctx.auth ELSE NewAuth(c.store, ContextAccount(c.name, api))
  IN IF ~Selected(found) THEN Error
     ELSE Ok(Replace(f, found.ctx, [found.ctx EXCEPT !.api = api, !.auth = auth]))

LogoutInput(c) ==
  [flagApi |-> c.api, envApi |-> "", flagContext |-> c.name, envContext |-> "", ignoreDefault |-> FALSE,
   flagEngine |-> "", envEngine |-> "", flagRegion |-> "", envRegion |-> "", flagToken |-> "", envToken |-> "",
   mtlsFiles |-> FALSE, tokenOnly |-> FALSE, resolveToken |-> FALSE, requireToken |-> FALSE,
   requireEngine |-> FALSE, noDiscovery |-> FALSE, flagTransport |-> "", envTransport |-> "", envUseQuic |-> ""]

\* shouldClearContextAuth: the contexts linked to the API URL, and the
\* selected context when it is not linked.
ShouldClear(x, resolved) ==
  IF x.api # "" THEN R!NormalizeAPIURL(x.api) = resolved.api
  ELSE resolved.ctx # R!Missing /\ resolved.ctx.api = "" /\ x.name = resolved.ctx.name

ClearToken(a) == IF a.mtls = "" THEN NoAuth ELSE [a EXCEPT !.token = ""]

Leaving(f, resolved) ==
  IF ~resolved.ok THEN {}
  ELSE {x \in f.contexts : ShouldClear(x, resolved)} \cup {e \in f.envs : e.api = resolved.api}

Clear(f, leaving) ==
  LET Cleared(x) == [x EXCEPT !.auth = NoAuth]
      ClearedEnv(e) == [e EXCEPT !.auth = ClearToken(@)] IN
  [f EXCEPT
     !.contexts = {IF x \in leaving THEN Cleared(x) ELSE x : x \in @},
     !.envs = {IF e \in leaving THEN ClearedEnv(e) ELSE e : e \in @}]

LogoutOf(f, resolved) == IF resolved.ok THEN Ok(Clear(f, Leaving(f, resolved))) ELSE Error
logout(f, c) == LogoutOf(f, R!Resolve(LogoutInput(c), f))

\* EnsureEnvironment.
WithEnv(f, api) ==
  IF R!FindEnvironment(f, api) # R!Missing THEN f
  ELSE [f EXCEPT !.envs = @ \cup {[api |-> api, auth |-> NoAuth, transport |-> R!NoTransport]}]

login(f, c) ==
  LET g == WithEnv(f, c.api)
      env == R!FindEnvironment(g, c.api)
      auth == [NewAuth(c.store, EnvAccount(c.api)) EXCEPT !.mtls = env.auth.mtls] IN
  Ok([g EXCEPT !.envs = (@ \ {env}) \cup {[env EXCEPT !.auth = auth]}])

\* uniqueContextName: the name of the project, or the first of p-2, p-3, ...
uniqueContextName(f) ==
  LET Tried == <<"p", "p-2", "p-3">>
      free == {i \in 1 .. 3 : R!Matches(f, Tried[i]) = {}} IN
  Tried[CHOOSE i \in free : \A j \in free : i <= j]

\* By name, else by project, else a new unique name: a Find answer.
selectProjectContextForUpsert(g, c) ==
  LET named == R!FindContextByName(g, c.name)
      known == {x \in g.contexts : x.api = c.api /\ x.project = c.project} IN
  CASE c.name # "" /\ named.ctx # R!Missing /\ named.ctx.api # c.api -> R!Refused
    [] c.name # "" -> named
    [] known # {} -> R!Found(known)
    [] OTHER -> R!NotFound

upsertProjectContext(f, c) ==
  LET g == WithEnv(f, c.api)
      old == selectProjectContextForUpsert(g, c)
      fresh == NewContext(IF c.name # "" THEN c.name ELSE uniqueContextName(g), c.api, NoAuth)
      ctx == [(IF old.ctx = R!Missing THEN fresh ELSE old.ctx) EXCEPT
                !.api = c.api, !.project = c.project, !.engine = "P", !.region = ""]
  IN IF ~old.ok THEN Error
     ELSE Ok([Replace(g, old.ctx, ctx) EXCEPT !.default = ctx.name])

\* The interface saves the context the user picked from what it had loaded;
\* it must still be there.
uiUse(f, c) ==
  LET set == {x \in f.contexts : x.name = c.name /\ x.api = c.api} IN
  IF Cardinality(set) = 1 THEN Ok([f EXCEPT !.default = c.name]) ELSE Error

\* mcpApplyRuntimeContext links an unlinked context and drops its credential.
mcpUse(f, c) ==
  LET old == R!FindContextForAPIURL(f, c.name, c.api)
      ctx == [(IF old.ctx = R!Missing THEN NewContext(c.name, "", NoAuth) ELSE old.ctx) EXCEPT
                !.api = c.api, !.engine = "P", !.project = c.project, !.auth = NoAuth]
      g == [Replace(f, old.ctx, ctx) EXCEPT !.default = c.name]
  IN IF ~old.ok THEN Error ELSE Ok(g)

Apply(f, c) ==
  CASE c.op = "use" -> contextUse(f, c)
    [] c.op = "delete" -> contextDelete(f, c)
    [] c.op = "create" -> contextCreate(f, c)
    [] c.op = "update" -> contextUpdate(f, c)
    [] c.op = "logout" -> logout(f, c)
    [] c.op = "login" -> login(f, c)
    [] c.op = "project" -> upsertProjectContext(f, c)
    [] c.op = "ui" -> uiUse(f, c)
    [] c.op = "mcp" -> mcpUse(f, c)

WritesBack(c) == c.op \in {"use", "delete", "create", "update", "logout"}

\* The keychain items a command stores before it writes, and those it deletes.
Stores(c) ==
  CASE c.op \in {"create", "update"} /\ c.store = "keychain" -> "context"
    [] c.op = "login" /\ c.store = "keychain" -> "env"
    [] OTHER -> "nothing"

Stored(f, c) ==
  CASE Stores(c) = "env" -> {EnvAccount(c.api)}
    [] Stores(c) = "context" -> {ContextAccount(c.name, Link(
         IF c.op = "update" /\ c.api = "" THEN R!FindContextByName(f, c.name).ctx.api ELSE c.api))}
    [] OTHER -> {}

Deleted(f, c) ==
  CASE c.op = "delete" -> Account(selectContext(f, c).ctx.auth)
    [] c.op = "logout" -> UNION {Account(x.auth) : x \in Leaving(f, R!Resolve(LogoutInput(c), f))}
    [] OTHER -> {}

(***************************************************************************)
(* The steps of a command.                                                 *)
(***************************************************************************)
\* loadConfig: the file as it is, without the lock.  A command that writes
\* back what it loaded gives up here when it has nothing to change.
Load(p) ==
  /\ pc[p] = "idle" /\ runs < MaxRuns
  /\ \E c \in Commands :
       /\ WritesBack(c) => Apply(file, c).ok
       /\ cmd' = [cmd EXCEPT ![p] = c]
  /\ snap' = [snap EXCEPT ![p] = file] /\ base' = [base EXCEPT ![p] = writes]
  /\ pc' = [pc EXCEPT ![p] = "loaded"] /\ runs' = runs + 1
  /\ UNCHANGED <<file, keychain, dropped, lock, writes>>

\* Approval, validation and project lookups over, the keychain is changed:
\* an item is stored, or items are deleted one after the other until one fails.
Secrets(p) ==
  /\ pc[p] = "loaded"
  /\ \E stored \in {Stored(snap[p], cmd[p])}, doomed \in {Deleted(snap[p], cmd[p])} :
     \E gone \in SUBSET doomed :
       /\ keychain' = (keychain \cup stored) \ gone
       /\ dropped' = (dropped \cup gone) \ stored
       /\ pc' = [pc EXCEPT ![p] = IF gone = doomed THEN "ready" ELSE "idle"]
  /\ UNCHANGED <<file, lock, cmd, snap, base, writes, runs>>

\* WriteAtomic: the lock only covers the write.
WriteAtomic(p) ==
  /\ pc[p] = "ready" /\ WritesBack(cmd[p]) /\ lock = NoOne
  /\ file' = Apply(snap[p], cmd[p]).cfg
  /\ writes' = writes + 1
  /\ pc' = [pc EXCEPT ![p] = "idle"]
  /\ UNCHANGED <<keychain, dropped, lock, cmd, snap, base, runs>>

\* UpdateLoad, with the file as the command read it before the lock.
UpdateStale(p) ==
  /\ pc[p] = "ready" /\ ~WritesBack(cmd[p]) /\ lock = NoOne
  /\ lock' = p /\ pc' = [pc EXCEPT ![p] = "locked"]
  /\ UNCHANGED <<file, keychain, dropped, cmd, snap, base, writes, runs>>

\* UpdateAtomic: lock, load the latest file, ...
UpdateLoad(p) ==
  /\ pc[p] = "ready" /\ ~WritesBack(cmd[p]) /\ lock = NoOne
  /\ lock' = p
  /\ snap' = [snap EXCEPT ![p] = file] /\ base' = [base EXCEPT ![p] = writes]
  /\ pc' = [pc EXCEPT ![p] = "locked"]
  /\ UNCHANGED <<file, keychain, dropped, cmd, writes, runs>>

\* ... apply the change, write unless it failed or changed nothing, unlock.
UpdateWrite(p) ==
  /\ pc[p] = "locked"
  /\ \E new \in {Apply(snap[p], cmd[p])} :
       \/ new.ok /\ file' = new.cfg /\ writes' = writes + 1
       \/ ~new.ok /\ UNCHANGED <<file, writes>>
  /\ lock' = NoOne
  /\ pc' = [pc EXCEPT ![p] = "idle"]
  /\ UNCHANGED <<keychain, dropped, cmd, snap, base, runs>>

\* A call fails or the process dies; the kernel frees the lock.
Stop(p) ==
  /\ pc[p] # "idle"
  /\ lock' = IF lock = p THEN NoOne ELSE lock
  /\ pc' = [pc EXCEPT ![p] = "idle"]
  /\ UNCHANGED <<file, keychain, dropped, cmd, snap, base, writes, runs>>

Next == \E p \in Procs :
  Load(p) \/ Secrets(p) \/ WriteAtomic(p) \/ UpdateLoad(p) \/ UpdateWrite(p) \/ Stop(p)

Spec == Init /\ [][Next]_vars

(***************************************************************************)
(* Properties.                                                             *)
(***************************************************************************)
\* No sequence of commands, interleaved and interrupted, gives two contexts
\* the same name and API URL (which every lookup would refuse).
PairsUnique ==
  \A x, y \in file.contexts : x.name = y.name /\ x.api = y.api => x = y

\* The default context is one of the file.
DefaultNamed == file.default # "" => R!Matches(file, file.default) # {}

\* A context the commands wrote has a token or a certificate, not both: it
\* would be refused whenever it is used.
OneKind == \A x \in file.contexts : x.auth.token = "" \/ x.auth.mtls = ""

\* A token is in the keychain before the file refers to it: a reference
\* without an item is left only by a command that deletes the item.
NoDanglingStore == References(file) \subseteq keychain \cup dropped

StoreInv == PairsUnique /\ DefaultNamed /\ OneKind /\ NoDanglingStore

Wrote(p) == pc[p] \in {"ready", "locked"} /\ writes' # writes /\ pc'[p] # pc[p]

\* At most one entry is added, removed or replaced.
OneEntry(old, new) ==
  /\ Cardinality(old \ new) <= 1 /\ Cardinality(new \ old) <= 1
  /\ \A x \in old \ new, y \in new \ old : ("name" \in DOMAIN x) => x.name = y.name

\* A command changes the entries it is about and keeps the others, as the
\* file holds them at that moment; only a command that writes back what it
\* loaded before somebody else wrote can undo another one.
KeepsOthers ==
  \A p \in Procs : Wrote(p) /\ (base[p] = writes \/ ~WritesBack(cmd[p])) =>
    IF cmd[p].op = "logout"
    THEN {[x EXCEPT !.auth = NoAuth] : x \in file.contexts} = {[x EXCEPT !.auth = NoAuth] : x \in file'.contexts}
    ELSE OneEntry(file.contexts, file'.contexts) /\ OneEntry(file.envs, file'.envs)

\* The file a logout writes has no token left that a later command for that
\* API URL would pick up, whichever linked context it selects.
LogsOut ==
  \A p \in Procs : Wrote(p) /\ cmd[p].op = "logout" /\ cmd[p].api # "" =>
    \A name \in {""} \cup {x.name : x \in file'.contexts} :
      LET r == R!Resolve([LogoutInput(cmd[p]) EXCEPT !.flagContext = name, !.resolveToken = TRUE,
                                                     !.ignoreDefault = TRUE], file') IN
      r.ok => r.auth.token = ""
=============================================================================
