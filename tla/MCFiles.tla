------------------------------ MODULE MCFiles ------------------------------
(* What the commands keep in files.  The components share no state, so a   *)
(* behaviour exercises one of them (part) under one load; the variables of *)
(* the others rest at 0, those of the lock at their initial values.        *)
(*                                                                         *)
(* "lock": three processes and four file numbers.  "resolve": one command  *)
(* line with at most two differences from the plain one, against config    *)
(* files in which every kind of authentication and transport occurs.       *)
(* "store" and "identity": two processes and three runs of any command,    *)
(* one process of each profile for the identities.  "trust": two           *)
(* processes, two devices and two keys; devices and their rotation, or a   *)
(* server.  "export": recordings of a few characters and controls, or of   *)
(* several pages up to the largest sequence number.  "upload": two         *)
(* processes that may die; a conditional durable PUT and a PUT of another  *)
(* id over its result, while storage fails ("crash"); the PUT, its retry   *)
(* and a DELETE, while storage fails and the power is lost ("power"; alone *)
(* as "retry"); three ids for a journal of two receipts ("limit").  One    *)
(* process and every form of precondition ("conditions").                  *)
EXTENDS FileLock, Sequences, FiniteSets, TLC

CONSTANTS p1, p2, a1, a2, None

VARIABLES part, load,
  input, cfg, project, resolvePc, resolved,
  file, keychain, dropped, lock, storePc, cmd, snap, base, writes, runs,
  identity, known, clients, prepared, identityLock, identityPc, identityCmd, doc, keys, identityRuns, returned,
  ideal,
  remote, approved, trustFile, trustIdentity, server, serverKey, trustKeys, enrolled, trustPc, trustCmd, view,
  todo, mine, trustRuns, byRotation, verdict,
  recording, recorded, opts, haskey, exportPc, events, nextSeq, exportFile, out, atStart,
  uploadLock, pend, pendD, rcpt, rcptD, dir, dirD, act, sent, renames, settled, lost

----------------------------------------------------------------------------
(* Command lines and config files.                                         *)

PlainInput ==
  [flagApi |-> "", envApi |-> "", flagContext |-> "", envContext |-> "", ignoreDefault |-> FALSE, flagEngine |-> "",
   envEngine |-> "", flagRegion |-> "", envRegion |-> "", flagToken |-> "", envToken |-> "", mtlsFiles |-> FALSE,
   tokenOnly |-> FALSE, resolveToken |-> TRUE, requireToken |-> TRUE, requireEngine |-> TRUE, noDiscovery |-> FALSE,
   flagTransport |-> "", envTransport |-> "", envUseQuic |-> ""]
Choices ==
  [flagApi |-> {"u", "v"}, envApi |-> {"u/"}, flagContext |-> {"a", "x"}, envContext |-> {"b"}, ignoreDefault |-> {TRUE},
   flagEngine |-> {"E"}, envEngine |-> {"F"}, flagRegion |-> {"eu"}, envRegion |-> {"us"}, flagToken |-> {"given"},
   envToken |-> {"env"}, mtlsFiles |-> {TRUE}, tokenOnly |-> {TRUE}, resolveToken |-> {FALSE}, requireToken |-> {FALSE},
   requireEngine |-> {FALSE}, noDiscovery |-> {TRUE}, flagTransport |-> {"tls"}, envTransport |-> {"quic"},
   envUseQuic |-> {"yes", "no"}]
Vary(x) == UNION {{[x EXCEPT ![f] = v] : v \in Choices[f]} : f \in DOMAIN Choices}
MCInputs == {PlainInput} \cup Vary(PlainInput) \cup UNION {Vary(x) : x \in Vary(PlainInput)}

Direct == [mode |-> "", useQuic |-> "", dns |-> "", proxy |-> {}, proxyTLS |-> FALSE]
OverTLS == [Direct EXCEPT !.mode = "tls", !.dns = "d"]
OverQUIC == [Direct EXCEPT !.useQuic = "yes", !.proxy = {"socks"}]
ByProxy == [Direct EXCEPT !.proxyTLS = TRUE, !.proxy = {"http"}]
Auth(token, mtls) == [token |-> token, mtls |-> mtls]
Context(name, api, auth, transport) ==
  [name |-> name, api |-> api, engine |-> "E", project |-> "P", region |-> "", auth |-> auth, transport |-> transport]
Auths == {Auth("", ""), Auth("inline", ""), Auth("", "storage"), Auth("inline", "files"), Auth("expired", ""),
          Auth("lost", ""), Auth("empty", "")}
ContextSets ==
  {{Context("a", "u", x, t)} : x \in Auths, t \in {Direct, OverQUIC}}
  \cup {{Context("a", "", x, ByProxy), Context("b", "u", Auth("", ""), OverTLS)} : x \in Auths}
  \cup {{Context("a", "u", Auth("", ""), Direct), Context("a", "v", Auth("keychain", ""), OverTLS)},
        {[Context("a", "u/", Auth("", ""), OverTLS) EXCEPT !.engine = "", !.region = "eu"]}, {}}
EnvironmentSets ==
  {{}} \cup {{[api |-> "u", auth |-> x, transport |-> IF x.token = "" THEN OverTLS ELSE ByProxy]} :
               x \in {Auth("", ""), Auth("inline", ""), Auth("", "storage")}}
MCConfigs == [contexts : ContextSets, envs : EnvironmentSets, default : {"", "a"}]
MCProjects == {[engine |-> x, regional |-> [eu |-> "G-eu"]] : x \in {"G", ""}}

StoreCommand(op, name, api, store) ==
  [op |-> op, name |-> name, api |-> api, store |-> store, default |-> op = "create", project |-> "q"]
StoreCommands ==
  {StoreCommand("use", "a", "", ""), StoreCommand("delete", "a", "", ""), StoreCommand("delete", "b", "-", ""),
   StoreCommand("create", "b", "-", "keychain"), StoreCommand("create", "a", "u", "inline"),
   StoreCommand("update", "a", "v", "keychain"), StoreCommand("update", "b", "u", "mtls"), StoreCommand("update", "a", "", "inline"),
   StoreCommand("logout", "", "u", ""), StoreCommand("logout", "b", "", ""), StoreCommand("login", "", "u", "keychain"),
   StoreCommand("login", "", "v", "inline"), StoreCommand("project", "", "u", ""), StoreCommand("project", "a", "u", ""),
   StoreCommand("ui", "a", "u", ""), StoreCommand("mcp", "b", "u", ""), StoreCommand("mcp", "p", "u", "")}
Inline == [token |-> "inline", mtls |-> "", account |-> <<>>]
InKeychain(account) == [token |-> "keychain", mtls |-> "", account |-> account]
Stored(name, api, auth) == [Context(name, api, auth, Direct) EXCEPT !.project = ""]
Environment(auth) == [api |-> "u", auth |-> auth, transport |-> Direct]
StoreFiles ==
  {[contexts |-> {}, envs |-> {}, default |-> ""],
   [contexts |-> {Stored("a", "u", InKeychain(<<"context", "u", "a">>)), Stored("b", "", Inline)},
    envs |-> {Environment(InKeychain(<<"api", "u">>))}, default |-> "a"],
   [contexts |-> {Stored("a", "u", Auth("", "")), Stored("a", "v", Inline), Stored("p", "v", Auth("", ""))},
    envs |-> {Environment(Inline)}, default |-> "p"]}

----------------------------------------------------------------------------
(* Identities, recordings and uploads.                                     *)

Suites == {"x25519", "p256"}
IdentityCommands ==
  [op : {"create"}, suite : Suites \cup {"any"}] \cup [op : {"prepare"}, suite : Suites] \cup {[op |-> "remove"]}
  \cup [op : {"knownAdd"}, name : {"n"}, suite : Suites, client : {"", "me"}]
  \cup [op : {"knownAdd"}, name : {"m"}, suite : {"p256"}, client : {""}]
  \cup {[op |-> "knownSet", name |-> "n", client |-> "you"], [op |-> "knownRemove", name |-> "n"]}
  \cup [op : {"authAdd"}, name : {"n", "m"}, key : {1}] \cup {[op |-> "authRemove", name |-> "n"]}

Event(q, type, stream, encrypted, text) == [seq |-> q, type |-> type, stream |-> stream, sealed |-> encrypted, text |-> text]
Controls == {"a", "b", "lf", "cr", "left", "up", "K0", "K2", "J0", "J2", "restore", "save", "alt+", "alt-"}
UpTo(m, S) == UNION {[1 .. q -> S] : q \in 0 .. m}
Tails == {<<"b">>, <<"K0", "b">>, <<"alt-", "b">>, <<"lf", "up", "b">>}
Texts == {<<Event(1, "data", "stdout", FALSE, <<"a">> \o x), Event(2, "data", "stderr", TRUE, <<"b">>),
            Event(3, "data", "stdout", FALSE, y)>> : x \in UpTo(2, Controls), y \in Tails}
         \cup {<<Event(1, "data", "stdout", FALSE, <<"a">> \o x \o <<"b">>)>> : x \in UpTo(3, Controls)}
Screens == {<<Event(1, "data", "stdout", FALSE, x)>> : x \in UpTo(4, {"a", "b", "alt+", "alt-", "mode"})}
Paged == {[i \in DOMAIN q |-> Event(q[i], IF i = 2 THEN "resize" ELSE "data", "stdout", i = 3, <<"a">>)] :
            q \in {<<1, 2, 3, 4, 5, 6>>, <<0, 2, 3, 6, 7>>, <<1, 3, 4, 5>>}}
MCRecordings == Texts \cup Screens \cup Paged
ExportOption(streams, all, format, fromSeq, maxEvents) ==
  [streams |-> streams, modes |-> all, resize |-> all, active |-> all, format |-> format, fromSeq |-> fromSeq, maxEvents |-> maxEvents]
TextOptions == {ExportOption(x, FALSE, "text", 0, 0) : x \in {{"stdout"}, {"stdout", "stderr"}}}
ExportOptions == TextOptions \cup {ExportOption({"stdout"}, all, f, q, x) :
                                     all \in BOOLEAN, f \in {"text", "json"}, q \in {0, 2, 7}, x \in 0 .. 3}

Unconditional == [kind |-> "none", tags |-> {}]
Star == [kind |-> "any", tags |-> {}]
Malformed == [kind |-> "malformed", tags |-> {}]
Tags(weak, of) == [kind |-> "tags", tags |-> {[weak |-> weak, of |-> x] : x \in of}]
Put(key, id, content, match, none) ==
  [key |-> key, op |-> "put", id |-> id, content |-> content, match |-> match, none |-> none]
First == Put("first", "A", "x", Unconditional, Star)
Again == Put("again", "A", "x", Unconditional, Star)
Other == Put("other", "B", "y", Tags(FALSE, {"x", "z"}), Unconditional)
Third == Put("third", "C", "z", Unconditional, Unconditional)
Plain == Put("plain", None, "z", Unconditional, Star)
Drop == [key |-> "remove", op |-> "delete", id |-> None, content |-> None, match |-> Unconditional, none |-> Unconditional]
Conditional == {Put("exists", None, "y", Star, Unconditional), Put("weak", None, "y", Tags(TRUE, {"x"}), Unconditional),
                Put("changed", None, "z", Unconditional, Tags(TRUE, {"x"})), Put("both", None, "z", Star, Tags(FALSE, {"x"})),
                Put("neither", None, "z", Star, Malformed)}
AllRequests == {First, Again, Other, Third, Plain, Drop} \cup Conditional
Sent == [crash |-> {First, Other}, power |-> {First, Again, Drop},
         limit |-> {First, Other, Third}, conditions |-> {Other, Plain, Drop} \cup Conditional, retry |-> {First, Again, Drop}]

----------------------------------------------------------------------------
R == INSTANCE ConfigResolve WITH pc <- resolvePc, Inputs <- MCInputs, Configs <- MCConfigs, Projects <- MCProjects
K == INSTANCE ConfigStore WITH pc <- storePc, Procs <- {p1, p2}, Commands <- StoreCommands, Files <- StoreFiles, MaxRuns <- 3
I == INSTANCE IdentityFiles WITH lock <- identityLock, pc <- identityPc, cmd <- identityCmd, runs <- identityRuns, Procs <- {"p1", "p2"},
       Profile <- [p1 |-> "standard", p2 |-> "fips"], Commands <- IdentityCommands, MaxRuns <- 3
T == INSTANCE WorkspaceTrust WITH file <- trustFile, identity <- trustIdentity, keys <- trustKeys, pc <- trustPc, cmd <- trustCmd,
       runs <- trustRuns, Procs <- {p1, p2}, MaxDevices <- 2, MaxKeys <- 2, MaxRuns <- 4
E == INSTANCE SessionExport WITH pc <- exportPc, file <- exportFile, Recordings <- MCRecordings, Options <- ExportOptions,
       Keys <- BOOLEAN, PageSize <- 2, MaxSeq <- 7
U == INSTANCE UploadReceipts WITH lock <- uploadLock, Actors <- {a1, a2}, Requests <- AllRequests, Limit <- 2

resolveVars == <<input, cfg, project, resolvePc, resolved>>
storeVars == <<file, keychain, dropped, lock, storePc, cmd, snap, base, writes, runs>>
identityVars == <<identity, known, clients, prepared, identityLock, identityPc, identityCmd, doc, keys,
                  identityRuns, returned, ideal>>
trustVars == <<remote, approved, trustFile, trustIdentity, server, serverKey, trustKeys, enrolled, trustPc,
               trustCmd, view, todo, mine, trustRuns, byRotation, verdict>>
exportVars == <<recording, recorded, opts, haskey, exportPc, events, nextSeq, exportFile, out, atStart>>
uploadVars == <<uploadLock, pend, pendD, rcpt, rcptD, dir, dirD, act, sent, renames, settled, lost>>

resolveRest == input = 0 /\ cfg = 0 /\ project = 0 /\ resolvePc = 0 /\ resolved = 0
storeRest == file = 0 /\ keychain = 0 /\ dropped = 0 /\ lock = 0 /\ storePc = 0 /\ cmd = 0 /\ snap = 0
             /\ base = 0 /\ writes = 0 /\ runs = 0
identityRest == identity = 0 /\ known = 0 /\ clients = 0 /\ prepared = 0 /\ identityLock = 0 /\ identityPc = 0
                /\ identityCmd = 0 /\ doc = 0 /\ keys = 0 /\ identityRuns = 0 /\ returned = 0 /\ ideal = 0
trustRest == remote = 0 /\ approved = 0 /\ trustFile = 0 /\ trustIdentity = 0 /\ server = 0 /\ serverKey = 0
             /\ trustKeys = 0 /\ enrolled = 0 /\ trustPc = 0 /\ trustCmd = 0 /\ view = 0 /\ todo = 0 /\ mine = 0
             /\ trustRuns = 0 /\ byRotation = 0 /\ verdict = 0
exportRest == recording = 0 /\ recorded = 0 /\ opts = 0 /\ haskey = 0 /\ exportPc = 0 /\ events = 0
              /\ nextSeq = 0 /\ exportFile = 0 /\ out = 0 /\ atStart = 0
uploadRest == uploadLock = 0 /\ pend = 0 /\ pendD = 0 /\ rcpt = 0 /\ rcptD = 0 /\ dir = 0 /\ dirD = 0 /\ act = 0
              /\ sent = 0 /\ renames = 0 /\ settled = 0 /\ lost = 0

Loads == [lock |-> {"all"}, resolve |-> {"all"}, store |-> {"all"}, identity |-> {"all"}, trust |-> {"devices", "server"},
          export |-> {"all"}, upload |-> {"crash", "power", "limit", "conditions"}]

FilesInit ==
  /\ Init
  /\ IF part = "resolve" THEN R!Init ELSE resolveRest
  /\ IF part = "store" THEN K!Init ELSE storeRest
  /\ IF part = "identity" THEN I!Init ELSE identityRest
  /\ IF part = "trust" THEN T!Init ELSE trustRest
  /\ IF part = "export"
     THEN E!Init /\ (recording \in Paged \/ (opts \in TextOptions /\ recorded = Len(recording) /\ haskey))
     ELSE exportRest
  /\ IF part = "upload" THEN U!Init ELSE uploadRest

(* What a load leaves out; another load of its part has it.                *)
TrustWithin ==
  IF load = "devices"
  THEN /\ server.status = "none" /\ \A x \in {p1, p2} : trustCmd[x] \notin {"serve", "pin"}
       /\ trustRuns <= 3 \/ \E x \in {p1, p2} : trustPc[x] = "idle"
  ELSE trustRuns <= 3 /\ \A x \in {p1, p2} : trustCmd[x] # "rotate"
Calm == load \in {"limit", "conditions"}
UploadNext ==
  \/ \E x \in IF load = "conditions" THEN {a1} ELSE {a1, a2} :
       \/ U!Step(x)
       \/ \E r \in Sent[load] : U!Mutate(x, r) \/ (r = First /\ ~Calm /\ U!Lookup(x, r.id))
       \/ load # "conditions" /\ U!Crash(x)
       \/ ~Calm /\ U!Fail(x)
  \/ load \in {"power", "retry"} /\ U!LosePower

FilesNext ==
  /\ UNCHANGED <<part, load>>
  /\ IF part = "lock" THEN Next ELSE UNCHANGED vars
  /\ IF part = "resolve" THEN R!Next ELSE UNCHANGED resolveVars
  /\ IF part = "store" THEN K!Next ELSE UNCHANGED storeVars
  /\ IF part = "identity" THEN I!Next ELSE UNCHANGED identityVars
  /\ IF part = "trust" THEN T!Next /\ TrustWithin' ELSE UNCHANGED trustVars
  /\ IF part = "export" THEN E!Next ELSE UNCHANGED exportVars
  /\ IF part = "upload" THEN UploadNext ELSE UNCHANGED uploadVars

filesVars == <<part, load, vars, resolveVars, storeVars, identityVars, trustVars, exportVars, uploadVars>>

(* The lock never stops; the other parts run out of commands to run.       *)
FilesStart == part \in DOMAIN Loads /\ load \in Loads[part] /\ FilesInit
FilesSpec == FilesStart /\ [][FilesNext]_filesVars

(* A PUT, its retry and a DELETE while anything fails.                     *)
RetrySpec == (part = "upload" /\ load = "retry" /\ FilesInit) /\ [][FilesNext]_filesVars

(* Processes of one program are alike.                                     *)
Symmetry == Permutations({p1, p2}) \cup Permutations({a1, a2})

(* What a command is given is what its flags, its environment and the      *)
(* config file say, in this order.                                         *)
ResolveInv == part = "resolve" => R!TypeOK /\ R!ResolveInv

(* The config file keeps its references to the keychain and its default.   *)
ConfigInv == part = "store" => K!TypeOK /\ K!StoreInv

(* Identity, trust and enrolment files agree with each other and with what *)
(* the control plane knows.                                                *)
IdentityInv == /\ part = "identity" => I!TypeOK /\ I!FilesInv
               /\ part = "trust" => T!TypeOK /\ T!TrustInv

(* An update of the config loses no update made since it was read, and no  *)
(* key is overwritten.                                                     *)
FileSteps == [][/\ part = "store" => K!KeepsOthers /\ K!LogsOut
                /\ part = "identity" => I!NeverOverwrites]_filesVars


(* What the journal and the export keep through crashes and failures, and  *)
(* through the loss of power once acknowledged.                            *)
UploadInv == part = "upload" => U!UploadInv

(* Receipts are not rewritten and preconditions hold when a file is        *)
(* published.                                                              *)
UploadSteps == [][part = "upload" => U!UploadStep]_filesVars

(* A PUT answered with committed stays so, whatever process died before.   *)
AcknowledgedDurable == part = "upload" => U!AcknowledgedDurable

(* An id never starts another write, whatever died or failed before.       *)
AtMostOneWrite == part = "upload" => U!AtMostOneWrite
=============================================================================
