---------------------------- MODULE IdentityFiles ----------------------------
(***************************************************************************)
(* The key files of WebTTY: the endpoint identity, the known servers, the  *)
(* authorized clients and the prepared client directory, as the library    *)
(* (webtty/e2e_identity_file.go, endpoint_identity.go,                     *)
(* authorized_clients_file.go) keeps them and as the commands of           *)
(* cmd/webtty_identity.go, cmd/webtty_authorized_client.go and             *)
(* cmd/webtty_client_credential.go change them.  Several processes, each   *)
(* of a standard or of a FIPS build, run commands on the same files; every *)
(* writer takes config.LockFile on the file it changes (module FileLock),  *)
(* renames a complete temporary file into place, and may fail or be killed *)
(* at any point.  A key is abstracted to the number of its generation.     *)
(***************************************************************************)
EXTENDS Naturals, FiniteSets

CONSTANTS Procs,     \* processes
          Profile,   \* the build each process is of: "standard" or "fips"
          Commands,  \* the commands they may run
          MaxRuns    \* bound on the commands run

VARIABLES identity,  \* the endpoint identity file: state, key, suite
          known,     \* the known-servers file: there, suite marker, entries
          clients,   \* the authorized-clients file: pairs of name and key
          prepared,  \* the prepared client directory: state, suite declared, suite of its entry
          lock,      \* holder of the lock file of each file
          pc, cmd,   \* where each process is, and the command it runs
          doc,       \* the document it read under the lock
          keys,      \* keys generated so far
          runs,      \* commands run so far
          returned,  \* history: identities handed to callers since the file was last removed
          ideal      \* history: known servers and clients after every completed update

vars == <<identity, known, clients, prepared, lock, pc, cmd, doc, keys, runs, returned, ideal>>

Suites == {"x25519", "p256"}
Files == {"identity", "known", "clients"}
NoProc == "nobody"
NoDoc == [of |-> "none"]

\* The suites a build accepts, and the one it picks by itself.
profileSuites(p) == IF Profile[p] = "fips" THEN {"p256"} ELSE Suites

defaultSuite(p) == IF Profile[p] = "fips" THEN "p256" ELSE "x25519"

\* The suites of the keys of a known-servers document.
inferSuites(entries) == {e.suite : e \in entries}

\* ParseKnownServerKey takes a key of a suite of the build.
parses(p, entries) == inferSuites(entries) \subseteq profileSuites(p)

\* validateKnownServerKeysCryptoSuite, in the build of p: every entry has to
\* parse, the mixed marker accepts anything, another marker has to be a suite
\* of this build and the suite of the entries.
validates(p, d) ==
    /\ parses(p, d.entries)
    /\ \/ d.suite = "mixed"
       \/ /\ d.suite \in profileSuites(p)
          /\ inferSuites(d.entries) \subseteq {d.suite}

\* The marker writeKnownServerKeysFileUnlocked puts on a document.
suiteMarker(d) ==
    LET found == inferSuites(d.entries)
    IN  IF Cardinality(found) > 1 THEN "mixed"
        ELSE IF found # {} THEN CHOOSE s \in found : TRUE
        ELSE d.suite

\* DecodeWebTTYEndpointIdentityJSON: one document whose public parts follow
\* from its private keys, of a suite of the build.
loads(p, d) == d.state = "valid" /\ d.suite \in profileSuites(p)

\* The file a command locks, and the command's own effect on a document:
\* the updated entries, or an error the command reports without writing.
lockedFile(c) ==
    CASE c.op \in {"create", "remove"} -> "identity"
      [] c.op \in {"knownAdd", "knownSet", "knownRemove"} -> "known"
      [] OTHER -> "clients"

Named(entries, n) == {e \in entries : e.name = n}

\* known-server add keeps the client identity of the entry it replaces.
knownServerAdd(entries, c) ==
    LET old == Named(entries, c.name)
        client == IF c.client = "" /\ old # {} THEN (CHOOSE e \in old : TRUE).client ELSE c.client
    IN  (entries \ old) \union {[name |-> c.name, suite |-> c.suite, client |-> client]}

knownServerSetIdentity(entries, c) ==
    {IF e.name = c.name THEN [e EXCEPT !.client = c.client] ELSE e : e \in entries}

authorizedClientAdd(entries, c) ==
    (entries \ Named(entries, c.name)) \union {[name |-> c.name, key |-> c.key]}

updated(entries, c) ==
    CASE c.op = "knownAdd" -> knownServerAdd(entries, c)
      [] c.op = "knownSet" -> knownServerSetIdentity(entries, c)
      [] c.op = "authAdd" -> authorizedClientAdd(entries, c)
      [] OTHER -> entries \ Named(entries, c.name)

\* set-identity and the two removals report a name that is not there.
finds(entries, c) == c.op \in {"knownAdd", "authAdd"} \/ Named(entries, c.name) # {}

-----------------------------------------------------------------------------
Init ==
    /\ identity \in {[state |-> "absent", key |-> 0, suite |-> "x25519"],
                     [state |-> "broken", key |-> 0, suite |-> "x25519"]}
    /\ known = [there |-> FALSE, suite |-> "x25519", entries |-> {}]
    /\ clients = {}
    /\ prepared = [state |-> "absent", by |-> NoProc, files |-> 0, suite |-> "", entry |-> ""]
    /\ lock = [f \in Files |-> NoProc]
    /\ pc = [p \in Procs |-> "idle"]
    /\ cmd = [p \in Procs |-> [op |-> "none"]]
    /\ doc = [p \in Procs |-> NoDoc]
    /\ keys = 0
    /\ runs = 0
    /\ returned = {}
    /\ ideal = [known |-> {}, clients |-> {}]

\* A command starts; a suite its build does not have is refused at once, and
\* so is a preparation whose directory is already there.
Start(p, c) ==
    /\ pc[p] = "idle" /\ runs < MaxRuns
    /\ c.op \in {"create", "knownAdd", "prepare"} => c.suite \in profileSuites(p) \union {"any"}
    /\ c.op = "prepare" => prepared.state = "absent"
    /\ cmd' = [cmd EXCEPT ![p] = c]
    /\ pc' = [pc EXCEPT ![p] = IF c.op = "prepare" THEN "mkdir" ELSE "lock"]
    /\ runs' = runs + 1
    /\ UNCHANGED <<identity, known, clients, prepared, lock, doc, keys, returned, ideal>>

Finish(p) ==
    /\ pc' = [pc EXCEPT ![p] = "idle"]
    /\ cmd' = [cmd EXCEPT ![p] = [op |-> "none"]]
    /\ doc' = [doc EXCEPT ![p] = NoDoc]

\* The document a command reads under its lock: an absent known-servers file
\* is an empty document of the build's own suite.
readDoc(p, c) ==
    CASE lockedFile(c) = "known" /\ known.there -> [of |-> "known", suite |-> known.suite, entries |-> known.entries]
      [] lockedFile(c) = "known" -> [of |-> "known", suite |-> defaultSuite(p), entries |-> {}]
      [] lockedFile(c) = "clients" -> [of |-> "clients", entries |-> clients]
      [] OTHER -> [of |-> "identity", state |-> identity.state, key |-> identity.key, suite |-> identity.suite]

LockFile(p) ==
    LET f == lockedFile(cmd[p])
    IN  /\ pc[p] = "lock"
        /\ lock[f] = NoProc
        /\ lock' = [lock EXCEPT ![f] = p]
        /\ doc' = [doc EXCEPT ![p] = readDoc(p, cmd[p])]
        /\ pc' = [pc EXCEPT ![p] = "write"]
        /\ UNCHANGED <<identity, known, clients, prepared, cmd, keys, runs, returned, ideal>>

Unlock(p) == lock' = [f \in Files |-> IF lock[f] = p THEN NoProc ELSE lock[f]]

\* loadOrCreateWebTTYEndpointIdentityFile under its lock: an identity that
\* loads is returned, only a missing file is created, and an identity of
\* another suite than the one asked for is an error.
LoadOrCreate(p) ==
    LET d == doc[p]
        want == IF cmd[p].suite = "any" THEN defaultSuite(p) ELSE cmd[p].suite
    IN  /\ pc[p] = "write" /\ cmd[p].op = "create"
        /\ \/ /\ loads(p, d)
              /\ cmd[p].suite \in {"any", d.suite}
              /\ returned' = returned \union {[key |-> d.key, suite |-> d.suite, asked |-> cmd[p].suite, profile |-> Profile[p]]}
              /\ UNCHANGED <<identity, keys>>
           \/ /\ d.state = "absent"
              /\ keys' = keys + 1
              /\ identity' = [state |-> "valid", key |-> keys + 1, suite |-> want]
              /\ returned' = returned \union {[key |-> keys + 1, suite |-> want, asked |-> cmd[p].suite, profile |-> Profile[p]]}
        /\ Unlock(p) /\ Finish(p)
        /\ UNCHANGED <<known, clients, prepared, runs, ideal>>

RemoveIdentity(p) ==
    /\ pc[p] = "write" /\ cmd[p].op = "remove"
    /\ doc[p].state # "absent"
    /\ identity' = [identity EXCEPT !.state = "absent"]
    /\ returned' = {}
    /\ Unlock(p) /\ Finish(p)
    /\ UNCHANGED <<known, clients, prepared, keys, runs, ideal>>

UpdateKnownServers(p) ==
    LET d == doc[p]
        \* known-server add gives an empty document the suite of the new key.
        entries == updated(d.entries, cmd[p])
        base == IF cmd[p].op = "knownAdd" /\ d.entries = {} THEN cmd[p].suite ELSE d.suite
        next == [there |-> TRUE, entries |-> entries, suite |-> suiteMarker([suite |-> base, entries |-> entries])]
    IN  /\ pc[p] = "write" /\ lockedFile(cmd[p]) = "known"
        /\ validates(p, d)
        /\ finds(d.entries, cmd[p])
        /\ validates(p, next)
        /\ known' = next
        /\ ideal' = [ideal EXCEPT !.known = updated(@, cmd[p])]
        /\ Unlock(p) /\ Finish(p)
        /\ UNCHANGED <<identity, clients, prepared, keys, runs, returned>>

UpdateAuthorizedClients(p) ==
    /\ pc[p] = "write" /\ cmd[p].op \in {"authAdd", "authRemove"}
    /\ finds(doc[p].entries, cmd[p])
    /\ clients' = updated(doc[p].entries, cmd[p])
    /\ ideal' = [ideal EXCEPT !.clients = updated(@, cmd[p])]
    /\ Unlock(p) /\ Finish(p)
    /\ UNCHANGED <<identity, known, prepared, keys, runs, returned>>

\* Any step before the rename may fail, the document may be refused, or the
\* process may be killed: the file keeps what it held and the lock is freed.
Abandon(p) ==
    /\ pc[p] \in {"lock", "write", "mkdir"}
    /\ Unlock(p) /\ Finish(p)
    /\ UNCHANGED <<identity, known, clients, prepared, keys, runs, returned, ideal>>

\* writeWebTTYClientPreparation: the directory is made once, by whoever makes
\* it first, then three files are created exclusively.  The trust document
\* declares the X25519 suite whatever the suite of the server's key.
MakeDirectory(p) ==
    /\ pc[p] = "mkdir" /\ prepared.state = "absent"
    /\ prepared' = [state |-> "partial", by |-> p, files |-> 0, suite |-> "x25519", entry |-> cmd[p].suite]
    /\ pc' = [pc EXCEPT ![p] = "files"]
    /\ UNCHANGED <<identity, known, clients, lock, cmd, doc, keys, runs, returned, ideal>>

WritePreparedFile(p) ==
    /\ pc[p] = "files"
    /\ prepared' = [prepared EXCEPT !.files = @ + 1, !.state = IF @ = "partial" /\ prepared.files = 2 THEN "complete" ELSE @]
    /\ IF prepared.files = 2 THEN Finish(p) ELSE UNCHANGED <<pc, cmd, doc>>
    /\ UNCHANGED <<identity, known, clients, lock, keys, runs, returned, ideal>>

\* A failed file removes what this preparation made; a kill leaves it there.
PreparationFails(p) ==
    /\ pc[p] = "files"
    /\ \/ prepared' = [prepared EXCEPT !.state = "absent", !.files = 0, !.by = NoProc]
       \/ UNCHANGED prepared
    /\ Finish(p)
    /\ UNCHANGED <<identity, known, clients, lock, keys, runs, returned, ideal>>

Next ==
    \E p \in Procs :
        \/ \E c \in Commands : Start(p, c)
        \/ LockFile(p) \/ LoadOrCreate(p) \/ RemoveIdentity(p)
        \/ UpdateKnownServers(p) \/ UpdateAuthorizedClients(p)
        \/ Abandon(p)
        \/ MakeDirectory(p) \/ WritePreparedFile(p) \/ PreparationFails(p)

Spec == Init /\ [][Next]_vars

-----------------------------------------------------------------------------
TypeOK ==
    /\ identity.state \in {"absent", "valid", "broken"} /\ identity.suite \in Suites
    /\ known.suite \in Suites \union {"mixed"}
    /\ prepared.state \in {"absent", "partial", "complete"} /\ prepared.files \in 0..3
    /\ lock \in [Files -> Procs \union {NoProc}]
    /\ pc \in [Procs -> {"idle", "lock", "write", "mkdir", "files"}]
    /\ keys \in 0..MaxRuns /\ runs \in 0..MaxRuns

\* Every caller of LoadOrCreate since the identity was last removed was given
\* the identity that is on disk, whichever of them created it.
OneIdentity == \A r \in returned : identity.state = "valid" /\ r.key = identity.key

\* A caller that asked for a suite got it, and a FIPS build never gets, nor
\* creates, a legacy identity.
SuiteAsked ==
    \A r \in returned : /\ r.asked \in {"any", r.suite}
                        /\ r.profile = "fips" => r.suite = "p256"

\* No completed update of the known servers or of the authorized clients is
\* lost, whatever else ran at the same time.
UpdatesKept == known.entries = ideal.known /\ clients = ideal.clients

\* A known-servers file this program wrote can be read back by a standard
\* build always, and by a FIPS build once it has entries and all are P-256.
RoundTrips ==
    known.there => known.suite = "mixed" \/ inferSuites(known.entries) \subseteq {known.suite}

FilesInv == OneIdentity /\ SuiteAsked /\ UpdatesKept /\ RoundTrips

\* An identity file that does not load is never replaced: it can only be
\* removed.  And a prepared directory, once complete, is never taken apart by
\* the clean-up of another preparation.
NeverOverwrites ==
    /\ identity.state = "broken" => identity'.state \in {"broken", "absent"}
    /\ identity.state = "valid" /\ identity'.state = "valid" => identity' = identity
    /\ prepared.state = "complete" => prepared' = prepared
=============================================================================
