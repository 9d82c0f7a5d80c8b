--------------------------- MODULE ExternalSigner ---------------------------
(* The external mTLS signer: a helper program, run once per operation,     *)
(* gives the public identity and signs handshakes.  One Provider is shared *)
(* by the copies of a tls.Config; calls are handshakes and one diagnostic. *)
(*                                                                         *)
(* A step ends where a channel, a lock or the helper lets others in.  The  *)
(* helper is external: it answers anything, writes too much, starts a      *)
(* process that keeps its pipes, or never ends.                            *)
EXTENDS Integers, Sequences, FiniteSets, SequencesExt

CONSTANTS Calls,     \* handshakes and checks
          Ops,       \* what they may be: "handshake", "old", "check"
          Settings,  \* the storage the configuration may name
          Keys,      \* public keys of the enrolled certificate
          Offers,    \* capabilities the helper may list
          None       \* nothing: no identity, no response, an empty field

VARIABLES storage, provider, cert, now, identity, loading, gate, call, helper

vars == <<storage, provider, cert, now, identity, loading, gate, call, helper>>

-----------------------------------------------------------------------------
(* Algorithms: hash is 0 when the message itself is signed.                *)

Algorithm(name, hash, key, pss) == [name |-> name, hash |-> hash, key |-> key, pss |-> pss]
algorithms ==
  <<Algorithm("ecdsa_secp256r1_sha256", 256, "p256", FALSE), Algorithm("ecdsa_secp384r1_sha384", 384, "p384", FALSE),
    Algorithm("ecdsa_secp521r1_sha512", 512, "p521", FALSE), Algorithm("rsa_pss_rsae_sha256", 256, "rsa", TRUE),
    Algorithm("rsa_pss_rsae_sha384", 384, "rsa", TRUE), Algorithm("rsa_pss_rsae_sha512", 512, "rsa", TRUE),
    Algorithm("rsa_pkcs1_sha256", 256, "rsa", FALSE), Algorithm("rsa_pkcs1_sha384", 384, "rsa", FALSE),
    Algorithm("rsa_pkcs1_sha512", 512, "rsa", FALSE), Algorithm("ed25519", 0, "ed25519", FALSE)>>

Supports(a, key) == a.key = key        \* an RSA key of less than 2048 bits has no algorithm: it is of no kind
Listed(name) == {a \in ToSet(algorithms) : a.name = name}

\* The first algorithm of the table for this key and these options.
selectAlgorithm(key, hash, pss) ==
  LET Fits(a) == Supports(a, key) /\ a.hash = hash /\ a.pss = pss
      fitting == SelectSeq(algorithms, Fits)
  IN IF fitting = << >> THEN None ELSE Head(fitting)

\* What is signed: the message of a call or its digest.
Digest(a, data) == IF a.hash = 0 THEN data ELSE [data EXCEPT !.form = "digest"]

-----------------------------------------------------------------------------
(* newExecMTLSProvider and New.                                            *)

Accepted(o) ==
  /\ ~o.fips /\ o.exec /\ ~o.other /\ o.print = 32 /\ o.absolute
  /\ \A i \in DOMAIN o.timeout : o.timeout[i] > 0 /\ o.timeout[i] <= 60      \* seconds; << >> when unset
  /\ o.concurrency >= 0 /\ o.concurrency <= 32
  /\ o.args <= 128 /\ o.names
MaxConcurrency == IF storage.concurrency = 0 THEN 1 ELSE storage.concurrency

NewProvider ==
  /\ provider = None
  /\ provider' = IF Accepted(storage) THEN "ready" ELSE "refused"
  /\ UNCHANGED <<storage, cert, now, identity, loading, gate, call, helper>>

NoRequest == [operation |-> None, algorithm |-> None, input |-> None, data |-> None]
NoHelper == [main |-> FALSE, child |-> FALSE, over |-> FALSE, answer |-> None]
Idle(op) == [pc |-> "idle", op |-> op, ctx |-> "live", loadLate |-> FALSE, runLate |-> FALSE, id |-> None,
             request |-> NoRequest, verify |-> None, todo |-> << >>, signed |-> {}, response |-> None, out |-> None]

Init ==
  /\ storage \in Settings /\ provider = None
  /\ cert \in [key : Keys, usage : BOOLEAN] /\ now \in {"early", "valid"}
  /\ identity = None /\ loading = {} /\ gate = {}
  /\ \E ops \in [Calls -> Ops] : call = [c \in Calls |-> Idle(ops[c])]
  /\ helper = [c \in Calls |-> NoHelper]

validLeaf == now = "valid" /\ cert.usage

\* The context of the helper's run: the handshake's (for QUIC the dial's, which
\* WithDial carries), bounded by the timeout of the load and of the run.
Ended(c) == call[c].ctx = "ended" \/ call[c].loadLate \/ call[c].runLate

At(c, pc) == call[c].pc = pc
Set(c, r) == call' = [call EXCEPT ![c] = r]
Over(c, out) == [call[c] EXCEPT !.pc = "over", !.out = out]
Ask(r, request, verify) == [r EXCEPT !.pc = "gate", !.runLate = FALSE, !.request = request, !.verify = verify, !.response = None]

-----------------------------------------------------------------------------
(* loadIdentity.                                                           *)

\* The identity is there: the certificate of a handshake, or what Check signs.
Loaded(c, id) ==
  [call[c] EXCEPT !.id = id, !.loadLate = FALSE, !.runLate = FALSE,
     !.pc = IF @ = "over" THEN @ ELSE IF call[c].op = "check" THEN "check" ELSE "leaf",
     !.todo = SelectSeq(algorithms, LAMBDA a : a.name \in DOMAIN id.inputs)]

\* GetClientCertificate or Check: the cached identity, or wait to load it.
Begin(c) ==
  /\ provider = "ready" /\ At(c, "idle")
  /\ Set(c, IF call[c].op = "old" THEN Over(c, "error")
            ELSE IF identity # None THEN Loaded(c, identity)
            ELSE [call[c] EXCEPT !.pc = "load"])
  /\ UNCHANGED <<storage, provider, cert, now, identity, loading, gate, helper>>

\* The slot is ours; someone else may have loaded meanwhile, and only the holder
\* of the slot loads.
LoadSlot(c) ==
  /\ At(c, "load") /\ loading = {}
  /\ IF identity # None
     THEN Set(c, Loaded(c, identity)) /\ UNCHANGED loading
     ELSE /\ Set(c, Ask(call[c], [NoRequest EXCEPT !.operation = "identity"], None))
          /\ loading' = {c}
  /\ UNCHANGED <<storage, provider, cert, now, identity, gate, helper>>

LoadGivesUp(c) ==
  /\ At(c, "load") /\ Ended(c)
  /\ Set(c, Over(c, "error"))
  /\ UNCHANGED <<storage, provider, cert, now, identity, loading, gate, helper>>

\* Only the enrolled certificate, with capabilities its key has.
parseIdentity(r) ==
  /\ r.sig = None /\ Len(r.caps) \in 1 .. Len(algorithms)
  /\ r.leaf = "enrolled" /\ validLeaf
  /\ \A i \in DOMAIN r.caps :
       LET found == Listed(r.caps[i].algorithm) inputs == r.caps[i].inputs IN
       /\ found # {} /\ \A a \in found : Supports(a, cert.key)
       /\ \A j \in 1 .. i - 1 : r.caps[j].algorithm # r.caps[i].algorithm
       /\ Len(inputs) \in {1, 2} /\ IsInjective(inputs)
       /\ \A a \in found : \A k \in DOMAIN inputs :
            inputs[k] \in {"message", "digest"} /\ (a.hash = 0 => inputs[k] = "message")
NewIdentity(r) ==
  [leaf |-> r.leaf, inputs |-> [n \in {r.caps[i].algorithm : i \in DOMAIN r.caps} |->
                                  ToSet(r.caps[CHOOSE i \in DOMAIN r.caps : r.caps[i].algorithm = n].inputs)]]

Store(c) ==
  /\ At(c, "parse") /\ call[c].request.operation = "identity"
  /\ loading' = loading \ {c}
  /\ IF call[c].response # None /\ parseIdentity(call[c].response)
     THEN LET id == NewIdentity(call[c].response) IN identity' = id /\ Set(c, Loaded(c, id))
     ELSE UNCHANGED identity /\ Set(c, Over(c, "error"))
  /\ UNCHANGED <<storage, provider, cert, now, gate, helper>>

\* The certificate may have expired since, and the server may accept none of the
\* signature algorithms; otherwise TLS has the certificate and signs later.
GetClientCertificate(c) ==
  /\ At(c, "leaf")
  /\ \E supported \in BOOLEAN :
       Set(c, IF validLeaf /\ supported THEN [call[c] EXCEPT !.pc = "cert"] ELSE Over(c, "error"))
  /\ UNCHANGED <<storage, provider, cert, now, identity, loading, gate, helper>>

-----------------------------------------------------------------------------
(* sign.                                                                   *)

\* The call with its request to the helper, or failed: the helper gets the form it
\* can sign, and the signature is verified against the digest.
Signing(c, a, message) ==
  LET inputs == call[c].id.inputs[a.name]
      data == [of |-> c, form |-> IF message \/ a.hash = 0 THEN "message" ELSE "digest"]
      digest == IF message THEN Digest(a, data) ELSE data
      asMessage == message \/ a.hash = 0
      input == IF asMessage /\ "message" \in inputs THEN "message" ELSE "digest"
      sent == IF asMessage /\ "message" \notin inputs THEN digest ELSE data
  IN IF input \notin inputs THEN Over(c, "error")
     ELSE Ask(call[c], [operation |-> "sign", algorithm |-> a, input |-> input, data |-> sent], digest)

\* A handshake: TLS names one of the algorithms of the certificate.
Sign(c) ==
  /\ At(c, "cert")
  /\ \E name \in DOMAIN call[c].id.inputs, message \in BOOLEAN, a \in ToSet(algorithms) :
       /\ a.name = name
       /\ LET chosen == selectAlgorithm(cert.key, a.hash, a.pss) IN
          Set(c, IF chosen = None THEN Over(c, "error") ELSE Signing(c, chosen, message))
  /\ UNCHANGED <<storage, provider, cert, now, identity, loading, gate, helper>>

\* Check: a challenge for the next algorithm the identity lists.
CheckNext(c) ==
  /\ At(c, "check")
  /\ IF call[c].todo = << >> THEN Set(c, Over(c, "certificate"))
     ELSE LET a == Head(call[c].todo)
              chosen == selectAlgorithm(cert.key, a.hash, a.pss)
          IN Set(c, IF chosen = None THEN Over(c, "error") ELSE [Signing(c, chosen, TRUE) EXCEPT !.todo = Tail(@)])
  /\ UNCHANGED <<storage, provider, cert, now, identity, loading, gate, helper>>

\* The signature has to verify with the enrolled key.
Signature(key, a, data) == [key |-> key, algorithm |-> a.name, data |-> data]
Verified(c) ==
  LET r == call[c].response a == call[c].request.algorithm IN
  r # None /\ r.leaf = None /\ r.caps = << >> /\ r.sig = Signature(cert.key, a, call[c].verify)
SignReturns(c) ==
  /\ At(c, "parse") /\ call[c].request.operation = "sign"
  /\ Set(c, IF ~Verified(c) THEN Over(c, "error")
            ELSE [call[c] EXCEPT !.signed = @ \cup {call[c].request.algorithm.name},
                                 !.pc = IF call[c].op = "check" THEN "check" ELSE "over",
                                 !.out = IF call[c].op = "check" THEN @ ELSE "signature"])
  /\ UNCHANGED <<storage, provider, cert, now, identity, loading, gate, helper>>

-----------------------------------------------------------------------------
(* run: the gate, the helper, its end, the end of its process group.       *)

TakeGate(c) ==
  /\ At(c, "gate") /\ Cardinality(gate) < MaxConcurrency
  /\ gate' = gate \cup {c} /\ Set(c, [call[c] EXCEPT !.pc = "start"])
  /\ UNCHANGED <<storage, provider, cert, now, identity, loading, helper>>

GateGivesUp(c) ==
  /\ At(c, "gate") /\ Ended(c)
  /\ Set(c, [call[c] EXCEPT !.pc = "parse"])
  /\ UNCHANGED <<storage, provider, cert, now, identity, loading, gate, helper>>

\* The executable and the environment may have gone bad since the configuration
\* was read.
Start(c) ==
  /\ At(c, "start")
  /\ \/ Set(c, [call[c] EXCEPT !.pc = "release"]) /\ UNCHANGED helper
     \/ /\ ~Ended(c)
        /\ Set(c, [call[c] EXCEPT !.pc = "run"])
        /\ helper' = [helper EXCEPT ![c] = [NoHelper EXCEPT !.main = TRUE]]
  /\ UNCHANGED <<storage, provider, cert, now, identity, loading, gate>>

\* cmd.Cancel: the context ended while the helper runs, and its group is killed.
Kill(c) ==
  /\ At(c, "run") /\ helper[c].main /\ Ended(c)
  /\ helper' = [helper EXCEPT ![c].main = FALSE, ![c].child = FALSE]
  /\ UNCHANGED <<storage, provider, cert, now, identity, loading, gate, call>>

\* cmd.Run returns once the helper is gone and its pipes are closed, or WaitDelay
\* after; only a run in time, within its limits and with a response counts.
RunReturns(c) ==
  /\ At(c, "run") /\ ~helper[c].main
  /\ Set(c, [call[c] EXCEPT !.pc = "clean",
               !.response = IF helper[c].over \/ Ended(c) \/ helper[c].child THEN None ELSE helper[c].answer])
  /\ UNCHANGED <<storage, provider, cert, now, identity, loading, gate, helper>>

\* The deferred calls, in their order: kill what is left of the group, then
\* leave the gate.
Cleanup(c) ==
  /\ At(c, "clean")
  /\ helper' = [helper EXCEPT ![c] = NoHelper] /\ Set(c, [call[c] EXCEPT !.pc = "release"])
  /\ UNCHANGED <<storage, provider, cert, now, identity, loading, gate>>

Release(c) ==
  /\ At(c, "release")
  /\ gate' = gate \ {c} /\ Set(c, [call[c] EXCEPT !.pc = "parse"])
  /\ UNCHANGED <<storage, provider, cert, now, identity, loading, helper>>

-----------------------------------------------------------------------------
(* The helper, the timers, the dial and the clock.                         *)

Response(leaf, caps, sig) == [leaf |-> leaf, caps |-> caps, sig |-> sig]

\* What the protocol asks of a helper that holds the key.
Honest(c) ==
  LET q == call[c].request a == q.algorithm IN
  Signature(cert.key, a, IF q.input = "message" THEN Digest(a, q.data) ELSE q.data)

\* None stands for output that is no response: an exit status, an error, another
\* version, no JSON.
Answers(c) ==
  {None} \cup (IF call[c].request.operation = "identity"
               THEN {Response(leaf, caps, None) : leaf \in {"enrolled", "other"}, caps \in Offers}
               ELSE {Response(None, << >>, sig) : sig \in {None, Honest(c), [Honest(c) EXCEPT !.key = "other"]}})

HelperForks(c) ==
  /\ helper[c].main /\ ~helper[c].child
  /\ helper' = [helper EXCEPT ![c].child = TRUE]
  /\ UNCHANGED <<storage, provider, cert, now, identity, loading, gate, call>>

ChildEnds(c) ==
  /\ helper[c].child
  /\ helper' = [helper EXCEPT ![c].child = FALSE]
  /\ UNCHANGED <<storage, provider, cert, now, identity, loading, gate, call>>

HelperExits(c) ==
  /\ helper[c].main
  /\ \E answer \in Answers(c) : helper' = [helper EXCEPT ![c].main = FALSE, ![c].answer = answer]
  /\ UNCHANGED <<storage, provider, cert, now, identity, loading, gate, call>>

\* limitedOutput: the write beyond the limit cancels the run.
HelperFloods(c) ==
  /\ helper[c].main /\ ~helper[c].over
  /\ helper' = [helper EXCEPT ![c].over = TRUE] /\ Set(c, [call[c] EXCEPT !.runLate = TRUE])
  /\ UNCHANGED <<storage, provider, cert, now, identity, loading, gate>>

LoadTimeout(c) ==
  /\ (At(c, "load") \/ c \in loading) /\ ~call[c].loadLate
  /\ Set(c, [call[c] EXCEPT !.loadLate = TRUE])
  /\ UNCHANGED <<storage, provider, cert, now, identity, loading, gate, helper>>

RunTimeout(c) ==
  /\ call[c].pc \in {"gate", "start", "run"} /\ ~call[c].runLate
  /\ Set(c, [call[c] EXCEPT !.runLate = TRUE])
  /\ UNCHANGED <<storage, provider, cert, now, identity, loading, gate, helper>>

CancelDial(c) ==
  /\ call[c].pc # "over" /\ call[c].ctx = "live"
  /\ Set(c, [call[c] EXCEPT !.ctx = "ended"])
  /\ UNCHANGED <<storage, provider, cert, now, identity, loading, gate, helper>>

Tick ==
  /\ now # "late" /\ now' = IF now = "early" THEN "valid" ELSE "late"
  /\ UNCHANGED <<storage, provider, cert, identity, loading, gate, call, helper>>

-----------------------------------------------------------------------------
CallRuns(c) ==
  \/ Begin(c) \/ LoadSlot(c) \/ LoadGivesUp(c) \/ Store(c) \/ GetClientCertificate(c) \/ CheckNext(c)
  \/ SignReturns(c) \/ TakeGate(c) \/ GateGivesUp(c) \/ Start(c) \/ Kill(c) \/ RunReturns(c) \/ Cleanup(c)
  \/ Release(c) \/ LoadTimeout(c) \/ RunTimeout(c)
Runs == NewProvider \/ \E c \in Calls : CallRuns(c)
Next ==
  \/ Runs \/ Tick
  \/ \E c \in Calls : Sign(c) \/ HelperForks(c) \/ ChildEnds(c) \/ HelperExits(c) \/ HelperFloods(c) \/ CancelDial(c)

Spec == Init /\ [][Next]_vars /\ WF_vars(Runs)

TypeOK ==
  /\ provider \in {None, "ready", "refused"} /\ now \in {"early", "valid", "late"}
  /\ loading \subseteq Calls /\ gate \subseteq Calls
  /\ \A c \in Calls :
       /\ call[c].pc \in {"idle", "load", "gate", "start", "run", "clean", "release", "parse", "leaf", "cert", "check", "over"}
       /\ call[c].out \in {None, "error", "signature", "certificate"}

\* The gate bounds the helpers, what they started included: nothing of a helper
\* runs once its call has left run, so a TLS handshake leaves no process behind.
HelpersBounded ==
  /\ \A c \in Calls : helper[c].main \/ helper[c].child => c \in gate
  /\ provider = "ready" => Cardinality({c \in Calls : helper[c].main \/ helper[c].child}) <= MaxConcurrency

\* One identity load at a time, and none once an identity is cached; every call
\* uses the one that is.
OneIdentity ==
  /\ \A c \in Calls : helper[c].main /\ call[c].request.operation = "identity" => loading = {c} /\ identity = None
  /\ \A c \in Calls : call[c].id \in {None, identity}

\* The cached identity is the enrolled certificate, and its capabilities are those
\* sign can use: for each the table gives back the same algorithm, and the helper
\* has an input for the digest it is asked for.
IdentityUsable ==
  identity # None =>
    /\ identity.leaf = "enrolled"
    /\ \A n \in DOMAIN identity.inputs : \A a \in Listed(n) :
         selectAlgorithm(cert.key, a.hash, a.pss) = a /\ identity.inputs[n] # {}

\* A helper that follows the protocol is believed: what it is asked to sign, in
\* the form it is asked to, is what the handshake verifies.
HonestVerifies ==
  \A c \in Calls : call[c].pc \in {"gate", "start", "run"} /\ call[c].request.operation = "sign" =>
    Honest(c) = Signature(cert.key, call[c].request.algorithm, call[c].verify)

\* Check vouches for every algorithm the identity advertises.
CheckCovers ==
  \A c \in Calls : call[c].out = "certificate" => call[c].signed = DOMAIN identity.inputs

SignerInv == HelpersBounded /\ OneIdentity /\ IdentityUsable /\ HonestVerifies /\ CheckCovers

\* Whatever the helper does, a handshake's wait for it and a check end; between
\* the certificate and the signature TLS has the word.
SettledCall(c) == call[c].pc \in {"over", "cert"} \/ (At(c, "idle") /\ provider = "refused")
=============================================================================
