--------------------------- MODULE UploadReceipts ---------------------------
(***************************************************************************)
(* Durable uploads of the filesystem service (filesystem/receipts.go,      *)
(* atomic_upload.go, preconditions.go).  A PUT with an Upload-Id writes a  *)
(* pending record, stages the body in a temporary file, marks the record   *)
(* prepared, renames the file onto its target and publishes a receipt.     *)
(* Several processes serve the export, one mutation at a time under a file *)
(* lock; whoever takes the lock first settles what a dead process left.    *)
(*                                                                         *)
(* A directory is what its operations made it and, separately, what is on  *)
(* disk since its last sync.  A crash of a process leaves all of it; a     *)
(* power loss keeps of each directory either version.  A step of storage   *)
(* may fail: a journal write that fails after its rename fails in its sync.*)
(***************************************************************************)
EXTENDS Naturals, FiniteSets

CONSTANTS
  Actors,     \* handlers, each in a process of its own
  Requests,   \* mutations: [key, op, id, content, match, none]
  Limit,      \* of receipts: 4096 in the code
  None

VARIABLES
  lock,            \* the actor that has the mutation lock, or None
  pend, pendD,     \* the pending record, and the one on disk
  rcpt, rcptD,     \* the receipts by id
  dir, dirD,       \* the export: the target, staging files, and who published
  act,             \* the handlers
  sent,            \* requests that have been sent
  renames,         \* history: requests whose file was ever renamed
  settled,         \* history: ids whose pending record recovery removed because a receipt was there
  lost             \* history: ids that wrote and of which a power loss left no record

histVars == <<renames, settled, lost>>
diskVars == <<pend, pendD, rcpt, rcptD, dir, dirD, histVars>>
vars == <<lock, diskVars, act, sent>>

Ids == {r.id : r \in Requests} \ {None}
Durable(r) == r.id # None
Fingerprint(r) == <<r.content, r.match, r.none>>
Idle == [pc |-> "idle", req |-> None, id |-> None, of |-> None, outcome |-> None, back |-> None, known |-> FALSE]

Init ==
  /\ lock = None
  /\ pend = None /\ pendD = None
  /\ rcpt = [i \in Ids |-> None] /\ rcptD = rcpt
  /\ dir = [target |-> None, temps |-> {}, published |-> {}] /\ dirD = dir
  /\ act = [a \in Actors |-> Idle]
  /\ sent = {} /\ renames = {} /\ settled = {} /\ lost = {}

At(a, pc) == act[a].pc = pc
Go(a, pc) == act' = [act EXCEPT ![a].pc = pc]

\* completeReceipt for the request r, after which the handler goes on at back.
Complete(a, r, outcome, back) ==
  act' = [act EXCEPT ![a] = [@ EXCEPT !.pc = "terminal", !.of = r, !.outcome = outcome, !.back = back]]

\* The response is written and what the handler held is released.
Respond(a, outcome) == act' = [act EXCEPT ![a] = [@ EXCEPT !.pc = "answer", !.outcome = outcome]]

-----------------------------------------------------------------------------
(* Admission, and recovery under the lock.                                 *)

Mutate(a, r) ==
  /\ At(a, "idle") /\ lock = None /\ r \notin sent
  /\ lock' = a /\ sent' = sent \cup {r}
  /\ act' = [act EXCEPT ![a] = [Idle EXCEPT !.pc = "recover", !.req = r, !.back = "admit"]]
  /\ UNCHANGED diskVars

Known(i) == (pend # None /\ pend.req.id = i) \/ rcpt[i] # None

\* serveReceipt: only a lock owner may settle an old attempt.
Lookup(a, i) ==
  /\ At(a, "idle")
  /\ lock' = IF lock = None THEN a ELSE lock
  /\ act' = [act EXCEPT ![a] = [Idle EXCEPT !.pc = IF lock = None THEN "recover" ELSE "read",
                                            !.id = i, !.back = "read", !.known = Known(i)]]
  /\ UNCHANGED <<diskVars, sent>>

\* A prepared attempt whose staging file is gone counts as committed.
RecoverTrusting(a) ==
  /\ At(a, "recover")
  /\ settled' = IF pend # None /\ rcpt[pend.req.id] # None THEN settled \cup {pend.req.id} ELSE settled
  /\ IF pend = None THEN Go(a, act[a].back) /\ UNCHANGED dir
     ELSE IF rcpt[pend.req.id] # None THEN Go(a, "unpend") /\ UNCHANGED dir
     ELSE IF pend.req \in dir.temps /\ (pend.named \/ pend.state = "prepared")
     THEN /\ dir' = [dir EXCEPT !.temps = @ \ {pend.req}]
          /\ Complete(a, pend.req, "interrupted", act[a].back)
     ELSE /\ UNCHANGED dir
          /\ Complete(a, pend.req, IF pend.state = "receiving" THEN "interrupted" ELSE "committed", act[a].back)
  /\ UNCHANGED <<lock, pend, pendD, rcpt, rcptD, dirD, renames, lost, sent>>

\* recoverReceipt: what the pending record and the export show of the attempt.
Recover(a) ==
  /\ At(a, "recover")
  /\ settled' = IF pend # None /\ rcpt[pend.req.id] # None THEN settled \cup {pend.req.id} ELSE settled
  /\ IF pend = None THEN Go(a, act[a].back) /\ UNCHANGED dir
     ELSE IF rcpt[pend.req.id] # None THEN Go(a, "unpend") /\ UNCHANGED dir
     ELSE IF pend.req \in dir.temps /\ (pend.named \/ pend.state = "prepared")
     THEN /\ dir' = [dir EXCEPT !.temps = @ \ {pend.req}]
          /\ Complete(a, pend.req, "interrupted", act[a].back)
     ELSE /\ UNCHANGED dir
          /\ IF pend.state = "receiving" THEN Complete(a, pend.req, "interrupted", act[a].back)
             ELSE IF dir.target = pend.req THEN Go(a, "resync")
             ELSE Complete(a, pend.req, "uncertain", act[a].back)
  /\ UNCHANGED <<lock, pend, pendD, rcpt, rcptD, dirD, renames, lost, sent>>

Resync(a) ==
  /\ At(a, "resync")
  /\ dirD' = dir
  /\ Complete(a, pend.req, "committed", act[a].back)
  /\ UNCHANGED <<lock, pend, pendD, rcpt, rcptD, dir, histVars, sent>>

-----------------------------------------------------------------------------
(* completeReceipt: the receipt, its sync, the pending record, its sync.   *)

Terminal(a) ==
  /\ At(a, "terminal")
  /\ rcpt' = [rcpt EXCEPT ![act[a].of.id] = [req |-> act[a].of, state |-> act[a].outcome]]
  /\ Go(a, "syncreceipt")
  /\ UNCHANGED <<lock, pend, pendD, rcptD, dir, dirD, histVars, sent>>

SyncReceipt(a) ==
  /\ At(a, "syncreceipt")
  /\ rcptD' = rcpt /\ Go(a, "unpend")
  /\ UNCHANGED <<lock, pend, pendD, rcpt, dir, dirD, histVars, sent>>

Unpend(a) ==
  /\ At(a, "unpend")
  /\ pend' = None /\ Go(a, "syncunpend")
  /\ UNCHANGED <<lock, pendD, rcpt, rcptD, dir, dirD, histVars, sent>>

SyncUnpend(a) ==
  /\ At(a, "syncunpend")
  /\ pendD' = pend /\ Go(a, act[a].back)
  /\ UNCHANGED <<lock, pend, rcpt, rcptD, dir, dirD, histVars, sent>>

-----------------------------------------------------------------------------
(* The mutation.                                                           *)

Receipts == {i \in Ids : rcpt[i] # None}

\* A known id is answered with its receipt; a full journal refuses new ones.
Admit(a) ==
  LET r == act[a].req IN
  /\ At(a, "admit")
  /\ IF ~Durable(r) THEN Go(a, "check")
     ELSE IF rcpt[r.id] # None
     THEN Respond(a, IF Fingerprint(rcpt[r.id].req) = Fingerprint(r) THEN rcpt[r.id].state ELSE "conflict")
     ELSE IF Cardinality(Receipts) >= Limit THEN Respond(a, "full")
     ELSE Go(a, "probe")
  /\ UNCHANGED <<lock, diskVars, sent>>

\* Before anything is written both directories of the journal are probed,
\* which syncs them.
Probe(a) ==
  /\ At(a, "probe")
  /\ rcptD' = rcpt /\ pendD' = pend /\ Go(a, "begin")
  /\ UNCHANGED <<lock, pend, rcpt, dir, dirD, histVars, sent>>

\* The three writes of the pending record, each with its sync: begun, with the
\* name of the staging file, prepared.
PendRecord(a, pc) ==
  [req |-> act[a].req, state |-> IF pc = "prepare" THEN "prepared" ELSE "receiving", named |-> pc # "begin"]

WritePend(a, pc) ==
  /\ At(a, pc)
  /\ pend' = PendRecord(a, pc)
  /\ Go(a, CASE pc = "begin" -> "syncbegin" [] pc = "name" -> "syncname" [] pc = "prepare" -> "syncprepare")
  /\ UNCHANGED <<lock, pendD, rcpt, rcptD, dir, dirD, histVars, sent>>

SyncPend(a, pc) ==
  /\ At(a, pc)
  /\ pendD' = pend
  /\ Go(a, CASE pc = "syncbegin" -> "check" [] pc = "syncname" -> "body" [] pc = "syncprepare" -> "rename")
  /\ UNCHANGED <<lock, pend, rcpt, rcptD, dir, dirD, histVars, sent>>

\* matchRevision: a condition is absent, malformed, "*" or a list of entity
\* tags, of which If-Match does not accept weak ones.
Matches(c, weakAllowed) ==
  /\ dir.target # None
  /\ c.kind = "any" \/ \E t \in c.tags : t.of = dir.target.content /\ (weakAllowed \/ ~t.weak)
MatchHolds(r) == r.match.kind = "none" \/ Matches(r.match, FALSE)
NoneHolds(r) == r.none.kind = "none" \/ ~Matches(r.none, TRUE)
Valid(r) == "malformed" \notin {r.match.kind, r.none.kind}
CondHolds(r) == Valid(r) /\ MatchHolds(r) /\ NoneHolds(r)

\* The attempt ends without effect; its staging file is removed.
Reject(a, gone) ==
  LET r == act[a].req IN
  /\ dir' = IF gone THEN [dir EXCEPT !.temps = @ \ {r}] ELSE dir
  /\ IF Durable(r) THEN Complete(a, r, "rejected", "answer") ELSE Respond(a, "failed")

\* If-Match is not looked at.
CheckNoneMatch(a) ==
  /\ At(a, "check")
  /\ IF Valid(act[a].req) /\ NoneHolds(act[a].req)
     THEN Go(a, IF act[a].req.op = "delete" THEN "delete" ELSE "open") /\ UNCHANGED dir
     ELSE Reject(a, TRUE)
  /\ UNCHANGED <<lock, pend, pendD, rcpt, rcptD, dirD, histVars, sent>>

Check(a) ==
  /\ At(a, "check")
  /\ IF CondHolds(act[a].req)
     THEN Go(a, IF act[a].req.op = "delete" THEN "delete" ELSE "open") /\ UNCHANGED dir
     ELSE Reject(a, TRUE)
  /\ UNCHANGED <<lock, pend, pendD, rcpt, rcptD, dirD, histVars, sent>>

Open(a) ==
  LET r == act[a].req IN
  /\ At(a, "open")
  /\ dir' = [dir EXCEPT !.temps = @ \cup {r}]
  /\ Go(a, IF Durable(r) THEN "name" ELSE "body")
  /\ UNCHANGED <<lock, pend, pendD, rcpt, rcptD, dirD, histVars, sent>>

\* The body is complete and has its length and digest, or the upload ends.
Body(a) ==
  /\ At(a, "body")
  /\ \/ Go(a, IF Durable(act[a].req) THEN "prepare" ELSE "rename") /\ UNCHANGED dir
     \/ Reject(a, TRUE)
  /\ UNCHANGED <<lock, pend, pendD, rcpt, rcptD, dirD, histVars, sent>>

Rename(a) ==
  LET r == act[a].req IN
  /\ At(a, "rename")
  /\ dir' = [target |-> r, temps |-> dir.temps \ {r}, published |-> dir.published \cup {r}]
  /\ renames' = renames \cup {r}
  /\ IF Durable(r) THEN Go(a, "syncdir") ELSE Respond(a, "created")
  /\ UNCHANGED <<lock, pend, pendD, rcpt, rcptD, dirD, settled, lost, sent>>

SyncDir(a) ==
  /\ At(a, "syncdir")
  /\ dirD' = dir
  /\ Complete(a, act[a].req, "committed", "answer")
  /\ UNCHANGED <<lock, pend, pendD, rcpt, rcptD, dir, histVars, sent>>

Delete(a) ==
  /\ At(a, "delete")
  /\ dir' = [dir EXCEPT !.target = None]
  /\ Respond(a, "deleted")
  /\ UNCHANGED <<lock, pend, pendD, rcpt, rcptD, dirD, histVars, sent>>

-----------------------------------------------------------------------------
(* A lookup reads the receipt, the pending record, and the receipt again.  *)

Read(a) ==
  LET i == act[a].id IN
  /\ act[a].pc \in {"read", "readpend", "readagain"}
  /\ CASE At(a, "readpend") ->
            IF pend # None /\ pend.req.id = i THEN Respond(a, pend.state) ELSE Go(a, "readagain")
       [] At(a, "read") /\ rcpt[i] = None -> Go(a, "readpend")
       [] OTHER -> Respond(a, IF rcpt[i] = None THEN "notfound" ELSE rcpt[i].state)
  /\ UNCHANGED <<lock, diskVars, sent>>

Answer(a) ==
  /\ At(a, "answer")
  /\ lock' = IF lock = a THEN None ELSE lock
  /\ act' = [act EXCEPT ![a] = Idle]
  /\ UNCHANGED <<diskVars, sent>>

-----------------------------------------------------------------------------
(* Failures.                                                               *)

\* A step of storage fails without its effect: before the rename the attempt
\* is rejected, its staging file removed or not; elsewhere the answer is 503.
Fail(a) ==
  /\ \/ /\ act[a].pc \in {"check", "open", "name", "syncname", "prepare", "syncprepare", "rename"}
        /\ \E gone \in BOOLEAN : Reject(a, gone)
     \/ /\ act[a].pc \in {"recover", "resync", "terminal", "syncreceipt", "unpend", "syncunpend", "probe", "begin",
                          "syncbegin", "syncdir", "delete", "read", "readpend", "readagain"}
        /\ Respond(a, "unavailable")
        /\ UNCHANGED dir
  /\ UNCHANGED <<lock, pend, pendD, rcpt, rcptD, dirD, histVars, sent>>

\* External: a process dies; the operating system releases its lock.
Crash(a) ==
  /\ ~At(a, "idle")
  /\ lock' = IF lock = a THEN None ELSE lock
  /\ act' = [act EXCEPT ![a] = Idle]
  /\ UNCHANGED <<diskVars, sent>>

\* External: every process dies; a directory is as it was or as it was synced.
LosePower ==
  /\ lock' = None /\ act' = [a \in Actors |-> Idle]
  /\ pend' \in {pend, pendD} /\ pendD' = pend'
  /\ rcpt' \in {rcpt, rcptD} /\ rcptD' = rcpt'
  /\ dir' \in {dir, dirD} /\ dirD' = dir'
  /\ lost' = lost \cup {i \in {q.id : q \in renames} \ {None} : rcpt'[i] = None /\ (pend' = None \/ pend'.req.id # i)}
  /\ UNCHANGED <<sent, renames, settled>>

-----------------------------------------------------------------------------
Step(a) ==
  \/ Recover(a) \/ Resync(a) \/ Admit(a) \/ Probe(a)
  \/ Terminal(a) \/ SyncReceipt(a) \/ Unpend(a) \/ SyncUnpend(a)
  \/ \E pc \in {"begin", "name", "prepare"} : WritePend(a, pc)
  \/ \E pc \in {"syncbegin", "syncname", "syncprepare"} : SyncPend(a, pc)
  \/ Check(a) \/ Open(a) \/ Body(a) \/ Rename(a) \/ SyncDir(a) \/ Delete(a)
  \/ Read(a) \/ Answer(a)

Next ==
  \/ \E a \in Actors : Step(a) \/ Fail(a) \/ Crash(a)
  \/ \E a \in Actors, r \in Requests : Mutate(a, r)
  \/ \E a \in Actors, i \in Ids : Lookup(a, i)
  \/ LosePower

Spec == Init /\ [][Next]_vars

-----------------------------------------------------------------------------
(* Properties.                                                             *)

PendRecords == [req : Requests, state : {"receiving", "prepared"}, named : BOOLEAN] \cup {None}
ReceiptRecords == [req : Requests, state : {"committed", "rejected", "interrupted", "uncertain"}] \cup {None}
Directories == [target : Requests \cup {None}, temps : SUBSET Requests, published : SUBSET Requests]

\* Types; only one handler at a time is past admission.
TypeOK ==
  /\ lock \in Actors \cup {None}
  /\ pend \in PendRecords /\ pendD \in PendRecords
  /\ rcpt \in [Ids -> ReceiptRecords] /\ rcptD \in [Ids -> ReceiptRecords]
  /\ dir \in Directories /\ dirD \in Directories
  /\ sent \subseteq Requests /\ renames \subseteq Requests /\ settled \subseteq Ids /\ lost \subseteq Ids
  /\ \A a \in Actors : act[a].pc \notin {"idle", "read", "readpend", "readagain", "answer"} => lock = a

\* "An existing ID never starts another write, including after interruption or
\* an uncertain result": at most one request of an id ever renames its file.
AtMostOneWrite == \A r, s \in renames : Durable(r) /\ r.id = s.id => r = s

\* What the code keeps of it: an id writes again only after a power loss that
\* left neither its receipt nor its pending record, and that happens only when
\* recovery had removed the record without a sync of the receipt.  No other
\* crash, failure, power loss and retry lets an id write twice, in whatever
\* order they come.
OneWriteUnlessLost ==
  /\ \A r, s \in renames : Durable(r) /\ r.id = s.id => r = s \/ r.id \in lost
  /\ lost \subseteq settled

\* A receipt tells the truth: it says committed if and only if the file of its
\* attempt was published, whoever wrote the receipt and whatever failed.  For a
\* published file it may say uncertain when a recovery settled the attempt, the
\* power took that receipt and the file was removed in between.
ReceiptTruthful ==
  \A i \in Receipts :
    /\ rcpt[i].state = "committed" => rcpt[i].req \in dir.published
    /\ rcpt[i].req \in dir.published =>
         rcpt[i].state = "committed" \/ (rcpt[i].state = "uncertain" /\ i \in settled)

\* A lookup that starts when the attempt is on record does not answer that it
\* is unknown, though the record moves between two files while it reads.
LookupFinds == \A a \in Actors : At(a, "answer") /\ act[a].outcome = "notfound" => ~act[a].known

\* A PUT answered with committed stays so: its file and its receipt are on disk.
Committed(a) == At(a, "answer") /\ act[a].outcome = "committed" /\ act[a].req # None
AcknowledgedDurable ==
  \A a \in Actors : Committed(a) =>
    LET i == act[a].req.id IN
    rcptD[i] # None /\ rcptD[i].state = "committed" /\ rcptD[i].req \in dirD.published

\* What the code keeps of it: the file is on disk; the receipt may not be when
\* a recovery settled the attempt.
AcknowledgedUnlessSettled ==
  \A a \in Actors : Committed(a) =>
    LET i == act[a].req.id IN
    /\ rcpt[i].req \in dirD.published
    /\ rcptD[i] # None \/ i \in settled

\* The journal keeps its limit, though receipts are also written by recovery.
ReceiptsBounded == Cardinality(Receipts) <= Limit
\* What the journal and the export keep through crashes and failures.
UploadInv ==
  /\ TypeOK /\ OneWriteUnlessLost /\ ReceiptTruthful /\ LookupFinds /\ ReceiptsBounded
  /\ AcknowledgedUnlessSettled

\* No step rewrites a receipt: not the next recovery, a retry or a later
\* writer; a power loss may lose one that was not synced.  And no step
\* publishes a file over a target that does not satisfy the precondition of
\* its request, which was checked several steps before.
UploadStep == /\ \A i \in Receipts : rcpt'[i] \in {rcpt[i], rcptD[i]}
              /\ \A r \in renames' \ renames : CondHolds(r)
=============================================================================
