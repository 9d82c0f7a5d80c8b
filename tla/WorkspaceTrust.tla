---------------------------- MODULE WorkspaceTrust ---------------------------
(***************************************************************************)
(* Trusted workspace devices (cmd/workspace_device.go), the enrolment of a *)
(* registered WebTTY server (cmd/webtty_enroll.go,                         *)
(* cmd/webtty_server_admin.go) and the client credential a workspace       *)
(* managed server verifies (cmd/webtty_workspace_trust.go).  The state is  *)
(* split between this machine's files and the control plane: every command *)
(* reads files, calls the control plane and writes files, and may fail or  *)
(* be killed between any two of these; several commands run at once, and   *)
(* only single file writes are under a lock.  The control plane is         *)
(* external: it keeps the status of each device and of each server, and    *)
(* somebody in a browser approves, revokes or loses devices.               *)
(***************************************************************************)
EXTENDS Naturals, FiniteSets

CONSTANTS Procs,       \* commands running at the same time on this machine
          MaxDevices,  \* bound on the devices created
          MaxKeys,     \* bound on the server keys generated
          MaxRuns      \* bound on the commands run

VARIABLES remote,    \* status of each device at the control plane
          approved,  \* devices the workspace keyset has signed for: they have an envelope
          file,      \* the device file of each device
          identity,  \* devices whose WebTTY identity file is written
          server,    \* the registered server: status, key, trusted
          serverKey, \* the server identity file: generation of its key, 0 for none
          keys,      \* server keys generated so far
          enrolled,  \* the server enrolment file: there, key, keyset pinned
          pc, cmd,   \* where each process is, and its command
          view,      \* the device files as the process has them in memory
          todo,      \* the devices it has still to look at
          mine,      \* the server key of the enrolment it has in memory
          runs,
          byRotation, \* history: devices a rotation has revoked
          verdict     \* history: the last credential presented to the server

deviceVars == <<remote, approved, file, identity, byRotation>>
serverVars == <<server, serverKey, keys, enrolled, verdict>>
procVars == <<pc, cmd, view, todo, mine, runs>>
vars == <<deviceVars, serverVars, procVars>>

Devices == 1..MaxDevices
NoFile == [there |-> FALSE, status |-> "none", envelope |-> FALSE, rotates |-> 0, completed |-> FALSE]
Live == {"pending", "active"}
Least(S) == CHOOSE d \in S : \A e \in S : d <= e

Init ==
    /\ remote = [d \in Devices |-> "none"]
    /\ approved = {}
    /\ file = [d \in Devices |-> NoFile]
    /\ identity = {}
    /\ server = [status |-> "none", key |-> 0, trusted |-> {}]
    /\ serverKey = 0
    /\ keys = 0
    /\ enrolled = [there |-> FALSE, key |-> 0, keyset |-> FALSE]
    /\ pc = [p \in Procs |-> "idle"]
    /\ cmd = [p \in Procs |-> "none"]
    /\ view = [p \in Procs |-> [d \in Devices |-> NoFile]]
    /\ todo = [p \in Procs |-> {}]
    /\ mine = [p \in Procs |-> 0]
    /\ runs = 0
    /\ byRotation = {}
    /\ verdict = [given |-> FALSE]

-----------------------------------------------------------------------------
\* Every command starts from loadWorkspaceDeviceFiles, the files in the order
\* the devices were created.
Load(p, c) ==
    /\ pc[p] = "idle" /\ runs < MaxRuns
    /\ runs' = runs + 1
    /\ cmd' = [cmd EXCEPT ![p] = c]
    /\ view' = [view EXCEPT ![p] = file]
    /\ todo' = [todo EXCEPT ![p] = {d \in Devices : file[d].there}]
    /\ pc' = [pc EXCEPT ![p] = "lookup"]
    /\ UNCHANGED <<deviceVars, server, enrolled, verdict>>

runWorkspaceDeviceEnroll(p) == Load(p, "enroll") /\ UNCHANGED <<mine, keys, serverKey>>

runWorkspaceDeviceRotate(p) == Load(p, "rotate") /\ UNCHANGED <<mine, keys, serverKey>>

runWorkspaceDeviceStatus(p) ==
    /\ \E d \in Devices : file[d].there
    /\ Load(p, "status") /\ UNCHANGED <<mine, keys, serverKey>>

\* Enrolling a server has loaded its identity, or created it, before that.
runWebTTYServerEnroll(p) ==
    /\ IF serverKey = 0
       THEN keys < MaxKeys /\ keys' = keys + 1 /\ serverKey' = keys + 1
       ELSE UNCHANGED <<keys, serverKey>>
    /\ mine' = [mine EXCEPT ![p] = serverKey']
    /\ Load(p, "serve")

\* Pinning has loaded the enrolment file.
runWebTTYServerTrust(p) ==
    /\ enrolled.there
    /\ mine' = [mine EXCEPT ![p] = enrolled.key]
    /\ Load(p, "pin") /\ UNCHANGED <<keys, serverKey>>

Goto(p, l) == pc' = [pc EXCEPT ![p] = l]

Finish(p) ==
    /\ Goto(p, "idle")
    /\ cmd' = [cmd EXCEPT ![p] = "none"]
    /\ view' = [view EXCEPT ![p] = [d \in Devices |-> NoFile]]
    /\ todo' = [todo EXCEPT ![p] = {}]
    /\ mine' = [mine EXCEPT ![p] = 0]

\* refreshWorkspaceDeviceStatusContext: the control plane's status and
\* envelope go into the copy the process loaded, not into the file's present
\* content; writeWorkspaceDeviceFileAt then writes the whole copy back.
Lookup(p) ==
    LET d == Least(todo[p])
    IN  /\ pc[p] = "lookup" /\ todo[p] # {}
        /\ view' = [view EXCEPT ![p][d].status = remote[d], ![p][d].envelope = d \in approved]
        /\ Goto(p, "refresh")
        /\ UNCHANGED <<deviceVars, serverVars, cmd, todo, mine, runs>>

\* What a command does once a device is refreshed: enroll and rotate stop at
\* the first one that is pending or active, the trust commands at the first
\* active one.
StopsAt(p, d) ==
    CASE cmd[p] \in {"enroll", "rotate"} -> view[p][d].status \in Live
      [] cmd[p] = "status" -> FALSE
      [] OTHER -> view[p][d].status = "active" /\ view[p][d].envelope

WriteBack(p) ==
    LET d == Least(todo[p])
    IN  /\ pc[p] = "refresh"
        /\ file' = [file EXCEPT ![d] = view[p][d]]
        /\ IF StopsAt(p, d)
           THEN Goto(p, "found") /\ UNCHANGED todo
           ELSE todo' = [todo EXCEPT ![p] = @ \ {d}] /\ Goto(p, "lookup")
        /\ UNCHANGED <<remote, approved, identity, byRotation, serverVars, cmd, view, mine, runs>>

\* workspaceTrustedDeviceForServerTrust goes on to the next device when one
\* cannot be refreshed or its envelope does not open.
SkipDevice(p) ==
    /\ cmd[p] \in {"serve", "pin"} /\ todo[p] # {} /\ pc[p] \in {"lookup", "found"}
    /\ todo' = [todo EXCEPT ![p] = @ \ {Least(@)}]
    /\ Goto(p, "lookup")
    /\ UNCHANGED <<deviceVars, serverVars, cmd, view, mine, runs>>

\* The answer of reusableWorkspaceDevice: enroll reports the device it found,
\* rotate needs one, and with none status goes on to the rotations.
Decide(p) ==
    /\ \/ pc[p] = "found" /\ cmd[p] = "rotate" /\ Goto(p, "create")
          /\ UNCHANGED <<cmd, view, todo, mine>>
       \/ pc[p] = "found" /\ cmd[p] \in {"serve", "pin"} /\ Goto(p, cmd[p])
          /\ UNCHANGED <<cmd, view, todo, mine>>
       \/ pc[p] = "found" /\ cmd[p] = "enroll" /\ Finish(p)
       \/ pc[p] = "lookup" /\ todo[p] = {} /\ cmd[p] = "enroll" /\ Goto(p, "create")
          /\ UNCHANGED <<cmd, view, todo, mine>>
       \/ pc[p] = "lookup" /\ todo[p] = {} /\ cmd[p] \in {"rotate", "serve", "pin"} /\ Finish(p)
       \/ pc[p] = "lookup" /\ todo[p] = {} /\ cmd[p] = "status" /\ Goto(p, "rotations")
          /\ todo' = [todo EXCEPT ![p] = {d \in Devices : view[p][d].there}]
          /\ UNCHANGED <<cmd, view, mine>>
    /\ UNCHANGED <<deviceVars, serverVars, runs>>

\* generateWorkspaceDeviceMaterial, with what createWorkspaceDevice adds to it.
material(rotated) == [NoFile EXCEPT !.there = TRUE, !.status = "pending", !.rotates = rotated]

\* createWorkspaceDevice: the control plane makes a pending device, then the
\* identity file is written, then the device file that names it.
CreateRemote(p) ==
    LET free == {d \in Devices : remote[d] = "none"}
        d == Least(free)
    IN  /\ pc[p] = "create" /\ free # {}
        /\ remote' = [remote EXCEPT ![d] = "pending"]
        /\ view' = [view EXCEPT ![p][d] = material(IF cmd[p] = "rotate" THEN Least(todo[p]) ELSE 0)]
        /\ todo' = [todo EXCEPT ![p] = {d}]
        /\ Goto(p, "identity")
        /\ UNCHANGED <<approved, file, identity, byRotation, serverVars, cmd, mine, runs>>

WriteIdentity(p) ==
    /\ pc[p] = "identity"
    /\ identity' = identity \union todo[p]
    /\ Goto(p, "device")
    /\ UNCHANGED <<remote, approved, file, byRotation, serverVars, cmd, view, todo, mine, runs>>

WriteDevice(p) ==
    LET d == Least(todo[p])
    IN  /\ pc[p] = "device"
        /\ file' = [file EXCEPT ![d] = view[p][d]]
        /\ Finish(p)
        /\ UNCHANGED <<remote, approved, identity, byRotation, serverVars, runs>>

\* RotationDue, of a replacement that is not active yet too.
RotationOpen(p, d) == view[p][d].rotates # 0 /\ ~view[p][d].completed

\* completeWorkspaceDeviceRotations, one device at a time: only an active
\* replacement whose rotation is open is looked at.
RotationDue(p, d) == view[p][d].rotates # 0 /\ ~view[p][d].completed /\ view[p][d].status = "active"

SkipRotation(p) ==
    /\ pc[p] = "rotations"
    /\ IF todo[p] = {}
       THEN Finish(p)
       ELSE /\ ~RotationDue(p, Least(todo[p]))
            /\ todo' = [todo EXCEPT ![p] = @ \ {Least(@)}]
            /\ UNCHANGED <<pc, cmd, view, mine>>
    /\ UNCHANGED <<deviceVars, serverVars, runs>>

\* The replacement signs the revocation of the device it replaces.
RevokeReplaced(p) ==
    LET d == Least(todo[p])
        old == view[p][d].rotates
    IN  /\ pc[p] = "rotations" /\ todo[p] # {} /\ RotationDue(p, d)
        /\ view[p][old].there /\ view[p][old].status \in Live
        /\ remote' = [remote EXCEPT ![old] = IF @ \in Live THEN "revoked" ELSE @]
        /\ byRotation' = IF remote[old] \in Live THEN byRotation \union {<<d, old>>} ELSE byRotation
        /\ view' = [view EXCEPT ![p][old].status = "revoked"]
        /\ Goto(p, "replaced")
        /\ UNCHANGED <<approved, file, identity, serverVars, cmd, todo, mine, runs>>

WriteReplaced(p) ==
    LET old == view[p][Least(todo[p])].rotates
    IN  /\ pc[p] = "replaced"
        /\ file' = [file EXCEPT ![old] = view[p][old]]
        /\ Goto(p, "rotations")
        /\ UNCHANGED <<remote, approved, identity, byRotation, serverVars, cmd, view, todo, mine, runs>>

CompleteRotation(p) ==
    LET d == Least(todo[p])
        old == view[p][d].rotates
    IN  /\ pc[p] = "rotations" /\ todo[p] # {} /\ RotationDue(p, d)
        /\ view[p][old].there /\ view[p][old].status \notin Live
        /\ view' = [view EXCEPT ![p][d].completed = TRUE]
        /\ file' = [file EXCEPT ![d] = view'[p][d]]
        /\ todo' = [todo EXCEPT ![p] = @ \ {d}]
        /\ UNCHANGED <<remote, approved, identity, byRotation, serverVars, pc, cmd, mine, runs>>

-----------------------------------------------------------------------------
\* The registered server.  `webtty server create` makes it, pending, unless
\* one of that name exists; delete and `identity remove` take the server and
\* the local identity away.  The id of a deleted server is not used again.
CreateServer ==
    /\ server.status = "none"
    /\ server' = [status |-> "pending", key |-> 0, trusted |-> {}]
    /\ UNCHANGED <<deviceVars, serverKey, keys, enrolled, verdict, procVars>>

DeleteServer ==
    /\ server.status \in Live
    /\ server' = [server EXCEPT !.status = "deleted"]
    /\ UNCHANGED <<deviceVars, serverKey, keys, enrolled, verdict, procVars>>

RemoveIdentity ==
    /\ serverKey # 0
    /\ serverKey' = 0
    /\ UNCHANGED <<deviceVars, server, keys, enrolled, verdict, procVars>>

\* enrollWebTTYServer, with the trusted device found: the identity loaded is
\* registered with the control plane, then the enrolment file is written,
\* without a pinned keyset.
RegisterServer(p) ==
    /\ pc[p] = "serve"
    /\ server.status \in Live
    /\ server' = [server EXCEPT !.status = "active", !.key = mine[p]]
    /\ Goto(p, "enrolment")
    /\ UNCHANGED <<deviceVars, serverKey, keys, enrolled, verdict, cmd, view, todo, mine, runs>>

WriteEnrolment(p) ==
    /\ pc[p] = "enrolment"
    /\ enrolled' = [there |-> TRUE, key |-> mine[p], keyset |-> FALSE]
    /\ Goto(p, "pin")
    /\ UNCHANGED <<deviceVars, server, serverKey, keys, verdict, cmd, view, todo, mine, runs>>

\* maybeApproveWorkspaceManagedWebTTYServerTrust: an active device opens the
\* keyset's private bundle from its envelope and has the control plane record
\* the keyset's signature over the enrolment it has in memory; the control
\* plane checks it against the registered key.  Only then is that enrolment
\* written again, with the keyset pinned.
ApproveTrust(p) ==
    /\ pc[p] = "pin"
    /\ server.status = "active" /\ server.key = mine[p]
    /\ server' = [server EXCEPT !.trusted = @ \union {mine[p]}]
    /\ Goto(p, "pinned")
    /\ UNCHANGED <<deviceVars, serverKey, keys, enrolled, verdict, cmd, view, todo, mine, runs>>

PinKeyset(p) ==
    /\ pc[p] = "pinned"
    /\ enrolled' = [there |-> TRUE, key |-> mine[p], keyset |-> TRUE]
    /\ Finish(p)
    /\ UNCHANGED <<deviceVars, server, serverKey, keys, verdict, runs>>

\* webTTYWorkspaceClientCredential: what an active device with its identity
\* file signs for one server; the trust payload is the keyset's own approval
\* of the device.
clientCredential(d, s) == [server |-> s, device |-> d, key |-> d, trust |-> IF d \in approved THEN d ELSE 0]

\* verifyWebTTYWorkspaceClientCredential: the credential is for this server,
\* the enrolment has a pinned keyset and it signed for this very device, and
\* the key of the client's proof is the device's signing key.
verifies(c, proofKey) ==
    /\ enrolled.there /\ enrolled.keyset
    /\ c.server = "this"
    /\ c.key = proofKey
    /\ c.trust = c.device

\* A device presents a credential, its own or one prepared for another
\* server or by another device of this machine, and proves its own key.  A
\* server only runs with the identity its enrolment names.
Connect(d, e, s) ==
    LET c == clientCredential(d, s)
    IN  /\ enrolled.there /\ enrolled.key = serverKey
        /\ file[d].there /\ file[d].status = "active" /\ file[d].envelope
        /\ d \in identity /\ file[e].there
        /\ verdict' = [given |-> TRUE, c |-> c, by |-> e, ok |-> verifies(c, e), pinned |-> enrolled.keyset]
        /\ UNCHANGED <<deviceVars, server, serverKey, keys, enrolled, procVars>>

-----------------------------------------------------------------------------
\* Somebody approves a pending device, revokes one, or reports it lost.
Approve(d) ==
    /\ remote[d] = "pending"
    /\ remote' = [remote EXCEPT ![d] = "active"]
    /\ approved' = approved \union {d}
    /\ UNCHANGED <<file, identity, byRotation, serverVars, procVars>>

Revoke(d) ==
    /\ remote[d] \in Live
    /\ \E s \in {"revoked", "lost"} : remote' = [remote EXCEPT ![d] = s]
    /\ UNCHANGED <<approved, file, identity, byRotation, serverVars, procVars>>

\* A call fails, a check refuses, or the process is killed.
Abandon(p) ==
    /\ pc[p] # "idle"
    /\ Finish(p)
    /\ UNCHANGED <<deviceVars, serverVars, runs>>

Next ==
    \/ \E p \in Procs :
        \/ runWorkspaceDeviceEnroll(p) \/ runWorkspaceDeviceRotate(p) \/ runWorkspaceDeviceStatus(p)
        \/ runWebTTYServerEnroll(p) \/ runWebTTYServerTrust(p)
        \/ Lookup(p) \/ WriteBack(p) \/ SkipDevice(p) \/ Decide(p)
        \/ CreateRemote(p) \/ WriteIdentity(p) \/ WriteDevice(p)
        \/ SkipRotation(p) \/ RevokeReplaced(p) \/ WriteReplaced(p) \/ CompleteRotation(p)
        \/ RegisterServer(p) \/ WriteEnrolment(p) \/ ApproveTrust(p) \/ PinKeyset(p)
        \/ Abandon(p)
    \/ \E d \in Devices : Approve(d) \/ Revoke(d)
    \/ CreateServer \/ DeleteServer \/ RemoveIdentity
    \/ \E d, e \in Devices, s \in {"this", "other"} : Connect(d, e, s)

Spec == Init /\ [][Next]_vars

-----------------------------------------------------------------------------
TypeOK ==
    /\ remote \in [Devices -> {"none", "pending", "active", "revoked", "lost"}]
    /\ approved \subseteq Devices /\ identity \subseteq Devices
    /\ \A d \in Devices : file[d].rotates \in 0..MaxDevices
    /\ serverKey \in 0..MaxKeys /\ server.trusted \subseteq 1..MaxKeys
    /\ \A p \in Procs : todo[p] \subseteq Devices

\* A device file is only written for a device the control plane has, after
\* its identity file: no command can be stopped so that a file names a
\* missing identity.
FilesAreBacked == \A d \in Devices : file[d].there => d \in identity /\ remote[d] # "none"

\* What a file says of a device was true: it says active only of a device
\* that was approved, and an open envelope only of one that has it.
FilesLag == \A d \in Devices : file[d].status = "active" \/ file[d].envelope => d \in approved

\* Rotation never locks the machine out: a device it revokes was replaced by
\* one that has been approved.
ReplacedByApproved == \A x \in byRotation : x[1] \in approved

\* A rotation a file calls complete has taken effect: the replaced device is
\* not usable any more, whoever wrote the files last.
CompletedMeansRevoked ==
    \A d \in Devices : file[d].completed => remote[file[d].rotates] \in {"revoked", "lost"}

\* A keyset is pinned in the enrolment file only next to a server key the
\* control plane has recorded the keyset's trust in.
PinnedMeansTrusted == enrolled.keyset => enrolled.key \in server.trusted

\* A server accepts a credential exactly when it was made for this server by
\* the device that presents it, that device has been approved, and the
\* keyset is pinned.
AcceptsTheApproved ==
    verdict.given => (verdict.ok <=> /\ verdict.pinned /\ verdict.c.server = "this"
                                     /\ verdict.c.device = verdict.by /\ verdict.by \in approved)

TrustInv ==
    FilesAreBacked /\ FilesLag /\ ReplacedByApproved /\ CompletedMeansRevoked /\ PinnedMeansTrusted /\ AcceptsTheApproved
=============================================================================
