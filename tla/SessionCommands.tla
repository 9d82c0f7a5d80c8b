---------------------------- MODULE SessionCommands --------------------------
(***************************************************************************)
(* The commands that act on a managed WebTTY session another process runs  *)
(* (cmd/webtty_sessions.go, webtty_session_start.go,                       *)
(* webtty_session_stop.go): start one detached, join it as a spectator,    *)
(* join it and ask for control of its input, and stop it.  Several run at  *)
(* once.  The engine is external: it keeps the session, its participants   *)
(* and the control requests, ends the session when its process exits, may  *)
(* drop a participant at any time, and somebody else answers requests.     *)
(*                                                                         *)
(* A join with control runs two goroutines: the client that carries the    *)
(* stream, and the command that polls the engine and opens the client's    *)
(* input once control is granted.                                          *)
(***************************************************************************)
EXTENDS Naturals, Sequences, FiniteSets

CONSTANTS Procs,     \* commands
          Commands,  \* the command lines a process may run
          Machines,  \* what the machine of a command holds
          GrantSets  \* the key grants a session may have

VARIABLES session,   \* status, exit code, encryption and key grants of the session
          part,      \* the participant of each process: none, attached, live, detached
          request,   \* the control request of each process
          cmd, machine,
          pc,
          key,       \* the session key the process has: where it came from, whose device it presents
          client,    \* the stream: none, dialing, streaming, ended
          result,    \* the result channel: what the stream ended with
          cancelled, \* runCtx of the process
          stdin,     \* held until stdinReady is closed
          exit,      \* what the command returned
          granted,   \* history: processes whose request was granted
          sent       \* history: processes whose stream carried input from stdin

engineVars == <<session, part, request, granted>>
procVars == <<cmd, machine, pc, key, client, result, cancelled, stdin, exit, sent>>
vars == <<engineVars, procVars>>

NoExit == 99
NoResult == [there |-> FALSE, ok |-> FALSE, code |-> NoExit]
NoKey == [from |-> "none", recipient |-> "", presents |-> ""]
Running == {"opening", "active"}
Ended == {"closed", "errored"}

-----------------------------------------------------------------------------
(* Which key a command reads a session with. *)

\* The grants addressed to a recipient: none, one of them opens, or none does.
FromGrantRecipient(grants, id, kind) ==
    LET mine == {g \in grants : g.recipient = id /\ g.kind = kind}
    IN  IF mine = {} THEN "none" ELSE IF \E g \in mine : g.opens THEN "key" ELSE "error"

\* The workspace devices in file order: the first usable one with a grant that
\* opens wins; otherwise a failure, or a device without a grant, is an error.
FromWorkspaceDevices(m, grants) ==
    LET usable == SelectSeq(m.devices, LAMBDA d : d.active /\ d.keyed)
        of(d) == IF d.loads THEN FromGrantRecipient(grants, d.id, "workspace_device") ELSE "error"
        opens == {i \in 1..Len(usable) : of(usable[i]) = "key"}
    IN  IF opens # {}
        THEN [got |-> "key", id |-> usable[CHOOSE i \in opens : \A j \in opens : i <= j].id]
        ELSE [got |-> IF usable = <<>> THEN "none" ELSE "error", id |-> ""]

\* A command that attaches also proves its device to the control plane, which
\* says which of the devices it takes this machine for.
AttachWorkspaceCredential(m, id) ==
    m.current = "none" \/ m.current = id

FromEndpointIdentities(m, grants) ==
    {i \in m.identities : FromGrantRecipient(grants, i, "public_key") = "key"}

\* Devices first, then endpoint identities with a public_key grant.  A failure
\* of the devices does not keep an identity from being tried.
SessionKey(m, s, attaches) ==
    LET dev == FromWorkspaceDevices(m, s.grants)
        device == dev.got = "key" /\ (attaches => AttachWorkspaceCredential(m, dev.id))
        opening == FromEndpointIdentities(m, s.grants)
    IN  IF ~s.e2e THEN [ok |-> TRUE, of |-> NoKey]
        ELSE IF device
        THEN [ok |-> TRUE, of |-> [from |-> "device", recipient |-> dev.id,
                                   presents |-> IF attaches /\ m.current # "none" THEN m.current ELSE dev.id]]
        ELSE IF opening # {}
        THEN [ok |-> TRUE, of |-> [from |-> "identity", recipient |-> CHOOSE i \in opening : TRUE, presents |-> ""]]
        ELSE [ok |-> FALSE, of |-> NoKey]

-----------------------------------------------------------------------------
Init ==
    /\ session \in [status : {"none", "active"}, code : {NoExit}, e2e : BOOLEAN, grants : GrantSets]
    /\ cmd \in [Procs -> Commands]
    /\ machine \in [Procs -> Machines]
    /\ part = [p \in Procs |-> "none"]
    /\ request = [p \in Procs |-> "none"]
    /\ pc = [p \in Procs |-> "begin"]
    /\ key = [p \in Procs |-> NoKey]
    /\ client = [p \in Procs |-> "none"]
    /\ result = [p \in Procs |-> NoResult]
    /\ cancelled = [p \in Procs |-> FALSE]
    /\ stdin = [p \in Procs |-> "held"]
    /\ exit = [p \in Procs |-> [back |-> "no", code |-> NoExit]]
    /\ granted = {}
    /\ sent = {}

Goto(p, label) == pc' = [pc EXCEPT ![p] = label]

\* The command returns, through its deferred calls where it has attached.
Return(p, how, code) ==
    /\ exit' = [exit EXCEPT ![p] = [back |-> how, code |-> code]]
    /\ Goto(p, IF part[p] = "none" THEN "done" ELSE "detach")

\* What a stream ended with, as the command reports it.
ResultError(p) ==
    Return(p, IF result[p].ok THEN "ok" ELSE "error", result[p].code)

-----------------------------------------------------------------------------
(* Starting a detached session. *)

\* Opening the session: the engine acknowledges it, or the answer is lost, in
\* which case the command may be running all the same.
OpenDetached(p) ==
    /\ pc[p] = "begin" /\ cmd[p] = "start" /\ session.status = "none"
    /\ \/ session' = [session EXCEPT !.status = "active"] /\ Goto(p, "eof") /\ UNCHANGED exit
       \/ session' \in {session, [session EXCEPT !.status = "active"]} /\ Return(p, "unconfirmed", NoExit)
    /\ client' = [client EXCEPT ![p] = IF pc'[p] = "eof" THEN "streaming" ELSE "none"]
    /\ UNCHANGED <<part, request, granted, cmd, machine, key, result, cancelled, stdin, sent>>

\* stdin is closed, the reader disconnects, and the session goes on.
Disconnect(p) ==
    /\ pc[p] = "eof"
    /\ client' = [client EXCEPT ![p] = "ended"]
    /\ \E how \in {"ok", "unconfirmed"} : Return(p, how, NoExit)
    /\ UNCHANGED <<engineVars, cmd, machine, key, result, cancelled, stdin, sent>>

-----------------------------------------------------------------------------
(* Joining and stopping: read the session, find its key, attach. *)

\* stopWebTTYSession answers from the session when it has already ended.
AlreadyEnded(p) ==
    /\ pc[p] = "begin" /\ cmd[p] = "stop" /\ session.status \in Ended
    /\ Return(p, IF session.code = NoExit THEN "error" ELSE "ok", session.code)
    /\ UNCHANGED <<engineVars, cmd, machine, key, client, result, cancelled, stdin, sent>>

\* Capabilities, session status and key material are validated before the
\* participant is created.
FindKey(p) ==
    /\ pc[p] = "begin" /\ cmd[p] \in {"join", "control", "stop"}
    /\ LET k == SessionKey(machine[p], session, TRUE)
       IN  \/ /\ session.status = "active" /\ k.ok
              /\ key' = [key EXCEPT ![p] = k.of]
              /\ Goto(p, "attach") /\ UNCHANGED exit
           \/ /\ session.status \notin Ended \/ cmd[p] # "stop"
              /\ Return(p, "error", NoExit) /\ UNCHANGED key
    /\ UNCHANGED <<engineVars, cmd, machine, client, result, cancelled, stdin, sent>>

\* The participant is created as a spectator; from here on every way out of
\* the command goes through the deferred detach.
AttachParticipant(p) ==
    /\ pc[p] = "attach"
    /\ \/ /\ session.status = "active"
          /\ part' = [part EXCEPT ![p] = "attached"]
          /\ client' = [client EXCEPT ![p] = "dialing"]
          /\ Goto(p, CASE cmd[p] = "join" -> "run" [] cmd[p] = "control" -> "live" [] OTHER -> "open")
          /\ stdin' = [stdin EXCEPT ![p] = IF cmd[p] = "join" THEN "open" ELSE "held"]
          /\ UNCHANGED exit
       \/ Return(p, "error", NoExit) /\ UNCHANGED <<part, client, stdin>>
    /\ UNCHANGED <<session, request, granted, cmd, machine, key, result, cancelled, sent>>

\* The deferred detach, in a context of its own that a cancelled command does
\* not cancel.  The engine may have detached the participant already.
Detach(p) ==
    /\ pc[p] = "detach"
    /\ Goto(p, "done")
    /\ \/ part' = [part EXCEPT ![p] = "detached"] /\ UNCHANGED exit
       \/ /\ UNCHANGED part
          /\ exit' = IF cmd[p] = "stop" /\ exit[p].back = "ok" /\ part[p] # "detached"
                     THEN [exit EXCEPT ![p].back = "error"] ELSE exit
    /\ UNCHANGED <<session, request, granted, cmd, machine, key, client, result, cancelled, stdin, sent>>

-----------------------------------------------------------------------------
(* The stream of a participant, run by webtty.RunClient or a ClientSession. *)

StreamOpens(p) ==
    /\ client[p] = "dialing" /\ ~cancelled[p] /\ part[p] = "attached" /\ session.status = "active"
    /\ client' = [client EXCEPT ![p] = "streaming"]
    /\ part' = [part EXCEPT ![p] = "live"]
    /\ UNCHANGED <<session, request, granted, cmd, machine, pc, key, result, cancelled, stdin, exit, sent>>

\* It ends with the exit code of the session's process, or with an error: it
\* was cancelled, the participant was dropped, or the connection failed.
StreamEnds(p) ==
    /\ client[p] \in {"dialing", "streaming"} /\ cmd[p] # "start"
    /\ client' = [client EXCEPT ![p] = "ended"]
    /\ \/ /\ client[p] = "streaming" /\ session.status = "closed"
          /\ result' = [result EXCEPT ![p] = [there |-> TRUE, ok |-> TRUE, code |-> session.code]]
       \/ result' = [result EXCEPT ![p] = [there |-> TRUE, ok |-> FALSE, code |-> NoExit]]
    /\ UNCHANGED <<engineVars, cmd, machine, pc, key, cancelled, stdin, exit, sent>>

\* stdinSessionLoop forwards what is typed once stdinReady is closed.
SendInput(p) ==
    /\ client[p] = "streaming" /\ stdin[p] = "open" /\ ~cancelled[p]
    /\ sent' = sent \union {p}
    /\ UNCHANGED <<engineVars, cmd, machine, pc, key, client, result, cancelled, stdin, exit>>

-----------------------------------------------------------------------------
(* Joining with control. *)

\* Every wait of the command also takes the result of a stream that ended.
TakeResult(p) ==
    /\ pc[p] \in {"run", "live", "wait", "input"} /\ result[p].there
    /\ ResultError(p)
    /\ result' = [result EXCEPT ![p].there = FALSE]
    /\ UNCHANGED <<engineVars, cmd, machine, key, client, cancelled, stdin, sent>>

Abort(p) ==
    /\ cancelled' = [cancelled EXCEPT ![p] = TRUE]
    /\ Goto(p, "abort")
    /\ UNCHANGED <<engineVars, cmd, machine, key, client, result, stdin, exit, sent>>

\* waitForWebTTYParticipantLive: a tick that lists the participant as
\* connected goes on, one that lists it as detached, the ten second timer and
\* an interrupt give up; a failed listing is remembered and polled again.
PollLive(p) ==
    /\ pc[p] = "live"
    /\ \/ part[p] = "live" /\ Goto(p, "request")
          /\ UNCHANGED <<engineVars, cmd, machine, key, client, result, cancelled, stdin, exit, sent>>
       \/ Abort(p)

CreateControlRequest(p) ==
    /\ pc[p] = "request" /\ cmd[p] = "control"
    /\ \/ /\ part[p] = "live" /\ request' = [request EXCEPT ![p] = "pending"]
          /\ Goto(p, "wait")
          /\ UNCHANGED <<session, part, granted, cmd, machine, key, client, result, cancelled, stdin, exit, sent>>
       \/ Abort(p)

\* PollGrant, with a request that is no longer pending taken for granted.
PollAnswered(p) ==
    /\ pc[p] = "wait" /\ request[p] # "pending" /\ Goto(p, "input")
    /\ stdin' = [stdin EXCEPT ![p] = "open"]
    /\ UNCHANGED <<engineVars, cmd, machine, key, client, result, cancelled, exit, sent>>

\* waitForWebTTYControlGrant: there is no timer; a listing that fails gives up.
PollGrant(p) ==
    /\ pc[p] = "wait"
    /\ \/ request[p] = "granted" /\ Goto(p, "input")
          /\ stdin' = [stdin EXCEPT ![p] = "open"]
          /\ UNCHANGED <<engineVars, cmd, machine, key, client, result, cancelled, exit, sent>>
       \/ request[p] \in {"refused", "revoked", "expired"} /\ Abort(p)

\* A listing that fails, or an interrupt of the command.
GiveUp(p) == pc[p] = "wait" /\ Abort(p)

\* webTTYSessionAttachAbort waits for the stream, but not more than 5 s.
Aborted(p) ==
    /\ pc[p] = "abort"
    /\ Return(p, "error", NoExit)
    /\ result' = [result EXCEPT ![p].there = FALSE]
    /\ UNCHANGED <<engineVars, cmd, machine, key, client, cancelled, stdin, sent>>

-----------------------------------------------------------------------------
(* Stopping. *)

\* OpenClientSession, and whether the peer takes a termination request.
OpenForStop(p) ==
    /\ pc[p] = "open"
    /\ \/ client[p] = "streaming" /\ Goto(p, "request") /\ UNCHANGED exit
       \/ client[p] = "streaming" /\ Goto(p, "close")
          /\ exit' = [exit EXCEPT ![p].back = "error"]
       \/ client[p] = "ended" /\ Return(p, "error", NoExit)
    /\ UNCHANGED <<engineVars, cmd, machine, key, client, result, cancelled, stdin, sent>>

\* The stop creates a control request and grants it to itself.
AcquireControl(p) ==
    /\ pc[p] = "request" /\ cmd[p] = "stop"
    /\ \/ /\ part[p] = "live"
          /\ request' = [request EXCEPT ![p] = "granted"]
          /\ granted' = granted \union {p}
          /\ Goto(p, "terminate") /\ UNCHANGED exit
       \/ /\ request' \in {request, [request EXCEPT ![p] = "pending"]}
          /\ exit' = [exit EXCEPT ![p].back = "error"]
          /\ Goto(p, "close") /\ UNCHANGED granted
    /\ UNCHANGED <<session, part, cmd, machine, key, client, result, cancelled, stdin, sent>>

\* RequestTermination reaches the process, which exits, or fails.
RequestTermination(p) ==
    /\ pc[p] = "terminate"
    /\ \/ /\ client[p] = "streaming" /\ request[p] = "granted"
          /\ Goto(p, "waiting") /\ UNCHANGED exit
          /\ session' = IF session.status = "active"
                        THEN [session EXCEPT !.status = "closed", !.code = 1] ELSE session
       \/ /\ exit' = [exit EXCEPT ![p].back = "error"]
          /\ Goto(p, "close") /\ UNCHANGED session
    /\ UNCHANGED <<part, request, granted, cmd, machine, key, client, result, cancelled, stdin, sent>>

\* stream.Wait: the code of the process, or the termination is unconfirmed.
WaitTerminated(p) ==
    /\ pc[p] = "waiting" /\ client[p] = "ended"
    /\ exit' = [exit EXCEPT ![p].back = IF result[p].ok THEN "ok" ELSE "unconfirmed"]
    /\ Goto(p, "close")
    /\ UNCHANGED <<engineVars, cmd, machine, key, client, result, cancelled, stdin, sent>>

\* The deferred close: the stream is closed and drained, and the code it ended
\* with, if it did, is part of the answer; then comes the deferred detach.
CloseStream(p) ==
    /\ pc[p] = "close"
    /\ IF client[p] = "ended"
       THEN /\ Goto(p, "detach") /\ UNCHANGED cancelled
            /\ exit' = [exit EXCEPT ![p].code = IF result[p].ok THEN result[p].code ELSE NoExit]
       ELSE ~cancelled[p] /\ cancelled' = [cancelled EXCEPT ![p] = TRUE] /\ UNCHANGED <<pc, exit>>
    /\ UNCHANGED <<engineVars, cmd, machine, key, client, result, stdin, sent>>

-----------------------------------------------------------------------------
(* The engine, and whoever answers control requests. *)

ProcessExits ==
    /\ session.status = "active"
    /\ session' \in {[session EXCEPT !.status = "closed", !.code = 0],
                     [session EXCEPT !.status = "errored"]}
    /\ UNCHANGED <<part, request, granted, procVars>>

DropParticipant(p) ==
    /\ part[p] \in {"attached", "live"}
    /\ part' = [part EXCEPT ![p] = "detached"]
    /\ UNCHANGED <<session, request, granted, procVars>>

AnswerRequest(p) ==
    /\ \/ request[p] = "pending" /\ request' \in {[request EXCEPT ![p] = s] : s \in {"granted", "refused", "expired"}}
       \/ request[p] = "granted" /\ request' = [request EXCEPT ![p] = "revoked"]
    /\ granted' = IF request'[p] = "granted" THEN granted \union {p} ELSE granted
    /\ UNCHANGED <<session, part, procVars>>

Command(p) ==
    \/ OpenDetached(p) \/ Disconnect(p) \/ AlreadyEnded(p) \/ FindKey(p) \/ AttachParticipant(p)
    \/ Detach(p) \/ TakeResult(p) \/ PollLive(p) \/ CreateControlRequest(p) \/ PollGrant(p)
    \/ Aborted(p) \/ OpenForStop(p) \/ AcquireControl(p) \/ RequestTermination(p)
    \/ WaitTerminated(p) \/ CloseStream(p)

Next ==
    \/ \E p \in Procs : \/ Command(p) \/ StreamOpens(p) \/ StreamEnds(p) \/ SendInput(p)
                        \/ GiveUp(p) \/ DropParticipant(p) \/ AnswerRequest(p)
    \/ ProcessExits

Spec == Init /\ [][Next]_vars

\* A command's goroutine runs, its polls and timers fire, and a stream whose
\* session ended, whose participant was dropped or that was cancelled ends.
Over(p) == cancelled[p] \/ session.status # "active" \/ part[p] = "detached"
Runs ==
    \E p \in Procs : \/ Command(p)
                     \/ Over(p) /\ StreamEnds(p)
                     \/ client[p] = "dialing" /\ (StreamOpens(p) \/ StreamEnds(p))
FairSpec == Spec /\ WF_vars(Runs)

-----------------------------------------------------------------------------
TypeOK ==
    /\ session.status \in {"none"} \union Running \union Ended
    /\ part \in [Procs -> {"none", "attached", "live", "detached"}]
    /\ request \in [Procs -> {"none", "pending", "granted", "refused", "revoked", "expired"}]
    /\ client \in [Procs -> {"none", "dialing", "streaming", "ended"}]
    /\ cancelled \in [Procs -> BOOLEAN]
    /\ stdin \in [Procs -> {"held", "open"}]
    /\ \A p \in Procs : exit[p].back \in {"no", "ok", "error", "unconfirmed"}
    /\ granted \subseteq Procs /\ sent \subseteq Procs

\* No key stroke of a join with control, and no termination of a stop, goes
\* out on a stream before the engine granted that very process control
\* (runWebTTYSessionAttachWithControl closes stdinReady last).
InputNeedsGrant ==
    \A p \in Procs : /\ cmd[p] = "control" /\ p \in sent => p \in granted
                     /\ pc[p] \in {"terminate", "waiting"} => p \in granted

\* Whatever ended a command that attached, it has tried to detach its
\* participant before it returns: one that is still attached is one whose
\* detach call failed, and a stop then does not report success.
LeavesNoReader ==
    \A p \in Procs : /\ pc[p] \in {"begin", "attach"} => part[p] = "none"
                     /\ pc[p] = "done" /\ cmd[p] = "stop" /\ exit[p].back = "ok" => part[p] \in {"none", "detached"}

\* A stop that reports success reports the exit code the session ended with,
\* and one that could not confirm the end reports none.
StopConfirms ==
    \A p \in Procs :
        pc[p] = "done" /\ cmd[p] = "stop" =>
            /\ exit[p].back = "ok" => session.status \in Ended /\ exit[p].code = session.code /\ exit[p].code # NoExit
            /\ exit[p].back = "unconfirmed" => exit[p].code = NoExit

\* The device a command presents to the engine is the one whose key grant it
\* reads the session with, and that grant is a grant of this session.
KeyFits ==
    \A p \in Procs :
        key[p].from # "none" =>
            /\ \E g \in session.grants : g.opens /\ g.recipient = key[p].recipient
            /\ key[p].from = "device" => key[p].presents = key[p].recipient

SessionsInv == InputNeedsGrant /\ LeavesNoReader /\ StopConfirms /\ KeyFits

\* A command returns, unless it carries a stream of a session that goes on or
\* waits for the answer to its control request.
Settled ==
    \A p \in Procs : \/ pc[p] = "done"
                     \/ pc[p] = "begin" /\ cmd[p] = "start"
                     \/ client[p] = "streaming" /\ session.status = "active" /\ pc[p] \in {"run", "wait", "input"}
=============================================================================
